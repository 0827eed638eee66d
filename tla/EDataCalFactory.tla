-------------------------- MODULE EDataCalFactory ---------------------------
(***************************************************************************)
(* The factory of calendars (calendar/libedata-cal/e-data-cal-factory.c)   *)
(* and the clients of a calendar backend (e-cal-backend.c).  getCal holds  *)
(* backends_mutex from the lookup to its end.  The table has the only      *)
(* reference to a backend, as no client has opened a view.                 *)
(***************************************************************************)
EXTENDS EDataFactory

CONSTANT Unsupported     \* clients that ask for a method without backend factory

ASSUME UnsupportedAssumption == Unsupported \subseteq Clients

VARIABLES calMode,       \* priv->mode
          backendsMutex  \* the client whose request holds backends_mutex

calVars == <<calMode, backendsMutex>>

CalInit == calMode = "online" /\ backendsMutex = None

CalAt(c, p) == Up /\ At(c, p, Calendars)

-----------------------------------------------------------------------------
(* getCal, in the thread of the request                                    *)

\* The handler that ends the process has counted the calendars already.
Overlooked == MainAt("countBooks") \/ server = "quitting"

\* mutant: the lock is held for the lookup only
getCal_unlocks(c, u) ==
    /\ Up
    /\ client[c].pc = "new" /\ c \notin Unsupported
    /\ backendsMutex = None
    /\ LookupOrLaunch(c, u)
    /\ raced' = (raced \/ Overlooked)
    /\ UNCHANGED <<main, server, stranded, calMode, backendsMutex>>

getCal(c, u) ==
    /\ Up
    /\ client[c].pc = "new" /\ c \notin Unsupported
    /\ backendsMutex = None
    /\ backendsMutex' = c
    /\ LookupOrLaunch(c, u)
    /\ raced' = (raced \/ Overlooked)
    /\ UNCHANGED <<main, server, stranded, calMode>>

\* e_data_cal_new makes no calendar for the client: a backend that was launched
\* for it stays in the table.
getCal_new_fails(c, u) ==
    /\ Up
    /\ client[c].pc = "new" /\ c \notin Unsupported
    /\ backendsMutex = None
    /\ IF table[u] # None THEN UNCHANGED <<table, backend, stranded>>
       ELSE /\ Launch(c, u)
            /\ table' = [table EXCEPT ![u] = c]
            /\ stranded' = stranded \cup {c}
    /\ Goes(c, "failed")
    /\ UNCHANGED <<main, server, raced, calVars>>

\* The error path unlocks backends_mutex, which it has not locked: that sets
\* free the mutex of another request.
getCal_unsupported(c) ==
    /\ Up
    /\ client[c].pc = "new" /\ c \in Unsupported
    /\ Refused(c)
    /\ raced' = (raced \/ backendsMutex # None)
    /\ backendsMutex' = None
    /\ UNCHANGED calMode

\* There is a backend factory, but it makes no backend.
getCal_fails(c) ==
    /\ Up
    /\ client[c].pc = "new" /\ c \notin Unsupported
    /\ backendsMutex = None
    /\ Running(Calendars) # Calendars
    /\ Refused(c)
    /\ UNCHANGED <<raced, calVars>>

\* A backend that is finalized is free memory: the process crashes.
e_cal_backend_add_client(c) ==
    /\ CalAt(c, "add")
    /\ AddClient(c)
    /\ server' = IF backend[Of(c)].state = "finalized" THEN "crashed" ELSE server
    /\ raced' = (raced \/ (MainAt("calGone") /\ main.backend = Of(c)))
    /\ Goes(c, "mode")
    /\ UNCHANGED <<table, main, calVars>>

e_cal_backend_set_mode(c) ==
    /\ CalAt(c, "mode")
    /\ backend' = [backend EXCEPT ![Of(c)].mode = calMode]
    /\ server' = IF backend[Of(c)].state = "finalized" THEN "crashed" ELSE server
    /\ backendsMutex' = None
    /\ Goes(c, "connected")
    /\ UNCHANGED <<table, main, raced, stranded, calMode>>

-----------------------------------------------------------------------------
(* The main loop                                                           *)

\* listener_died_cb and e_cal_backend_remove_client: the list is tested after
\* clients_mutex was unlocked.
cal_listener_died(c) ==
    /\ Up
    /\ Breaks(c, Calendars)
    /\ RemoveClient(c)
    /\ server' = IF backend[Of(c)].state = "finalized" THEN "crashed" ELSE server
    /\ main' = [pc |-> "calTest", backend |-> Of(c)]
    /\ UNCHANGED <<table, stranded, calVars>>

cal_test ==
    /\ Up /\ MainAt("calTest")
    /\ main' = IF backend[main.backend].clients = {} THEN [main EXCEPT !.pc = "calGone"] ELSE Idle
    /\ UNCHANGED <<table, backend, client, server, raced, stranded, calVars>>

\* mutant: the backend is finalized and stays in the table
RemovedKeepsEntry(b) == table

Removed(b) == [table EXCEPT ![backend[b].uri] = None]

\* The assertions: the table holds this backend, and what is finalized has no
\* clients.
AssertionsHold(b) == table[backend[b].uri] = b /\ backend[b].clients = {}

\* mutant: the table is counted before the entry is removed
CountedTooEarly == MainAt("calGone") /\ Running(Calendars) = {}

\* Whether last_calendar_gone is emitted
CalendarsGone == MainAt("calGone") /\ Running(Calendars) \subseteq {backend[main.backend].uri}

cal_last_client_gone ==
    /\ Up /\ MainAt("calGone")
    /\ backendsMutex = None
    /\ table' = Removed(main.backend)
    /\ backend' = [backend EXCEPT ![main.backend].state = "finalized"]
    /\ server' = IF AssertionsHold(main.backend) THEN server ELSE "crashed"
    /\ main' = Idle
    /\ UNCHANGED <<client, raced, stranded, calVars>>

\* priv->mode is assigned before the lock is taken.
set_cal_mode(m) ==
    /\ Up /\ MainAt("idle")
    /\ calMode' = m
    /\ MainGoes("calMode")
    /\ UNCHANGED <<table, backend, client, server, raced, stranded, backendsMutex>>

set_cal_backends_mode ==
    /\ Up /\ MainAt("calMode")
    /\ backendsMutex = None
    /\ SetModes(Calendars, calMode)
    /\ MainGoes("bookMode")
    /\ UNCHANGED <<table, client, server, raced, stranded, calVars>>

cal_n_backends == Cardinality(Running(Calendars))
=============================================================================
