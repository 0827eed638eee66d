----------------------------- MODULE DataServer -----------------------------
(***************************************************************************)
(* The server process (src/server.c, src/offline-listener.c): both         *)
(* factories, the timeout that ends the process when no backend is in use, *)
(* and the switch between online and offline.                              *)
(***************************************************************************)
EXTENDS EDataBookFactory, EDataCalFactory

CONSTANT MaxSwitches     \* bound: switches between online and offline

ASSUME ServerAssumption == MaxSwitches \in Nat

VARIABLES termination,   \* termination_handler_id: the timeout is queued
          status,        \* what the offline listener was told last
          switches

serverVars == <<termination, status, switches>>

vars == <<factoryVars, bookMode, calVars, serverVars>>

Init == FactoryInit /\ BookInit /\ CalInit /\ termination = FALSE /\ status = "online" /\ switches = 0

-----------------------------------------------------------------------------
BookStep(A) == A /\ UNCHANGED <<calVars, serverVars>>

CalStep(A) == A /\ UNCHANGED <<bookMode, serverVars>>

\* last_book_gone_cb, last_calendar_gone_cb and queue_termination
BookGone ==
    /\ book_check
    /\ termination' = (termination \/ BooksGone)
    /\ UNCHANGED <<calVars, status, switches>>

CalGone ==
    /\ cal_last_client_gone
    /\ termination' = (termination \/ CalendarsGone)
    /\ UNCHANGED <<bookMode, status, switches>>

\* The calendars are counted under backends_mutex; if there are any, the books
\* change nothing.
termination_handler ==
    /\ server = "running" /\ MainAt("idle")
    /\ termination
    /\ backendsMutex = None
    /\ IF cal_n_backends = 0 THEN MainGoes("countBooks") /\ UNCHANGED termination
       ELSE UNCHANGED main /\ termination' = FALSE
    /\ UNCHANGED <<table, backend, client, server, raced, stranded, bookMode, calVars, status, switches>>

\* Then the books, under map_mutex; "quitting" is bonobo_main_quit.
termination_books ==
    /\ server = "running" /\ MainAt("countBooks")
    /\ server' = IF book_n_backends = 0 THEN "quitting" ELSE server
    /\ main' = Idle
    /\ termination' = FALSE
    /\ UNCHANGED <<table, backend, client, raced, stranded, bookMode, calVars, status, switches>>

\* bonobo_main returns, and main with it.
main_returns ==
    /\ server = "quitting" /\ MainAt("idle")
    /\ server' = "quit"
    /\ UNCHANGED <<table, backend, client, main, raced, stranded, bookMode, calVars, serverVars>>

\* online_status_changed: a value of GConf that is not new is ignored.
online_status_changed ==
    \E m \in Modes \ {status} :
        /\ switches < MaxSwitches
        /\ switches' = switches + 1
        /\ status' = m
        /\ set_cal_mode(m)
        /\ UNCHANGED <<bookMode, termination>>

-----------------------------------------------------------------------------
\* The steps of a request that has begun, and of a callback that has begun
Serves(c) ==
    \/ BookStep(e_book_backend_add_client(c))
    \/ BookStep(getBook_mode(c))
    \/ BookStep(e_book_backend_set_mode(c))
    \/ CalStep(e_cal_backend_add_client(c))
    \/ CalStep(e_cal_backend_set_mode(c))

MainLoop ==
    \/ BookStep(book_last_client_gone)
    \/ BookGone
    \/ CalStep(cal_test)
    \/ CalGone
    \/ CalStep(set_cal_backends_mode)
    \/ BookStep(e_data_book_factory_set_backend_mode(status))
    \/ termination_handler
    \/ termination_books
    \/ main_returns

Next ==
    \/ \E c \in Clients :
         \/ Serves(c)
         \/ \E u \in Books : BookStep(getBook(c, u))
         \/ BookStep(getBook_fails(c))
         \/ BookStep(e_book_backend_open(c))
         \/ BookStep(book_listener_died(c))
         \/ \E u \in Calendars : CalStep(getCal(c, u))
         \/ \E u \in Calendars : CalStep(getCal_new_fails(c, u))
         \/ CalStep(getCal_unsupported(c))
         \/ CalStep(getCal_fails(c))
         \/ CalStep(cal_listener_died(c))
    \/ MainLoop
    \/ online_status_changed

Spec == Init /\ [][Next]_vars

\* Threads and the main loop are scheduled; clients ask and leave as they like.
FairSpec == Spec /\ WF_vars(MainLoop) /\ \A c \in Clients : WF_vars(Serves(c))

-----------------------------------------------------------------------------
(* Properties.                                                             *)

\* The types; and the table refers to no backend that is free memory.
TypeOK ==
    /\ table \in [Uris -> Clients \cup {None}]
    /\ \A u \in Running(Uris) : backend[table[u]].state = "alive"
    /\ backend \in [Clients -> [state : {"absent", "alive", "finalized"}, uri : Uris \cup {None},
                                clients : SUBSET Clients, mode : Modes \cup {"unset"}, loaded : BOOLEAN]]
    /\ client \in [Clients -> [pc : {"new", "add", "mode", "set", "connected", "failed"}, uri : Uris \cup {None},
                               backend : Clients \cup {None}, mode : Modes \cup {"unset"}, died : BOOLEAN]]
    /\ main \in [pc : {"idle", "bookGone", "bookCheck", "calTest", "calGone", "calMode", "bookMode",
                       "countBooks"},
                 backend : Clients \cup {None}]
    /\ server \in {"running", "quitting", "quit", "crashed"}
    /\ bookMode \in Modes /\ calMode \in Modes /\ status \in Modes
    /\ backendsMutex \in Clients \cup {None}
    /\ termination \in BOOLEAN /\ raced \in BOOLEAN /\ stranded \subseteq Clients
    /\ switches \in 0..MaxSwitches

Connected(c) == client[c].pc = "connected" /\ ~client[c].died

\* A client that has its book or calendar and is still there is served: its
\* backend is alive, knows it as a client, and is the one that the table gives to
\* later clients of the URI; and the process does not end.  Not so after a step
\* into a gap of the locks: a client added to a book backend that getBook had
\* looked up and that has left the table since (map_mutex is released in
\* between), a client added between the test for the last client of a calendar
\* and the callback, a connection that breaks before the client is added, an
\* unlock of a mutex that another request holds, and a client that comes after
\* the handler that ends the process has counted: a calendar after the calendars
\* were counted, a book after bonobo_main_quit.
ClientsServed ==
    ~raced => \A c \in Clients : Connected(c) =>
                 /\ server = "running"
                 /\ backend[Of(c)].state = "alive"
                 /\ table[client[c].uri] = Of(c)
                 /\ c \in backend[Of(c)].clients

\* When the main loop has told the backends, each one that has a client is in the
\* mode GConf has told last, although requests set the mode of their backend at
\* the same time; not if a request for a book had read the old mode before.
ModeAgrees ==
    MainAt("idle") /\ ~raced => \A c \in Clients : Connected(c) => backend[Of(c)].mode = status

\* When the last of the clients has left, the process ends, unless there was a
\* step into a gap, or a backend is left in the table that no client will leave: a
\* book that nobody had opened when its last client left (it has no URI then,
\* though an open that was under way may still give it one), or a calendar that
\* was launched for a client for which no EDataCal could be made.
AllLeft ==
    /\ \A c \in Clients : client[c].pc = "failed" \/ (client[c].pc = "connected" /\ client[c].died)
    /\ \E c \in Clients : client[c].pc = "connected"

QuitsWhenUnused == AllLeft ~> (server = "quit" \/ raced \/ \E u \in Uris : table[u] \in stranded)

\* What the lock of getCal is held for: a client that is added to a calendar and
\* is still there keeps it from being finalized.
LiveClientsKeepCalendar ==
    \A c \in Clients : Connected(c) /\ client[c].uri \in Calendars => backend[Of(c)].state = "alive"
=============================================================================
