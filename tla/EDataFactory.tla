---------------------------- MODULE EDataFactory ----------------------------
(***************************************************************************)
(* What the factories of books and of calendars share: a table from URIs   *)
(* to running backends, each with the list of its clients.  The requests   *)
(* of clients run in threads of their own; the callbacks of broken         *)
(* connections, the timeout and the notifications of GConf run one after   *)
(* the other in the main loop.  Every client is a process of its own that  *)
(* asks for one book or calendar.                                          *)
(***************************************************************************)
EXTENDS Integers, FiniteSets

CONSTANTS Clients, Books, Calendars,     \* clients, and the URIs of both kinds
          None

ASSUME FactoryAssumption == /\ Books \cap Calendars = {}
                            /\ IsFiniteSet(Books) /\ IsFiniteSet(Calendars)
                            /\ None \notin Clients \cup Books \cup Calendars

VARIABLES table,         \* the backend that runs for a URI
          backend,       \* the backends; one is named after the client it was launched for
          client,        \* the clients, with the request each one makes
          main,          \* what the main loop does, for which backend
          server,        \* the process
          raced,         \* history: a step fell into a gap that the locks leave open
          stranded       \* history: the backends that no client will leave any more

factoryVars == <<table, backend, client, main, server, raced, stranded>>

Uris == Books \cup Calendars

Modes == {"online", "offline"}

Absent == [state |-> "absent", uri |-> None, clients |-> {}, mode |-> "unset", loaded |-> FALSE]

\* died: the main loop was told that the connection broke
Newcomer == [pc |-> "new", uri |-> None, backend |-> None, mode |-> "unset", died |-> FALSE]

Idle == [pc |-> "idle", backend |-> None]

FactoryInit ==
    /\ table = [u \in Uris |-> None]
    /\ backend = [c \in Clients |-> Absent]
    /\ client = [c \in Clients |-> Newcomer]
    /\ main = Idle
    /\ server = "running"
    /\ raced = FALSE
    /\ stranded = {}

-----------------------------------------------------------------------------
\* The threads of requests go on after bonobo_main_quit, and the main loop ends
\* what it has begun.
Up == server \in {"running", "quitting"}

Running(uris) == {u \in uris : table[u] # None}

MainAt(p) == main.pc = p

MainGoes(p) == main' = [main EXCEPT !.pc = p]

At(c, p, uris) == client[c].pc = p /\ client[c].uri \in uris

Goes(c, p) == client' = [client EXCEPT ![c].pc = p]

Of(c) == client[c].backend

Launch(c, u) == backend' = [backend EXCEPT ![c] = [Absent EXCEPT !.state = "alive", !.uri = u]]

\* The backend of the table, or one that is launched and entered; then a book
\* or calendar is made for the client and its connection is watched.
LookupOrLaunch(c, u) ==
    LET b == IF table[u] # None THEN table[u] ELSE c IN
    /\ IF table[u] # None THEN UNCHANGED backend ELSE Launch(c, u)
    /\ table' = [table EXCEPT ![u] = b]
    /\ client' = [client EXCEPT ![c] = [@ EXCEPT !.pc = "add", !.uri = u, !.backend = b]]

\* The method of the source has no backend factory, or no backend can be made.
Refused(c) == Goes(c, "failed") /\ UNCHANGED <<table, backend, main, server, stranded>>

\* The connection of a client may break as soon as it is watched: before the
\* client is added, the backend may lose clients it does not have.
Breaks(c, uris) ==
    /\ MainAt("idle")
    /\ client[c].uri \in uris /\ ~client[c].died
    /\ client' = [client EXCEPT ![c].died = TRUE]
    /\ raced' = (raced \/ client[c].pc = "add")

AddClient(c) ==
    /\ backend' = [backend EXCEPT ![Of(c)].clients = @ \cup {c}]
    /\ stranded' = stranded \ {Of(c)}

RemoveClient(c) == backend' = [backend EXCEPT ![Of(c)].clients = @ \ {c}]

SetModes(uris, m) ==
    backend' = [b \in Clients |-> IF \E u \in uris : table[u] = b
                                  THEN [backend[b] EXCEPT !.mode = m] ELSE backend[b]]
=============================================================================
