-------------------------- MODULE DataServer_proofs --------------------------
(***************************************************************************)
(* Proofs about DataServer, for any clients, any URIs of books and         *)
(* calendars and any number of switches between online and offline.        *)
(*                                                                         *)
(* The invariant has two layers.  Structure holds whatever the threads do: *)
(* table, backends and clients refer to each other as they should.         *)
(* Undisturbed holds until a step falls into one of the gaps that the      *)
(* locks leave open: what a client relies on, what a request keeps with    *)
(* backends_mutex, what the main loop knows of the backend it drops, and   *)
(* what the handler that ends the process knows between its two counts     *)
(* and its call of bonobo_main_quit.                                       *)
(***************************************************************************)
EXTENDS DataServer, TLAPS, FiniteSetTheorems

(* The client was given a backend by the table, or a new one. *)
Attached(c) == client[c].pc \in {"add", "mode", "set", "connected"}

(* The client is among those of its backend, and its connection is up. *)
Known(c) == client[c].pc \in {"mode", "set", "connected"} /\ ~client[c].died

(* The request of the client holds backends_mutex. *)
Holds(c) == client[c].pc \in {"add", "mode"} /\ client[c].uri \in Calendars

(* The client was given a calendar, and its connection is up. *)
InCalendar(c) == client[c].uri \in Calendars /\ Attached(c) /\ ~client[c].died

Switching == main.pc \in {"calMode", "bookMode"}

(* bonobo_main_quit was called. *)
Ending == server \in {"quitting", "quit"}

(* The table, the backends and the clients refer to each other, whatever   *)
(* the races: an entry of the table is the backend of its URI and alive,   *)
(* and a client's backend was made for the client's URI.                   *)
EntriesAreAlive ==
    \A u \in Uris : table[u] # None => backend[table[u]].state = "alive" /\ backend[table[u]].uri = u

BackendFits(b) ==
    /\ backend[b].state = "absent" <=> backend[b].uri = None
    /\ backend[b].state = "finalized" => backend[b].uri \in Calendars

ClientFits(c) ==
    /\ Attached(c) => /\ client[c].uri \in Uris /\ Of(c) \in Clients
                      /\ backend[Of(c)].uri = client[c].uri
    /\ ~Attached(c) => client[c].uri = None
    /\ client[c].pc = "new" => backend[c].state = "absent"
    /\ client[c].pc = "set" => client[c].uri \in Books /\ client[c].mode \in Modes

MainFits ==
    /\ main.pc \in {"bookGone", "bookCheck"} => main.backend \in Clients /\ backend[main.backend].uri \in Books
    /\ main.pc \in {"calTest", "calGone"} => main.backend \in Clients /\ backend[main.backend].uri \in Calendars

ModesFit == calMode = status /\ (~Switching => bookMode = status)

Structure ==
    /\ EntriesAreAlive
    /\ \A b \in Clients : BackendFits(b)
    /\ \A c \in Clients : ClientFits(c)
    /\ MainFits /\ ModesFit

(* What holds until a step falls into a gap of the locks. *)
ClientIsServed(c) == Known(c) => table[client[c].uri] = Of(c) /\ c \in backend[Of(c)].clients

RequestIsLocked(c) == Holds(c) => backendsMutex = c /\ table[client[c].uri] = Of(c)

DropIsSafe ==
    /\ main.pc \in {"bookGone", "calTest", "calGone"} => table[backend[main.backend].uri] = main.backend
    /\ main.pc \in {"bookGone", "calGone"} => backend[main.backend].clients = {}

ModeFollows(c) ==
    /\ client[c].pc = "set" /\ ~Switching => client[c].mode = status
    /\ Connected(c) /\ client[c].uri \in Calendars /\ main.pc # "calMode" => backend[Of(c)].mode = status
    /\ Connected(c) /\ client[c].uri \in Books /\ ~Switching => backend[Of(c)].mode = status

(* The handler that ends the process has overlooked nobody: no calendar is *)
(* in use once the calendars were counted, no book once it has quit.       *)
NotOverlooked(c) ==
    /\ Ending => ~Known(c)
    /\ Ending \/ main.pc = "countBooks" => ~InCalendar(c)

Undisturbed ==
    /\ \A c \in Clients : ClientIsServed(c) /\ RequestIsLocked(c) /\ ModeFollows(c)
    /\ DropIsSafe
    /\ server # "crashed"
    /\ \A c \in Clients : NotOverlooked(c)

-----------------------------------------------------------------------------
BackendRecords ==
    [state : {"absent", "alive", "finalized"}, uri : Uris \cup {None},
     clients : SUBSET Clients, mode : Modes \cup {"unset"}, loaded : BOOLEAN]

ClientRecords ==
    [pc : {"new", "add", "mode", "set", "connected", "failed"}, uri : Uris \cup {None},
     backend : Clients \cup {None}, mode : Modes \cup {"unset"}, died : BOOLEAN]

MainRecords ==
    [pc : {"idle", "bookGone", "bookCheck", "calTest", "calGone", "calMode", "bookMode",
           "countBooks"},
     backend : Clients \cup {None}]

Types ==
    /\ table \in [Uris -> Clients \cup {None}]
    /\ backend \in [Clients -> BackendRecords]
    /\ client \in [Clients -> ClientRecords]
    /\ main \in MainRecords
    /\ server \in {"running", "quitting", "quit", "crashed"}
    /\ bookMode \in Modes /\ calMode \in Modes /\ status \in Modes
    /\ backendsMutex \in Clients \cup {None}
    /\ termination \in BOOLEAN /\ raced \in BOOLEAN /\ stranded \subseteq Clients
    /\ switches \in 0..MaxSwitches

IInv == Types /\ Structure /\ (~raced => Undisturbed)

(* The invariant gives the properties. *)
LEMMA InvImplies == IInv => TypeOK /\ ClientsServed /\ ModeAgrees
<1> SUFFICES ASSUME IInv PROVE TypeOK /\ ClientsServed /\ ModeAgrees
  OBVIOUS
<1>1. TypeOK
  BY DEF IInv, Types, Structure, EntriesAreAlive, TypeOK, Running, BackendRecords, ClientRecords,
         MainRecords
<1>2. ASSUME ~raced, NEW c \in Clients, Connected(c)
      PROVE  /\ server = "running" /\ backend[Of(c)].state = "alive"
             /\ table[client[c].uri] = Of(c) /\ c \in backend[Of(c)].clients
  <2>1. Known(c) /\ Attached(c)
    BY <1>2 DEF Connected, Known, Attached
  <2>2. table[client[c].uri] = Of(c) /\ c \in backend[Of(c)].clients
    BY <1>2, <2>1 DEF IInv, Undisturbed, ClientIsServed
  <2>3. client[c].uri \in Uris /\ Of(c) \in Clients
    BY <2>1 DEF IInv, Structure, ClientFits
  <2>4. backend[Of(c)].state = "alive"
    BY <2>2, <2>3, FactoryAssumption DEF IInv, Structure, EntriesAreAlive
  <2>5. server = "running"
    BY <1>2, <2>1 DEF IInv, Types, Undisturbed, NotOverlooked, Ending
  <2> QED BY <2>2, <2>4, <2>5
<1>3. ASSUME MainAt("idle"), ~raced, NEW c \in Clients, Connected(c)
      PROVE  backend[Of(c)].mode = status
  <2>1. client[c].uri \in Uris
    BY <1>3 DEF IInv, Structure, ClientFits, Attached, Connected
  <2>2. main.pc = "idle" /\ ~Switching
    BY <1>3 DEF MainAt, Switching
  <2>3. ModeFollows(c)
    BY <1>3 DEF IInv, Undisturbed
  <2> QED BY <1>3, <2>1, <2>2, <2>3 DEF ModeFollows, Uris
<1> QED BY <1>1, <1>2, <1>3 DEF ClientsServed, ModeAgrees

LEMMA InitHolds == Init => IInv
<1> SUFFICES ASSUME Init PROVE IInv
  OBVIOUS
<1>0. /\ table = [u \in Uris |-> None] /\ backend = [c \in Clients |-> Absent]
      /\ client = [c \in Clients |-> Newcomer] /\ main = Idle /\ server = "running"
      /\ raced = FALSE /\ stranded = {} /\ bookMode = "online" /\ calMode = "online" /\ backendsMutex = None
      /\ termination = FALSE /\ status = "online" /\ switches = 0
  BY DEF Init, FactoryInit, BookInit, CalInit
<1>1. Absent \in BackendRecords /\ Absent.state = "absent" /\ Absent.uri = None
  BY DEF Absent, BackendRecords
<1>2. Newcomer \in ClientRecords /\ Newcomer.pc = "new" /\ Newcomer.uri = None
  BY DEF Newcomer, ClientRecords
<1>3. Idle \in MainRecords /\ Idle.pc = "idle"
  BY DEF Idle, MainRecords
<1>4. Types
  <2>1. /\ table \in [Uris -> Clients \cup {None}] /\ backend \in [Clients -> BackendRecords]
        /\ client \in [Clients -> ClientRecords] /\ main \in MainRecords
    BY <1>0, <1>1, <1>2, <1>3
  <2>2. switches \in 0..MaxSwitches
    BY <1>0, ServerAssumption
  <2>3. /\ bookMode \in Modes /\ calMode \in Modes /\ status \in Modes
        /\ server \in {"running", "quitting", "quit", "crashed"} /\ backendsMutex \in Clients \cup {None}
        /\ termination \in BOOLEAN /\ raced \in BOOLEAN
        /\ stranded \subseteq Clients
    BY <1>0 DEF Modes
  <2> QED BY <2>1, <2>2, <2>3 DEF Types
<1>5. Structure
  BY <1>0, <1>1, <1>2, <1>3 DEF Structure, EntriesAreAlive, BackendFits, ClientFits, Attached,
     MainFits, ModesFit
<1>6. Undisturbed
  BY <1>0, <1>1, <1>2, <1>3 DEF Undisturbed, ClientIsServed, RequestIsLocked, ModeFollows,
     DropIsSafe, Known, Holds, Connected, NotOverlooked, InCalendar, Attached, Ending
<1> QED BY <1>4, <1>5, <1>6 DEF IInv

(* A step that neither counts nor ends, and gives nobody a calendar. *)
LEMMA NotOverlookedKeeps ==
  ASSUME NEW d \in Clients, NotOverlooked(d), Ending' => Ending,
         main'.pc = "countBooks" => main.pc = "countBooks",
         Known(d)' => Known(d), InCalendar(d)' => InCalendar(d)
  PROVE  NotOverlooked(d)'
BY DEF NotOverlooked

-----------------------------------------------------------------------------
(* Requests that only move on, or are refused *)

LEMMA RefusedKeeps ==
  ASSUME IInv, NEW c \in Clients, client[c].pc = "new", Refused(c),
         raced' \in BOOLEAN, raced => raced', UNCHANGED <<bookMode, calMode, serverVars>>,
         backendsMutex' \in {backendsMutex, None},
         ~raced' => backendsMutex' = backendsMutex
  PROVE  IInv'
<1>0. /\ Types /\ Structure /\ client \in [Clients -> ClientRecords]
      /\ UNCHANGED <<table, backend, main, server, stranded, bookMode, calMode, termination, status, switches>>
      /\ client' = [client EXCEPT ![c].pc = "failed"]
  BY DEF IInv, Types, Refused, Goes, serverVars
<1>1. /\ client' \in [Clients -> ClientRecords] /\ client'[c].pc = "failed"
      /\ client'[c].uri = client[c].uri
      /\ \A d \in Clients : d # c => client'[d] = client[d]
  BY <1>0 DEF ClientRecords
<1>2. Types'
  BY <1>0, <1>1 DEF Types
<1>3. Structure'
  BY <1>0, <1>1 DEF Structure, EntriesAreAlive, BackendFits, ClientFits, Attached, Of,
     MainFits, ModesFit, Switching
<1>4. ASSUME ~raced' PROVE Undisturbed'
  <2>0. Undisturbed /\ backendsMutex' = backendsMutex
    BY <1>4 DEF IInv
  <2>1. \A d \in Clients : NotOverlooked(d)'
    <3> SUFFICES ASSUME NEW d \in Clients PROVE NotOverlooked(d)'
      OBVIOUS
    <3>1. NotOverlooked(d)
      BY <2>0 DEF Undisturbed
    <3>2. /\ Ending' => Ending
          /\ main'.pc = "countBooks" => main.pc = "countBooks"
          /\ Known(d)' => Known(d)
          /\ InCalendar(d)' => InCalendar(d)
      BY <1>0, <1>1 DEF Known, InCalendar, Attached, Ending
    <3> QED BY <3>1, <3>2, NotOverlookedKeeps
  <2> QED BY <1>0, <1>1, <2>0, <2>1 DEF Undisturbed, ClientIsServed, RequestIsLocked, ModeFollows,
     DropIsSafe, Known, Holds, Connected, Of, Switching
<1> QED BY <1>2, <1>3, <1>4 DEF IInv

(* The facts that the proofs about single steps start from. *)
LEMMA Known0 ==
  ASSUME IInv
  PROVE  /\ Types /\ Structure
         /\ table \in [Uris -> Clients \cup {None}] /\ backend \in [Clients -> BackendRecords]
         /\ client \in [Clients -> ClientRecords] /\ main \in MainRecords
         /\ raced \in BOOLEAN
BY DEF IInv, Types

LEMMA ClientKnown ==
  ASSUME IInv, NEW c \in Clients, client[c].uri \in Uris
  PROVE  /\ Attached(c) /\ Of(c) \in Clients /\ backend[Of(c)].uri = client[c].uri
         /\ backend[Of(c)].state # "absent"
BY FactoryAssumption DEF IInv, Structure, ClientFits, BackendFits, Uris

-----------------------------------------------------------------------------
(* getBook and getCal: the backend of the table, or a new one *)

LEMMA LookupKeeps ==
  ASSUME IInv, NEW c \in Clients, NEW u \in Uris, client[c].pc = "new", LookupOrLaunch(c, u),
         UNCHANGED <<main, server, stranded, bookMode, calMode, serverVars>>,
         raced' \in BOOLEAN, raced => raced',
         ~raced' /\ u \in Calendars => main.pc # "countBooks" /\ ~Ending,
         u \in Books => UNCHANGED backendsMutex,
         u \in Calendars => backendsMutex = None /\ backendsMutex' = c
  PROVE  IInv'
<1> DEFINE b == IF table[u] # None THEN table[u] ELSE c
           rec == [Absent EXCEPT !.state = "alive", !.uri = u]
           cl == [client[c] EXCEPT !.pc = "add", !.uri = u, !.backend = b]
<1>0. /\ Types /\ Structure
      /\ table \in [Uris -> Clients \cup {None}] /\ backend \in [Clients -> BackendRecords]
      /\ client \in [Clients -> ClientRecords] /\ main \in MainRecords
      /\ UNCHANGED <<main, server, stranded, bookMode, calMode, termination, status, switches>>
  BY Known0 DEF serverVars
<1>1. b \in Clients
  BY <1>0
<1>2. rec \in BackendRecords /\ rec.state = "alive" /\ rec.uri = u /\ rec.clients = {}
  BY DEF Absent, BackendRecords
<1>3. cl \in ClientRecords /\ cl.pc = "add" /\ cl.uri = u /\ cl.backend = b /\ cl.died = client[c].died
  BY <1>0, <1>1 DEF ClientRecords
<1>4. /\ backend' = IF table[u] # None THEN backend ELSE [backend EXCEPT ![c] = rec]
      /\ table' = [table EXCEPT ![u] = b] /\ client' = [client EXCEPT ![c] = cl]
  BY DEF LookupOrLaunch, Launch
<1>b. table[u] # None => b = table[u]
  OBVIOUS
<1>c. table[u] = None => b = c
  OBVIOUS
<1>n. None \notin Clients /\ None \notin Uris /\ \A x \in Books : x \notin Calendars
  BY FactoryAssumption DEF Uris
<1> HIDE DEF b, rec, cl
<1>5. /\ backend' \in [Clients -> BackendRecords] /\ table' \in [Uris -> Clients \cup {None}]
      /\ client' \in [Clients -> ClientRecords]
      /\ client'[c] = cl /\ \A d \in Clients : d # c => client'[d] = client[d]
      /\ table'[u] = b /\ \A x \in Uris : x # u => table'[x] = table[x]
      /\ \A d \in Clients : d # c \/ table[u] # None => backend'[d] = backend[d]
      /\ table[u] = None => backend'[c] = rec
  BY <1>0, <1>1, <1>2, <1>3, <1>4
<1>6. backend[c].state = "absent" /\ client[c].uri = None /\ backend[c].uri = None
  BY <1>0 DEF Structure, ClientFits, BackendFits, Attached
<1>e. EntriesAreAlive /\ \A x \in Uris : table[x] # c
  BY <1>0, <1>6, <1>n DEF Structure, EntriesAreAlive
<1>7. backendsMutex' \in Clients \cup {None}
  BY <1>0 DEF Types, Uris
<1>8. Types'
  BY <1>0, <1>5, <1>7 DEF Types
<1>9. EntriesAreAlive'
  <2> SUFFICES ASSUME NEW x \in Uris, table'[x] # None
               PROVE  backend'[table'[x]].state = "alive" /\ backend'[table'[x]].uri = x
    BY DEF EntriesAreAlive
  <2>1. CASE table[u] # None
    <3>1. table'[x] = table[x] /\ \A d \in Clients : backend'[d] = backend[d]
      BY <1>5, <1>b, <2>1
    <3> QED BY <1>0, <1>e, <3>1 DEF EntriesAreAlive
  <2>2. CASE table[u] = None
    <3>1. CASE x = u
      BY <1>2, <1>5, <1>c, <2>2, <3>1
    <3>2. CASE x # u
      <4>1. table'[x] = table[x] /\ table[x] # c /\ table[x] \in Clients
        BY <1>0, <1>5, <1>e, <3>2
      <4> QED BY <1>5, <1>e, <4>1 DEF EntriesAreAlive
    <3> QED BY <3>1, <3>2
  <2> QED BY <2>1, <2>2
<1>10. \A d \in Clients : BackendFits(d)'
  BY <1>0, <1>2, <1>5, <1>n DEF Structure, BackendFits
<1>11. \A d \in Clients : d # c => backend'[d] = backend[d]
  BY <1>5
<1>12. backend'[b].uri = u /\ backend'[b].state = "alive"
  BY <1>5, <1>9, <1>1, <1>n DEF EntriesAreAlive
<1>13. ASSUME NEW d \in Clients, d # c, Attached(d)
       PROVE  /\ Of(d) \in Clients /\ Of(d) # c /\ backend'[Of(d)] = backend[Of(d)]
              /\ client[d].uri \in Uris /\ Of(d)' = Of(d)
  <2>1. Of(d) \in Clients /\ backend[Of(d)].uri = client[d].uri /\ client[d].uri \in Uris
    BY <1>0, <1>13 DEF Structure, ClientFits
  <2> QED BY <1>5, <1>6, <1>11, <1>13, <1>n, <2>1 DEF Of
<1>14. \A d \in Clients : ClientFits(d)'
  <2> SUFFICES ASSUME NEW d \in Clients PROVE ClientFits(d)'
    OBVIOUS
  <2>1. CASE d = c
    BY <1>1, <1>3, <1>5, <1>12, <2>1 DEF ClientFits, Attached, Of
  <2>2. CASE d # c
    <3>1. client'[d] = client[d] /\ ClientFits(d) /\ backend'[d] = backend[d]
      BY <1>0, <1>5, <1>11, <2>2 DEF Structure
    <3> QED BY <1>13, <2>2, <3>1 DEF ClientFits, Attached, Of
  <2> QED BY <2>1, <2>2
<1>15. ASSUME main.pc \in {"bookGone", "bookCheck", "calTest", "calGone"}
       PROVE  main.backend \in Clients /\ main.backend # c /\ backend[main.backend].uri \in Uris
              /\ backend'[main.backend] = backend[main.backend]
  <2>1. main.backend \in Clients /\ backend[main.backend].uri \in Uris
    BY <1>0, <1>15 DEF Structure, MainFits, Uris
  <2> QED BY <1>6, <1>11, <1>n, <2>1
<1>16. MainFits' /\ ModesFit'
  BY <1>0, <1>15 DEF Structure, MainFits, ModesFit, Switching
<1>17. ASSUME ~raced' PROVE Undisturbed'
  <2>0. Undisturbed
    BY <1>17 DEF IInv
  <2>1. \A x \in Uris : table[x] # None => table'[x] = table[x]
    BY <1>5, <1>b
  <2>2. ASSUME NEW d \in Clients
        PROVE  ClientIsServed(d)' /\ RequestIsLocked(d)' /\ ModeFollows(d)'
    <3>1. CASE d = c
      <4>1. client'[d].pc = "add" /\ client'[d].uri = u /\ Of(d)' = b
        BY <1>3, <1>5, <3>1 DEF Of
      <4>2. ClientIsServed(d)' /\ ModeFollows(d)'
        BY <4>1 DEF ClientIsServed, ModeFollows, Known, Connected
      <4>3. RequestIsLocked(d)'
        BY <1>5, <3>1, <4>1 DEF RequestIsLocked, Holds
      <4> QED BY <4>2, <4>3
    <3>2. CASE d # c /\ ~Attached(d)
      BY <1>5, <3>2 DEF ClientIsServed, RequestIsLocked, ModeFollows, Known, Connected, Attached, Holds
    <3>3. CASE d # c /\ Attached(d)
      <4>1. /\ Of(d) \in Clients /\ backend'[Of(d)] = backend[Of(d)]
            /\ client[d].uri \in Uris /\ Of(d)' = Of(d) /\ client'[d] = client[d]
        BY <1>5, <1>13, <3>3
      <4>2. ClientIsServed(d) /\ RequestIsLocked(d) /\ ModeFollows(d)
        BY <2>0 DEF Undisturbed
      <4>3. ClientIsServed(d)'
        BY <1>n, <2>1, <4>1, <4>2 DEF ClientIsServed, Known
      <4>4. ModeFollows(d)'
        BY <1>0, <4>1, <4>2 DEF ModeFollows, Connected, Switching
      <4>5. RequestIsLocked(d)'
        <5> SUFFICES ASSUME Holds(d) PROVE backendsMutex' = d /\ table'[client[d].uri] = Of(d)
          BY <4>1 DEF RequestIsLocked, Holds
        <5>1. backendsMutex = d /\ table[client[d].uri] = Of(d)
          BY <4>2 DEF RequestIsLocked
        <5>2. u \in Books
          BY <1>n, <5>1 DEF Uris
        <5> QED BY <1>n, <2>1, <4>1, <5>1, <5>2
      <4> QED BY <4>3, <4>4, <4>5
    <3> QED BY <3>1, <3>2, <3>3
  <2>3. DropIsSafe'
    BY <1>0, <1>15, <1>n, <2>0, <2>1 DEF Undisturbed, DropIsSafe
  <2>4. \A d \in Clients : NotOverlooked(d)'
    <3> SUFFICES ASSUME NEW d \in Clients PROVE NotOverlooked(d)'
      OBVIOUS
    <3>1. NotOverlooked(d) /\ Ending' = Ending
      BY <1>0, <2>0 DEF Undisturbed, Ending
    <3>2. CASE d = c /\ u \in Calendars
      BY <1>0, <1>17, <3>1, <3>2 DEF NotOverlooked
    <3>3. CASE d # c \/ u \notin Calendars
      <4>1. (Known(d)' => Known(d)) /\ (InCalendar(d)' => InCalendar(d))
        BY <1>3, <1>5, <3>3 DEF Known, InCalendar, Attached
      <4> QED BY <1>0, <3>1, <4>1, NotOverlookedKeeps
    <3> QED BY <3>2, <3>3
  <2> QED BY <1>0, <2>0, <2>2, <2>3, <2>4 DEF Undisturbed
<1> QED BY <1>0, <1>8, <1>9, <1>10, <1>14, <1>16, <1>17 DEF IInv, Structure

(* getCal_new_fails: as for a refused request, or with a new backend in    *)
(* the table that no client refers to.                                     *)
LEMMA NewFailsKeeps ==
  ASSUME IInv, NEW c \in Clients, NEW u \in Calendars, CalStep(getCal_new_fails(c, u))
  PROVE  IInv'
<1> DEFINE rec == [Absent EXCEPT !.state = "alive", !.uri = u]
<1>0. /\ Types /\ Structure
      /\ table \in [Uris -> Clients \cup {None}] /\ backend \in [Clients -> BackendRecords]
      /\ client \in [Clients -> ClientRecords] /\ raced \in BOOLEAN
      /\ UNCHANGED <<main, server, raced, bookMode, calMode, backendsMutex, termination, status, switches>>
      /\ client[c].pc = "new" /\ Goes(c, "failed")
  BY Known0 DEF CalStep, getCal_new_fails, calVars, serverVars
<1>1. CASE table[u] # None
  <2>1. Refused(c)
    BY <1>0, <1>1 DEF CalStep, getCal_new_fails, Refused
  <2> QED BY <1>0, <2>1, RefusedKeeps DEF serverVars
<1>2. CASE table[u] = None
  <2>1. /\ backend' = [backend EXCEPT ![c] = rec] /\ table' = [table EXCEPT ![u] = c]
        /\ client' = [client EXCEPT ![c].pc = "failed"] /\ stranded' = stranded \cup {c}
    BY <1>0, <1>2 DEF CalStep, getCal_new_fails, Launch, Goes
  <2>2. rec \in BackendRecords /\ rec.state = "alive" /\ rec.uri = u
    BY DEF Absent, BackendRecords, Uris
  <2>n. None \notin Clients /\ None \notin Uris /\ u \in Uris
    BY FactoryAssumption DEF Uris
  <2> HIDE DEF rec
  <2>3. /\ backend' \in [Clients -> BackendRecords] /\ table' \in [Uris -> Clients \cup {None}]
        /\ client' \in [Clients -> ClientRecords]
        /\ client'[c].pc = "failed" /\ client'[c].uri = client[c].uri
        /\ \A d \in Clients : d # c => client'[d] = client[d]
        /\ table'[u] = c /\ \A x \in Uris : x # u => table'[x] = table[x]
        /\ backend'[c] = rec /\ \A d \in Clients : d # c => backend'[d] = backend[d]
    BY <1>0, <2>1, <2>2, <2>n DEF ClientRecords
  <2>4. backend[c].state = "absent" /\ client[c].uri = None /\ backend[c].uri = None
    BY <1>0 DEF Structure, ClientFits, BackendFits, Attached
  <2>5. EntriesAreAlive /\ \A x \in Uris : table[x] # c
    BY <1>0, <2>4, <2>n DEF Structure, EntriesAreAlive
  <2>6. Types'
    BY <1>0, <2>1, <2>3 DEF Types
  <2>7. EntriesAreAlive'
    BY <1>0, <2>2, <2>3, <2>5 DEF EntriesAreAlive
  <2>8. \A d \in Clients : BackendFits(d)'
    BY <1>0, <2>2, <2>3, <2>n DEF Structure, BackendFits
  <2>9. ASSUME NEW d \in Clients, Attached(d)
        PROVE  /\ d # c /\ Of(d) \in Clients /\ client[d].uri \in Uris /\ Of(d)' = Of(d)
               /\ backend'[Of(d)] = backend[Of(d)]
    <3>1. Of(d) \in Clients /\ backend[Of(d)].uri = client[d].uri /\ client[d].uri \in Uris
      BY <1>0, <2>9 DEF Structure, ClientFits
    <3>2. d # c
      BY <1>0, <2>9 DEF Attached
    <3> QED BY <2>3, <2>4, <2>n, <3>1, <3>2 DEF Of
  <2>10. ASSUME NEW d \in Clients PROVE ClientFits(d)'
    <3>1. ClientFits(d)
      BY <1>0 DEF Structure
    <3>2. CASE d = c
      BY <2>3, <2>4, <3>2 DEF ClientFits, Attached
    <3>3. CASE d # c
      <4>1. client'[d] = client[d] /\ backend'[d] = backend[d] /\ Attached(d)' = Attached(d)
        BY <2>3, <3>3 DEF Attached
      <4> QED BY <2>9, <3>1, <4>1 DEF ClientFits
    <3> QED BY <3>2, <3>3
  <2>11. ASSUME main.pc \in {"bookGone", "bookCheck", "calTest", "calGone"}
         PROVE  /\ main.backend \in Clients /\ backend[main.backend].uri \in Uris
                /\ backend'[main.backend] = backend[main.backend]
    <3>1. main.backend \in Clients /\ backend[main.backend].uri \in Uris
      BY <1>0, <2>11 DEF Structure, MainFits, Uris
    <3> QED BY <2>3, <2>4, <2>n, <3>1
  <2>12. MainFits' /\ ModesFit'
    BY <1>0, <2>11 DEF Structure, MainFits, ModesFit, Switching
  <2>13. ASSUME ~raced PROVE Undisturbed'
    <3>0. Undisturbed
      BY <2>13 DEF IInv
    <3>1. \A x \in Uris : table[x] # None => table'[x] = table[x]
      BY <1>2, <2>3
    <3>2. ASSUME NEW d \in Clients
          PROVE  ClientIsServed(d)' /\ RequestIsLocked(d)' /\ ModeFollows(d)' /\ NotOverlooked(d)'
      <4>1. ClientIsServed(d) /\ RequestIsLocked(d) /\ ModeFollows(d) /\ NotOverlooked(d)
        BY <3>0 DEF Undisturbed
      <4>2. CASE ~Attached(d)
        <5>1. ~Attached(d)'
          BY <2>3, <4>2 DEF Attached
        <5> QED BY <5>1 DEF ClientIsServed, RequestIsLocked, ModeFollows, NotOverlooked, Known, Holds,
                   Connected, InCalendar, Attached
      <4>3. CASE Attached(d)
        <5>1. /\ client'[d] = client[d] /\ Of(d) \in Clients /\ client[d].uri \in Uris
              /\ Of(d)' = Of(d) /\ backend'[Of(d)] = backend[Of(d)]
          BY <2>3, <2>9, <4>3
        <5>2. ClientIsServed(d)' /\ RequestIsLocked(d)'
          BY <1>0, <2>n, <3>1, <4>1, <5>1 DEF ClientIsServed, RequestIsLocked, Known, Holds
        <5>3. ModeFollows(d)'
          BY <1>0, <4>1, <5>1 DEF ModeFollows, Connected, Switching
        <5>4. NotOverlooked(d)'
          BY <1>0, <4>1, <5>1 DEF NotOverlooked, Known, InCalendar, Attached, Ending
        <5> QED BY <5>2, <5>3, <5>4
      <4> QED BY <4>2, <4>3
    <3>3. DropIsSafe'
      BY <1>0, <2>11, <2>n, <3>0, <3>1 DEF Undisturbed, DropIsSafe
    <3> QED BY <1>0, <3>0, <3>2, <3>3 DEF Undisturbed
  <2> QED BY <1>0, <2>6, <2>7, <2>8, <2>10, <2>12, <2>13 DEF IInv, Structure
<1> QED BY <1>1, <1>2

-----------------------------------------------------------------------------
(* Steps that leave the table and the backends' URIs alone *)

LEMMA SameShape ==
  ASSUME Structure, table' = table,
         \A b \in Clients : backend'[b].state = backend[b].state /\ backend'[b].uri = backend[b].uri,
         \A c \in Clients : /\ client'[c].uri = client[c].uri /\ client'[c].backend = client[c].backend
                            /\ Attached(c)' = Attached(c)
                            /\ client'[c].pc = "new" => client[c].pc = "new"
                            /\ client'[c].pc = "set" =>
                                 client'[c].uri \in Books /\ client'[c].mode \in Modes,
         Types, MainFits', ModesFit'
  PROVE  Structure'
<1>1. EntriesAreAlive'
  BY DEF Structure, EntriesAreAlive, Types
<1>2. \A b \in Clients : BackendFits(b)'
  BY DEF Structure, BackendFits
<1>3. \A c \in Clients : ClientFits(c)'
  BY DEF Structure, ClientFits, Of
<1> QED BY <1>1, <1>2, <1>3 DEF Structure

(* e_book_backend_add_client and e_cal_backend_add_client *)
LEMMA AddClientKeeps ==
  ASSUME IInv, NEW c \in Clients, client[c].pc = "add", client[c].uri \in Uris, AddClient(c),
         Goes(c, "mode"), UNCHANGED <<table, main, bookMode, calVars, serverVars>>,
         server' \in {server, "crashed"}, stranded' \subseteq Clients,
         raced' \in BOOLEAN, raced => raced',
         ~raced' => /\ table[client[c].uri] = Of(c)
                    /\ server' = server
                    /\ client[c].uri \in Calendars \/ ~Ending
                    /\ ~(main.pc \in {"bookGone", "calGone"} /\ main.backend = Of(c))
  PROVE  IInv'
<1> DEFINE o == Of(c)
           cs == backend[o].clients \cup {c}
<1>0. /\ Types /\ Structure
      /\ backend \in [Clients -> BackendRecords] /\ client \in [Clients -> ClientRecords]
      /\ UNCHANGED <<table, main, bookMode, calMode, backendsMutex, termination, status, switches>>
      /\ o \in Clients /\ backend[o].uri = client[c].uri
  BY Known0, ClientKnown DEF serverVars, calVars
<1>1. cs \in SUBSET Clients /\ c \in cs /\ backend[o].clients \subseteq cs
  BY <1>0 DEF BackendRecords
<1>2. /\ backend' = [backend EXCEPT ![o].clients = cs] /\ client' = [client EXCEPT ![c].pc = "mode"]
  BY DEF AddClient, Goes
<1> HIDE DEF cs
<1>3. /\ backend' \in [Clients -> BackendRecords] /\ client' \in [Clients -> ClientRecords]
      /\ client'[c].pc = "mode"
      /\ \A d \in Clients : d # c => client'[d] = client[d]
      /\ \A d \in Clients : /\ client'[d].uri = client[d].uri /\ client'[d].backend = client[d].backend
                            /\ client'[d].died = client[d].died
                            /\ client'[d].mode = client[d].mode
      /\ backend'[o].clients = cs
      /\ \A b \in Clients : /\ backend'[b].state = backend[b].state /\ backend'[b].uri = backend[b].uri
                            /\ backend'[b].mode = backend[b].mode
                            /\ backend[b].clients \subseteq backend'[b].clients
      /\ \A b \in Clients : b # o => backend'[b] = backend[b]
  BY <1>0, <1>1, <1>2 DEF BackendRecords, ClientRecords
<1> HIDE DEF o
<1>4. Types'
  BY <1>0, <1>3 DEF Types
<1>5. Structure'
  <2>1. \A d \in Clients : /\ Attached(d)' = Attached(d)
                           /\ client'[d].pc = "new" => client[d].pc = "new"
                           /\ client'[d].pc = "set" =>
                                 client'[d].uri \in Books /\ client'[d].mode \in Modes
    BY <1>0, <1>3 DEF Attached, Structure, ClientFits
  <2>2. MainFits' /\ ModesFit'
    BY <1>0, <1>3 DEF Structure, MainFits, ModesFit, Switching
  <2> QED BY <1>0, <1>3, <2>1, <2>2, SameShape
<1>6. ASSUME ~raced' PROVE Undisturbed'
  <2>0. Undisturbed /\ table[client[c].uri] = o /\ server' = server
        /\ (client[c].uri \in Calendars \/ ~Ending)
        /\ ~(main.pc \in {"bookGone", "calGone"} /\ main.backend = o)
    BY <1>6 DEF IInv, o
  <2>1. ASSUME NEW d \in Clients
        PROVE  ClientIsServed(d)' /\ RequestIsLocked(d)' /\ ModeFollows(d)'
    <3>1. ClientIsServed(d) /\ RequestIsLocked(d) /\ ModeFollows(d) /\ ClientFits(d)
      BY <1>0, <2>0 DEF Undisturbed, Structure
    <3>2. CASE d = c
      BY <1>0, <1>1, <1>3, <2>0, <3>1, <3>2 DEF ClientIsServed, RequestIsLocked, ModeFollows, Known,
         Holds, Connected, Of, o
    <3>3. CASE d # c
      <4>1. Attached(d) => Of(d) \in Clients
        BY <3>1 DEF ClientFits
      <4>2. client'[d] = client[d] /\ Of(d)' = Of(d)
        BY <1>3, <3>3 DEF Of
      <4> QED BY <1>0, <1>3, <3>1, <4>1, <4>2 DEF ClientIsServed, RequestIsLocked, ModeFollows,
         Known, Holds, Connected, Attached, Switching
    <3> QED BY <3>2, <3>3
  <2>2. DropIsSafe'
    BY <1>0, <1>3, <2>0 DEF Undisturbed, DropIsSafe, Structure, MainFits
  <2>3. \A d \in Clients : NotOverlooked(d)'
    <3> SUFFICES ASSUME NEW d \in Clients PROVE NotOverlooked(d)'
      OBVIOUS
    <3>1. NotOverlooked(d) /\ Ending' = Ending /\ main' = main
      BY <1>0, <2>0 DEF Undisturbed, Ending
    <3>2. InCalendar(d)' => InCalendar(d)
      BY <1>3 DEF InCalendar, Attached
    <3>3. Known(d)' => Known(d) \/ (d = c /\ ~client[c].died)
      BY <1>3 DEF Known
    <3>4. d = c /\ ~client[c].died /\ client[c].uri \in Calendars => InCalendar(d)
      BY DEF InCalendar, Attached
    <3> QED BY <2>0, <3>1, <3>2, <3>3, <3>4 DEF NotOverlooked
  <2> QED BY <2>0, <2>1, <2>2, <2>3 DEF Undisturbed
<1> QED BY <1>4, <1>5, <1>6 DEF IInv

(* getBook_mode, e_book_backend_set_mode, e_cal_backend_set_mode: a step   *)
(* of the request of c that takes it on, with the mode m for its backend   *)
(* or for itself.                                                          *)
LEMMA ReadModeKeeps ==
  ASSUME IInv, NEW c \in Clients, BookStep(getBook_mode(c))
  PROVE  IInv'
<1> DEFINE cl == [client[c] EXCEPT !.pc = "set", !.mode = bookMode]
<1>0. /\ Types /\ Structure /\ client \in [Clients -> ClientRecords] /\ bookMode \in Modes
      /\ UNCHANGED <<table, backend, main, server, raced, stranded, bookMode, calMode, backendsMutex,
                     termination, status, switches>>
      /\ client[c].pc = "mode" /\ client[c].uri \in Books
      /\ client' = [client EXCEPT ![c] = cl]
  BY Known0 DEF BookStep, getBook_mode, BookAt, At, calVars, serverVars, Types
<1>1. cl \in ClientRecords /\ cl.pc = "set" /\ cl.mode = bookMode /\ cl.uri = client[c].uri
      /\ cl.backend = client[c].backend /\ cl.died = client[c].died
  BY <1>0 DEF ClientRecords
<1> HIDE DEF cl
<1>2. /\ client' \in [Clients -> ClientRecords] /\ client'[c] = cl
      /\ \A d \in Clients : d # c => client'[d] = client[d]
  BY <1>0, <1>1
<1>3. Types'
  BY <1>0, <1>2 DEF Types
<1>4. Structure'
  <2>1. \A d \in Clients : /\ client'[d].uri = client[d].uri /\ client'[d].backend = client[d].backend
                           /\ Attached(d)' = Attached(d)
                           /\ client'[d].pc = "new" => client[d].pc = "new"
                           /\ client'[d].pc = "set" =>
                                 client'[d].uri \in Books /\ client'[d].mode \in Modes
    BY <1>0, <1>1, <1>2 DEF Attached, Structure, ClientFits
  <2>2. MainFits' /\ ModesFit'
    BY <1>0 DEF Structure, MainFits, ModesFit, Switching
  <2> QED BY <1>0, <2>1, <2>2, SameShape
<1>5. ASSUME ~raced PROVE Undisturbed'
  <2>0. Undisturbed
    BY <1>5 DEF IInv
  <2>1. ASSUME NEW d \in Clients
        PROVE  ClientIsServed(d)' /\ RequestIsLocked(d)' /\ ModeFollows(d)'
    <3>1. ClientIsServed(d) /\ RequestIsLocked(d) /\ ModeFollows(d)
      BY <2>0 DEF Undisturbed
    <3>2. ~Switching => bookMode = status
      BY <1>0 DEF Structure, ModesFit
    <3>3. CASE d = c
      BY <1>0, <1>1, <1>2, <3>1, <3>2, <3>3 DEF ClientIsServed, RequestIsLocked, ModeFollows, Known,
         Holds, Connected, Of, Switching
    <3>4. CASE d # c
      BY <1>0, <1>2, <3>1, <3>4 DEF ClientIsServed, RequestIsLocked, ModeFollows, Known,
         Holds, Connected, Of, Switching
    <3> QED BY <3>3, <3>4
  <2>2. DropIsSafe'
    BY <1>0, <2>0 DEF Undisturbed, DropIsSafe
  <2>3. \A d \in Clients : NotOverlooked(d)'
    <3> SUFFICES ASSUME NEW d \in Clients PROVE NotOverlooked(d)'
      OBVIOUS
    <3>1. NotOverlooked(d)
      BY <2>0 DEF Undisturbed
    <3>2. /\ Ending' => Ending
          /\ main'.pc = "countBooks" => main.pc = "countBooks"
          /\ Known(d)' => Known(d)
          /\ InCalendar(d)' => InCalendar(d)
      BY <1>0, <1>1, <1>2 DEF Known, InCalendar, Attached, Ending
    <3> QED BY <3>1, <3>2, NotOverlookedKeeps
  <2> QED BY <1>0, <2>0, <2>1, <2>2, <2>3 DEF Undisturbed
<1> QED BY <1>0, <1>3, <1>4, <1>5 DEF IInv

LEMMA SetModeKeeps ==
  ASSUME IInv, NEW c \in Clients, NEW m \in Modes, client[c].uri \in Uris,
         client[c].pc \in {"set", "mode"},
         client[c].pc = "set" => m = client[c].mode /\ UNCHANGED backendsMutex,
         client[c].pc = "mode" => client[c].uri \in Calendars /\ m = calMode /\ backendsMutex' = None,
         backend' = [backend EXCEPT ![Of(c)].mode = m], Goes(c, "connected"),
         UNCHANGED <<table, main, raced, stranded, bookMode, calMode, serverVars>>,
         server' \in {server, "crashed"},
         backend[Of(c)].state = "alive" => server' = server,
         client[c].pc = "set" => server' = server
  PROVE  IInv'
<1> DEFINE o == Of(c)
<1>0. /\ Types /\ Structure
      /\ backend \in [Clients -> BackendRecords] /\ client \in [Clients -> ClientRecords]
      /\ UNCHANGED <<table, main, raced, stranded, bookMode, calMode, termination, status, switches>>
      /\ o \in Clients /\ backend[o].uri = client[c].uri
  BY Known0, ClientKnown DEF serverVars
<1>1. /\ backend' = [backend EXCEPT ![o].mode = m] /\ client' = [client EXCEPT ![c].pc = "connected"]
  BY DEF Goes
<1>2. /\ backend' \in [Clients -> BackendRecords] /\ client' \in [Clients -> ClientRecords]
      /\ client'[c].pc = "connected"
      /\ \A d \in Clients : d # c => client'[d] = client[d]
      /\ \A d \in Clients : /\ client'[d].uri = client[d].uri /\ client'[d].backend = client[d].backend
                            /\ client'[d].died = client[d].died
                            /\ client'[d].mode = client[d].mode
      /\ backend'[o].mode = m
      /\ \A b \in Clients : /\ backend'[b].state = backend[b].state /\ backend'[b].uri = backend[b].uri
                            /\ backend'[b].clients = backend[b].clients
      /\ \A b \in Clients : b # o => backend'[b] = backend[b]
  BY <1>0, <1>1 DEF BackendRecords, ClientRecords
<1> HIDE DEF o
<1>m. backendsMutex' \in Clients \cup {None} /\ None \notin Clients
  BY <1>0, FactoryAssumption DEF Types
<1>3. Types'
  BY <1>0, <1>2, <1>m DEF Types
<1>4. Structure'
  <2>1. \A d \in Clients : /\ Attached(d)' = Attached(d)
                           /\ client'[d].pc = "new" => client[d].pc = "new"
                           /\ client'[d].pc = "set" =>
                                 client'[d].uri \in Books /\ client'[d].mode \in Modes
    BY <1>0, <1>2 DEF Attached, Structure, ClientFits
  <2>2. MainFits' /\ ModesFit'
    BY <1>0, <1>2 DEF Structure, MainFits, ModesFit, Switching
  <2> QED BY <1>0, <1>2, <2>1, <2>2, SameShape
<1>5. ASSUME ~raced PROVE Undisturbed'
  <2>0. Undisturbed
    BY <1>5 DEF IInv
  <2>c. ClientIsServed(c) /\ RequestIsLocked(c) /\ ModeFollows(c)
    BY <2>0 DEF Undisturbed
  <2>s. server' = server
    <3>1. CASE client[c].pc = "set"
      BY <3>1
    <3>2. CASE client[c].pc = "mode"
      <4>1. table[client[c].uri] = o
        BY <3>2, <2>c DEF RequestIsLocked, Holds, o
      <4>2. backend[o].state = "alive"
        BY <1>0, <1>m, <4>1 DEF Structure, EntriesAreAlive
      <4> QED BY <4>2 DEF o
    <3> QED BY <3>1, <3>2
  <2>m. client[c].uri \in Calendars \/ ~Switching => m = status
    <3>1. client[c].pc = "set" => client[c].uri \in Books /\ client[c].uri \notin Calendars
      BY <1>0, FactoryAssumption DEF Structure, ClientFits
    <3>2. calMode = status
      BY <1>0 DEF Structure, ModesFit
    <3> QED BY <2>c, <3>1, <3>2 DEF ModeFollows
  <2>k. \A d \in Clients : d # c /\ Holds(d) => backendsMutex' = d
    BY <1>m, <2>0, <2>c DEF Undisturbed, RequestIsLocked, Holds
  <2>1. ASSUME NEW d \in Clients
        PROVE  ClientIsServed(d)' /\ RequestIsLocked(d)' /\ ModeFollows(d)'
    <3>1. ClientIsServed(d) /\ RequestIsLocked(d) /\ ModeFollows(d) /\ ClientFits(d)
      BY <1>0, <2>0 DEF Undisturbed, Structure
    <3>o. Of(d)' = Of(d) /\ (Attached(d) => Of(d) \in Clients /\ backend[Of(d)].uri = client[d].uri)
      BY <1>2, <3>1 DEF Of, ClientFits
    <3>2. CASE d = c
      <4>1. Of(d) = o /\ Attached(d)
        BY <3>2 DEF o, Attached
      <4>2. ClientIsServed(d)' /\ RequestIsLocked(d)'
        BY <1>0, <1>2, <3>1, <3>2, <3>o, <4>1 DEF ClientIsServed, RequestIsLocked, Known, Holds
      <4>3. ModeFollows(d)'
        BY <1>0, <1>2, <2>m, <3>2, <3>o, <4>1 DEF ModeFollows, Connected, Switching
      <4> QED BY <4>2, <4>3
    <3>3. CASE d # c
      <4>1. client'[d] = client[d]
        BY <1>2, <3>3
      <4>2. ClientIsServed(d)' /\ RequestIsLocked(d)'
        BY <1>0, <1>2, <2>k, <3>1, <3>3, <3>o, <4>1 DEF ClientIsServed, RequestIsLocked, Known, Holds,
           Attached
      <4>3. ModeFollows(d)'
        <5>1. CASE Attached(d) /\ Of(d) = o
          <6>1. client[d].uri = client[c].uri /\ backend'[Of(d)].mode = m
            BY <1>0, <1>2, <3>o, <5>1
          <6> QED BY <1>0, <2>m, <3>1, <3>o, <4>1, <6>1 DEF ModeFollows, Connected, Switching
        <5>2. CASE ~Attached(d)
          BY <4>1, <5>2 DEF ModeFollows, Connected, Attached
        <5>3. CASE Attached(d) /\ Of(d) # o
          <6>1. backend'[Of(d)] = backend[Of(d)]
            BY <1>2, <3>o, <5>3
          <6> QED BY <1>0, <3>1, <3>o, <4>1, <6>1 DEF ModeFollows, Connected, Switching
        <5> QED BY <5>1, <5>2, <5>3
      <4> QED BY <4>2, <4>3
    <3> QED BY <3>2, <3>3
  <2>2. DropIsSafe'
    BY <1>0, <1>2, <2>0 DEF Undisturbed, DropIsSafe, Structure, MainFits
  <2>3. \A d \in Clients : NotOverlooked(d)'
    <3> SUFFICES ASSUME NEW d \in Clients PROVE NotOverlooked(d)'
      OBVIOUS
    <3>1. NotOverlooked(d)
      BY <2>0 DEF Undisturbed
    <3>2. /\ Ending' => Ending
          /\ main'.pc = "countBooks" => main.pc = "countBooks"
          /\ Known(d)' => Known(d)
          /\ InCalendar(d)' => InCalendar(d)
      BY <1>0, <1>2, <2>s DEF Known, InCalendar, Attached, Ending
    <3> QED BY <3>1, <3>2, NotOverlookedKeeps
  <2> QED BY <2>0, <2>s, <2>1, <2>2, <2>3 DEF Undisturbed
<1> QED BY <1>0, <1>3, <1>4, <1>5 DEF IInv

(* e_book_backend_open: no invariant looks at loaded. *)
LEMMA OpenKeeps ==
  ASSUME IInv, NEW c \in Clients, BookStep(e_book_backend_open(c))
  PROVE  IInv'
<1> DEFINE o == Of(c)
           yes == TRUE
<1>0. /\ Types /\ Structure /\ backend \in [Clients -> BackendRecords]
      /\ UNCHANGED <<table, client, main, server, raced, stranded, bookMode, calMode, backendsMutex,
                     termination, status, switches>>
      /\ backend' = [backend EXCEPT ![o].loaded = yes]
      /\ yes \in BOOLEAN /\ client[c].uri \in Uris /\ o \in Clients
  BY Known0, ClientKnown DEF BookStep, e_book_backend_open, BookAt, At, Uris, calVars, serverVars
<1> HIDE DEF yes, o
<1>1. /\ backend' \in [Clients -> BackendRecords]
      /\ \A b \in Clients : /\ backend'[b].state = backend[b].state /\ backend'[b].uri = backend[b].uri
                            /\ backend'[b].mode = backend[b].mode
                            /\ backend'[b].clients = backend[b].clients
  BY <1>0 DEF BackendRecords
<1>2. Types'
  BY <1>0, <1>1 DEF Types
<1>3. Structure'
  <2>1. \A d \in Clients : /\ Attached(d)' = Attached(d)
                           /\ client'[d].pc = "new" => client[d].pc = "new"
                           /\ client'[d].pc = "set" =>
                                 client'[d].uri \in Books /\ client'[d].mode \in Modes
    BY <1>0 DEF Attached, Structure, ClientFits
  <2>2. MainFits' /\ ModesFit'
    BY <1>0, <1>1 DEF Structure, MainFits, ModesFit, Switching
  <2> QED BY <1>0, <1>1, <2>1, <2>2, SameShape
<1>4. ASSUME ~raced PROVE Undisturbed'
  <2>0. Undisturbed
    BY <1>4 DEF IInv
  <2>1. ASSUME NEW d \in Clients
        PROVE  ClientIsServed(d)' /\ RequestIsLocked(d)' /\ ModeFollows(d)'
    <3>1. ClientIsServed(d) /\ RequestIsLocked(d) /\ ModeFollows(d) /\ ClientFits(d)
      BY <1>0, <2>0 DEF Undisturbed, Structure
    <3>2. Of(d)' = Of(d) /\ client'[d] = client[d]
      BY <1>0 DEF Of
    <3>3. CASE ~Attached(d)
      BY <1>0, <3>2, <3>3 DEF ClientIsServed, RequestIsLocked, ModeFollows, Known, Holds, Connected,
         Attached
    <3>4. CASE Attached(d)
      <4>1. /\ backend'[Of(d)].mode = backend[Of(d)].mode
            /\ backend'[Of(d)].clients = backend[Of(d)].clients
        BY <1>1, <3>1, <3>4 DEF ClientFits
      <4> QED BY <1>0, <3>1, <3>2, <4>1 DEF ClientIsServed, RequestIsLocked, ModeFollows, Known,
         Holds, Connected, Switching
    <3> QED BY <3>3, <3>4
  <2>2. DropIsSafe'
    BY <1>0, <1>1, <2>0 DEF Undisturbed, DropIsSafe, Structure, MainFits
  <2>4. server' = server
    BY <1>0
  <2>3. \A d \in Clients : NotOverlooked(d)'
    <3> SUFFICES ASSUME NEW d \in Clients PROVE NotOverlooked(d)'
      OBVIOUS
    <3>1. NotOverlooked(d)
      BY <2>0 DEF Undisturbed
    <3>2. /\ Ending' => Ending
          /\ main'.pc = "countBooks" => main.pc = "countBooks"
          /\ Known(d)' => Known(d)
          /\ InCalendar(d)' => InCalendar(d)
      BY <1>0 DEF Known, InCalendar, Attached, Ending
    <3> QED BY <3>1, <3>2, NotOverlookedKeeps
  <2> QED BY <2>0, <2>1, <2>2, <2>3, <2>4 DEF Undisturbed
<1> QED BY <1>0, <1>2, <1>3, <1>4 DEF IInv

-----------------------------------------------------------------------------
(* The callbacks of broken connections *)

(* book_listener_died and cal_listener_died: the client is taken from the  *)
(* list of its backend, and the main loop goes on with that backend.       *)
LEMMA DiedKeeps ==
  ASSUME IInv, NEW c \in Clients, NEW uris \in {Books, Calendars}, Breaks(c, uris), RemoveClient(c),
         UNCHANGED <<table, stranded, bookMode, calVars, serverVars>>, server' \in {server, "crashed"},
         backend[Of(c)].state = "alive" => server' = server,
         main' \in MainRecords,
         \/ main' = main
         \/ /\ main'.pc = "bookGone" /\ main'.backend = Of(c)
            /\ uris = Books /\ backend[Of(c)].clients \subseteq {c}
            /\ server' = server
         \/ /\ main'.pc = "calTest" /\ main'.backend = Of(c) /\ uris = Calendars,
         uris = Books => server' = server
  PROVE  IInv'
<1> DEFINE o == Of(c)
           cs == backend[o].clients \ {c}
           yes == TRUE
<1>u. uris \subseteq Uris /\ client[c].uri \in uris /\ main.pc = "idle" /\ ~client[c].died
  BY DEF Uris, Breaks, MainAt
<1>0. /\ Types /\ Structure
      /\ backend \in [Clients -> BackendRecords] /\ client \in [Clients -> ClientRecords]
      /\ UNCHANGED <<table, stranded, bookMode, calMode, backendsMutex, termination, status, switches>>
      /\ o \in Clients /\ backend[o].uri = client[c].uri /\ Attached(c)
      /\ raced \in BOOLEAN
  BY <1>u, Known0, ClientKnown DEF serverVars, calVars
<1>1. cs \in SUBSET Clients /\ \A d \in Clients : d # c => (d \in cs <=> d \in backend[o].clients)
  BY <1>0 DEF BackendRecords
<1>e. backend[o].clients \subseteq {c} => cs = {}
  OBVIOUS
<1>2. /\ backend' = [backend EXCEPT ![o].clients = cs] /\ client' = [client EXCEPT ![c].died = yes]
      /\ raced' = (raced \/ client[c].pc = "add") /\ yes \in BOOLEAN
  BY DEF RemoveClient, Breaks
<1> HIDE DEF cs, yes
<1>3. /\ backend' \in [Clients -> BackendRecords] /\ client' \in [Clients -> ClientRecords]
      /\ client'[c].died = yes
      /\ \A d \in Clients : d # c => client'[d] = client[d]
      /\ \A d \in Clients : /\ client'[d].uri = client[d].uri /\ client'[d].backend = client[d].backend
                            /\ client'[d].pc = client[d].pc
                            /\ client'[d].mode = client[d].mode
      /\ backend'[o].clients = cs
      /\ \A b \in Clients : /\ backend'[b].state = backend[b].state /\ backend'[b].uri = backend[b].uri
                            /\ backend'[b].mode = backend[b].mode
      /\ \A b \in Clients : b # o => backend'[b] = backend[b]
  BY <1>0, <1>1, <1>2 DEF BackendRecords, ClientRecords
<1>y. client'[c].died
  BY <1>3 DEF yes
<1>r. raced' \in BOOLEAN /\ (~raced' => ~raced /\ client[c].pc # "add")
  BY <1>0, <1>2
<1>w. Switching' = Switching /\ ~Switching
  BY <1>u DEF Switching
<1> HIDE DEF o
<1>o. o = Of(c)
  BY DEF o
<1>4. Types'
  BY <1>0, <1>3, <1>r DEF Types
<1>5. Structure'
  <2>1. \A d \in Clients : /\ Attached(d)' = Attached(d)
                           /\ client'[d].pc = "new" => client[d].pc = "new"
                           /\ client'[d].pc = "set" =>
                                 client'[d].uri \in Books /\ client'[d].mode \in Modes
    BY <1>0, <1>3 DEF Attached, Structure, ClientFits
  <2>2. MainFits'
    <3>1. backend'[o].uri \in uris
      BY <1>0, <1>3, <1>u
    <3> QED BY <1>0, <1>u, <1>o, <3>1 DEF MainFits
  <2>3. ModesFit'
    BY <1>0, <1>w DEF Structure, ModesFit
  <2> QED BY <1>0, <1>3, <2>1, <2>2, <2>3, SameShape
<1>6. ASSUME ~raced' PROVE Undisturbed'
  <2>0. Undisturbed /\ Known(c)
    BY <1>0, <1>6, <1>r, <1>u DEF IInv, Attached, Known
  <2>t. table[client[c].uri] = o /\ client[c].uri \in Uris
    BY <1>o, <1>u, <2>0 DEF Undisturbed, ClientIsServed
  <2>s. server' = server
    BY <1>0, <1>o, <2>t, FactoryAssumption DEF Structure, EntriesAreAlive
  <2>1. ASSUME NEW d \in Clients
        PROVE  ClientIsServed(d)' /\ RequestIsLocked(d)' /\ ModeFollows(d)'
    <3>1. ClientIsServed(d) /\ RequestIsLocked(d) /\ ModeFollows(d) /\ ClientFits(d)
      BY <1>0, <2>0 DEF Undisturbed, Structure
    <3>o. Of(d)' = Of(d) /\ (Attached(d) => Of(d) \in Clients)
      BY <1>3, <3>1 DEF Of, ClientFits
    <3>p. client'[d].pc = client[d].pc /\ client'[d].uri = client[d].uri
          /\ client'[d].mode = client[d].mode
      BY <1>3
    <3>q. Connected(d)' => Connected(d) /\ d # c
      BY <1>3, <1>y DEF Connected
    <3>k. Known(d)' => Known(d) /\ d # c
      BY <1>3, <1>y DEF Known
    <3>2. RequestIsLocked(d)'
      BY <1>0, <3>1, <3>o, <3>p DEF RequestIsLocked, Holds
    <3>3. ClientIsServed(d)'
      <4> SUFFICES ASSUME Known(d)' PROVE table[client[d].uri] = Of(d) /\ d \in backend'[Of(d)].clients
        BY <1>0, <3>o, <3>p DEF ClientIsServed
      <4>1. table[client[d].uri] = Of(d) /\ d \in backend[Of(d)].clients /\ d # c
        BY <3>1, <3>k DEF ClientIsServed
      <4>2. CASE Of(d) = o
        BY <1>1, <1>3, <4>1, <4>2
      <4>3. CASE Of(d) # o
        <5>1. Of(d) \in Clients
          BY <3>k, <3>o DEF Known, Attached
        <5> QED BY <1>3, <4>1, <4>3, <5>1
      <4> QED BY <4>1, <4>2, <4>3
    <3>4. ModeFollows(d)'
      <4>1. client[d].pc = "set" => client[d].mode = status
        BY <1>w, <3>1 DEF ModeFollows
      <4>2. ASSUME Connected(d), client[d].uri \in Uris PROVE backend'[Of(d)].mode = status
        <5>1. backend[Of(d)].mode = status
          BY <1>u, <1>w, <3>1, <4>2 DEF ModeFollows, Uris
        <5>2. Of(d) \in Clients
          BY <3>o, <4>2 DEF Connected, Attached
        <5> QED BY <1>3, <5>1, <5>2
      <4> QED BY <1>0, <3>o, <3>p, <3>q, <4>1, <4>2 DEF ModeFollows, Uris
    <3> QED BY <3>2, <3>3, <3>4
  <2>2. DropIsSafe'
    <3>1. CASE main' = main
      BY <1>u, <3>1 DEF DropIsSafe
    <3>2. CASE main'.pc = "bookGone" /\ main'.backend = o /\ backend[o].clients \subseteq {c}
      BY <1>0, <1>3, <1>e, <2>t, <3>2 DEF DropIsSafe
    <3>3. CASE main'.pc = "calTest" /\ main'.backend = o
      BY <1>0, <1>3, <2>t, <3>3 DEF DropIsSafe
    <3> QED BY <1>o, <3>1, <3>2, <3>3
  <2>3. \A d \in Clients : NotOverlooked(d)'
    <3> SUFFICES ASSUME NEW d \in Clients PROVE NotOverlooked(d)'
      OBVIOUS
    <3>1. NotOverlooked(d)
      BY <2>0 DEF Undisturbed
    <3>2. /\ Ending' => Ending
          /\ main'.pc = "countBooks" => main.pc = "countBooks"
          /\ Known(d)' => Known(d)
          /\ InCalendar(d)' => InCalendar(d)
      BY <1>3, <1>u, <1>y, <2>s DEF Known, InCalendar, Attached, Ending
    <3> QED BY <3>1, <3>2, NotOverlookedKeeps
  <2> QED BY <2>0, <2>s, <2>1, <2>2, <2>3 DEF Undisturbed
<1> QED BY <1>4, <1>5, <1>6 DEF IInv

(* The steps of the main loop that change what it does next, and leave     *)
(* table, backends and clients alone.                                      *)
LEMMA MainMovesKeeps ==
  ASSUME IInv, UNCHANGED <<table, backend, client, server, raced, stranded, bookMode, backendsMutex>>,
         main' \in MainRecords, MainFits',
         calMode' \in Modes, status' \in Modes, termination' \in BOOLEAN, switches' \in 0..MaxSwitches,
         calMode' = status', ~Switching' => bookMode = status',
         \/ Switching'
         \/ ~Switching /\ ~Switching' /\ status' = status,
         \/ main'.pc = "calMode"
         \/ main.pc # "calMode" /\ status' = status,
         ~raced => DropIsSafe',
         ~raced /\ main'.pc = "countBooks" => \A d \in Clients : ~InCalendar(d)
  PROVE  IInv'
<1>0. Types /\ Structure
  BY Known0
<1>1. Types'
  BY <1>0 DEF Types
<1>2. Structure'
  <2>1. ModesFit'
    BY DEF ModesFit
  <2>2. \A d \in Clients : /\ Attached(d)' = Attached(d)
                           /\ client'[d].pc = "new" => client[d].pc = "new"
                           /\ client'[d].pc = "set" =>
                                 client'[d].uri \in Books /\ client'[d].mode \in Modes
    BY <1>0 DEF Attached, Structure, ClientFits
  <2> QED BY <1>0, <2>1, <2>2, SameShape
<1>3. ASSUME ~raced PROVE Undisturbed'
  <2>0. Undisturbed
    BY <1>3 DEF IInv
  <2>1. ASSUME NEW d \in Clients
        PROVE  ClientIsServed(d)' /\ RequestIsLocked(d)' /\ ModeFollows(d)'
    <3>1. ClientIsServed(d) /\ RequestIsLocked(d) /\ ModeFollows(d)
      BY <2>0 DEF Undisturbed
    <3>2. ClientIsServed(d)' /\ RequestIsLocked(d)'
      BY <3>1 DEF ClientIsServed, RequestIsLocked, Known, Holds, Of
    <3>3. Connected(d)' = Connected(d) /\ Of(d)' = Of(d)
      BY DEF Connected, Of
    <3>4. ModeFollows(d)'
      BY <3>1, <3>3 DEF ModeFollows
    <3> QED BY <3>2, <3>4
  <2>2. ASSUME NEW d \in Clients PROVE NotOverlooked(d)'
    <3>1. Ending' = Ending /\ Known(d)' = Known(d) /\ InCalendar(d)' = InCalendar(d)
      BY DEF Ending, Known, InCalendar, Attached
    <3> QED BY <1>3, <2>0, <3>1 DEF Undisturbed, NotOverlooked
  <2> QED BY <1>3, <2>0, <2>1, <2>2 DEF Undisturbed
<1> QED BY <1>1, <1>2, <1>3 DEF IInv

LEMMA CalTestKeeps == ASSUME IInv, CalStep(cal_test) PROVE IInv'
<1>0. /\ Types /\ Structure /\ main \in MainRecords
      /\ UNCHANGED <<table, backend, client, server, raced, stranded, bookMode, calMode, backendsMutex,
                     termination, status, switches>>
      /\ main.pc = "calTest"
      /\ main' = IF backend[main.backend].clients = {} THEN [main EXCEPT !.pc = "calGone"] ELSE Idle
  BY Known0 DEF CalStep, cal_test, MainAt, calVars, serverVars
<1>1. \/ /\ backend[main.backend].clients = {} /\ main' \in MainRecords
         /\ main'.pc = "calGone" /\ main'.backend = main.backend
      \/ main' \in MainRecords /\ main'.pc = "idle"
  BY <1>0 DEF MainRecords, Idle
<1>2. ~Switching /\ ~Switching' /\ main' \in MainRecords /\ main'.pc # "countBooks"
  BY <1>0, <1>1 DEF Switching
<1>3. MainFits'
  BY <1>0, <1>1 DEF Structure, MainFits
<1>4. ASSUME ~raced PROVE DropIsSafe'
  BY <1>0, <1>1, <1>4 DEF IInv, Undisturbed, DropIsSafe
<1>5. /\ calMode' = status' /\ bookMode = status' /\ calMode' \in Modes /\ status' \in Modes
      /\ termination' \in BOOLEAN /\ switches' \in 0..MaxSwitches /\ main.pc # "calMode"
  BY <1>0, <1>2 DEF Structure, ModesFit, Types
<1> QED BY <1>0, <1>2, <1>3, <1>4, <1>5, MainMovesKeeps

LEMMA BookGoneKeeps == ASSUME IInv, BookGone PROVE IInv'
<1>0. /\ Types /\ Structure /\ main \in MainRecords
      /\ UNCHANGED <<table, backend, client, server, raced, stranded, bookMode, calMode, backendsMutex,
                     status, switches>>
      /\ main.pc = "bookCheck" /\ main' = Idle
      /\ termination' = (termination \/ BooksGone)
  BY Known0 DEF BookGone, book_check, MainAt, calVars
<1>1. main' \in MainRecords /\ main'.pc = "idle"
  BY <1>0 DEF MainRecords, Idle
<1>2. ~Switching /\ ~Switching'
  BY <1>0, <1>1 DEF Switching
<1>3. MainFits' /\ DropIsSafe'
  BY <1>1 DEF MainFits, DropIsSafe
<1>4. termination' \in BOOLEAN
  BY <1>0 DEF Types
<1>5. /\ calMode' = status' /\ bookMode = status' /\ calMode' \in Modes /\ status' \in Modes
      /\ switches' \in 0..MaxSwitches /\ main.pc # "calMode"
  BY <1>0, <1>2 DEF Structure, ModesFit, Types
<1> QED BY <1>0, <1>1, <1>2, <1>3, <1>4, <1>5, MainMovesKeeps

LEMMA SwitchKeeps == ASSUME IInv, online_status_changed PROVE IInv'
<1>0. PICK m \in Modes \ {status} :
        /\ switches < MaxSwitches /\ switches' = switches + 1 /\ status' = m /\ set_cal_mode(m)
        /\ UNCHANGED <<bookMode, termination>>
  BY DEF online_status_changed
<1>1. /\ Types /\ Structure /\ main \in MainRecords
      /\ UNCHANGED <<table, backend, client, server, raced, stranded, bookMode, backendsMutex, termination>>
      /\ main.pc = "idle" /\ main' = [main EXCEPT !.pc = "calMode"] /\ calMode' = m
  BY <1>0, Known0 DEF set_cal_mode, MainGoes, MainAt
<1>2. main' \in MainRecords /\ main'.pc = "calMode"
  BY <1>1 DEF MainRecords
<1>3. Switching'
  BY <1>2 DEF Switching
<1>4. MainFits' /\ DropIsSafe'
  BY <1>2 DEF MainFits, DropIsSafe
<1>5. switches' \in 0..MaxSwitches
  BY <1>0, <1>1, ServerAssumption DEF Types
<1>6. calMode' \in Modes /\ status' \in Modes /\ termination' \in BOOLEAN /\ calMode' = status'
  BY <1>0, <1>1 DEF Types
<1> QED BY <1>1, <1>2, <1>3, <1>4, <1>5, <1>6, MainMovesKeeps

(* set_cal_backends_mode and e_data_book_factory_set_backend_mode: the     *)
(* mode of every backend in one of the tables.                             *)
LEMMA SetModesKeeps ==
  ASSUME IInv, NEW uris \in {Books, Calendars}, SetModes(uris, status),
         UNCHANGED <<table, client, server, stranded, calMode, backendsMutex, serverVars>>,
         main' \in MainRecords, bookMode' \in Modes, raced' \in BOOLEAN, raced => raced',
         \/ uris = Calendars /\ main.pc = "calMode" /\ main'.pc = "bookMode"
         \/ /\ uris = Books /\ main.pc = "bookMode" /\ main'.pc = "idle" /\ bookMode' = status
            /\ ~raced' => \A c \in Clients : ~At(c, "set", Books)
  PROVE  IInv'
<1>0. /\ Types /\ Structure /\ backend \in [Clients -> BackendRecords]
      /\ client \in [Clients -> ClientRecords]
      /\ UNCHANGED <<table, client, server, stranded, calMode, backendsMutex, termination, status, switches>>
      /\ status \in Modes
  BY Known0 DEF serverVars, Types
<1> DEFINE set(b) == [backend[b] EXCEPT !.mode = status]
<1>1. ASSUME NEW b \in Clients
      PROVE  /\ set(b) \in BackendRecords /\ set(b).state = backend[b].state
             /\ set(b).uri = backend[b].uri /\ set(b).clients = backend[b].clients
             /\ set(b).mode = status
  BY <1>0 DEF BackendRecords
<1>2. backend' = [b \in Clients |-> IF \E u \in uris : table[u] = b THEN set(b) ELSE backend[b]]
  BY DEF SetModes
<1> HIDE DEF set
<1>3. /\ backend' \in [Clients -> BackendRecords]
      /\ \A b \in Clients : /\ backend'[b].state = backend[b].state /\ backend'[b].uri = backend[b].uri
                            /\ backend'[b].clients = backend[b].clients
                            /\ backend'[b].mode \in {backend[b].mode, status}
      /\ \A b \in Clients : (\E u \in uris : table[u] = b) => backend'[b].mode = status
  BY <1>0, <1>1, <1>2
<1>4. Types'
  BY <1>0, <1>3 DEF Types
<1>5. Structure'
  <2>1. \A d \in Clients : /\ Attached(d)' = Attached(d)
                           /\ client'[d].pc = "new" => client[d].pc = "new"
                           /\ client'[d].pc = "set" =>
                                 client'[d].uri \in Books /\ client'[d].mode \in Modes
    BY <1>0 DEF Attached, Structure, ClientFits
  <2>2. MainFits' /\ ModesFit'
    BY <1>0 DEF Structure, MainFits, ModesFit, Switching
  <2> QED BY <1>0, <1>3, <2>1, <2>2, SameShape
<1>6. ASSUME ~raced' PROVE Undisturbed'
  <2>0. Undisturbed
    BY <1>6 DEF IInv
  <2>1. ASSUME NEW d \in Clients
        PROVE  ClientIsServed(d)' /\ RequestIsLocked(d)' /\ ModeFollows(d)'
    <3>1. ClientIsServed(d) /\ RequestIsLocked(d) /\ ModeFollows(d) /\ ClientFits(d)
      BY <1>0, <2>0 DEF Undisturbed, Structure
    <3>2. /\ Of(d)' = Of(d) /\ client'[d] = client[d] /\ Connected(d)' = Connected(d)
          /\ Known(d)' = Known(d) /\ Holds(d)' = Holds(d)
      BY <1>0 DEF Of, Connected, Known, Holds
    <3>3. CASE ~Attached(d)
      BY <3>2, <3>3 DEF ClientIsServed, RequestIsLocked, ModeFollows, Known, Holds, Connected, Attached
    <3>4. CASE Attached(d)
      <4>1. Of(d) \in Clients /\ client[d].uri \in Uris
        BY <3>1, <3>4 DEF ClientFits
      <4>2. ClientIsServed(d)' /\ RequestIsLocked(d)'
        BY <1>0, <1>3, <3>1, <3>2, <4>1 DEF ClientIsServed, RequestIsLocked
      <4>3. ASSUME client[d].uri \in uris, Connected(d) PROVE backend'[Of(d)].mode = status
        <5>1. table[client[d].uri] = Of(d)
          BY <3>1, <4>3 DEF ClientIsServed, Known, Connected
        <5> QED BY <1>3, <4>1, <4>3, <5>1
      <4>4. CASE uris = Calendars /\ main.pc = "calMode" /\ main'.pc = "bookMode"
        <5>1. Switching'
          BY <4>4 DEF Switching
        <5> QED BY <1>0, <3>2, <4>2, <4>3, <4>4, <5>1 DEF ModeFollows
      <4>5. CASE uris = Books /\ main.pc = "bookMode" /\ main'.pc = "idle"
                 /\ \A c \in Clients : ~At(c, "set", Books)
        <5>1. client[d].pc # "set"
          BY <3>1, <4>5 DEF ClientFits, At
        <5>2. ASSUME client[d].uri \in Calendars, Connected(d) PROVE backend'[Of(d)].mode = status
          <6>1. backend[Of(d)].mode = status
            BY <3>1, <4>5, <5>2 DEF ModeFollows
          <6> QED BY <1>3, <4>1, <6>1
        <5> QED BY <1>0, <3>2, <4>2, <4>3, <4>5, <5>1, <5>2 DEF ModeFollows
      <4> QED BY <1>6, <4>4, <4>5
    <3> QED BY <3>3, <3>4
  <2>2. DropIsSafe'
    BY DEF DropIsSafe
  <2>4. server' = server
    BY <1>0
  <2>3. \A d \in Clients : NotOverlooked(d)'
    <3> SUFFICES ASSUME NEW d \in Clients PROVE NotOverlooked(d)'
      OBVIOUS
    <3>1. NotOverlooked(d)
      BY <2>0 DEF Undisturbed
    <3>2. /\ Ending' => Ending
          /\ main'.pc = "countBooks" => main.pc = "countBooks"
          /\ Known(d)' => Known(d)
          /\ InCalendar(d)' => InCalendar(d)
      BY <1>0 DEF Known, InCalendar, Attached, Ending
    <3> QED BY <3>1, <3>2, NotOverlookedKeeps
  <2> QED BY <2>0, <2>1, <2>2, <2>3, <2>4 DEF Undisturbed
<1> QED BY <1>4, <1>5, <1>6 DEF IInv

LEMMA CalModeKeeps == ASSUME IInv, CalStep(set_cal_backends_mode) PROVE IInv'
<1>0. /\ Types /\ Structure /\ main \in MainRecords
      /\ UNCHANGED <<table, client, server, raced, stranded, bookMode, calMode, backendsMutex, serverVars>>
      /\ main.pc = "calMode" /\ main' = [main EXCEPT !.pc = "bookMode"]
      /\ SetModes(Calendars, calMode)
  BY Known0 DEF CalStep, set_cal_backends_mode, MainAt, MainGoes, calVars
<1>1. main' \in MainRecords /\ main'.pc = "bookMode"
  BY <1>0 DEF MainRecords
<1>2. SetModes(Calendars, status)
  BY <1>0 DEF Structure, ModesFit
<1>3. bookMode' \in Modes /\ raced' \in BOOLEAN /\ (raced => raced')
  BY <1>0 DEF Types
<1> QED BY <1>0, <1>1, <1>2, <1>3, SetModesKeeps

LEMMA BookModeKeeps == ASSUME IInv, BookStep(e_data_book_factory_set_backend_mode(status)) PROVE IInv'
<1>0. /\ Types /\ Structure /\ main \in MainRecords
      /\ UNCHANGED <<table, client, server, stranded, calMode, backendsMutex, serverVars>>
      /\ main.pc = "bookMode" /\ main' = Idle /\ bookMode' = status
      /\ raced' = (raced \/ \E c \in Clients : At(c, "set", Books))
      /\ SetModes(Books, status)
  BY Known0 DEF BookStep, e_data_book_factory_set_backend_mode, MainAt, calVars
<1>1. main' \in MainRecords /\ main'.pc = "idle"
  BY <1>0 DEF MainRecords, Idle
<1>2. bookMode' \in Modes
  BY <1>0 DEF Types
<1>3. raced' \in BOOLEAN /\ (raced => raced') /\ (~raced' => \A c \in Clients : ~At(c, "set", Books))
  BY <1>0 DEF Types
<1> QED BY <1>0, <1>1, <1>2, <1>3, SetModesKeeps

-----------------------------------------------------------------------------
(* The backend is dropped *)

(* book_last_client_gone removes the entry of the book's URI.  Until there *)
(* was a race that is the entry of the book itself, and nobody relies on   *)
(* it.                                                                     *)
LEMMA BookDroppedKeeps == ASSUME IInv, BookStep(book_last_client_gone) PROVE IInv'
<1> DEFINE o == main.backend
           u == backend[o].uri
<1>0. /\ Types /\ Structure /\ main \in MainRecords /\ table \in [Uris -> Clients \cup {None}]
      /\ UNCHANGED <<backend, client, server, raced, bookMode, calMode, backendsMutex,
                     termination, status, switches>>
      /\ main.pc = "bookGone" /\ main' = [main EXCEPT !.pc = "bookCheck"]
      /\ stranded' \in {stranded, stranded \cup {o}}
      /\ table' = IF backend[o].loaded THEN [table EXCEPT ![u] = None] ELSE table
  BY Known0 DEF BookStep, book_last_client_gone, MainAt, MainGoes, calVars, serverVars
<1>1. main' \in MainRecords /\ main'.pc = "bookCheck" /\ main'.backend = o
  BY <1>0 DEF MainRecords
<1>2. u \in Books /\ u \in Uris /\ o \in Clients
  BY <1>0 DEF Structure, MainFits, Uris
<1> HIDE DEF o, u
<1>3. /\ table' \in [Uris -> Clients \cup {None}]
      /\ \A x \in Uris : table'[x] \in {table[x], None}
      /\ \A x \in Uris : x # u => table'[x] = table[x]
  BY <1>0, <1>2
<1>4. Types'
  BY <1>0, <1>2, <1>1, <1>3 DEF Types
<1>5. Structure'
  <2>1. EntriesAreAlive'
    BY <1>0, <1>3 DEF Structure, EntriesAreAlive
  <2>2. MainFits'
    BY <1>0, <1>1, <1>2 DEF MainFits, o, u
  <2>3. ModesFit'
    BY <1>0, <1>1 DEF Structure, ModesFit, Switching
  <2>4. \A d \in Clients : BackendFits(d)' /\ ClientFits(d)'
    BY <1>0 DEF Structure, BackendFits, ClientFits, Attached, Of
  <2> QED BY <2>1, <2>2, <2>3, <2>4 DEF Structure
<1>6. ASSUME ~raced PROVE Undisturbed'
  <2>0. Undisturbed /\ table[u] = o /\ backend[o].clients = {}
    BY <1>0, <1>6 DEF IInv, Undisturbed, DropIsSafe, o, u
  <2>1. ASSUME NEW d \in Clients
        PROVE  ClientIsServed(d)' /\ RequestIsLocked(d)' /\ ModeFollows(d)'
    <3>1. ClientIsServed(d) /\ RequestIsLocked(d) /\ ModeFollows(d) /\ ClientFits(d)
      BY <1>0, <2>0 DEF Undisturbed, Structure
    <3>2. /\ Of(d)' = Of(d) /\ client'[d] = client[d] /\ Connected(d)' = Connected(d)
          /\ Known(d)' = Known(d) /\ Holds(d)' = Holds(d)
      BY <1>0 DEF Of, Connected, Known, Holds
    <3>3. ClientIsServed(d)'
      <4> SUFFICES ASSUME Known(d) PROVE table'[client[d].uri] = Of(d)
        BY <1>0, <3>1, <3>2 DEF ClientIsServed
      <4>1. table[client[d].uri] = Of(d) /\ d \in backend[Of(d)].clients
        BY <3>1 DEF ClientIsServed
      <4>2. client[d].uri \in Uris
        BY <3>1 DEF ClientFits, Known, Attached
      <4>3. client[d].uri # u
        BY <2>0, <4>1
      <4> QED BY <1>3, <4>1, <4>2, <4>3
    <3>4. RequestIsLocked(d)'
      <4> SUFFICES ASSUME Holds(d) PROVE table'[client[d].uri] = Of(d)
        BY <1>0, <3>1, <3>2 DEF RequestIsLocked
      <4>1. table[client[d].uri] = Of(d) /\ client[d].uri \in Calendars
        BY <3>1 DEF RequestIsLocked, Holds
      <4>2. client[d].uri \in Uris /\ client[d].uri # u
        BY <1>2, <4>1, FactoryAssumption DEF Uris
      <4> QED BY <1>3, <4>1, <4>2
    <3>5. ModeFollows(d)'
      BY <1>0, <1>1, <3>1, <3>2 DEF ModeFollows, Switching
    <3> QED BY <3>3, <3>4, <3>5
  <2>2. DropIsSafe'
    BY <1>1 DEF DropIsSafe
  <2>4. server' = server
    BY <1>0
  <2>3. \A d \in Clients : NotOverlooked(d)'
    <3> SUFFICES ASSUME NEW d \in Clients PROVE NotOverlooked(d)'
      OBVIOUS
    <3>1. NotOverlooked(d)
      BY <2>0 DEF Undisturbed
    <3>2. /\ Ending' => Ending
          /\ main'.pc = "countBooks" => main.pc = "countBooks"
          /\ Known(d)' => Known(d)
          /\ InCalendar(d)' => InCalendar(d)
      BY <1>0, <1>1 DEF Known, InCalendar, Attached, Ending
    <3> QED BY <3>1, <3>2, NotOverlookedKeeps
  <2> QED BY <2>0, <2>1, <2>2, <2>3, <2>4 DEF Undisturbed
<1> QED BY <1>0, <1>4, <1>5, <1>6 DEF IInv

(* cal_last_client_gone: the backend is taken from the table and           *)
(* finalized.  Until there was a race its assertions hold, as the lock     *)
(* keeps requests away and the backend has no clients.                     *)
LEMMA CalDroppedKeeps == ASSUME IInv, CalGone PROVE IInv'
<1> DEFINE o == main.backend
           u == backend[o].uri
<1>0. /\ Types /\ Structure /\ main \in MainRecords /\ table \in [Uris -> Clients \cup {None}]
      /\ backend \in [Clients -> BackendRecords]
      /\ UNCHANGED <<client, raced, stranded, bookMode, calMode, backendsMutex, status, switches>>
      /\ main.pc = "calGone" /\ main' = Idle /\ backendsMutex = None
      /\ table' = [table EXCEPT ![u] = None]
      /\ backend' = [backend EXCEPT ![o].state = "finalized"]
      /\ server' = IF AssertionsHold(o) THEN server ELSE "crashed"
      /\ termination' = (termination \/ CalendarsGone)
  BY Known0 DEF CalGone, cal_last_client_gone, Removed, MainAt, calVars
<1>1. main' \in MainRecords /\ main'.pc = "idle"
  BY <1>0 DEF MainRecords, Idle
<1>2. u \in Calendars /\ u \in Uris /\ o \in Clients /\ None \notin Clients /\ u # None
  BY <1>0, FactoryAssumption DEF Structure, MainFits, Uris
<1>a. AssertionsHold(o) <=> table[u] = o /\ backend[o].clients = {}
  BY DEF AssertionsHold
<1>b. main.backend = o /\ backend[o].uri = u
  OBVIOUS
<1> HIDE DEF o, u
<1>3. /\ table' \in [Uris -> Clients \cup {None}] /\ table'[u] = None
      /\ \A x \in Uris : x # u => table'[x] = table[x]
      /\ backend' \in [Clients -> BackendRecords] /\ backend'[o].state = "finalized"
      /\ \A b \in Clients : b # o => backend'[b] = backend[b]
      /\ \A b \in Clients : /\ backend'[b].uri = backend[b].uri
                            /\ backend'[b].clients = backend[b].clients
                            /\ backend'[b].mode = backend[b].mode
  BY <1>0, <1>2 DEF BackendRecords
<1>4. Types'
  <2>1. termination' \in BOOLEAN /\ server' \in {"running", "quitting", "quit", "crashed"}
    BY <1>0 DEF Types
  <2> QED BY <1>0, <1>1, <1>3, <2>1 DEF Types
<1>5. Structure'
  <2>1. EntriesAreAlive'
    <3> SUFFICES ASSUME NEW x \in Uris, table'[x] # None
                 PROVE  backend'[table'[x]].state = "alive" /\ backend'[table'[x]].uri = x
      BY DEF EntriesAreAlive
    <3>1. x # u /\ table'[x] = table[x] /\ table[x] \in Clients
      BY <1>0, <1>3
    <3>2. backend[table[x]].state = "alive" /\ backend[table[x]].uri = x
      BY <1>0, <3>1 DEF Structure, EntriesAreAlive
    <3>3. table[x] # o
      BY <1>b, <3>1, <3>2
    <3> QED BY <1>3, <3>1, <3>2, <3>3
  <2>2. \A b \in Clients : BackendFits(b)'
    BY <1>0, <1>2, <1>3, <1>b DEF Structure, BackendFits
  <2>3. ASSUME NEW d \in Clients PROVE ClientFits(d)'
    <3>1. ClientFits(d) /\ BackendFits(o)
      BY <1>0, <1>2, <2>3 DEF Structure
    <3>2. client[d].pc = "new" => d # o
      BY <1>2, <1>b, <3>1 DEF ClientFits, BackendFits
    <3>3. Attached(d)' = Attached(d) /\ Of(d)' = Of(d) /\ client'[d] = client[d]
      BY <1>0 DEF Attached, Of
    <3> QED BY <1>3, <3>1, <3>2, <3>3 DEF ClientFits
  <2>4. MainFits' /\ ModesFit'
    BY <1>0, <1>1 DEF Structure, MainFits, ModesFit, Switching
  <2> QED BY <2>1, <2>2, <2>3, <2>4 DEF Structure
<1>6. ASSUME ~raced PROVE Undisturbed'
  <2>0. Undisturbed /\ table[u] = o /\ backend[o].clients = {}
    BY <1>0, <1>6, <1>b DEF IInv, Undisturbed, DropIsSafe
  <2>1. ASSUME NEW d \in Clients
        PROVE  ClientIsServed(d)' /\ RequestIsLocked(d)' /\ ModeFollows(d)'
    <3>1. ClientIsServed(d) /\ RequestIsLocked(d) /\ ModeFollows(d) /\ ClientFits(d)
      BY <1>0, <2>0 DEF Undisturbed, Structure
    <3>2. /\ Of(d)' = Of(d) /\ client'[d] = client[d] /\ Connected(d)' = Connected(d)
          /\ Known(d)' = Known(d) /\ Holds(d)' = Holds(d)
      BY <1>0 DEF Of, Connected, Known, Holds
    <3>3. ~Holds(d)
      BY <1>0, <1>2, <3>1 DEF RequestIsLocked
    <3>4. ClientIsServed(d)'
      <4> SUFFICES ASSUME Known(d) PROVE table'[client[d].uri] = Of(d) /\ d \in backend'[Of(d)].clients
        BY <3>2 DEF ClientIsServed
      <4>1. table[client[d].uri] = Of(d) /\ d \in backend[Of(d)].clients
        BY <3>1 DEF ClientIsServed
      <4>2. client[d].uri \in Uris /\ Of(d) \in Clients
        BY <3>1 DEF ClientFits, Known, Attached
      <4>3. client[d].uri # u
        BY <2>0, <4>1
      <4> QED BY <1>3, <4>1, <4>2, <4>3
    <3>5. ModeFollows(d)'
      <4>1. Connected(d) => backend'[Of(d)].mode = backend[Of(d)].mode
        BY <1>3, <3>1 DEF ClientFits, Connected, Attached
      <4> QED BY <1>0, <1>1, <3>1, <3>2, <4>1 DEF ModeFollows, Switching
    <3> QED BY <3>2, <3>3, <3>4, <3>5 DEF RequestIsLocked
  <2>2. DropIsSafe'
    BY <1>1 DEF DropIsSafe
  <2>3. server' = server
    BY <1>0, <1>a, <2>0
  <2>4. \A d \in Clients : NotOverlooked(d)'
    <3> SUFFICES ASSUME NEW d \in Clients PROVE NotOverlooked(d)'
      OBVIOUS
    <3>1. NotOverlooked(d)
      BY <2>0 DEF Undisturbed
    <3>2. /\ Ending' => Ending
          /\ main'.pc = "countBooks" => main.pc = "countBooks"
          /\ Known(d)' => Known(d)
          /\ InCalendar(d)' => InCalendar(d)
      BY <1>0, <1>1, <2>3 DEF Known, InCalendar, Attached, Ending
    <3> QED BY <3>1, <3>2, NotOverlookedKeeps
  <2> QED BY <2>0, <2>1, <2>2, <2>3, <2>4 DEF Undisturbed
<1> QED BY <1>0, <1>4, <1>5, <1>6 DEF IInv

-----------------------------------------------------------------------------
(* When no calendar runs, no client has one: each would keep an entry in    *)
(* the table.                                                              *)
LEMMA NoCalendarLeft ==
  ASSUME IInv, ~raced, cal_n_backends = 0, NEW c \in Clients
  PROVE  ~InCalendar(c)
<1> SUFFICES ASSUME InCalendar(c) PROVE FALSE
  OBVIOUS
<1>1. client[c].uri \in Calendars /\ client[c].uri \in Uris /\ Attached(c) /\ ~client[c].died
  BY DEF InCalendar, Uris
<1>2. /\ ClientIsServed(c) /\ RequestIsLocked(c) /\ ClientFits(c)
      /\ Of(c) # None
  BY <1>1, FactoryAssumption DEF IInv, Undisturbed, Structure, ClientFits
<1>3. table[client[c].uri] = Of(c)
  <2>1. CASE client[c].pc = "add"
    BY <1>1, <1>2, <2>1 DEF RequestIsLocked, Holds
  <2>2. CASE client[c].pc # "add"
    BY <1>1, <1>2, <2>2 DEF ClientIsServed, Known, Attached
  <2> QED BY <2>1, <2>2
<1>4. Running(Calendars) # {} /\ Running(Calendars) \subseteq Calendars
  BY <1>1, <1>2, <1>3 DEF Running
<1> QED BY <1>4, FactoryAssumption, FS_Subset, FS_EmptySet DEF cal_n_backends

(* When no book counts as used, no client has one: each would keep an      *)
(* entry in the table, and a client in the list of that backend.           *)
LEMMA NoBookLeft ==
  ASSUME IInv, ~raced, book_n_backends = 0, NEW c \in Clients, client[c].uri \in Books
  PROVE  ~Known(c)
<1> SUFFICES ASSUME Known(c) PROVE FALSE
  OBVIOUS
<1>1. /\ table[client[c].uri] = Of(c) /\ c \in backend[Of(c)].clients
      /\ client[c].uri \in Uris /\ Of(c) # None
  BY FactoryAssumption DEF IInv, Undisturbed, ClientIsServed, Known, Structure, ClientFits, Attached
<1>2. client[c].uri \in Running(Books) /\ backend[table[client[c].uri]].clients # {}
  BY <1>1 DEF Running
<1>3. book_n_backends = Cardinality(Running(Books)) /\ Running(Books) # {}
  BY <1>2 DEF book_n_backends
<1>4. IsFiniteSet(Running(Books))
  <2>1. Running(Books) \subseteq Books
    BY DEF Running
  <2> QED BY <2>1, FactoryAssumption, FS_Subset
<1> QED BY <1>3, <1>4, FS_EmptySet

LEMMA CountCalendarsKeeps == ASSUME IInv, termination_handler PROVE IInv'
<1>0. /\ Types /\ Structure /\ main \in MainRecords
      /\ UNCHANGED <<table, backend, client, server, raced, stranded, bookMode, calMode,
                     backendsMutex, status, switches>>
      /\ main.pc = "idle"
  BY Known0 DEF termination_handler, MainAt, calVars
<1>1. \/ /\ cal_n_backends = 0 /\ main' = [main EXCEPT !.pc = "countBooks"] /\ termination' = termination
      \/ main' = main /\ termination' = FALSE
  BY DEF termination_handler, MainGoes
<1>2. /\ main' \in MainRecords /\ main'.pc \in {"idle", "countBooks"}
      /\ main'.pc = "countBooks" => cal_n_backends = 0
  BY <1>0, <1>1 DEF MainRecords
<1>3. ~Switching /\ ~Switching'
  BY <1>0, <1>2 DEF Switching
<1>4. MainFits' /\ DropIsSafe'
  BY <1>2 DEF MainFits, DropIsSafe
<1>5. ~raced /\ main'.pc = "countBooks" => \A d \in Clients : ~InCalendar(d)
  BY <1>2, NoCalendarLeft
<1>6. /\ calMode' = status' /\ bookMode = status' /\ calMode' \in Modes /\ status' \in Modes
      /\ switches' \in 0..MaxSwitches /\ main.pc # "calMode" /\ termination' \in BOOLEAN
  BY <1>0, <1>1, <1>3 DEF Structure, ModesFit, Types
<1> QED BY <1>0, <1>2, <1>3, <1>4, <1>5, <1>6, MainMovesKeeps

(* termination_books and main_returns: steps towards the end of the        *)
(* process, which nobody who is still there is told of.                    *)
LEMMA EndingKeeps ==
  ASSUME IInv, UNCHANGED <<table, backend, client, raced, stranded, bookMode, calVars, status, switches>>,
         main' \in MainRecords, main'.pc = "idle", termination' \in BOOLEAN,
         server' \in {server, "quitting", "quit"}, main.pc \in {"idle", "countBooks"},
         ~raced /\ server' # server => \A d \in Clients : ~Known(d) /\ ~InCalendar(d)
  PROVE  IInv'
<1>0. /\ Types /\ Structure
      /\ UNCHANGED <<table, backend, client, raced, stranded, bookMode, calMode, backendsMutex, status,
                     switches>>
  BY Known0 DEF calVars
<1>1. Switching' = Switching /\ ~Switching
  BY DEF Switching
<1>2. Types'
  BY <1>0, <1>1 DEF Types
<1>3. Structure'
  <2>1. MainFits' /\ ModesFit'
    BY <1>0, <1>1 DEF Structure, MainFits, ModesFit
  <2>2. \A d \in Clients : /\ Attached(d)' = Attached(d)
                           /\ client'[d].pc = "new" => client[d].pc = "new"
                           /\ client'[d].pc = "set" =>
                                 client'[d].uri \in Books /\ client'[d].mode \in Modes
    BY <1>0 DEF Attached, Structure, ClientFits
  <2> QED BY <1>0, <2>1, <2>2, SameShape
<1>4. ASSUME ~raced PROVE Undisturbed'
  <2>0. Undisturbed
    BY <1>4 DEF IInv
  <2>1. ASSUME NEW d \in Clients PROVE ClientIsServed(d)' /\ RequestIsLocked(d)' /\ ModeFollows(d)'
    <3>1. ClientIsServed(d) /\ RequestIsLocked(d) /\ ModeFollows(d)
      BY <2>0 DEF Undisturbed
    <3>2. /\ Connected(d)' = Connected(d) /\ Of(d)' = Of(d) /\ Known(d)' = Known(d)
          /\ Holds(d)' = Holds(d) /\ client'[d] = client[d]
      BY <1>0 DEF Connected, Of, Known, Holds
    <3> QED BY <1>0, <1>1, <3>1, <3>2 DEF ClientIsServed, RequestIsLocked, ModeFollows
  <2>2. DropIsSafe'
    BY <1>1 DEF DropIsSafe
  <2>3. ASSUME NEW d \in Clients PROVE NotOverlooked(d)'
    <3>1. Known(d)' = Known(d) /\ InCalendar(d)' = InCalendar(d) /\ NotOverlooked(d)
      BY <1>0, <2>0 DEF Known, InCalendar, Attached, Undisturbed
    <3>2. CASE server' = server
      BY <1>1, <3>1, <3>2 DEF NotOverlooked, Ending
    <3>3. CASE server' # server
      BY <1>4, <3>1, <3>3 DEF NotOverlooked
    <3> QED BY <3>2, <3>3
  <2>4. server' # "crashed"
    BY <2>0 DEF Undisturbed
  <2> QED BY <2>1, <2>2, <2>3, <2>4 DEF Undisturbed
<1> QED BY <1>0, <1>2, <1>3, <1>4 DEF IInv

LEMMA TerminationKeeps == ASSUME IInv, termination_books \/ main_returns PROVE IInv'
<1>0. Types /\ Structure /\ main \in MainRecords /\ termination \in BOOLEAN
  BY Known0 DEF Types
<1>1. ASSUME termination_books PROVE IInv'
  <2>1. /\ UNCHANGED <<table, backend, client, raced, stranded, bookMode, calVars, status, switches>>
        /\ main.pc = "countBooks" /\ main' = Idle /\ termination' \in BOOLEAN
        /\ server' = IF book_n_backends = 0 THEN "quitting" ELSE server
    BY <1>1 DEF termination_books, MainAt
  <2>2. ASSUME ~raced, server' # server, NEW d \in Clients PROVE ~Known(d) /\ ~InCalendar(d)
    <3>1. ~InCalendar(d)
      BY <2>1, <2>2 DEF IInv, Undisturbed, NotOverlooked
    <3>2. client[d].uri \in Books => ~Known(d)
      BY <2>1, <2>2, NoBookLeft
    <3>3. Known(d) => Attached(d) /\ client[d].uri \in Uris /\ ~client[d].died
      BY <1>0 DEF Structure, ClientFits, Known, Attached
    <3> QED BY <3>1, <3>2, <3>3 DEF InCalendar, Uris
  <2>3. main' \in MainRecords /\ main'.pc = "idle" /\ server' \in {server, "quitting", "quit"}
    BY <2>1 DEF MainRecords, Idle
  <2> QED BY <2>1, <2>2, <2>3, EndingKeeps
<1>2. ASSUME main_returns PROVE IInv'
  <2>1. /\ UNCHANGED <<table, backend, client, main, raced, stranded, bookMode, calVars, serverVars>>
        /\ main.pc = "idle" /\ server = "quitting" /\ server' = "quit"
    BY <1>2 DEF main_returns, MainAt
  <2>2. ~raced => \A d \in Clients : ~Known(d) /\ ~InCalendar(d)
    BY <2>1 DEF IInv, Undisturbed, NotOverlooked, Ending
  <2>3. /\ main' \in MainRecords /\ main'.pc = "idle" /\ termination' \in BOOLEAN
        /\ server' \in {server, "quitting", "quit"}
        /\ UNCHANGED <<table, backend, client, raced, stranded, bookMode, calVars, status, switches>>
    BY <1>0, <2>1 DEF serverVars
  <2> QED BY <1>0, <2>1, <2>2, <2>3, EndingKeeps
<1> QED BY <1>1, <1>2

-----------------------------------------------------------------------------
(* The requests and callbacks, by the lemmas above *)

LEMMA ServesKeeps == ASSUME IInv, NEW c \in Clients, Serves(c) PROVE IInv'
<1>0. Types /\ Structure /\ raced \in BOOLEAN /\ Books \subseteq Uris /\ Calendars \subseteq Uris
  BY Known0 DEF Uris
<1>1. ASSUME BookStep(e_book_backend_add_client(c)) PROVE IInv'
  <2>1. /\ client[c].pc = "add" /\ client[c].uri \in Books /\ AddClient(c) /\ Goes(c, "mode")
        /\ UNCHANGED <<table, main, bookMode, calVars, serverVars>>
        /\ Up /\ server' = server
        /\ raced' = (raced \/ table[client[c].uri] # Of(c) \/ server = "quitting")
        /\ ~(main.pc \in {"bookGone", "bookCheck"} /\ main.backend = Of(c))
    BY <1>1 DEF BookStep, e_book_backend_add_client, BookAt, At
  <2>2. /\ raced' \in BOOLEAN /\ (raced => raced') /\ (~raced' => table[client[c].uri] = Of(c))
        /\ (~raced' => ~Ending) /\ stranded' \subseteq Clients
    BY <1>0, <2>1 DEF Up, Ending, AddClient, Types
  <2>3. ~(main.pc = "calGone" /\ main.backend = Of(c))
    <3>1. backend[Of(c)].uri \in Books
      BY <1>0, <2>1, ClientKnown
    <3> QED BY <1>0, <3>1, FactoryAssumption DEF Structure, MainFits
  <2> QED BY <1>0, <2>1, <2>2, <2>3, AddClientKeeps
<1>2. ASSUME CalStep(e_cal_backend_add_client(c)) PROVE IInv'
  <2>1. /\ client[c].pc = "add" /\ client[c].uri \in Calendars /\ AddClient(c) /\ Goes(c, "mode")
        /\ UNCHANGED <<table, main, bookMode, calVars, serverVars>>
        /\ server' = (IF backend[Of(c)].state = "finalized" THEN "crashed" ELSE server)
        /\ raced' = (raced \/ (main.pc = "calGone" /\ main.backend = Of(c)))
    BY <1>2 DEF CalStep, e_cal_backend_add_client, CalAt, At, MainAt
  <2>2. raced' \in BOOLEAN /\ (raced => raced') /\ stranded' \subseteq Clients
        /\ (~raced' => ~(main.pc = "calGone" /\ main.backend = Of(c)))
    BY <1>0, <2>1 DEF AddClient, Types
  <2>3. ~(main.pc = "bookGone" /\ main.backend = Of(c))
    <3>1. backend[Of(c)].uri \in Calendars
      BY <1>0, <2>1, ClientKnown
    <3> QED BY <1>0, <3>1, FactoryAssumption DEF Structure, MainFits
  <2>4. ASSUME ~raced' PROVE table[client[c].uri] = Of(c) /\ server' = server
    <3>1. Undisturbed
      BY <2>2, <2>4 DEF IInv
    <3>2. table[client[c].uri] = Of(c)
      BY <2>1, <3>1 DEF Undisturbed, RequestIsLocked, Holds
    <3>3. Of(c) \in Clients
      BY <1>0, <2>1, ClientKnown
    <3>4. backend[Of(c)].state = "alive"
      BY <1>0, <2>1, <3>2, <3>3, FactoryAssumption DEF Structure, EntriesAreAlive
    <3> QED BY <2>1, <3>2, <3>4
  <2>5. server' \in {server, "crashed"}
    BY <2>1
  <2>6. client[c].uri \in Uris
    BY <1>0, <2>1
  <2> QED BY <2>1, <2>2, <2>3, <2>4, <2>5, <2>6, AddClientKeeps
<1>3. ASSUME BookStep(e_book_backend_set_mode(c)) PROVE IInv'
  <2>1. /\ client[c].pc = "set" /\ client[c].uri \in Books
        /\ backend' = [backend EXCEPT ![Of(c)].mode = client[c].mode] /\ Goes(c, "connected")
        /\ UNCHANGED <<table, main, raced, stranded, bookMode, calMode, backendsMutex, serverVars>>
        /\ server' = server
    BY <1>3 DEF BookStep, e_book_backend_set_mode, BookAt, At, calVars
  <2>2. client[c].mode \in Modes
    BY <1>0, <2>1 DEF Structure, ClientFits
  <2> QED BY <1>0, <2>1, <2>2, SetModeKeeps
<1>4. ASSUME CalStep(e_cal_backend_set_mode(c)) PROVE IInv'
  <2>1. /\ client[c].pc = "mode" /\ client[c].uri \in Calendars
        /\ backend' = [backend EXCEPT ![Of(c)].mode = calMode] /\ Goes(c, "connected")
        /\ UNCHANGED <<table, main, raced, stranded, bookMode, calMode, serverVars>>
        /\ backendsMutex' = None
        /\ server' = (IF backend[Of(c)].state = "finalized" THEN "crashed" ELSE server)
    BY <1>4 DEF CalStep, e_cal_backend_set_mode, CalAt, At
  <2>2. calMode \in Modes
    BY <1>0 DEF Types
  <2>3. server' \in {server, "crashed"} /\ (backend[Of(c)].state = "alive" => server' = server)
    BY <2>1
  <2> QED BY <1>0, <2>1, <2>2, <2>3, SetModeKeeps
<1> QED BY <1>1, <1>2, <1>3, <1>4, ReadModeKeeps DEF Serves

(* The first step of a request, and what a client's process may cause *)
LEMMA AsksKeeps ==
  ASSUME IInv, NEW c \in Clients,
         \/ \E u \in Books : BookStep(getBook(c, u))
         \/ BookStep(getBook_fails(c))
         \/ BookStep(book_listener_died(c))
         \/ \E u \in Calendars : CalStep(getCal(c, u))
         \/ \E u \in Calendars : CalStep(getCal_new_fails(c, u))
         \/ CalStep(getCal_unsupported(c))
         \/ CalStep(getCal_fails(c))
         \/ CalStep(cal_listener_died(c))
  PROVE  IInv'
<1>0. /\ Types /\ Structure /\ raced \in BOOLEAN /\ main \in MainRecords
      /\ Books \subseteq Uris /\ Calendars \subseteq Uris
  BY Known0 DEF Uris
<1>1. ASSUME NEW u \in Books, BookStep(getBook(c, u)) PROVE IInv'
  <2>1. u \notin Calendars /\ u \in Uris
    BY <1>0, FactoryAssumption
  <2>2. raced' = raced
    BY <1>1 DEF BookStep, getBook
  <2> QED BY <1>0, <1>1, <2>1, <2>2, LookupKeeps DEF BookStep, getBook, calVars
<1>2. ASSUME NEW u \in Calendars, CalStep(getCal(c, u)) PROVE IInv'
  <2>1. u \notin Books /\ u \in Uris
    BY <1>0, FactoryAssumption
  <2>2. /\ client[c].pc = "new" /\ LookupOrLaunch(c, u) /\ Up /\ backendsMutex = None
        /\ backendsMutex' = c /\ raced' = (raced \/ Overlooked)
        /\ UNCHANGED <<main, server, stranded, bookMode, calMode, serverVars>>
    BY <1>2 DEF CalStep, getCal
  <2>3. /\ raced' \in BOOLEAN /\ (raced => raced')
        /\ (~raced' => main.pc # "countBooks" /\ ~Ending)
    BY <1>0, <2>2 DEF Overlooked, MainAt, Up, Ending
  <2> QED BY <1>2, <2>1, <2>2, <2>3, LookupKeeps
<1>3. ASSUME BookStep(getBook_fails(c)) PROVE IInv'
  BY <1>0, <1>3, RefusedKeeps DEF BookStep, getBook_fails, calVars
<1>4. ASSUME CalStep(getCal_fails(c)) PROVE IInv'
  BY <1>0, <1>4, RefusedKeeps DEF CalStep, getCal_fails, calVars
<1>5. ASSUME CalStep(getCal_unsupported(c)) PROVE IInv'
  <2>1. /\ client[c].pc = "new" /\ Refused(c) /\ raced' = (raced \/ backendsMutex # None)
        /\ backendsMutex' = None /\ UNCHANGED <<bookMode, calMode, serverVars>>
    BY <1>5 DEF CalStep, getCal_unsupported
  <2>2. raced' \in BOOLEAN /\ (raced => raced') /\ (~raced' => backendsMutex' = backendsMutex)
    BY <1>0, <2>1
  <2> QED BY <2>1, <2>2, RefusedKeeps
<1>6. ASSUME BookStep(book_listener_died(c)) PROVE IInv'
  <2>1. /\ Breaks(c, Books) /\ RemoveClient(c) /\ server' = server
        /\ UNCHANGED <<table, stranded, bookMode, calVars, serverVars>>
        /\ main' = IF backend[Of(c)].clients \subseteq {c} THEN [pc |-> "bookGone", backend |-> Of(c)]
                   ELSE main
    BY <1>6 DEF BookStep, book_listener_died
  <2>2. Of(c) \in Clients
    BY <1>0, <2>1, ClientKnown DEF Breaks
  <2>3. \/ main' = main
        \/ /\ main'.pc = "bookGone" /\ main'.backend = Of(c) /\ backend[Of(c)].clients \subseteq {c}
    BY <2>1
  <2>4. main' \in MainRecords
    BY <1>0, <2>1, <2>2 DEF MainRecords
  <2> QED BY <2>1, <2>3, <2>4, DiedKeeps
<1>7. ASSUME CalStep(cal_listener_died(c)) PROVE IInv'
  <2>1. /\ Breaks(c, Calendars) /\ RemoveClient(c)
        /\ server' = (IF backend[Of(c)].state = "finalized" THEN "crashed" ELSE server)
        /\ UNCHANGED <<table, stranded, bookMode, calVars, serverVars>>
        /\ main' = [pc |-> "calTest", backend |-> Of(c)]
    BY <1>7 DEF CalStep, cal_listener_died
  <2>2. Of(c) \in Clients
    BY <1>0, <2>1, ClientKnown DEF Breaks
  <2>3. main' \in MainRecords /\ main'.pc = "calTest" /\ main'.backend = Of(c)
    BY <2>1, <2>2 DEF MainRecords
  <2>4. server' \in {server, "crashed"} /\ (backend[Of(c)].state = "alive" => server' = server)
    BY <2>1
  <2>5. CASE Books = Calendars
    BY <2>1, <2>5, FactoryAssumption DEF Breaks
  <2>6. CASE Books # Calendars
    BY <2>1, <2>3, <2>4, <2>6, DiedKeeps
  <2> QED BY <2>5, <2>6
<1> QED BY <1>1, <1>2, <1>3, <1>4, <1>5, <1>6, <1>7, NewFailsKeeps

LEMMA MainLoopKeeps == ASSUME IInv, MainLoop PROVE IInv'
BY BookDroppedKeeps, BookGoneKeeps, CalTestKeeps, CalDroppedKeeps, CalModeKeeps, BookModeKeeps,
   CountCalendarsKeeps, TerminationKeeps DEF MainLoop

LEMMA StutterKeeps == ASSUME IInv, UNCHANGED vars PROVE IInv'
<1>0. UNCHANGED <<table, backend, client, main, server, raced, stranded, bookMode, calMode, backendsMutex,
                  termination, status, switches>>
  BY DEF vars, factoryVars, calVars, serverVars
<1>1. Types' /\ Structure'
  BY <1>0 DEF IInv, Types, Structure, EntriesAreAlive, BackendFits, ClientFits, Attached, Of, MainFits,
     ModesFit, Switching
<1>2. ~raced' => Undisturbed'
  BY <1>0 DEF IInv, Undisturbed, ClientIsServed, RequestIsLocked, ModeFollows, DropIsSafe, Known,
     Holds, Connected, Of, Switching, NotOverlooked, InCalendar, Attached, Ending
<1> QED BY <1>1, <1>2 DEF IInv

LEMMA StepKeeps == IInv /\ [Next]_vars => IInv'
BY ServesKeeps, AsksKeeps, OpenKeeps, MainLoopKeeps, SwitchKeeps, StutterKeeps DEF Next

-----------------------------------------------------------------------------
(* The invariant holds of the server process: table, backends and clients  *)
(* fit together in every state of e-data-book-factory.c and                *)
(* e-data-cal-factory.c, and until a step falls into a gap of the locks    *)
(* every client, every request and every drop of a backend finds what it   *)
(* relies on.                                                              *)
THEOREM ServerInvariant == Spec => []IInv
BY InitHolds, StepKeeps, PTL DEF Spec

(* The types; and neither factory's table ever refers to a backend that    *)
(* backend_last_client_gone_cb has finalized.                              *)
THEOREM ServerTypeOK == Spec => []TypeOK
<1>1. IInv => TypeOK
  BY InvImplies
<1> QED BY <1>1, ServerInvariant, PTL

(* A connected client is served by the backend that the table gives to     *)
(* later clients, and the process has neither crashed nor begun to end,    *)
(* unless a step fell into a gap between map_mutex, clients_mutex and      *)
(* backends_mutex: among them the gaps of termination_handler, after it    *)
(* has counted the calendars and after it has called bonobo_main_quit.     *)
THEOREM ServerClientsServed == Spec => []ClientsServed
<1>1. IInv => ClientsServed
  BY InvImplies
<1> QED BY <1>1, ServerInvariant, PTL

(* After set_online_status (offline-listener.c) has told both factories, every backend with a   *)
(* connected client is in the mode that GConf has told last, also when     *)
(* requests set modes at the same time.                                    *)
THEOREM ServerModeAgrees == Spec => []ModeAgrees
<1>1. IInv => ModeAgrees
  BY InvImplies
<1> QED BY <1>1, ServerInvariant, PTL
=============================================================================
