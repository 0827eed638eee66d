----------------------- MODULE CamelObjectBag_proofs -----------------------
(***************************************************************************)
(* Theorems about CamelObjectBag, for any threads, keys and objects that   *)
(* use a bag as its documentation asks (BagSpec).                          *)
(***************************************************************************)
EXTENDS CamelObjectBag, TLAPS

-----------------------------------------------------------------------------
(* The inductive invariant: the properties, and three facts about objects  *)
(* and keys between a reservation and its end.                             *)

\* An object that is not yet in the bag belongs to the thread that made it.
FreshIsNew ==
    \A t \in Threads : fresh[t] # NoObject =>
       /\ refCount[fresh[t]] > 0
       /\ keyTable[fresh[t]] = NoKey
       /\ \A u \in Threads : fresh[u] = fresh[t] => u = t

\* Memory that is not in use is in no table.
FreeIsUnfiled == \A o \in Objects : refCount[o] = 0 => keyTable[o] = NoKey

\* Nothing appears under a key while its object is created, but by a rekey.
CreatedIsAbsent ==
    \A t \in Threads : \A k \in creating[t] : k \notin clashed => objectTable[k] = NoObject

BagInv ==
    /\ BagTypeOK
    /\ CreatorOwns
    /\ SomeoneWillUnreserve
    /\ TablesAgree
    /\ FreshIsNew
    /\ FreeIsUnfiled
    /\ CreatedIsAbsent

-----------------------------------------------------------------------------
(* Reservations.                                                           *)

\* co_bag_unreserve, called by the owner with nobody woken: another thread is
\* woken, or the reservation is gone.
LEMMA UnreserveByOwner ==
    ASSUME NEW t \in Threads, NEW k \in Keys, NEW r \in Reservation,
           reserved \in [Keys -> Reservation],
           r.there, r.owner = t, r.woken = {},
           co_bag_unreserve(t, k, r)
    PROVE  /\ aborted' = FALSE
           /\ reserved' \in [Keys -> Reservation]
           /\ \A j \in Keys \ {k} : reserved'[j] = reserved[j]
           /\ IF reserved'[k].there
              THEN reserved'[k].owner = NoThread /\ \E w \in Threads : reserved'[k].woken = {w}
              ELSE ~HasWaiters(reserved'[k])
<1> DEFINE r0 == [r EXCEPT !.owner = NoThread]
<1>1. r0 \in Reservation /\ r0.waiting = r.waiting /\ r0.woken = {} /\ r0.there /\ r0.owner = NoThread
  BY DEF Reservation
<1>2. PICK s \in IF HasWaiters(r) THEN Signal(r0) ELSE {NoReservation} : reserved' = [reserved EXCEPT ![k] = s]
  BY DEF co_bag_unreserve
<1>3. aborted' = FALSE
  BY DEF co_bag_unreserve
<1>4. /\ s \in Reservation
      /\ IF s.there THEN s.owner = NoThread /\ \E w \in Threads : s.woken = {w} ELSE ~HasWaiters(s)
  <2>1. CASE HasWaiters(r)
    <3>1. r.waiting # {}
      BY <2>1 DEF HasWaiters
    <3>2. PICK w \in r.waiting : s = [r0 EXCEPT !.waiting = @ \ {w}, !.woken = @ \cup {w}]
      BY <1>1, <1>2, <2>1, <3>1 DEF Signal
    <3>3. w \in Threads
      BY DEF Reservation
    <3> QED
      BY <1>1, <3>2, <3>3 DEF Reservation
  <2>2. CASE ~HasWaiters(r)
    <3>1. s = NoReservation
      BY <1>2, <2>2
    <3> QED
      BY <3>1 DEF NoReservation, Reservation, HasWaiters
  <2> QED
    BY <2>1, <2>2
<1> QED
  BY <1>2, <1>3, <1>4


\* A thread that waits adds itself to the sleepers of a reservation that is
\* not its own.
LEMMA WaitKeepsReservations ==
    ASSUME BagTypeOK, CreatorOwns, SomeoneWillUnreserve,
           NEW t \in Threads, NEW k \in Keys, NEW what, k \notin creating[t],
           Wait(t, k, what)
    PROVE  /\ reserved' \in [Keys -> Reservation]
           /\ aborted' = FALSE
           /\ CreatorOwns'
           /\ SomeoneWillUnreserve'
<1> DEFINE s == [reserved[k] EXCEPT !.waiting = @ \cup {t}]
<1>1. reserved[k] \in Reservation /\ reserved \in [Keys -> Reservation]
  BY DEF BagTypeOK
<1>2. /\ s \in Reservation /\ s.there = reserved[k].there
      /\ s.owner = reserved[k].owner /\ s.woken = reserved[k].woken
  BY <1>1 DEF Reservation
<1>3. reserved' = [reserved EXCEPT ![k] = s] /\ creating' = creating
  BY DEF Wait
<1>4. reserved[k].there /\ reserved[k].owner # t
  BY BagAssumption DEF Wait, SomeoneWillUnreserve
<1>5. aborted' = FALSE
  BY <1>4 DEF Wait
<1> HIDE DEF s
<1>6. reserved' \in [Keys -> Reservation]
  BY <1>1, <1>2, <1>3
<1>7. CreatorOwns'
  BY <1>1, <1>2, <1>3 DEF CreatorOwns, BagTypeOK
<1>8. SomeoneWillUnreserve'
  <2> SUFFICES ASSUME NEW j \in Keys
               PROVE  LET r == reserved'[j] IN
                      IF r.there
                      THEN \/ r.owner # NoThread /\ j \in creating'[r.owner] /\ r.woken = {}
                           \/ r.owner = NoThread /\ \E u \in Threads : r.woken = {u}
                      ELSE ~HasWaiters(r)
    BY DEF SomeoneWillUnreserve, HasWaiters
  <2>1. CASE j = k
    <3>1. reserved'[j] = s
      BY <1>1, <1>3, <2>1
    <3> QED
      BY <1>2, <1>3, <1>4, <2>1, <3>1 DEF SomeoneWillUnreserve
  <2>2. CASE j # k
    <3>1. reserved'[j] = reserved[j]
      BY <1>1, <1>3, <2>2
    <3> QED
      BY <1>3, <3>1 DEF SomeoneWillUnreserve
  <2> QED
    BY <2>1, <2>2
<1> QED
  BY <1>5, <1>6, <1>7, <1>8

\* A thread that has become the owner of a reservation, and the only one to
\* create its object, gives it up.
LEMMA UnreserveKeepsReservations ==
    ASSUME BagTypeOK, CreatorOwns, SomeoneWillUnreserve,
           NEW t \in Threads, NEW k \in Keys, NEW r \in Reservation,
           r.there, r.owner = t, r.woken = {},
           \A u \in Threads \ {t} : k \notin creating[u],
           creating' = [creating EXCEPT ![t] = @ \ {k}],
           co_bag_unreserve(t, k, r)
    PROVE  /\ reserved' \in [Keys -> Reservation]
           /\ aborted' = FALSE
           /\ CreatorOwns'
           /\ SomeoneWillUnreserve'
<1>1. /\ aborted' = FALSE
      /\ reserved' \in [Keys -> Reservation]
      /\ \A j \in Keys \ {k} : reserved'[j] = reserved[j]
      /\ IF reserved'[k].there
         THEN reserved'[k].owner = NoThread /\ \E w \in Threads : reserved'[k].woken = {w}
         ELSE ~HasWaiters(reserved'[k])
  BY UnreserveByOwner DEF BagTypeOK
<1>2. /\ \A u \in Threads : k \notin creating'[u]
      /\ \A u \in Threads, j \in Keys \ {k} : j \in creating'[u] <=> j \in creating[u]
  BY DEF BagTypeOK
<1>3. CreatorOwns'
  BY <1>1, <1>2 DEF CreatorOwns, BagTypeOK
<1>4. SomeoneWillUnreserve'
  <2> SUFFICES ASSUME NEW j \in Keys
               PROVE  LET s == reserved'[j] IN
                      IF s.there
                      THEN \/ s.owner # NoThread /\ j \in creating'[s.owner] /\ s.woken = {}
                           \/ s.owner = NoThread /\ \E u \in Threads : s.woken = {u}
                      ELSE ~HasWaiters(s)
    BY DEF SomeoneWillUnreserve, HasWaiters
  <2>1. CASE j = k
    BY <1>1, <2>1
  <2>2. CASE j # k
    <3>1. reserved'[j] = reserved[j] /\ reserved[j].owner \in Threads \cup {NoThread}
      BY <1>1, <2>2 DEF BagTypeOK, Reservation
    <3> QED
      BY <1>2, <2>2, <3>1 DEF SomeoneWillUnreserve
  <2> QED
    BY <2>1, <2>2
<1> QED
  BY <1>1, <1>3, <1>4

\* A thread whose wait has ended, as the new owner of the reservation.
LEMMA WokenOwns ==
    ASSUME BagTypeOK, CreatorOwns, SomeoneWillUnreserve,
           NEW t \in Threads, NEW k \in Keys, t \in reserved[k].woken
    PROVE  LET r == [reserved[k] EXCEPT !.woken = @ \ {t}, !.owner = t] IN
           /\ r \in Reservation /\ r.there /\ r.owner = t /\ r.woken = {}
           /\ \A u \in Threads : k \notin creating[u]
<1>1. reserved[k] \in Reservation
  BY DEF BagTypeOK
<1>2. reserved[k].there /\ reserved[k].owner = NoThread /\ reserved[k].woken = {t}
  BY DEF SomeoneWillUnreserve, HasWaiters
<1>3. \A u \in Threads : k \notin creating[u]
  BY <1>2, BagAssumption DEF CreatorOwns
<1> QED
  BY <1>1, <1>2, <1>3 DEF Reservation

\* PassOn: a woken thread takes the reservation over and gives it up.
LEMMA PassOnKeepsReservations ==
    ASSUME BagTypeOK, CreatorOwns, SomeoneWillUnreserve,
           NEW t \in Threads, NEW k \in Keys, t \in reserved[k].woken,
           PassOn(t, k)
    PROVE  /\ reserved' \in [Keys -> Reservation]
           /\ aborted' = FALSE
           /\ CreatorOwns'
           /\ SomeoneWillUnreserve'
<1> DEFINE r == [reserved[k] EXCEPT !.woken = @ \ {t}, !.owner = t]
<1>1. /\ r \in Reservation /\ r.there /\ r.owner = t /\ r.woken = {}
      /\ \A u \in Threads : k \notin creating[u]
  BY WokenOwns
<1>2. co_bag_unreserve(t, k, r)
  BY DEF PassOn
<1>3. creating' = [creating EXCEPT ![t] = @ \ {k}]
  BY <1>1 DEF PassOn, BagTypeOK
<1> HIDE DEF r
<1> QED
  BY <1>1, <1>2, <1>3, UnreserveKeepsReservations

\* ReserveNew and TakeOver: reserve returns NULL to the only creator of a key.
LEMMA BeginKeepsReservations ==
    ASSUME BagTypeOK, CreatorOwns, SomeoneWillUnreserve,
           NEW t \in Threads, NEW k \in Keys, NEW r \in Reservation,
           r.there, r.owner = t, r.woken = {},
           \A u \in Threads : k \notin creating[u],
           reserved' = [reserved EXCEPT ![k] = r],
           creating' = [creating EXCEPT ![t] = @ \cup {k}]
    PROVE  /\ reserved' \in [Keys -> Reservation]
           /\ CreatorOwns'
           /\ SomeoneWillUnreserve'
<1>1. reserved' \in [Keys -> Reservation] /\ reserved'[k] = r
  BY DEF BagTypeOK
<1>2. \A j \in Keys \ {k} : reserved'[j] = reserved[j]
  BY DEF BagTypeOK
<1>3. /\ \A u \in Threads : k \in creating'[u] <=> u = t
      /\ \A u \in Threads, j \in Keys \ {k} : j \in creating'[u] <=> j \in creating[u]
  BY DEF BagTypeOK
<1>4. \A u \in Threads : creating'[u] \subseteq Keys
  BY DEF BagTypeOK
<1>5. CreatorOwns'
  BY <1>1, <1>2, <1>3, <1>4 DEF CreatorOwns
<1>6. SomeoneWillUnreserve'
  <2> SUFFICES ASSUME NEW j \in Keys
               PROVE  LET s == reserved'[j] IN
                      IF s.there
                      THEN \/ s.owner # NoThread /\ j \in creating'[s.owner] /\ s.woken = {}
                           \/ s.owner = NoThread /\ \E u \in Threads : s.woken = {u}
                      ELSE ~HasWaiters(s)
    BY DEF SomeoneWillUnreserve, HasWaiters
  <2>1. CASE j = k
    BY <1>1, <1>3, <2>1, BagAssumption
  <2>2. CASE j # k
    <3>1. reserved'[j] = reserved[j] /\ reserved[j].owner \in Threads \cup {NoThread}
      BY <1>2, <2>2 DEF BagTypeOK, Reservation
    <3> QED
      BY <1>3, <2>2, <3>1 DEF SomeoneWillUnreserve
  <2> QED
    BY <2>1, <2>2
<1> QED
  BY <1>1, <1>5, <1>6

\* A step that touches neither reservations nor creators.
LEMMA OthersKeepReservations ==
    ASSUME BagTypeOK, CreatorOwns, SomeoneWillUnreserve,
           UNCHANGED <<reserved, creating>>
    PROVE  reserved' \in [Keys -> Reservation] /\ CreatorOwns' /\ SomeoneWillUnreserve'
BY DEF BagTypeOK, CreatorOwns, SomeoneWillUnreserve, HasWaiters

\* camel_object_bag_abort by a thread that has no reservation changes none.
LEMMA StrayAbort ==
    ASSUME BagTypeOK, CreatorOwns, SomeoneWillUnreserve,
           NEW t \in Threads, NEW k \in Keys, k \notin creating[t],
           camel_object_bag_abort(t, k)
    PROVE  UNCHANGED <<objectTable, keyTable, reserved, refCount, call, creating, fresh, clashed>>
           /\ aborted' = TRUE
<1>1. ~(reserved[k].there /\ reserved[k].owner = t)
  BY BagAssumption DEF SomeoneWillUnreserve
<1>2. creating' = creating
  BY DEF camel_object_bag_abort, BagTypeOK
<1> QED
  BY <1>1, <1>2 DEF camel_object_bag_abort, co_bag_unreserve

\* A creator that adds or aborts.
LEMMA EndKeepsReservations ==
    ASSUME BagTypeOK, CreatorOwns, SomeoneWillUnreserve,
           NEW t \in Threads, NEW k \in Keys, k \in creating[t],
           creating' = [creating EXCEPT ![t] = @ \ {k}],
           co_bag_unreserve(t, k, reserved[k])
    PROVE  /\ reserved' \in [Keys -> Reservation]
           /\ aborted' = FALSE
           /\ CreatorOwns'
           /\ SomeoneWillUnreserve'
<1>1. reserved[k] \in Reservation
  BY DEF BagTypeOK
<1>2. reserved[k].there /\ reserved[k].owner = t
  BY DEF CreatorOwns
<1>3. reserved[k].woken = {}
  BY <1>2, BagAssumption DEF SomeoneWillUnreserve
<1>4. \A u \in Threads \ {t} : k \notin creating[u]
  BY <1>2 DEF CreatorOwns
<1> QED
  BY <1>1, <1>2, <1>3, <1>4, UnreserveKeepsReservations

\* The object a creator adds is not in the bag yet.
LEMMA AddFiles ==
    ASSUME BagInv, NEW t \in Threads, NEW k \in Keys, k \in creating[t], fresh[t] # NoObject,
           camel_object_bag_add(t, k, fresh[t])
    PROVE  /\ fresh[t] \in Objects
           /\ keyTable[fresh[t]] = NoKey
           /\ objectTable' = [objectTable EXCEPT ![k] = fresh[t]]
           /\ keyTable' = [keyTable EXCEPT ![fresh[t]] = k]
           /\ creating' = [creating EXCEPT ![t] = @ \ {k}]
           /\ co_bag_unreserve(t, k, reserved[k])
BY DEF BagInv, BagTypeOK, FreshIsNew, camel_object_bag_add

\* Reservations are kept by every step of BagNext.
LEMMA NextKeepsReservations ==
    ASSUME BagInv, BagNext
    PROVE  /\ reserved' \in [Keys -> Reservation]
           /\ aborted' \in BOOLEAN
           /\ CreatorOwns'
           /\ SomeoneWillUnreserve'
<1>a. BagTypeOK /\ CreatorOwns /\ SomeoneWillUnreserve
  BY DEF BagInv
<1>b. aborted \in BOOLEAN
  BY <1>a DEF BagTypeOK
<1>1. ASSUME NEW t \in Threads, NEW k \in Keys, k \notin creating[t],
             camel_object_bag_reserve(t, k) \/ camel_object_bag_get(t, k)
      PROVE  /\ reserved' \in [Keys -> Reservation] /\ aborted' \in BOOLEAN
             /\ CreatorOwns' /\ SomeoneWillUnreserve'
  <2>1. CASE camel_object_bag_peek(t, k) \/ UNCHANGED bagVars
    <3>1. UNCHANGED <<reserved, creating, aborted>>
      BY <2>1 DEF camel_object_bag_peek, bagVars
    <3> QED
      BY <1>a, <1>b, <3>1, OthersKeepReservations
  <2>2. CASE Wait(t, k, "reserve") \/ Wait(t, k, "get")
    <3>1. /\ reserved' \in [Keys -> Reservation] /\ aborted' = FALSE
          /\ CreatorOwns' /\ SomeoneWillUnreserve'
      BY <1>a, <1>1, <2>2, WaitKeepsReservations
    <3> QED
      BY <3>1
  <2>3. CASE ReserveNew(t, k)
    <3> DEFINE r == ReservedBy(t)
    <3>1. r \in Reservation /\ r.there /\ r.owner = t /\ r.woken = {}
      BY DEF ReservedBy, Reservation
    <3>2. \A u \in Threads : k \notin creating[u]
      BY <1>a, <2>3 DEF ReserveNew, CreatorOwns
    <3>3. /\ reserved' = [reserved EXCEPT ![k] = r]
          /\ creating' = [creating EXCEPT ![t] = @ \cup {k}]
          /\ aborted' = aborted
      BY <2>3 DEF ReserveNew
    <3> HIDE DEF r
    <3> QED
      BY <1>a, <1>b, <3>1, <3>2, <3>3, BeginKeepsReservations
  <2> QED
    BY <1>1, <2>1, <2>2, <2>3 DEF camel_object_bag_reserve, camel_object_bag_get
<1>2. ASSUME NEW t \in Threads, NEW k \in Keys, reserve_woken(t, k) \/ get_woken(t, k)
      PROVE  /\ reserved' \in [Keys -> Reservation] /\ aborted' \in BOOLEAN
             /\ CreatorOwns' /\ SomeoneWillUnreserve'
  <2>1. t \in reserved[k].woken
    BY <1>2 DEF reserve_woken, get_woken, Woken
  <2>2. CASE PassOn(t, k)
    <3>1. /\ reserved' \in [Keys -> Reservation] /\ aborted' = FALSE
          /\ CreatorOwns' /\ SomeoneWillUnreserve'
      BY <1>a, <2>1, <2>2, PassOnKeepsReservations
    <3> QED
      BY <3>1
  <2>3. CASE TakeOver(t, k)
    <3> DEFINE r == [reserved[k] EXCEPT !.woken = @ \ {t}, !.owner = t]
    <3>1. /\ r \in Reservation /\ r.there /\ r.owner = t /\ r.woken = {}
          /\ \A u \in Threads : k \notin creating[u]
      BY <1>a, <2>1, WokenOwns
    <3>2. /\ reserved' = [reserved EXCEPT ![k] = r]
          /\ creating' = [creating EXCEPT ![t] = @ \cup {k}]
          /\ aborted' = aborted
      BY <1>a, <2>3 DEF TakeOver, BagTypeOK, Reservation
    <3> HIDE DEF r
    <3> QED
      BY <1>a, <1>b, <3>1, <3>2, BeginKeepsReservations
  <2> QED
    BY <1>2, <2>2, <2>3 DEF reserve_woken, get_woken
<1>3. ASSUME NEW t \in Threads, NEW k \in Keys, camel_object_bag_abort(t, k)
      PROVE  /\ reserved' \in [Keys -> Reservation] /\ aborted' \in BOOLEAN
             /\ CreatorOwns' /\ SomeoneWillUnreserve'
  <2>1. CASE k \in creating[t]
    <3>1. creating' = [creating EXCEPT ![t] = @ \ {k}] /\ co_bag_unreserve(t, k, reserved[k])
      BY <1>3 DEF camel_object_bag_abort
    <3>2. /\ reserved' \in [Keys -> Reservation] /\ aborted' = FALSE
          /\ CreatorOwns' /\ SomeoneWillUnreserve'
      BY <1>a, <2>1, <3>1, EndKeepsReservations
    <3> QED
      BY <3>2
  <2>2. CASE k \notin creating[t]
    <3>1. UNCHANGED <<reserved, creating>> /\ aborted' = TRUE
      BY <1>a, <1>3, <2>2, StrayAbort
    <3> QED
      BY <1>a, <3>1, OthersKeepReservations
  <2> QED
    BY <2>1, <2>2
<1>4. ASSUME NEW t \in Threads, NEW k \in Keys, k \in creating[t], fresh[t] # NoObject,
             camel_object_bag_add(t, k, fresh[t])
      PROVE  /\ reserved' \in [Keys -> Reservation] /\ aborted' \in BOOLEAN
             /\ CreatorOwns' /\ SomeoneWillUnreserve'
  <2>1. creating' = [creating EXCEPT ![t] = @ \ {k}] /\ co_bag_unreserve(t, k, reserved[k])
    BY <1>4, AddFiles
  <2>2. /\ reserved' \in [Keys -> Reservation] /\ aborted' = FALSE
        /\ CreatorOwns' /\ SomeoneWillUnreserve'
    BY <1>a, <1>4, <2>1, EndKeepsReservations
  <2> QED
    BY <2>2
<1>5. ASSUME \/ \E t \in Threads, o \in Objects : camel_object_new(t, o)
             \/ \E t \in Threads : camel_object_bag_list(t)
             \/ \E o \in Objects :
                   \/ camel_object_ref(o) \/ camel_object_unref(o)
                   \/ camel_object_bag_remove(o)
                   \/ \E k \in Keys : camel_object_bag_rekey(o, k)
      PROVE  /\ reserved' \in [Keys -> Reservation] /\ aborted' \in BOOLEAN
             /\ CreatorOwns' /\ SomeoneWillUnreserve'
  <2>1. UNCHANGED <<reserved, creating>> /\ aborted' \in BOOLEAN
    BY <1>b, <1>5 DEF camel_object_new, camel_object_bag_list, camel_object_ref,
       camel_object_unref, camel_object_bag_remove, camel_object_bag_rekey
  <2> QED
    BY <1>a, <2>1, OthersKeepReservations
<1> QED
  BY <1>1, <1>2, <1>3, <1>4, <1>5 DEF BagNext

-----------------------------------------------------------------------------
(* The tables and the objects.                                             *)

\* The types of everything but the reservations, and what the tables keep.
TablesInv ==
    /\ objectTable \in [Keys -> Objects \cup {NoObject}]
    /\ keyTable \in [Objects -> Keys \cup {NoKey}]
    /\ refCount \in [Objects -> Nat]
    /\ call \in [Threads -> {"none", "reserve", "get"}]
    /\ creating \in [Threads -> SUBSET Keys]
    /\ fresh \in [Threads -> Objects \cup {NoObject}]
    /\ clashed \in SUBSET Keys
    /\ TablesAgree
    /\ FreshIsNew
    /\ FreeIsUnfiled
    /\ CreatedIsAbsent

\* A step that files nothing: counts only grow, and a key that gets a creator
\* has no object.
LEMMA QuietKeepsTables ==
    ASSUME TablesInv,
           UNCHANGED <<objectTable, keyTable, fresh, clashed>>,
           refCount' \in [Objects -> Nat],
           \A o \in Objects : refCount'[o] >= refCount[o],
           call' \in [Threads -> {"none", "reserve", "get"}],
           creating' \in [Threads -> SUBSET Keys],
           \A t \in Threads : \A k \in creating'[t] :
              k \in creating[t] \/ objectTable[k] = NoObject
    PROVE  TablesInv'
<1>1. TablesAgree'
  BY DEF TablesInv, TablesAgree
<1>2. FreshIsNew'
  BY DEF TablesInv, FreshIsNew
<1>3. FreeIsUnfiled'
  BY DEF TablesInv, FreeIsUnfiled
<1>4. CreatedIsAbsent'
  BY DEF TablesInv, CreatedIsAbsent
<1> QED
  BY <1>1, <1>2, <1>3, <1>4 DEF TablesInv

\* The steps of which that is true.
LEMMA QuietSteps ==
    ASSUME TablesInv, NEW t \in Threads, NEW k \in Keys,
           \/ camel_object_bag_reserve(t, k)
           \/ camel_object_bag_get(t, k)
           \/ reserve_woken(t, k)
           \/ get_woken(t, k)
           \/ camel_object_bag_abort(t, k)
           \/ camel_object_bag_list(t)
           \/ \E o \in Objects : camel_object_ref(o)
    PROVE  TablesInv'
<1>1. UNCHANGED <<objectTable, keyTable, fresh, clashed>>
  BY DEF camel_object_bag_reserve, camel_object_bag_get, reserve_woken, get_woken,
     camel_object_bag_abort, camel_object_bag_list, camel_object_ref, camel_object_bag_peek,
     Wait, ReserveNew, TakeOver, PassOn, bagVars
<1>2. \/ refCount' = refCount
      \/ \E o \in Objects : AddRef(o)
      \/ refCount' = [o \in Objects |-> IF o \in Filed THEN refCount[o] + 1 ELSE refCount[o]]
  BY DEF camel_object_bag_reserve, camel_object_bag_get, reserve_woken, get_woken,
     camel_object_bag_abort, camel_object_bag_list, camel_object_ref, camel_object_bag_peek,
     Wait, ReserveNew, TakeOver, PassOn, bagVars, TablesInv
<1>3. refCount' \in [Objects -> Nat] /\ \A o \in Objects : refCount'[o] >= refCount[o]
  BY <1>2 DEF AddRef, TablesInv
<1>4. call' = call \/ \E c \in {"none", "reserve", "get"} : call' = [call EXCEPT ![t] = c]
  BY DEF camel_object_bag_reserve, camel_object_bag_get, reserve_woken, get_woken,
     camel_object_bag_abort, camel_object_bag_list, camel_object_ref, camel_object_bag_peek,
     Wait, ReserveNew, TakeOver, PassOn, bagVars
<1>5. call' \in [Threads -> {"none", "reserve", "get"}]
  BY <1>4 DEF TablesInv
<1>6. \/ creating' = creating
      \/ creating' = [creating EXCEPT ![t] = @ \ {k}]
      \/ objectTable[k] = NoObject /\ creating' = [creating EXCEPT ![t] = @ \cup {k}]
  BY DEF camel_object_bag_reserve, camel_object_bag_get, reserve_woken, get_woken,
     camel_object_bag_abort, camel_object_bag_list, camel_object_ref, camel_object_bag_peek,
     Wait, ReserveNew, TakeOver, PassOn, bagVars
<1>7. /\ creating' \in [Threads -> SUBSET Keys]
      /\ \A u \in Threads : \A j \in creating'[u] : j \in creating[u] \/ objectTable[j] = NoObject
  BY <1>6 DEF TablesInv
<1> QED
  BY <1>1, <1>3, <1>5, <1>7, QuietKeepsTables

\* A new object is in no table and is known to its creator only.
LEMMA NewKeepsTables ==
    ASSUME TablesInv, NEW t \in Threads, NEW o \in Objects, camel_object_new(t, o)
    PROVE  TablesInv'
<1>1. /\ refCount[o] = 0 /\ refCount' = [refCount EXCEPT ![o] = @ + 1]
      /\ fresh[t] = NoObject /\ fresh' = [fresh EXCEPT ![t] = o]
      /\ UNCHANGED <<objectTable, keyTable, call, creating, clashed>>
  BY DEF camel_object_new, AddRef
<1>2. /\ refCount' \in [Objects -> Nat] /\ fresh' \in [Threads -> Objects \cup {NoObject}]
      /\ \A p \in Objects : refCount'[p] >= refCount[p]
      /\ refCount'[o] = 1
  BY <1>1 DEF TablesInv
<1>3. TablesAgree'
  BY <1>1, <1>2 DEF TablesInv, TablesAgree
<1>4. FreshIsNew'
  <2>1. \A u \in Threads : fresh[u] # o
    BY <1>1, BagAssumption DEF TablesInv, FreshIsNew
  <2>2. keyTable[o] = NoKey
    BY <1>1 DEF TablesInv, FreeIsUnfiled
  <2> QED
    BY <1>1, <1>2, <2>1, <2>2 DEF TablesInv, FreshIsNew
<1>5. FreeIsUnfiled'
  BY <1>1, <1>2 DEF TablesInv, FreeIsUnfiled
<1>6. CreatedIsAbsent'
  BY <1>1 DEF TablesInv, CreatedIsAbsent
<1> QED
  BY <1>1, <1>2, <1>3, <1>4, <1>5, <1>6 DEF TablesInv

\* Taking an object out of the bag; counts may fall to 0 for that object only.
LEMMA UnfileKeepsTables ==
    ASSUME TablesInv, NEW o \in Objects, Unfile(o),
           UNCHANGED <<call, creating, fresh, clashed>>,
           refCount' \in [Objects -> Nat],
           \A p \in Objects \ {o} : refCount'[p] = refCount[p],
           \A t \in Threads : fresh[t] = o => refCount'[o] > 0
    PROVE  TablesInv'
<1>1. /\ objectTable' \in [Keys -> Objects \cup {NoObject}]
      /\ keyTable' \in [Objects -> Keys \cup {NoKey}]
  BY DEF TablesInv, Unfile
<1>2. /\ keyTable'[o] = NoKey
      /\ \A p \in Objects \ {o} : keyTable'[p] = keyTable[p]
  BY DEF TablesInv, Unfile
<1>3. \A k \in Keys : objectTable'[k] = IF k = keyTable[o] THEN NoObject ELSE objectTable[k]
  BY BagAssumption DEF TablesInv, Unfile
<1>4. TablesAgree'
  <2>1. ASSUME NEW k \in Keys, objectTable'[k] # NoObject
        PROVE  keyTable'[objectTable'[k]] = k /\ refCount'[objectTable'[k]] > 0
    <3>1. k # keyTable[o] /\ objectTable'[k] = objectTable[k] /\ objectTable[k] \in Objects
      BY <1>3, <2>1 DEF TablesInv
    <3>2. keyTable[objectTable[k]] = k /\ refCount[objectTable[k]] > 0
      BY <2>1, <3>1 DEF TablesInv, TablesAgree
    <3>3. objectTable[k] # o
      BY <3>1, <3>2
    <3> QED
      BY <1>2, <3>1, <3>2, <3>3
  <2>2. ASSUME NEW p \in Objects, keyTable'[p] \notin clashed' \cup {NoKey}
        PROVE  objectTable'[keyTable'[p]] = p
    <3>1. p # o /\ keyTable'[p] = keyTable[p] /\ keyTable[p] \in Keys
      BY <1>2, <2>2 DEF TablesInv
    <3>2. objectTable[keyTable[p]] = p
      BY <2>2, <3>1 DEF TablesInv, TablesAgree
    <3>3. keyTable[p] # keyTable[o]
      BY <2>2, <3>1, <3>2 DEF TablesInv, TablesAgree
    <3> QED
      BY <1>3, <3>1, <3>2, <3>3
  <2> QED
    BY <2>1, <2>2 DEF TablesAgree
<1>5. FreshIsNew'
  BY <1>2 DEF TablesInv, FreshIsNew
<1>6. FreeIsUnfiled'
  BY <1>2 DEF TablesInv, FreeIsUnfiled
<1>7. CreatedIsAbsent'
  BY <1>3 DEF TablesInv, CreatedIsAbsent
<1> QED
  BY <1>1, <1>4, <1>5, <1>6, <1>7 DEF TablesInv

\* The last reference takes the object out; the others leave it alive.
LEMMA UnrefKeepsTables ==
    ASSUME TablesInv, NEW o \in Objects, camel_object_unref(o)
    PROVE  TablesInv'
<1>1. /\ refCount[o] \in Nat /\ refCount[o] > 0 /\ refCount' = [refCount EXCEPT ![o] = @ - 1]
      /\ UNCHANGED <<call, creating, fresh, clashed>>
      /\ \A t \in Threads : fresh[t] = o => refCount[o] > 1
  BY DEF camel_object_unref, TablesInv
<1>2. /\ refCount' \in [Objects -> Nat]
      /\ \A p \in Objects \ {o} : refCount'[p] = refCount[p]
      /\ refCount'[o] = refCount[o] - 1
  BY <1>1 DEF TablesInv
<1>3. CASE refCount[o] = 1
  <2>1. Unfile(o)
    BY <1>3 DEF camel_object_unref
  <2> QED
    BY <1>1, <1>2, <1>3, <2>1, UnfileKeepsTables
<1>4. CASE refCount[o] # 1
  <2>1. UNCHANGED <<objectTable, keyTable>> /\ refCount'[o] > 0
    BY <1>1, <1>2, <1>4 DEF camel_object_unref
  <2>2. TablesAgree'
    BY <1>1, <1>2, <2>1 DEF TablesInv, TablesAgree
  <2>3. FreshIsNew'
    BY <1>1, <1>2, <2>1 DEF TablesInv, FreshIsNew
  <2>4. FreeIsUnfiled'
    BY <1>1, <1>2, <2>1 DEF TablesInv, FreeIsUnfiled
  <2>5. CreatedIsAbsent'
    BY <1>1, <2>1 DEF TablesInv, CreatedIsAbsent
  <2> QED
    BY <1>1, <1>2, <2>1, <2>2, <2>3, <2>4, <2>5 DEF TablesInv
<1> QED
  BY <1>3, <1>4

\* camel_object_bag_remove leaves the counts alone.
LEMMA RemoveKeepsTables ==
    ASSUME TablesInv, NEW o \in Objects, camel_object_bag_remove(o)
    PROVE  TablesInv'
<1>1. /\ Unfile(o) /\ UNCHANGED <<refCount, call, creating, fresh, clashed>>
      /\ refCount' \in [Objects -> Nat]
  BY DEF camel_object_bag_remove, TablesInv
<1>2. \A t \in Threads : fresh[t] = o => refCount'[o] > 0
  BY <1>1, BagAssumption DEF TablesInv, FreshIsNew
<1> QED
  BY <1>1, <1>2, UnfileKeepsTables

\* camel_object_bag_rekey spoils no key but the one it records as clashed.
LEMMA RekeyKeepsTables ==
    ASSUME TablesInv, CreatorOwns, NEW o \in Objects, NEW k \in Keys,
           camel_object_bag_rekey(o, k)
    PROVE  TablesInv'
<1>a. UNCHANGED <<refCount, call, creating, fresh>>
  BY DEF camel_object_bag_rekey
<1>1. CASE keyTable[o] = NoKey
  <2>1. UNCHANGED <<objectTable, keyTable, clashed>>
    BY <1>1 DEF camel_object_bag_rekey
  <2> QED
    BY <1>a, <2>1 DEF TablesInv, TablesAgree, FreshIsNew, FreeIsUnfiled, CreatedIsAbsent
<1>2. CASE keyTable[o] # NoKey
  <2> DEFINE j == keyTable[o]
  <2>1. /\ j \in Keys
        /\ objectTable' = [objectTable EXCEPT ![j] = NoObject, ![k] = o]
        /\ keyTable' = [keyTable EXCEPT ![o] = k]
        /\ clashed' = IF objectTable[k] \in {NoObject, o} /\ ~reserved[k].there
                      THEN clashed ELSE clashed \cup {k}
    BY <1>2 DEF camel_object_bag_rekey, TablesInv
  <2>2. /\ objectTable' \in [Keys -> Objects \cup {NoObject}]
        /\ keyTable' \in [Objects -> Keys \cup {NoKey}]
        /\ clashed' \in SUBSET Keys
        /\ clashed \subseteq clashed'
    BY <2>1 DEF TablesInv
  <2>3. /\ keyTable'[o] = k
        /\ \A p \in Objects \ {o} : keyTable'[p] = keyTable[p]
        /\ objectTable'[k] = o
        /\ \A i \in Keys \ {k} : objectTable'[i] = IF i = j THEN NoObject ELSE objectTable[i]
    BY <2>1 DEF TablesInv
  <2>4. refCount[o] > 0
    BY <1>2 DEF TablesInv, FreeIsUnfiled
  <2>5. TablesAgree'
    <3>1. ASSUME NEW i \in Keys, objectTable'[i] # NoObject
          PROVE  keyTable'[objectTable'[i]] = i /\ refCount'[objectTable'[i]] > 0
      <4>1. CASE i = k
        BY <1>a, <2>3, <2>4, <4>1
      <4>2. CASE i # k
        <5>1. i # j /\ objectTable'[i] = objectTable[i] /\ objectTable[i] \in Objects
          BY <2>3, <3>1, <4>2 DEF TablesInv
        <5>2. keyTable[objectTable[i]] = i /\ refCount[objectTable[i]] > 0
          BY <3>1, <5>1 DEF TablesInv, TablesAgree
        <5> QED
          BY <1>a, <2>3, <5>1, <5>2
      <4> QED
        BY <4>1, <4>2
    <3>2. ASSUME NEW p \in Objects, keyTable'[p] \notin clashed' \cup {NoKey}
          PROVE  objectTable'[keyTable'[p]] = p
      <4>1. CASE p = o
        BY <2>3, <4>1
      <4>2. CASE p # o
        <5>1. keyTable'[p] = keyTable[p] /\ keyTable[p] \in Keys /\ keyTable[p] \notin clashed
          BY <2>2, <2>3, <3>2, <4>2 DEF TablesInv
        <5>2. objectTable[keyTable[p]] = p
          BY <3>2, <5>1 DEF TablesInv, TablesAgree
        <5>3. keyTable[p] # k
          BY <2>1, <3>2, <4>2, <5>1, <5>2, BagAssumption
        <5>4. keyTable[p] # j
          BY <1>2, <4>2, <5>1, <5>2 DEF TablesInv, TablesAgree
        <5> QED
          BY <2>3, <5>1, <5>2, <5>3, <5>4
      <4> QED
        BY <4>1, <4>2
    <3> QED
      BY <3>1, <3>2 DEF TablesAgree
  <2>6. FreshIsNew'
    BY <1>a, <1>2, <2>3 DEF TablesInv, FreshIsNew
  <2>7. FreeIsUnfiled'
    BY <1>a, <2>3, <2>4 DEF TablesInv, FreeIsUnfiled
  <2>8. CreatedIsAbsent'
    <3> SUFFICES ASSUME NEW t \in Threads, NEW i \in creating[t], i \notin clashed'
                 PROVE  objectTable'[i] = NoObject
      BY <1>a DEF CreatedIsAbsent
    <3>1. i \in Keys /\ reserved[i].there
      BY DEF TablesInv, CreatorOwns
    <3>2. i # k
      BY <2>1, <3>1
    <3> QED
      BY <2>2, <2>3, <3>1, <3>2 DEF TablesInv, CreatedIsAbsent
  <2> QED
    BY <1>a, <2>2, <2>5, <2>6, <2>7, <2>8 DEF TablesInv
<1> QED
  BY <1>1, <1>2

\* camel_object_bag_add files the object under a key that has none.
LEMMA AddKeepsTables ==
    ASSUME BagInv, TablesInv, NEW t \in Threads, NEW k \in Keys,
           k \in creating[t], fresh[t] # NoObject,
           camel_object_bag_add(t, k, fresh[t])
    PROVE  TablesInv'
<1> DEFINE o == fresh[t]
<1>1. /\ o \in Objects /\ keyTable[o] = NoKey
      /\ objectTable' = [objectTable EXCEPT ![k] = o]
      /\ keyTable' = [keyTable EXCEPT ![o] = k]
      /\ creating' = [creating EXCEPT ![t] = @ \ {k}]
  BY AddFiles
<1>2. fresh' = [fresh EXCEPT ![t] = NoObject] /\ UNCHANGED <<refCount, call, clashed>>
  BY DEF camel_object_bag_add
<1>3. /\ objectTable' \in [Keys -> Objects \cup {NoObject}]
      /\ keyTable' \in [Objects -> Keys \cup {NoKey}]
      /\ creating' \in [Threads -> SUBSET Keys]
      /\ fresh' \in [Threads -> Objects \cup {NoObject}]
  BY <1>1, <1>2 DEF TablesInv
<1>4. /\ keyTable'[o] = k
      /\ \A p \in Objects \ {o} : keyTable'[p] = keyTable[p]
      /\ objectTable'[k] = o
      /\ \A i \in Keys \ {k} : objectTable'[i] = objectTable[i]
      /\ \A u \in Threads : creating'[u] \subseteq creating[u]
      /\ \A u \in Threads : k \in clashed \/ k \notin creating'[u]
  <2>1. \A u \in Threads : k \notin creating'[u]
    BY <1>1 DEF BagInv, CreatorOwns, TablesInv
  <2> QED
    BY <1>1, <2>1 DEF TablesInv
<1>5. refCount[o] > 0 /\ \A u \in Threads : fresh'[u] = NoObject \/ (fresh'[u] = fresh[u] /\ fresh[u] # o)
  BY <1>2 DEF TablesInv, FreshIsNew
<1> HIDE DEF o
<1>6. TablesAgree'
  <2>1. ASSUME NEW i \in Keys, objectTable'[i] # NoObject
        PROVE  keyTable'[objectTable'[i]] = i /\ refCount'[objectTable'[i]] > 0
    <3>1. CASE i = k
      BY <1>2, <1>4, <1>5, <3>1
    <3>2. CASE i # k
      <4>1. objectTable'[i] = objectTable[i] /\ objectTable[i] \in Objects
        BY <1>4, <2>1, <3>2 DEF TablesInv
      <4>2. keyTable[objectTable[i]] = i /\ refCount[objectTable[i]] > 0
        BY <2>1, <4>1 DEF TablesInv, TablesAgree
      <4> QED
        BY <1>1, <1>2, <1>4, <4>1, <4>2, BagAssumption
    <3> QED
      BY <3>1, <3>2
  <2>2. ASSUME NEW p \in Objects, keyTable'[p] \notin clashed' \cup {NoKey}
        PROVE  objectTable'[keyTable'[p]] = p
    <3>1. CASE p = o
      BY <1>4, <3>1
    <3>2. CASE p # o
      <4>1. keyTable'[p] = keyTable[p] /\ keyTable[p] \in Keys /\ keyTable[p] \notin clashed
        BY <1>2, <1>4, <2>2, <3>2 DEF TablesInv
      <4>2. objectTable[keyTable[p]] = p
        BY <2>2, <4>1 DEF TablesInv, TablesAgree
      <4>3. keyTable[p] # k
        BY <4>1, <4>2, BagAssumption DEF TablesInv, CreatedIsAbsent
      <4> QED
        BY <1>4, <4>1, <4>2, <4>3
    <3> QED
      BY <3>1, <3>2
  <2> QED
    BY <2>1, <2>2 DEF TablesAgree
<1>7. FreshIsNew'
  BY <1>2, <1>4, <1>5, BagAssumption DEF TablesInv, FreshIsNew
<1>8. FreeIsUnfiled'
  BY <1>2, <1>4, <1>5 DEF TablesInv, FreeIsUnfiled
<1>9. CreatedIsAbsent'
  BY <1>2, <1>4 DEF TablesInv, CreatedIsAbsent
<1> QED
  BY <1>2, <1>3, <1>6, <1>7, <1>8, <1>9 DEF TablesInv

\* The tables are kept by every step of BagNext.
LEMMA NextKeepsTables ==
    ASSUME BagInv, BagNext
    PROVE  TablesInv'
<1>1. TablesInv
  BY DEF BagInv, BagTypeOK, TablesInv
<1>2. CreatorOwns
  BY DEF BagInv
<1>3. CASE \E t \in Threads, k \in Keys :
              \/ camel_object_bag_reserve(t, k)
              \/ camel_object_bag_get(t, k)
              \/ reserve_woken(t, k)
              \/ get_woken(t, k)
              \/ camel_object_bag_abort(t, k)
  BY <1>1, <1>3, QuietSteps
<1>4. CASE \E t \in Threads, k \in Keys :
              k \in creating[t] /\ fresh[t] # NoObject /\ camel_object_bag_add(t, k, fresh[t])
  BY <1>1, <1>4, AddKeepsTables
<1>5. CASE \E t \in Threads, o \in Objects : camel_object_new(t, o)
  BY <1>1, <1>5, NewKeepsTables
<1>6. CASE \/ \E t \in Threads : camel_object_bag_list(t)
           \/ \E o \in Objects : camel_object_ref(o)
  <2>1. UNCHANGED <<objectTable, keyTable, call, creating, fresh, clashed>>
    BY <1>6 DEF camel_object_bag_list, camel_object_ref
  <2>2. refCount' \in [Objects -> Nat] /\ \A o \in Objects : refCount'[o] >= refCount[o]
    BY <1>1, <1>6 DEF camel_object_bag_list, camel_object_ref, AddRef, TablesInv
  <2> QED
    BY <1>1, <2>1, <2>2, QuietKeepsTables DEF TablesInv
<1>7. CASE \E o \in Objects : camel_object_unref(o)
  BY <1>1, <1>7, UnrefKeepsTables
<1>8. CASE \E o \in Objects : camel_object_bag_remove(o)
  BY <1>1, <1>8, RemoveKeepsTables
<1>9. CASE \E o \in Objects, k \in Keys : camel_object_bag_rekey(o, k)
  BY <1>1, <1>2, <1>9, RekeyKeepsTables
<1> QED
  BY <1>3, <1>4, <1>5, <1>6, <1>7, <1>8, <1>9 DEF BagNext

-----------------------------------------------------------------------------
(* Safety.                                                                 *)

\* An empty bag satisfies the invariant.
LEMMA InitBagInv == BagInit => BagInv
<1> SUFFICES ASSUME BagInit PROVE BagInv
  OBVIOUS
<1>1. NoReservation \in Reservation /\ ~NoReservation.there /\ ~HasWaiters(NoReservation)
  BY DEF NoReservation, Reservation, HasWaiters
<1>2. BagTypeOK
  BY <1>1 DEF BagInit, BagTypeOK
<1>3. CreatorOwns /\ CreatedIsAbsent
  BY DEF BagInit, CreatorOwns, CreatedIsAbsent
<1>4. SomeoneWillUnreserve
  BY <1>1 DEF BagInit, SomeoneWillUnreserve
<1>5. TablesAgree /\ FreshIsNew /\ FreeIsUnfiled
  BY DEF BagInit, TablesAgree, FreshIsNew, FreeIsUnfiled
<1> QED
  BY <1>2, <1>3, <1>4, <1>5 DEF BagInv

\* Every step keeps it.
LEMMA NextBagInv == BagInv /\ [BagNext]_bagVars => BagInv'
<1>1. ASSUME BagInv, BagNext PROVE BagInv'
  BY <1>1, NextKeepsReservations, NextKeepsTables DEF BagInv, TablesInv, BagTypeOK
<1>2. ASSUME BagInv, UNCHANGED bagVars PROVE BagInv'
  BY <1>2 DEF bagVars, BagInv, BagTypeOK, CreatorOwns, SomeoneWillUnreserve, HasWaiters,
     TablesAgree, FreshIsNew, FreeIsUnfiled, CreatedIsAbsent
<1> QED
  BY <1>1, <1>2

\* The inductive invariant holds in every state of a bag.
THEOREM BagSafety == BagSpec => []BagInv
<1> QED
  BY InitBagInv, NextBagInv, PTL DEF BagSpec

\* Any number of threads that use a bag as documented keep its types.
THEOREM BagTypeCorrect == BagSpec => []BagTypeOK
<1>1. BagInv => BagTypeOK
  BY DEF BagInv
<1> QED
  BY <1>1, BagSafety, PTL

\* A thread for which camel_object_bag_reserve returned NULL owns the
\* reservation until it adds or aborts.
THEOREM CreatorAlwaysOwns == BagSpec => []CreatorOwns
<1>1. BagInv => CreatorOwns
  BY DEF BagInv
<1> QED
  BY <1>1, BagSafety, PTL

\* co_bag_unreserve loses no wakeup: every reservation has exactly one thread
\* that will end it.
THEOREM NoLostWakeup == BagSpec => []SomeoneWillUnreserve
<1>1. BagInv => SomeoneWillUnreserve
  BY DEF BagInv
<1> QED
  BY <1>1, BagSafety, PTL

\* What is in the bag is alive and filed in both tables under one key.
THEOREM TablesAlwaysAgree == BagSpec => []TablesAgree
<1>1. BagInv => TablesAgree
  BY DEF BagInv
<1> QED
  BY <1>1, BagSafety, PTL

-----------------------------------------------------------------------------
(* Refinement: the bag is an ObjectCache.                                  *)

Creators == [k \in Keys |-> CreatorOf(k)]

\* The creator of a key is the thread that creates its object, if there is one.
LEMMA CreatorOfKey ==
    ASSUME BagTypeOK, CreatorOwns, NEW k \in Keys
    PROVE  /\ \A t \in Threads : k \in creating[t] => Creators[k] = t
           /\ (\A t \in Threads : k \notin creating[t]) => Creators[k] = NoThread
BY DEF CreatorOwns, CreatorOf, Creators

\* The same after a step.
LEMMA CreatorOfKeyNext ==
    ASSUME CreatorOwns', NEW k \in Keys
    PROVE  /\ \A t \in Threads : k \in creating'[t] => Creators'[k] = t
           /\ (\A t \in Threads : k \notin creating'[t]) => Creators'[k] = NoThread
BY DEF CreatorOwns, CreatorOf, Creators

\* Keys whose creators stay the same.
LEMMA SameCreators ==
    ASSUME BagTypeOK, CreatorOwns, CreatorOwns', NEW k \in Keys,
           \A t \in Threads : k \in creating'[t] <=> k \in creating[t]
    PROVE  Creators'[k] = Creators[k]
BY CreatorOfKey, CreatorOfKeyNext

\* A step that changes neither the table nor the creators.
LEMMA CacheStutters ==
    ASSUME UNCHANGED <<objectTable, creating>>
    PROVE  UNCHANGED Cache!cacheVars
BY DEF Cache!cacheVars, CreatorOf

\* reserve returns NULL: the thread begins to create the object.
LEMMA BeginsInCache ==
    ASSUME BagTypeOK, CreatorOwns, CreatorOwns',
           NEW t \in Threads, NEW k \in Keys,
           objectTable[k] = NoObject, UNCHANGED objectTable,
           \A u \in Threads : k \notin creating[u],
           creating' = [creating EXCEPT ![t] = @ \cup {k}]
    PROVE  Cache!Begin(t, k)
<1>1. Creators[k] = NoThread
  BY CreatorOfKey
<1>2. k \in creating'[t] /\ \A u \in Threads, j \in Keys \ {k} : j \in creating'[u] <=> j \in creating[u]
  BY DEF BagTypeOK
<1>3. Creators'[k] = t
  BY <1>2, CreatorOfKeyNext
<1>4. \A j \in Keys \ {k} : Creators'[j] = Creators[j]
  BY <1>2, SameCreators
<1>5. Creators' = [Creators EXCEPT ![k] = t]
  BY <1>3, <1>4 DEF Creators
<1> QED
  BY <1>1, <1>5 DEF Cache!Begin, Creators

\* An add or an abort ends the creation.
LEMMA EndsInCache ==
    ASSUME BagTypeOK, CreatorOwns, CreatorOwns',
           NEW t \in Threads, NEW k \in Keys, k \in creating[t],
           creating' = [creating EXCEPT ![t] = @ \ {k}]
    PROVE  Creators[k] # NoThread /\ Creators' = [Creators EXCEPT ![k] = NoThread]
<1>1. Creators[k] # NoThread
  BY CreatorOfKey, BagAssumption
<1>2. /\ \A u \in Threads : k \notin creating'[u]
      /\ \A u \in Threads, j \in Keys \ {k} : j \in creating'[u] <=> j \in creating[u]
  BY DEF BagTypeOK, CreatorOwns
<1>3. Creators'[k] = NoThread
  BY <1>2, CreatorOfKeyNext
<1>4. \A j \in Keys \ {k} : Creators'[j] = Creators[j]
  BY <1>2, SameCreators
<1> QED
  BY <1>1, <1>3, <1>4 DEF Creators

\* An empty bag is an empty cache.
LEMMA InitIsEmptyCache == BagInit => Cache!Init
BY DEF BagInit, Cache!Init, CreatorOf

\* Every step of a bag is a step of the cache, or changes nothing there.
LEMMA NextInCache ==
    ASSUME BagInv, BagNext
    PROVE  [Cache!Next]_Cache!cacheVars
<1>a. BagTypeOK /\ CreatorOwns /\ SomeoneWillUnreserve
  BY DEF BagInv
<1>b. CreatorOwns'
  BY NextKeepsReservations
<1>1. ASSUME NEW t \in Threads, NEW k \in Keys, k \notin creating[t],
             camel_object_bag_reserve(t, k) \/ camel_object_bag_get(t, k)
      PROVE  [Cache!Next]_Cache!cacheVars
  <2>1. CASE ReserveNew(t, k)
    <3>1. Cache!Begin(t, k)
      BY <1>a, <1>b, <2>1, BeginsInCache DEF ReserveNew, CreatorOwns
    <3> QED
      BY <3>1 DEF Cache!Next
  <2>2. CASE ~ReserveNew(t, k)
    <3>1. UNCHANGED <<objectTable, creating>>
      BY <1>1, <2>2 DEF camel_object_bag_reserve, camel_object_bag_get, camel_object_bag_peek, Wait, bagVars
    <3> QED
      BY <3>1, CacheStutters
  <2> QED
    BY <2>1, <2>2
<1>2. ASSUME NEW t \in Threads, NEW k \in Keys, reserve_woken(t, k) \/ get_woken(t, k)
      PROVE  [Cache!Next]_Cache!cacheVars
  <2>1. CASE TakeOver(t, k)
    <3>1. \A u \in Threads : k \notin creating[u]
      BY <1>a, <1>2, WokenOwns DEF reserve_woken, get_woken, Woken
    <3>2. Cache!Begin(t, k)
      BY <1>a, <1>b, <2>1, <3>1, BeginsInCache DEF TakeOver
    <3> QED
      BY <3>2 DEF Cache!Next
  <2>2. CASE PassOn(t, k)
    BY <2>2, CacheStutters DEF PassOn
  <2> QED
    BY <1>2, <2>1, <2>2 DEF reserve_woken, get_woken
<1>3. ASSUME NEW t \in Threads, NEW k \in Keys, camel_object_bag_abort(t, k)
      PROVE  [Cache!Next]_Cache!cacheVars
  <2>1. CASE k \in creating[t]
    <3>1. creating' = [creating EXCEPT ![t] = @ \ {k}] /\ objectTable' = objectTable
      BY <1>3 DEF camel_object_bag_abort
    <3>2. Cache!GiveUp(k)
      BY <1>a, <1>b, <2>1, <3>1, EndsInCache DEF Cache!GiveUp, Creators
    <3> QED
      BY <3>2 DEF Cache!Next
  <2>2. CASE k \notin creating[t]
    BY <1>a, <1>3, <2>2, StrayAbort, CacheStutters
  <2> QED
    BY <2>1, <2>2
<1>4. ASSUME NEW t \in Threads, NEW k \in Keys, k \in creating[t], fresh[t] # NoObject,
             camel_object_bag_add(t, k, fresh[t])
      PROVE  [Cache!Next]_Cache!cacheVars
  <2>1. /\ fresh[t] \in Objects
        /\ objectTable' = [objectTable EXCEPT ![k] = fresh[t]]
        /\ creating' = [creating EXCEPT ![t] = @ \ {k}]
    BY <1>4, AddFiles
  <2>2. Cache!Commit(k, fresh[t])
    BY <1>a, <1>b, <1>4, <2>1, EndsInCache DEF Cache!Commit, Creators
  <2> QED
    BY <2>1, <2>2 DEF Cache!Next
<1>5. ASSUME NEW o \in Objects, Unfile(o), UNCHANGED creating
      PROVE  [Cache!Next]_Cache!cacheVars
  <2>1. CASE keyTable[o] = NoKey
    BY <1>5, <2>1, CacheStutters DEF Unfile
  <2>2. CASE keyTable[o] # NoKey
    <3>1. keyTable[o] \in Keys
      BY <1>a, <2>2 DEF BagTypeOK
    <3>2. Cache!Drop(keyTable[o])
      BY <1>5, <2>2 DEF Cache!Drop, Unfile, CreatorOf
    <3> QED
      BY <3>1, <3>2 DEF Cache!Next
  <2> QED
    BY <2>1, <2>2
<1>6. ASSUME NEW o \in Objects, camel_object_unref(o) \/ camel_object_bag_remove(o)
      PROVE  [Cache!Next]_Cache!cacheVars
  <2>1. creating' = creating /\ (Unfile(o) \/ UNCHANGED objectTable)
    BY <1>6 DEF camel_object_unref, camel_object_bag_remove
  <2> QED
    BY <1>5, <2>1, CacheStutters
<1>7. ASSUME NEW o \in Objects, NEW k \in Keys, camel_object_bag_rekey(o, k)
      PROVE  [Cache!Next]_Cache!cacheVars
  <2>1. creating' = creating
    BY <1>7 DEF camel_object_bag_rekey
  <2>2. CASE keyTable[o] = NoKey
    BY <1>7, <2>1, <2>2, CacheStutters DEF camel_object_bag_rekey
  <2>3. CASE keyTable[o] # NoKey
    <3>1. keyTable[o] \in Keys
      BY <1>a, <2>3 DEF BagTypeOK
    <3>2. Cache!Move(keyTable[o], o, k)
      BY <1>7, <2>1, <2>3 DEF Cache!Move, camel_object_bag_rekey, CreatorOf
    <3> QED
      BY <3>1, <3>2 DEF Cache!Next
  <2> QED
    BY <2>2, <2>3
<1>8. ASSUME \/ \E t \in Threads, o \in Objects : camel_object_new(t, o)
             \/ \E t \in Threads : camel_object_bag_list(t)
             \/ \E o \in Objects : camel_object_ref(o)
      PROVE  [Cache!Next]_Cache!cacheVars
  BY <1>8, CacheStutters DEF camel_object_new, camel_object_bag_list, camel_object_ref
<1> QED
  BY <1>1, <1>2, <1>3, <1>4, <1>6, <1>7, <1>8 DEF BagNext

\* However the threads wait, wake, add and abort, the bag is a cache in which
\* one thread at a time creates the object of a key, and only while there is
\* none.
THEOREM BagImplementsCache == BagSpec => ImplementsCache
<1>1. BagInv /\ [BagNext]_bagVars => [Cache!Next]_Cache!cacheVars
  <2>1. ASSUME UNCHANGED bagVars PROVE [Cache!Next]_Cache!cacheVars
    BY <2>1, CacheStutters DEF bagVars
  <2> QED
    BY <2>1, NextInCache
<1> QED
  BY <1>1, InitIsEmptyCache, BagSafety, PTL DEF BagSpec, ImplementsCache, Cache!Spec
=============================================================================
