--------------------------- MODULE CamelObjectBag ---------------------------
(***************************************************************************)
(* The object bag of camel/camel-object.c: a table of shared objects in    *)
(* which a thread reserves a key, creates the object and adds it, while    *)
(* other threads that want the key wait.  Every function holds ref_lock    *)
(* over all its accesses, so that each is one step, or two where it waits  *)
(* for a condition.  g_cond_wait is not in a loop: the model has no        *)
(* spurious wakeups.                                                       *)
(***************************************************************************)
EXTENDS Naturals, FiniteSets

CONSTANTS Threads, Keys, Objects,
          NoThread, NoKey, NoObject

ASSUME BagAssumption == /\ NoThread \notin Threads
                        /\ NoKey \notin Keys
                        /\ NoObject \notin Objects

VARIABLES objectTable,  \* bag->object_table: the object filed under a key
          keyTable,     \* bag->key_table: the key an object is filed under
          reserved,     \* bag->reserved: the reservation of each key
          refCount,     \* ref_count of each object, 0 for memory not in use
          call,         \* the function in which a thread waits, or "none"
          creating,     \* keys for which reserve has returned NULL to a thread
          fresh,        \* the object a thread has created and not yet added
          aborted,      \* an assertion has failed and the process is gone
          clashed       \* history: keys to which an object was moved while
                        \* they were taken or reserved

bagVars == <<objectTable, keyTable, reserved, refCount, call, creating,
             fresh, aborted, clashed>>

-----------------------------------------------------------------------------
(* A reservation: whether there is one, its owner (NoThread stands for     *)
(* have_owner being FALSE), the threads asleep on its condition and those  *)
(* woken that do not hold ref_lock yet.  waiters counts the last two.      *)

Reservation == [there : BOOLEAN, owner : Threads \cup {NoThread},
                waiting : SUBSET Threads, woken : SUBSET Threads]

NoReservation == [there |-> FALSE, owner |-> NoThread,
                  waiting |-> {}, woken |-> {}]

ReservedBy(t) == [there |-> TRUE, owner |-> t, waiting |-> {}, woken |-> {}]

HasWaiters(r) == r.waiting \cup r.woken # {}

Running(t) == ~aborted /\ call[t] = "none"

Woken(t, k, what) == ~aborted /\ call[t] = what /\ t \in reserved[k].woken

BagInit ==
    /\ objectTable = [k \in Keys |-> NoObject]
    /\ keyTable = [o \in Objects |-> NoKey]
    /\ reserved = [k \in Keys |-> NoReservation]
    /\ refCount = [o \in Objects |-> 0]
    /\ call = [t \in Threads |-> "none"]
    /\ creating = [t \in Threads |-> {}]
    /\ fresh = [t \in Threads |-> NoObject]
    /\ aborted = FALSE
    /\ clashed = {}

-----------------------------------------------------------------------------
(* References and the tables.                                              *)

AddRef(o) == refCount' = [refCount EXCEPT ![o] = @ + 1]

\* camel_object_bag_remove_unlocked: the key table says where the object is.
Unfile(o) ==
    /\ objectTable' = IF keyTable[o] = NoKey THEN objectTable
                      ELSE [objectTable EXCEPT ![keyTable[o]] = NoObject]
    /\ keyTable' = [keyTable EXCEPT ![o] = NoKey]

camel_object_new(t, o) ==
    /\ Running(t)
    /\ refCount[o] = 0
    /\ fresh[t] = NoObject
    /\ AddRef(o)
    /\ fresh' = [fresh EXCEPT ![t] = o]
    /\ UNCHANGED <<objectTable, keyTable, reserved, call, creating, aborted, clashed>>

camel_object_ref(o) ==
    /\ ~aborted
    /\ refCount[o] > 0
    /\ AddRef(o)
    /\ UNCHANGED <<objectTable, keyTable, reserved, call, creating, fresh, aborted, clashed>>

\* mutant: an object whose count reaches 0 stays in its bag
UnrefKeepsFiled(o) ==
    /\ ~aborted
    /\ refCount[o] > IF \E t \in Threads : fresh[t] = o THEN 1 ELSE 0
    /\ refCount' = [refCount EXCEPT ![o] = @ - 1]
    /\ UNCHANGED <<objectTable, keyTable, reserved, call, creating, fresh, aborted, clashed>>

\* A caller drops a reference of its own: the first reference to an object
\* that is not yet in the bag stays with the thread that creates it.
camel_object_unref(o) ==
    /\ ~aborted
    /\ refCount[o] > IF \E t \in Threads : fresh[t] = o THEN 1 ELSE 0
    /\ refCount' = [refCount EXCEPT ![o] = @ - 1]
    /\ IF refCount[o] = 1 THEN Unfile(o) ELSE UNCHANGED <<objectTable, keyTable>>
    /\ UNCHANGED <<reserved, call, creating, fresh, aborted, clashed>>

-----------------------------------------------------------------------------
(* Reservations.                                                           *)

\* mutant: g_cond_broadcast
SignalAll(r) == {[r EXCEPT !.waiting = {}, !.woken = @ \cup r.waiting]}

\* mutant: nobody is signalled
SignalNobody(r) == {r}

\* g_cond_signal wakes one of the threads that are asleep.
Signal(r) ==
    IF r.waiting = {} THEN {r}
    ELSE {[r EXCEPT !.waiting = @ \ {w}, !.woken = @ \cup {w}] : w \in r.waiting}

\* r is the reservation of k as the calling function has left it.
co_bag_unreserve(t, k, r) ==
    IF ~(r.there /\ r.owner = t)
    THEN aborted' = TRUE /\ reserved' = reserved
    ELSE /\ aborted' = FALSE
         /\ \E s \in IF HasWaiters(r) THEN Signal([r EXCEPT !.owner = NoThread])
                     ELSE {NoReservation} :
               reserved' = [reserved EXCEPT ![k] = s]

\* The caller waits for the reservation; it must not be its own.
Wait(t, k, what) ==
    /\ objectTable[k] = NoObject /\ reserved[k].there
    /\ aborted' = (reserved[k].owner = t)
    /\ reserved' = [reserved EXCEPT ![k].waiting = @ \cup {t}]
    /\ call' = [call EXCEPT ![t] = what]
    /\ UNCHANGED <<objectTable, keyTable, refCount, creating, fresh, clashed>>

\* The object is in the bag: the caller gets a reference.
camel_object_bag_peek(t, k) ==
    /\ objectTable[k] # NoObject
    /\ AddRef(objectTable[k])
    /\ UNCHANGED <<objectTable, keyTable, reserved, call, creating, fresh, aborted, clashed>>

\* mutant: the caller that has waited takes no reference
PassOnNoRef(t, k) ==
    /\ call' = [call EXCEPT ![t] = "none"]
    /\ co_bag_unreserve(t, k, [reserved[k] EXCEPT !.woken = @ \ {t}, !.owner = t])
    /\ UNCHANGED <<objectTable, keyTable, refCount, creating, fresh, clashed>>

\* What a woken caller does when the object is there, or when it was only
\* looking: it takes the reservation over and gives it up at once.
PassOn(t, k) ==
    /\ call' = [call EXCEPT ![t] = "none"]
    /\ co_bag_unreserve(t, k, [reserved[k] EXCEPT !.woken = @ \ {t}, !.owner = t])
    /\ IF objectTable[k] # NoObject THEN AddRef(objectTable[k]) ELSE UNCHANGED refCount
    /\ UNCHANGED <<objectTable, keyTable, creating, fresh, clashed>>

\* mutant: the reservation of another thread is not looked for
ReserveTaken(t, k) ==
    /\ objectTable[k] = NoObject
    /\ reserved' = [reserved EXCEPT ![k] = ReservedBy(t)]
    /\ creating' = [creating EXCEPT ![t] = @ \cup {k}]
    /\ UNCHANGED <<objectTable, keyTable, refCount, call, fresh, aborted, clashed>>

ReserveNew(t, k) ==
    /\ objectTable[k] = NoObject /\ ~reserved[k].there
    /\ reserved' = [reserved EXCEPT ![k] = ReservedBy(t)]
    /\ creating' = [creating EXCEPT ![t] = @ \cup {k}]
    /\ UNCHANGED <<objectTable, keyTable, refCount, call, fresh, aborted, clashed>>

camel_object_bag_reserve(t, k) ==
    /\ Running(t)
    /\ \/ camel_object_bag_peek(t, k)
       \/ Wait(t, k, "reserve")
       \/ ReserveNew(t, k)

\* mutant: the table is not looked at again after the wait
TakeOverUnchecked(t, k) ==
    /\ call' = [call EXCEPT ![t] = "none"]
    /\ reserved' = [reserved EXCEPT ![k].woken = @ \ {t}, ![k].owner = t]
    /\ creating' = [creating EXCEPT ![t] = @ \cup {k}]
    /\ UNCHANGED <<objectTable, keyTable, refCount, fresh, aborted, clashed>>

\* "finished wait, now owner"
TakeOver(t, k) ==
    /\ objectTable[k] = NoObject
    /\ call' = [call EXCEPT ![t] = "none"]
    /\ reserved' = [reserved EXCEPT ![k].woken = @ \ {t}, ![k].owner = t]
    /\ creating' = [creating EXCEPT ![t] = @ \cup {k}]
    /\ UNCHANGED <<objectTable, keyTable, refCount, fresh, aborted, clashed>>

\* camel_object_bag_reserve after g_cond_wait
reserve_woken(t, k) ==
    /\ Woken(t, k, "reserve")
    /\ \/ TakeOver(t, k)
       \/ objectTable[k] # NoObject /\ PassOn(t, k)

\* Not in the bag and not reserved: get returns NULL.
Absent(k) == objectTable[k] = NoObject /\ ~reserved[k].there

camel_object_bag_get(t, k) ==
    /\ Running(t)
    /\ \/ camel_object_bag_peek(t, k)
       \/ Wait(t, k, "get")
       \/ Absent(k) /\ UNCHANGED bagVars

\* camel_object_bag_get after g_cond_wait
get_woken(t, k) == Woken(t, k, "get") /\ PassOn(t, k)

\* An object that is in the bag is left where it is, and the key reserved.
camel_object_bag_add(t, k, o) ==
    /\ Running(t)
    /\ creating' = [creating EXCEPT ![t] = @ \ {k}]
    /\ fresh' = [fresh EXCEPT ![t] = NoObject]
    /\ IF keyTable[o] # NoKey
       THEN UNCHANGED <<objectTable, keyTable, reserved, aborted>>
       ELSE /\ objectTable' = [objectTable EXCEPT ![k] = o]
            /\ keyTable' = [keyTable EXCEPT ![o] = k]
            /\ co_bag_unreserve(t, k, reserved[k])
    /\ UNCHANGED <<refCount, call, clashed>>

camel_object_bag_abort(t, k) ==
    /\ Running(t)
    /\ creating' = [creating EXCEPT ![t] = @ \ {k}]
    /\ co_bag_unreserve(t, k, reserved[k])
    /\ UNCHANGED <<objectTable, keyTable, refCount, call, fresh, clashed>>

\* An object moved to a key that is taken replaces what is filed there.
camel_object_bag_rekey(o, k) ==
    /\ ~aborted
    /\ IF keyTable[o] = NoKey
       THEN aborted' = TRUE /\ UNCHANGED <<objectTable, keyTable, clashed>>
       ELSE /\ objectTable' = [objectTable EXCEPT ![keyTable[o]] = NoObject, ![k] = o]
            /\ keyTable' = [keyTable EXCEPT ![o] = k]
            /\ clashed' = IF objectTable[k] \in {NoObject, o} /\ ~reserved[k].there
                          THEN clashed ELSE clashed \cup {k}
            /\ aborted' = FALSE
    /\ UNCHANGED <<reserved, refCount, call, creating, fresh>>

\* mutant: reserved keys are listed
FiledOrReserved == {objectTable[k] : k \in Keys}

\* A reference to every object in the bag, reserved keys ignored.
Filed == {objectTable[k] : k \in Keys} \ {NoObject}

camel_object_bag_list(t) ==
    /\ Running(t)
    /\ refCount' = [o \in Objects |-> IF o \in Filed THEN refCount[o] + 1 ELSE refCount[o]]
    /\ UNCHANGED <<objectTable, keyTable, reserved, call, creating, fresh, aborted, clashed>>

camel_object_bag_remove(o) ==
    /\ ~aborted
    /\ Unfile(o)
    /\ UNCHANGED <<reserved, refCount, call, creating, fresh, aborted, clashed>>

-----------------------------------------------------------------------------
(* Threads that use the bag as its documentation asks: a thread for which  *)
(* reserve returned NULL adds an object or aborts, and does not wait for a *)
(* key it has reserved.  An abort without a reservation fails an assertion *)
(* of co_bag_unreserve.                                                    *)

BagNext ==
    \/ \E t \in Threads, k \in Keys :
          \/ k \notin creating[t] /\ (camel_object_bag_reserve(t, k) \/ camel_object_bag_get(t, k))
          \/ reserve_woken(t, k)
          \/ get_woken(t, k)
          \/ camel_object_bag_abort(t, k)
          \/ k \in creating[t] /\ fresh[t] # NoObject /\ camel_object_bag_add(t, k, fresh[t])
    \/ \E t \in Threads, o \in Objects : camel_object_new(t, o)
    \/ \E t \in Threads : camel_object_bag_list(t)
    \/ \E o \in Objects :
          \/ camel_object_ref(o)
          \/ camel_object_unref(o)
          \/ camel_object_bag_remove(o)
          \/ \E k \in Keys : camel_object_bag_rekey(o, k)

BagSpec == BagInit /\ [][BagNext]_bagVars

-----------------------------------------------------------------------------
(* Properties.                                                             *)

BagTypeOK ==
    /\ objectTable \in [Keys -> Objects \cup {NoObject}]
    /\ keyTable \in [Objects -> Keys \cup {NoKey}]
    /\ reserved \in [Keys -> Reservation]
    /\ refCount \in [Objects -> Nat]
    /\ call \in [Threads -> {"none", "reserve", "get"}]
    /\ creating \in [Threads -> SUBSET Keys]
    /\ fresh \in [Threads -> Objects \cup {NoObject}]
    /\ aborted \in BOOLEAN
    /\ clashed \in SUBSET Keys

\* A thread to which camel_object_bag_reserve returned NULL owns the
\* reservation until it adds or aborts, whatever other threads wait, wake and
\* give up: at most one thread creates the object of a key, and the assertions
\* of co_bag_unreserve hold for every thread that keeps to the protocol.
CreatorOwns ==
    \A t \in Threads : \A k \in creating[t] :
       reserved[k].there /\ reserved[k].owner = t

\* No wakeup is lost: a reservation has exactly one thread that will end it,
\* its owner or one thread that co_bag_unreserve has woken, and threads wait
\* only for reservations that are there.
SomeoneWillUnreserve ==
    \A k \in Keys :
       LET r == reserved[k] IN
       IF r.there
       THEN \/ r.owner # NoThread /\ k \in creating[r.owner] /\ r.woken = {}
            \/ r.owner = NoThread /\ \E t \in Threads : r.woken = {t}
       ELSE ~HasWaiters(r)

\* The two tables agree, and what is in the bag is alive: camel_object_unref
\* takes an object out of its bag in the step in which its count reaches 0, so
\* that no caller of get or reserve is given memory that is being freed.  There
\* is one object for each key: only camel_object_bag_rekey onto a key that is
\* taken or reserved leaves an object whose key leads to another one.
TablesAgree ==
    /\ \A k \in Keys : objectTable[k] # NoObject => /\ keyTable[objectTable[k]] = k
                                                    /\ refCount[objectTable[k]] > 0
    /\ \A o \in Objects :
          keyTable[o] \notin clashed \cup {NoKey} => objectTable[keyTable[o]] = o

-----------------------------------------------------------------------------
(* The bag as a cache in which one thread at a time creates an object.     *)

CreatorOf(k) == IF \E t \in Threads : k \in creating[t]
                THEN CHOOSE t \in Threads : k \in creating[t]
                ELSE NoThread

Cache == INSTANCE ObjectCache WITH
            cache <- objectTable, creator <- [k \in Keys |-> CreatorOf(k)]

\* The bag implements the cache: however the threads wait and wake in
\* camel_object_bag_reserve and camel_object_bag_get, a thread starts to create
\* the object of a key only when there is none and nobody else creates it.
ImplementsCache == Cache!Spec
=============================================================================
