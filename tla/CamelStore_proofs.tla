------------------------- MODULE CamelStore_proofs -------------------------
(***************************************************************************)
(* The store uses its bag as the documentation of the bag asks, so that    *)
(* what is proved of the bag holds of the folders of every store.  Then:   *)
(* reference counts are exact, open folders are on disk, and the trash has *)
(* the open folders.                                                       *)
(***************************************************************************)
EXTENDS CamelStore, CamelObjectBag_proofs, FiniteSetTheorems

-----------------------------------------------------------------------------
(* The inductive invariant.                                                *)

\* Between the provider's answer and camel_object_bag_add, for a folder ...
OpeningFolder == {"trash", "trashWait", "addSub", "unrefTrash"}

\* ... and for a folder or the trash.
Opening == OpeningFolder \cup {"add", "list", "fill"}

HasFolder == Opening \cup {"exclAbort", "keeps", "delState", "delTrash", "delTrashWait", "delSub",
                           "delUnrefTrash", "delMark", "delBag", "rekey"}

HasVFolder == {"addSub", "unrefTrash", "delSub", "delUnrefTrash", "renUnref"}

InRename == {"renLock", "renGet", "renWait", "renMove"}

\* How the keys c a thread creates and its new object x follow from where it is.
Fits(r, c, x) ==
    /\ c = IF r.pc \in {"open", "abort"} \cup Opening THEN {r.name} ELSE {}
    /\ x = IF r.pc \in Opening THEN r.folder ELSE NoObject
    /\ r.pc \in OpeningFolder => r.name # VTrash
    /\ r.pc \in HasFolder => r.folder # NoObject
    /\ r.pc \in HasVFolder => r.vfolder # NoObject
    /\ r.pc \in InRename => r.new # VTrash

ThreadsInv ==
    /\ thread \in [Threads -> Thread]
    /\ \A t \in Threads : Fits(thread[t], creating[t], fresh[t])

RestTyped ==
    /\ folderLock \in Threads \cup {NoThread}
    /\ disk \in SUBSET Names
    /\ subs \in [Objects -> SUBSET Objects]
    /\ calls \in 0..MaxCalls
    /\ missed \in SUBSET Objects
    /\ strayed \in SUBSET Objects

StoreInv == BagInv /\ ThreadsInv /\ RestTyped

-----------------------------------------------------------------------------
(* Steps.                                                                  *)

\* The calls of the bag that the store makes.
LEMMA BagSteps ==
    ASSUME NEW t \in Threads
    PROVE  /\ \A k \in Keys :
                 /\ k \notin creating[t] /\ camel_object_bag_reserve(t, k) => BagNext
                 /\ k \notin creating[t] /\ camel_object_bag_get(t, k) => BagNext
                 /\ reserve_woken(t, k) => BagNext
                 /\ get_woken(t, k) => BagNext
                 /\ camel_object_bag_abort(t, k) => BagNext
                 /\ k \in creating[t] /\ fresh[t] # NoObject
                    /\ camel_object_bag_add(t, k, fresh[t]) => BagNext
           /\ camel_object_bag_list(t) => BagNext
           /\ \A o \in Objects :
                 /\ camel_object_new(t, o) => BagNext
                 /\ camel_object_ref(o) => BagNext
                 /\ camel_object_unref(o) => BagNext
                 /\ camel_object_bag_remove(o) => BagNext
                 /\ \A k \in Keys : camel_object_bag_rekey(o, k) => BagNext
BY DEF BagNext

\* A step of one thread concerns its own local variables and reservations.
LEMMA ThreadStep ==
    ASSUME BagTypeOK, ThreadsInv, NEW t \in Threads, NEW r \in Thread, NEW c, NEW x,
           thread' = [thread EXCEPT ![t] = r],
           creating' = [creating EXCEPT ![t] = c],
           fresh' = [fresh EXCEPT ![t] = x],
           Fits(r, c, x)
    PROVE  ThreadsInv'
<1>1. /\ thread' \in [Threads -> Thread] /\ thread'[t] = r
      /\ creating'[t] = c /\ fresh'[t] = x
  BY DEF ThreadsInv, BagTypeOK
<1>2. \A u \in Threads \ {t} :
         thread'[u] = thread[u] /\ creating'[u] = creating[u] /\ fresh'[u] = fresh[u]
  BY DEF ThreadsInv, BagTypeOK
<1>3. \A u \in Threads : Fits(thread'[u], creating'[u], fresh'[u])
  BY <1>1, <1>2 DEF ThreadsInv
<1> QED
  BY <1>1, <1>3 DEF ThreadsInv

\* The same for a step that creates nothing and ends no creation.
LEMMA QuietThreadStep ==
    ASSUME BagTypeOK, ThreadsInv, NEW t \in Threads, NEW r \in Thread,
           thread' = [thread EXCEPT ![t] = r],
           UNCHANGED <<creating, fresh>>,
           Fits(r, creating[t], fresh[t])
    PROVE  ThreadsInv'
<1>1. creating' = [creating EXCEPT ![t] = creating[t]] /\ fresh' = [fresh EXCEPT ![t] = fresh[t]]
  BY DEF BagTypeOK
<1> QED
  BY <1>1, ThreadStep

\* Facts about a thread of the store.
LEMMA ThreadFacts ==
    ASSUME StoreInv, NEW t \in Threads
    PROVE  /\ BagTypeOK /\ ThreadsInv
           /\ thread[t] \in Thread
           /\ Fits(thread[t], creating[t], fresh[t])
           /\ objectTable \in [Keys -> Objects \cup {NoObject}]
           /\ fresh[t] \in Objects \cup {NoObject}
           /\ creating[t] \in SUBSET Keys
BY DEF StoreInv, BagInv, BagTypeOK, ThreadsInv

\* A thread in no call.
LEMMA IdleFits ==
    /\ Idle \in Thread /\ Idle.pc = "idle"
    /\ Fits(Idle, {}, NoObject)
    /\ \A q \in Thread : Failed(q) \in Thread /\ Fits(Failed(q), {}, NoObject)
    /\ \A q \in Thread, f \in Objects :
          Returned(q, f) \in Thread /\ Fits(Returned(q, f), {}, NoObject)
<1>1. Idle \in Thread /\ Idle.pc = "idle"
  BY StoreAssumption DEF Idle, Thread, Places
<1>2. Fits(Idle, {}, NoObject)
  BY <1>1 DEF Fits, Opening, OpeningFolder, HasFolder, HasVFolder, InRename
<1>3. ASSUME NEW q \in Thread PROVE Failed(q) \in Thread /\ Fits(Failed(q), {}, NoObject)
  <2>1. Failed(q) \in Thread /\ Failed(q).pc \in {"idle", "delGet"}
    BY <1>1 DEF Failed, Thread, Places
  <2> QED
    BY <2>1 DEF Fits, Opening, OpeningFolder, HasFolder, HasVFolder, InRename
<1>4. ASSUME NEW q \in Thread, NEW f \in Objects
      PROVE  Returned(q, f) \in Thread /\ Fits(Returned(q, f), {}, NoObject)
  <2>1. Returned(q, f) \in Thread /\ Returned(q, f).pc \in {"keeps", "delState"}
        /\ Returned(q, f).folder = f
    BY <1>1 DEF Returned, Thread, Places
  <2> QED
    BY <2>1, BagAssumption DEF Fits, Opening, OpeningFolder, HasFolder, HasVFolder, InRename
<1> QED
  BY <1>1, <1>2, <1>3, <1>4

\* What is shown of every step of the store.
Kept == [BagNext]_bagVars /\ ThreadsInv' /\ RestTyped'

\* The calls that create nothing and end no creation.
LEMMA QuietCalls ==
    ASSUME NEW t, NEW k, NEW o,
           \/ camel_object_bag_get(t, k) \/ get_woken(t, k)
           \/ camel_object_bag_list(t)
           \/ camel_object_ref(o) \/ camel_object_unref(o)
           \/ camel_object_bag_remove(o) \/ camel_object_bag_rekey(o, k)
           \/ UNCHANGED bagVars
    PROVE  UNCHANGED <<creating, fresh>>
BY DEF camel_object_bag_get, get_woken, camel_object_bag_list, camel_object_ref, camel_object_unref,
   camel_object_bag_remove, camel_object_bag_rekey, camel_object_bag_peek, Wait, PassOn, bagVars

\* Unref drops one reference and keeps the histories typed.
LEMMA UnrefKept ==
    ASSUME StoreInv, NEW o \in Objects, Unref(o)
    PROVE  /\ BagNext /\ UNCHANGED <<creating, fresh>>
           /\ missed' \in SUBSET Objects /\ strayed' \in SUBSET Objects
<1>1. camel_object_unref(o)
  BY DEF Unref
<1>2. BagNext
  BY <1>1 DEF BagNext
<1>3. UNCHANGED <<creating, fresh>>
  BY <1>1 DEF camel_object_unref
<1>4. missed' \in SUBSET Objects /\ strayed' \in SUBSET Objects
  BY DEF Unref, StoreInv, RestTyped
<1> QED
  BY <1>2, <1>3, <1>4

\* The bound on calls is kept.
LEMMA CallCounts ==
    ASSUME StoreInv, NEW t \in Threads, Call(t)
    PROVE  calls' \in 0..MaxCalls
BY StoreAssumption DEF StoreInv, RestTyped, Call

\* get_folder up to the provider, called by anyone or by delete_folder.
LEMMA KeptReserve ==
    ASSUME StoreInv, NEW t \in Threads,
           \/ \E k \in Keys, create, excl \in BOOLEAN : get_folder(t, k, create, excl)
           \/ delete_folder_state(t)
           \/ get_folder_reserved(t)
    PROVE  Kept
<1>a. /\ BagTypeOK /\ ThreadsInv /\ thread[t] \in Thread
      /\ Fits(thread[t], creating[t], fresh[t])
      /\ objectTable \in [Keys -> Objects \cup {NoObject}]
  BY ThreadFacts
<1>1. ASSUME NEW k \in Keys, NEW q \in Thread, NEW wait,
             q.name = k, creating[t] = {}, fresh[t] = NoObject,
             Reserved(t, q, wait), q.pc \in Places,
             \/ camel_object_bag_reserve(t, k) /\ wait = "reserving"
             \/ reserve_woken(t, k) /\ wait = "open" 
      PROVE  BagNext /\ ThreadsInv'
  <2>1. BagNext
    BY <1>1, BagSteps
  <2>2. CASE objectTable[k] # NoObject
    <3> DEFINE f == objectTable[k]
               e == [q EXCEPT !.folder = f, !.pc = "exclAbort"]
    <3>1. f \in Objects
      BY <1>a, <2>2
    <3>2. UNCHANGED <<creating, fresh>>
      BY <1>1, <2>2 DEF camel_object_bag_reserve, reserve_woken, camel_object_bag_peek, Wait,
         ReserveNew, TakeOver, PassOn
    <3>3. thread' = [thread EXCEPT ![t] = e] \/ thread' = [thread EXCEPT ![t] = Returned(q, f)]
      BY <1>1, <2>2 DEF Reserved, Become
    <3>4. e \in Thread /\ e.pc = "exclAbort" /\ e.folder = f
      BY <1>1, <3>1 DEF Thread, Places
    <3> HIDE DEF f, e
    <3>5. Fits(e, {}, NoObject)
      BY <3>1, <3>4, BagAssumption DEF Fits, Opening, OpeningFolder, HasFolder, HasVFolder, InRename
    <3>6. Returned(q, f) \in Thread /\ Fits(Returned(q, f), {}, NoObject)
      BY <3>1, IdleFits
    <3> QED
      BY <1>a, <1>1, <2>1, <3>2, <3>3, <3>4, <3>5, <3>6, QuietThreadStep
  <2>3. CASE objectTable[k] = NoObject /\ camel_object_bag_reserve(t, k) /\ reserved[k].there
    <3> DEFINE e == [q EXCEPT !.pc = wait]
    <3>1. UNCHANGED <<creating, fresh>>
      BY <2>3 DEF camel_object_bag_reserve, camel_object_bag_peek, Wait, ReserveNew
    <3>2. wait \in {"reserving", "open"} /\ thread' = [thread EXCEPT ![t] = e]
      BY <1>1, <2>3 DEF Reserved, Become, After
    <3>3. wait = "reserving"
      BY <1>1, <2>3 DEF reserve_woken, Woken, camel_object_bag_reserve, Running
    <3>4. e \in Thread /\ e.pc = "reserving"
      BY <1>1, <3>3 DEF Thread, Places
    <3> HIDE DEF e
    <3>5. Fits(e, {}, NoObject)
      BY <3>4 DEF Fits, Opening, OpeningFolder, HasFolder, HasVFolder, InRename
    <3> QED
      BY <1>a, <1>1, <2>1, <3>1, <3>2, <3>4, <3>5, QuietThreadStep
  <2>4. CASE /\ objectTable[k] = NoObject
             /\ ~(camel_object_bag_reserve(t, k) /\ reserved[k].there)
    <3> DEFINE e == [q EXCEPT !.pc = "open"]
    <3>1. creating' = [creating EXCEPT ![t] = @ \cup {k}] /\ fresh' = fresh
      BY <1>1, <2>4 DEF camel_object_bag_reserve, camel_object_bag_peek, Wait, ReserveNew,
         reserve_woken, TakeOver
    <3>2. thread' = [thread EXCEPT ![t] = e]
      BY <1>1, <2>4 DEF Reserved, Become, After
    <3>3. e \in Thread /\ e.pc = "open" /\ e.name = k
      BY <1>1 DEF Thread, Places
    <3>4. creating' = [creating EXCEPT ![t] = {k}] /\ fresh' = [fresh EXCEPT ![t] = NoObject]
      BY <1>a, <1>1, <3>1 DEF BagTypeOK
    <3> HIDE DEF e
    <3>5. Fits(e, {k}, NoObject)
      BY <3>3 DEF Fits, Opening, OpeningFolder, HasFolder, HasVFolder, InRename
    <3> QED
      BY <1>a, <2>1, <3>2, <3>3, <3>4, <3>5, ThreadStep
  <2> QED
    BY <2>2, <2>3, <2>4
<1>2. ASSUME NEW k \in Keys, NEW create \in BOOLEAN, NEW excl \in BOOLEAN,
             get_folder(t, k, create, excl)
      PROVE  Kept
  <2> DEFINE b == excl /\ create
             q == [Idle EXCEPT !.name = k, !.create = create, !.excl = b]
  <2>1. b \in BOOLEAN
    OBVIOUS
  <2>2. Reserved(t, q, "reserving") /\ camel_object_bag_reserve(t, k)
    BY <1>2 DEF get_folder
  <2> HIDE DEF b
  <2>3. q \in Thread /\ q.name = k /\ q.pc \in Places
    BY <1>2, <2>1, IdleFits DEF Thread
  <2>4. creating[t] = {} /\ fresh[t] = NoObject
    BY <1>a, <1>2 DEF get_folder, Call, At, Fits, Opening, OpeningFolder
  <2> HIDE DEF q
  <2>5. BagNext /\ ThreadsInv'
    BY <1>1, <2>2, <2>3, <2>4
  <2>6. RestTyped'
    <3>1. Call(t) /\ UNCHANGED <<folderLock, disk, subs, missed, strayed>>
      BY <1>2 DEF get_folder
    <3> QED
      BY <3>1, CallCounts DEF StoreInv, RestTyped
  <2> QED
    BY <2>5, <2>6 DEF Kept
<1>3. ASSUME get_folder_reserved(t)
      PROVE  Kept
  <2>1. creating[t] = {} /\ fresh[t] = NoObject
    BY <1>a, <1>3 DEF get_folder_reserved, At, Fits, Opening, OpeningFolder
  <2>2. thread[t].name \in Keys /\ thread[t].pc \in Places
    BY <1>a DEF Thread
  <2>3. Reserved(t, thread[t], "open") /\ reserve_woken(t, thread[t].name)
    BY <1>3 DEF get_folder_reserved
  <2>4. BagNext /\ ThreadsInv'
    BY <1>a, <1>1, <2>1, <2>2, <2>3
  <2>5. RestTyped'
    BY <1>3 DEF get_folder_reserved, StoreInv, RestTyped
  <2> QED
    BY <2>4, <2>5 DEF Kept
<1>4. ASSUME delete_folder_state(t)
      PROVE  Kept
  <2> DEFINE q == [thread[t] EXCEPT !.deleting = TRUE]
  <2>1. creating[t] = {} /\ fresh[t] = NoObject
    BY <1>a, <1>4 DEF delete_folder_state, At, Fits, Opening, OpeningFolder
  <2>2. q \in Thread /\ q.name = thread[t].name /\ q.name \in Keys /\ q.pc \in Places
    BY <1>a DEF Thread
  <2>3. Reserved(t, q, "reserving") /\ camel_object_bag_reserve(t, q.name)
    BY <1>4, <2>2 DEF delete_folder_state
  <2> HIDE DEF q
  <2>4. BagNext /\ ThreadsInv'
    BY <1>1, <2>1, <2>2, <2>3
  <2>5. RestTyped'
    BY <1>4 DEF delete_folder_state, StoreInv, RestTyped
  <2> QED
    BY <2>4, <2>5 DEF Kept
<1> QED
  BY <1>2, <1>3, <1>4

\* The provider's answer: get_folder, or get_special for the trash.
LEMMA KeptOpen ==
    ASSUME StoreInv, NEW t \in Threads,
           get_folder_open(t) \/ get_folder_fail(t) \/ get_special_new(t)
    PROVE  Kept
<1>a. /\ BagTypeOK /\ ThreadsInv /\ thread[t] \in Thread
      /\ Fits(thread[t], creating[t], fresh[t])
  BY ThreadFacts
<1>b. thread[t].pc = "open" /\ creating[t] = {thread[t].name} /\ fresh[t] = NoObject
  BY <1>a DEF get_folder_open, get_folder_fail, get_special_new, At, Fits, Opening, OpeningFolder
<1>1. ASSUME NEW then \in {"trash", "list"}, then = "trash" => thread[t].name # VTrash,
             NewFolder(t, then)
      PROVE  /\ BagNext /\ ThreadsInv'
             /\ UNCHANGED <<calls, folderLock, subs, missed, strayed>>
  <2>1. PICK o \in Objects : /\ camel_object_new(t, o)
                             /\ Become(t, [thread[t] EXCEPT !.folder = o, !.pc = then])
    <3>1. \A u \in Unused : u \in Objects
      BY DEF Unused
    <3>2. (CHOOSE u \in Unused : TRUE) \in Unused
      BY <1>1 DEF NewFolder
    <3> QED
      BY <1>1, <3>1, <3>2 DEF NewFolder
  <2> DEFINE r == [thread[t] EXCEPT !.folder = o, !.pc = then]
  <2>2. r \in Thread /\ r.pc = then /\ r.folder = o /\ r.name = thread[t].name
    BY <1>a, <1>1 DEF Thread, Places
  <2>3. thread' = [thread EXCEPT ![t] = r]
    BY <2>1 DEF Become
  <2>4. creating' = [creating EXCEPT ![t] = {thread[t].name}] /\ fresh' = [fresh EXCEPT ![t] = o]
    BY <1>a, <1>b, <2>1 DEF camel_object_new, BagTypeOK
  <2> HIDE DEF r
  <2>5. Fits(r, {thread[t].name}, o)
    BY <1>1, <2>2, BagAssumption DEF Fits, Opening, OpeningFolder, HasFolder, HasVFolder, InRename
  <2>6. ThreadsInv'
    BY <1>a, <2>2, <2>3, <2>4, <2>5, ThreadStep
  <2> QED
    BY <1>1, <2>1, <2>6, BagSteps DEF NewFolder
<1>2. CASE get_folder_open(t)
  <2>1. thread[t].name \in Names
    BY <1>a, <1>2 DEF get_folder_open, Thread, Names
  <2>2. BagNext /\ ThreadsInv' /\ UNCHANGED <<calls, folderLock, subs, missed, strayed>>
    BY <1>1, <1>2 DEF get_folder_open
  <2>3. disk' \in SUBSET Names
    BY <1>2, <2>1 DEF get_folder_open, StoreInv, RestTyped
  <2> QED
    BY <2>2, <2>3 DEF Kept, StoreInv, RestTyped
<1>3. CASE get_special_new(t)
  <2>1. BagNext /\ ThreadsInv' /\ UNCHANGED <<calls, folderLock, subs, missed, strayed>>
    BY <1>1, <1>3 DEF get_special_new
  <2> QED
    BY <1>3, <2>1 DEF get_special_new, Kept, StoreInv, RestTyped
<1>4. CASE get_folder_fail(t)
  <2> DEFINE r == [thread[t] EXCEPT !.pc = "abort"]
  <2>1. r \in Thread /\ r.pc = "abort" /\ r.name = thread[t].name
    BY <1>a DEF Thread, Places
  <2>2. thread' = [thread EXCEPT ![t] = r] /\ UNCHANGED bagVars
    BY <1>4 DEF get_folder_fail, Go, Become
  <2> HIDE DEF r
  <2>3. Fits(r, creating[t], fresh[t])
    BY <1>b, <2>1 DEF Fits, Opening, OpeningFolder, HasFolder, HasVFolder, InRename
  <2>4. ThreadsInv'
    BY <1>a, <2>1, <2>2, <2>3, QuietThreadStep DEF bagVars
  <2> QED
    BY <1>4, <2>2, <2>4 DEF get_folder_fail, Kept, StoreInv, RestTyped
<1> QED
  BY <1>2, <1>3, <1>4

\* The end of get_folder: add, abort, and the abort of a CAMEL_STORE_FOLDER_EXCL
\* call that has reserved nothing.
LEMMA KeptEnd ==
    ASSUME StoreInv, NEW t \in Threads,
           get_folder_add(t) \/ get_folder_abort(t) \/ get_folder_excl(t)
    PROVE  Kept
<1>a. /\ BagTypeOK /\ ThreadsInv /\ thread[t] \in Thread
      /\ Fits(thread[t], creating[t], fresh[t])
  BY ThreadFacts
<1>b. BagInv /\ CreatorOwns /\ SomeoneWillUnreserve /\ thread[t].name \in Keys
      /\ thread[t].folder \in Objects \cup {NoObject}
  BY <1>a DEF StoreInv, BagInv, Thread
<1>c. RestTyped'
  BY DEF get_folder_add, get_folder_abort, get_folder_excl, StoreInv, RestTyped
<1>1. CASE get_folder_add(t)
  <2>1. /\ creating[t] = {thread[t].name} /\ fresh[t] = thread[t].folder
        /\ thread[t].folder # NoObject
    BY <1>a, <1>1 DEF get_folder_add, At, Fits, Opening, OpeningFolder, HasFolder
  <2>2. camel_object_bag_add(t, thread[t].name, fresh[t])
    BY <1>1, <2>1 DEF get_folder_add
  <2>3. BagNext
    BY <1>b, <2>1, <2>2, BagSteps
  <2>4. creating' = [creating EXCEPT ![t] = {}] /\ fresh' = [fresh EXCEPT ![t] = NoObject]
    BY <1>a, <2>1, <2>2 DEF camel_object_bag_add, BagTypeOK
  <2>5. thread' = [thread EXCEPT ![t] = Returned(thread[t], thread[t].folder)]
    BY <1>1 DEF get_folder_add, Become
  <2>6. ThreadsInv'
    BY <1>a, <1>b, <2>1, <2>4, <2>5, IdleFits, ThreadStep
  <2> QED
    BY <1>c, <2>3, <2>6 DEF Kept
<1>2. CASE get_folder_abort(t)
  <2>1. creating[t] = {thread[t].name} /\ fresh[t] = NoObject
    BY <1>a, <1>2 DEF get_folder_abort, At, Fits, Opening, OpeningFolder
  <2>2. BagNext
    BY <1>b, <1>2, BagSteps DEF get_folder_abort
  <2>3. creating' = [creating EXCEPT ![t] = {}] /\ fresh' = [fresh EXCEPT ![t] = NoObject]
    BY <1>a, <1>2, <2>1 DEF get_folder_abort, camel_object_bag_abort, BagTypeOK
  <2>4. thread' = [thread EXCEPT ![t] = Failed(thread[t])]
    BY <1>2 DEF get_folder_abort, Become
  <2>5. ThreadsInv'
    BY <1>a, <2>3, <2>4, IdleFits, ThreadStep
  <2> QED
    BY <1>c, <2>2, <2>5 DEF Kept
<1>3. CASE get_folder_excl(t)
  <2>1. creating[t] = {} /\ fresh[t] = NoObject /\ thread[t].folder \in Objects
    BY <1>a, <1>b, <1>3 DEF get_folder_excl, At, Fits, Opening, OpeningFolder, HasFolder
  <2>2. BagNext
    BY <1>b, <1>3, BagSteps DEF get_folder_excl
  <2>3. UNCHANGED <<creating, fresh>>
    BY <1>a, <1>b, <1>3, <2>1, StrayAbort DEF get_folder_excl
  <2>4. thread' = [thread EXCEPT ![t] = Returned(thread[t], thread[t].folder)]
    BY <1>3 DEF get_folder_excl, Become
  <2>5. ThreadsInv'
    BY <1>a, <2>1, <2>3, <2>4, IdleFits, QuietThreadStep
  <2> QED
    BY <1>c, <2>2, <2>5 DEF Kept
<1> QED
  BY <1>1, <1>2, <1>3

\* A thread goes on with another virtual folder, or with the same.
LEMMA GoesOn ==
    ASSUME StoreInv, NEW t \in Threads, NEW p \in Places, NEW v \in Objects \cup {NoObject},
           UNCHANGED <<creating, fresh>>,
           \/ thread' = [thread EXCEPT ![t] = [thread[t] EXCEPT !.vfolder = v, !.pc = p]]
           \/ thread' = [thread EXCEPT ![t] = [thread[t] EXCEPT !.pc = p]] /\ v = thread[t].vfolder,
           p \in {"open", "abort"} \cup Opening <=> thread[t].pc \in {"open", "abort"} \cup Opening,
           p \in Opening <=> thread[t].pc \in Opening,
           p \in OpeningFolder => thread[t].name # VTrash,
           p \in HasFolder => thread[t].folder # NoObject,
           p \in HasVFolder => v # NoObject,
           p \in InRename => thread[t].pc \in InRename
    PROVE  ThreadsInv'
<1>a. /\ BagTypeOK /\ ThreadsInv /\ thread[t] \in Thread
      /\ Fits(thread[t], creating[t], fresh[t])
  BY ThreadFacts
<1>1. PICK r \in Thread : /\ thread' = [thread EXCEPT ![t] = r]
                          /\ r.pc = p /\ r.vfolder = v
                          /\ r.name = thread[t].name /\ r.folder = thread[t].folder /\ r.new = thread[t].new
  <2>1. CASE thread' = [thread EXCEPT ![t] = [thread[t] EXCEPT !.vfolder = v, !.pc = p]]
    <3> DEFINE r == [thread[t] EXCEPT !.vfolder = v, !.pc = p]
    <3>1. /\ r \in Thread /\ r.pc = p /\ r.vfolder = v
          /\ r.name = thread[t].name /\ r.folder = thread[t].folder /\ r.new = thread[t].new
      BY <1>a DEF Thread
    <3>2. thread' = [thread EXCEPT ![t] = r]
      BY <2>1
    <3> HIDE DEF r
    <3> QED
      BY <3>1, <3>2
  <2>2. CASE thread' = [thread EXCEPT ![t] = [thread[t] EXCEPT !.pc = p]] /\ v = thread[t].vfolder
    <3> DEFINE r == [thread[t] EXCEPT !.pc = p]
    <3>1. /\ r \in Thread /\ r.pc = p /\ r.vfolder = v
          /\ r.name = thread[t].name /\ r.folder = thread[t].folder /\ r.new = thread[t].new
      BY <1>a, <2>2 DEF Thread
    <3>2. thread' = [thread EXCEPT ![t] = r]
      BY <2>2
    <3> HIDE DEF r
    <3> QED
      BY <3>1, <3>2
  <2> QED
    BY <2>1, <2>2
<1>2. Fits(r, creating[t], fresh[t])
  BY <1>a, <1>1 DEF Fits
<1> QED
  BY <1>a, <1>1, <1>2, QuietThreadStep

\* camel_object_bag_get of the trash, before and after a wait.
LEMMA KeptTrash ==
    ASSUME StoreInv, NEW t \in Threads,
           \/ get_folder_trash(t) \/ get_folder_trash_woken(t)
           \/ delete_folder_trash(t) \/ delete_folder_trash_woken(t)
    PROVE  Kept
<1>a. /\ thread[t] \in Thread /\ Fits(thread[t], creating[t], fresh[t])
      /\ objectTable \in [Keys -> Objects \cup {NoObject}]
  BY ThreadFacts
<1>b. VTrash \in Keys /\ objectTable[VTrash] \in Objects \cup {NoObject}
  BY <1>a, StoreAssumption
<1>1. thread[t].pc \in {"trash", "trashWait", "delTrash", "delTrashWait"}
  BY DEF get_folder_trash, get_folder_trash_woken, delete_folder_trash,
     delete_folder_trash_woken, At
<1>2. VTrash \notin creating[t]
  BY <1>a, <1>1 DEF Fits, Opening, OpeningFolder
<1>3. /\ camel_object_bag_get(t, VTrash) \/ get_woken(t, VTrash)
      /\ UNCHANGED <<calls, folderLock, disk, subs, missed, strayed>>
  BY DEF get_folder_trash, get_folder_trash_woken, delete_folder_trash,
     delete_folder_trash_woken, GetTrash, GetTrashWoken
<1>4. BagNext /\ UNCHANGED <<creating, fresh>>
  BY <1>b, <1>2, <1>3, BagSteps, QuietCalls
<1>5. PICK p \in Places :
         /\ thread' = [thread EXCEPT ![t] = [thread[t] EXCEPT !.vfolder = objectTable[VTrash], !.pc = p]]
         /\ IF thread[t].pc \in {"trash", "trashWait"}
            THEN p \in {"addSub", "add", "trashWait"}
            ELSE p \in {"delSub", "delMark", "delTrashWait"}
         /\ p \in {"addSub", "delSub"} => objectTable[VTrash] # NoObject
  <2>1. /\ "addSub" \in Places /\ "add" \in Places /\ "trashWait" \in Places
        /\ "delSub" \in Places /\ "delMark" \in Places /\ "delTrashWait" \in Places
    BY DEF Places
  <2>2. CASE thread[t].pc \in {"trash", "trashWait"}
    <3>1. \E p \in {"addSub", "add", "trashWait"} :
             /\ Become(t, [thread[t] EXCEPT !.vfolder = objectTable[VTrash], !.pc = p])
             /\ p = "addSub" => objectTable[VTrash] # NoObject
      BY <2>2 DEF get_folder_trash, get_folder_trash_woken, delete_folder_trash,
         delete_folder_trash_woken, GetTrash, GetTrashWoken, After, At
    <3> QED
      BY <2>1, <2>2, <3>1 DEF Become
  <2>3. CASE thread[t].pc \in {"delTrash", "delTrashWait"}
    <3>1. \E p \in {"delSub", "delMark", "delTrashWait"} :
             /\ Become(t, [thread[t] EXCEPT !.vfolder = objectTable[VTrash], !.pc = p])
             /\ p = "delSub" => objectTable[VTrash] # NoObject
      BY <2>3 DEF get_folder_trash, get_folder_trash_woken, delete_folder_trash,
         delete_folder_trash_woken, GetTrash, GetTrashWoken, After, At
    <3> QED
      BY <2>1, <2>3, <3>1 DEF Become
  <2> QED
    BY <1>1, <2>2, <2>3
<1>6. thread[t].folder # NoObject /\ (thread[t].pc \in {"trash", "trashWait"} => thread[t].name # VTrash)
  BY <1>a, <1>1 DEF Fits, Opening, OpeningFolder, HasFolder
<1>7. /\ p \in {"open", "abort"} \cup Opening <=> thread[t].pc \in {"open", "abort"} \cup Opening
      /\ p \in Opening <=> thread[t].pc \in Opening
      /\ p \in OpeningFolder => thread[t].name # VTrash
      /\ p \in HasVFolder => objectTable[VTrash] # NoObject
      /\ p \notin InRename
  BY <1>1, <1>5, <1>6 DEF Opening, OpeningFolder, HasVFolder, InRename
<1>8. ThreadsInv'
  BY <1>b, <1>4, <1>5, <1>6, <1>7, GoesOn
<1> QED
  BY <1>3, <1>4, <1>8 DEF Kept, StoreInv, RestTyped

\* A thread drops its virtual folder.
LEMMA KeptUnrefVFolder ==
    ASSUME StoreInv, NEW t \in Threads,
           \/ get_folder_unref_trash(t)
           \/ delete_folder_unref_trash(t)
           \/ rename_folder_unref(t)
    PROVE  Kept
<1>a. /\ thread[t] \in Thread /\ Fits(thread[t], creating[t], fresh[t])
  BY ThreadFacts
<1>1. PICK p \in {"add", "delMark", "rekey", "unlock"} :
         /\ UnrefVFolder(t, p)
         /\ \/ thread[t].pc = "unrefTrash" /\ p = "add"
            \/ thread[t].pc = "delUnrefTrash" /\ p = "delMark"
            \/ thread[t].pc = "renUnref" /\ p \in {"rekey", "unlock"}
         /\ p = "rekey" => thread[t].folder # NoObject
  BY DEF get_folder_unref_trash, delete_folder_unref_trash, rename_folder_unref, At, Renamed
<1>2. thread[t].vfolder \in Objects
  BY <1>a, <1>1 DEF Fits, HasVFolder, InRename, Thread
<1>3. /\ BagNext /\ UNCHANGED <<creating, fresh>>
      /\ missed' \in SUBSET Objects /\ strayed' \in SUBSET Objects
  BY <1>1, <1>2, UnrefKept DEF UnrefVFolder
<1>4. /\ thread' = [thread EXCEPT ![t] = [thread[t] EXCEPT !.vfolder = NoObject, !.pc = p]]
      /\ UNCHANGED <<calls, folderLock, disk, subs>>
  BY <1>1 DEF UnrefVFolder, Become
<1>5. /\ p \in Places
      /\ p \in {"open", "abort"} \cup Opening <=> thread[t].pc \in {"open", "abort"} \cup Opening
      /\ p \in Opening <=> thread[t].pc \in Opening
      /\ p \notin OpeningFolder /\ p \notin HasVFolder /\ p \notin InRename
      /\ thread[t].folder # NoObject \/ p \notin HasFolder
  BY <1>a, <1>1 DEF Fits, Places, Opening, OpeningFolder, HasFolder, HasVFolder, InRename
<1>6. ThreadsInv'
  BY <1>3, <1>4, <1>5, GoesOn
<1> QED
  BY <1>3, <1>4, <1>6 DEF Kept, StoreInv, RestTyped

\* The virtual folder gets a folder: from get_folder, or from get_special.
LEMMA KeptFill ==
    ASSUME StoreInv, NEW t \in Threads,
           get_folder_add_sub(t) \/ get_special_list(t) \/ get_special_fill(t)
    PROVE  Kept
<1>a. /\ BagTypeOK /\ ThreadsInv /\ thread[t] \in Thread
      /\ Fits(thread[t], creating[t], fresh[t])
      /\ objectTable \in [Keys -> Objects \cup {NoObject}]
  BY ThreadFacts
<1>b. /\ thread[t].vfolder \in Objects \cup {NoObject} /\ thread[t].list \in SUBSET Objects
      /\ thread[t].folder \in Objects \cup {NoObject}
      /\ thread \in [Threads -> Thread]
      /\ subs \in [Objects -> SUBSET Objects] /\ missed \in SUBSET Objects
  BY <1>a DEF Thread, StoreInv, ThreadsInv, RestTyped
<1>1. CASE get_folder_add_sub(t)
  <2>1. /\ thread[t].pc = "addSub" /\ thread[t].folder \in Objects /\ thread[t].vfolder \in Objects
        /\ thread[t].name # VTrash
    BY <1>a, <1>b, <1>1 DEF get_folder_add_sub, At, Fits, Opening, OpeningFolder, HasFolder, HasVFolder, InRename
  <2>2. camel_object_ref(thread[t].folder)
    BY <1>1 DEF get_folder_add_sub
  <2>3. BagNext /\ UNCHANGED <<creating, fresh>>
    BY <2>1, <2>2, BagSteps, QuietCalls
  <2>4. thread' = [thread EXCEPT ![t] = [thread[t] EXCEPT !.pc = "unrefTrash"]]
    BY <1>1 DEF get_folder_add_sub, Go, Become
  <2>5. /\ "unrefTrash" \in Places /\ "unrefTrash" \in Opening /\ thread[t].pc \in Opening
        /\ "unrefTrash" \notin InRename
    BY <2>1 DEF Places, Opening, OpeningFolder, InRename
  <2>6. ThreadsInv'
    BY <1>b, <2>1, <2>3, <2>4, <2>5, GoesOn, BagAssumption
  <2>7. subs' \in [Objects -> SUBSET Objects]
    BY <1>b, <1>1, <2>1 DEF get_folder_add_sub
  <2> QED
    BY <1>1, <2>3, <2>6, <2>7 DEF get_folder_add_sub, Kept, StoreInv, RestTyped
<1>2. CASE get_special_list(t)
  <2> DEFINE r == [thread[t] EXCEPT !.list = Filed, !.pc = "fill"]
  <2>1. Filed \in SUBSET Objects
    BY <1>a DEF Filed
  <2>2. /\ r \in Thread /\ r.pc = "fill" /\ r.name = thread[t].name
        /\ r.folder = thread[t].folder /\ r.vfolder = thread[t].vfolder
    BY <1>a, <2>1 DEF Thread, Places
  <2>3. BagNext /\ UNCHANGED <<creating, fresh>>
    BY <1>2, BagSteps, QuietCalls DEF get_special_list
  <2>4. thread' = [thread EXCEPT ![t] = r] /\ thread[t].pc = "list"
    BY <1>2 DEF get_special_list, Become, At
  <2> HIDE DEF r
  <2>5. Fits(r, creating[t], fresh[t])
    BY <1>a, <2>2, <2>4 DEF Fits, Opening, OpeningFolder, HasFolder, HasVFolder, InRename
  <2>6. ThreadsInv'
    BY <1>a, <2>2, <2>3, <2>4, <2>5, QuietThreadStep
  <2>7. \A u \in Threads : thread[u].pc = "add" => thread[u].folder \in Objects
    BY <1>b DEF StoreInv, ThreadsInv, Fits, Thread, HasFolder, Opening
  <2>8. missed' \in SUBSET Objects
    BY <1>b, <1>2, <2>7 DEF get_special_list
  <2> QED
    BY <1>2, <2>3, <2>6, <2>8 DEF get_special_list, Kept, StoreInv, RestTyped
<1>3. CASE get_special_fill(t)
  <2>1. /\ UNCHANGED <<creating, fresh>> /\ UNCHANGED bagVars /\ thread[t].pc = "fill"
        /\ thread[t].folder \in Objects
    BY <1>a, <1>b, <1>3 DEF get_special_fill, bagVars, At, Fits, HasFolder, Opening
  <2>2. CASE Go(t, "add") /\ UNCHANGED subs
    <3>1. thread' = [thread EXCEPT ![t] = [thread[t] EXCEPT !.pc = "add"]]
      BY <2>2 DEF Go, Become
    <3>2. /\ "add" \in Places /\ "add" \in Opening /\ thread[t].pc \in Opening
          /\ "add" \notin OpeningFolder /\ "add" \notin HasVFolder /\ "add" \notin InRename
      BY <2>1 DEF Places, Opening, OpeningFolder, HasVFolder, InRename
    <3>3. ThreadsInv'
      BY <1>b, <2>1, <3>1, <3>2, GoesOn, BagAssumption
    <3> QED
      BY <1>3, <2>1, <2>2, <3>3 DEF get_special_fill, Kept, StoreInv, RestTyped
  <2>3. CASE \E f \in thread[t].list :
                /\ subs' = [subs EXCEPT ![thread[t].folder] = @ \cup {f}]
                /\ Become(t, [thread[t] EXCEPT !.list = @ \ {f}])
    <3>1. PICK f \in thread[t].list :
                /\ subs' = [subs EXCEPT ![thread[t].folder] = @ \cup {f}]
                /\ Become(t, [thread[t] EXCEPT !.list = @ \ {f}])
      BY <2>3
    <3> DEFINE r == [thread[t] EXCEPT !.list = @ \ {f}]
    <3>2. /\ r \in Thread /\ r.pc = "fill" /\ r.name = thread[t].name
          /\ r.folder = thread[t].folder /\ r.vfolder = thread[t].vfolder
      BY <1>a, <2>1 DEF Thread
    <3>3. thread' = [thread EXCEPT ![t] = r]
      BY <3>1 DEF Become
    <3> HIDE DEF r
    <3>4. Fits(r, creating[t], fresh[t])
      BY <1>a, <2>1, <3>2 DEF Fits, InRename
    <3>5. ThreadsInv'
      BY <1>a, <2>1, <3>2, <3>3, <3>4, QuietThreadStep
    <3>6. subs' \in [Objects -> SUBSET Objects]
      BY <1>b, <2>1, <3>1
    <3> QED
      BY <1>3, <2>1, <3>5, <3>6 DEF get_special_fill, Kept, StoreInv, RestTyped
  <2> QED
    BY <1>3, <2>2, <2>3 DEF get_special_fill
<1> QED
  BY <1>1, <1>2, <1>3

\* A caller lets its folder go, and so do delete_folder and rename_folder at
\* their end, with the lock.
LEMMA KeptRelease ==
    ASSUME StoreInv, NEW t \in Threads, release_folder(t) \/ unlock_folders(t)
    PROVE  Kept
<1>a. /\ BagTypeOK /\ ThreadsInv /\ thread[t] \in Thread
      /\ Fits(thread[t], creating[t], fresh[t])
  BY ThreadFacts
<1>b. thread[t].folder \in Objects \cup {NoObject} /\ BagTypeOK
  BY <1>a DEF Thread
<1>1. creating[t] = {} /\ fresh[t] = NoObject /\ thread[t].pc \in {"keeps", "unlock"}
  BY <1>a DEF release_folder, unlock_folders, At, Fits, Opening, OpeningFolder
<1>2. /\ [BagNext]_bagVars /\ UNCHANGED <<creating, fresh>>
      /\ missed' \in SUBSET Objects /\ strayed' \in SUBSET Objects
  <2>1. CASE thread[t].folder \in Objects
    <3>1. Unref(thread[t].folder)
      BY <2>1, BagAssumption DEF release_folder, unlock_folders
    <3> QED
      BY <2>1, <3>1, UnrefKept
  <2>2. CASE thread[t].folder = NoObject
    <3>1. Untouched
      BY <1>a, <2>2 DEF release_folder, unlock_folders, At, Fits, HasFolder
    <3> QED
      BY <3>1 DEF Untouched, bagVars, StoreInv, RestTyped
  <2> QED
    BY <1>b, <2>1, <2>2
<1>3. thread' = [thread EXCEPT ![t] = Idle] /\ UNCHANGED <<calls, disk, subs>>
      /\ folderLock' \in {folderLock, NoThread}
  BY DEF release_folder, unlock_folders, Become
<1>4. ThreadsInv'
  BY <1>a, <1>1, <1>2, <1>3, IdleFits, QuietThreadStep
<1> QED
  BY <1>2, <1>3, <1>4 DEF Kept, StoreInv, RestTyped

\* The finaliser of a virtual folder.
LEMMA KeptFinalise ==
    ASSUME StoreInv, NEW v \in Objects, vee_folder_finalise(v)
    PROVE  Kept
<1>1. PICK f \in subs[v] : Unref(f) /\ subs' = [subs EXCEPT ![v] = @ \ {f}]
  BY DEF vee_folder_finalise
<1>2. f \in Objects
  BY DEF StoreInv, RestTyped
<1>3. /\ BagNext /\ UNCHANGED <<creating, fresh>>
      /\ missed' \in SUBSET Objects /\ strayed' \in SUBSET Objects
  BY <1>1, <1>2, UnrefKept
<1>4. subs' \in [Objects -> SUBSET Objects]
  BY <1>1 DEF StoreInv, RestTyped
<1>5. UNCHANGED <<calls, thread, folderLock, disk>>
  BY DEF vee_folder_finalise
<1>6. ThreadsInv'
  BY <1>3, <1>5 DEF StoreInv, ThreadsInv
<1> QED
  BY <1>3, <1>4, <1>5, <1>6 DEF Kept, StoreInv, RestTyped

\* delete_folder and rename_folder are called.
LEMMA KeptBegin ==
    ASSUME StoreInv, NEW t \in Threads,
           \/ \E k \in Names : delete_folder(t, k)
           \/ \E old \in Names : \E new \in Names \ {old} : rename_folder(t, old, new)
    PROVE  Kept
<1>a. /\ BagTypeOK /\ ThreadsInv /\ thread[t] \in Thread
      /\ Fits(thread[t], creating[t], fresh[t])
  BY ThreadFacts
<1>b. Call(t) /\ UNCHANGED bagVars /\ UNCHANGED <<folderLock, disk, subs, missed, strayed>>
  BY DEF delete_folder, rename_folder
<1>1. calls' \in 0..MaxCalls /\ creating[t] = {} /\ fresh[t] = NoObject
  BY <1>a, <1>b, CallCounts DEF Call, At, Fits, Opening, OpeningFolder
<1>2. PICK r \in Thread : /\ thread' = [thread EXCEPT ![t] = r]
                          /\ r.pc = "delLock" \/ (r.pc = "renLock" /\ r.new # VTrash)
  <2>1. ASSUME NEW k \in Names, delete_folder(t, k)
        PROVE  \E r \in Thread : thread' = [thread EXCEPT ![t] = r] /\ r.pc = "delLock"
    <3> DEFINE r == [Idle EXCEPT !.pc = "delLock", !.name = k]
    <3>1. r \in Thread /\ r.pc = "delLock"
      BY IdleFits DEF Thread, Places, Names
    <3>2. thread' = [thread EXCEPT ![t] = r]
      BY <2>1 DEF delete_folder, Become
    <3> HIDE DEF r
    <3> QED
      BY <3>1, <3>2
  <2>2. ASSUME NEW old \in Names, NEW new \in Names, rename_folder(t, old, new)
        PROVE  \E r \in Thread :
                  thread' = [thread EXCEPT ![t] = r] /\ r.pc = "renLock" /\ r.new # VTrash
    <3> DEFINE r == [Idle EXCEPT !.pc = "renLock", !.name = old, !.new = new]
    <3>1. r \in Thread /\ r.pc = "renLock" /\ r.new # VTrash
      BY IdleFits DEF Thread, Places, Names
    <3>2. thread' = [thread EXCEPT ![t] = r]
      BY <2>2 DEF rename_folder, Become
    <3> HIDE DEF r
    <3> QED
      BY <3>1, <3>2
  <2> QED
    BY <2>1, <2>2
<1>3. Fits(r, creating[t], fresh[t])
  BY <1>1, <1>2 DEF Fits, Opening, OpeningFolder, HasFolder, HasVFolder, InRename
<1>4. ThreadsInv'
  BY <1>a, <1>b, <1>2, <1>3, QuietThreadStep DEF bagVars
<1> QED
  BY <1>b, <1>1, <1>4 DEF Kept, StoreInv, RestTyped

\* They take the lock: the provider deletes, or the bag is listed.
LEMMA KeptLock ==
    ASSUME StoreInv, NEW t \in Threads, delete_folder_dir(t) \/ rename_folder_list(t)
    PROVE  Kept
<1>a. /\ BagTypeOK /\ ThreadsInv /\ thread[t] \in Thread
      /\ Fits(thread[t], creating[t], fresh[t])
      /\ objectTable \in [Keys -> Objects \cup {NoObject}]
  BY ThreadFacts
<1>b. /\ folderLock' \in {folderLock, t} /\ UNCHANGED <<calls, subs, missed, strayed>>
      /\ thread[t].pc \in {"delLock", "renLock"} /\ thread[t].name \in Keys
  BY <1>a DEF delete_folder_dir, rename_folder_list, At, Thread
<1>c. creating[t] = {} /\ fresh[t] = NoObject
  BY <1>a, <1>b DEF Fits, Opening, OpeningFolder
<1>1. CASE delete_folder_dir(t)
  <2> DEFINE r == [thread[t] EXCEPT !.pc = "delMeta"]
  <2>1. r \in Thread /\ r.pc = "delMeta"
    BY <1>a DEF Thread, Places
  <2>2. /\ thread' = [thread EXCEPT ![t] = r] \/ thread' = [thread EXCEPT ![t] = Idle]
        /\ UNCHANGED bagVars
    BY <1>1 DEF delete_folder_dir, Go, Become
  <2> HIDE DEF r
  <2>3. Fits(r, creating[t], fresh[t])
    BY <1>c, <2>1 DEF Fits, Opening, OpeningFolder, HasFolder, HasVFolder, InRename
  <2>4. ThreadsInv'
    BY <1>a, <1>c, <2>1, <2>2, <2>3, IdleFits, QuietThreadStep DEF bagVars
  <2>5. disk' \in SUBSET Names
    BY <1>1 DEF delete_folder_dir, StoreInv, RestTyped
  <2> QED
    BY <1>b, <2>2, <2>4, <2>5 DEF Kept, StoreInv, RestTyped
<1>2. CASE rename_folder_list(t)
  <2> DEFINE f == objectTable[thread[t].name]
             r == [thread[t] EXCEPT !.pc = "renGet", !.folder = f]
  <2>1. f \in Objects \cup {NoObject} /\ thread[t].pc = "renLock" /\ thread[t].new # VTrash
    BY <1>a, <1>b, <1>2 DEF rename_folder_list, At, Fits, InRename
  <2>2. /\ thread' = [thread EXCEPT ![t] = r] /\ disk' = disk
        /\ (UNCHANGED bagVars \/ (f # NoObject /\ camel_object_ref(f)))
    BY <1>2 DEF rename_folder_list, Become
  <2> HIDE DEF f
  <2>3. r \in Thread /\ r.pc = "renGet" /\ r.new = thread[t].new
    BY <1>a, <2>1 DEF Thread, Places
  <2>4. [BagNext]_bagVars /\ UNCHANGED <<creating, fresh>>
    BY <2>1, <2>2, BagSteps, QuietCalls
  <2> HIDE DEF r
  <2>5. Fits(r, creating[t], fresh[t])
    BY <1>c, <2>1, <2>3 DEF Fits, Opening, OpeningFolder, HasFolder, HasVFolder, InRename
  <2>6. ThreadsInv'
    BY <1>a, <2>2, <2>3, <2>4, <2>5, QuietThreadStep
  <2> QED
    BY <1>b, <2>2, <2>4, <2>6 DEF Kept, StoreInv, RestTyped
<1> QED
  BY <1>1, <1>2

\* The provider fails when the maildir is gone.
LEMMA KeptFail ==
    ASSUME StoreInv, NEW t \in Threads, delete_folder_fail(t)
    PROVE  Kept
<1>a. /\ BagTypeOK /\ ThreadsInv /\ thread[t] \in Thread
      /\ Fits(thread[t], creating[t], fresh[t])
      /\ thread \in [Threads -> Thread] /\ thread[t].name \in Keys
      /\ objectTable \in [Keys -> Objects \cup {NoObject}]
  BY ThreadFacts DEF ThreadsInv, Thread
<1>1. creating[t] = {} /\ fresh[t] = NoObject
  BY <1>a DEF delete_folder_fail, At, Fits, Opening, OpeningFolder
<1>2. /\ thread' = [thread EXCEPT ![t] = Idle] /\ folderLock' = NoThread
      /\ UNCHANGED bagVars /\ UNCHANGED <<calls, disk, subs, missed>>
  BY DEF delete_folder_fail, Become
<1>3. OpenAs(thread[t].name) \subseteq Objects \cup {NoObject}
  BY <1>a DEF OpenAs, Thread
<1>4. strayed' \in SUBSET Objects
  BY <1>3 DEF delete_folder_fail, StoreInv, RestTyped
<1>5. ThreadsInv'
  BY <1>a, <1>1, <1>2, IdleFits, QuietThreadStep DEF bagVars
<1> QED
  BY <1>2, <1>4, <1>5 DEF Kept, StoreInv, RestTyped

\* delete_folder has the name of the state file.
LEMMA KeptState ==
    ASSUME StoreInv, NEW t \in Threads, delete_folder_state_unref(t)
    PROVE  Kept
<1>a. /\ BagTypeOK /\ ThreadsInv /\ thread[t] \in Thread
      /\ Fits(thread[t], creating[t], fresh[t])
  BY ThreadFacts
<1>1. /\ creating[t] = {} /\ fresh[t] = NoObject /\ thread[t].pc = "delState"
      /\ thread[t].folder \in Objects
  BY <1>a DEF delete_folder_state_unref, At, Fits, Opening, OpeningFolder, HasFolder, Thread
<1>2. /\ BagNext /\ UNCHANGED <<creating, fresh>>
      /\ missed' \in SUBSET Objects /\ strayed' \in SUBSET Objects
  BY <1>1, UnrefKept DEF delete_folder_state_unref
<1> DEFINE r == [thread[t] EXCEPT !.pc = "delGet", !.folder = NoObject]
<1>3. r \in Thread /\ r.pc = "delGet"
  BY <1>a DEF Thread, Places
<1>4. thread' = [thread EXCEPT ![t] = r] /\ UNCHANGED <<calls, folderLock, disk, subs>>
  BY DEF delete_folder_state_unref, Become
<1> HIDE DEF r
<1>5. Fits(r, creating[t], fresh[t])
  BY <1>1, <1>3 DEF Fits, Opening, OpeningFolder, HasFolder, HasVFolder, InRename
<1>6. ThreadsInv'
  BY <1>a, <1>2, <1>3, <1>4, <1>5, QuietThreadStep
<1> QED
  BY <1>2, <1>4, <1>6 DEF Kept, StoreInv, RestTyped

\* They look the folder up in the bag.
LEMMA KeptLookup ==
    ASSUME StoreInv, NEW t \in Threads,
           \/ delete_folder_get(t) \/ delete_folder_woken(t)
           \/ rename_folder_get(t) \/ rename_folder_woken(t)
    PROVE  Kept
<1>a. /\ BagTypeOK /\ ThreadsInv /\ thread[t] \in Thread
      /\ Fits(thread[t], creating[t], fresh[t])
      /\ objectTable \in [Keys -> Objects \cup {NoObject}]
  BY ThreadFacts
<1>1. /\ thread[t].pc \in {"delGet", "delWait", "renGet", "renWait"}
      /\ UNCHANGED <<calls, disk, subs, missed, strayed>>
      /\ folderLock' \in {folderLock, NoThread}
  BY DEF delete_folder_get, delete_folder_woken, rename_folder_get, rename_folder_woken,
     At, Deleting, Renaming
<1>2. creating[t] = {} /\ fresh[t] = NoObject
  BY <1>a, <1>1 DEF Fits, Opening, OpeningFolder
<1> DEFINE k == thread[t].name
           f == objectTable[k]
<1>3. k \in Keys /\ f \in Objects \cup {NoObject}
  BY <1>a DEF Thread
<1>4. BagNext /\ UNCHANGED <<creating, fresh>>
  <2>1. camel_object_bag_get(t, k) \/ get_woken(t, k)
    BY DEF delete_folder_get, delete_folder_woken, rename_folder_get, rename_folder_woken
  <2> HIDE DEF k
  <2> QED
    BY <1>2, <1>3, <2>1, BagSteps, QuietCalls
<1>5. CASE delete_folder_get(t) \/ delete_folder_woken(t)
  <2>1. \/ thread' = [thread EXCEPT ![t] = Idle]
        \/ \E p \in {"delTrash", "delWait"} :
              /\ thread' = [thread EXCEPT ![t] = [thread[t] EXCEPT !.folder = f, !.pc = p]]
              /\ p = "delTrash" => f # NoObject
    BY <1>5 DEF delete_folder_get, delete_folder_woken, Deleting, After, Become
  <2>2. CASE thread' = [thread EXCEPT ![t] = Idle]
    BY <1>a, <1>1, <1>2, <1>4, <2>2, IdleFits, QuietThreadStep DEF Kept, StoreInv, RestTyped
  <2>3. ASSUME NEW p \in {"delTrash", "delWait"},
               thread' = [thread EXCEPT ![t] = [thread[t] EXCEPT !.folder = f, !.pc = p]],
               p = "delTrash" => f # NoObject
        PROVE  Kept
    <3> DEFINE r == [thread[t] EXCEPT !.folder = f, !.pc = p]
    <3>1. thread' = [thread EXCEPT ![t] = r]
      BY <2>3
    <3> HIDE DEF f
    <3>2. r \in Thread /\ r.pc = p /\ r.folder = f
      BY <1>a, <1>3, <2>3 DEF Thread, Places
    <3> HIDE DEF r
    <3>3. Fits(r, creating[t], fresh[t])
      BY <1>2, <2>3, <3>2 DEF Fits, Opening, OpeningFolder, HasFolder, HasVFolder, InRename
    <3>4. ThreadsInv'
      BY <1>a, <1>4, <3>1, <3>2, <3>3, QuietThreadStep
    <3> QED
      BY <1>1, <1>4, <3>4 DEF Kept, StoreInv, RestTyped
  <2> QED
    BY <2>1, <2>2, <2>3
<1>6. CASE rename_folder_get(t) \/ rename_folder_woken(t)
  <2>1. PICK p \in {"renMove", "renWait"} :
           thread' = [thread EXCEPT ![t] = [thread[t] EXCEPT !.vfolder = f, !.pc = p]]
    BY <1>6 DEF rename_folder_get, rename_folder_woken, Renaming, After, Become
  <2>2. thread[t].pc \in {"renGet", "renWait"}
    BY <1>6 DEF rename_folder_get, rename_folder_woken, At
  <2> HIDE DEF f
  <2>3. /\ p \in Places /\ p \notin {"open", "abort"} \cup Opening
        /\ p \notin HasFolder /\ p \notin HasVFolder /\ p \notin OpeningFolder
        /\ thread[t].pc \notin {"open", "abort"} \cup Opening
        /\ thread[t].pc \in InRename
    BY <2>1, <2>2 DEF Places, Opening, OpeningFolder, HasFolder, HasVFolder, InRename
  <2>4. ThreadsInv'
    BY <1>3, <1>4, <2>1, <2>3, GoesOn
  <2> QED
    BY <1>1, <1>4, <2>4 DEF Kept, StoreInv, RestTyped
<1> QED
  BY <1>5, <1>6

\* The rest of delete_folder.
LEMMA KeptDelete ==
    ASSUME StoreInv, NEW t \in Threads,
           delete_folder_sub(t) \/ camel_folder_delete(t) \/ delete_folder_bag(t)
    PROVE  Kept
<1>a. /\ thread[t] \in Thread /\ Fits(thread[t], creating[t], fresh[t])
      /\ subs \in [Objects -> SUBSET Objects]
      /\ thread[t].vfolder \in Objects \cup {NoObject}
  BY ThreadFacts DEF Thread, StoreInv, RestTyped
<1>1. thread[t].pc \in {"delSub", "delMark", "delBag"} /\ thread[t].folder \in Objects
  BY <1>a DEF delete_folder_sub, camel_folder_delete, delete_folder_bag, At, Fits, HasFolder, Thread
<1>2. PICK p \in {"delUnrefTrash", "delBag", "unlock"} :
         /\ Go(t, p) /\ UNCHANGED <<calls, folderLock, disk>>
         /\ p = "delUnrefTrash" => thread[t].pc = "delSub"
  BY DEF delete_folder_sub, camel_folder_delete, delete_folder_bag, RemoveSub, At
<1>3. /\ [BagNext]_bagVars /\ UNCHANGED <<creating, fresh>>
      /\ missed' \in SUBSET Objects /\ strayed' \in SUBSET Objects
  <2>1. \/ Unref(thread[t].folder)
        \/ Untouched
        \/ camel_object_bag_remove(thread[t].folder) /\ UNCHANGED <<missed, strayed>>
    BY DEF delete_folder_sub, camel_folder_delete, delete_folder_bag, RemoveSub
  <2>2. CASE Unref(thread[t].folder)
    BY <1>1, <2>2, UnrefKept
  <2>3. CASE Untouched
    BY <2>3 DEF Untouched, bagVars, StoreInv, RestTyped
  <2>4. CASE camel_object_bag_remove(thread[t].folder) /\ UNCHANGED <<missed, strayed>>
    BY <1>1, <2>4, BagSteps, QuietCalls DEF StoreInv, RestTyped
  <2> QED
    BY <2>1, <2>2, <2>3, <2>4
<1>4. subs' \in [Objects -> SUBSET Objects]
  <2>1. \/ subs' = subs
        \/ \E v \in Objects : subs' = [subs EXCEPT ![v] = @ \ {thread[t].folder}]
        \/ thread[t].pc = "delSub" /\ subs' = [subs EXCEPT ![thread[t].vfolder] = @ \ {thread[t].folder}]
    BY DEF delete_folder_sub, camel_folder_delete, delete_folder_bag, RemoveSub, At
  <2> QED
    BY <1>a, <2>1
<1>5. thread' = [thread EXCEPT ![t] = [thread[t] EXCEPT !.pc = p]]
  BY <1>2 DEF Go, Become
<1>6. /\ p \in Places /\ p \notin {"open", "abort"} \cup Opening /\ p \notin OpeningFolder
      /\ p \notin InRename
      /\ p \in HasVFolder => thread[t].vfolder # NoObject
      /\ thread[t].pc \notin {"open", "abort"} \cup Opening
  BY <1>a, <1>1, <1>2 DEF Places, Opening, OpeningFolder, HasVFolder, InRename, Fits
<1>7. ThreadsInv'
  BY <1>a, <1>1, <1>3, <1>5, <1>6, GoesOn, BagAssumption
<1> QED
  BY <1>2, <1>3, <1>4, <1>7 DEF Kept, StoreInv, RestTyped

\* The rest of rename_folder.
LEMMA KeptRename ==
    ASSUME StoreInv, NEW t \in Threads, rename_folder_move(t) \/ rename_folder_rekey(t)
    PROVE  Kept
<1>a. /\ BagTypeOK /\ ThreadsInv /\ thread[t] \in Thread
      /\ Fits(thread[t], creating[t], fresh[t])
      /\ thread \in [Threads -> Thread]
      /\ objectTable \in [Keys -> Objects \cup {NoObject}]
  BY ThreadFacts DEF ThreadsInv
<1>b. thread[t].new \in Keys /\ thread[t].name \in Keys
  BY <1>a DEF Thread
<1>1. CASE rename_folder_rekey(t)
  <2>1. thread[t].pc = "rekey" /\ thread[t].folder \in Objects
        /\ thread[t].vfolder \in Objects \cup {NoObject}
    BY <1>a, <1>1 DEF rename_folder_rekey, At, Fits, HasFolder, Thread
  <2>2. camel_object_bag_rekey(thread[t].folder, thread[t].new)
        /\ thread' = [thread EXCEPT ![t] = [thread[t] EXCEPT !.pc = "unlock"]]
    BY <1>1 DEF rename_folder_rekey, Go, Become
  <2>3. BagNext /\ UNCHANGED <<creating, fresh>>
    BY <1>b, <2>1, <2>2, BagSteps, QuietCalls
  <2>4. /\ "unlock" \in Places /\ "unlock" \notin {"open", "abort"} \cup Opening
        /\ "unlock" \notin OpeningFolder /\ "unlock" \notin HasFolder /\ "unlock" \notin HasVFolder
        /\ "unlock" \notin InRename
        /\ thread[t].pc \notin {"open", "abort"} \cup Opening
    BY <2>1 DEF Places, Opening, OpeningFolder, HasFolder, HasVFolder, InRename
  <2>5. ThreadsInv'
    BY <2>1, <2>2, <2>3, <2>4, GoesOn
  <2> QED
    BY <1>1, <2>3, <2>5 DEF rename_folder_rekey, Kept, StoreInv, RestTyped
<1>2. CASE rename_folder_move(t)
  <2>1. PICK ok \in BOOLEAN :
          /\ disk' = IF ok /\ thread[t].new \notin disk
                     THEN (disk \ {thread[t].name}) \cup {thread[t].new} ELSE disk
          /\ strayed' = IF ok THEN strayed \cup (OpenAs(thread[t].name) \ {thread[t].folder, NoObject})
                        ELSE strayed
          /\ Become(t, [thread[t] EXCEPT !.ok = ok, !.pc = Renamed(t, thread[t].vfolder, ok)])
    BY <1>2 DEF rename_folder_move
  <2>2. thread[t].pc = "renMove" /\ UNCHANGED <<calls, folderLock, subs, missed>> /\ UNCHANGED bagVars
    BY <1>2 DEF rename_folder_move, At
  <2> DEFINE p == Renamed(t, thread[t].vfolder, ok)
             r == [thread[t] EXCEPT !.ok = ok, !.pc = p]
  <2>3. thread' = [thread EXCEPT ![t] = r] /\ ok \in BOOLEAN
    BY <2>1 DEF Become
  <2>4. /\ p \in {"renUnref", "rekey", "unlock"}
        /\ p = "renUnref" => thread[t].vfolder # NoObject
        /\ p = "rekey" => thread[t].folder # NoObject
    BY DEF Renamed
  <2> HIDE DEF p
  <2>5. /\ r \in Thread /\ r.pc = p /\ r.folder = thread[t].folder /\ r.vfolder = thread[t].vfolder
    BY <1>a, <2>3, <2>4 DEF Thread, Places
  <2> HIDE DEF r
  <2>6. Fits(r, creating[t], fresh[t])
    BY <1>a, <2>2, <2>4, <2>5 DEF Fits, Opening, OpeningFolder, HasFolder, HasVFolder, InRename
  <2>7. ThreadsInv'
    BY <1>a, <2>2, <2>3, <2>5, <2>6, QuietThreadStep DEF bagVars
  <2>8. OpenAs(thread[t].name) \subseteq Objects \cup {NoObject}
    BY <1>a, <1>b DEF OpenAs, Thread
  <2>9. strayed' \in SUBSET Objects
    BY <2>1, <2>8 DEF StoreInv, RestTyped
  <2>10. disk' \in SUBSET Names
    <3>1. thread[t].new \in Names
      BY <1>a, <1>b, <2>2 DEF Fits, InRename, Names
    <3> QED
      BY <2>1, <3>1 DEF StoreInv, RestTyped
  <2> QED
    BY <2>2, <2>7, <2>9, <2>10 DEF Kept, StoreInv, RestTyped
<1> QED
  BY <1>1, <1>2

-----------------------------------------------------------------------------
(* Results.                                                                *)

\* A store with no open folder satisfies the invariant.
LEMMA InitStoreInv == Init => StoreInv
<1> SUFFICES ASSUME Init PROVE StoreInv
  OBVIOUS
<1>1. BagInv
  BY InitBagInv DEF Init
<1>2. ThreadsInv
  BY IdleFits DEF Init, BagInit, ThreadsInv
<1>3. RestTyped
  BY StoreAssumption DEF Init, RestTyped
<1> QED
  BY <1>1, <1>2, <1>3 DEF StoreInv

\* Every step of the store is one call of the bag, as its documentation asks,
\* or none.
LEMMA NextKept ==
    ASSUME StoreInv, Next
    PROVE  Kept
<1>1. ASSUME NEW t \in Threads, Goes(t) PROVE Kept
  BY <1>1, KeptReserve, KeptOpen, KeptEnd, KeptTrash, KeptUnrefVFolder, KeptFill, KeptRelease,
     KeptLock, KeptFail, KeptState, KeptLookup, KeptDelete, KeptRename DEF Goes
<1>2. ASSUME NEW t \in Threads,
             \/ \E k \in Names, create, excl \in BOOLEAN : get_folder(t, k, create, excl)
             \/ get_folder(t, VTrash, FALSE, FALSE)
      PROVE  Kept
  <2>1. VTrash \in Keys /\ Names \subseteq Keys /\ FALSE \in BOOLEAN
    BY StoreAssumption DEF Names
  <2>2. \E k \in Keys, create, excl \in BOOLEAN : get_folder(t, k, create, excl)
    BY <1>2, <2>1
  <2> QED
    BY <2>2, KeptReserve
<1> QED
  BY <1>1, <1>2, KeptRelease, KeptBegin, KeptFinalise DEF Next

\* The invariant is inductive.
LEMMA NextStoreInv == StoreInv /\ [Next]_vars => StoreInv' /\ [BagNext]_bagVars
<1>1. ASSUME StoreInv, Next PROVE StoreInv' /\ [BagNext]_bagVars
  <2>1. Kept
    BY <1>1, NextKept
  <2>2. BagInv'
    BY <1>1, <2>1, NextBagInv DEF Kept, StoreInv
  <2> QED
    BY <2>1, <2>2 DEF Kept, StoreInv
<1>2. ASSUME StoreInv, UNCHANGED vars PROVE StoreInv' /\ [BagNext]_bagVars
  <2>1. UNCHANGED bagVars /\ UNCHANGED <<thread, folderLock, disk, subs, calls, missed, strayed>>
    BY <1>2 DEF vars
  <2>2. BagInv'
    BY <1>2, <2>1, NextBagInv DEF StoreInv
  <2>3. ThreadsInv'
    BY <1>2, <2>1 DEF bagVars, StoreInv, ThreadsInv
  <2>4. RestTyped'
    BY <1>2, <2>1 DEF StoreInv, RestTyped
  <2> QED
    BY <2>1, <2>2, <2>3, <2>4 DEF StoreInv
<1> QED
  BY <1>1, <1>2

\* It holds in every state of a store.
THEOREM StoreSafety == Spec => []StoreInv
<1> QED
  BY InitStoreInv, NextStoreInv, PTL DEF Spec

\* get_folder, delete_folder and rename_folder keep to the protocol of the
\* bag: they add or abort what they have reserved, add only what they have
\* created, and do not wait for a key of their own.
THEOREM StoreUsesBag == Spec => BagSpec
<1>1. Init => BagInit
  BY DEF Init
<1> QED
  BY <1>1, NextStoreInv, StoreSafety, PTL DEF Spec, BagSpec

\* The types of the store, for any number of threads, names and folders.
THEOREM StoreTypeCorrect == Spec => []TypeOK
<1>1. StoreInv => TypeOK
  BY DEF StoreInv, BagInv, ThreadsInv, RestTyped, TypeOK
<1> QED
  BY <1>1, StoreSafety, PTL

\* At most one thread opens a folder of a name, and the assertions that
\* co_bag_unreserve makes of the one that does hold.
THEOREM StoreCreatorsOwn == Spec => []CreatorOwns
BY StoreUsesBag, CreatorAlwaysOwns, PTL

\* Nobody who waits for a folder in get_folder, delete_folder or rename_folder
\* is forgotten.
THEOREM StoreWakesWaiters == Spec => []SomeoneWillUnreserve
BY StoreUsesBag, NoLostWakeup, PTL

\* A folder that a store finds in its bag is alive.
THEOREM StoreTablesAgree == Spec => []TablesAgree
BY StoreUsesBag, TablesAlwaysAgree, PTL

\* The open folders of a store are a cache of objects created one at a time.
THEOREM StoreImplementsCache == Spec => ImplementsCache
BY StoreUsesBag, BagImplementsCache, PTL

-----------------------------------------------------------------------------
(* References, locks and the trash: what more can be said of each place.   *)

\* The calls that hold folder_lock: delete_folder with the folder it has found,
\* rename_folder, the rest, and get_folder when delete_folder has called it.
Deleted == {"delTrash", "delTrashWait", "delSub", "delUnrefTrash", "delMark", "delBag"}

Moving == {"renGet", "renWait", "renMove", "renUnref", "rekey"}

Acting == {"unlock"} \cup Deleted \cup Moving

Locking == {"delMeta", "delState", "delGet", "delWait"} \cup Acting

Getting == {"reserving", "exclAbort", "open", "abort"} \cup Opening

Locks(r) == r.pc \in Locking \/ r.deleting

\* A local variable that holds a reference is one that the code will drop.
RecordFits(r) ==
    /\ r.folder # NoObject => r.pc \in HasFolder \cup Moving \cup {"unlock"}
    /\ r.vfolder # NoObject => r.pc \in HasVFolder \cup {"renMove"}
    /\ r.list # {} => r.pc = "fill"
    /\ r.pc \in Locking \cup {"delLock", "renLock"} => r.name # VTrash
    /\ r.deleting => r.pc \in Getting /\ r.name # VTrash
    /\ r.pc \in Moving => r.new # VTrash
    /\ r.pc \in {"list", "fill"} => r.name = VTrash

RecordsFit == \A t \in Threads : RecordFits(thread[t])

LockFits == \A t \in Threads : Locks(thread[t]) <=> folderLock = t

\* The references of a thread and those of the virtual folders.
One(b) == IF b THEN 1 ELSE 0

Held(r, o) == One(r.folder = o) + One(r.vfolder = o) + One(o \in r.list)

Holders(o) == {t \in Threads : thread[t].folder = o}
VHolders(o) == {t \in Threads : thread[t].vfolder = o}
Listers(o) == {t \in Threads : o \in thread[t].list}
Shows(o) == {v \in Objects : o \in subs[v]}

RefsFit == \A o \in Objects :
    refCount[o] = Cardinality(Holders(o)) + Cardinality(VHolders(o))
                  + Cardinality(Listers(o)) + Cardinality(Shows(o))

\* A folder that the trash cannot have yet.
Early == {"trash", "trashWait", "addSub"}

\* An object that is not yet in the bag is known to the thread that made it only,
\* and to the trash after addSub.
FreshIsPrivate == \A u \in Threads : thread[u].pc \in Opening =>
    /\ \A t \in Threads : /\ t # u => thread[t].folder # thread[u].folder
                          /\ thread[t].vfolder # thread[u].folder
                          /\ thread[u].folder \notin thread[t].list
    /\ thread[u].pc \in Early => \A v \in Objects : thread[u].folder \notin subs[v]

\* The trash is filled with each folder once.
FillFits == \A t \in Threads :
    /\ thread[t].pc = "list" => subs[thread[t].folder] = {}
    /\ thread[t].pc = "fill" => thread[t].list \cap subs[thread[t].folder] = {}

RefsInv == RecordsFit /\ LockFits /\ RefsFit /\ FreshIsPrivate /\ FillFits

-----------------------------------------------------------------------------
\* The directory of the folder has its new name, and its key is still the old one.
Moves(q) == q.pc = "rekey" \/ (q.pc = "renUnref" /\ q.ok)

\* A folder between the provider's answer and camel_object_bag_add.
Comes(q) == q.pc \in OpeningFolder \cup {"add"}

\* The call that has taken the directory of k away is still to deal with f: it
\* has not looked for the folder to delete it yet, or has it and has not
\* changed the bag.
Excuses(q, k, f) ==
    /\ q.name = k
    /\ \/ q.pc \in {"delMeta", "delState", "delGet", "delWait"} \/ q.deleting
       \/ q.folder = f /\ (q.pc \in Deleted \/ Moves(q))

\* A failed rekey has ended the process.
Stuck(k) == aborted /\ \E t \in Threads : thread[t].name = k /\ thread[t].pc = "unlock"

\* A folder on its way into the bag, or in it, is one on disk.
FoldersExist ==
    \A k \in Names \ clashed : \A f \in Objects \ strayed : f \in OpenAs(k) =>
       k \in disk \/ (\E t \in Threads : Excuses(thread[t], k, f)) \/ Stuck(k)

\* The directory of the new name is there when the folder gets its key.
MovedExist == \A t \in Threads : Moves(thread[t]) => thread[t].new \in disk

DiskInv == FoldersExist /\ MovedExist

-----------------------------------------------------------------------------
\* The trash is where it was put: no rename moves it and no delete removes it.
TrashStays ==
    /\ VTrash \notin clashed
    /\ \A t \in Threads : thread[t].pc \in Acting /\ thread[t].folder # NoObject =>
          keyTable[thread[t].folder] # VTrash
    /\ \A t \in Threads : thread[t].pc \in {"addSub", "unrefTrash"} => objectTable[VTrash] = thread[t].vfolder

\* A folder about to be added is in the trash, if there is one.
ComingShown == \A u \in Threads :
    /\ thread[u].pc \in {"unrefTrash", "add"} /\ thread[u].name # VTrash
    /\ objectTable[VTrash] # NoObject /\ thread[u].folder \notin missed
    => thread[u].folder \in subs[objectTable[VTrash]]

\* The trash is being made, and has been given the folders of the bag.
Fills(q) == q.pc = "fill" \/ (q.pc = "add" /\ q.name = VTrash)

BeingDeleted(f) == \E t \in Threads : thread[t].pc \in Deleted /\ thread[t].folder = f

\* Nothing is missing in s of what the trash should have of f.
Shown(f, s) == f \in missed \cup {NoObject} \/ f \in s \/ BeingDeleted(f)

\* The trash that is being made has the folders of the bag, or will have.
FillShows == \A w \in Threads : Fills(thread[w]) =>
    /\ \A u \in Threads : thread[u].pc = "add" /\ thread[u].name # VTrash => thread[u].folder \in missed
    /\ clashed = {} => \A k \in Names : Shown(objectTable[k], subs[thread[w].folder] \cup thread[w].list)

TrashShows == clashed = {} /\ objectTable[VTrash] # NoObject =>
    \A k \in Names : Shown(objectTable[k], subs[objectTable[VTrash]])

TrashInv == TrashStays /\ ComingShown /\ FillShows /\ TrashShows
-----------------------------------------------------------------------------
(* Counting references.                                                    *)

\* A set with and without an element.
LEMMA CountSplit ==
    ASSUME NEW U, IsFiniteSet(U), NEW A \in SUBSET U, NEW x
    PROVE  /\ Cardinality(A) \in Nat /\ Cardinality(A \ {x}) \in Nat
           /\ Cardinality(A) = Cardinality(A \ {x}) + One(x \in A)
<1>1. IsFiniteSet(A)
  BY FS_Subset
<1>2. /\ IsFiniteSet(A \ {x})
      /\ Cardinality(A \ {x}) = IF x \in A THEN Cardinality(A) - 1 ELSE Cardinality(A)
  BY <1>1, FS_RemoveElement
<1>3. Cardinality(A) \in Nat /\ Cardinality(A \ {x}) \in Nat
  BY <1>1, <1>2, FS_CardinalityType
<1> QED
  BY <1>2, <1>3 DEF One

\* Two sets that differ in one element at most.
LEMMA CountChange ==
    ASSUME NEW U, IsFiniteSet(U), NEW A \in SUBSET U, NEW B \in SUBSET U, NEW x,
           A \ {x} = B \ {x}
    PROVE  /\ Cardinality(A) \in Nat /\ Cardinality(B) \in Nat
           /\ Cardinality(B) + One(x \in A) = Cardinality(A) + One(x \in B)
<1>1. /\ Cardinality(A) \in Nat /\ Cardinality(A \ {x}) \in Nat
      /\ Cardinality(A) = Cardinality(A \ {x}) + One(x \in A)
  BY CountSplit
<1>2. /\ Cardinality(B) \in Nat
      /\ Cardinality(B) = Cardinality(A \ {x}) + One(x \in B)
  BY CountSplit
<1> DEFINE ca == Cardinality(A)
           cb == Cardinality(B)
           cx == Cardinality(A \ {x})
<1>3. ca \in Nat /\ cb \in Nat /\ cx \in Nat /\ ca = cx + One(x \in A) /\ cb = cx + One(x \in B)
  BY <1>1, <1>2
<1> HIDE DEF ca, cb, cx
<1>4. cb + One(x \in A) = ca + One(x \in B)
  BY <1>3 DEF One
<1> QED
  BY <1>3, <1>4 DEF ca, cb

\* The references of all threads.
Loads(o) == Cardinality(Holders(o)) + Cardinality(VHolders(o)) + Cardinality(Listers(o))

\* A step of one thread.
LEMMA LoadsChange ==
    ASSUME thread \in [Threads -> Thread], NEW t \in Threads, NEW r \in Thread,
           thread' = [thread EXCEPT ![t] = r], NEW o
    PROVE  /\ Loads(o) \in Nat /\ Loads(o)' \in Nat
           /\ Loads(o)' + Held(thread[t], o) = Loads(o) + Held(r, o)
<1>1. thread'[t] = r /\ \A u \in Threads : u # t => thread'[u] = thread[u]
  OBVIOUS
<1>2. \A x : One(x) \in {0, 1}
  BY DEF One
<1>3. /\ Cardinality(Holders(o)) \in Nat /\ Cardinality(Holders(o)') \in Nat
      /\ Cardinality(Holders(o)') + One(thread[t].folder = o)
            = Cardinality(Holders(o)) + One(r.folder = o)
  <2>1. /\ Holders(o) \in SUBSET Threads /\ Holders(o)' \in SUBSET Threads
        /\ Holders(o) \ {t} = Holders(o)' \ {t}
        /\ t \in Holders(o) <=> thread[t].folder = o
        /\ t \in Holders(o)' <=> r.folder = o
    BY <1>1 DEF Holders
  <2>2. One(t \in Holders(o)) = One(thread[t].folder = o) /\ One(t \in Holders(o)') = One(r.folder = o)
    BY <2>1 DEF One
  <2> QED
    BY <2>1, <2>2, FiniteAssumption, CountChange
<1>4. /\ Cardinality(VHolders(o)) \in Nat /\ Cardinality(VHolders(o)') \in Nat
      /\ Cardinality(VHolders(o)') + One(thread[t].vfolder = o)
            = Cardinality(VHolders(o)) + One(r.vfolder = o)
  <2>1. /\ VHolders(o) \in SUBSET Threads /\ VHolders(o)' \in SUBSET Threads
        /\ VHolders(o) \ {t} = VHolders(o)' \ {t}
        /\ t \in VHolders(o) <=> thread[t].vfolder = o
        /\ t \in VHolders(o)' <=> r.vfolder = o
    BY <1>1 DEF VHolders
  <2>2. One(t \in VHolders(o)) = One(thread[t].vfolder = o) /\ One(t \in VHolders(o)') = One(r.vfolder = o)
    BY <2>1 DEF One
  <2> QED
    BY <2>1, <2>2, FiniteAssumption, CountChange
<1>5. /\ Cardinality(Listers(o)) \in Nat /\ Cardinality(Listers(o)') \in Nat
      /\ Cardinality(Listers(o)') + One(o \in thread[t].list)
            = Cardinality(Listers(o)) + One(o \in r.list)
  <2>1. /\ Listers(o) \in SUBSET Threads /\ Listers(o)' \in SUBSET Threads
        /\ Listers(o) \ {t} = Listers(o)' \ {t}
        /\ t \in Listers(o) <=> o \in thread[t].list
        /\ t \in Listers(o)' <=> o \in r.list
    BY <1>1 DEF Listers
  <2>2. One(t \in Listers(o)) = One(o \in thread[t].list) /\ One(t \in Listers(o)') = One(o \in r.list)
    BY <2>1 DEF One
  <2> QED
    BY <2>1, <2>2, FiniteAssumption, CountChange
<1>6. Loads(o)' = Cardinality(Holders(o)') + Cardinality(VHolders(o)') + Cardinality(Listers(o)')
  BY DEF Loads
<1> QED
  BY <1>2, <1>3, <1>4, <1>5, <1>6 DEF Loads, Held

\* A change of one virtual folder.
LEMMA ShowsChange ==
    ASSUME subs \in [Objects -> SUBSET Objects], NEW v \in Objects, NEW s \in SUBSET Objects,
           subs' = [subs EXCEPT ![v] = s], NEW o
    PROVE  /\ Cardinality(Shows(o)) \in Nat /\ Cardinality(Shows(o)') \in Nat
           /\ Cardinality(Shows(o)') + One(o \in subs[v]) = Cardinality(Shows(o)) + One(o \in s)
<1>1. subs'[v] = s /\ \A u \in Objects : u # v => subs'[u] = subs[u]
  OBVIOUS
<1>2. /\ Shows(o) \in SUBSET Objects /\ Shows(o)' \in SUBSET Objects
      /\ Shows(o) \ {v} = Shows(o)' \ {v}
      /\ v \in Shows(o) <=> o \in subs[v]
      /\ v \in Shows(o)' <=> o \in s
  BY <1>1 DEF Shows
<1>3. One(v \in Shows(o)) = One(o \in subs[v]) /\ One(v \in Shows(o)') = One(o \in s)
  BY <1>2 DEF One
<1> QED
  BY <1>2, <1>3, FiniteAssumption, CountChange


\* A subset with two elements counts both.
LEMMA CountTwo ==
    ASSUME NEW U, IsFiniteSet(U), NEW A \in SUBSET U, NEW x, NEW y, x # y
    PROVE  /\ Cardinality(A) \in Nat
           /\ One(x \in A) + One(y \in A) <= Cardinality(A)
<1>1. /\ Cardinality(A) \in Nat /\ Cardinality(A \ {x}) \in Nat
      /\ Cardinality(A) = Cardinality(A \ {x}) + One(x \in A)
  BY CountSplit
<1>2. /\ Cardinality((A \ {x}) \ {y}) \in Nat
      /\ Cardinality(A \ {x}) = Cardinality((A \ {x}) \ {y}) + One(y \in A \ {x})
  BY CountSplit
<1>3. One(y \in A \ {x}) = One(y \in A) /\ One(y \in A) \in Nat /\ One(x \in A) \in Nat
  BY DEF One
<1> QED
  BY <1>1, <1>2, <1>3

\* What the counts say: the references of a thread are among those of an object,
\* those of another thread come on top, and free memory is nobody's.
LEMMA HeldIsCounted ==
    ASSUME StoreInv, RefsFit, NEW o \in Objects
    PROVE  /\ refCount[o] \in Nat
           /\ \A t \in Threads : Held(thread[t], o) \in Nat /\ Held(thread[t], o) <= refCount[o]
           /\ \A t, u \in Threads : t # u => Held(thread[t], o) + Held(thread[u], o) <= refCount[o]
           /\ \A v \in Objects : o \in subs[v] =>
                 refCount[o] > 0 /\ \A t \in Threads : Held(thread[t], o) + 1 <= refCount[o]
<1> DEFINE a == Cardinality(Holders(o))
           b == Cardinality(VHolders(o))
           c == Cardinality(Listers(o))
           d == Cardinality(Shows(o))
<1>a. /\ Holders(o) \in SUBSET Threads /\ VHolders(o) \in SUBSET Threads
      /\ Listers(o) \in SUBSET Threads /\ Shows(o) \in SUBSET Objects
  BY DEF Holders, VHolders, Listers, Shows
<1>b. \A t \in Threads : /\ One(thread[t].folder = o) = One(t \in Holders(o))
                         /\ One(thread[t].vfolder = o) = One(t \in VHolders(o))
                         /\ One(o \in thread[t].list) = One(t \in Listers(o))
  BY DEF Holders, VHolders, Listers, One
<1>c. a \in Nat /\ b \in Nat /\ c \in Nat /\ d \in Nat
  BY <1>a, FiniteAssumption, CountSplit
<1>d. refCount[o] = a + b + c + d /\ refCount[o] \in Nat
  BY DEF RefsFit, StoreInv, BagInv, BagTypeOK
<1>e. \A x : One(x) \in {0, 1}
  BY DEF One
<1>1. ASSUME NEW t \in Threads
      PROVE  Held(thread[t], o) \in Nat /\ Held(thread[t], o) <= refCount[o]
             /\ (d > 0 => Held(thread[t], o) + 1 <= refCount[o])
  <2>1. One(t \in Holders(o)) <= a /\ One(t \in VHolders(o)) <= b /\ One(t \in Listers(o)) <= c
    <3>1. /\ Cardinality(Holders(o) \ {t}) \in Nat
          /\ a = Cardinality(Holders(o) \ {t}) + One(t \in Holders(o))
      BY <1>a, FiniteAssumption, CountSplit
    <3>2. /\ Cardinality(VHolders(o) \ {t}) \in Nat
          /\ b = Cardinality(VHolders(o) \ {t}) + One(t \in VHolders(o))
      BY <1>a, FiniteAssumption, CountSplit
    <3>3. /\ Cardinality(Listers(o) \ {t}) \in Nat
          /\ c = Cardinality(Listers(o) \ {t}) + One(t \in Listers(o))
      BY <1>a, FiniteAssumption, CountSplit
    <3> HIDE DEF a, b, c
    <3> QED
      BY <1>e, <3>1, <3>2, <3>3
  <2> HIDE DEF a, b, c, d
  <2> QED
    BY <1>b, <1>c, <1>d, <1>e, <2>1 DEF Held
<1>2. ASSUME NEW t \in Threads, NEW u \in Threads, t # u
      PROVE  Held(thread[t], o) + Held(thread[u], o) <= refCount[o]
  <2>1. /\ One(t \in Holders(o)) + One(u \in Holders(o)) <= a
        /\ One(t \in VHolders(o)) + One(u \in VHolders(o)) <= b
        /\ One(t \in Listers(o)) + One(u \in Listers(o)) <= c
    BY <1>a, <1>2, FiniteAssumption, CountTwo
  <2> HIDE DEF a, b, c, d
  <2> QED
    BY <1>b, <1>c, <1>d, <1>e, <2>1 DEF Held
<1>3. ASSUME NEW v \in Objects, o \in subs[v]
      PROVE  d > 0 /\ refCount[o] > 0
  <2>1. v \in Shows(o)
    BY <1>3 DEF Shows
  <2>2. Cardinality(Shows(o) \ {v}) \in Nat /\ d = Cardinality(Shows(o) \ {v}) + One(v \in Shows(o))
    BY <1>a, FiniteAssumption, CountSplit
  <2> HIDE DEF a, b, c, d
  <2>3. d > 0
    BY <2>1, <2>2 DEF One
  <2> QED
    BY <1>c, <1>d, <2>3
<1> HIDE DEF a, b, c, d
<1> QED
  BY <1>d, <1>1, <1>2, <1>3

\* An object that is being opened is in no table and is alive.
LEMMA OpeningIsNew ==
    ASSUME StoreInv, NEW t \in Threads, thread[t].pc \in Opening
    PROVE  /\ thread[t].folder \in Objects /\ fresh[t] = thread[t].folder
           /\ keyTable[thread[t].folder] = NoKey /\ refCount[thread[t].folder] > 0
           /\ \A k \in Keys : objectTable[k] # thread[t].folder
<1>1. thread[t].folder \in Objects /\ fresh[t] = thread[t].folder /\ thread[t].folder # NoObject
  BY DEF StoreInv, ThreadsInv, Fits, Thread, HasFolder
<1>2. keyTable[thread[t].folder] = NoKey /\ refCount[thread[t].folder] > 0
  BY <1>1 DEF StoreInv, BagInv, FreshIsNew
<1>3. \A k \in Keys : objectTable[k] # thread[t].folder
  BY <1>1, <1>2, BagAssumption DEF StoreInv, BagInv, TablesAgree
<1> QED
  BY <1>1, <1>2, <1>3

\* Free memory is held by nobody and is in no table.
LEMMA FreeIsUnheld ==
    ASSUME StoreInv, RefsFit, NEW o \in Objects, refCount[o] = 0
    PROVE  /\ \A t \in Threads : thread[t].folder # o /\ thread[t].vfolder # o /\ o \notin thread[t].list
           /\ \A v \in Objects : o \notin subs[v]
           /\ keyTable[o] = NoKey
<1>1. /\ \A t \in Threads : Held(thread[t], o) \in Nat /\ Held(thread[t], o) <= 0
      /\ \A v \in Objects : o \notin subs[v]
  BY HeldIsCounted
<1>2. ASSUME NEW t \in Threads
      PROVE  thread[t].folder # o /\ thread[t].vfolder # o /\ o \notin thread[t].list
  BY <1>1 DEF Held, One
<1>3. keyTable[o] = NoKey
  BY DEF StoreInv, BagInv, FreeIsUnfiled
<1> QED
  BY <1>1, <1>2, <1>3

\* A step of one thread that balances its references.
LEMMA RefsStep ==
    ASSUME StoreInv, StoreInv', RefsInv,
           NEW t \in Threads, NEW r \in Thread, thread' = [thread EXCEPT ![t] = r],
           RecordFits(r),
           Locks(r) <=> folderLock' = t,
           \A u \in Threads \ {t} : folderLock' = u <=> folderLock = u,
           \A o \in Objects : refCount'[o] + Held(thread[t], o) + Cardinality(Shows(o))
                              = refCount[o] + Held(r, o) + Cardinality(Shows(o)'),
           \A x \in Objects : r.folder = x =>
              x = thread[t].folder \/ keyTable[x] # NoKey \/ refCount[x] = 0,
           \A x \in Objects : x = r.vfolder \/ x \in r.list =>
              x = thread[t].vfolder \/ x \in thread[t].list \/ keyTable[x] # NoKey,
           r.pc \in Opening =>
              \/ /\ thread[t].pc \in Opening /\ r.folder = thread[t].folder
                 /\ r.pc \in Early => thread[t].pc \in Early
              \/ refCount[r.folder] = 0,
           \A v, x \in Objects : x \in subs'[v] =>
              \/ x \in subs[v]
              \/ /\ v \in {thread[t].folder, thread[t].vfolder}
                 /\ x \in thread[t].list \/ (x = thread[t].folder /\ r.pc \notin Early),
           r.pc = "list" => subs'[r.folder] = {},
           r.pc = "fill" => r.list \cap subs'[r.folder] = {}
    PROVE  RefsInv'
<1>a. thread \in [Threads -> Thread] /\ subs \in [Objects -> SUBSET Objects]
      /\ subs' \in [Objects -> SUBSET Objects]
  BY DEF StoreInv, ThreadsInv, RestTyped
<1>b. /\ thread'[t] = r /\ \A u \in Threads : u # t => thread'[u] = thread[u]
      /\ thread' \in [Threads -> Thread]
  BY <1>a
<1>c. RecordsFit /\ LockFits /\ RefsFit /\ FreshIsPrivate /\ FillFits
  BY DEF RefsInv
<1>1. RecordsFit'
  BY <1>b, <1>c DEF RecordsFit
<1>2. LockFits'
  BY <1>b, <1>c DEF LockFits
<1>3. RefsFit'
  <2> SUFFICES ASSUME NEW o \in Objects
               PROVE  refCount'[o] = Loads(o)' + Cardinality(Shows(o)')
    BY DEF RefsFit, Loads
  <2>1. /\ Loads(o) \in Nat /\ Loads(o)' \in Nat
        /\ Loads(o)' + Held(thread[t], o) = Loads(o) + Held(r, o)
    BY <1>a, LoadsChange
  <2>2. Cardinality(Shows(o)) \in Nat /\ Cardinality(Shows(o)') \in Nat
    <3>1. Shows(o) \in SUBSET Objects /\ Shows(o)' \in SUBSET Objects
      BY DEF Shows
    <3> QED
      BY <3>1, FiniteAssumption, FS_Subset, FS_CardinalityType
  <2>3. Held(thread[t], o) \in Nat /\ Held(r, o) \in Nat
    BY DEF Held, One
  <2>4. refCount[o] = Loads(o) + Cardinality(Shows(o))
    BY <1>c DEF RefsFit, Loads
  <2>5. refCount'[o] \in Nat /\ refCount[o] \in Nat
    BY DEF StoreInv, BagInv, BagTypeOK
  <2> DEFINE a == Loads(o)
             b == Loads(o)'
             c == Cardinality(Shows(o))
             d == Cardinality(Shows(o)')
             h == Held(thread[t], o)
             g == Held(r, o)
             m == refCount[o]
             n == refCount'[o]
  <2>6. /\ a \in Nat /\ b \in Nat /\ c \in Nat /\ d \in Nat /\ h \in Nat /\ g \in Nat /\ m \in Nat
        /\ n \in Nat /\ b + h = a + g /\ m = a + c /\ n + h + c = m + g + d
    BY <2>1, <2>2, <2>3, <2>4, <2>5
  <2> HIDE DEF a, b, c, d, h, g, m, n
  <2>7. n = b + d
    BY <2>6
  <2> QED
    BY <2>7 DEF b, d, n
<1>4. FreshIsPrivate'
  <2> SUFFICES ASSUME NEW u \in Threads, thread'[u].pc \in Opening
               PROVE  /\ \A w \in Threads : /\ w # u => thread'[w].folder # thread'[u].folder
                                            /\ thread'[w].vfolder # thread'[u].folder
                                            /\ thread'[u].folder \notin thread'[w].list
                      /\ thread'[u].pc \in Early => \A v \in Objects : thread'[u].folder \notin subs'[v]
    BY DEF FreshIsPrivate
  <2> DEFINE f == thread'[u].folder
  <2>1. CASE u # t
    <3>1. /\ thread[u].pc \in Opening /\ f = thread[u].folder /\ f \in Objects
          /\ keyTable[f] = NoKey /\ refCount[f] > 0 /\ thread'[u].pc = thread[u].pc
      BY <1>b, <2>1, OpeningIsNew
    <3>2. /\ \A w \in Threads : /\ w # u => thread[w].folder # f
                                /\ thread[w].vfolder # f
                                /\ f \notin thread[w].list
          /\ thread[u].pc \in Early => \A v \in Objects : f \notin subs[v]
      BY <1>c, <3>1 DEF FreshIsPrivate
    <3> HIDE DEF f
    <3>3. r.folder # f /\ r.vfolder # f /\ f \notin r.list
      BY <2>1, <3>1, <3>2
    <3>4. \A w \in Threads : /\ w # u => thread'[w].folder # f
                             /\ thread'[w].vfolder # f
                             /\ f \notin thread'[w].list
      BY <1>b, <3>2, <3>3
    <3>5. thread'[u].pc \in Early => \A v \in Objects : f \notin subs'[v]
      BY <2>1, <3>1, <3>2
    <3> QED
      BY <3>4, <3>5 DEF f
  <2>2. CASE u = t
    <3>1. f = r.folder /\ thread'[u].pc = r.pc /\ f \in Objects
      <4>1. r.folder # NoObject
        BY <1>b, <2>2 DEF StoreInv, ThreadsInv, Fits, HasFolder
      <4> QED
        BY <1>b, <2>2, <4>1 DEF Thread
    <3>2. CASE refCount[f] = 0
      <4>1. /\ \A w \in Threads : thread[w].folder # f /\ thread[w].vfolder # f /\ f \notin thread[w].list
            /\ \A v \in Objects : f \notin subs[v]
            /\ keyTable[f] = NoKey
        BY <1>c, <3>1, <3>2, FreeIsUnheld
      <4> HIDE DEF f
      <4>2. r.vfolder # f /\ f \notin r.list
        BY <3>1, <4>1
      <4>3. \A w \in Threads : /\ w # t => thread'[w].folder # f
                               /\ thread'[w].vfolder # f
                               /\ f \notin thread'[w].list
        BY <1>b, <4>1, <4>2
      <4>4. \A v \in Objects : f \notin subs'[v]
        BY <3>1, <4>1
      <4> QED
        BY <2>2, <4>3, <4>4 DEF f
    <3>3. CASE /\ thread[t].pc \in Opening /\ f = thread[t].folder
               /\ r.pc \in Early => thread[t].pc \in Early
      <4>1. keyTable[f] = NoKey
        BY <3>3, OpeningIsNew
      <4>2. /\ \A w \in Threads : /\ w # t => thread[w].folder # f
                                  /\ thread[w].vfolder # f
                                  /\ f \notin thread[w].list
            /\ thread[t].pc \in Early => \A v \in Objects : f \notin subs[v]
        BY <1>c, <3>3 DEF FreshIsPrivate
      <4> HIDE DEF f
      <4>3. r.vfolder # f /\ f \notin r.list
        BY <3>1, <4>1, <4>2
      <4>4. \A w \in Threads : /\ w # t => thread'[w].folder # f
                               /\ thread'[w].vfolder # f
                               /\ f \notin thread'[w].list
        BY <1>b, <4>2, <4>3
      <4>5. r.pc \in Early => \A v \in Objects : f \notin subs'[v]
        BY <3>1, <3>3, <4>2
      <4> QED
        BY <2>2, <3>1, <4>4, <4>5 DEF f
    <3> QED
      BY <1>b, <2>2, <3>1, <3>2, <3>3
  <2> QED
    BY <2>1, <2>2
<1>5. FillFits'
  <2> SUFFICES ASSUME NEW u \in Threads
               PROVE  /\ thread'[u].pc = "list" => subs'[thread'[u].folder] = {}
                      /\ thread'[u].pc = "fill" => thread'[u].list \cap subs'[thread'[u].folder] = {}
    BY DEF FillFits
  <2>1. CASE u = t
    BY <1>b, <2>1
  <2>2. CASE u # t /\ thread[u].pc \in {"list", "fill"}
    <3>1. thread[u].pc \in Opening /\ thread'[u] = thread[u]
      BY <1>b, <2>2 DEF Opening
    <3>2. thread[u].folder \in Objects
      BY <3>1, OpeningIsNew
    <3>3. thread[t].folder # thread[u].folder /\ thread[t].vfolder # thread[u].folder
      BY <1>c, <2>2, <3>1 DEF FreshIsPrivate
    <3>4. subs'[thread[u].folder] \subseteq subs[thread[u].folder]
      BY <1>a, <3>2, <3>3
    <3> QED
      BY <1>c, <3>1, <3>4 DEF FillFits
  <2>3. CASE u # t /\ thread[u].pc \notin {"list", "fill"}
    BY <1>b, <2>3
  <2> QED
    BY <2>1, <2>2, <2>3
<1> QED
  BY <1>1, <1>2, <1>3, <1>4, <1>5 DEF RefsInv

-----------------------------------------------------------------------------
(* What each step does to the local variables, references and tables: for  *)
(* each kind of step its effect, Does..., and the lemma that the actions   *)
(* of this kind have it.                                                   *)

\* The thread t continues with the local variables r.
Continues(t, r) == r \in Thread /\ thread' = [thread EXCEPT ![t] = r]

\* r is q at another place, with vfolder v.
SameBut(r, q, p, v) == /\ r.pc = p /\ r.vfolder = v /\ r.folder = q.folder /\ r.list = q.list
                       /\ r.name = q.name /\ r.new = q.new /\ r.ok = q.ok
                       /\ r.deleting = q.deleting

\* A reference to an object of the bag is taken, or none.
Takes(x) == IF x = NoObject THEN UNCHANGED refCount
            ELSE /\ x \in Objects /\ keyTable[x] # NoKey
                 /\ refCount' = [refCount EXCEPT ![x] = @ + 1]

TablesSame == UNCHANGED <<objectTable, keyTable, clashed>>

RestSame == UNCHANGED <<disk, subs, missed, strayed>>

\* An object leaves the bag and the histories with its last reference.
Drops(x) ==
    /\ x \in Objects /\ refCount[x] > 0 /\ refCount' = [refCount EXCEPT ![x] = @ - 1]
    /\ UNCHANGED clashed
    /\ \A y \in Objects : y # x => keyTable'[y] = keyTable[y]
    /\ keyTable'[x] \in {keyTable[x], NoKey}
    /\ \A k \in Keys : \/ objectTable'[k] = objectTable[k]
                       \/ objectTable'[k] = NoObject /\ refCount[x] = 1 /\ keyTable[x] = k
    /\ refCount[x] = 1 => \A k \in Keys : objectTable'[k] # x
    /\ refCount[x] # 1 => keyTable' = keyTable
    /\ \A u \in Threads : thread[u].pc \in Opening /\ thread[u].folder = x => refCount[x] > 1
    /\ missed' \subseteq missed /\ strayed' \subseteq strayed
    /\ \A y : y \in missed \ missed' \/ y \in strayed \ strayed' => y = x /\ refCount[x] = 1

\* A thread that changes its place, or its vfolder as well.
LEMMA GoFields ==
    ASSUME NEW t, thread[t] \in Thread, NEW p \in Places, NEW v \in Objects \cup {NoObject},
           \/ thread' = [thread EXCEPT ![t] = [thread[t] EXCEPT !.vfolder = v, !.pc = p]]
           \/ thread' = [thread EXCEPT ![t] = [thread[t] EXCEPT !.pc = p]] /\ v = thread[t].vfolder
    PROVE  \E r : Continues(t, r) /\ SameBut(r, thread[t], p, v)
<1>1. CASE thread' = [thread EXCEPT ![t] = [thread[t] EXCEPT !.vfolder = v, !.pc = p]]
  <2> DEFINE r == [thread[t] EXCEPT !.vfolder = v, !.pc = p]
  <2>1. r \in Thread /\ SameBut(r, thread[t], p, v)
    BY DEF Thread, SameBut
  <2>2. thread' = [thread EXCEPT ![t] = r]
    BY <1>1
  <2> HIDE DEF r
  <2> QED
    BY <2>1, <2>2 DEF Continues
<1>2. CASE thread' = [thread EXCEPT ![t] = [thread[t] EXCEPT !.pc = p]] /\ v = thread[t].vfolder
  <2> DEFINE r == [thread[t] EXCEPT !.pc = p]
  <2>1. r \in Thread /\ SameBut(r, thread[t], p, v)
    BY <1>2 DEF Thread, SameBut
  <2>2. thread' = [thread EXCEPT ![t] = r]
    BY <1>2
  <2> HIDE DEF r
  <2> QED
    BY <2>1, <2>2 DEF Continues
<1> QED
  BY <1>1, <1>2

\* A lookup in the bag.
LEMMA LookupTakes ==
    ASSUME StoreInv, NEW t \in Threads, NEW k \in Keys,
           \/ camel_object_bag_reserve(t, k) \/ reserve_woken(t, k)
           \/ camel_object_bag_get(t, k) \/ get_woken(t, k)
    PROVE  Takes(objectTable[k]) /\ TablesSame
<1>1. TablesSame
  BY DEF camel_object_bag_reserve, reserve_woken, camel_object_bag_get, get_woken,
     camel_object_bag_peek, Wait, ReserveNew, TakeOver, PassOn, bagVars, TablesSame
<1>2. CASE objectTable[k] = NoObject
  <2>1. UNCHANGED refCount
    BY <1>2 DEF camel_object_bag_reserve, reserve_woken, camel_object_bag_get, get_woken,
       camel_object_bag_peek, Wait, ReserveNew, TakeOver, PassOn, bagVars
  <2> QED
    BY <1>1, <1>2, <2>1 DEF Takes
<1>3. CASE objectTable[k] # NoObject
  <2>1. objectTable[k] \in Objects /\ keyTable[objectTable[k]] # NoKey
    BY <1>3, BagAssumption DEF StoreInv, BagInv, BagTypeOK, TablesAgree
  <2>2. refCount' = [refCount EXCEPT ![objectTable[k]] = @ + 1]
    BY <1>3 DEF camel_object_bag_reserve, reserve_woken, camel_object_bag_get, get_woken, AddRef,
       camel_object_bag_peek, Wait, ReserveNew, TakeOver, PassOn, Absent
  <2> QED
    BY <1>1, <1>3, <2>1, <2>2 DEF Takes
<1> QED
  BY <1>2, <1>3

\* camel_object_unref.
LEMMA UnrefDrops ==
    ASSUME StoreInv, NEW x \in Objects, Unref(x)
    PROVE  Drops(x)
<1>1. /\ camel_object_unref(x) /\ refCount[x] \in Nat
      /\ BagTypeOK /\ TablesAgree
      /\ objectTable \in [Keys -> Objects \cup {NoObject}]
      /\ keyTable \in [Objects -> Keys \cup {NoKey}]
  BY DEF Unref, StoreInv, BagInv, BagTypeOK
<1>2. /\ refCount[x] > 0 /\ refCount' = [refCount EXCEPT ![x] = @ - 1] /\ UNCHANGED clashed
      /\ \A u \in Threads : fresh[u] = x => refCount[x] > 1
      /\ IF refCount[x] = 1 THEN Unfile(x) ELSE UNCHANGED <<objectTable, keyTable>>
  BY <1>1 DEF camel_object_unref
<1>3. \A u \in Threads : thread[u].pc \in Opening /\ thread[u].folder = x => refCount[x] > 1
  BY <1>2, OpeningIsNew
<1>4. /\ missed' \subseteq missed /\ strayed' \subseteq strayed
      /\ \A y : y \in missed \ missed' \/ y \in strayed \ strayed' => y = x /\ refCount[x] = 1
  BY DEF Unref
<1>5. /\ \A y \in Objects : y # x => keyTable'[y] = keyTable[y]
      /\ keyTable'[x] \in {keyTable[x], NoKey}
      /\ \A k \in Keys : \/ objectTable'[k] = objectTable[k]
                         \/ objectTable'[k] = NoObject /\ refCount[x] = 1 /\ keyTable[x] = k
      /\ refCount[x] = 1 => \A k \in Keys : objectTable'[k] # x
      /\ refCount[x] # 1 => keyTable' = keyTable
  <2>1. CASE refCount[x] # 1
    BY <1>2, <2>1
  <2>2. CASE refCount[x] = 1
    <3>1. Unfile(x)
      BY <1>2, <2>2
    <3>2. CASE keyTable[x] = NoKey
      <4>1. objectTable' = objectTable /\ \A k \in Keys : objectTable[k] # x
        BY <1>1, <3>1, <3>2, BagAssumption DEF Unfile, TablesAgree
      <4> QED
        BY <1>1, <2>2, <3>1, <4>1 DEF Unfile
    <3>3. CASE keyTable[x] # NoKey
      <4>1. /\ objectTable' = [objectTable EXCEPT ![keyTable[x]] = NoObject] /\ keyTable[x] \in Keys
            /\ \A k \in Keys : objectTable[k] = x => k = keyTable[x]
        BY <1>1, <3>1, <3>3, BagAssumption DEF Unfile, TablesAgree
      <4>2. \A k \in Keys : objectTable'[k] # x
        BY <1>1, <4>1, BagAssumption
      <4> QED
        BY <1>1, <2>2, <3>1, <4>1, <4>2 DEF Unfile
    <3> QED
      BY <3>2, <3>3
  <2> QED
    BY <2>1, <2>2
<1> QED
  BY <1>2, <1>3, <1>4, <1>5 DEF Drops

\* delete_folder calls get_folder, or has called it.
ForDelete(q) == q.pc = "delMeta" \/ q.deleting

\* The bag has answered get_folder.
Answers(q, r) ==
    /\ ForDelete(q) => r.name = q.name
    /\ \/ r.folder = NoObject /\ r.pc \in {"reserving", "open"} /\ (r.deleting <=> ForDelete(q))
       \/ r.folder # NoObject /\ r.pc = "exclAbort" /\ (r.deleting <=> ForDelete(q))
       \/ r.folder # NoObject /\ r.pc = "keeps" /\ ~r.deleting /\ ~ForDelete(q)
       \/ r.folder # NoObject /\ r.pc = "delState" /\ ~r.deleting /\ ForDelete(q)

\* get_folder returns, with or without a folder.
Returns(q, r, with, without) ==
    /\ ~r.deleting
    /\ r.pc = IF q.deleting THEN with ELSE without
    /\ q.deleting => r.name = q.name

\* get_folder up to the provider.
DoesReserve(t, r) ==
    /\ Continues(t, r) /\ thread[t].pc \in {"idle", "delMeta", "reserving"}
    /\ r.vfolder = NoObject /\ r.list = {}
    /\ Answers(thread[t], r)
    /\ Takes(r.folder) /\ TablesSame /\ RestSame /\ UNCHANGED folderLock

\* The provider has opened a folder, or the trash is made.
DoesOpen(t, r) ==
    /\ Continues(t, r) /\ thread[t].pc = "open"
    /\ r.pc = IF thread[t].name = VTrash THEN "list" ELSE "trash"
    /\ r.folder \in Objects /\ refCount[r.folder] = 0 /\ subs[r.folder] = {}
    /\ r.vfolder = thread[t].vfolder /\ r.list = thread[t].list /\ r.name = thread[t].name
    /\ r.deleting = thread[t].deleting
    /\ refCount' = [refCount EXCEPT ![r.folder] = @ + 1]
    /\ disk' = IF thread[t].name = VTrash THEN disk ELSE disk \cup {thread[t].name}
    /\ TablesSame /\ UNCHANGED <<folderLock, subs, missed, strayed>>

\* get_folder fails, or returns a folder that it has found.
DoesReturn(t, r) ==
    /\ Continues(t, r)
    /\ \/ /\ thread[t].pc = "open" /\ r.pc = "abort" /\ r.folder = thread[t].folder
          /\ r.name = thread[t].name /\ r.deleting = thread[t].deleting
       \/ /\ thread[t].pc = "abort" /\ r.folder = NoObject
          /\ Returns(thread[t], r, "delGet", "idle")
       \/ /\ thread[t].pc = "exclAbort" /\ r.folder = thread[t].folder
          /\ Returns(thread[t], r, "delState", "keeps")
    /\ r.vfolder \in {NoObject, thread[t].vfolder} /\ r.list \in {{}, thread[t].list}
    /\ TablesSame /\ RestSame /\ UNCHANGED <<folderLock, refCount>>

\* camel_object_bag_add.
DoesAdd(t, r) ==
    /\ Continues(t, r) /\ thread[t].pc = "add"
    /\ Returns(thread[t], r, "delState", "keeps")
    /\ r.folder = thread[t].folder /\ r.vfolder = NoObject /\ r.list = {}
    /\ objectTable' = [objectTable EXCEPT ![thread[t].name] = thread[t].folder]
    /\ keyTable' = [keyTable EXCEPT ![thread[t].folder] = thread[t].name]
    /\ RestSame /\ UNCHANGED <<folderLock, refCount, clashed>>

\* The variables of a thread outside of calls.
LEMMA IdleFields ==
    /\ Idle \in Thread /\ ~Idle.deleting
    /\ Idle.pc = "idle" /\ Idle.folder = NoObject /\ Idle.vfolder = NoObject /\ Idle.list = {}
    /\ \A q \in Thread, f \in Objects :
          LET r == Returned(q, f) IN
          /\ r \in Thread /\ Returns(q, r, "delState", "keeps")
          /\ r.folder = f /\ r.vfolder = NoObject /\ r.list = {}
    /\ \A q \in Thread :
          LET r == Failed(q) IN
          /\ r \in Thread /\ Returns(q, r, "delGet", "idle")
          /\ r.folder = NoObject /\ r.vfolder = NoObject /\ r.list = {}
<1>1. Idle \in Thread
  BY IdleFits
<1>2. ASSUME NEW q \in Thread, NEW f \in Objects
      PROVE  LET r == Returned(q, f) IN
             /\ r \in Thread /\ Returns(q, r, "delState", "keeps")
             /\ r.folder = f /\ r.vfolder = NoObject /\ r.list = {}
  <2>1. Returned(q, f) \in Thread
    BY IdleFits
  <2> QED
    BY <2>1 DEF Idle, Returned, Returns, Thread
<1>3. ASSUME NEW q \in Thread
      PROVE  LET r == Failed(q) IN
             /\ r \in Thread /\ Returns(q, r, "delGet", "idle")
             /\ r.folder = NoObject /\ r.vfolder = NoObject /\ r.list = {}
  <2>1. Failed(q) \in Thread
    BY IdleFits
  <2> QED
    BY <2>1 DEF Idle, Failed, Returns, Thread
<1> QED
  BY <1>1, <1>2, <1>3 DEF Idle

LEMMA ReserveEffect ==
    ASSUME StoreInv, RefsInv, NEW t \in Threads,
           \/ \E k \in Keys, create, excl \in BOOLEAN : get_folder(t, k, create, excl)
           \/ delete_folder_state(t)
           \/ get_folder_reserved(t)
    PROVE  \E r : DoesReserve(t, r)
<1>a. thread[t] \in Thread /\ objectTable \in [Keys -> Objects \cup {NoObject}]
  BY ThreadFacts
<1>1. ASSUME NEW k \in Keys, NEW q \in Thread, NEW wait,
             q.name = k, q.folder = NoObject, q.vfolder = NoObject, q.list = {},
             Reserved(t, q, wait), wait \in {"reserving", "open"},
             q.deleting <=> ForDelete(thread[t]), ForDelete(thread[t]) => k = thread[t].name,
             camel_object_bag_reserve(t, k) \/ reserve_woken(t, k)
      PROVE  \E r : /\ Continues(t, r) /\ r.vfolder = NoObject /\ r.list = {}
                    /\ Answers(thread[t], r)
                    /\ Takes(r.folder) /\ TablesSame
  <2> DEFINE f == objectTable[k]
  <2>1. Takes(f) /\ TablesSame /\ f \in Objects \cup {NoObject}
    BY <1>a, <1>1, LookupTakes
  <2>2. CASE f # NoObject
    <3> DEFINE e == [q EXCEPT !.folder = f, !.pc = "exclAbort"]
    <3>1. thread' = [thread EXCEPT ![t] = e] \/ thread' = [thread EXCEPT ![t] = Returned(q, f)]
      BY <1>1, <2>2 DEF Reserved, Become
    <3> HIDE DEF f
    <3>2. /\ e \in Thread /\ e.pc = "exclAbort" /\ e.folder = f /\ e.vfolder = NoObject /\ e.list = {}
          /\ e.name = k /\ e.deleting = q.deleting
      BY <1>1, <2>1 DEF Thread, Places
    <3> HIDE DEF e
    <3>3. CASE thread' = [thread EXCEPT ![t] = e]
      <4>1. Answers(thread[t], e)
        BY <1>1, <2>2, <3>2 DEF Answers
      <4> QED
        BY <2>1, <2>2, <3>2, <3>3, <4>1 DEF Continues
    <3>4. CASE thread' = [thread EXCEPT ![t] = Returned(q, f)]
      <4> DEFINE r == Returned(q, f)
      <4>1. /\ r \in Thread /\ Returns(q, r, "delState", "keeps") /\ r.folder = f
            /\ r.vfolder = NoObject /\ r.list = {}
        BY <1>1, <2>1, <2>2, IdleFields
      <4> HIDE DEF r
      <4>2. Answers(thread[t], r)
        BY <1>1, <2>2, <4>1 DEF Answers, Returns
      <4>3. thread' = [thread EXCEPT ![t] = r]
        BY <3>4 DEF r
      <4> QED
        BY <2>1, <2>2, <4>1, <4>2, <4>3 DEF Continues
    <3> QED
      BY <3>1, <3>3, <3>4
  <2>3. CASE f = NoObject
    <3> DEFINE p == After(k, "open", "open", wait)
               e == [q EXCEPT !.pc = p]
    <3>1. thread' = [thread EXCEPT ![t] = e]
      BY <1>1, <2>3 DEF Reserved, Become
    <3>2. p \in {"reserving", "open"}
      BY <1>1 DEF After
    <3> HIDE DEF p, f
    <3>3. /\ e \in Thread /\ e.pc = p /\ e.folder = NoObject /\ e.vfolder = NoObject /\ e.list = {}
          /\ e.name = k /\ e.deleting = q.deleting
      BY <1>1, <3>2 DEF Thread, Places
    <3> HIDE DEF e
    <3>4. Answers(thread[t], e)
      BY <1>1, <3>2, <3>3 DEF Answers
    <3> QED
      BY <2>1, <2>3, <3>1, <3>3, <3>4 DEF Continues
  <2> QED
    BY <2>2, <2>3
<1>2. ASSUME NEW k \in Keys, NEW create \in BOOLEAN, NEW excl \in BOOLEAN,
             get_folder(t, k, create, excl)
      PROVE  \E r : DoesReserve(t, r)
  <2> DEFINE b == excl /\ create
             q == [Idle EXCEPT !.name = k, !.create = create, !.excl = b]
  <2>1. b \in BOOLEAN
    OBVIOUS
  <2>2. Reserved(t, q, "reserving") /\ camel_object_bag_reserve(t, k)
    BY <1>2 DEF get_folder
  <2> HIDE DEF b
  <2>3. /\ q \in Thread /\ q.name = k /\ q.folder = NoObject /\ q.vfolder = NoObject /\ q.list = {}
        /\ ~q.deleting
    BY <1>2, <2>1, IdleFields DEF Thread
  <2> HIDE DEF q
  <2>4. thread[t].pc = "idle" /\ RestSame /\ UNCHANGED folderLock
    BY <1>2 DEF get_folder, Call, At, RestSame
  <2>5. ~ForDelete(thread[t])
    BY <2>4 DEF RefsInv, RecordsFit, RecordFits, Getting, Opening, OpeningFolder, ForDelete
  <2> QED
    BY <1>1, <2>2, <2>3, <2>4, <2>5 DEF DoesReserve
<1>3. ASSUME get_folder_reserved(t)
      PROVE  \E r : DoesReserve(t, r)
  <2>1. thread[t].pc = "reserving" /\ RestSame /\ UNCHANGED folderLock
        /\ Reserved(t, thread[t], "open") /\ reserve_woken(t, thread[t].name)
    BY <1>3 DEF get_folder_reserved, At, RestSame
  <2>2. thread[t].name \in Keys /\ thread[t].folder = NoObject /\ thread[t].vfolder = NoObject /\ thread[t].list = {}
    BY <1>a, <2>1 DEF Thread, RefsInv, RecordsFit, RecordFits, HasFolder, Opening, OpeningFolder, Moving, HasVFolder
  <2>3. thread[t].deleting <=> ForDelete(thread[t])
    BY <2>1 DEF ForDelete
  <2> QED
    BY <1>a, <1>1, <2>1, <2>2, <2>3 DEF DoesReserve
<1>4. ASSUME delete_folder_state(t)
      PROVE  \E r : DoesReserve(t, r)
  <2> DEFINE q == [thread[t] EXCEPT !.deleting = TRUE]
  <2>1. thread[t].pc = "delMeta" /\ RestSame /\ UNCHANGED folderLock
        /\ Reserved(t, q, "reserving") /\ camel_object_bag_reserve(t, thread[t].name)
    BY <1>4 DEF delete_folder_state, At, RestSame
  <2>2. thread[t].name \in Keys /\ thread[t].folder = NoObject /\ thread[t].vfolder = NoObject /\ thread[t].list = {}
    BY <1>a, <2>1 DEF Thread, RefsInv, RecordsFit, RecordFits, HasFolder, Opening, OpeningFolder, Moving, HasVFolder
  <2>3. /\ q \in Thread /\ q.name = thread[t].name /\ q.folder = NoObject /\ q.vfolder = NoObject
        /\ q.list = {} /\ q.deleting
    BY <1>a, <2>2 DEF Thread
  <2> HIDE DEF q
  <2>4. ForDelete(thread[t])
    BY <2>1 DEF ForDelete
  <2> QED
    BY <1>1, <2>1, <2>2, <2>3, <2>4 DEF DoesReserve
<1> QED
  BY <1>2, <1>3, <1>4

LEMMA OpenEffect ==
    ASSUME StoreInv, NEW t \in Threads, get_folder_open(t) \/ get_special_new(t)
    PROVE  \E r : DoesOpen(t, r)
<1>a. thread[t] \in Thread
  BY ThreadFacts
<1>1. PICK p \in {"trash", "list"} : NewFolder(t, p) /\ p = IF thread[t].name = VTrash THEN "list" ELSE "trash"
  BY DEF get_folder_open, get_special_new
<1>2. PICK o \in Unused : /\ camel_object_new(t, o)
                          /\ Become(t, [thread[t] EXCEPT !.folder = o, !.pc = p])
  <2>1. (CHOOSE u \in Unused : TRUE) \in Unused
    BY <1>1 DEF NewFolder
  <2> QED
    BY <1>1, <2>1 DEF NewFolder
<1>3. o \in Objects /\ refCount[o] = 0 /\ subs[o] = {}
  BY DEF Unused
<1> DEFINE r == [thread[t] EXCEPT !.folder = o, !.pc = p]
<1>4. /\ r \in Thread /\ r.pc = p /\ r.folder = o /\ r.name = thread[t].name
      /\ r.vfolder = thread[t].vfolder /\ r.list = thread[t].list /\ r.deleting = thread[t].deleting
  BY <1>a, <1>1, <1>3 DEF Thread, Places
<1>5. thread' = [thread EXCEPT ![t] = r]
  BY <1>2 DEF Become
<1> HIDE DEF r
<1>6. refCount' = [refCount EXCEPT ![o] = @ + 1] /\ TablesSame
  BY <1>2 DEF camel_object_new, AddRef, TablesSame
<1>7. /\ thread[t].pc = "open" /\ UNCHANGED <<folderLock, subs, missed, strayed>>
      /\ disk' = IF thread[t].name = VTrash THEN disk ELSE disk \cup {thread[t].name}
  BY <1>1 DEF get_folder_open, get_special_new, NewFolder, At
<1> QED
  BY <1>1, <1>3, <1>4, <1>5, <1>6, <1>7 DEF DoesOpen, Continues

LEMMA ReturnEffect ==
    ASSUME StoreInv, NEW t \in Threads,
           get_folder_fail(t) \/ get_folder_abort(t) \/ get_folder_excl(t)
    PROVE  \E r : DoesReturn(t, r)
<1>a. thread[t] \in Thread /\ Fits(thread[t], creating[t], fresh[t])
  BY ThreadFacts
<1>1. RestSame /\ UNCHANGED folderLock /\ TablesSame /\ UNCHANGED refCount
  BY DEF get_folder_fail, get_folder_abort, get_folder_excl, camel_object_bag_abort, bagVars,
     RestSame, TablesSame
<1>2. CASE get_folder_fail(t)
  <2>1. thread' = [thread EXCEPT ![t] = [thread[t] EXCEPT !.pc = "abort"]] /\ thread[t].pc = "open"
        /\ "abort" \in Places /\ thread[t].vfolder \in Objects \cup {NoObject}
    BY <1>a, <1>2 DEF get_folder_fail, Go, Become, At, Places, Thread
  <2>2. PICK r : Continues(t, r) /\ SameBut(r, thread[t], "abort", thread[t].vfolder)
    BY <1>a, <2>1, GoFields
  <2> QED
    BY <1>1, <2>1, <2>2 DEF DoesReturn, SameBut
<1>3. CASE get_folder_abort(t)
  <2>1. thread' = [thread EXCEPT ![t] = Failed(thread[t])] /\ thread[t].pc = "abort"
    BY <1>3 DEF get_folder_abort, Become, At
  <2> QED
    BY <1>a, <1>1, <2>1, IdleFields DEF DoesReturn, Continues
<1>4. CASE get_folder_excl(t)
  <2>1. thread[t].folder \in Objects
    BY <1>a, <1>4 DEF get_folder_excl, At, Fits, HasFolder, Thread
  <2>2. /\ thread' = [thread EXCEPT ![t] = Returned(thread[t], thread[t].folder)]
        /\ thread[t].pc = "exclAbort"
    BY <1>4 DEF get_folder_excl, Become, At
  <2> QED
    BY <1>a, <1>1, <2>1, <2>2, IdleFields DEF DoesReturn, Continues
<1> QED
  BY <1>2, <1>3, <1>4

LEMMA AddEffect ==
    ASSUME StoreInv, NEW t \in Threads, get_folder_add(t)
    PROVE  \E r : DoesAdd(t, r)
<1>a. thread[t] \in Thread /\ Fits(thread[t], creating[t], fresh[t]) /\ BagInv
  BY ThreadFacts DEF StoreInv
<1>1. /\ thread[t].pc = "add" /\ thread[t].folder \in Objects /\ thread[t].folder # NoObject
      /\ fresh[t] = thread[t].folder /\ thread[t].name \in creating[t] /\ thread[t].name \in Keys
  BY <1>a DEF get_folder_add, At, Fits, HasFolder, Opening, Thread
<1>2. camel_object_bag_add(t, thread[t].name, fresh[t])
  BY <1>1 DEF get_folder_add
<1>3. /\ objectTable' = [objectTable EXCEPT ![thread[t].name] = thread[t].folder]
      /\ keyTable' = [keyTable EXCEPT ![thread[t].folder] = thread[t].name]
  BY <1>a, <1>1, <1>2, AddFiles
<1>4. UNCHANGED <<refCount, clashed>> /\ RestSame /\ UNCHANGED folderLock
  BY <1>2 DEF camel_object_bag_add, get_folder_add, RestSame
<1>5. thread' = [thread EXCEPT ![t] = Returned(thread[t], thread[t].folder)]
  BY DEF get_folder_add, Become
<1> QED
  BY <1>a, <1>1, <1>3, <1>4, <1>5, IdleFields DEF DoesAdd, Continues

\* camel_object_bag_get of the trash: it is found, waited for, or absent with
\* nobody who makes it.
DoesGetTrash(t, r) ==
    LET v == objectTable[VTrash] IN
    /\ Continues(t, r) /\ SameBut(r, thread[t], r.pc, v)
    /\ \/ /\ thread[t].pc \in {"trash", "trashWait"}
          /\ r.pc \in IF v = NoObject THEN {"add", "trashWait"} ELSE {"addSub"}
       \/ /\ thread[t].pc \in {"delTrash", "delTrashWait"}
          /\ r.pc \in IF v = NoObject THEN {"delMark", "delTrashWait"} ELSE {"delSub"}
    /\ r.pc = "add" => \A u \in Threads : VTrash \notin creating[u]
    /\ Takes(v) /\ TablesSame /\ RestSame /\ UNCHANGED folderLock

\* The virtual folder, or the folder of the provider, is let go.
DoesUnrefVFolder(t, r) ==
    /\ Continues(t, r) /\ SameBut(r, thread[t], r.pc, NoObject)
    /\ \/ thread[t].pc = "unrefTrash" /\ r.pc = "add"
       \/ thread[t].pc = "delUnrefTrash" /\ r.pc = "delMark"
       \/ /\ thread[t].pc = "renUnref"
          /\ r.pc = IF thread[t].ok /\ thread[t].folder # NoObject THEN "rekey" ELSE "unlock"
    /\ Drops(thread[t].vfolder) /\ UNCHANGED <<folderLock, disk, subs>>

\* camel_vee_folder_add_folder.
DoesAddSub(t, r) ==
    /\ Continues(t, r) /\ SameBut(r, thread[t], "unrefTrash", thread[t].vfolder)
    /\ thread[t].pc = "addSub"
    /\ refCount' = [refCount EXCEPT ![thread[t].folder] = @ + 1]
    /\ subs' = [subs EXCEPT ![thread[t].vfolder] = @ \cup {thread[t].folder}]
    /\ TablesSame /\ UNCHANGED <<folderLock, disk, missed, strayed>>

\* camel_object_bag_list.
DoesList(t, r) ==
    /\ Continues(t, r) /\ thread[t].pc = "list"
    /\ r.pc = "fill" /\ r.list = Filed /\ r.folder = thread[t].folder /\ r.vfolder = thread[t].vfolder
    /\ r.name = thread[t].name /\ r.deleting = thread[t].deleting
    /\ refCount' = [o \in Objects |-> IF o \in Filed THEN refCount[o] + 1 ELSE refCount[o]]
    /\ missed' = missed \cup {thread[u].folder : u \in {w \in Threads : thread[w].pc = "add"}}
    /\ TablesSame /\ UNCHANGED <<folderLock, disk, subs, strayed>>

\* A folder of the list is put into the trash, or the list is empty.
DoesFill(t, r) ==
    /\ Continues(t, r) /\ thread[t].pc = "fill"
    /\ r.folder = thread[t].folder /\ r.vfolder = thread[t].vfolder /\ r.name = thread[t].name
    /\ r.deleting = thread[t].deleting
    /\ \/ thread[t].list = {} /\ r.list = {} /\ r.pc = "add" /\ subs' = subs
       \/ \E f \in thread[t].list : /\ r.list = thread[t].list \ {f} /\ r.pc = "fill"
                                    /\ subs' = [subs EXCEPT ![thread[t].folder] = @ \cup {f}]
    /\ TablesSame /\ UNCHANGED <<folderLock, disk, missed, strayed, refCount>>

\* A folder is let go: by a caller, by delete_folder that has its state file,
\* or at the end.
DoesRelease(t, r) ==
    /\ Continues(t, r) /\ r.folder = NoObject /\ r.vfolder = NoObject /\ r.list = {} /\ ~r.deleting
    /\ \/ thread[t].pc = "keeps" /\ r.pc = "idle" /\ UNCHANGED folderLock
       \/ thread[t].pc = "delState" /\ r.pc = "delGet" /\ r.name = thread[t].name /\ UNCHANGED folderLock
       \/ thread[t].pc = "unlock" /\ r.pc = "idle" /\ folderLock' = NoThread
    /\ \/ Drops(thread[t].folder)
       \/ thread[t].folder = NoObject /\ TablesSame /\ UNCHANGED <<refCount, missed, strayed>>
    /\ UNCHANGED <<disk, subs>>

LEMMA GetTrashEffect ==
    ASSUME StoreInv, NEW t \in Threads,
           \/ get_folder_trash(t) \/ get_folder_trash_woken(t)
           \/ delete_folder_trash(t) \/ delete_folder_trash_woken(t)
    PROVE  \E r : DoesGetTrash(t, r)
<1>a. /\ thread[t] \in Thread /\ objectTable \in [Keys -> Objects \cup {NoObject}]
      /\ BagTypeOK /\ CreatorOwns /\ SomeoneWillUnreserve
  BY ThreadFacts DEF StoreInv, BagInv
<1>b. VTrash \in Keys /\ objectTable[VTrash] \in Objects \cup {NoObject}
  BY <1>a, StoreAssumption
<1>1. /\ camel_object_bag_get(t, VTrash) \/ get_woken(t, VTrash)
      /\ RestSame /\ UNCHANGED folderLock
  BY DEF get_folder_trash, get_folder_trash_woken, delete_folder_trash,
     delete_folder_trash_woken, GetTrash, GetTrashWoken, RestSame
<1>2. Takes(objectTable[VTrash]) /\ TablesSame
  BY <1>1, <1>b, LookupTakes
<1>3. PICK p :
         /\ thread' = [thread EXCEPT ![t] = [thread[t] EXCEPT !.vfolder = objectTable[VTrash], !.pc = p]]
         /\ \/ /\ thread[t].pc \in {"trash", "trashWait"}
               /\ p \in IF objectTable[VTrash] = NoObject THEN {"add", "trashWait"} ELSE {"addSub"}
            \/ /\ thread[t].pc \in {"delTrash", "delTrashWait"}
               /\ p \in IF objectTable[VTrash] = NoObject THEN {"delMark", "delTrashWait"} ELSE {"delSub"}
         /\ p = "add" => get_woken(t, VTrash) \/ ~reserved[VTrash].there
  <2>1. CASE get_folder_trash(t)
    <3> DEFINE p == After(VTrash, "addSub", "add", "trashWait")
    <3>1. /\ thread' = [thread EXCEPT ![t] = [thread[t] EXCEPT !.vfolder = objectTable[VTrash], !.pc = p]]
          /\ thread[t].pc = "trash"
      BY <2>1 DEF get_folder_trash, GetTrash, At, Become
    <3>2. /\ p \in IF objectTable[VTrash] = NoObject THEN {"add", "trashWait"} ELSE {"addSub"}
          /\ p = "add" => ~reserved[VTrash].there
      BY DEF After
    <3> HIDE DEF p
    <3> QED
      BY <3>1, <3>2
  <2>2. CASE get_folder_trash_woken(t)
    BY <2>2 DEF get_folder_trash_woken, GetTrashWoken, After, At, Become
  <2>3. CASE delete_folder_trash(t)
    <3> DEFINE p == After(VTrash, "delSub", "delMark", "delTrashWait")
    <3>1. /\ thread' = [thread EXCEPT ![t] = [thread[t] EXCEPT !.vfolder = objectTable[VTrash], !.pc = p]]
          /\ thread[t].pc = "delTrash"
      BY <2>3 DEF delete_folder_trash, GetTrash, At, Become
    <3>2. /\ p \in IF objectTable[VTrash] = NoObject THEN {"delMark", "delTrashWait"} ELSE {"delSub"}
          /\ p = "add" => ~reserved[VTrash].there
      BY DEF After
    <3> HIDE DEF p
    <3> QED
      BY <3>1, <3>2
  <2>4. CASE delete_folder_trash_woken(t)
    BY <2>4 DEF delete_folder_trash_woken, GetTrashWoken, After, At, Become
  <2> QED
    BY <2>1, <2>2, <2>3, <2>4
<1>4. p \in Places
  BY <1>3 DEF Places
<1>5. PICK r : Continues(t, r) /\ SameBut(r, thread[t], p, objectTable[VTrash])
  BY <1>a, <1>b, <1>3, <1>4, GoFields
<1>6. p = "add" => \A u \in Threads : VTrash \notin creating[u]
  <2>1. CASE get_woken(t, VTrash)
    <3>1. t \in reserved[VTrash].woken
      BY <2>1 DEF get_woken, Woken
    <3> QED
      BY <1>a, <1>b, <3>1, WokenOwns
  <2>2. CASE ~reserved[VTrash].there
    BY <1>a, <2>2 DEF CreatorOwns
  <2> QED
    BY <1>3, <2>1, <2>2
<1>7. r.pc = p
  BY <1>5 DEF SameBut
<1> QED
  BY <1>1, <1>2, <1>3, <1>5, <1>6, <1>7 DEF DoesGetTrash

LEMMA UnrefVFolderEffect ==
    ASSUME StoreInv, NEW t \in Threads,
           \/ get_folder_unref_trash(t)
           \/ delete_folder_unref_trash(t)
           \/ rename_folder_unref(t)
    PROVE  \E r : DoesUnrefVFolder(t, r)
<1>a. thread[t] \in Thread /\ Fits(thread[t], creating[t], fresh[t])
  BY ThreadFacts
<1>1. PICK p \in {"add", "delMark", "rekey", "unlock"} :
         /\ UnrefVFolder(t, p)
         /\ \/ thread[t].pc = "unrefTrash" /\ p = "add"
            \/ thread[t].pc = "delUnrefTrash" /\ p = "delMark"
            \/ /\ thread[t].pc = "renUnref"
               /\ p = IF thread[t].ok /\ thread[t].folder # NoObject THEN "rekey" ELSE "unlock"
  BY DEF get_folder_unref_trash, delete_folder_unref_trash, rename_folder_unref, At, Renamed
<1>2. thread[t].vfolder \in Objects
  BY <1>a, <1>1 DEF Fits, HasVFolder, InRename, Thread
<1>3. Drops(thread[t].vfolder) /\ UNCHANGED <<folderLock, disk, subs>>
  BY <1>1, <1>2, UnrefDrops DEF UnrefVFolder
<1>4. thread' = [thread EXCEPT ![t] = [thread[t] EXCEPT !.vfolder = NoObject, !.pc = p]] /\ p \in Places
  BY <1>1 DEF UnrefVFolder, Become, Places
<1>5. PICK r : Continues(t, r) /\ SameBut(r, thread[t], p, NoObject)
  BY <1>a, <1>4, GoFields
<1>6. r.pc = p
  BY <1>5 DEF SameBut
<1> QED
  BY <1>1, <1>3, <1>5, <1>6 DEF DoesUnrefVFolder

LEMMA AddSubEffect ==
    ASSUME StoreInv, NEW t \in Threads, get_folder_add_sub(t)
    PROVE  \E r : DoesAddSub(t, r)
<1>a. thread[t] \in Thread /\ thread[t].vfolder \in Objects \cup {NoObject}
  BY ThreadFacts DEF Thread
<1>1. thread' = [thread EXCEPT ![t] = [thread[t] EXCEPT !.pc = "unrefTrash"]] /\ "unrefTrash" \in Places
  BY DEF get_folder_add_sub, Go, Become, Places
<1>2. PICK r : Continues(t, r) /\ SameBut(r, thread[t], "unrefTrash", thread[t].vfolder)
  BY <1>a, <1>1, GoFields
<1> QED
  BY <1>2 DEF DoesAddSub, get_folder_add_sub, At, camel_object_ref, AddRef, TablesSame

LEMMA ListEffect ==
    ASSUME StoreInv, NEW t \in Threads, get_special_list(t)
    PROVE  \E r : DoesList(t, r)
<1>a. thread[t] \in Thread /\ objectTable \in [Keys -> Objects \cup {NoObject}]
  BY ThreadFacts
<1> DEFINE r == [thread[t] EXCEPT !.list = Filed, !.pc = "fill"]
<1>1. Filed \in SUBSET Objects
  BY <1>a DEF Filed
<1>2. /\ r \in Thread /\ r.pc = "fill" /\ r.name = thread[t].name /\ r.list = Filed
      /\ r.folder = thread[t].folder /\ r.vfolder = thread[t].vfolder
      /\ r.deleting = thread[t].deleting
  BY <1>a, <1>1 DEF Thread, Places
<1>3. thread' = [thread EXCEPT ![t] = r] /\ thread[t].pc = "list"
  BY DEF get_special_list, Become, At
<1> HIDE DEF r
<1>4. /\ refCount' = [o \in Objects |-> IF o \in Filed THEN refCount[o] + 1 ELSE refCount[o]]
      /\ TablesSame
  BY DEF get_special_list, camel_object_bag_list, TablesSame
<1>5. /\ missed' = missed \cup {thread[u].folder : u \in {w \in Threads : thread[w].pc = "add"}}
      /\ UNCHANGED <<folderLock, disk, subs, strayed>>
  BY DEF get_special_list
<1> QED
  BY <1>2, <1>3, <1>4, <1>5 DEF DoesList, Continues

LEMMA FillEffect ==
    ASSUME StoreInv, NEW t \in Threads, get_special_fill(t)
    PROVE  \E r : DoesFill(t, r)
<1>a. thread[t] \in Thread /\ thread[t].vfolder \in Objects \cup {NoObject}
  BY ThreadFacts DEF Thread
<1>b. /\ thread[t].pc = "fill" /\ TablesSame /\ UNCHANGED <<folderLock, disk, missed, strayed, refCount>>
  BY DEF get_special_fill, At, bagVars, TablesSame
<1>1. CASE thread[t].list = {} /\ Go(t, "add") /\ UNCHANGED subs
  <2>1. thread' = [thread EXCEPT ![t] = [thread[t] EXCEPT !.pc = "add"]] /\ "add" \in Places
    BY <1>1 DEF Go, Become, Places
  <2>2. PICK r : Continues(t, r) /\ SameBut(r, thread[t], "add", thread[t].vfolder)
    BY <1>a, <2>1, GoFields
  <2> QED
    BY <1>b, <1>1, <2>2 DEF DoesFill, SameBut
<1>2. CASE \E f \in thread[t].list :
              /\ subs' = [subs EXCEPT ![thread[t].folder] = @ \cup {f}]
              /\ Become(t, [thread[t] EXCEPT !.list = @ \ {f}])
  <2>1. PICK f \in thread[t].list :
              /\ subs' = [subs EXCEPT ![thread[t].folder] = @ \cup {f}]
              /\ Become(t, [thread[t] EXCEPT !.list = @ \ {f}])
    BY <1>2
  <2> DEFINE r == [thread[t] EXCEPT !.list = @ \ {f}]
  <2>2. /\ r \in Thread /\ r.pc = "fill" /\ r.name = thread[t].name /\ r.list = thread[t].list \ {f}
        /\ r.folder = thread[t].folder /\ r.vfolder = thread[t].vfolder
        /\ r.deleting = thread[t].deleting
    BY <1>a, <1>b DEF Thread
  <2>3. thread' = [thread EXCEPT ![t] = r]
    BY <2>1 DEF Become
  <2> HIDE DEF r
  <2> QED
    BY <1>b, <2>1, <2>2, <2>3 DEF DoesFill, Continues
<1> QED
  BY <1>1, <1>2 DEF get_special_fill

LEMMA ReleaseEffect ==
    ASSUME StoreInv, NEW t \in Threads, release_folder(t) \/ unlock_folders(t)
    PROVE  \E r : DoesRelease(t, r)
<1>a. thread[t] \in Thread /\ Fits(thread[t], creating[t], fresh[t])
  BY ThreadFacts
<1>b. thread[t].folder \in Objects \cup {NoObject}
  BY <1>a DEF Thread
<1>1. \/ thread[t].pc = "keeps" /\ UNCHANGED folderLock
      \/ thread[t].pc = "unlock" /\ folderLock' = NoThread
  BY DEF release_folder, unlock_folders, At
<1>2. \/ Drops(thread[t].folder)
      \/ thread[t].folder = NoObject /\ TablesSame /\ UNCHANGED <<refCount, missed, strayed>>
  <2>1. CASE thread[t].folder \in Objects
    <3>1. Unref(thread[t].folder)
      BY <2>1, BagAssumption DEF release_folder, unlock_folders
    <3> QED
      BY <2>1, <3>1, UnrefDrops
  <2>2. CASE thread[t].folder = NoObject
    <3>1. Untouched
      BY <1>a, <2>2 DEF release_folder, unlock_folders, At, Fits, HasFolder
    <3> QED
      BY <2>2, <3>1 DEF Untouched, bagVars, TablesSame
  <2> QED
    BY <1>b, <2>1, <2>2
<1>3. thread' = [thread EXCEPT ![t] = Idle] /\ UNCHANGED <<disk, subs>>
  BY DEF release_folder, unlock_folders, Become
<1> QED
  BY <1>1, <1>2, <1>3, IdleFields DEF DoesRelease, Continues

LEMMA StateEffect ==
    ASSUME StoreInv, RefsInv, NEW t \in Threads, delete_folder_state_unref(t)
    PROVE  \E r : DoesRelease(t, r)
<1>a. thread[t] \in Thread /\ Fits(thread[t], creating[t], fresh[t])
  BY ThreadFacts
<1>1. thread[t].pc = "delState" /\ UNCHANGED folderLock /\ UNCHANGED <<disk, subs>>
  BY DEF delete_folder_state_unref, At
<1>2. thread[t].folder \in Objects
  BY <1>a, <1>1 DEF Fits, HasFolder, Thread
<1>3. Drops(thread[t].folder)
  BY <1>2, UnrefDrops DEF delete_folder_state_unref
<1>4. /\ thread[t].vfolder = NoObject /\ thread[t].list = {} /\ ~thread[t].deleting
  BY <1>1 DEF RefsInv, RecordsFit, RecordFits, HasVFolder, Getting, Opening, OpeningFolder
<1> DEFINE r == [thread[t] EXCEPT !.pc = "delGet", !.folder = NoObject]
<1>5. thread' = [thread EXCEPT ![t] = r]
  BY DEF delete_folder_state_unref, Become
<1>6. /\ r \in Thread /\ r.pc = "delGet" /\ r.folder = NoObject /\ r.vfolder = NoObject /\ r.list = {}
      /\ r.name = thread[t].name /\ ~r.deleting
  BY <1>a, <1>4 DEF Thread, Places
<1> HIDE DEF r
<1> QED
  BY <1>1, <1>3, <1>5, <1>6 DEF DoesRelease, Continues

\* delete_folder or rename_folder is called, or the provider deletes nothing.
DoesCall(t, r) ==
    /\ Continues(t, r) /\ thread[t].pc \in {"idle", "delLock"} /\ r.pc \in {"idle", "delLock", "renLock"}
    /\ r.folder = NoObject /\ r.vfolder = NoObject /\ r.list = {} /\ ~r.deleting
    /\ r.pc # "idle" => r.name # VTrash
    /\ TablesSame /\ RestSame /\ UNCHANGED <<folderLock, refCount>>

\* The provider fails with the directory gone.
DoesFail(t, r) ==
    LET k == thread[t].name IN
    /\ Continues(t, r) /\ thread[t].pc \in {"delMeta", "delGet"} /\ r.pc = "idle"
    /\ r.folder = NoObject /\ r.vfolder = NoObject /\ r.list = {} /\ ~r.deleting
    /\ folderLock' = NoThread
    /\ strayed' = IF k \in disk THEN strayed ELSE strayed \cup (OpenAs(k) \ {NoObject})
    /\ TablesSame /\ UNCHANGED <<refCount, disk, subs, missed>>

\* delete_folder begins: the provider has removed the directory.
DoesBeginDelete(t, r) ==
    /\ Continues(t, r) /\ thread[t].pc = "delLock" /\ folderLock = NoThread /\ folderLock' = t
    /\ r.pc = "delMeta" /\ r.folder = NoObject /\ r.vfolder = NoObject /\ r.list = {} /\ ~r.deleting
    /\ r.name \in Names /\ disk' = disk \ {r.name}
    /\ TablesSame /\ UNCHANGED <<refCount, subs, missed, strayed>>

\* rename_folder begins with the folder of the old name.
DoesBeginRename(t, r) ==
    /\ Continues(t, r) /\ thread[t].pc = "renLock" /\ folderLock = NoThread /\ folderLock' = t
    /\ r.pc = "renGet" /\ r.vfolder = NoObject /\ r.list = {} /\ ~r.deleting
    /\ r.name \in Names /\ r.new \in Names /\ r.folder = objectTable[r.name]
    /\ Takes(r.folder) /\ TablesSame /\ RestSame

\* delete_folder finds the folder, waits for it, or ends if there is none and
\* nobody opens it.
DoesDeleteGet(t, r) ==
    LET k == thread[t].name
        f == objectTable[k] IN
    /\ Continues(t, r) /\ thread[t].pc \in {"delGet", "delWait"}
    /\ r.vfolder = thread[t].vfolder \/ r.vfolder = NoObject
    /\ r.list = thread[t].list \/ r.list = {}
    /\ r.deleting = thread[t].deleting \/ ~r.deleting
    /\ \/ f # NoObject /\ r.pc = "delTrash" /\ r.folder = f /\ r.name = k /\ UNCHANGED folderLock
       \/ f = NoObject /\ r.pc = "delWait" /\ r.folder = f /\ r.name = k /\ UNCHANGED folderLock
       \/ /\ f = NoObject /\ r.pc = "idle" /\ r.folder = f /\ folderLock' = NoThread
          /\ \A u \in Threads : k \notin creating[u]
    /\ Takes(f) /\ TablesSame /\ RestSame

\* The provider's rename_folder looks the folder up.
DoesRenameGet(t, r) ==
    LET f == objectTable[thread[t].name] IN
    /\ Continues(t, r) /\ SameBut(r, thread[t], r.pc, f)
    /\ thread[t].pc \in {"renGet", "renWait"}
    /\ r.pc \in IF f = NoObject THEN {"renMove", "renWait"} ELSE {"renMove"}
    /\ Takes(f) /\ TablesSame /\ RestSame /\ UNCHANGED folderLock

LEMMA CallEffect ==
    ASSUME StoreInv, NEW t \in Threads,
           \/ \E k \in Names : delete_folder(t, k)
           \/ \E old \in Names : \E new \in Names : rename_folder(t, old, new)
    PROVE  \E r : DoesCall(t, r)
<1>1. ASSUME NEW k \in Names, delete_folder(t, k)
      PROVE  \E r : DoesCall(t, r)
  <2> DEFINE r == [Idle EXCEPT !.pc = "delLock", !.name = k]
  <2>1. k \in Keys /\ k # VTrash
    BY DEF Names
  <2>2. /\ r \in Thread /\ r.pc = "delLock" /\ r.folder = NoObject /\ r.vfolder = NoObject /\ r.list = {}
        /\ r.name = k /\ ~r.deleting
    BY <2>1, IdleFields DEF Thread, Places
  <2>3. thread' = [thread EXCEPT ![t] = r]
    BY <1>1 DEF delete_folder, Become
  <2> HIDE DEF r
  <2>4. /\ thread[t].pc = "idle" /\ TablesSame /\ RestSame /\ UNCHANGED <<folderLock, refCount>>
    BY <1>1 DEF delete_folder, Call, At, TablesSame, RestSame, bagVars
  <2> QED
    BY <2>1, <2>2, <2>3, <2>4 DEF DoesCall, Continues
<1>2. ASSUME NEW old \in Names, NEW new \in Names, rename_folder(t, old, new)
      PROVE  \E r : DoesCall(t, r)
  <2> DEFINE r == [Idle EXCEPT !.pc = "renLock", !.name = old, !.new = new]
  <2>1. old \in Keys /\ old # VTrash /\ new \in Keys
    BY DEF Names
  <2>2. /\ r \in Thread /\ r.pc = "renLock" /\ r.folder = NoObject /\ r.vfolder = NoObject /\ r.list = {}
        /\ r.name = old /\ ~r.deleting
    BY <2>1, IdleFields DEF Thread, Places
  <2>3. thread' = [thread EXCEPT ![t] = r]
    BY <1>2 DEF rename_folder, Become
  <2> HIDE DEF r
  <2>4. /\ thread[t].pc = "idle" /\ TablesSame /\ RestSame /\ UNCHANGED <<folderLock, refCount>>
    BY <1>2 DEF rename_folder, Call, At, TablesSame, RestSame, bagVars
  <2> QED
    BY <2>1, <2>2, <2>3, <2>4 DEF DoesCall, Continues
<1> QED
  BY <1>1, <1>2

\* What a thread that waits for the lock has.
LEMMA WaitsForLock ==
    ASSUME StoreInv, RefsInv, NEW t \in Threads, thread[t].pc \in {"delLock", "renLock"}
    PROVE  /\ thread[t] \in Thread
           /\ thread[t].folder = NoObject /\ thread[t].vfolder = NoObject /\ thread[t].list = {}
           /\ ~thread[t].deleting /\ thread[t].name \in Names
           /\ thread[t].pc = "renLock" => thread[t].new \in Names
<1>1. thread[t] \in Thread /\ Fits(thread[t], creating[t], fresh[t])
  BY ThreadFacts
<1>2. RecordFits(thread[t])
  BY DEF RefsInv, RecordsFit
<1>3. thread[t].name \in Keys /\ thread[t].new \in Keys
  BY <1>1 DEF Thread
<1> QED
  BY <1>1, <1>2, <1>3 DEF RecordFits, Fits, HasFolder, Opening, OpeningFolder, HasVFolder, Moving, Getting,
     InRename, Names

LEMMA DirEffect ==
    ASSUME StoreInv, RefsInv, NEW t \in Threads, delete_folder_dir(t)
    PROVE  \E r : DoesCall(t, r) \/ DoesBeginDelete(t, r)
<1>a. thread[t].pc = "delLock"
  BY DEF delete_folder_dir, At
<1>b. /\ thread[t] \in Thread
      /\ thread[t].folder = NoObject /\ thread[t].vfolder = NoObject /\ thread[t].list = {}
      /\ ~thread[t].deleting /\ thread[t].name \in Names
  BY <1>a, WaitsForLock
<1>c. folderLock = NoThread /\ TablesSame /\ UNCHANGED <<refCount, subs, missed, strayed>>
  BY DEF delete_folder_dir, TablesSame, bagVars
<1>1. CASE thread' = [thread EXCEPT ![t] = Idle] /\ UNCHANGED <<folderLock, disk>>
  BY <1>a, <1>c, <1>1, IdleFields DEF DoesCall, Continues, RestSame
<1>2. CASE /\ disk' = disk \ {thread[t].name} /\ folderLock' = t
           /\ thread' = [thread EXCEPT ![t] = [thread[t] EXCEPT !.pc = "delMeta"]]
  <2> DEFINE r == [thread[t] EXCEPT !.pc = "delMeta"]
  <2>1. /\ r \in Thread /\ r.pc = "delMeta" /\ r.folder = NoObject /\ r.vfolder = NoObject /\ r.list = {}
        /\ r.name = thread[t].name /\ ~r.deleting
    BY <1>b DEF Thread, Places
  <2>2. thread' = [thread EXCEPT ![t] = r]
    BY <1>2
  <2> HIDE DEF r
  <2> QED
    BY <1>a, <1>b, <1>c, <1>2, <2>1, <2>2 DEF DoesBeginDelete, Continues
<1> QED
  BY <1>1, <1>2 DEF delete_folder_dir, Become, Go

LEMMA FailEffect ==
    ASSUME StoreInv, NEW t \in Threads, delete_folder_fail(t)
    PROVE  \E r : DoesFail(t, r)
<1>1. thread' = [thread EXCEPT ![t] = Idle] /\ thread[t].pc \in {"delMeta", "delGet"}
  BY DEF delete_folder_fail, Become, At
<1>2. /\ folderLock' = NoThread /\ TablesSame /\ UNCHANGED <<refCount, disk, subs, missed>>
      /\ strayed' = IF thread[t].name \in disk THEN strayed
                    ELSE strayed \cup (OpenAs(thread[t].name) \ {NoObject})
  BY DEF delete_folder_fail, TablesSame, bagVars
<1> QED
  BY <1>1, <1>2, IdleFields DEF DoesFail, Continues

LEMMA BeginRenameEffect ==
    ASSUME StoreInv, RefsInv, NEW t \in Threads, rename_folder_list(t)
    PROVE  \E r : DoesBeginRename(t, r)
<1> DEFINE f == objectTable[thread[t].name]
           r == [thread[t] EXCEPT !.pc = "renGet", !.folder = f]
<1>a. thread[t].pc = "renLock"
  BY DEF rename_folder_list, At
<1>b. /\ thread[t] \in Thread /\ thread[t].vfolder = NoObject /\ thread[t].list = {}
      /\ ~thread[t].deleting /\ thread[t].name \in Names /\ thread[t].new \in Names
  BY <1>a, WaitsForLock
<1>1. thread[t].name \in Keys
  BY <1>b DEF Names
<1>2. f \in Objects \cup {NoObject}
  BY <1>1 DEF StoreInv, BagInv, BagTypeOK
<1>3. thread' = [thread EXCEPT ![t] = r]
  BY DEF rename_folder_list, Become
<1>4. /\ folderLock = NoThread /\ folderLock' = t /\ RestSame
      /\ IF f = NoObject THEN UNCHANGED bagVars ELSE camel_object_ref(f)
  BY DEF rename_folder_list, RestSame
<1>5. f # NoObject => keyTable[f] # NoKey
  BY <1>1, BagAssumption DEF StoreInv, BagInv, TablesAgree
<1> HIDE DEF f
<1>6. /\ r \in Thread /\ r.pc = "renGet" /\ r.folder = f /\ r.vfolder = NoObject /\ r.list = {}
      /\ r.name = thread[t].name /\ r.new = thread[t].new /\ ~r.deleting
  BY <1>b, <1>2 DEF Thread, Places
<1> HIDE DEF r
<1>7. Takes(f) /\ TablesSame
  BY <1>2, <1>4, <1>5 DEF Takes, TablesSame, camel_object_ref, AddRef, bagVars
<1> QED
  BY <1>a, <1>b, <1>3, <1>4, <1>6, <1>7 DEF DoesBeginRename, Continues, f

\* A key without reservation has no creator, nor has one that a woken thread
\* finds without object.
LEMMA NotCreated ==
    ASSUME StoreInv, NEW t \in Threads, NEW k \in Keys,
           get_woken(t, k) \/ ~reserved[k].there
    PROVE  \A u \in Threads : k \notin creating[u]
<1>a. BagTypeOK /\ CreatorOwns /\ SomeoneWillUnreserve
  BY DEF StoreInv, BagInv
<1>1. CASE get_woken(t, k)
  <2>1. t \in reserved[k].woken
    BY <1>1 DEF get_woken, Woken
  <2> QED
    BY <1>a, <2>1, WokenOwns
<1>2. CASE ~reserved[k].there
  BY <1>a, <1>2 DEF CreatorOwns
<1> QED
  BY <1>1, <1>2

LEMMA DeleteGetEffect ==
    ASSUME StoreInv, NEW t \in Threads, delete_folder_get(t) \/ delete_folder_woken(t)
    PROVE  \E r : DoesDeleteGet(t, r)
<1> DEFINE k == thread[t].name
           f == objectTable[k]
<1>a. thread[t] \in Thread /\ objectTable \in [Keys -> Objects \cup {NoObject}]
  BY ThreadFacts
<1>b. k \in Keys /\ f \in Objects \cup {NoObject}
  BY <1>a DEF Thread
<1>1. /\ camel_object_bag_get(t, k) \/ get_woken(t, k)
      /\ RestSame /\ thread[t].pc \in {"delGet", "delWait"}
  BY DEF delete_folder_get, delete_folder_woken, Deleting, At, RestSame
<1>2. Takes(f) /\ TablesSame
  BY <1>1, <1>b, LookupTakes
<1>3. PICK next :
         /\ \/ f # NoObject /\ next = "delTrash"
            \/ f = NoObject /\ next = "delWait"
            \/ f = NoObject /\ next = "idle" /\ (get_woken(t, k) \/ ~reserved[k].there)
         /\ Become(t, IF next = "idle" THEN Idle
                      ELSE [thread[t] EXCEPT !.folder = f, !.pc = next])
         /\ folderLock' = IF next = "idle" THEN NoThread ELSE folderLock
  <2>1. CASE delete_folder_get(t)
    <3> DEFINE next == After(k, "delTrash", "idle", "delWait")
    <3>1. /\ Become(t, IF next = "idle" THEN Idle
                      ELSE [thread[t] EXCEPT !.folder = f, !.pc = next])
          /\ folderLock' = IF next = "idle" THEN NoThread ELSE folderLock
      BY <2>1 DEF delete_folder_get, Deleting
    <3>2. \/ f # NoObject /\ next = "delTrash"
          \/ f = NoObject /\ next = "delWait"
          \/ f = NoObject /\ next = "idle" /\ ~reserved[k].there
      BY DEF After
    <3> HIDE DEF next
    <3> QED
      BY <3>1, <3>2
  <2>2. CASE delete_folder_woken(t)
    <3> DEFINE next == After(k, "delTrash", "idle", "idle")
    <3>1. /\ Become(t, IF next = "idle" THEN Idle
                      ELSE [thread[t] EXCEPT !.folder = f, !.pc = next])
          /\ folderLock' = IF next = "idle" THEN NoThread ELSE folderLock
          /\ get_woken(t, k)
      BY <2>2 DEF delete_folder_woken, Deleting
    <3>2. \/ f # NoObject /\ next = "delTrash"
          \/ f = NoObject /\ next = "idle"
      BY DEF After
    <3> HIDE DEF next
    <3> QED
      BY <3>1, <3>2
  <2> QED
    BY <2>1, <2>2
<1>4. next = "idle" => \A u \in Threads : k \notin creating[u]
  BY <1>b, <1>3, NotCreated
<1> HIDE DEF f
<1>5. CASE next = "idle"
  <2>1. thread' = [thread EXCEPT ![t] = Idle] /\ folderLock' = NoThread
    BY <1>3, <1>5 DEF Become
  <2> QED
    BY <1>1, <1>2, <1>3, <1>4, <1>5, <2>1, IdleFields DEF DoesDeleteGet, Continues, f
<1>6. CASE next # "idle"
  <2> DEFINE r == [thread[t] EXCEPT !.folder = f, !.pc = next]
  <2>1. thread' = [thread EXCEPT ![t] = r] /\ folderLock' = folderLock
    BY <1>3, <1>6 DEF Become
  <2>2. /\ r \in Thread /\ r.pc = next /\ r.folder = f /\ r.vfolder = thread[t].vfolder
        /\ r.list = thread[t].list /\ r.name = k
        /\ r.deleting = thread[t].deleting
    BY <1>a, <1>b, <1>3, <1>6 DEF Thread, Places
  <2> HIDE DEF r
  <2> QED
    BY <1>1, <1>2, <1>3, <1>6, <2>1, <2>2 DEF DoesDeleteGet, Continues, f
<1> QED
  BY <1>5, <1>6

LEMMA RenameGetEffect ==
    ASSUME StoreInv, NEW t \in Threads, rename_folder_get(t) \/ rename_folder_woken(t)
    PROVE  \E r : DoesRenameGet(t, r)
<1> DEFINE k == thread[t].name
           f == objectTable[k]
<1>a. thread[t] \in Thread /\ objectTable \in [Keys -> Objects \cup {NoObject}]
  BY ThreadFacts
<1>b. k \in Keys /\ f \in Objects \cup {NoObject}
  BY <1>a DEF Thread
<1>1. /\ camel_object_bag_get(t, k) \/ get_woken(t, k)
      /\ RestSame /\ UNCHANGED folderLock /\ thread[t].pc \in {"renGet", "renWait"}
  BY DEF rename_folder_get, rename_folder_woken, Renaming, At, RestSame
<1>2. Takes(f) /\ TablesSame
  BY <1>1, <1>b, LookupTakes
<1>3. PICK p : /\ p \in IF f = NoObject THEN {"renMove", "renWait"} ELSE {"renMove"}
               /\ thread' = [thread EXCEPT ![t] = [thread[t] EXCEPT !.vfolder = f, !.pc = p]]
  <2>1. PICK wait \in {"renMove", "renWait"} : Renaming(t, wait)
    BY DEF rename_folder_get, rename_folder_woken
  <2> DEFINE p == After(k, "renMove", "renMove", wait)
  <2>2. thread' = [thread EXCEPT ![t] = [thread[t] EXCEPT !.vfolder = f, !.pc = p]]
    BY <2>1 DEF Renaming, Become
  <2>3. p \in IF f = NoObject THEN {"renMove", "renWait"} ELSE {"renMove"}
    BY DEF After
  <2> HIDE DEF p
  <2> QED
    BY <2>2, <2>3
<1>4. p \in Places
  BY <1>3 DEF Places
<1>5. PICK r : Continues(t, r) /\ SameBut(r, thread[t], p, f)
  BY <1>a, <1>b, <1>3, <1>4, GoFields
<1>6. r.pc = p
  BY <1>5 DEF SameBut
<1> QED
  BY <1>1, <1>2, <1>3, <1>5, <1>6 DEF DoesRenameGet

\* camel_vee_folder_remove_folder, by delete_folder or by the "deleted" event.
DoesRemoveSub(t, r) ==
    LET f == thread[t].folder IN
    /\ Continues(t, r) /\ SameBut(r, thread[t], r.pc, thread[t].vfolder)
    /\ \/ thread[t].pc = "delSub" /\ r.pc = "delUnrefTrash"
       \/ thread[t].pc = "delMark" /\ r.pc = "delBag"
    /\ \/ \E v \in Objects : /\ f \in subs[v] /\ Drops(f)
                             /\ subs' = [subs EXCEPT ![v] = @ \ {f}]
       \/ TablesSame /\ UNCHANGED <<refCount, subs, missed, strayed>>
    /\ UNCHANGED <<folderLock, disk>>

\* camel_object_bag_remove.
DoesRemove(t, r) ==
    LET f == thread[t].folder IN
    /\ Continues(t, r) /\ SameBut(r, thread[t], "unlock", thread[t].vfolder)
    /\ thread[t].pc = "delBag"
    /\ \A k \in Keys : objectTable'[k] = objectTable[k] \/ (objectTable'[k] = NoObject /\ k = keyTable[f])
    /\ \A k \in Keys : objectTable'[k] # f
    /\ \A y \in Objects : y # f => keyTable'[y] = keyTable[y]
    /\ keyTable'[f] = NoKey
    /\ RestSame /\ UNCHANGED <<folderLock, refCount, clashed>>

\* The directory gets its new name.
DoesMove(t, r) ==
    LET q == thread[t] IN
    /\ Continues(t, r) /\ q.pc = "renMove"
    /\ r.folder = q.folder /\ r.vfolder = q.vfolder /\ r.list = q.list /\ r.name = q.name /\ r.new = q.new
    /\ r.deleting = q.deleting
    /\ r.pc = IF q.vfolder # NoObject THEN "renUnref"
              ELSE IF r.ok /\ q.folder # NoObject THEN "rekey" ELSE "unlock"
    /\ r.ok => q.name \in disk
    /\ disk' = IF r.ok /\ q.new \notin disk THEN (disk \ {q.name}) \cup {q.new} ELSE disk
    /\ strayed' = IF r.ok THEN strayed \cup (OpenAs(q.name) \ {q.folder, NoObject}) ELSE strayed
    /\ TablesSame /\ UNCHANGED <<folderLock, refCount, subs, missed>>

\* camel_object_bag_rekey, of a folder in the bag or of one that has left it.
DoesRekey(t, r) ==
    LET f == thread[t].folder
        k == thread[t].new IN
    /\ Continues(t, r) /\ SameBut(r, thread[t], "unlock", thread[t].vfolder) /\ thread[t].pc = "rekey"
    /\ \/ keyTable[f] = NoKey /\ aborted' /\ TablesSame
       \/ /\ keyTable[f] # NoKey
          /\ objectTable' = [objectTable EXCEPT ![keyTable[f]] = NoObject, ![k] = f]
          /\ keyTable' = [keyTable EXCEPT ![f] = k]
          /\ clashed' = IF objectTable[k] \in {NoObject, f} /\ ~reserved[k].there
                        THEN clashed ELSE clashed \cup {k}
    /\ RestSame /\ UNCHANGED <<folderLock, refCount>>

\* camel_vee_folder_finalise.
DoesFinalise(v) ==
    /\ refCount[v] = 0
    /\ \E f \in subs[v] : Drops(f) /\ subs' = [subs EXCEPT ![v] = @ \ {f}]
    /\ UNCHANGED <<thread, folderLock, disk>>

\* A thread that changes its place only.
LEMMA GoSame ==
    ASSUME StoreInv, NEW t \in Threads, NEW p \in Places, Go(t, p)
    PROVE  \E r : Continues(t, r) /\ SameBut(r, thread[t], p, thread[t].vfolder)
<1>1. thread[t] \in Thread /\ thread[t].vfolder \in Objects \cup {NoObject}
  BY ThreadFacts DEF Thread
<1> QED
  BY <1>1, GoFields DEF Go, Become

LEMMA RemoveSubEffect ==
    ASSUME StoreInv, NEW t \in Threads, delete_folder_sub(t) \/ camel_folder_delete(t)
    PROVE  \E r : DoesRemoveSub(t, r)
<1> DEFINE f == thread[t].folder
<1>a. thread[t] \in Thread /\ Fits(thread[t], creating[t], fresh[t])
      /\ subs \in [Objects -> SUBSET Objects]
  BY ThreadFacts DEF StoreInv, RestTyped
<1>1. PICK p \in {"delUnrefTrash", "delBag"} :
         /\ \/ thread[t].pc = "delSub" /\ p = "delUnrefTrash"
            \/ thread[t].pc = "delMark" /\ p = "delBag"
         /\ \/ \E v \in Objects : RemoveSub(t, v, f, p)
            \/ Go(t, p) /\ Untouched /\ UNCHANGED <<calls, folderLock, disk, subs>>
  <2>1. CASE delete_folder_sub(t)
    <3>1. thread[t].vfolder \in Objects
      BY <1>a, <2>1 DEF delete_folder_sub, At, Fits, HasVFolder, Thread
    <3> QED
      BY <2>1, <3>1 DEF delete_folder_sub, At
  <2>2. CASE camel_folder_delete(t)
    BY <2>2 DEF camel_folder_delete, At
  <2> QED
    BY <2>1, <2>2
<1>2. f \in Objects
  BY <1>a, <1>1 DEF Fits, HasFolder, Thread
<1>3. p \in Places /\ Go(t, p) /\ UNCHANGED <<folderLock, disk>>
  BY <1>1 DEF Places, RemoveSub
<1>4. PICK r : Continues(t, r) /\ SameBut(r, thread[t], p, thread[t].vfolder)
  BY <1>3, GoSame
<1>5. r.pc = p
  BY <1>4 DEF SameBut
<1> HIDE DEF f
<1>6. \/ \E v \in Objects : /\ f \in subs[v] /\ Drops(f)
                            /\ subs' = [subs EXCEPT ![v] = @ \ {f}]
      \/ TablesSame /\ UNCHANGED <<refCount, subs, missed, strayed>>
  <2>1. CASE \E v \in Objects : RemoveSub(t, v, f, p)
    <3>1. PICK v \in Objects : RemoveSub(t, v, f, p)
      BY <2>1
    <3>2. CASE f \in subs[v]
      BY <1>2, <3>1, <3>2, UnrefDrops DEF RemoveSub
    <3>3. CASE f \notin subs[v]
      <4>1. Untouched /\ subs' = [subs EXCEPT ![v] = @ \ {f}]
        BY <3>1, <3>3 DEF RemoveSub
      <4>2. subs[v] \ {f} = subs[v]
        BY <3>3
      <4>3. subs' = subs
        BY <1>a, <4>1, <4>2
      <4> QED
        BY <4>1, <4>3 DEF Untouched, bagVars, TablesSame
    <3> QED
      BY <3>2, <3>3
  <2>2. CASE Go(t, p) /\ Untouched /\ UNCHANGED <<calls, folderLock, disk, subs>>
    BY <2>2 DEF Untouched, bagVars, TablesSame
  <2> QED
    BY <1>1, <2>1, <2>2
<1> QED
  BY <1>1, <1>3, <1>4, <1>5, <1>6 DEF DoesRemoveSub, f

LEMMA RemoveEffect ==
    ASSUME StoreInv, NEW t \in Threads, delete_folder_bag(t)
    PROVE  \E r : DoesRemove(t, r)
<1> DEFINE f == thread[t].folder
<1>a. /\ thread[t] \in Thread /\ Fits(thread[t], creating[t], fresh[t])
      /\ objectTable \in [Keys -> Objects \cup {NoObject}] /\ TablesAgree
      /\ keyTable \in [Objects -> Keys \cup {NoKey}]
  BY ThreadFacts DEF StoreInv, BagInv, BagTypeOK
<1>1. /\ thread[t].pc = "delBag" /\ Go(t, "unlock") /\ Unfile(f)
      /\ RestSame /\ UNCHANGED <<folderLock, refCount, clashed>>
  BY DEF delete_folder_bag, At, RestSame, camel_object_bag_remove
<1>2. f \in Objects
  BY <1>a, <1>1 DEF Fits, HasFolder, Thread
<1>3. PICK r : Continues(t, r) /\ SameBut(r, thread[t], "unlock", thread[t].vfolder)
  <2>1. "unlock" \in Places
    BY DEF Places
  <2> QED
    BY <1>1, <2>1, GoSame
<1> HIDE DEF f
<1>4. /\ \A k \in Keys : objectTable'[k] = objectTable[k] \/ (objectTable'[k] = NoObject /\ k = keyTable[f])
      /\ \A k \in Keys : objectTable'[k] # f
      /\ \A y \in Objects : y # f => keyTable'[y] = keyTable[y]
      /\ keyTable'[f] = NoKey
  <2>1. \A k \in Keys : objectTable[k] = f => keyTable[f] = k
    BY <1>2, BagAssumption, <1>a DEF TablesAgree
  <2> QED
    BY <1>a, <1>1, <1>2, <2>1, BagAssumption DEF Unfile
<1> QED
  BY <1>1, <1>3, <1>4 DEF DoesRemove, f

LEMMA MoveEffect ==
    ASSUME StoreInv, NEW t \in Threads, rename_folder_move(t)
    PROVE  \E r : DoesMove(t, r)
<1>a. thread[t] \in Thread
  BY ThreadFacts
<1> DEFINE q == thread[t]
<1>1. PICK ok \in BOOLEAN :
          /\ ok => q.name \in disk
          /\ disk' = IF ok /\ q.new \notin disk THEN (disk \ {q.name}) \cup {q.new} ELSE disk
          /\ strayed' = IF ok THEN strayed \cup (OpenAs(q.name) \ {q.folder, NoObject}) ELSE strayed
          /\ Become(t, [q EXCEPT !.ok = ok, !.pc = Renamed(t, q.vfolder, ok)])
  BY DEF rename_folder_move
<1> DEFINE p == Renamed(t, q.vfolder, ok)
           r == [q EXCEPT !.ok = ok, !.pc = p]
<1>2. thread' = [thread EXCEPT ![t] = r]
  BY <1>1 DEF Become
<1>3. /\ p = IF q.vfolder # NoObject THEN "renUnref"
             ELSE IF ok /\ q.folder # NoObject THEN "rekey" ELSE "unlock"
      /\ p \in Places
  BY DEF Renamed, Places
<1> HIDE DEF p
<1>4. /\ r \in Thread /\ r.folder = q.folder /\ r.vfolder = q.vfolder /\ r.list = q.list
      /\ r.name = q.name /\ r.new = q.new /\ r.pc = p /\ r.ok = ok
      /\ r.deleting = q.deleting
  BY <1>a, <1>3 DEF Thread
<1> HIDE DEF r
<1>5. q.pc = "renMove" /\ TablesSame /\ UNCHANGED <<folderLock, refCount, subs, missed>>
  BY DEF rename_folder_move, At, TablesSame, bagVars
<1> QED
  BY <1>1, <1>2, <1>3, <1>4, <1>5 DEF DoesMove, Continues

LEMMA RekeyEffect ==
    ASSUME StoreInv, NEW t \in Threads, rename_folder_rekey(t)
    PROVE  \E r : DoesRekey(t, r)
<1>1. /\ thread[t].pc = "rekey" /\ Go(t, "unlock") /\ RestSame /\ UNCHANGED <<folderLock, refCount>>
      /\ camel_object_bag_rekey(thread[t].folder, thread[t].new)
  BY DEF rename_folder_rekey, At, RestSame, camel_object_bag_rekey
<1>2. PICK r : Continues(t, r) /\ SameBut(r, thread[t], "unlock", thread[t].vfolder)
  <2>1. "unlock" \in Places
    BY DEF Places
  <2> QED
    BY <1>1, <2>1, GoSame
<1> QED
  BY <1>1, <1>2 DEF DoesRekey, camel_object_bag_rekey, TablesSame

LEMMA FinaliseEffect ==
    ASSUME StoreInv, NEW v \in Objects, vee_folder_finalise(v)
    PROVE  DoesFinalise(v)
<1>1. PICK f \in subs[v] : Unref(f) /\ subs' = [subs EXCEPT ![v] = @ \ {f}]
  BY DEF vee_folder_finalise
<1>2. f \in Objects
  BY DEF StoreInv, RestTyped
<1>3. Drops(f)
  BY <1>1, <1>2, UnrefDrops
<1> QED
  BY <1>1, <1>3 DEF vee_folder_finalise, DoesFinalise

-----------------------------------------------------------------------------
(* References are owned: one lemma for each effect.                        *)

\* References taken and dropped, against those that the thread has.
LEMMA TakesBalances ==
    ASSUME StoreInv, NEW q, NEW r, NEW x \in Objects \cup {NoObject}, Takes(x),
           \A o \in Objects : Held(r, o) = Held(q, o) + One(x = o)
    PROVE  \A o \in Objects : refCount'[o] + Held(q, o) = refCount[o] + Held(r, o)
<1> SUFFICES ASSUME NEW o \in Objects
             PROVE  refCount'[o] + Held(q, o) = refCount[o] + Held(r, o)
  OBVIOUS
<1>1. refCount \in [Objects -> Nat]
  BY DEF StoreInv, BagInv, BagTypeOK
<1>2. Held(q, o) \in Nat
  BY DEF Held, One
<1>3. refCount'[o] = refCount[o] + One(x = o)
  BY <1>1, BagAssumption DEF Takes, One
<1>4. Held(r, o) = Held(q, o) + One(x = o) /\ One(x = o) \in Nat /\ refCount[o] \in Nat
  BY <1>1 DEF One
<1> QED
  BY <1>2, <1>3, <1>4

\* The same for a reference dropped.
LEMMA DropsBalances ==
    ASSUME StoreInv, NEW q, NEW r, NEW x \in Objects, Drops(x),
           \A o \in Objects : Held(q, o) = Held(r, o) + One(x = o)
    PROVE  \A o \in Objects : refCount'[o] + Held(q, o) = refCount[o] + Held(r, o)
<1> SUFFICES ASSUME NEW o \in Objects
             PROVE  refCount'[o] + Held(q, o) = refCount[o] + Held(r, o)
  OBVIOUS
<1>1. refCount \in [Objects -> Nat] /\ refCount[x] > 0 /\ refCount' = [refCount EXCEPT ![x] = @ - 1]
  BY DEF StoreInv, BagInv, BagTypeOK, Drops
<1>2. Held(r, o) \in Nat
  BY DEF Held, One
<1>3. refCount'[o] = refCount[o] - One(x = o)
  <2>1. CASE x = o
    BY <1>1, <2>1 DEF One
  <2>2. CASE x # o
    BY <1>1, <2>2 DEF One
  <2> QED
    BY <2>1, <2>2
<1>4. Held(q, o) = Held(r, o) + One(x = o) /\ One(x = o) \in {0, 1} /\ refCount[o] \in Nat
  BY <1>1 DEF One
<1> QED
  BY <1>2, <1>3, <1>4

\* A step that leaves the virtual folders alone.
LEMMA RefsQuietStep ==
    ASSUME StoreInv, StoreInv', RefsInv, subs' = subs,
           NEW t \in Threads, NEW r, Continues(t, r),
           RecordFits(r),
           Locks(r) <=> folderLock' = t,
           \A u \in Threads \ {t} : folderLock' = u <=> folderLock = u,
           \A o \in Objects : refCount'[o] + Held(thread[t], o) = refCount[o] + Held(r, o),
           \A x \in Objects : r.folder = x =>
              x = thread[t].folder \/ keyTable[x] # NoKey \/ refCount[x] = 0,
           \A x \in Objects : x = r.vfolder \/ x \in r.list =>
              x = thread[t].vfolder \/ x \in thread[t].list \/ keyTable[x] # NoKey,
           r.pc \in Opening =>
              \/ /\ thread[t].pc \in Opening /\ r.folder = thread[t].folder
                 /\ r.pc \in Early => thread[t].pc \in Early
              \/ refCount[r.folder] = 0,
           r.pc = "list" => subs[r.folder] = {},
           r.pc = "fill" => r.list \cap subs[r.folder] = {}
    PROVE  RefsInv'
<1>1. r \in Thread /\ thread' = [thread EXCEPT ![t] = r]
  BY DEF Continues
<1>2. \A o \in Objects : refCount'[o] + Held(thread[t], o) + Cardinality(Shows(o))
                           = refCount[o] + Held(r, o) + Cardinality(Shows(o)')
  <2> SUFFICES ASSUME NEW o \in Objects
               PROVE  refCount'[o] + Held(thread[t], o) + Cardinality(Shows(o))
                           = refCount[o] + Held(r, o) + Cardinality(Shows(o)')
    OBVIOUS
  <2>1. Shows(o)' = Shows(o)
    BY DEF Shows
  <2> QED
    BY <2>1
<1>3. \A v, x \in Objects : x \in subs'[v] => x \in subs[v]
  OBVIOUS
<1> QED
  BY <1>1, <1>2, <1>3, RefsStep

\* What is known of the thread that makes a step.
LEMMA StepFacts ==
    ASSUME StoreInv, RefsInv, NEW t \in Threads
    PROVE  /\ thread[t] \in Thread /\ RecordFits(thread[t])
           /\ Fits(thread[t], creating[t], fresh[t])
           /\ thread[t].folder \in Objects \cup {NoObject}
           /\ thread[t].vfolder \in Objects \cup {NoObject}
           /\ thread[t].list \in SUBSET Objects
           /\ thread[t].name \in Keys /\ thread[t].new \in Keys
           /\ Locks(thread[t]) <=> folderLock = t
           /\ folderLock \in Threads \cup {NoThread}
           /\ keyTable \in [Objects -> Keys \cup {NoKey}]
           /\ objectTable \in [Keys -> Objects \cup {NoObject}]
           /\ refCount \in [Objects -> Nat]
           /\ subs \in [Objects -> SUBSET Objects]
<1>1. thread[t] \in Thread /\ Fits(thread[t], creating[t], fresh[t])
  BY ThreadFacts
<1>2. RecordFits(thread[t]) /\ (Locks(thread[t]) <=> folderLock = t)
  BY DEF RefsInv, RecordsFit, LockFits
<1> QED
  BY <1>1, <1>2 DEF Thread, StoreInv, BagInv, BagTypeOK, RestTyped

LEMMA RefsReserve ==
    ASSUME StoreInv, StoreInv', RefsInv, NEW t \in Threads, NEW r, DoesReserve(t, r)
    PROVE  RefsInv'
<1>a. /\ RecordFits(thread[t]) /\ thread[t].pc \in {"idle", "delMeta", "reserving"}
      /\ Locks(thread[t]) <=> folderLock = t
  BY StepFacts DEF DoesReserve
<1>b. thread[t].folder = NoObject /\ thread[t].vfolder = NoObject /\ thread[t].list = {}
  BY <1>a DEF RecordFits, HasFolder, Opening, OpeningFolder, Moving, HasVFolder
<1>c. /\ Continues(t, r) /\ r.vfolder = NoObject /\ r.list = {} /\ Takes(r.folder)
      /\ Answers(thread[t], r)
      /\ subs' = subs /\ folderLock' = folderLock /\ r.folder \in Objects \cup {NoObject}
  BY DEF DoesReserve, RestSame, Continues, Thread
<1>d. /\ ForDelete(thread[t]) => r.name # VTrash
      /\ ForDelete(thread[t]) <=> folderLock = t
  BY <1>a, <1>c DEF ForDelete, Answers, Locks, Locking, Acting, Deleted, Moving, RecordFits
<1>1. RecordFits(r)
  BY <1>c, <1>d DEF Answers, RecordFits, HasFolder, Locking, Deleted, Moving, Locks, Acting, Getting, Opening, OpeningFolder
<1>2. Locks(r) <=> folderLock' = t
  BY <1>c, <1>d DEF Answers, Locking, Deleted, Moving, Locks, Acting, Getting, Opening, OpeningFolder
<1>3. \A o \in Objects : refCount'[o] + Held(thread[t], o) = refCount[o] + Held(r, o)
  <2>1. \A o \in Objects : Held(r, o) = Held(thread[t], o) + One(r.folder = o)
    BY <1>b, <1>c, BagAssumption DEF Held, One
  <2> QED
    BY <1>c, <2>1, TakesBalances
<1>4. \A x \in Objects : r.folder = x => keyTable[x] # NoKey
  BY <1>c, BagAssumption DEF Takes
<1>5. r.pc \notin Opening /\ r.pc # "list" /\ r.pc # "fill"
  BY <1>c DEF Answers, Opening, OpeningFolder
<1>6. \A x \in Objects : x # r.vfolder /\ x \notin r.list
  BY <1>c, BagAssumption
<1> QED
  BY <1>c, <1>1, <1>2, <1>3, <1>4, <1>5, <1>6, RefsQuietStep

LEMMA RefsOpen ==
    ASSUME StoreInv, StoreInv', RefsInv, NEW t \in Threads, NEW r, DoesOpen(t, r)
    PROVE  RefsInv'
<1>a. /\ RecordFits(thread[t]) /\ thread[t].pc = "open" /\ refCount \in [Objects -> Nat]
      /\ Locks(thread[t]) <=> folderLock = t
  BY StepFacts DEF DoesOpen
<1>b. thread[t].folder = NoObject /\ thread[t].vfolder = NoObject /\ thread[t].list = {}
  BY <1>a DEF RecordFits, HasFolder, Opening, OpeningFolder, Moving, HasVFolder
<1>c. /\ Continues(t, r) /\ r.vfolder = NoObject /\ r.list = {} /\ r.folder \in Objects
      /\ r.pc \in {"list", "trash"} /\ (r.pc = "list" => r.name = VTrash) /\ refCount[r.folder] = 0 /\ subs[r.folder] = {}
      /\ refCount' = [refCount EXCEPT ![r.folder] = @ + 1]
      /\ subs' = subs /\ folderLock' = folderLock
      /\ r.deleting = thread[t].deleting /\ r.name = thread[t].name
  BY <1>b DEF DoesOpen
<1>1. RecordFits(r)
  BY <1>a, <1>c DEF RecordFits, HasFolder, Opening, OpeningFolder, Locking, Deleted, Moving, Locks, Acting, Getting
<1>2. Locks(r) <=> folderLock' = t
  BY <1>a, <1>c DEF Locking, Deleted, Moving, Locks, Acting, Getting, Opening, OpeningFolder
<1>3. \A o \in Objects : refCount'[o] + Held(thread[t], o) = refCount[o] + Held(r, o)
  <2>1. \A o \in Objects : Held(thread[t], o) = 0 /\ Held(r, o) = One(r.folder = o)
    BY <1>b, <1>c, BagAssumption DEF Held, One
  <2>2. \A o \in Objects : refCount'[o] = refCount[o] + One(r.folder = o)
    BY <1>a, <1>c DEF One
  <2>3. \A o \in Objects : refCount'[o] \in Nat
    BY <1>a, <2>2 DEF One
  <2> QED
    BY <1>a, <2>1, <2>2, <2>3
<1>6. \A x \in Objects : x # r.vfolder /\ x \notin r.list
  BY <1>c, BagAssumption
<1> QED
  BY <1>c, <1>1, <1>2, <1>3, <1>6, RefsQuietStep

LEMMA RefsReturn ==
    ASSUME StoreInv, StoreInv', RefsInv, NEW t \in Threads, NEW r, DoesReturn(t, r)
    PROVE  RefsInv'
<1>a. /\ RecordFits(thread[t]) /\ thread[t].pc \in {"open", "abort", "exclAbort"} /\ refCount \in [Objects -> Nat]
      /\ Locks(thread[t]) <=> folderLock = t
  BY StepFacts DEF DoesReturn
<1>b. /\ thread[t].pc # "exclAbort" => thread[t].folder = NoObject
      /\ thread[t].vfolder = NoObject /\ thread[t].list = {}
  BY <1>a DEF RecordFits, HasFolder, Opening, OpeningFolder, Moving, HasVFolder
<1>c. /\ Continues(t, r) /\ r.vfolder = NoObject /\ r.list = {} /\ r.folder = thread[t].folder
      /\ r.pc \in {"abort", "idle", "keeps", "delGet", "delState"}
      /\ r.pc \notin {"keeps", "delState"} => r.folder = NoObject
      /\ thread[t].deleting => r.name = thread[t].name
      /\ IF thread[t].deleting THEN r.pc \in {"delGet", "delState"} \/ (r.pc = "abort" /\ r.deleting)
         ELSE r.pc \in {"abort", "idle", "keeps"} /\ ~r.deleting
      /\ r.deleting => r.pc = "abort"
      /\ refCount' = refCount
      /\ subs' = subs /\ folderLock' = folderLock
  BY <1>a, <1>b DEF DoesReturn, RestSame, Returns
<1>1. RecordFits(r)
  BY <1>a, <1>c DEF RecordFits, HasFolder, Locking, Deleted, Moving, Locks, Acting, Getting, Opening, OpeningFolder
<1>2. Locks(r) <=> folderLock' = t
  BY <1>a, <1>c DEF Locking, Deleted, Moving, Locks, Acting, Getting, Opening, OpeningFolder
<1>3. \A o \in Objects : refCount'[o] + Held(thread[t], o) = refCount[o] + Held(r, o)
  BY <1>a, <1>b, <1>c DEF Held
<1>5. r.pc \notin Opening /\ r.pc # "list" /\ r.pc # "fill"
  BY <1>c DEF Opening, OpeningFolder
<1>6. \A x \in Objects : x # r.vfolder /\ x \notin r.list
  BY <1>c, BagAssumption
<1> QED
  BY <1>c, <1>1, <1>2, <1>3, <1>5, <1>6, RefsQuietStep

LEMMA RefsAdd ==
    ASSUME StoreInv, StoreInv', RefsInv, NEW t \in Threads, NEW r, DoesAdd(t, r)
    PROVE  RefsInv'
<1>a. /\ RecordFits(thread[t]) /\ thread[t].pc = "add" /\ refCount \in [Objects -> Nat]
      /\ Locks(thread[t]) <=> folderLock = t
  BY StepFacts DEF DoesAdd
<1>b. thread[t].vfolder = NoObject /\ thread[t].list = {}
  BY <1>a DEF RecordFits, HasVFolder
<1>c. /\ Continues(t, r) /\ r.vfolder = NoObject /\ r.list = {} /\ r.folder = thread[t].folder
      /\ Returns(thread[t], r, "delState", "keeps") /\ refCount' = refCount
      /\ subs' = subs /\ folderLock' = folderLock
  BY DEF DoesAdd, RestSame
<1>1. RecordFits(r)
  BY <1>a, <1>c DEF Returns, RecordFits, HasFolder, Locking, Deleted, Moving, Locks, Acting, Getting, Opening, OpeningFolder
<1>2. Locks(r) <=> folderLock' = t
  BY <1>a, <1>c DEF Returns, Locking, Deleted, Moving, Locks, Acting, Getting, Opening, OpeningFolder
<1>3. \A o \in Objects : refCount'[o] + Held(thread[t], o) = refCount[o] + Held(r, o)
  BY <1>a, <1>b, <1>c DEF Held
<1>5. r.pc \notin Opening /\ r.pc # "list" /\ r.pc # "fill"
  BY <1>c DEF Returns, Opening, OpeningFolder
<1>6. \A x \in Objects : x # r.vfolder /\ x \notin r.list
  BY <1>c, BagAssumption
<1> QED
  BY <1>c, <1>1, <1>2, <1>3, <1>5, <1>6, RefsQuietStep

LEMMA RefsGetTrash ==
    ASSUME StoreInv, StoreInv', RefsInv, NEW t \in Threads, NEW r, DoesGetTrash(t, r)
    PROVE  RefsInv'
<1> DEFINE v == objectTable[VTrash]
<1>a. /\ RecordFits(thread[t]) /\ thread[t].pc \in {"trash", "trashWait", "delTrash", "delTrashWait"}
      /\ Locks(thread[t]) <=> folderLock = t
      /\ v \in Objects \cup {NoObject}
  BY StepFacts, StoreAssumption DEF DoesGetTrash
<1>b. thread[t].vfolder = NoObject /\ thread[t].list = {}
  BY <1>a DEF RecordFits, HasVFolder
<1>c. /\ Continues(t, r) /\ SameBut(r, thread[t], r.pc, v) /\ Takes(v)
      /\ \/ /\ thread[t].pc \in {"trash", "trashWait"}
            /\ r.pc \in IF v = NoObject THEN {"add", "trashWait"} ELSE {"addSub"}
         \/ /\ thread[t].pc \in {"delTrash", "delTrashWait"}
            /\ r.pc \in IF v = NoObject THEN {"delMark", "delTrashWait"} ELSE {"delSub"}
      /\ subs' = subs /\ folderLock' = folderLock
  BY DEF DoesGetTrash, RestSame
<1> HIDE DEF v
<1>d. r.vfolder = v /\ r.list = {} /\ r.folder = thread[t].folder /\ r.name = thread[t].name
      /\ r.deleting = thread[t].deleting
  BY <1>b, <1>c DEF SameBut
<1>1. RecordFits(r)
  BY <1>a, <1>c, <1>d DEF RecordFits, HasFolder, Opening, OpeningFolder, HasVFolder, Locking, Deleted, Moving, Locks, Acting, Getting
<1>2. Locks(r) <=> folderLock' = t
  BY <1>a, <1>c, <1>d DEF Locking, Deleted, Moving, Locks, Acting, Getting, Opening, OpeningFolder
<1>3. \A o \in Objects : refCount'[o] + Held(thread[t], o) = refCount[o] + Held(r, o)
  <2>1. \A o \in Objects : Held(r, o) = Held(thread[t], o) + One(v = o)
    BY <1>b, <1>d, BagAssumption DEF Held, One
  <2> QED
    BY <1>a, <1>c, <2>1, TakesBalances
<1>4. \A x \in Objects : x = r.vfolder \/ x \in r.list => keyTable[x] # NoKey
  BY <1>c, <1>d, BagAssumption DEF Takes
<1>5. r.pc \in Opening => thread[t].pc \in Opening /\ thread[t].pc \in Early
  BY <1>c DEF Opening, OpeningFolder, Early
<1>6. r.pc # "list" /\ r.pc # "fill"
  BY <1>c
<1> QED
  BY <1>c, <1>d, <1>1, <1>2, <1>3, <1>4, <1>5, <1>6, RefsQuietStep

LEMMA RefsUnrefVFolder ==
    ASSUME StoreInv, StoreInv', RefsInv, NEW t \in Threads, NEW r, DoesUnrefVFolder(t, r)
    PROVE  RefsInv'
<1>a. /\ RecordFits(thread[t]) /\ thread[t].pc \in {"unrefTrash", "delUnrefTrash", "renUnref"}
      /\ Locks(thread[t]) <=> folderLock = t
  BY StepFacts DEF DoesUnrefVFolder
<1>b. thread[t].list = {}
  BY <1>a DEF RecordFits
<1>c. /\ Continues(t, r) /\ SameBut(r, thread[t], r.pc, NoObject) /\ Drops(thread[t].vfolder)
      /\ \/ thread[t].pc = "unrefTrash" /\ r.pc = "add"
         \/ thread[t].pc = "delUnrefTrash" /\ r.pc = "delMark"
         \/ thread[t].pc = "renUnref" /\ r.pc \in {"rekey", "unlock"}
      /\ subs' = subs /\ folderLock' = folderLock
  BY DEF DoesUnrefVFolder
<1>d. /\ r.vfolder = NoObject /\ r.list = {} /\ r.folder = thread[t].folder /\ r.name = thread[t].name
      /\ r.deleting = thread[t].deleting /\ r.new = thread[t].new /\ thread[t].vfolder \in Objects
  BY <1>b, <1>c DEF SameBut, Drops
<1>1. RecordFits(r)
  BY <1>a, <1>c, <1>d DEF RecordFits, HasFolder, Opening, OpeningFolder, HasVFolder, Locking, Deleted, Moving, Locks, Acting, Getting
<1>2. Locks(r) <=> folderLock' = t
  BY <1>a, <1>c, <1>d DEF RecordFits, Locking, Deleted, Moving, Locks, Acting, Getting, Opening, OpeningFolder
<1>3. \A o \in Objects : refCount'[o] + Held(thread[t], o) = refCount[o] + Held(r, o)
  <2>1. \A o \in Objects : Held(thread[t], o) = Held(r, o) + One(thread[t].vfolder = o)
    BY <1>b, <1>d, BagAssumption DEF Held, One
  <2> QED
    BY <1>c, <1>d, <2>1, DropsBalances
<1>4. \A x \in Objects : x # r.vfolder /\ x \notin r.list
  BY <1>d, BagAssumption
<1>5. r.pc \in Opening => thread[t].pc \in Opening /\ r.pc \notin Early
  BY <1>c DEF Opening, OpeningFolder, Early
<1>6. r.pc # "list" /\ r.pc # "fill"
  BY <1>c
<1> QED
  BY <1>c, <1>d, <1>1, <1>2, <1>3, <1>4, <1>5, <1>6, RefsQuietStep

LEMMA RefsBegin ==
    ASSUME StoreInv, StoreInv', RefsInv, NEW t \in Threads, NEW r,
           DoesBeginDelete(t, r) \/ DoesBeginRename(t, r)
    PROVE  RefsInv'
<1>a. /\ RecordFits(thread[t]) /\ thread[t].pc \in {"delLock", "renLock"} /\ refCount \in [Objects -> Nat]
  BY StepFacts DEF DoesBeginDelete, DoesBeginRename
<1>b. thread[t].folder = NoObject /\ thread[t].vfolder = NoObject /\ thread[t].list = {}
  BY <1>a DEF RecordFits, HasFolder, Opening, OpeningFolder, Moving, HasVFolder
<1>c. /\ Continues(t, r) /\ r.vfolder = NoObject /\ r.list = {} /\ ~r.deleting
      /\ \/ r.pc = "delMeta" /\ r.folder = NoObject
         \/ r.pc = "renGet" /\ r.new \in Names
      /\ r.name \in Names /\ Takes(r.folder) /\ r.folder \in Objects \cup {NoObject}
      /\ subs' = subs /\ folderLock = NoThread /\ folderLock' = t
  BY DEF DoesBeginDelete, DoesBeginRename, RestSame, Takes, Continues, Thread
<1>1. RecordFits(r)
  BY <1>c DEF RecordFits, HasFolder, Locking, Deleted, Moving, Names, Locks, Acting, Getting, Opening, OpeningFolder
<1>2. /\ Locks(r) /\ folderLock' = t
      /\ \A u \in Threads \ {t} : folderLock' # u /\ folderLock # u
  BY <1>c, BagAssumption DEF Locking, Deleted, Moving, Locks, Acting, Getting, Opening, OpeningFolder
<1>3. \A o \in Objects : refCount'[o] + Held(thread[t], o) = refCount[o] + Held(r, o)
  <2>1. \A o \in Objects : Held(r, o) = Held(thread[t], o) + One(r.folder = o)
    BY <1>b, <1>c, BagAssumption DEF Held, One
  <2> QED
    BY <1>c, <2>1, TakesBalances
<1>4. \A x \in Objects : r.folder = x => keyTable[x] # NoKey
  BY <1>c, BagAssumption DEF Takes
<1>5. r.pc \notin Opening /\ r.pc # "list" /\ r.pc # "fill"
  BY <1>c DEF Opening, OpeningFolder
<1>6. \A x \in Objects : x # r.vfolder /\ x \notin r.list
  BY <1>c, BagAssumption
<1> QED
  BY <1>c, <1>1, <1>2, <1>3, <1>4, <1>5, <1>6, RefsQuietStep

LEMMA RefsCall ==
    ASSUME StoreInv, StoreInv', RefsInv, NEW t \in Threads, NEW r, DoesCall(t, r) \/ DoesFail(t, r)
    PROVE  RefsInv'
<1>a. /\ RecordFits(thread[t]) /\ thread[t].pc \in {"idle", "delLock", "delMeta", "delGet"}
      /\ Locks(thread[t]) <=> folderLock = t
      /\ refCount \in [Objects -> Nat] /\ folderLock \in Threads \cup {NoThread}
  BY StepFacts DEF DoesCall, DoesFail
<1>b. /\ thread[t].folder = NoObject /\ thread[t].vfolder = NoObject /\ thread[t].list = {}
      /\ ~thread[t].deleting
  BY <1>a DEF RecordFits, Getting, HasFolder, Opening, OpeningFolder, Moving, HasVFolder
<1>c. /\ Continues(t, r) /\ r.folder = NoObject /\ r.vfolder = NoObject /\ r.list = {} /\ ~r.deleting
      /\ r.pc \in {"idle", "delLock", "renLock"} /\ (r.pc # "idle" => r.name # VTrash)
      /\ subs' = subs /\ refCount' = refCount
      /\ \/ thread[t].pc \in {"idle", "delLock"} /\ folderLock' = folderLock
         \/ thread[t].pc \in {"delMeta", "delGet"} /\ folderLock' = NoThread
  BY DEF DoesCall, DoesFail, RestSame
<1>1. RecordFits(r)
  BY <1>c DEF RecordFits, Locking, Acting, Deleted, Moving
<1>2. /\ Locks(r) <=> folderLock' = t
      /\ \A u \in Threads \ {t} : folderLock' = u <=> folderLock = u
  BY <1>a, <1>b, <1>c, BagAssumption DEF Locks, Locking, Acting, Deleted, Moving
<1>3. \A o \in Objects : refCount'[o] + Held(thread[t], o) = refCount[o] + Held(r, o)
  BY <1>b, <1>c DEF Held
<1>5. r.pc \notin Opening /\ r.pc # "list" /\ r.pc # "fill"
  BY <1>c DEF Opening, OpeningFolder
<1>6. \A x \in Objects : x # r.folder /\ x # r.vfolder /\ x \notin r.list
  BY <1>c, BagAssumption
<1> QED
  BY <1>c, <1>1, <1>2, <1>3, <1>5, <1>6, RefsQuietStep

LEMMA RefsDeleteGet ==
    ASSUME StoreInv, StoreInv', RefsInv, NEW t \in Threads, NEW r, DoesDeleteGet(t, r)
    PROVE  RefsInv'
<1> DEFINE f == objectTable[thread[t].name]
<1>a. /\ RecordFits(thread[t]) /\ thread[t].pc \in {"delGet", "delWait"}
      /\ Locks(thread[t]) <=> folderLock = t
      /\ f \in Objects \cup {NoObject}
  BY StepFacts DEF DoesDeleteGet
<1>b. thread[t].folder = NoObject /\ thread[t].vfolder = NoObject /\ thread[t].list = {}
      /\ ~thread[t].deleting
  BY <1>a DEF RecordFits, Getting, HasFolder, Opening, OpeningFolder, Moving, HasVFolder
<1>c. /\ Continues(t, r) /\ r.vfolder = NoObject /\ r.list = {} /\ r.folder = f /\ ~r.deleting
      /\ \/ f # NoObject /\ r.pc = "delTrash" /\ r.name = thread[t].name /\ folderLock' = folderLock
         \/ f = NoObject /\ r.pc = "delWait" /\ r.name = thread[t].name /\ folderLock' = folderLock
         \/ f = NoObject /\ r.pc = "idle" /\ folderLock' = NoThread
      /\ Takes(f) /\ subs' = subs
  BY <1>b DEF DoesDeleteGet, RestSame
<1> HIDE DEF f
<1>1. RecordFits(r)
  BY <1>a, <1>c DEF RecordFits, HasFolder, Locking, Deleted, Moving, Locks, Acting, Getting, Opening, OpeningFolder
<1>2. /\ Locks(r) <=> folderLock' = t
      /\ \A u \in Threads \ {t} : folderLock' # u /\ folderLock # u
  BY <1>a, <1>c, BagAssumption DEF Locking, Deleted, Moving, Locks, Acting, Getting, Opening, OpeningFolder
<1>3. \A o \in Objects : refCount'[o] + Held(thread[t], o) = refCount[o] + Held(r, o)
  <2>1. \A o \in Objects : Held(r, o) = Held(thread[t], o) + One(f = o)
    BY <1>b, <1>c, BagAssumption DEF Held, One
  <2> QED
    BY <1>a, <1>c, <2>1, TakesBalances
<1>4. \A x \in Objects : r.folder = x => keyTable[x] # NoKey
  BY <1>c, BagAssumption DEF Takes
<1>5. r.pc \notin Opening /\ r.pc # "list" /\ r.pc # "fill"
  BY <1>c DEF Opening, OpeningFolder
<1>6. \A x \in Objects : x # r.vfolder /\ x \notin r.list
  BY <1>c, BagAssumption
<1> QED
  BY <1>c, <1>1, <1>2, <1>3, <1>4, <1>5, <1>6, RefsQuietStep

LEMMA RefsRenameGet ==
    ASSUME StoreInv, StoreInv', RefsInv, NEW t \in Threads, NEW r, DoesRenameGet(t, r)
    PROVE  RefsInv'
<1> DEFINE f == objectTable[thread[t].name]
<1>a. /\ RecordFits(thread[t]) /\ thread[t].pc \in {"renGet", "renWait"}
      /\ Locks(thread[t]) <=> folderLock = t
      /\ f \in Objects \cup {NoObject}
  BY StepFacts DEF DoesRenameGet
<1>b. thread[t].vfolder = NoObject /\ thread[t].list = {}
  BY <1>a DEF RecordFits, HasVFolder
<1>c. /\ Continues(t, r) /\ SameBut(r, thread[t], r.pc, f)
      /\ r.pc \in IF f = NoObject THEN {"renMove", "renWait"} ELSE {"renMove"}
      /\ Takes(f) /\ subs' = subs /\ folderLock' = folderLock
  BY DEF DoesRenameGet, RestSame
<1> HIDE DEF f
<1>d. /\ r.vfolder = f /\ r.list = {} /\ r.folder = thread[t].folder /\ r.name = thread[t].name
      /\ r.new = thread[t].new /\ r.deleting = thread[t].deleting
  BY <1>b, <1>c DEF SameBut
<1>1. RecordFits(r)
  BY <1>a, <1>c, <1>d DEF RecordFits, HasFolder, Locking, Deleted, Moving, Locks, Acting, Getting, Opening, OpeningFolder
<1>2. Locks(r) <=> folderLock' = t
  BY <1>a, <1>c, <1>d DEF RecordFits, Locking, Deleted, Moving, Locks, Acting, Getting, Opening, OpeningFolder
<1>3. \A o \in Objects : refCount'[o] + Held(thread[t], o) = refCount[o] + Held(r, o)
  <2>1. \A o \in Objects : Held(r, o) = Held(thread[t], o) + One(f = o)
    BY <1>b, <1>d, BagAssumption DEF Held, One
  <2> QED
    BY <1>a, <1>c, <2>1, TakesBalances
<1>4. \A x \in Objects : x = r.vfolder \/ x \in r.list => keyTable[x] # NoKey
  BY <1>c, <1>d, BagAssumption DEF Takes
<1>5. r.pc \notin Opening /\ r.pc # "list" /\ r.pc # "fill"
  BY <1>c DEF Opening, OpeningFolder
<1> QED
  BY <1>c, <1>d, <1>1, <1>2, <1>3, <1>4, <1>5, RefsQuietStep

LEMMA RefsRename ==
    ASSUME StoreInv, StoreInv', RefsInv, NEW t \in Threads, NEW r,
           DoesRemove(t, r) \/ DoesMove(t, r) \/ DoesRekey(t, r)
    PROVE  RefsInv'
<1>a. /\ RecordFits(thread[t]) /\ thread[t].pc \in {"delBag", "renMove", "rekey"}
      /\ Locks(thread[t]) <=> folderLock = t
  BY StepFacts DEF DoesRemove, DoesMove, DoesRekey
<1>b. thread[t].list = {} /\ (thread[t].pc # "renMove" => thread[t].vfolder = NoObject)
  BY <1>a DEF RecordFits, HasVFolder
<1>c. /\ Continues(t, r) /\ r.folder = thread[t].folder /\ r.vfolder = thread[t].vfolder /\ r.list = {}
      /\ r.name = thread[t].name /\ r.new = thread[t].new /\ r.deleting = thread[t].deleting
      /\ refCount' = refCount /\ subs' = subs /\ folderLock' = folderLock
  BY <1>b DEF DoesRemove, DoesMove, DoesRekey, SameBut, RestSame
<1>d. \/ r.pc = "unlock" /\ r.vfolder = NoObject
      \/ thread[t].pc = "renMove" /\ r.pc = "renUnref"
      \/ thread[t].pc = "renMove" /\ r.pc = "rekey" /\ r.vfolder = NoObject
  BY <1>b, <1>c DEF DoesRemove, DoesMove, DoesRekey, SameBut
<1>1. RecordFits(r)
  BY <1>a, <1>c, <1>d DEF RecordFits, HasFolder, HasVFolder, Locking, Deleted, Moving, Locks, Acting, Getting, Opening, OpeningFolder
<1>2. Locks(r) <=> folderLock' = t
  BY <1>a, <1>c, <1>d DEF RecordFits, Locking, Deleted, Moving, Locks, Acting, Getting, Opening, OpeningFolder
<1>3. \A o \in Objects : refCount'[o] + Held(thread[t], o) = refCount[o] + Held(r, o)
  BY <1>b, <1>c DEF Held
<1>5. r.pc \notin Opening /\ r.pc # "list" /\ r.pc # "fill"
  BY <1>d DEF Opening, OpeningFolder
<1>6. \A x \in Objects : x = r.vfolder \/ x \in r.list => x = thread[t].vfolder
  BY <1>c
<1> QED
  BY <1>c, <1>1, <1>2, <1>3, <1>5, <1>6, RefsQuietStep

LEMMA RefsRelease ==
    ASSUME StoreInv, StoreInv', RefsInv, NEW t \in Threads, NEW r, DoesRelease(t, r)
    PROVE  RefsInv'
<1>a. /\ RecordFits(thread[t]) /\ thread[t].pc \in {"keeps", "delState", "unlock"}
      /\ Locks(thread[t]) <=> folderLock = t
  BY StepFacts DEF DoesRelease
<1>b. thread[t].vfolder = NoObject /\ thread[t].list = {}
  BY <1>a DEF RecordFits, HasVFolder
<1>c. /\ Continues(t, r) /\ r.folder = NoObject /\ r.vfolder = NoObject /\ r.list = {}
      /\ ~r.deleting
      /\ \/ thread[t].pc = "keeps" /\ r.pc = "idle" /\ UNCHANGED folderLock
         \/ thread[t].pc = "delState" /\ r.pc = "delGet" /\ r.name = thread[t].name /\ UNCHANGED folderLock
         \/ thread[t].pc = "unlock" /\ r.pc = "idle" /\ folderLock' = NoThread
      /\ \/ Drops(thread[t].folder)
         \/ thread[t].folder = NoObject /\ UNCHANGED refCount
      /\ subs' = subs
  BY DEF DoesRelease
<1>1. RecordFits(r)
  BY <1>a, <1>c DEF RecordFits, Locking, Deleted, Moving, Locks, Acting, Getting, Opening, OpeningFolder
<1>2. /\ Locks(r) <=> folderLock' = t
      /\ \A u \in Threads \ {t} : folderLock' = u <=> folderLock = u
  BY <1>a, <1>c, BagAssumption DEF RecordFits, Locking, Deleted, Moving, Locks, Acting, Getting, Opening, OpeningFolder
<1>3. \A o \in Objects : refCount'[o] + Held(thread[t], o) = refCount[o] + Held(r, o)
  <2>1. CASE Drops(thread[t].folder)
    <3>1. \A o \in Objects : Held(thread[t], o) = Held(r, o) + One(thread[t].folder = o)
      BY <1>b, <1>c, BagAssumption DEF Held, One
    <3>2. thread[t].folder \in Objects
      BY <2>1 DEF Drops
    <3> QED
      BY <2>1, <3>1, <3>2, DropsBalances
  <2>2. CASE thread[t].folder = NoObject /\ UNCHANGED refCount
    BY <1>b, <1>c, <2>2 DEF Held
  <2> QED
    BY <1>c, <2>1, <2>2
<1>5. r.pc \notin Opening /\ r.pc # "list" /\ r.pc # "fill"
  BY <1>c DEF Opening, OpeningFolder
<1>6. \A x \in Objects : x # r.folder /\ x # r.vfolder /\ x \notin r.list
  BY <1>c, BagAssumption
<1> QED
  BY <1>c, <1>1, <1>2, <1>3, <1>5, <1>6, RefsQuietStep

LEMMA RefsList ==
    ASSUME StoreInv, StoreInv', RefsInv, NEW t \in Threads, NEW r, DoesList(t, r)
    PROVE  RefsInv'
<1>a. /\ RecordFits(thread[t]) /\ thread[t].pc = "list" /\ refCount \in [Objects -> Nat]
      /\ Locks(thread[t]) <=> folderLock = t
      /\ objectTable \in [Keys -> Objects \cup {NoObject}]
  BY StepFacts DEF DoesList
<1>b. thread[t].vfolder = NoObject /\ thread[t].list = {} /\ subs[thread[t].folder] = {}
  BY <1>a DEF RecordFits, HasVFolder, RefsInv, FillFits
<1>c. /\ Continues(t, r) /\ r.pc = "fill" /\ r.list = Filed /\ r.name = thread[t].name
      /\ r.folder = thread[t].folder /\ r.vfolder = NoObject /\ r.deleting = thread[t].deleting
      /\ refCount' = [o \in Objects |-> IF o \in Filed THEN refCount[o] + 1 ELSE refCount[o]]
      /\ subs' = subs /\ folderLock' = folderLock
  BY <1>b DEF DoesList
<1>1. RecordFits(r)
  BY <1>a, <1>c DEF RecordFits, HasFolder, Opening, Locking, Deleted, Moving, Locks, Acting, Getting, OpeningFolder
<1>2. Locks(r) <=> folderLock' = t
  BY <1>a, <1>c DEF Locking, Deleted, Moving, Locks, Acting, Getting, Opening, OpeningFolder
<1>3. \A o \in Objects : refCount'[o] + Held(thread[t], o) = refCount[o] + Held(r, o)
  <2> SUFFICES ASSUME NEW o \in Objects
               PROVE  refCount'[o] + Held(thread[t], o) = refCount[o] + Held(r, o)
    OBVIOUS
  <2>1. Held(r, o) = Held(thread[t], o) + One(o \in Filed) /\ Held(thread[t], o) \in Nat
    BY <1>b, <1>c DEF Held, One
  <2>2. refCount'[o] = refCount[o] + One(o \in Filed) /\ One(o \in Filed) \in Nat /\ refCount[o] \in Nat
    BY <1>a, <1>c DEF One
  <2> QED
    BY <2>1, <2>2
<1>4. \A x \in Objects : x = r.vfolder \/ x \in r.list => keyTable[x] # NoKey
  BY <1>c, BagAssumption DEF Filed, StoreInv, BagInv, TablesAgree
<1>5. thread[t].pc \in Opening /\ r.pc \notin Early
  BY <1>a, <1>c DEF Opening, Early
<1> QED
  BY <1>b, <1>c, <1>1, <1>2, <1>3, <1>4, <1>5, RefsQuietStep

LEMMA RefsAddSub ==
    ASSUME StoreInv, StoreInv', RefsInv, NEW t \in Threads, NEW r, DoesAddSub(t, r)
    PROVE  RefsInv'
<1> DEFINE f == thread[t].folder
           v == thread[t].vfolder
<1>a. /\ RecordFits(thread[t]) /\ thread[t].pc = "addSub" /\ refCount \in [Objects -> Nat]
      /\ Locks(thread[t]) <=> folderLock = t
      /\ subs \in [Objects -> SUBSET Objects]
      /\ Fits(thread[t], creating[t], fresh[t])
      /\ f \in Objects \cup {NoObject} /\ v \in Objects \cup {NoObject}
  BY StepFacts DEF DoesAddSub
<1>b. thread[t].list = {} /\ f \in Objects /\ v \in Objects
  BY <1>a DEF RecordFits, Fits, HasFolder, Opening, OpeningFolder, HasVFolder
<1>n. f \notin subs[v]
  BY <1>a, <1>b DEF RefsInv, FreshIsPrivate, Opening, OpeningFolder, Early
<1>c. /\ Continues(t, r) /\ r.pc = "unrefTrash" /\ r.list = {}
      /\ r.folder = f /\ r.vfolder = v /\ r.name = thread[t].name /\ r.deleting = thread[t].deleting
      /\ refCount' = [refCount EXCEPT ![f] = @ + 1]
      /\ subs' = [subs EXCEPT ![v] = @ \cup {f}] /\ folderLock' = folderLock
  BY <1>b DEF DoesAddSub, SameBut
<1>1. RecordFits(r)
  BY <1>a, <1>c DEF RecordFits, HasFolder, HasVFolder, Opening, OpeningFolder, Locking, Deleted, Moving, Locks, Acting, Getting
<1>2. Locks(r) <=> folderLock' = t
  BY <1>a, <1>c DEF Locking, Deleted, Moving, Locks, Acting, Getting, Opening, OpeningFolder
<1>3. \A o \in Objects : refCount'[o] + Held(thread[t], o) + Cardinality(Shows(o))
                           = refCount[o] + Held(r, o) + Cardinality(Shows(o)')
  <2> SUFFICES ASSUME NEW o \in Objects
               PROVE  refCount'[o] + Held(thread[t], o) + Cardinality(Shows(o))
                           = refCount[o] + Held(r, o) + Cardinality(Shows(o)')
    OBVIOUS
  <2> DEFINE s == subs[v] \cup {f}
  <2>1. s \in SUBSET Objects /\ subs' = [subs EXCEPT ![v] = s]
    BY <1>a, <1>b, <1>c
  <2> HIDE DEF f, v
  <2>2. One(o \in s) = One(o \in subs[v]) + One(o = f)
    BY <1>n DEF One
  <2> HIDE DEF s
  <2>3. /\ Cardinality(Shows(o)) \in Nat /\ Cardinality(Shows(o)') \in Nat
        /\ Cardinality(Shows(o)') + One(o \in subs[v]) = Cardinality(Shows(o)) + One(o \in s)
    BY <1>a, <1>b, <2>1, ShowsChange
  <2>4. Held(thread[t], o) = Held(r, o) /\ Held(r, o) \in Nat
    BY <1>b, <1>c DEF Held, One, f, v
  <2>5. refCount'[o] = refCount[o] + One(o = f) /\ refCount[o] \in Nat
    BY <1>a, <1>b, <1>c DEF One
  <2>6. One(o \in subs[v]) \in Nat /\ One(o = f) \in Nat
    BY DEF One
  <2> QED
    BY <2>2, <2>3, <2>4, <2>5, <2>6
<1>4. \A w, x \in Objects : x \in subs'[w] => x \in subs[w] \/ (w = v /\ x = f)
  BY <1>a, <1>b, <1>c
<1>5. thread[t].pc \in Opening /\ r.pc \notin Early
  BY <1>a, <1>c DEF Opening, OpeningFolder, Early
<1>6. r \in Thread /\ thread' = [thread EXCEPT ![t] = r] /\ r.pc # "list" /\ r.pc # "fill"
  BY <1>c DEF Continues
<1> QED
  BY <1>b, <1>c, <1>1, <1>2, <1>3, <1>4, <1>5, <1>6, RefsStep

LEMMA RefsFill ==
    ASSUME StoreInv, StoreInv', RefsInv, NEW t \in Threads, NEW r, DoesFill(t, r)
    PROVE  RefsInv'
<1> DEFINE v == thread[t].folder
<1>a. /\ RecordFits(thread[t]) /\ thread[t].pc = "fill" /\ refCount \in [Objects -> Nat]
      /\ Locks(thread[t]) <=> folderLock = t
      /\ subs \in [Objects -> SUBSET Objects] /\ thread[t].list \in SUBSET Objects
      /\ Fits(thread[t], creating[t], fresh[t])
      /\ v \in Objects \cup {NoObject}
  BY StepFacts DEF DoesFill
<1>b. /\ thread[t].vfolder = NoObject /\ v \in Objects /\ thread[t].list \cap subs[v] = {}
      /\ thread[t].pc \in Opening
  BY <1>a DEF RecordFits, Fits, HasFolder, Opening, HasVFolder, RefsInv, FillFits
<1>c. /\ Continues(t, r) /\ r.pc \in {"fill", "add"} /\ (r.pc = "add" => r.list = {})
      /\ r.folder = v /\ r.vfolder = NoObject /\ r.list \subseteq thread[t].list /\ r.name = thread[t].name
      /\ refCount' = refCount /\ folderLock' = folderLock /\ r.deleting = thread[t].deleting
  BY <1>b DEF DoesFill
<1>1. RecordFits(r)
  BY <1>a, <1>c DEF RecordFits, HasFolder, Opening, Locking, Deleted, Moving, Locks, Acting, Getting, OpeningFolder
<1>2. Locks(r) <=> folderLock' = t
  BY <1>a, <1>c DEF Locking, Deleted, Moving, Locks, Acting, Getting, Opening, OpeningFolder
<1>3. r.pc \notin Early /\ r.pc # "list"
  BY <1>c DEF Early
<1>4. r \in Thread /\ thread' = [thread EXCEPT ![t] = r]
  BY <1>c DEF Continues
<1>5. CASE thread[t].list = {} /\ r.list = {} /\ r.pc = "add" /\ subs' = subs
  <2>1. \A o \in Objects : refCount'[o] + Held(thread[t], o) = refCount[o] + Held(r, o)
    BY <1>b, <1>c, <1>5 DEF Held
  <2>2. \A x \in Objects : x # r.vfolder /\ x \notin r.list
    BY <1>c, <1>5, BagAssumption
  <2> QED
    BY <1>b, <1>c, <1>1, <1>2, <1>3, <1>5, <2>1, <2>2, RefsQuietStep
<1>6. CASE \E f \in thread[t].list : /\ r.list = thread[t].list \ {f} /\ r.pc = "fill"
                                     /\ subs' = [subs EXCEPT ![v] = @ \cup {f}]
  <2>1. PICK f \in thread[t].list : /\ r.list = thread[t].list \ {f} /\ r.pc = "fill"
                                    /\ subs' = [subs EXCEPT ![v] = @ \cup {f}]
    BY <1>6
  <2>2. f \in Objects /\ f \notin subs[v]
    BY <1>a, <1>b
  <2>3. \A o \in Objects : refCount'[o] + Held(thread[t], o) + Cardinality(Shows(o))
                           = refCount[o] + Held(r, o) + Cardinality(Shows(o)')
    <3> SUFFICES ASSUME NEW o \in Objects
                 PROVE  refCount'[o] + Held(thread[t], o) + Cardinality(Shows(o))
                           = refCount[o] + Held(r, o) + Cardinality(Shows(o)')
      OBVIOUS
    <3> DEFINE s == subs[v] \cup {f}
    <3>1. s \in SUBSET Objects /\ subs' = [subs EXCEPT ![v] = s]
      BY <1>a, <1>b, <2>1, <2>2
    <3> HIDE DEF v
    <3>2. One(o \in s) = One(o \in subs[v]) + One(o = f)
      BY <2>2 DEF One
    <3> HIDE DEF s
    <3>3. /\ Cardinality(Shows(o)) \in Nat /\ Cardinality(Shows(o)') \in Nat
          /\ Cardinality(Shows(o)') + One(o \in subs[v]) = Cardinality(Shows(o)) + One(o \in s)
      BY <1>a, <1>b, <3>1, ShowsChange
    <3>4. Held(thread[t], o) = Held(r, o) + One(o = f) /\ Held(r, o) \in Nat
      BY <1>b, <1>c, <2>1 DEF Held, One, v
    <3>5. refCount'[o] = refCount[o] /\ refCount[o] \in Nat
      BY <1>a, <1>c
    <3>6. One(o \in subs[v]) \in Nat /\ One(o = f) \in Nat
      BY DEF One
    <3> QED
      BY <3>2, <3>3, <3>4, <3>5, <3>6
  <2>4. \A w, x \in Objects : x \in subs'[w] => x \in subs[w] \/ (w = v /\ x \in thread[t].list)
    BY <1>a, <1>b, <2>1
  <2>5. r.list \cap subs'[v] = {}
    BY <1>a, <1>b, <2>1
  <2>6. \A x \in Objects : x = r.vfolder \/ x \in r.list => x \in thread[t].list
    BY <1>c, BagAssumption
  <2> QED
    BY <1>b, <1>c, <1>1, <1>2, <1>3, <1>4, <2>3, <2>4, <2>5, <2>6, RefsStep
<1> QED
  BY <1>5, <1>6 DEF DoesFill

\* A folder leaves a virtual folder, which had a reference to it.
LEMMA ShowsDrops ==
    ASSUME StoreInv, NEW v \in Objects, NEW f \in subs[v], Drops(f),
           subs' = [subs EXCEPT ![v] = @ \ {f}], NEW o \in Objects
    PROVE  /\ Cardinality(Shows(o)) \in Nat /\ Cardinality(Shows(o)') \in Nat
           /\ refCount[o] \in Nat /\ refCount'[o] \in Int
           /\ refCount'[o] + Cardinality(Shows(o)) = refCount[o] + Cardinality(Shows(o)')
<1>a. subs \in [Objects -> SUBSET Objects] /\ refCount \in [Objects -> Nat]
  BY DEF StoreInv, RestTyped, BagInv, BagTypeOK
<1> DEFINE s == subs[v] \ {f}
<1>1. s \in SUBSET Objects /\ subs' = [subs EXCEPT ![v] = s]
  BY <1>a
<1>2. One(o \in subs[v]) = One(o \in s) + One(o = f)
  BY DEF One
<1> HIDE DEF s
<1>3. /\ Cardinality(Shows(o)) \in Nat /\ Cardinality(Shows(o)') \in Nat
      /\ Cardinality(Shows(o)') + One(o \in subs[v]) = Cardinality(Shows(o)) + One(o \in s)
  BY <1>a, <1>1, ShowsChange
<1>4. f \in Objects /\ refCount[f] > 0 /\ refCount' = [refCount EXCEPT ![f] = @ - 1]
  BY <1>a DEF Drops
<1>5. refCount'[o] = refCount[o] - One(o = f) /\ refCount[o] \in Nat
  <2>1. CASE o = f
    BY <1>a, <1>4, <2>1 DEF One
  <2>2. CASE o # f
    BY <1>a, <1>4, <2>2 DEF One
  <2> QED
    BY <2>1, <2>2
<1>6. One(o \in s) \in Nat /\ One(o = f) \in Nat
  BY DEF One
<1> DEFINE a == Cardinality(Shows(o))
           b == Cardinality(Shows(o)')
           x == One(o \in s)
           y == One(o = f)
           m == refCount[o]
           n == refCount'[o]
<1>7. a \in Nat /\ b \in Nat /\ x \in Nat /\ y \in Nat /\ m \in Nat /\ b + (x + y) = a + x /\ n = m - y
  BY <1>2, <1>3, <1>5, <1>6
<1> HIDE DEF a, b, x, y, m, n
<1>8. a \in Nat /\ b \in Nat /\ m \in Nat /\ n \in Int /\ n + a = m + b
  BY <1>7
<1> QED
  BY <1>8 DEF a, b, m, n

LEMMA RefsRemoveSub ==
    ASSUME StoreInv, StoreInv', RefsInv, NEW t \in Threads, NEW r, DoesRemoveSub(t, r)
    PROVE  RefsInv'
<1> DEFINE f == thread[t].folder
<1>a. /\ RecordFits(thread[t]) /\ thread[t].pc \in {"delSub", "delMark"}
      /\ Locks(thread[t]) <=> folderLock = t
      /\ subs \in [Objects -> SUBSET Objects]
  BY StepFacts DEF DoesRemoveSub
<1>c. /\ Continues(t, r) /\ r.list = thread[t].list /\ r.name = thread[t].name
      /\ r.folder = f /\ r.vfolder = thread[t].vfolder /\ r.deleting = thread[t].deleting
      /\ \/ thread[t].pc = "delSub" /\ r.pc = "delUnrefTrash"
         \/ thread[t].pc = "delMark" /\ r.pc = "delBag"
      /\ folderLock' = folderLock
  BY DEF DoesRemoveSub, SameBut
<1>b. r.list = {} /\ (r.pc = "delBag" => r.vfolder = NoObject)
  BY <1>a, <1>c DEF RecordFits, HasVFolder
<1>1. RecordFits(r)
  BY <1>a, <1>b, <1>c DEF RecordFits, HasFolder, HasVFolder, Locking, Deleted, Moving, Locks, Acting, Getting, Opening, OpeningFolder
<1>2. Locks(r) <=> folderLock' = t
  BY <1>a, <1>c DEF RecordFits, Locking, Deleted, Moving, Locks, Acting, Getting, Opening, OpeningFolder
<1>3. \A o \in Objects : Held(thread[t], o) = Held(r, o) /\ Held(r, o) \in Nat
  BY <1>c DEF Held, One
<1>4. r \in Thread /\ thread' = [thread EXCEPT ![t] = r] /\ r.pc # "list" /\ r.pc # "fill"
  BY <1>c DEF Continues
<1>5. r.pc \notin Opening
  BY <1>c DEF Opening, OpeningFolder
<1>6. CASE \E v \in Objects : /\ f \in subs[v] /\ Drops(f)
                              /\ subs' = [subs EXCEPT ![v] = @ \ {f}]
  <2>1. PICK v \in Objects : /\ f \in subs[v] /\ Drops(f)
                             /\ subs' = [subs EXCEPT ![v] = @ \ {f}]
    BY <1>6
  <2>2. \A o \in Objects : refCount'[o] + Held(thread[t], o) + Cardinality(Shows(o))
                           = refCount[o] + Held(r, o) + Cardinality(Shows(o)')
    <3> SUFFICES ASSUME NEW o \in Objects
                 PROVE  refCount'[o] + Held(thread[t], o) + Cardinality(Shows(o))
                           = refCount[o] + Held(r, o) + Cardinality(Shows(o)')
      OBVIOUS
    <3>1. /\ Cardinality(Shows(o)) \in Nat /\ Cardinality(Shows(o)') \in Nat
          /\ refCount[o] \in Nat /\ refCount'[o] \in Int
          /\ refCount'[o] + Cardinality(Shows(o)) = refCount[o] + Cardinality(Shows(o)')
      BY <2>1, ShowsDrops
    <3> QED
      BY <1>3, <3>1
  <2>3. \A w, x \in Objects : x \in subs'[w] => x \in subs[w]
    BY <1>a, <2>1
  <2> QED
    BY <1>b, <1>c, <1>1, <1>2, <1>4, <1>5, <2>2, <2>3, RefsStep
<1>7. CASE UNCHANGED <<refCount, subs>>
  <2>1. \A o \in Objects : refCount'[o] + Held(thread[t], o) = refCount[o] + Held(r, o)
    BY <1>3, <1>7
  <2> QED
    BY <1>b, <1>c, <1>1, <1>2, <1>4, <1>5, <1>7, <2>1, RefsQuietStep
<1> QED
  BY <1>6, <1>7 DEF DoesRemoveSub

LEMMA RefsFinalise ==
    ASSUME StoreInv, StoreInv', RefsInv, NEW v \in Objects, DoesFinalise(v)
    PROVE  RefsInv'
<1>1. PICK f \in subs[v] : Drops(f) /\ subs' = [subs EXCEPT ![v] = @ \ {f}]
  BY DEF DoesFinalise
<1>2. thread' = thread /\ folderLock' = folderLock
  BY DEF DoesFinalise
<1>3. subs \in [Objects -> SUBSET Objects] /\ RecordsFit /\ LockFits /\ RefsFit /\ FreshIsPrivate /\ FillFits
  BY DEF StoreInv, RestTyped, RefsInv
<1>4. \A w \in Objects : subs'[w] \subseteq subs[w]
  BY <1>1, <1>3
<1>5. RecordsFit' /\ LockFits'
  BY <1>2, <1>3 DEF RecordsFit, LockFits
<1>6. RefsFit'
  <2> SUFFICES ASSUME NEW o \in Objects
               PROVE  refCount'[o] = Loads(o)' + Cardinality(Shows(o)')
    BY DEF RefsFit, Loads
  <2>1. /\ Cardinality(Shows(o)) \in Nat /\ Cardinality(Shows(o)') \in Nat
        /\ refCount[o] \in Nat /\ refCount'[o] \in Int
        /\ refCount'[o] + Cardinality(Shows(o)) = refCount[o] + Cardinality(Shows(o)')
    BY <1>1, ShowsDrops
  <2>2. Loads(o)' = Loads(o)
    BY <1>2 DEF Loads, Holders, VHolders, Listers
  <2>3. refCount[o] = Loads(o) + Cardinality(Shows(o))
    BY <1>3 DEF RefsFit, Loads
  <2>4. Loads(o) \in Nat
    <3>1. /\ Holders(o) \in SUBSET Threads /\ VHolders(o) \in SUBSET Threads
          /\ Listers(o) \in SUBSET Threads
      BY DEF Holders, VHolders, Listers
    <3>2. /\ Cardinality(Holders(o)) \in Nat /\ Cardinality(VHolders(o)) \in Nat
          /\ Cardinality(Listers(o)) \in Nat
      BY <3>1, FiniteAssumption, FS_Subset, FS_CardinalityType
    <3> QED
      BY <3>2 DEF Loads
  <2> QED
    BY <2>1, <2>2, <2>3, <2>4
<1>7. FreshIsPrivate'
  BY <1>2, <1>3, <1>4 DEF FreshIsPrivate
<1>8. FillFits'
  <2> SUFFICES ASSUME NEW u \in Threads
               PROVE  /\ thread[u].pc = "list" => subs'[thread[u].folder] = {}
                      /\ thread[u].pc = "fill" => thread[u].list \cap subs'[thread[u].folder] = {}
    BY <1>2 DEF FillFits
  <2>1. thread[u].pc \in {"list", "fill"} => thread[u].folder \in Objects
    BY OpeningIsNew DEF Opening
  <2> QED
    BY <1>3, <1>4, <2>1 DEF FillFits
<1> QED
  BY <1>5, <1>6, <1>7, <1>8 DEF RefsInv

-----------------------------------------------------------------------------
(* Every step is one of these.                                             *)

Does(t, r) ==
    \/ DoesReserve(t, r) \/ DoesOpen(t, r) \/ DoesReturn(t, r) \/ DoesAdd(t, r)
    \/ DoesGetTrash(t, r) \/ DoesUnrefVFolder(t, r) \/ DoesAddSub(t, r)
    \/ DoesList(t, r) \/ DoesFill(t, r) \/ DoesRelease(t, r)
    \/ DoesCall(t, r) \/ DoesFail(t, r) \/ DoesBeginDelete(t, r) \/ DoesBeginRename(t, r)
    \/ DoesDeleteGet(t, r) \/ DoesRenameGet(t, r)
    \/ DoesRemoveSub(t, r) \/ DoesRemove(t, r) \/ DoesMove(t, r) \/ DoesRekey(t, r)

\* A thread inside a call.
LEMMA GoesDoes ==
    ASSUME StoreInv, RefsInv, NEW t \in Threads, Goes(t)
    PROVE  ~aborted /\ \E r : Does(t, r)
<1>1. CASE get_folder_reserved(t) \/ delete_folder_state(t)
  BY <1>1, ReserveEffect DEF Does, get_folder_reserved, delete_folder_state, At
<1>2. CASE get_folder_excl(t) \/ get_folder_fail(t) \/ get_folder_abort(t)
  BY <1>2, ReturnEffect DEF Does, get_folder_excl, get_folder_fail, get_folder_abort, At
<1>3. CASE get_folder_open(t) \/ get_special_new(t)
  BY <1>3, OpenEffect DEF Does, get_folder_open, get_special_new, At
<1>4. CASE \/ get_folder_trash(t) \/ get_folder_trash_woken(t)
           \/ delete_folder_trash(t) \/ delete_folder_trash_woken(t)
  BY <1>4, GetTrashEffect DEF Does, get_folder_trash, get_folder_trash_woken, delete_folder_trash,
     delete_folder_trash_woken, At
<1>5. CASE get_folder_add_sub(t)
  BY <1>5, AddSubEffect DEF Does, get_folder_add_sub, At
<1>6. CASE get_folder_unref_trash(t) \/ delete_folder_unref_trash(t) \/ rename_folder_unref(t)
  BY <1>6, UnrefVFolderEffect DEF Does, get_folder_unref_trash, delete_folder_unref_trash,
     rename_folder_unref, At
<1>7. CASE get_folder_add(t)
  BY <1>7, AddEffect DEF Does, get_folder_add, At
<1>8. CASE get_special_list(t)
  BY <1>8, ListEffect DEF Does, get_special_list, At
<1>9. CASE get_special_fill(t)
  BY <1>9, FillEffect DEF Does, get_special_fill, At
<1>10. CASE delete_folder_get(t) \/ delete_folder_woken(t)
  BY <1>10, DeleteGetEffect DEF Does, delete_folder_get, delete_folder_woken, At
<1>11. CASE delete_folder_sub(t) \/ camel_folder_delete(t)
  BY <1>11, RemoveSubEffect DEF Does, delete_folder_sub, camel_folder_delete, At
<1>12. CASE delete_folder_bag(t)
  BY <1>12, RemoveEffect DEF Does, delete_folder_bag, At
<1>13. CASE rename_folder_get(t) \/ rename_folder_woken(t)
  BY <1>13, RenameGetEffect DEF Does, rename_folder_get, rename_folder_woken, At
<1>14. CASE rename_folder_move(t)
  BY <1>14, MoveEffect DEF Does, rename_folder_move, At
<1>15. CASE rename_folder_rekey(t)
  BY <1>15, RekeyEffect DEF Does, rename_folder_rekey, At
<1>16. CASE unlock_folders(t)
  BY <1>16, ReleaseEffect DEF Does, unlock_folders, At
<1>17. CASE delete_folder_dir(t)
  BY <1>17, DirEffect DEF Does, delete_folder_dir, At
<1>18. CASE delete_folder_fail(t)
  BY <1>18, FailEffect DEF Does, delete_folder_fail, At
<1>19. CASE delete_folder_state_unref(t)
  BY <1>19, StateEffect DEF Does, delete_folder_state_unref, At
<1>20. CASE rename_folder_list(t)
  BY <1>20, BeginRenameEffect DEF Does, rename_folder_list, At
<1> QED
  BY <1>1, <1>2, <1>3, <1>4, <1>5, <1>6, <1>7, <1>8, <1>9, <1>10, <1>11, <1>12, <1>13, <1>14, <1>15,
     <1>16, <1>17, <1>18, <1>19, <1>20 DEF Goes

\* Any step.
LEMMA NextDoes ==
    ASSUME StoreInv, RefsInv, Next
    PROVE  /\ ~aborted
           /\ \/ \E t \in Threads : \E r : Does(t, r)
              \/ \E v \in Objects : DoesFinalise(v)
<1>1. ASSUME NEW t \in Threads, Goes(t)
      PROVE  ~aborted /\ \E r : Does(t, r)
  BY <1>1, GoesDoes
<1>2. ASSUME NEW t \in Threads, release_folder(t)
      PROVE  ~aborted /\ \E r : Does(t, r)
  BY <1>2, ReleaseEffect DEF Does, release_folder, At
<1>3. ASSUME NEW t \in Threads, NEW k \in Keys, NEW create \in BOOLEAN, NEW excl \in BOOLEAN,
             get_folder(t, k, create, excl)
      PROVE  ~aborted /\ \E r : Does(t, r)
  <2>1. ~aborted
    BY <1>3 DEF get_folder, Call, At
  <2> QED
    BY <1>3, <2>1, ReserveEffect DEF Does
<1>4. ASSUME NEW t \in Threads, NEW k \in Names, delete_folder(t, k)
      PROVE  ~aborted /\ \E r : Does(t, r)
  BY <1>4, CallEffect DEF Does, delete_folder, Call, At
<1>5. ASSUME NEW t \in Threads, NEW old \in Names, NEW new \in Names, rename_folder(t, old, new)
      PROVE  ~aborted /\ \E r : Does(t, r)
  BY <1>5, CallEffect DEF Does, rename_folder, Call, At
<1>6. ASSUME NEW v \in Objects, vee_folder_finalise(v)
      PROVE  ~aborted /\ DoesFinalise(v)
  BY <1>6, FinaliseEffect DEF vee_folder_finalise, Unref, camel_object_unref
<1>7. VTrash \in Keys /\ Names \subseteq Keys
  BY StoreAssumption DEF Names
<1> QED
  BY <1>1, <1>2, <1>3, <1>4, <1>5, <1>6, <1>7 DEF Next

LEMMA InitRefsInv == Init => RefsInv
<1> SUFFICES ASSUME Init PROVE RefsInv
  OBVIOUS
<1>1. \A t \in Threads : thread[t] = Idle
  BY DEF Init
<1>2. RecordsFit
  BY <1>1, IdleFields DEF RecordsFit, RecordFits, Locking, Deleted, Moving, Locks, Acting, Getting, Opening, OpeningFolder
<1>3. LockFits
  BY <1>1, IdleFields, BagAssumption DEF LockFits, Locking, Deleted, Moving, Init, Locks, Acting, Getting, Opening, OpeningFolder
<1>4. RefsFit
  <2> SUFFICES ASSUME NEW o \in Objects
               PROVE  refCount[o] = Cardinality(Holders(o)) + Cardinality(VHolders(o))
                                    + Cardinality(Listers(o)) + Cardinality(Shows(o))
    BY DEF RefsFit
  <2>1. Holders(o) = {} /\ VHolders(o) = {} /\ Listers(o) = {} /\ Shows(o) = {}
    BY <1>1, IdleFields, BagAssumption DEF Holders, VHolders, Listers, Shows, Init
  <2>2. refCount[o] = 0
    BY DEF Init, BagInit
  <2> QED
    BY <2>1, <2>2, FS_EmptySet
<1>5. FreshIsPrivate /\ FillFits
  BY <1>1, IdleFields DEF FreshIsPrivate, FillFits, Opening, OpeningFolder
<1> QED
  BY <1>2, <1>3, <1>4, <1>5 DEF RefsInv

LEMMA NextRefsInv == StoreInv /\ StoreInv' /\ RefsInv /\ [Next]_vars => RefsInv'
<1> SUFFICES ASSUME StoreInv, StoreInv', RefsInv, [Next]_vars PROVE RefsInv'
  OBVIOUS
<1>1. ASSUME NEW t \in Threads, NEW r, Does(t, r)
      PROVE  RefsInv'
  BY <1>1, RefsReserve, RefsOpen, RefsReturn, RefsAdd, RefsGetTrash, RefsUnrefVFolder, RefsAddSub,
     RefsList, RefsFill, RefsRelease, RefsBegin, RefsCall, RefsDeleteGet, RefsRenameGet, RefsRemoveSub,
     RefsRename DEF Does
<1>2. ASSUME NEW v \in Objects, DoesFinalise(v)
      PROVE  RefsInv'
  BY <1>2, RefsFinalise
<1>3. CASE UNCHANGED vars
  <2>1. UNCHANGED <<thread, folderLock, refCount, subs>>
    BY <1>3 DEF vars, bagVars
  <2> QED
    BY <2>1 DEF RefsInv, RecordsFit, LockFits, RefsFit, Holders, VHolders, Listers, Shows,
       FreshIsPrivate, FillFits
<1> QED
  BY <1>1, <1>2, <1>3, NextDoes

\* The reference counts of folders are exact at every place of get_folder,
\* delete_folder, rename_folder and of the finaliser.
THEOREM StoreRefsAreOwned == Spec => []RefsAreOwned
<1>1. Spec => [](StoreInv /\ RefsInv)
  <2>1. Init => StoreInv /\ RefsInv
    BY InitStoreInv, InitRefsInv
  <2>2. StoreInv /\ RefsInv /\ [Next]_vars => (StoreInv /\ RefsInv)'
    BY NextStoreInv, NextRefsInv
  <2> QED
    BY <2>1, <2>2, PTL DEF Spec
<1>2. StoreInv /\ RefsInv => RefsAreOwned
  BY DEF RefsInv, RefsFit, RefsAreOwned, Holders, VHolders, Listers, Shows
<1> QED
  BY <1>1, <1>2, PTL

-----------------------------------------------------------------------------
(* Open folders are on disk: again one lemma for each effect, or for those *)
(* with the same reason.                                                   *)

\* OpenAs in words: in the bag, or on its way into it.
LEMMA OpenAsMeans ==
    ASSUME NEW k, NEW f
    PROVE  f \in OpenAs(k) <=> \/ f = objectTable[k]
                               \/ \E u \in Threads : Comes(thread[u]) /\ thread[u].name = k /\ thread[u].folder = f
BY DEF OpenAs, Comes, OpeningFolder

\* The same of the next state.
LEMMA OpenAsMeansNext ==
    ASSUME NEW k, NEW f
    PROVE  f \in OpenAs(k)' <=> \/ f = objectTable'[k]
                                \/ \E u \in Threads : Comes(thread'[u]) /\ thread'[u].name = k /\ thread'[u].folder = f
BY DEF OpenAs, Comes, OpeningFolder

\* A step opens no folder but the one the thread comes with.
LEMMA OpenAsStep ==
    ASSUME thread \in [Threads -> Thread], NEW t \in Threads, NEW r, Continues(t, r),
           NEW k \in Keys, NEW f \in Objects,
           objectTable'[k] \in {objectTable[k], NoObject},
           Comes(r) /\ r.folder = f /\ r.name = k =>
              Comes(thread[t]) /\ thread[t].folder = f /\ thread[t].name = k,
           f \in OpenAs(k)'
    PROVE  f \in OpenAs(k)
<1>1. thread'[t] = r /\ \A u \in Threads \ {t} : thread'[u] = thread[u]
  BY DEF Continues
<1>2. CASE f = objectTable'[k]
  BY <1>2, BagAssumption, OpenAsMeans
<1>3. CASE \E u \in Threads : Comes(thread'[u]) /\ thread'[u].name = k /\ thread'[u].folder = f
  BY <1>1, <1>3, OpenAsMeans
<1> QED
  BY <1>2, <1>3, OpenAsMeansNext

\* A folder on its way into the bag is held by nobody else, and keeps what is
\* known of it.
LEMMA ComingIsPrivate ==
    ASSUME StoreInv, RefsInv, NEW u \in Threads, Comes(thread[u])
    PROVE  /\ thread[u].pc \in Opening /\ thread[u].folder \in Objects
           /\ thread[u].name \in creating[u] /\ thread[u].name \in Keys
           /\ \A t \in Threads \ {u} : thread[t].folder # thread[u].folder
           /\ \A t \in Threads : thread[t].vfolder # thread[u].folder
           /\ \A t \in Threads : thread[u].folder \notin thread[t].list
<1>1. thread[u].pc \in Opening
  BY DEF Comes, Opening
<1>2. thread[u].folder \in Objects
  BY <1>1, OpeningIsNew
<1>3. thread[u].name \in creating[u]
  BY <1>1, StepFacts DEF Fits
<1> QED
  BY <1>1, <1>2, <1>3, StepFacts DEF RefsInv, FreshIsPrivate

\* A dropped reference: a folder that is open afterwards has kept its history.
LEMMA DropsKeepsOpen ==
    ASSUME StoreInv, NEW x, Drops(x), NEW k \in Keys, NEW f \in Objects,
           f = objectTable'[k] \/ \E u \in Threads : thread[u].pc \in Opening /\ thread[u].folder = f
    PROVE  /\ f \in strayed <=> f \in strayed'
           /\ f \in missed <=> f \in missed'
<1>1. f = x => refCount[x] # 1
  BY DEF Drops
<1> QED
  BY <1>1 DEF Drops

\* What a step has to show.
LEMMA DiskStep ==
    ASSUME StoreInv, RefsInv, DiskInv, ~aborted, NEW t \in Threads, NEW r, Continues(t, r),
           \A k \in Names \ clashed' : \A f \in Objects \ strayed' : f \in OpenAs(k)' =>
              \/ k \in disk' \/ Excuses(r, k, f) \/ Stuck(k)'
              \/ /\ f \in OpenAs(k) /\ f \notin strayed /\ k \notin clashed /\ k \notin disk
                 /\ ~Excuses(thread[t], k, f),
           \A u \in Threads \ {t} : Moves(thread[u]) => disk \subseteq disk',
           Moves(r) => r.new \in disk'
    PROVE  DiskInv'
<1>a. thread \in [Threads -> Thread] /\ FoldersExist /\ MovedExist
  BY DEF StoreInv, ThreadsInv, DiskInv
<1>b. thread'[t] = r /\ \A u \in Threads \ {t} : thread'[u] = thread[u]
  BY <1>a DEF Continues
<1>1. FoldersExist'
  <2> SUFFICES ASSUME NEW k \in Names, k \notin clashed', NEW f \in Objects, f \notin strayed', f \in OpenAs(k)'
               PROVE  k \in disk' \/ (\E u \in Threads : Excuses(thread'[u], k, f)) \/ Stuck(k)'
    BY DEF FoldersExist
  <2>1. CASE k \in disk' \/ Excuses(r, k, f) \/ Stuck(k)'
    BY <1>b, <2>1
  <2>2. CASE /\ f \in OpenAs(k) /\ f \notin strayed /\ k \notin clashed /\ k \notin disk
             /\ ~Excuses(thread[t], k, f)
    <3>1. ~Stuck(k)
      BY DEF Stuck
    <3>2. PICK u \in Threads : Excuses(thread[u], k, f)
      BY <1>a, <2>2, <3>1 DEF FoldersExist
    <3> QED
      BY <1>b, <2>2, <3>2
  <2> QED
    BY <2>1, <2>2
<1>2. MovedExist'
  BY <1>a, <1>b DEF MovedExist
<1> QED
  BY <1>1, <1>2 DEF DiskInv

\* The same for a step that takes no directory away.
LEMMA DiskQuietStep ==
    ASSUME StoreInv, RefsInv, DiskInv, ~aborted, NEW t \in Threads, NEW r, Continues(t, r),
           disk \subseteq disk', clashed' = clashed,
           \A k \in Keys : objectTable'[k] \in {objectTable[k], NoObject},
           \A k \in Names, f \in Objects : f \notin strayed' /\ f \in OpenAs(k)' /\ f \in OpenAs(k) => f \notin strayed,
           Comes(r) => \/ r.name \notin Names \/ r.name \in disk'
                       \/ Comes(thread[t]) /\ r.folder = thread[t].folder /\ r.name = thread[t].name,
           \A k \in Names, f \in Objects : f \in OpenAs(k)' /\ Excuses(thread[t], k, f) => Excuses(r, k, f),
           Moves(r) => Moves(thread[t]) /\ r.new = thread[t].new
    PROVE  DiskInv'
<1>a. thread \in [Threads -> Thread] /\ MovedExist
  BY DEF StoreInv, ThreadsInv, DiskInv
<1>1. ASSUME NEW k \in Names, k \notin clashed', NEW f \in Objects, f \notin strayed', f \in OpenAs(k)',
             ~(k \in disk' \/ Excuses(r, k, f))
      PROVE  /\ f \in OpenAs(k) /\ f \notin strayed /\ k \notin clashed /\ k \notin disk
             /\ ~Excuses(thread[t], k, f)
  <2>1. k \in Keys
    BY DEF Names
  <2>2. f \in OpenAs(k)
    BY <1>a, <1>1, <2>1, OpenAsStep
  <2> QED
    BY <1>1, <2>2
<1>2. Moves(r) => r.new \in disk'
  BY <1>a DEF MovedExist
<1> QED
  BY <1>1, <1>2, DiskStep

\* get_folder is called by delete_folder only where it is on its way.
LEMMA DeletingGets ==
    ASSUME StoreInv, RefsInv, NEW t \in Threads
    PROVE  thread[t].deleting => thread[t].pc \in Getting
BY StepFacts DEF RecordFits

LEMMA DiskOpening ==
    ASSUME StoreInv, RefsInv, DiskInv, ~aborted, NEW t \in Threads, NEW r,
           \/ DoesReserve(t, r) \/ DoesOpen(t, r) \/ DoesReturn(t, r) \/ DoesGetTrash(t, r)
           \/ DoesAddSub(t, r) \/ DoesList(t, r) \/ DoesFill(t, r)
           \/ DoesBeginRename(t, r) \/ DoesRenameGet(t, r) \/ DoesCall(t, r)
    PROVE  DiskInv'
<1>1. /\ Continues(t, r) /\ disk \subseteq disk' /\ TablesSame /\ strayed' = strayed
  BY DEF DoesReserve, DoesOpen, DoesReturn, DoesGetTrash, DoesAddSub, DoesList, DoesFill,
     DoesBeginRename, DoesRenameGet, DoesCall, RestSame
<1>2. Comes(r) => \/ r.name \notin Names \/ r.name \in disk'
                  \/ Comes(thread[t]) /\ r.folder = thread[t].folder /\ r.name = thread[t].name
  <2>1. CASE DoesOpen(t, r)
    BY <2>1 DEF DoesOpen, Names
  <2>2. CASE DoesFill(t, r)
    <3>1. r.name = VTrash
      BY <2>2, StepFacts DEF DoesFill, RecordFits
    <3> QED
      BY <3>1 DEF Names
  <2>3. CASE DoesGetTrash(t, r) \/ DoesAddSub(t, r)
    BY <2>3 DEF DoesGetTrash, DoesAddSub, SameBut, Comes, OpeningFolder
  <2>4. CASE DoesReserve(t, r) \/ DoesReturn(t, r)
    BY <2>4 DEF DoesReserve, DoesReturn, Answers, Returns, Comes, OpeningFolder
  <2>5. CASE DoesList(t, r) \/ DoesBeginRename(t, r) \/ DoesRenameGet(t, r) \/ DoesCall(t, r)
    BY <2>5 DEF DoesList, DoesBeginRename, DoesRenameGet, DoesCall, Comes, OpeningFolder
  <2> QED
    BY <2>1, <2>2, <2>3, <2>4, <2>5
<1>3. ASSUME NEW k, NEW f, Excuses(thread[t], k, f)
      PROVE  Excuses(r, k, f)
  <2>1. CASE DoesReserve(t, r)
    BY <1>3, <2>1 DEF DoesReserve, Answers, ForDelete, Excuses, Moves, Deleted
  <2>2. CASE DoesOpen(t, r) \/ DoesList(t, r) \/ DoesFill(t, r)
    BY <1>3, <2>2 DEF DoesOpen, DoesList, DoesFill, Excuses, Moves, Deleted
  <2>3. CASE DoesReturn(t, r)
    BY <1>3, <2>3 DEF DoesReturn, Returns, Excuses, Moves, Deleted
  <2>4. CASE DoesGetTrash(t, r) \/ DoesAddSub(t, r)
    BY <1>3, <2>4 DEF DoesGetTrash, DoesAddSub, SameBut, Excuses, Moves, Deleted
  <2>5. CASE DoesBeginRename(t, r) \/ DoesRenameGet(t, r) \/ DoesCall(t, r)
    <3>1. thread[t].pc \in {"renLock", "renGet", "renWait", "idle", "delLock"}
      BY <2>5 DEF DoesBeginRename, DoesRenameGet, DoesCall
    <3>2. ~thread[t].deleting
      BY <3>1, DeletingGets DEF Getting, Opening, OpeningFolder
    <3> QED
      BY <1>3, <3>1, <3>2 DEF Excuses, Moves, Deleted
  <2> QED
    BY <2>1, <2>2, <2>3, <2>4, <2>5
<1>4. ~Moves(r)
  <2>1. CASE DoesReserve(t, r) \/ DoesOpen(t, r) \/ DoesReturn(t, r)
    BY <2>1 DEF DoesReserve, DoesOpen, DoesReturn, Answers, Returns, Moves
  <2>2. CASE DoesGetTrash(t, r) \/ DoesAddSub(t, r)
    BY <2>2 DEF DoesGetTrash, DoesAddSub, SameBut, Moves
  <2>3. CASE DoesList(t, r) \/ DoesFill(t, r) \/ DoesBeginRename(t, r) \/ DoesRenameGet(t, r) \/ DoesCall(t, r)
    BY <2>3 DEF DoesList, DoesFill, DoesBeginRename, DoesRenameGet, DoesCall, Moves
  <2> QED
    BY <2>1, <2>2, <2>3
<1>5. clashed' = clashed /\ \A k \in Keys : objectTable'[k] \in {objectTable[k], NoObject}
  BY <1>1 DEF TablesSame
<1> QED
  BY <1>1, <1>2, <1>3, <1>4, <1>5, DiskQuietStep

\* A dropped reference changes nothing for the folders that stay open.
LEMMA DropsStrayed ==
    ASSUME StoreInv, NEW t \in Threads, NEW r, Continues(t, r), NEW x, Drops(x),
           Comes(r) => Comes(thread[t]) /\ r.folder = thread[t].folder,
           NEW k \in Keys, NEW f \in Objects, f \in OpenAs(k)', f \notin strayed'
    PROVE  f \notin strayed
<1>1. thread'[t] = r /\ \A u \in Threads \ {t} : thread'[u] = thread[u]
  BY DEF Continues, StoreInv, ThreadsInv
<1>2. f = objectTable'[k] \/ \E u \in Threads : Comes(thread[u]) /\ thread[u].folder = f
  BY <1>1, OpenAsMeansNext
<1>3. \A u \in Threads : Comes(thread[u]) => thread[u].pc \in Opening
  BY DEF Comes, Opening
<1> QED
  BY <1>2, <1>3, DropsKeepsOpen

LEMMA DiskDropping ==
    ASSUME StoreInv, RefsInv, DiskInv, ~aborted, NEW t \in Threads, NEW r,
           DoesUnrefVFolder(t, r) \/ DoesRelease(t, r) \/ DoesRemoveSub(t, r)
    PROVE  DiskInv'
<1>1. /\ Continues(t, r) /\ disk' = disk /\ clashed' = clashed
      /\ \A k \in Keys : objectTable'[k] \in {objectTable[k], NoObject}
      /\ (\E x : Drops(x)) \/ strayed' = strayed
  BY DEF DoesUnrefVFolder, DoesRelease, DoesRemoveSub, Drops, TablesSame
<1>2. Comes(r) => Comes(thread[t]) /\ r.folder = thread[t].folder /\ r.name = thread[t].name
  BY DEF DoesUnrefVFolder, DoesRelease, DoesRemoveSub, SameBut, Comes, OpeningFolder
<1>3. \A k \in Names, f \in Objects : f \notin strayed' /\ f \in OpenAs(k)' => f \notin strayed
  <2>1. \A k \in Names : k \in Keys
    BY DEF Names
  <2> QED
    BY <1>1, <1>2, <2>1, DropsStrayed
<1>4. ASSUME NEW k \in Names, NEW f \in Objects, Excuses(thread[t], k, f)
      PROVE  Excuses(r, k, f)
  <2>1. CASE DoesUnrefVFolder(t, r)
    BY <1>4, <2>1, BagAssumption DEF DoesUnrefVFolder, SameBut, Excuses, Moves, Deleted
  <2>2. CASE DoesRelease(t, r)
    <3>1. thread[t].pc \in {"keeps", "delState", "unlock"}
      BY <2>2 DEF DoesRelease
    <3>2. ~thread[t].deleting
      BY <3>1, DeletingGets DEF Getting, Opening, OpeningFolder
    <3> QED
      BY <1>4, <2>2, <3>1, <3>2 DEF DoesRelease, Excuses, Moves, Deleted
  <2>3. CASE DoesRemoveSub(t, r)
    BY <1>4, <2>3 DEF DoesRemoveSub, SameBut, Excuses, Moves, Deleted
  <2> QED
    BY <2>1, <2>2, <2>3
<1>5. Moves(r) => Moves(thread[t]) /\ r.new = thread[t].new
  BY DEF DoesUnrefVFolder, DoesRelease, DoesRemoveSub, SameBut, Moves
<1> QED
  BY <1>1, <1>2, <1>3, <1>4, <1>5, DiskQuietStep

LEMMA DiskAdd ==
    ASSUME StoreInv, RefsInv, DiskInv, ~aborted, NEW t \in Threads, NEW r, DoesAdd(t, r)
    PROVE  DiskInv'
<1>a. /\ Continues(t, r) /\ thread[t].pc = "add" /\ r.pc \in {"keeps", "delState"} /\ thread[t].name \in Keys
      /\ objectTable' = [objectTable EXCEPT ![thread[t].name] = thread[t].folder]
      /\ disk' = disk /\ strayed' = strayed /\ clashed' = clashed
      /\ thread \in [Threads -> Thread] /\ objectTable \in [Keys -> Objects \cup {NoObject}]
  BY StepFacts DEF DoesAdd, Returns, RestSame, StoreInv, ThreadsInv
<1>b. thread'[t] = r /\ \A u \in Threads \ {t} : thread'[u] = thread[u]
  BY <1>a DEF Continues
<1>c. Comes(thread[t]) /\ ~Comes(r) /\ ~Moves(r)
  BY <1>a DEF Comes, Moves, OpeningFolder
<1>1. ASSUME NEW k \in Names, NEW f \in Objects, f \in OpenAs(k)'
      PROVE  f \in OpenAs(k)
  <2>1. k \in Keys
    BY DEF Names
  <2>2. CASE f = objectTable'[k]
    <3>1. f = objectTable[k] \/ (k = thread[t].name /\ f = thread[t].folder)
      BY <1>a, <2>1, <2>2
    <3> QED
      BY <1>c, <3>1, OpenAsMeans
  <2>3. CASE \E u \in Threads : Comes(thread'[u]) /\ thread'[u].name = k /\ thread'[u].folder = f
    BY <1>b, <1>c, <2>3, OpenAsMeans
  <2> QED
    BY <1>1, <2>2, <2>3, OpenAsMeansNext
<1>2. \A k, f : Excuses(thread[t], k, f) => Excuses(r, k, f)
  BY <1>a DEF DoesAdd, Returns, Excuses, Moves, Deleted
<1> QED
  BY <1>a, <1>c, <1>1, <1>2, DiskStep

LEMMA DiskDelete ==
    ASSUME StoreInv, RefsInv, DiskInv, ~aborted, NEW t \in Threads, NEW r,
           DoesBeginDelete(t, r) \/ DoesDeleteGet(t, r)
    PROVE  DiskInv'
<1>a. /\ Continues(t, r) /\ TablesSame /\ strayed' = strayed /\ ~Comes(r) /\ ~Moves(r)
      /\ thread \in [Threads -> Thread]
  BY DEF DoesBeginDelete, DoesDeleteGet, RestSame, Comes, Moves, OpeningFolder, StoreInv, ThreadsInv
<1>b. clashed' = clashed /\ objectTable' = objectTable
  BY <1>a DEF TablesSame
<1>1. \A k \in Names, f \in Objects : f \in OpenAs(k)' => f \in OpenAs(k)
  <2>1. \A k \in Names : k \in Keys
    BY DEF Names
  <2> QED
    BY <1>a, <1>b, <2>1, OpenAsStep
<1>2. CASE DoesBeginDelete(t, r)
  <2>1. \A u \in Threads : ~Moves(thread[u])
    <3>1. \A u \in Threads : folderLock # u
      BY <1>2, BagAssumption DEF DoesBeginDelete
    <3> QED
      BY <3>1 DEF RefsInv, LockFits, Moves, Locks, Locking, Acting, Moving
  <2>2. \A k, f : ~Excuses(thread[t], k, f)
    <3>1. thread[t].pc = "delLock"
      BY <1>2 DEF DoesBeginDelete
    <3>2. ~thread[t].deleting
      BY <3>1, DeletingGets DEF Getting, Opening, OpeningFolder
    <3> QED
      BY <3>1, <3>2 DEF Excuses, Moves, Deleted
  <2>3. \A k, f : k = r.name => Excuses(r, k, f)
    BY <1>2 DEF DoesBeginDelete, Excuses
  <2>4. \A k : k \in disk => k \in disk' \/ k = r.name
    BY <1>2 DEF DoesBeginDelete
  <2> QED
    BY <1>a, <1>b, <1>1, <2>1, <2>2, <2>3, <2>4, DiskStep
<1>3. CASE DoesDeleteGet(t, r)
  <2> DEFINE n == thread[t].name
  <2>1. disk' = disk
    BY <1>3 DEF DoesDeleteGet, RestSame
  <2>2. ASSUME NEW k \in Names \ clashed, NEW f \in Objects, f \in OpenAs(k), Excuses(thread[t], k, f)
        PROVE  Excuses(r, k, f)
    <3>1. k = n /\ k \in Keys
      BY <2>2 DEF Excuses, Names
    <3>2. f # objectTable[k] => \E u \in Threads : k \in creating[u]
      BY <2>2, OpenAsMeans, ComingIsPrivate
    <3>3. f # objectTable[k] => objectTable[k] = NoObject
      BY <2>2, <3>2 DEF StoreInv, BagInv, CreatedIsAbsent
    <3>4. CASE r.pc = "delTrash"
      BY <1>3, <2>2, <3>1, <3>3, <3>4 DEF DoesDeleteGet, Excuses, Deleted
    <3>5. CASE r.pc = "delWait"
      BY <1>3, <3>1, <3>5 DEF DoesDeleteGet, Excuses
    <3>6. CASE r.pc = "idle"
      <4>1. objectTable[k] = NoObject /\ \A u \in Threads : k \notin creating[u]
        BY <1>3, <3>1, <3>6 DEF DoesDeleteGet
      <4> QED
        BY <3>2, <4>1, BagAssumption
    <3> QED
      BY <1>3, <3>4, <3>5, <3>6 DEF DoesDeleteGet
  <2> QED
    BY <1>a, <1>b, <1>1, <2>1, <2>2, DiskStep
<1> QED
  BY <1>2, <1>3

\* The folders that a failed deletion leaves behind are the strayed ones.
LEMMA DiskFail ==
    ASSUME StoreInv, RefsInv, DiskInv, ~aborted, NEW t \in Threads, NEW r, DoesFail(t, r)
    PROVE  DiskInv'
<1> DEFINE n == thread[t].name
<1>a. /\ Continues(t, r) /\ TablesSame /\ disk' = disk /\ thread \in [Threads -> Thread]
      /\ thread[t].pc \in {"delMeta", "delGet"} /\ r.pc = "idle"
      /\ strayed' = IF n \in disk THEN strayed ELSE strayed \cup (OpenAs(n) \ {NoObject})
  BY DEF DoesFail, StoreInv, ThreadsInv
<1>b. clashed' = clashed /\ objectTable' = objectTable /\ ~Comes(r) /\ ~Moves(r)
  BY <1>a DEF TablesSame, Comes, Moves, OpeningFolder
<1>1. \A k \in Names, f \in Objects : f \in OpenAs(k)' => f \in OpenAs(k)
  <2>1. \A k \in Names : k \in Keys
    BY DEF Names
  <2> QED
    BY <1>a, <1>b, <2>1, OpenAsStep
<1>2. \A k, f : Excuses(thread[t], k, f) => k = n
  BY DEF Excuses
<1>3. ASSUME NEW f \in Objects, f \in OpenAs(n), f \notin strayed'
      PROVE  n \in disk
  BY <1>a, <1>3, BagAssumption
<1>4. \A f : f \notin strayed' => f \notin strayed
  BY <1>a
<1> HIDE DEF n
<1> QED
  BY <1>a, <1>b, <1>1, <1>2, <1>3, <1>4, DiskStep

LEMMA DiskRemove ==
    ASSUME StoreInv, RefsInv, DiskInv, ~aborted, NEW t \in Threads, NEW r, DoesRemove(t, r)
    PROVE  DiskInv'
<1>a. /\ Continues(t, r) /\ thread[t].pc = "delBag" /\ r.pc = "unlock" /\ disk' = disk /\ strayed' = strayed
      /\ clashed' = clashed /\ thread \in [Threads -> Thread]
      /\ \A k \in Keys : objectTable'[k] \in {objectTable[k], NoObject} /\ objectTable'[k] # thread[t].folder
  BY DEF DoesRemove, RestSame, SameBut, StoreInv, ThreadsInv
<1>b. ~Comes(r) /\ ~Moves(r) /\ ~Comes(thread[t])
  BY <1>a DEF Comes, Moves, OpeningFolder
<1>1. \A k \in Names, f \in Objects : f \in OpenAs(k)' => f \in OpenAs(k) /\ f # thread[t].folder
  <2> SUFFICES ASSUME NEW k \in Names, NEW f \in Objects, f \in OpenAs(k)'
               PROVE  f \in OpenAs(k) /\ f # thread[t].folder
    OBVIOUS
  <2>1. k \in Keys
    BY DEF Names
  <2>2. f \in OpenAs(k)
    BY <1>a, <1>b, <2>1, OpenAsStep
  <2>3. thread'[t] = r /\ \A u \in Threads \ {t} : thread'[u] = thread[u]
    BY <1>a DEF Continues
  <2>4. f # thread[t].folder
    BY <1>a, <1>b, <2>1, <2>3, OpenAsMeansNext, ComingIsPrivate
  <2> QED
    BY <2>2, <2>4
<1>2. \A k, f : Excuses(thread[t], k, f) => f = thread[t].folder
  <2>1. ~thread[t].deleting
    BY <1>a, DeletingGets DEF Getting, Opening, OpeningFolder
  <2> QED
    BY <1>a, <2>1 DEF Excuses
<1> QED
  BY <1>a, <1>b, <1>1, <1>2, DiskStep

LEMMA DiskMove ==
    ASSUME StoreInv, RefsInv, DiskInv, ~aborted, NEW t \in Threads, NEW r, DoesMove(t, r)
    PROVE  DiskInv'
<1> DEFINE q == thread[t]
<1>a. /\ Continues(t, r) /\ q.pc = "renMove" /\ TablesSame /\ thread \in [Threads -> Thread]
      /\ r.folder = q.folder /\ r.name = q.name /\ r.new = q.new
      /\ r.pc = IF q.vfolder # NoObject THEN "renUnref"
                ELSE IF r.ok /\ q.folder # NoObject THEN "rekey" ELSE "unlock"
      /\ r.ok => q.name \in disk
      /\ disk' = IF r.ok /\ q.new \notin disk THEN (disk \ {q.name}) \cup {q.new} ELSE disk
      /\ strayed' = IF r.ok THEN strayed \cup (OpenAs(q.name) \ {q.folder, NoObject}) ELSE strayed
  BY DEF DoesMove, StoreInv, ThreadsInv
<1>b. clashed' = clashed /\ objectTable' = objectTable /\ ~Comes(r)
  BY <1>a DEF TablesSame, Comes, OpeningFolder
<1>1. \A k \in Names, f \in Objects : f \in OpenAs(k)' => f \in OpenAs(k)
  <2>1. \A k \in Names : k \in Keys
    BY DEF Names
  <2> QED
    BY <1>a, <1>b, <2>1, OpenAsStep
<1>2. \A k, f : ~Excuses(q, k, f)
  <2>1. ~q.deleting
    BY <1>a, DeletingGets DEF Getting, Opening, OpeningFolder
  <2> QED
    BY <1>a, <2>1 DEF Excuses, Moves, Deleted
<1>3. Moves(r) => r.new \in disk'
  BY <1>a DEF Moves
<1>4. \A u \in Threads \ {t} : ~Moves(thread[u])
  <2>1. folderLock = t
    BY <1>a, StepFacts DEF Locks, Locking, Acting, Moving
  <2>2. \A u \in Threads : Moves(thread[u]) => Locks(thread[u])
    BY DEF Moves, Locks, Locking, Acting, Moving
  <2> QED
    BY <2>1, <2>2 DEF RefsInv, LockFits
<1>5. ASSUME NEW k \in Names, NEW f \in Objects, f \in OpenAs(k), f \notin strayed', k \in disk, k \notin disk'
      PROVE  Excuses(r, k, f)
  <2>1. r.ok /\ k = q.name
    BY <1>a, <1>5
  <2>2. f = q.folder /\ f # NoObject
    BY <1>a, <1>5, <2>1, BagAssumption
  <2> QED
    BY <1>a, <2>1, <2>2 DEF Excuses, Moves
<1>6. \A f : f \notin strayed' => f \notin strayed
  BY <1>a
<1> QED
  BY <1>a, <1>b, <1>1, <1>2, <1>3, <1>4, <1>5, <1>6, DiskStep

LEMMA DiskRekey ==
    ASSUME StoreInv, RefsInv, DiskInv, ~aborted, NEW t \in Threads, NEW r, DoesRekey(t, r)
    PROVE  DiskInv'
<1> DEFINE x == thread[t].folder
           n == thread[t].new
<1>a. /\ Continues(t, r) /\ thread[t].pc = "rekey" /\ r.pc = "unlock" /\ disk' = disk /\ strayed' = strayed
      /\ r.name = thread[t].name /\ thread \in [Threads -> Thread]
  BY DEF DoesRekey, RestSame, SameBut, StoreInv, ThreadsInv
<1>b. ~Comes(r) /\ ~Moves(r) /\ ~Comes(thread[t]) /\ Moves(thread[t])
  BY <1>a DEF Comes, Moves, OpeningFolder
<1>c. thread'[t] = r /\ \A u \in Threads \ {t} : thread'[u] = thread[u]
  BY <1>a DEF Continues
<1>d. n \in disk
  BY <1>b DEF DiskInv, MovedExist
<1>e. \A k, f : Excuses(thread[t], k, f) => k = thread[t].name /\ f = x
  <2>1. ~thread[t].deleting
    BY <1>a, DeletingGets DEF Getting, Opening, OpeningFolder
  <2> QED
    BY <1>a, <2>1 DEF Excuses, Deleted
<1>1. CASE keyTable[x] = NoKey /\ aborted' /\ TablesSame
  <2>1. clashed' = clashed /\ objectTable' = objectTable
    BY <1>1 DEF TablesSame
  <2>2. \A k \in Names, f \in Objects : f \in OpenAs(k)' => f \in OpenAs(k)
    <3>1. \A k \in Names : k \in Keys
      BY DEF Names
    <3> QED
      BY <1>a, <1>b, <2>1, <3>1, OpenAsStep
  <2>3. \A k : k = thread[t].name => Stuck(k)'
    BY <1>1, <1>a, <1>c DEF Stuck
  <2> QED
    BY <1>a, <1>b, <1>e, <2>1, <2>2, <2>3, DiskStep
<1>2. CASE /\ keyTable[x] # NoKey
           /\ objectTable' = [objectTable EXCEPT ![keyTable[x]] = NoObject, ![n] = x]
           /\ clashed \subseteq clashed'
  <2>a. /\ x \in Objects /\ n \in Keys /\ keyTable[x] \in Keys
        /\ objectTable \in [Keys -> Objects \cup {NoObject}]
        /\ \A k \in Keys : objectTable[k] = x => keyTable[x] = k
    <3>1. x \in Objects /\ n \in Keys
      BY <1>a, StepFacts DEF Fits, HasFolder
    <3> QED
      BY <1>2, <3>1, StepFacts, BagAssumption DEF StoreInv, BagInv, TablesAgree
  <2>1. ASSUME NEW k \in Names, NEW f \in Objects, f \in OpenAs(k)', k # n
        PROVE  f \in OpenAs(k) /\ f # x
    <3>1. k \in Keys
      BY DEF Names
    <3>2. objectTable'[k] \in {objectTable[k], NoObject} /\ objectTable'[k] # x
      BY <1>2, <2>a, <2>1, <3>1, BagAssumption
    <3>3. f \in OpenAs(k)
      BY <1>a, <1>b, <2>1, <3>1, <3>2, OpenAsStep
    <3>4. f # x
      BY <1>b, <1>c, <2>1, <3>2, OpenAsMeansNext, ComingIsPrivate
    <3> QED
      BY <3>3, <3>4
  <2>2. \A k : k \notin clashed' => k \notin clashed
    BY <1>2
  <2> QED
    BY <1>a, <1>b, <1>d, <1>e, <2>1, <2>2, DiskStep
<1> QED
  BY <1>1, <1>2 DEF DoesRekey

LEMMA DiskFinalise ==
    ASSUME StoreInv, RefsInv, DiskInv, ~aborted, NEW v \in Objects, DoesFinalise(v)
    PROVE  DiskInv'
<1>1. PICK x \in subs[v] : Drops(x)
  BY DEF DoesFinalise
<1>2. thread' = thread /\ disk' = disk /\ clashed' = clashed
      /\ \A k \in Keys : objectTable'[k] \in {objectTable[k], NoObject}
  BY <1>1 DEF DoesFinalise, Drops
<1>3. ASSUME NEW k \in Names, NEW f \in Objects, f \in OpenAs(k)', f \notin strayed'
      PROVE  f \in OpenAs(k) /\ f \notin strayed
  <2>1. k \in Keys
    BY DEF Names
  <2>2. \A u \in Threads : Comes(thread[u]) => thread[u].pc \in Opening
    BY DEF Comes, Opening
  <2>3. f = objectTable'[k] \/ \E u \in Threads : Comes(thread[u]) /\ thread[u].name = k /\ thread[u].folder = f
    BY <1>2, <1>3, OpenAsMeansNext
  <2>4. f \notin strayed
    BY <1>1, <1>3, <2>1, <2>2, <2>3, DropsKeepsOpen
  <2> QED
    BY <1>2, <2>1, <2>3, <2>4, BagAssumption, OpenAsMeans
<1>5. FoldersExist'
  BY <1>2, <1>3 DEF FoldersExist, DiskInv, Stuck
<1>6. MovedExist'
  BY <1>2 DEF MovedExist, DiskInv
<1> QED
  BY <1>5, <1>6 DEF DiskInv

LEMMA InitDiskInv == Init => DiskInv
<1> SUFFICES ASSUME Init PROVE DiskInv
  OBVIOUS
<1>1. \A t \in Threads : thread[t].pc = "idle"
  BY IdleFields DEF Init
<1>2. \A k \in Names, f \in Objects : f \notin OpenAs(k)
  BY <1>1, BagAssumption, OpenAsMeans DEF Init, BagInit, Names, Comes, OpeningFolder
<1> QED
  BY <1>1, <1>2 DEF DiskInv, FoldersExist, MovedExist, Moves

LEMMA NextDiskInv == StoreInv /\ RefsInv /\ DiskInv /\ [Next]_vars => DiskInv'
<1> SUFFICES ASSUME StoreInv, RefsInv, DiskInv, [Next]_vars PROVE DiskInv'
  OBVIOUS
<1>1. ASSUME ~aborted, NEW t \in Threads, NEW r, Does(t, r)
      PROVE  DiskInv'
  BY <1>1, DiskOpening, DiskDropping, DiskAdd, DiskDelete, DiskFail, DiskRemove, DiskMove, DiskRekey DEF Does
<1>2. ASSUME ~aborted, NEW v \in Objects, DoesFinalise(v)
      PROVE  DiskInv'
  BY <1>2, DiskFinalise
<1>3. CASE UNCHANGED vars
  <2>1. UNCHANGED <<thread, disk, strayed, objectTable, clashed, aborted>>
    BY <1>3 DEF vars, bagVars
  <2> QED
    BY <2>1 DEF DiskInv, FoldersExist, MovedExist, OpenAs, Stuck
<1> QED
  BY <1>1, <1>2, <1>3, NextDoes

\* A folder in the bag is one on disk, or a call that holds folder_lock is
\* still to deal with it: OpenFoldersExist for any number of threads and names.
THEOREM StoreOpenFoldersExist == Spec => []OpenFoldersExist
<1>1. Spec => [](StoreInv /\ RefsInv /\ DiskInv)
  <2>1. Init => StoreInv /\ RefsInv /\ DiskInv
    BY InitStoreInv, InitRefsInv, InitDiskInv
  <2>2. StoreInv /\ RefsInv /\ DiskInv /\ [Next]_vars => (StoreInv /\ RefsInv /\ DiskInv)'
    BY NextStoreInv, NextRefsInv, NextDiskInv
  <2> QED
    BY <2>1, <2>2, PTL DEF Spec
<1>2. StoreInv /\ RefsInv /\ DiskInv => OpenFoldersExist
  <2> SUFFICES ASSUME StoreInv, RefsInv, DiskInv, NEW k \in Names \ clashed,
                      objectTable[k] # NoObject, objectTable[k] \notin strayed, k \notin disk
               PROVE  \E t \in Threads : folderLock = t /\ thread[t].name = k
    BY DEF OpenFoldersExist
  <2>1. objectTable[k] \in Objects /\ objectTable[k] \in OpenAs(k)
    BY OpenAsMeans DEF Names, StoreInv, BagInv, BagTypeOK
  <2>2. (\E t \in Threads : Excuses(thread[t], k, objectTable[k])) \/ Stuck(k)
    BY <2>1 DEF DiskInv, FoldersExist
  <2>3. PICK t \in Threads : thread[t].name = k /\ Locks(thread[t])
    BY <2>2 DEF Excuses, Moves, Stuck, Locks, Locking, Acting, Moving
  <2> QED
    BY <2>3 DEF RefsInv, LockFits
<1> QED
  BY <1>1, <1>2, PTL

-----------------------------------------------------------------------------
(* The trash has the open folders: one lemma for each effect.              *)

\* What is known of the trash and of the one who makes it.
LEMMA TrashFacts ==
    ASSUME StoreInv, RefsInv, VTrash \notin clashed
    PROVE  /\ VTrash \in Keys /\ \A k \in Names : k \in Keys /\ k # VTrash
           /\ \A k \in Keys : objectTable[k] # NoObject =>
                 /\ objectTable[k] \in Objects /\ keyTable[objectTable[k]] = k
                 /\ refCount[objectTable[k]] > 0
           /\ \A w \in Threads : Fills(thread[w]) =>
                 /\ thread[w].pc \in Opening /\ thread[w].folder \in Objects
                 /\ refCount[thread[w].folder] > 0
                 /\ VTrash \in creating[w] /\ objectTable[VTrash] = NoObject
<1>1. VTrash \in Keys /\ \A k \in Names : k \in Keys /\ k # VTrash
  BY StoreAssumption DEF Names
<1>2. \A k \in Keys : objectTable[k] # NoObject =>
         /\ objectTable[k] \in Objects /\ keyTable[objectTable[k]] = k /\ refCount[objectTable[k]] > 0
  BY DEF StoreInv, BagInv, BagTypeOK, TablesAgree
<1>3. ASSUME NEW w \in Threads, Fills(thread[w])
      PROVE  /\ thread[w].pc \in Opening /\ thread[w].folder \in Objects
             /\ refCount[thread[w].folder] > 0
             /\ VTrash \in creating[w] /\ objectTable[VTrash] = NoObject
  <2>1. thread[w].pc \in Opening /\ thread[w].name = VTrash
    BY <1>3, StepFacts DEF Fills, Opening, RecordFits
  <2>2. VTrash \in creating[w]
    BY <2>1, StepFacts DEF Fits
  <2> QED
    BY <2>1, <2>2, OpeningIsNew DEF StoreInv, BagInv, CreatedIsAbsent
<1> QED
  BY <1>1, <1>2, <1>3

\* What a step, of a thread t that goes from q to r or of none, has to show.
LEMMA TrashStep ==
    ASSUME StoreInv, RefsInv, TrashInv,
           NEW t, NEW q, NEW r, t \in Threads => thread[t] = q /\ thread'[t] = r,
           \A u \in Threads \ {t} : thread'[u] = thread[u],
           \* The tables.
           clashed \subseteq clashed', VTrash \notin clashed',
           \A x \in Objects : keyTable'[x] = VTrash => keyTable[x] = VTrash,
           \/ objectTable'[VTrash] = objectTable[VTrash]
           \/ /\ objectTable'[VTrash] = NoObject
              /\ \A u \in Threads \ {t} : thread[u].pc \in {"addSub", "unrefTrash"} =>
                    thread[u].vfolder # objectTable[VTrash],
           clashed' = {} => \A k \in Names : \/ objectTable'[k] = NoObject
                                             \/ \E j \in Names : objectTable'[k] = objectTable[j],
           \* The histories and the virtual folders.
           \A f \in missed : \/ f \in missed'
                             \/ /\ \A k \in Keys : objectTable'[k] # f
                                /\ \A u \in Threads : thread[u].pc \in Opening => thread[u].folder # f,
           \A v \in Objects : \A f \in subs[v] :
              f \in subs'[v] \/ refCount[v] = 0 \/ (t \in Threads /\ q.pc \in Deleted /\ f = q.folder),
           \* The thread.
           r.pc \in Acting /\ r.folder # NoObject => keyTable'[r.folder] # VTrash,
           r.pc \in {"addSub", "unrefTrash"} => r.vfolder = objectTable'[VTrash],
           r.pc \in {"unrefTrash", "add"} /\ r.name # VTrash /\ objectTable'[VTrash] # NoObject
              /\ r.folder \notin missed' => r.folder \in subs'[objectTable'[VTrash]],
           r.pc = "add" /\ r.name # VTrash => \A w \in Threads : ~Fills(thread[w]),
           Fills(r) =>
              \/ /\ t \in Threads /\ Fills(q) /\ r.folder = q.folder
                 /\ subs[r.folder] \cup q.list \subseteq subs'[r.folder] \cup r.list
              \/ /\ \A u \in Threads \ {t} : thread[u].pc = "add" => thread[u].folder \in missed'
                 /\ \A k \in Names : objectTable'[k] \in r.list \cup {NoObject},
           t \in Threads /\ q.pc \in Deleted =>
              (r.pc \in Deleted /\ r.folder = q.folder) \/ \A k \in Keys : objectTable'[k] # q.folder
    PROVE  TrashInv'
<1>a. TrashStays /\ ComingShown /\ FillShows /\ TrashShows
  BY DEF TrashInv
<1>b. VTrash \notin clashed
  BY <1>a DEF TrashStays
<1>c. /\ VTrash \in Keys /\ \A k \in Names : k \in Keys /\ k # VTrash
      /\ \A k \in Keys : objectTable[k] # NoObject =>
            /\ objectTable[k] \in Objects /\ keyTable[objectTable[k]] = k
            /\ refCount[objectTable[k]] > 0
      /\ \A w \in Threads : Fills(thread[w]) =>
            /\ thread[w].pc \in Opening /\ thread[w].folder \in Objects
            /\ refCount[thread[w].folder] > 0
  BY <1>b, TrashFacts
<1>d. \A u \in Threads : u # t => thread'[u] = thread[u]
  OBVIOUS
<1>1. TrashStays'
  <2>1. ASSUME NEW u \in Threads, thread'[u].pc \in Acting, thread'[u].folder # NoObject
        PROVE  keyTable'[thread'[u].folder] # VTrash
    <3>1. CASE u = t
      BY <2>1, <3>1
    <3>2. CASE u # t
      BY <1>a, <1>d, <2>1, <3>2, StepFacts DEF TrashStays
    <3> QED
      BY <3>1, <3>2
  <2>2. ASSUME NEW u \in Threads, thread'[u].pc \in {"addSub", "unrefTrash"}
        PROVE  objectTable'[VTrash] = thread'[u].vfolder
    <3>1. CASE u = t
      BY <2>2, <3>1
    <3>2. CASE u # t
      BY <1>a, <1>d, <2>2, <3>2 DEF TrashStays
    <3> QED
      BY <3>1, <3>2
  <2> QED
    BY <2>1, <2>2 DEF TrashStays
\* A folder that the trash has, or will have, stays there.
<1> DEFINE Gone(f) == \E u \in Threads : thread'[u].pc \in Deleted /\ thread'[u].folder = f
<1>2. ASSUME NEW k \in Keys, NEW f, f = objectTable'[k]
      PROVE  /\ f \in missed => f \in missed'
             /\ BeingDeleted(f) => Gone(f)
             /\ \A v \in Objects : refCount[v] > 0 /\ f \in subs[v] => f \in subs'[v] \/ Gone(f)
  <2>1. t \in Threads /\ q.pc \in Deleted /\ f = q.folder => thread'[t].pc \in Deleted /\ thread'[t].folder = f
    BY <1>2
  <2>2. BeingDeleted(f) => Gone(f)
    BY <1>d, <2>1 DEF BeingDeleted
  <2>3. \A v \in Objects : refCount[v] > 0 /\ f \in subs[v] => f \in subs'[v] \/ Gone(f)
    BY <2>1
  <2> QED
    BY <1>2, <2>2, <2>3
<1>3. ComingShown'
  <2> SUFFICES ASSUME NEW u \in Threads, thread'[u].pc \in {"unrefTrash", "add"}, thread'[u].name # VTrash,
                      objectTable'[VTrash] # NoObject, thread'[u].folder \notin missed'
               PROVE  thread'[u].folder \in subs'[objectTable'[VTrash]]
    BY DEF ComingShown
  <2>1. CASE u = t
    BY <2>1
  <2>2. CASE u # t
    <3>1. thread'[u] = thread[u] /\ objectTable'[VTrash] = objectTable[VTrash] /\ thread[u].pc \in Opening
      BY <1>d, <2>2 DEF Opening, OpeningFolder
    <3>2. thread[u].folder \in subs[objectTable[VTrash]]
      BY <1>a, <3>1 DEF ComingShown
    <3>3. refCount[objectTable[VTrash]] > 0 /\ objectTable[VTrash] \in Objects
      BY <1>c, <3>1
    <3>4. t \in Threads => thread[t].folder # thread[u].folder
      BY <2>2, <3>1 DEF RefsInv, FreshIsPrivate
    <3> QED
      BY <3>1, <3>2, <3>3, <3>4
  <2> QED
    BY <2>1, <2>2
<1>4. FillShows'
  <2> SUFFICES ASSUME NEW w \in Threads, Fills(thread'[w])
               PROVE  /\ \A u \in Threads : thread'[u].pc = "add" /\ thread'[u].name # VTrash =>
                            thread'[u].folder \in missed'
                      /\ clashed' = {} => \A k \in Names :
                            \/ objectTable'[k] \in missed' \cup {NoObject}
                            \/ objectTable'[k] \in subs'[thread'[w].folder] \cup thread'[w].list
                            \/ Gone(objectTable'[k])
    BY DEF FillShows, Fills, Shown, BeingDeleted
  <2>1. ASSUME NEW u \in Threads, thread'[u].pc = "add", thread'[u].name # VTrash
        PROVE  thread'[u].folder \in missed'
    <3>1. CASE u = t /\ w = t
      BY <2>1, <3>1 DEF Fills
    <3>2. CASE u = t /\ w # t
      BY <1>d, <2>1, <3>2
    <3>3. CASE u # t
      <4>1. thread'[u] = thread[u] /\ thread[u].pc \in Opening
        BY <1>d, <2>1, <3>3 DEF Opening
      <4>2. (\E x \in Threads : Fills(thread[x])) => thread[u].folder \in missed
        BY <1>a, <2>1, <4>1 DEF FillShows
      <4>3. (\E x \in Threads : Fills(thread[x])) \/ thread[u].folder \in missed'
        BY <1>d, <2>1, <3>3, <4>1
      <4> QED
        BY <4>1, <4>2, <4>3
    <3> QED
      BY <3>1, <3>2, <3>3
  <2>2. ASSUME clashed' = {}, NEW k \in Names, objectTable'[k] # NoObject
        PROVE  \/ objectTable'[k] \in missed'
               \/ objectTable'[k] \in subs'[thread'[w].folder] \cup thread'[w].list
               \/ Gone(objectTable'[k])
    <3>1. clashed = {} /\ k \in Keys
      BY <1>c, <2>2
    <3>2. PICK j \in Names : objectTable'[k] = objectTable[j]
      BY <2>2
    <3>3. CASE w # t
      <4>1. thread'[w] = thread[w]
        BY <1>d, <3>3
      <4>2. Shown(objectTable[j], subs[thread[w].folder] \cup thread[w].list)
        BY <1>a, <3>1, <4>1 DEF FillShows
      <4>3. thread[w].folder \in Objects /\ refCount[thread[w].folder] > 0
        BY <1>c, <4>1
      <4> HIDE DEF Gone
      <4> QED
        BY <1>2, <2>2, <3>1, <3>2, <4>1, <4>2, <4>3 DEF Shown
    <3>4. CASE w = t /\ Fills(q) /\ r.folder = q.folder
               /\ subs[r.folder] \cup q.list \subseteq subs'[r.folder] \cup r.list
      <4>1. Shown(objectTable[j], subs[thread[w].folder] \cup thread[w].list)
        BY <1>a, <3>1, <3>4 DEF FillShows
      <4>2. thread[w].folder \in Objects /\ refCount[thread[w].folder] > 0
        BY <1>c, <3>4
      <4>3. thread[w] = q /\ thread'[w] = r
        BY <3>4
      <4> HIDE DEF Gone
      <4> QED
        BY <1>2, <2>2, <3>1, <3>2, <3>4, <4>1, <4>2, <4>3 DEF Shown
    <3>5. CASE w = t /\ objectTable'[k] \in r.list \cup {NoObject}
      BY <2>2, <3>5
    <3> QED
      BY <3>3, <3>4, <3>5
  <2> QED
    BY <2>1, <2>2
<1>5. TrashShows'
  <2> SUFFICES ASSUME clashed' = {}, objectTable'[VTrash] # NoObject, NEW k \in Names, objectTable'[k] # NoObject
               PROVE  \/ objectTable'[k] \in missed'
                      \/ objectTable'[k] \in subs'[objectTable'[VTrash]]
                      \/ Gone(objectTable'[k])
    BY DEF TrashShows, Shown, BeingDeleted
  <2>1. clashed = {} /\ k \in Keys /\ objectTable'[VTrash] = objectTable[VTrash]
    BY <1>c
  <2>2. PICK j \in Names : objectTable'[k] = objectTable[j]
    OBVIOUS
  <2>3. Shown(objectTable[j], subs[objectTable[VTrash]])
    BY <1>a, <2>1 DEF TrashShows
  <2>4. refCount[objectTable[VTrash]] > 0 /\ objectTable[VTrash] \in Objects
    BY <1>c, <2>1
  <2> HIDE DEF Gone
  <2> QED
    BY <1>2, <2>1, <2>2, <2>3, <2>4 DEF Shown
<1> QED
  BY <1>1, <1>3, <1>4, <1>5 DEF TrashInv

\* The same for a step that leaves the tables and the virtual folders alone.
LEMMA TrashQuietStep ==
    ASSUME StoreInv, RefsInv, TrashInv, NEW t \in Threads, NEW r, Continues(t, r),
           TablesSame, UNCHANGED <<subs, missed>>,
           r.pc \in Acting /\ r.folder # NoObject =>
              keyTable[r.folder] # VTrash \/ (thread[t].pc \in Acting /\ r.folder = thread[t].folder),
           r.pc # "unrefTrash",
           r.pc = "addSub" => r.vfolder = objectTable[VTrash],
           r.pc = "add" => /\ r.name # VTrash /\ objectTable[VTrash] = NoObject
                           /\ \A u \in Threads : VTrash \notin creating[u],
           r.pc # "fill",
           thread[t].pc \in Deleted => r.pc \in Deleted /\ r.folder = thread[t].folder
    PROVE  TrashInv'
<1>1. /\ thread'[t] = r /\ \A u \in Threads \ {t} : thread'[u] = thread[u]
      /\ objectTable' = objectTable /\ keyTable' = keyTable /\ clashed' = clashed
  BY DEF Continues, TablesSame, StoreInv, ThreadsInv
<1>2. VTrash \notin clashed
  BY DEF TrashInv, TrashStays
<1>3. r.pc = "add" => \A w \in Threads : ~Fills(thread[w])
  BY <1>2, TrashFacts
<1>4. r.pc \in Acting /\ r.folder # NoObject => keyTable[r.folder] # VTrash
  BY DEF TrashInv, TrashStays
<1>5. ~Fills(r)
  BY DEF Fills
<1> QED
  BY <1>1, <1>2, <1>3, <1>4, <1>5, TrashStep

LEMMA TrashQuiet ==
    ASSUME StoreInv, RefsInv, TrashInv, NEW t \in Threads, NEW r,
           \/ DoesReserve(t, r) \/ DoesOpen(t, r) \/ DoesReturn(t, r) \/ DoesGetTrash(t, r)
           \/ DoesBeginDelete(t, r) \/ DoesBeginRename(t, r) \/ DoesDeleteGet(t, r)
           \/ DoesRenameGet(t, r) \/ DoesMove(t, r) \/ DoesCall(t, r) \/ DoesFail(t, r)
    PROVE  TrashInv'
<1>a. VTrash \notin clashed
  BY DEF TrashInv, TrashStays
<1>b. \A k \in Names : k \in Keys /\ k # VTrash
  BY <1>a, TrashFacts
<1>c. \A k \in Keys : objectTable[k] # NoObject => keyTable[objectTable[k]] = k
  BY <1>a, TrashFacts
<1>1. CASE DoesReserve(t, r) \/ DoesOpen(t, r) \/ DoesReturn(t, r)
  <2>1. r.pc \in {"reserving", "open", "exclAbort", "keeps", "list", "trash", "abort", "idle",
                 "delState", "delGet"}
    BY <1>1 DEF DoesReserve, DoesOpen, DoesReturn, Answers, Returns
  <2>2. thread[t].pc \notin Deleted
    BY <1>1 DEF DoesReserve, DoesOpen, DoesReturn, Deleted
  <2>3. Continues(t, r) /\ TablesSame /\ UNCHANGED <<subs, missed>>
    BY <1>1 DEF DoesReserve, DoesOpen, DoesReturn, RestSame
  <2>4. r.pc \notin Acting
    BY <2>1 DEF Acting, Deleted, Moving
  <2> QED
    BY <2>1, <2>2, <2>3, <2>4, TrashQuietStep
<1>2. CASE DoesGetTrash(t, r)
  <2>1. Continues(t, r) /\ TablesSame /\ UNCHANGED <<subs, missed>>
    BY <1>2 DEF DoesGetTrash, RestSame
  <2>2. CASE thread[t].pc \in {"trash", "trashWait"}
    <3>1. thread[t].pc \notin Deleted /\ r.pc \in {"add", "trashWait", "addSub"} /\ r.vfolder = objectTable[VTrash]
      BY <1>2, <2>2 DEF DoesGetTrash, SameBut, Deleted
    <3>2. r.pc = "add" => /\ objectTable[VTrash] = NoObject /\ \A u \in Threads : VTrash \notin creating[u]
      BY <1>2, <2>2 DEF DoesGetTrash
    <3>3. r.name # VTrash
      BY <1>2, <2>2, StepFacts DEF DoesGetTrash, SameBut, Fits, OpeningFolder
    <3>4. r.pc \notin Acting
      BY <3>1 DEF Acting, Deleted, Moving
    <3> QED
      BY <2>1, <3>1, <3>2, <3>3, <3>4, TrashQuietStep
  <2>3. CASE thread[t].pc \in {"delTrash", "delTrashWait"}
    <3>1. r.pc \in {"delMark", "delTrashWait", "delSub"} /\ r.folder = thread[t].folder
      BY <1>2, <2>3 DEF DoesGetTrash, SameBut
    <3> QED
      BY <2>1, <2>3, <3>1, TrashQuietStep DEF Deleted, Acting
  <2> QED
    BY <1>2, <2>2, <2>3 DEF DoesGetTrash
<1>3. CASE DoesBeginDelete(t, r) \/ DoesBeginRename(t, r) \/ DoesDeleteGet(t, r)
  <2>1. Continues(t, r) /\ TablesSame /\ UNCHANGED <<subs, missed>>
    BY <1>3 DEF DoesBeginDelete, DoesBeginRename, DoesDeleteGet, RestSame
  <2>2. thread[t].pc \notin Deleted /\ r.pc \in {"delMeta", "renGet", "delTrash", "delWait", "idle"}
    BY <1>3 DEF DoesBeginDelete, DoesBeginRename, DoesDeleteGet, Deleted
  <2>3. r.folder # NoObject => \E k \in Names : r.folder = objectTable[k]
    <3>1. CASE DoesDeleteGet(t, r)
      <4>1. thread[t].name \in Names
        BY <3>1, StepFacts DEF DoesDeleteGet, RecordFits, Locking, Names
      <4> QED
        BY <3>1, <4>1 DEF DoesDeleteGet
    <3>2. CASE DoesBeginDelete(t, r) \/ DoesBeginRename(t, r)
      BY <3>2 DEF DoesBeginDelete, DoesBeginRename
    <3> QED
      BY <1>3, <3>1, <3>2
  <2>4. r.folder # NoObject => keyTable[r.folder] # VTrash
    BY <1>b, <1>c, <2>3
  <2> QED
    BY <2>1, <2>2, <2>4, TrashQuietStep
<1>4. CASE DoesRenameGet(t, r) \/ DoesMove(t, r)
  <2>1. Continues(t, r) /\ TablesSame /\ UNCHANGED <<subs, missed>> /\ r.folder = thread[t].folder
    BY <1>4 DEF DoesRenameGet, DoesMove, RestSame, SameBut
  <2>2. r.pc \in {"renMove", "renWait", "renUnref", "rekey", "unlock"}
    BY <1>4 DEF DoesRenameGet, DoesMove
  <2>3. thread[t].pc \in Moving /\ thread[t].pc \notin Deleted
    BY <1>4 DEF DoesRenameGet, DoesMove, Moving, Deleted
  <2>4. thread[t].pc \in Acting
    BY <2>3 DEF Acting
  <2> QED
    BY <2>1, <2>2, <2>3, <2>4, TrashQuietStep
<1>5. CASE DoesCall(t, r) \/ DoesFail(t, r)
  <2>1. Continues(t, r) /\ TablesSame /\ UNCHANGED <<subs, missed>> /\ r.folder = NoObject
    BY <1>5 DEF DoesCall, DoesFail, RestSame
  <2>2. thread[t].pc \notin Deleted /\ r.pc \in {"idle", "delLock", "renLock"}
    BY <1>5 DEF DoesCall, DoesFail, Deleted
  <2> QED
    BY <2>1, <2>2, TrashQuietStep
<1> QED
  BY <1>1, <1>2, <1>3, <1>4, <1>5

LEMMA TrashAddSub ==
    ASSUME StoreInv, RefsInv, TrashInv, NEW t \in Threads, NEW r, DoesAddSub(t, r)
    PROVE  TrashInv'
<1>a. VTrash \notin clashed /\ objectTable[VTrash] = thread[t].vfolder
  BY DEF TrashInv, TrashStays, DoesAddSub
<1>1. /\ thread'[t] = r /\ \A u \in Threads \ {t} : thread'[u] = thread[u]
      /\ objectTable' = objectTable /\ keyTable' = keyTable /\ clashed' = clashed /\ missed' = missed
      /\ subs' = [subs EXCEPT ![thread[t].vfolder] = @ \cup {thread[t].folder}]
      /\ r.pc = "unrefTrash" /\ r.vfolder = thread[t].vfolder /\ r.folder = thread[t].folder
  BY DEF Continues, TablesSame, StoreInv, ThreadsInv, DoesAddSub, SameBut
<1>2. thread[t].vfolder \in Objects
  BY StepFacts DEF DoesAddSub, Fits, HasVFolder
<1>3. /\ r.folder \in subs'[objectTable'[VTrash]]
      /\ \A v \in Objects : subs[v] \subseteq subs'[v]
  BY <1>a, <1>1, <1>2, StepFacts
<1>4. ~Fills(r) /\ r.pc \notin Acting /\ thread[t].pc \notin Deleted
  BY <1>1 DEF Fills, Acting, Deleted, Moving, DoesAddSub
<1> QED
  BY <1>a, <1>1, <1>3, <1>4, TrashStep

LEMMA TrashList ==
    ASSUME StoreInv, RefsInv, TrashInv, NEW t \in Threads, NEW r, DoesList(t, r)
    PROVE  TrashInv'
<1>a. VTrash \notin clashed
  BY DEF TrashInv, TrashStays
<1>1. /\ thread'[t] = r /\ \A u \in Threads \ {t} : thread'[u] = thread[u]
      /\ objectTable' = objectTable /\ keyTable' = keyTable /\ clashed' = clashed /\ subs' = subs
      /\ r.pc = "fill" /\ r.list = Filed
  BY DEF Continues, TablesSame, StoreInv, ThreadsInv, DoesList
<1>2. missed \subseteq missed' /\ \A u \in Threads : thread[u].pc = "add" => thread[u].folder \in missed'
  BY DEF DoesList
<1>3. \A k \in Names : objectTable'[k] \in r.list \cup {NoObject}
  BY <1>1 DEF Filed, Names
<1>4. r.pc \notin Acting /\ thread[t].pc \notin Deleted
  BY <1>1 DEF Acting, Deleted, Moving, DoesList
<1> QED
  BY <1>a, <1>1, <1>2, <1>3, <1>4, TrashStep

LEMMA TrashFill ==
    ASSUME StoreInv, RefsInv, TrashInv, NEW t \in Threads, NEW r, DoesFill(t, r)
    PROVE  TrashInv'
<1>a. VTrash \notin clashed
  BY DEF TrashInv, TrashStays
<1>1. /\ thread'[t] = r /\ \A u \in Threads \ {t} : thread'[u] = thread[u]
      /\ objectTable' = objectTable /\ keyTable' = keyTable /\ clashed' = clashed /\ missed' = missed
      /\ r.folder = thread[t].folder /\ r.pc \in {"fill", "add"}
  BY DEF Continues, TablesSame, StoreInv, ThreadsInv, DoesFill
<1>2. r.name = VTrash /\ Fills(thread[t])
  BY StepFacts DEF DoesFill, RecordFits, Fills
<1>3. r.folder \in Objects
  BY <1>a, <1>1, <1>2, TrashFacts
<1>4. /\ \A v \in Objects : subs[v] \subseteq subs'[v]
      /\ subs[r.folder] \cup thread[t].list \subseteq subs'[r.folder] \cup r.list
  BY <1>1, <1>3, StepFacts DEF DoesFill
<1>5. r.pc \notin Acting /\ thread[t].pc \notin Deleted
  BY <1>1 DEF Acting, Deleted, Moving, DoesFill
<1> QED
  BY <1>a, <1>1, <1>2, <1>4, <1>5, TrashStep

\* The trash and the folders stay where they are, or leave the bag; the trash
\* does so only if no call of get_folder of another thread is about to use it.
SparesTrash(t) ==
    /\ clashed' = clashed /\ VTrash \notin clashed
    /\ \A y \in Objects : keyTable'[y] = VTrash => keyTable[y] = VTrash
    /\ \/ objectTable'[VTrash] = objectTable[VTrash]
       \/ /\ objectTable'[VTrash] = NoObject
          /\ \A u \in Threads \ {t} : thread[u].pc \in {"addSub", "unrefTrash"} =>
                thread[u].vfolder # objectTable[VTrash]
    /\ \A k \in Names : objectTable'[k] = NoObject \/ \E j \in Names : objectTable'[k] = objectTable[j]
    /\ \A f \in missed : \/ f \in missed'
                         \/ /\ \A k \in Keys : objectTable'[k] # f
                            /\ \A u \in Threads : thread[u].pc \in Opening => thread[u].folder # f

\* A reference that t, or a virtual folder, lets go: the trash leaves the bag
\* only if no call of get_folder is about to use it.
LEMMA DropsTrash ==
    ASSUME StoreInv, RefsInv, TrashInv, NEW x, Drops(x), NEW t,
           (t \in Threads /\ x \in {thread[t].folder, thread[t].vfolder}) \/ \E v \in Objects : x \in subs[v]
    PROVE  SparesTrash(t)
<1>a. VTrash \notin clashed
  BY DEF TrashInv, TrashStays
<1>b. VTrash \in Keys /\ \A k \in Names : k \in Keys
  BY <1>a, TrashFacts
<1>c. x \in Objects /\ NoKey # VTrash /\ clashed' = clashed
  BY <1>b, BagAssumption DEF Drops
<1>1. \A y \in Objects : keyTable'[y] = VTrash => keyTable[y] = VTrash
  BY <1>c DEF Drops
<1>2. ASSUME objectTable'[VTrash] # objectTable[VTrash], NEW u \in Threads \ {t},
             thread[u].pc \in {"addSub", "unrefTrash"}, thread[u].vfolder = objectTable[VTrash]
      PROVE  FALSE
  <2>1. refCount[x] = 1 /\ keyTable[x] = VTrash
    BY <1>b, <1>2 DEF Drops
  <2>2. objectTable[VTrash] = x
    BY <1>a, <1>b, <1>c, <2>1 DEF StoreInv, BagInv, TablesAgree
  <2>3. Held(thread[u], x) >= 1 /\ (t \in Threads /\ x \in {thread[t].folder, thread[t].vfolder} => Held(thread[t], x) >= 1)
    BY <1>2, <2>2 DEF Held, One
  <2>4. RefsFit
    BY DEF RefsInv
  <2>5. /\ \A w \in Threads : Held(thread[w], x) \in Nat
        /\ t \in Threads => Held(thread[t], x) + Held(thread[u], x) <= 1
        /\ (\E v \in Objects : x \in subs[v]) => Held(thread[u], x) + 1 <= 1
    BY <1>2, <1>c, <2>1, <2>4, HeldIsCounted
  <2> QED
    BY <1>2, <2>3, <2>5
<1>3. objectTable'[VTrash] \in {objectTable[VTrash], NoObject}
  BY <1>b DEF Drops
<1>4. \A k \in Names : objectTable'[k] = NoObject \/ \E j \in Names : objectTable'[k] = objectTable[j]
  BY <1>b DEF Drops
<1>5. ASSUME NEW f \in missed, f \notin missed'
      PROVE  /\ \A k \in Keys : objectTable'[k] # f
             /\ \A u \in Threads : thread[u].pc \in Opening => thread[u].folder # f
  <2>1. f = x /\ refCount[x] = 1
    BY <1>5 DEF Drops
  <2> QED
    BY <2>1 DEF Drops
<1> QED
  BY <1>a, <1>c, <1>1, <1>2, <1>3, <1>4, <1>5 DEF SparesTrash

LEMMA TrashUnrefVFolder ==
    ASSUME StoreInv, RefsInv, TrashInv, NEW t \in Threads, NEW r, DoesUnrefVFolder(t, r)
    PROVE  TrashInv'
<1> DEFINE q == thread[t]
           x == thread[t].vfolder
<1>1. /\ thread'[t] = r /\ \A u \in Threads \ {t} : thread'[u] = thread[u] /\ subs' = subs
  BY DEF Continues, StoreInv, ThreadsInv, DoesUnrefVFolder
<1>2. /\ r.folder = q.folder /\ r.name = q.name /\ Drops(x) /\ subs' = subs
      /\ \/ q.pc = "unrefTrash" /\ r.pc = "add"
         \/ q.pc = "delUnrefTrash" /\ r.pc = "delMark"
         \/ q.pc = "renUnref" /\ r.pc \in {"rekey", "unlock"}
  BY DEF DoesUnrefVFolder, SameBut
<1>3. SparesTrash(t)
  BY <1>2, DropsTrash
<1>4. r.pc \in Acting /\ r.folder # NoObject => keyTable'[r.folder] # VTrash
  <2>1. CASE q.pc \in {"delUnrefTrash", "renUnref"}
    <3>1. q.pc \in Acting /\ q.folder \in Objects \cup {NoObject}
      BY <2>1, StepFacts DEF Acting, Deleted, Moving
    <3> QED
      BY <1>2, <1>3, <3>1 DEF TrashInv, TrashStays, SparesTrash
  <2>2. CASE r.pc = "add"
    BY <2>2 DEF Acting, Deleted, Moving
  <2> QED
    BY <1>2, <2>1, <2>2
<1>5. r.pc = "add" => /\ \A w \in Threads : ~Fills(thread[w])
                      /\ objectTable'[VTrash] # NoObject /\ r.folder \notin missed' =>
                            r.folder \in subs'[objectTable'[VTrash]]
  <2> SUFFICES ASSUME r.pc = "add"
               PROVE  /\ \A w \in Threads : ~Fills(thread[w])
                      /\ objectTable'[VTrash] # NoObject /\ r.folder \notin missed' =>
                            r.folder \in subs'[objectTable'[VTrash]]
    OBVIOUS
  <2>1. q.pc = "unrefTrash"
    BY <1>2
  <2>2. objectTable[VTrash] = x /\ x \in Objects
    BY <1>2, <2>1 DEF TrashInv, TrashStays, Drops
  <2>3. \A w \in Threads : ~Fills(thread[w])
    BY <1>3, <2>2, BagAssumption, TrashFacts DEF SparesTrash
  <2>4. q.name # VTrash /\ q.pc \in Opening
    BY <2>1, StepFacts DEF Fits, OpeningFolder, Opening
  <2>5. q.folder \notin missed' => q.folder \notin missed
    BY <1>3, <2>4 DEF SparesTrash
  <2>6. q.folder \notin missed => q.folder \in subs[x]
    BY <2>1, <2>2, <2>4, BagAssumption DEF TrashInv, ComingShown
  <2> QED
    BY <1>2, <1>3, <2>2, <2>3, <2>5, <2>6 DEF SparesTrash
<1>6. r.pc = "add" => r.name # VTrash
  BY <1>2, StepFacts DEF Fits, OpeningFolder
<1>7. ~Fills(r) /\ r.pc \notin {"addSub", "unrefTrash"}
  BY <1>2, <1>6 DEF Fills
<1>8. q.pc \in Deleted => r.pc \in Deleted
  BY <1>2 DEF Deleted
<1> HIDE DEF q, x
<1>9. thread[t] = q
  BY DEF q
<1> QED
  BY <1>1, <1>2, <1>3, <1>4, <1>5, <1>6, <1>7, <1>8, <1>9, TrashStep DEF SparesTrash

LEMMA TrashRelease ==
    ASSUME StoreInv, RefsInv, TrashInv, NEW t \in Threads, NEW r, DoesRelease(t, r)
    PROVE  TrashInv'
<1>a. VTrash \notin clashed
  BY DEF TrashInv, TrashStays
<1>1. /\ thread'[t] = r /\ \A u \in Threads \ {t} : thread'[u] = thread[u] /\ subs' = subs
      /\ r.pc \in {"idle", "delGet"} /\ thread[t].pc \in {"keeps", "delState", "unlock"}
  BY DEF Continues, StoreInv, ThreadsInv, DoesRelease
<1>2. subs' = subs
  BY DEF DoesRelease
<1>3. ~Fills(r) /\ r.pc \notin Acting /\ thread[t].pc \notin Deleted
  BY <1>1 DEF Fills, Acting, Deleted, Moving
<1>4. CASE Drops(thread[t].folder)
  <2>1. SparesTrash(t)
    BY <1>4, DropsTrash
  <2> QED
    BY <1>a, <1>1, <1>2, <1>3, <2>1, TrashStep DEF SparesTrash
<1>5. CASE TablesSame /\ missed' = missed
  <2>1. Continues(t, r) /\ UNCHANGED <<subs, missed>>
    BY <1>5, <1>2 DEF DoesRelease
  <2> QED
    BY <1>1, <1>3, <1>5, <2>1, TrashQuietStep
<1> QED
  BY <1>4, <1>5 DEF DoesRelease

LEMMA TrashRemoveSub ==
    ASSUME StoreInv, RefsInv, TrashInv, NEW t \in Threads, NEW r, DoesRemoveSub(t, r)
    PROVE  TrashInv'
<1> DEFINE q == thread[t]
<1>1. /\ thread'[t] = r /\ \A u \in Threads \ {t} : thread'[u] = thread[u]
      /\ r.folder = q.folder /\ Continues(t, r)
      /\ \/ q.pc = "delSub" /\ r.pc = "delUnrefTrash"
         \/ q.pc = "delMark" /\ r.pc = "delBag"
  BY DEF Continues, StoreInv, ThreadsInv, DoesRemoveSub, SameBut
<1>2. /\ q.pc \in Deleted /\ r.pc \in Deleted /\ q.pc \in Acting /\ r.pc \in Acting
      /\ q.folder \in Objects /\ ~Fills(r) /\ r.pc \notin {"addSub", "unrefTrash", "add", "fill"}
  BY <1>1, StepFacts DEF Deleted, Acting, Fills, Fits, HasFolder
<1>3. CASE \E v \in Objects : /\ q.folder \in subs[v] /\ Drops(q.folder)
                              /\ subs' = [subs EXCEPT ![v] = @ \ {q.folder}]
  <2>1. SparesTrash(t)
    BY <1>3, DropsTrash
  <2>2. \A v \in Objects : \A f \in subs[v] : f \in subs'[v] \/ f = q.folder
    BY <1>3, StepFacts
  <2>3. keyTable'[r.folder] # VTrash
    BY <1>1, <1>2, <2>1, BagAssumption DEF TrashInv, TrashStays, SparesTrash
  <2> HIDE DEF q
  <2>4. thread[t] = q
    BY DEF q
  <2> QED
    BY <1>1, <1>2, <2>1, <2>2, <2>3, <2>4, TrashStep DEF SparesTrash
<1>4. CASE TablesSame /\ UNCHANGED <<subs, missed>>
  BY <1>1, <1>2, <1>4, TrashQuietStep
<1> QED
  BY <1>3, <1>4 DEF DoesRemoveSub

LEMMA TrashFinalise ==
    ASSUME StoreInv, RefsInv, TrashInv, NEW v \in Objects, DoesFinalise(v)
    PROVE  TrashInv'
<1>1. PICK x \in subs[v] : Drops(x) /\ subs' = [subs EXCEPT ![v] = @ \ {x}]
  BY DEF DoesFinalise
<1>2. SparesTrash(NoThread)
  BY <1>1, DropsTrash
<1>3. \A w \in Objects : \A f \in subs[w] : f \in subs'[w] \/ refCount[w] = 0
  BY <1>1 DEF DoesFinalise, StoreInv, RestTyped
<1>4. \A u \in Threads : thread'[u] = thread[u]
  BY DEF DoesFinalise
<1>5. ~Fills(Idle) /\ Idle.pc \notin Acting /\ Idle.pc = "idle" /\ NoThread \notin Threads
  BY IdleFields, BagAssumption DEF Fills, Acting, Deleted, Moving
<1> QED
  BY <1>2, <1>3, <1>4, <1>5, TrashStep DEF SparesTrash

LEMMA TrashRemove ==
    ASSUME StoreInv, RefsInv, TrashInv, NEW t \in Threads, NEW r, DoesRemove(t, r)
    PROVE  TrashInv'
<1> DEFINE f == thread[t].folder
<1>1. /\ thread'[t] = r /\ \A u \in Threads \ {t} : thread'[u] = thread[u]
      /\ r.folder = f /\ r.pc = "unlock" /\ thread[t].pc = "delBag"
      /\ clashed' = clashed /\ subs' = subs /\ missed' = missed
  BY DEF Continues, StoreInv, ThreadsInv, DoesRemove, SameBut, RestSame
<1>2. /\ thread[t].pc \in Acting /\ f \in Objects /\ ~Fills(r)
  BY <1>1, StepFacts DEF Deleted, Acting, Fills, Fits, HasFolder
<1>3. VTrash \notin clashed /\ keyTable[f] # VTrash
  BY <1>2, BagAssumption DEF TrashInv, TrashStays
<1>4. VTrash \in Keys /\ \A k \in Names : k \in Keys
  BY <1>3, TrashFacts
<1>5. /\ \A k \in Keys : objectTable'[k] = objectTable[k] \/ (objectTable'[k] = NoObject /\ k = keyTable[f])
      /\ \A k \in Keys : objectTable'[k] # f
      /\ \A y \in Objects : y # f => keyTable'[y] = keyTable[y]
      /\ keyTable'[f] = NoKey
  BY DEF DoesRemove
<1>6. objectTable'[VTrash] = objectTable[VTrash] /\ NoKey # VTrash
  BY <1>3, <1>4, <1>5, BagAssumption
<1>7. \A y \in Objects : keyTable'[y] = VTrash => keyTable[y] = VTrash
  BY <1>5, <1>6
<1>8. \A k \in Names : objectTable'[k] = NoObject \/ \E j \in Names : objectTable'[k] = objectTable[j]
  BY <1>4, <1>5
<1> HIDE DEF f
<1>9. thread[t].folder = f
  BY DEF f
<1> QED
  BY <1>1, <1>2, <1>3, <1>5, <1>6, <1>7, <1>8, <1>9, TrashStep

LEMMA TrashRekey ==
    ASSUME StoreInv, RefsInv, TrashInv, NEW t \in Threads, NEW r, DoesRekey(t, r)
    PROVE  TrashInv'
<1> DEFINE f == thread[t].folder
           n == thread[t].new
<1>1. /\ thread'[t] = r /\ \A u \in Threads \ {t} : thread'[u] = thread[u] /\ Continues(t, r)
      /\ r.folder = f /\ r.pc = "unlock" /\ thread[t].pc = "rekey"
      /\ subs' = subs /\ missed' = missed
  BY DEF Continues, StoreInv, ThreadsInv, DoesRekey, SameBut, RestSame
<1>2. /\ thread[t].pc \in Acting /\ f \in Objects /\ ~Fills(r) /\ n # VTrash /\ n \in Keys
      /\ thread[t].pc \notin Deleted
  BY <1>1, StepFacts DEF Deleted, Acting, Moving, Fills, Fits, HasFolder, RecordFits
<1>3. VTrash \notin clashed /\ keyTable[f] # VTrash
  BY <1>2, BagAssumption DEF TrashInv, TrashStays
<1>4. VTrash \in Keys /\ \A k \in Keys : k \in Names <=> k # VTrash
  BY <1>3, TrashFacts DEF Names
<1>5. CASE TablesSame
  <2>1. Continues(t, r)
    BY DEF DoesRekey
  <2> QED
    BY <1>1, <1>2, <1>5, <2>1, TrashQuietStep
<1>6. CASE /\ keyTable[f] # NoKey
           /\ objectTable' = [objectTable EXCEPT ![keyTable[f]] = NoObject, ![n] = f]
           /\ keyTable' = [keyTable EXCEPT ![f] = n]
           /\ clashed' = clashed \/ clashed' = clashed \cup {n}
  <2>1. keyTable[f] \in Names /\ Names \subseteq Keys
    BY <1>2, <1>3, <1>4, <1>6, StepFacts DEF Names
  <2>2. objectTable'[VTrash] = objectTable[VTrash]
    BY <1>2, <1>3, <1>4, <1>6, StepFacts
  <2>3. \A y \in Objects : keyTable'[y] = VTrash => keyTable[y] = VTrash
    BY <1>2, <1>6, StepFacts
  <2>4. keyTable'[f] # VTrash
    BY <1>2, <1>6, StepFacts
  <2>5. clashed' = {} => objectTable[keyTable[f]] = f
    <3>1. clashed' = {} => clashed = {}
      BY <1>6
    <3> QED
      BY <1>2, <1>6, <2>1, <3>1 DEF StoreInv, BagInv, TablesAgree
  <2>6. ASSUME clashed' = {}, NEW k \in Names
        PROVE  objectTable'[k] = NoObject \/ \E j \in Names : objectTable'[k] = objectTable[j]
    <3>1. CASE k = n
      BY <1>2, <1>6, <2>1, <2>5, <2>6, <3>1, StepFacts
    <3>2. CASE k # n
      BY <1>2, <1>6, <2>1, <3>2, StepFacts
    <3> QED
      BY <3>1, <3>2
  <2>7. clashed \subseteq clashed' /\ VTrash \notin clashed'
    BY <1>2, <1>3, <1>6
  <2> HIDE DEF f, n
  <2> QED
    BY <1>1, <1>2, <2>2, <2>3, <2>4, <2>6, <2>7, TrashStep
<1> QED
  BY <1>5, <1>6 DEF DoesRekey

LEMMA TrashAdd ==
    ASSUME StoreInv, RefsInv, TrashInv, NEW t \in Threads, NEW r, DoesAdd(t, r)
    PROVE  TrashInv'
<1> DEFINE x == thread[t].folder
           n == thread[t].name
<1>a. TrashStays /\ ComingShown /\ FillShows /\ TrashShows /\ VTrash \notin clashed
  BY DEF TrashInv, TrashStays
<1>1. /\ thread'[t] = r /\ \A u \in Threads \ {t} : thread'[u] = thread[u]
      /\ thread[t].pc = "add" /\ r.pc \in {"keeps", "delState"}
      /\ objectTable' = [objectTable EXCEPT ![n] = x] /\ keyTable' = [keyTable EXCEPT ![x] = n]
      /\ subs' = subs /\ missed' = missed /\ clashed' = clashed
  BY DEF Continues, StoreInv, ThreadsInv, DoesAdd, Returns, RestSame
<1>2. thread[t].pc \in Opening /\ x \in Objects /\ n \in Keys /\ n \in creating[t]
  BY <1>1, StepFacts, OpeningIsNew DEF Opening, Fits
<1>3. /\ VTrash \in Keys /\ \A k \in Names : k \in Keys /\ k # VTrash
  BY <1>a, TrashFacts
<1>4. ~Fills(r) /\ r.pc \notin Acting
  BY <1>1 DEF Fills, Acting, Deleted, Moving
<1>5. \A k \in Keys : objectTable'[k] = IF k = n THEN x ELSE objectTable[k]
  BY <1>1, <1>2, StepFacts
\* The trash is the new folder, or the one that was there.
<1>6. objectTable'[VTrash] = IF n = VTrash THEN x ELSE objectTable[VTrash]
  BY <1>3, <1>5
<1>7. \A u \in Threads : thread[u].pc \in {"addSub", "unrefTrash"} => n # VTrash
  <2> SUFFICES ASSUME NEW u \in Threads, thread[u].pc \in {"addSub", "unrefTrash"}, n = VTrash
               PROVE  FALSE
    OBVIOUS
  <2>1. objectTable[VTrash] = NoObject
    BY <1>a, <1>2 DEF StoreInv, BagInv, CreatedIsAbsent
  <2>2. thread[u].vfolder # NoObject
    BY StepFacts DEF Fits, HasVFolder
  <2> QED
    BY <1>a, <2>1, <2>2 DEF TrashStays
<1>8. TrashStays'
  <2>1. ASSUME NEW u \in Threads, thread'[u].pc \in Acting, thread'[u].folder # NoObject
        PROVE  keyTable'[thread'[u].folder] # VTrash
    <3>1. u # t /\ thread'[u] = thread[u]
      BY <1>1, <1>4, <2>1
    <3>2. thread[u].folder # x /\ thread[u].folder \in Objects
      BY <1>2, <2>1, <3>1, StepFacts DEF RefsInv, FreshIsPrivate
    <3>3. keyTable[thread[u].folder] # VTrash
      BY <1>a, <2>1, <3>1 DEF TrashStays
    <3> QED
      BY <1>1, <1>2, <3>1, <3>2, <3>3, StepFacts
  <2>2. ASSUME NEW u \in Threads, thread'[u].pc \in {"addSub", "unrefTrash"}
        PROVE  objectTable'[VTrash] = thread'[u].vfolder
    <3>1. thread'[u] = thread[u]
      BY <1>1, <2>2
    <3> QED
      BY <1>a, <1>6, <1>7, <2>2, <3>1 DEF TrashStays
  <2> QED
    BY <1>a, <1>1, <2>1, <2>2 DEF TrashStays
<1>9. ComingShown'
  <2> SUFFICES ASSUME NEW u \in Threads, thread'[u].pc \in {"unrefTrash", "add"}, thread'[u].name # VTrash,
                      objectTable'[VTrash] # NoObject, thread'[u].folder \notin missed
               PROVE  thread'[u].folder \in subs[objectTable'[VTrash]]
    BY <1>1 DEF ComingShown
  <2>1. thread'[u] = thread[u]
    BY <1>1
  <2>2. CASE n # VTrash
    BY <1>a, <1>6, <2>1, <2>2 DEF ComingShown
  <2>3. CASE n = VTrash
    BY <1>a, <1>1, <1>7, <2>1, <2>3 DEF FillShows, Fills
  <2> QED
    BY <2>2, <2>3
\* What the trash should have of the other folders.
<1>10. \A f, s : Shown(f, s) => \/ f \in missed \cup {NoObject} \/ f \in s
                                \/ \E u \in Threads : thread'[u].pc \in Deleted /\ thread'[u].folder = f
  <2>1. thread[t].pc \notin Deleted
    BY <1>1 DEF Deleted
  <2> QED
    BY <1>1, <2>1 DEF Shown, BeingDeleted
<1>11. FillShows'
  <2> SUFFICES ASSUME NEW w \in Threads, Fills(thread'[w])
               PROVE  /\ \A u \in Threads : thread'[u].pc = "add" /\ thread'[u].name # VTrash =>
                            thread'[u].folder \in missed
                      /\ clashed = {} => \A k \in Names :
                            \/ objectTable'[k] \in missed \cup {NoObject}
                            \/ objectTable'[k] \in subs[thread'[w].folder] \cup thread'[w].list
                            \/ \E u \in Threads : thread'[u].pc \in Deleted /\ thread'[u].folder = objectTable'[k]
    BY <1>1 DEF FillShows, Fills, Shown, BeingDeleted
  <2>1. thread'[w] = thread[w] /\ Fills(thread[w])
    BY <1>1, <1>4
  <2>2. \A u \in Threads : thread'[u].pc = "add" => thread'[u] = thread[u]
    BY <1>1
  <2>3. \A u \in Threads : thread[u].pc = "add" /\ thread[u].name # VTrash => thread[u].folder \in missed
    BY <1>a, <2>1 DEF FillShows
  <2>4. ASSUME clashed = {}, NEW k \in Names
        PROVE  \/ objectTable'[k] \in missed \cup {NoObject}
               \/ objectTable'[k] \in subs[thread'[w].folder] \cup thread'[w].list
               \/ \E u \in Threads : thread'[u].pc \in Deleted /\ thread'[u].folder = objectTable'[k]
    <3>1. CASE k = n
      BY <1>1, <1>3, <1>5, <2>3, <3>1
    <3>2. CASE k # n
      <4>1. objectTable'[k] = objectTable[k]
        BY <1>3, <1>5, <3>2
      <4>2. Shown(objectTable[k], subs[thread[w].folder] \cup thread[w].list)
        BY <1>a, <2>1, <2>4 DEF FillShows
      <4> QED
        BY <1>10, <2>1, <4>1, <4>2
    <3> QED
      BY <3>1, <3>2
  <2> QED
    BY <2>2, <2>3, <2>4
<1>12. TrashShows'
  <2> SUFFICES ASSUME clashed = {}, objectTable'[VTrash] # NoObject, NEW k \in Names
               PROVE  \/ objectTable'[k] \in missed \cup {NoObject}
                      \/ objectTable'[k] \in subs[objectTable'[VTrash]]
                      \/ \E u \in Threads : thread'[u].pc \in Deleted /\ thread'[u].folder = objectTable'[k]
    BY <1>1 DEF TrashShows, Shown, BeingDeleted
  <2>1. CASE n = VTrash
    <3>1. objectTable'[k] = objectTable[k] /\ objectTable'[VTrash] = x
      BY <1>3, <1>5, <1>6, <2>1
    <3>2. thread[t].list = {}
      BY <1>1, StepFacts DEF RecordFits
    <3>3. Shown(objectTable[k], subs[x] \cup {})
      BY <1>a, <1>1, <2>1, <3>2 DEF FillShows, Fills
    <3> QED
      BY <1>10, <3>1, <3>3
  <2>2. CASE n # VTrash /\ k # n
    <3>1. objectTable'[k] = objectTable[k] /\ objectTable'[VTrash] = objectTable[VTrash]
      BY <1>3, <1>5, <1>6, <2>2
    <3>2. Shown(objectTable[k], subs[objectTable[VTrash]])
      BY <1>a, <3>1 DEF TrashShows
    <3> QED
      BY <1>10, <3>1, <3>2
  <2>3. CASE n # VTrash /\ k = n
    BY <1>a, <1>1, <1>3, <1>5, <1>6, <2>3 DEF ComingShown
  <2> QED
    BY <2>1, <2>2, <2>3
<1> QED
  BY <1>8, <1>9, <1>11, <1>12 DEF TrashInv

LEMMA InitTrashInv == Init => TrashInv
<1> SUFFICES ASSUME Init PROVE TrashInv
  OBVIOUS
<1>1. \A t \in Threads : thread[t].pc = "idle"
  BY IdleFields DEF Init
<1>2. clashed = {} /\ objectTable[VTrash] = NoObject
  BY StoreAssumption DEF Init, BagInit
<1>3. TrashStays
  BY <1>1, <1>2 DEF TrashStays, Acting, Deleted, Moving
<1>4. ComingShown /\ FillShows /\ TrashShows
  BY <1>1, <1>2 DEF ComingShown, FillShows, Fills, TrashShows
<1> QED
  BY <1>3, <1>4 DEF TrashInv

LEMMA NextTrashInv == StoreInv /\ RefsInv /\ TrashInv /\ [Next]_vars => TrashInv'
<1> SUFFICES ASSUME StoreInv, RefsInv, TrashInv, [Next]_vars PROVE TrashInv'
  OBVIOUS
<1>1. ASSUME NEW t \in Threads, NEW r, Does(t, r)
      PROVE  TrashInv'
  BY <1>1, TrashQuiet, TrashAddSub, TrashList, TrashFill, TrashUnrefVFolder, TrashRelease,
     TrashRemoveSub, TrashRemove, TrashRekey, TrashAdd DEF Does
<1>2. ASSUME NEW v \in Objects, DoesFinalise(v)
      PROVE  TrashInv'
  BY <1>2, TrashFinalise
<1>3. CASE UNCHANGED vars
  <2>1. UNCHANGED <<thread, subs, missed, objectTable, keyTable, clashed>>
    BY <1>3 DEF vars, bagVars
  <2> QED
    BY <2>1 DEF TrashInv, TrashStays, ComingShown, FillShows, TrashShows, Shown, BeingDeleted
<1> QED
  BY <1>1, <1>2, <1>3, NextDoes

\* The trash has every folder that is in the bag with it, whichever of them
\* came first and whoever waits for whom: TrashHasOpenFolders for any number of
\* threads, names and objects.
THEOREM StoreTrashHasOpenFolders == Spec => []TrashHasOpenFolders
<1>1. Spec => [](StoreInv /\ RefsInv /\ TrashInv)
  <2>1. Init => StoreInv /\ RefsInv /\ TrashInv
    BY InitStoreInv, InitRefsInv, InitTrashInv
  <2>2. StoreInv /\ RefsInv /\ TrashInv /\ [Next]_vars => (StoreInv /\ RefsInv /\ TrashInv)'
    BY NextStoreInv, NextRefsInv, NextTrashInv
  <2> QED
    BY <2>1, <2>2, PTL DEF Spec
<1>2. TrashInv => TrashHasOpenFolders
  BY DEF TrashInv, TrashShows, TrashHasOpenFolders, Shown, BeingDeleted, InDelete, Deleted
<1> QED
  BY <1>1, <1>2, PTL
=============================================================================
