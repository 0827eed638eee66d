------------------------- MODULE CamelService_proofs -------------------------
(***************************************************************************)
(* Proofs about CamelService and CamelOperation, for any threads, any      *)
(* operations and any number of calls and cancellations.                   *)
(*                                                                         *)
(* The invariant says what each operation and its port look like           *)
(* (OperationFits), what a thread has registered at each place of its call *)
(* (ThreadFits, RegistrationFits), and what the thread with connect_lock   *)
(* knows of connect_op and of the connection (LockFits, ConnectionFits).   *)
(***************************************************************************)
EXTENDS CamelService, TLAPS, FiniteSetTheorems, SequenceTheorems

(* What a thread does, whether or not it waits for I/O first *)
Phase(t) == IF thread[t].pc \in InIO THEN thread[t].then ELSE thread[t].pc

(* The thread is between the lock and the unlock of connect_lock. *)
Working(t) == ~(thread[t].pc = "idle" \/ (thread[t].pc = "disconnectStatus" /\ ~thread[t].nested))

(* A call of disconnect has not got its reference yet, or has dropped it. *)
Outside == {"disconnect", "disconnectOp", "disconnectUnlock", "disconnectStatus"}

(* Somebody other than the call keeps the operation. *)
Kept(o) == o \in Owned \/ lost[o] > 0

(* Whether the outermost call of the thread has made the operation *)
Made(t) == IF thread[t].nested THEN thread[t].outer ELSE thread[t].unreg

ThreadFits(t) ==
    /\ thread[t].pc \in InIO => thread[t].then \in {"opened", "authenticated", "connectEnd", "quit"}
    /\ thread[t].nested =>
         /\ Phase(t) \in Outside \cup {"disconnecting", "quit", "disconnectRelease"}
         /\ ~thread[t].ret
         /\ thread[t].pc \notin Outside => ~thread[t].unreg

RegistrationFits(t) ==
    /\ Levels(t) > 0 => registered[t] \in Ops
    /\ registered[t] \in Ops /\ (Levels(t) = 0 \/ ~Made(t)) => Kept(registered[t])

(* The operation that the calls of the thread have put into connect_op *)
ConnectOpFits(t) ==
    /\ Phase(t) \in {"connecting", "opened", "prompt", "authenticated", "disconnecting", "quit",
                     "disconnectRelease"} => connectOp = registered[t]
    /\ thread[t].nested /\ thread[t].pc \in {"disconnect", "disconnectOp"} => connectOp = registered[t]
    /\ thread[t].pc \in InIO => connectOp = registered[t]
    /\ Levels(t) > 0 => connectOp \in {NoOp, registered[t]}
    /\ Levels(t) = 0 => connectOp = NoOp

Steady == status \in {"connected", "disconnected"} /\ (status = "connected" <=> engine)

Closed == status = "disconnected" /\ ~engine

(* What the thread that holds connect_lock knows of the connection *)
StatusFits(t) ==
    /\ Phase(t) \in {"connectOp", "connecting", "disconnectRelease", "disconnectUnlock",
                     "disconnectStatus"} => Closed
    /\ Phase(t) = "opened" => status = "connecting" /\ ~engine
    /\ Phase(t) \in {"prompt", "authenticated"} => status = "connecting" /\ engine
    /\ Phase(t) = "connectEnd" => (thread[t].ret <=> engine)
    /\ Phase(t) = "connectRelease" => Steady
    /\ Phase(t) = "disconnect" => IF thread[t].nested THEN status = "connecting" ELSE Steady

LockFits ==
    /\ \A t \in Threads : Working(t) => connectLock = t
    /\ connectLock # NoThread => Working(connectLock) /\ ConnectOpFits(connectLock)
    /\ connectLock = NoThread => connectOp = NoOp

SharedAreOwned ==
    \A t, u \in Threads : t # u /\ registered[t] \in Ops /\ registered[t] = registered[u]
                            => registered[t] \in Owned

RefsFit ==
    \A o \in Ops : ops[o].refcount = (IF o \in Owned THEN 1 ELSE 0) + lost[o] + CallsWith(o)

ConnectionFits ==
    ~clobbered => IF connectLock = NoThread THEN Steady ELSE StatusFits(connectLock)

(* An operation and its port: nothing is left of one that is free, the     *)
(* pipe has a byte per flagged message, and only a cancellation leaves a   *)
(* message.                                                                *)
OperationFits(r) ==
    /\ r \in Operation
    /\ r.refcount = 0 => r = Free
    /\ r.bytes = Flagged(r.queue)
    /\ r.queue # <<>> => r.cancelled

ThreadRecords ==
    [pc : Places, then : Places, io : {"ok", "no", "failed"}, ret : BOOLEAN,
     unreg : BOOLEAN, nested : BOOLEAN, outer : BOOLEAN]

Types ==
    /\ ops \in [Ops -> Operation] /\ \A o \in Ops : OperationFits(ops[o])
    /\ registered \in [Threads -> Ops \cup {NoOp}]
    /\ status \in {"disconnected", "connecting", "connected", "disconnecting"}
    /\ connectOp \in Ops \cup {NoOp}
    /\ connectLock \in Threads \cup {NoThread}
    /\ engine \in BOOLEAN
    /\ thread \in [Threads -> ThreadRecords]
    /\ calls \in 0..MaxCalls
    /\ cancels \in 0..MaxCancels
    /\ late \in SUBSET Ops
    /\ lost \in [Ops -> Nat]
    /\ clobbered \in BOOLEAN

IInv ==
    /\ Types
    /\ \A t \in Threads : ThreadFits(t) /\ RegistrationFits(t)
    /\ LockFits
    /\ SharedAreOwned
    /\ RefsFit
    /\ ConnectionFits

-----------------------------------------------------------------------------
(* The port *)

LEMMA FlaggedType == ASSUME NEW q \in Seq(BOOLEAN) PROVE Flagged(q) \in Nat
<1>1. DOMAIN q = 1..Len(q) /\ Len(q) \in Nat
  OBVIOUS
<1>2. IsFiniteSet(1..Len(q))
  BY <1>1, FS_Interval
<1>3. IsFiniteSet({i \in DOMAIN q : q[i]})
  <2>1. {i \in DOMAIN q : q[i]} \subseteq 1..Len(q)
    BY <1>1
  <2> QED BY <1>2, <2>1, FS_Subset
<1> QED BY <1>3, FS_CardinalityType DEF Flagged

LEMMA FlaggedEmpty == Flagged(<<>>) = 0
<1>1. {i \in DOMAIN <<>> : <<>>[i]} = {}
  OBVIOUS
<1> QED BY <1>1, FS_EmptySet DEF Flagged

LEMMA FlaggedAppend ==
  ASSUME NEW q \in Seq(BOOLEAN), NEW b \in BOOLEAN
  PROVE  Flagged(Append(q, b)) = IF b THEN Flagged(q) + 1 ELSE Flagged(q)
<1> DEFINE S == {i \in DOMAIN q : q[i]}
           a == Append(q, b)
           n == Len(q) + 1
           T == {i \in DOMAIN a : a[i]}
<1>1. DOMAIN q = 1..Len(q) /\ Len(q) \in Nat
  OBVIOUS
<1>2. DOMAIN a = 1..n /\ a[n] = b /\ \A i \in 1..Len(q) : a[i] = q[i]
  OBVIOUS
<1>3. IsFiniteSet(S)
  <2>1. S \subseteq 1..Len(q)
    BY <1>1
  <2>2. IsFiniteSet(1..Len(q))
    BY <1>1, FS_Interval
  <2> QED BY <2>1, <2>2, FS_Subset
<1>4. n \notin S /\ 1..n = 1..Len(q) \cup {n}
  BY <1>1
<1> HIDE DEF a, n
<1>5. CASE b
  <2>1. T = S \cup {n}
    BY <1>1, <1>2, <1>4, <1>5
  <2>2. Cardinality(S \cup {n}) = Cardinality(S) + 1
    BY <1>3, <1>4, FS_AddElement
  <2> QED BY <1>5, <2>1, <2>2 DEF Flagged, a
<1>6. CASE ~b
  <2>1. T = S
    BY <1>1, <1>2, <1>4, <1>6
  <2> QED BY <1>6, <2>1 DEF Flagged, a
<1> QED BY <1>5, <1>6

-----------------------------------------------------------------------------
(* Operations *)

LEMMA FreeFits == OperationFits(Free) /\ Free.refcount = 0
BY FlaggedEmpty DEF OperationFits, Free, Operation

(* One more or one less reference *)
LEMMA RefFits ==
  ASSUME NEW r, OperationFits(r)
  PROVE  OperationFits(camel_operation_ref(r)) /\ camel_operation_ref(r).refcount = r.refcount + 1
BY DEF OperationFits, Operation, camel_operation_ref

LEMMA UnrefFits ==
  ASSUME NEW r, OperationFits(r), r.refcount > 0
  PROVE  OperationFits(camel_operation_unref(r)) /\ camel_operation_unref(r).refcount = r.refcount - 1
<1>1. CASE r.refcount = 1
  BY <1>1, FreeFits DEF camel_operation_unref
<1>2. CASE r.refcount # 1
  BY <1>2 DEF OperationFits, Operation, camel_operation_unref
<1> QED BY <1>1, <1>2

LEMMA CancelledFits ==
  ASSUME NEW r, OperationFits(r), r.refcount > 0
  PROVE  OperationFits(Cancelled(r)) /\ Cancelled(r).refcount = r.refcount
<1> DEFINE yes == TRUE
           q == Append(r.queue, r.pipe)
           n == IF r.pipe THEN r.bytes + 1 ELSE r.bytes
<1>0. r \in Operation /\ r.queue \in Seq(BOOLEAN) /\ r.pipe \in BOOLEAN /\ r.bytes \in Int
      /\ r.bytes = Flagged(r.queue) /\ yes \in BOOLEAN /\ yes
  BY DEF OperationFits, Operation
<1>1. q \in Seq(BOOLEAN) /\ n = Flagged(q) /\ n \in Int
  BY <1>0, FlaggedAppend
<1>2. Cancelled(r) = [r EXCEPT !.cancelled = yes, !.queue = q, !.bytes = n]
  BY <1>0 DEF Cancelled, e_msgport_put, Operation
<1> HIDE DEF q, n
<1> DEFINE z == [r EXCEPT !.cancelled = yes, !.queue = q, !.bytes = n]
<1>3. z \in Operation /\ z.cancelled = yes /\ z.queue = q /\ z.bytes = n /\ z.refcount = r.refcount
  <2> HIDE DEF yes
  <2> QED BY <1>0, <1>1 DEF Operation
<1> HIDE DEF z
<1>4. OperationFits(z)
  BY <1>0, <1>1, <1>3 DEF OperationFits
<1> QED BY <1>2, <1>3, <1>4 DEF z

LEMMA CancelFits ==
  ASSUME NEW r, OperationFits(r), r.refcount > 0
  PROVE  /\ OperationFits(camel_operation_cancel(r))
         /\ camel_operation_cancel(r).refcount = r.refcount
BY CancelledFits DEF camel_operation_cancel

LEMMA UncancelFits ==
  ASSUME NEW r, OperationFits(r), r.refcount > 0
  PROVE  /\ OperationFits(camel_operation_uncancel(r))
         /\ camel_operation_uncancel(r).refcount = r.refcount
<1> DEFINE no == FALSE
           e == <<>>
           n == r.bytes - Flagged(r.queue)
           z == [r EXCEPT !.queue = e, !.bytes = n, !.cancelled = no]
<1>0. r \in Operation /\ no \in BOOLEAN /\ e \in Seq(BOOLEAN) /\ Flagged(e) = 0
  BY FlaggedEmpty DEF OperationFits
<1>1. n = 0 /\ n \in Int
  BY FlaggedType DEF OperationFits, Operation
<1>2. camel_operation_uncancel(r) = z
  BY <1>0 DEF camel_operation_uncancel, Drained, Operation
<1>e. e = <<>>
  OBVIOUS
<1> HIDE DEF no, e, n
<1>3. z \in Operation /\ z.queue = e /\ z.bytes = n /\ z.refcount = r.refcount
  BY <1>0, <1>1 DEF Operation
<1> HIDE DEF z
<1>4. OperationFits(z)
  BY <1>0, <1>1, <1>3, <1>e DEF OperationFits
<1> QED BY <1>2, <1>3, <1>4

LEMMA PipeFits ==
  ASSUME NEW r, OperationFits(r), r.refcount > 0
  PROVE  OperationFits(e_msgport_fd(r)) /\ e_msgport_fd(r).refcount = r.refcount
<1> DEFINE yes == TRUE
<1>0. e_msgport_fd(r) = [r EXCEPT !.pipe = yes] /\ yes \in BOOLEAN
  BY DEF e_msgport_fd
<1> HIDE DEF yes
<1> QED BY <1>0 DEF OperationFits, Operation

(* As only a cancellation leaves a message, the check finds the flag set   *)
(* before it looks at the port.                                            *)
LEMMA CheckFits ==
  ASSUME NEW r, OperationFits(r)
  PROVE  camel_operation_cancel_check(r) = r
BY DEF OperationFits, camel_operation_cancel_check

-----------------------------------------------------------------------------
(* The invariant gives the properties. *)

LEMMA LevelsType ==
  ASSUME NEW t \in Threads
  PROVE  Levels(t) \in 0..2
BY DEF Levels

(* connect_op is the operation of a call that has a reference to it. *)
LEMMA ConnectOpInUse == ASSUME IInv, NEW o \in Ops, connectOp = o PROVE ops[o].refcount > 0
<1> DEFINE h == connectLock
<1>0. Types /\ LockFits /\ RefsFit
  BY DEF IInv
<1>1. o # NoOp
  BY OperationAssumption
<1>2. h \in Threads /\ ConnectOpFits(h)
  BY <1>0, <1>1 DEF LockFits, Types
<1>3. Levels(h) > 0 /\ registered[h] = o
  BY <1>1, <1>2, LevelsType DEF ConnectOpFits
<1>4. h # NoThread
  BY <1>2, ServiceAssumption
<1>5. CallsWith(o) = Levels(h)
  BY <1>3, <1>4 DEF CallsWith
<1>6. ops[o].refcount = (IF o \in Owned THEN 1 ELSE 0) + lost[o] + CallsWith(o) /\ lost[o] \in Nat
  BY <1>0 DEF RefsFit, Types
<1>7. Levels(h) \in Nat
  BY <1>2, LevelsType
<1> QED BY <1>3, <1>5, <1>6, <1>7

LEMMA InvImplies == IInv => TypeOK /\ PortMatchesFlag /\ OperationsOwned /\ StatusIsTrue
<1> SUFFICES ASSUME IInv PROVE TypeOK /\ PortMatchesFlag /\ OperationsOwned /\ StatusIsTrue
  OBVIOUS
<1>0. Types /\ LockFits /\ RefsFit /\ ConnectionFits /\ \A t \in Threads : RegistrationFits(t)
  BY DEF IInv
<1>1. TypeOK
  BY <1>0 DEF Types, TypeOK, OperationFits, ThreadRecords
<1>2. PortMatchesFlag
  BY <1>0 DEF Types, PortMatchesFlag, OperationFits
<1>3. \A t \in Threads : Levels(t) > 0 => connectLock = t
  BY <1>0 DEF LockFits, Working, Levels
<1>4. \A o \in Ops : connectOp = o => ops[o].refcount > 0
  BY ConnectOpInUse
<1>5. OperationsOwned
  BY <1>0, <1>3, <1>4 DEF OperationsOwned, RefsFit
<1>6. StatusIsTrue
  BY <1>0 DEF StatusIsTrue, ConnectionFits, Steady
<1> QED BY <1>1, <1>2, <1>5, <1>6

LEMMA InitHolds == Init => IInv
<1> SUFFICES ASSUME Init PROVE IInv
  OBVIOUS
<1>0. /\ ops = [o \in Ops |-> IF o \in Owned THEN [Free EXCEPT !.refcount = 1] ELSE Free]
      /\ registered = OwnOp /\ status = "disconnected" /\ connectOp = NoOp /\ connectLock = NoThread
      /\ engine = FALSE /\ thread = [t \in Threads |-> Idle] /\ calls = 0 /\ cancels = 0 /\ late = {}
      /\ lost = [o \in Ops |-> 0] /\ clobbered = FALSE
  BY DEF Init, OperationInit
<1>1. OperationFits(Free) /\ Free.refcount = 0
  BY FreeFits
<1>2. OperationFits([Free EXCEPT !.refcount = 1]) /\ [Free EXCEPT !.refcount = 1].refcount = 1
  BY <1>1 DEF OperationFits, Operation
<1>3. \A o \in Ops : OperationFits(ops[o]) /\ ops[o].refcount = IF o \in Owned THEN 1 ELSE 0
  BY <1>0, <1>1, <1>2
<1>4. ops \in [Ops -> Operation]
  BY <1>0, <1>1, <1>2 DEF OperationFits
<1>5. Idle \in ThreadRecords /\ Idle.pc = "idle" /\ ~Idle.nested
  BY DEF Idle, ThreadRecords, Places, InIO
<1>6. \A t \in Threads : thread[t] = Idle /\ Levels(t) = 0
  BY <1>0, <1>5 DEF Levels
<1>7. Types
  <2>1. thread \in [Threads -> ThreadRecords] /\ lost \in [Ops -> Nat]
    BY <1>0, <1>5
  <2>2. calls \in 0..MaxCalls /\ cancels \in 0..MaxCancels
    BY <1>0, ServiceAssumption
  <2>3. engine \in BOOLEAN /\ clobbered \in BOOLEAN /\ late \in SUBSET Ops
    BY <1>0
  <2>4. registered \in [Threads -> Ops \cup {NoOp}] /\ connectOp \in Ops \cup {NoOp}
        /\ connectLock \in Threads \cup {NoThread}
        /\ status \in {"disconnected", "connecting", "connected", "disconnecting"}
    BY <1>0, OperationAssumption
  <2> QED BY <1>3, <1>4, <2>1, <2>2, <2>3, <2>4 DEF Types
<1>8. ASSUME NEW t \in Threads PROVE ThreadFits(t) /\ RegistrationFits(t) /\ ~Working(t)
  <2>1. ThreadFits(t) /\ ~Working(t)
    BY <1>5, <1>6 DEF ThreadFits, Working, InIO
  <2>2. RegistrationFits(t)
    BY <1>0, <1>6, OperationAssumption DEF RegistrationFits, Kept, Owned
  <2> QED BY <2>1, <2>2
<1>9. LockFits
  BY <1>0, <1>8 DEF LockFits
<1>10. SharedAreOwned
  BY <1>0, OperationAssumption DEF SharedAreOwned, Owned
<1>11. RefsFit
  BY <1>0, <1>3 DEF RefsFit, CallsWith
<1>12. ConnectionFits
  BY <1>0 DEF ConnectionFits, Steady
<1> QED BY <1>7, <1>8, <1>9, <1>10, <1>11, <1>12 DEF IInv

-----------------------------------------------------------------------------
(* What a thread's step does to its record *)

OthersStay(t) == \A u \in Threads : u # t => thread'[u] = thread[u]

LEMMA GoFacts ==
  ASSUME thread \in [Threads -> ThreadRecords], NEW t \in Threads, NEW p \in Places, Go(t, p)
  PROVE  /\ thread' \in [Threads -> ThreadRecords] /\ OthersStay(t)
         /\ thread'[t].pc = p /\ thread'[t].then = thread[t].then /\ thread'[t].io = thread[t].io
         /\ thread'[t].ret = thread[t].ret /\ thread'[t].unreg = thread[t].unreg
         /\ thread'[t].nested = thread[t].nested /\ thread'[t].outer = thread[t].outer
BY DEF Go, Become, ThreadRecords, OthersStay

LEMMA DoIOFacts ==
  ASSUME thread \in [Threads -> ThreadRecords], NEW t \in Threads, NEW p \in Places, DoIO(t, p)
  PROVE  /\ thread' \in [Threads -> ThreadRecords] /\ OthersStay(t)
         /\ thread'[t].pc = "check" /\ thread'[t].then = p /\ thread'[t].io = thread[t].io
         /\ thread'[t].ret = thread[t].ret /\ thread'[t].unreg = thread[t].unreg
         /\ thread'[t].nested = thread[t].nested /\ thread'[t].outer = thread[t].outer
<1>1. "check" \in Places
  BY DEF Places, InIO
<1> QED BY <1>1 DEF DoIO, Become, ThreadRecords, OthersStay

LEMMA IODoneFacts ==
  ASSUME thread \in [Threads -> ThreadRecords], NEW t \in Threads, NEW x \in {"ok", "no", "failed"},
         IODone(t, x)
  PROVE  /\ thread' \in [Threads -> ThreadRecords] /\ OthersStay(t)
         /\ thread'[t].pc = thread[t].then /\ thread'[t].then = thread[t].then /\ thread'[t].io = x
         /\ thread'[t].ret = thread[t].ret /\ thread'[t].unreg = thread[t].unreg
         /\ thread'[t].nested = thread[t].nested /\ thread'[t].outer = thread[t].outer
BY DEF IODone, Become, ThreadRecords, OthersStay

(* Other threads do not notice. *)
LEMMA OtherKeeps ==
  ASSUME NEW t \in Threads, NEW u \in Threads, u # t, OthersStay(t)
  PROVE  /\ Levels(u)' = Levels(u) /\ Working(u)' = Working(u) /\ Made(u)' = Made(u)
         /\ Phase(u)' = Phase(u) /\ (ThreadFits(u) => ThreadFits(u)')
<1>1. thread'[u] = thread[u]
  BY DEF OthersStay
<1>2. Phase(u)' = Phase(u)
  BY <1>1 DEF Phase
<1> QED BY <1>1, <1>2 DEF Levels, Working, Made, ThreadFits

(* A step of the thread that holds connect_lock, takes it or gives it back *)
LEMMA HolderKeeps ==
  ASSUME IInv, NEW t \in Threads, Types', OthersStay(t),
         \A u \in Threads : u # t => registered'[u] = registered[u],
         \A o \in Ops : lost'[o] >= lost[o],
         connectLock \in {t, NoThread}, connectLock' \in {t, NoThread},
         connectLock' = t <=> Working(t)',
         ThreadFits(t)', RegistrationFits(t)',
         connectLock' = t => ConnectOpFits(t)',
         connectLock' = NoThread => connectOp' = NoOp,
         SharedAreOwned', RefsFit', ConnectionFits'
  PROVE  IInv'
<1>0. /\ Types /\ LockFits /\ \A u \in Threads : ThreadFits(u) /\ RegistrationFits(u)
      /\ NoThread \notin Threads
  BY ServiceAssumption DEF IInv
<1>1. ASSUME NEW u \in Threads, u # t PROVE ThreadFits(u)' /\ RegistrationFits(u)' /\ ~Working(u)'
  <2>1. /\ Levels(u)' = Levels(u) /\ Working(u)' = Working(u) /\ Made(u)' = Made(u)
        /\ ThreadFits(u)'
    BY <1>0, <1>1, OtherKeeps
  <2>2. ~Working(u)
    BY <1>0, <1>1 DEF LockFits
  <2>3. registered'[u] = registered[u] /\ RegistrationFits(u)
    BY <1>0, <1>1
  <2>4. ASSUME NEW o \in Ops, Kept(o) PROVE Kept(o)'
    <3>1. lost[o] \in Nat /\ lost'[o] \in Nat /\ lost'[o] >= lost[o]
      BY <1>0 DEF Types
    <3> QED BY <2>4, <3>1 DEF Kept, Owned
  <2>5. RegistrationFits(u)'
    BY <2>1, <2>3, <2>4 DEF RegistrationFits
  <2> QED BY <2>1, <2>2, <2>5
<1>2. LockFits'
  BY <1>0, <1>1 DEF LockFits
<1> QED BY <1>1, <1>2 DEF IInv

(* A step of the thread that holds connect_lock, which leaves connect_op   *)
(* and the references alone                                                *)
LEMMA MoveKeeps ==
  ASSUME IInv, NEW t \in Threads, Types', OthersStay(t), Working(t), Working(t)',
         UNCHANGED <<registered, connectOp, connectLock, lost>>,
         \A o \in Ops : ops'[o].refcount = ops[o].refcount,
         Levels(t)' = Levels(t), Made(t)' = Made(t),
         ThreadFits(t)', ConnectOpFits(t)',
         ~clobbered' => StatusFits(t)'
  PROVE  IInv'
<1>0. /\ Types /\ LockFits /\ RefsFit /\ SharedAreOwned /\ RegistrationFits(t)
      /\ connectLock = t /\ t # NoThread
  BY ServiceAssumption DEF IInv, LockFits
<1>1. RegistrationFits(t)'
  BY <1>0 DEF RegistrationFits, Kept
<1>2. SharedAreOwned'
  BY <1>0 DEF SharedAreOwned
<1>3. RefsFit'
  BY <1>0 DEF RefsFit, CallsWith
<1>4. ConnectionFits'
  BY <1>0 DEF ConnectionFits
<1>5. \A o \in Ops : lost'[o] >= lost[o]
  BY <1>0 DEF Types
<1> QED BY <1>0, <1>1, <1>2, <1>3, <1>4, <1>5, HolderKeeps

-----------------------------------------------------------------------------
(* The facts that the proofs about single steps start from *)
LEMMA Facts ==
  ASSUME IInv
  PROVE  /\ Types /\ LockFits /\ RefsFit /\ SharedAreOwned /\ ConnectionFits
         /\ ops \in [Ops -> Operation] /\ \A o \in Ops : OperationFits(ops[o])
         /\ registered \in [Threads -> Ops \cup {NoOp}]
         /\ thread \in [Threads -> ThreadRecords]
         /\ lost \in [Ops -> Nat]
         /\ NoThread \notin Threads /\ NoOp \notin Ops
BY OperationAssumption, ServiceAssumption DEF IInv, Types

(* A thread in a call holds connect_lock and knows what that implies. *)
LEMMA HolderFacts ==
  ASSUME IInv, NEW t \in Threads, Working(t)
  PROVE  /\ connectLock = t /\ ThreadFits(t) /\ RegistrationFits(t) /\ ConnectOpFits(t)
         /\ ~clobbered => StatusFits(t)
BY ServiceAssumption DEF IInv, LockFits, ConnectionFits

(* The operation of a call is not free. *)
LEMMA InUse ==
  ASSUME IInv, NEW t \in Threads, registered[t] \in Ops
  PROVE  /\ ops[registered[t]].refcount \in Nat
         /\ ops[registered[t]].refcount > 0
         /\ Levels(t) > 0 => ops[registered[t]].refcount >= Levels(t)
<1> DEFINE o == registered[t]
           n == IF o \in Owned THEN 1 ELSE 0
<1>0. /\ Types /\ RefsFit /\ LockFits /\ RegistrationFits(t) /\ NoThread \notin Threads
      /\ lost[o] \in Nat /\ o \in Ops /\ connectLock \in Threads \cup {NoThread}
  BY Facts DEF IInv, Types
<1>1. ops[o].refcount = n + lost[o] + CallsWith(o) /\ n \in 0..1 /\ (o \in Owned => n = 1)
  BY <1>0 DEF RefsFit
<1>2. CallsWith(o) \in 0..2 /\ (Levels(t) > 0 => CallsWith(o) = Levels(t))
  <2>1. Levels(t) > 0 => connectLock = t
    BY <1>0 DEF LockFits, Working, Levels
  <2> QED BY <1>0, <2>1, LevelsType DEF CallsWith
<1>3. Levels(t) \in 0..2
  BY LevelsType
<1>4. Levels(t) = 0 => n = 1 \/ lost[o] > 0
  BY <1>0, <1>1 DEF RegistrationFits, Kept
<1> HIDE DEF n, o
<1>5. ops[o].refcount \in Nat /\ ops[o].refcount > 0 /\ (Levels(t) > 0 => ops[o].refcount >= Levels(t))
  BY <1>0, <1>1, <1>2, <1>3, <1>4
<1> QED BY <1>5 DEF o

-----------------------------------------------------------------------------
(* I/O *)

(* The thread goes from one place of its I/O to the next. *)
LEMMA IOMoves ==
  ASSUME IInv, NEW t \in Threads, thread[t].pc \in InIO, OthersStay(t),
         UNCHANGED <<registered, serviceVars, calls, cancels, late, lost>>,
         ops' \in [Ops -> Operation], thread' \in [Threads -> ThreadRecords],
         \A o \in Ops : OperationFits(ops'[o]) /\ ops'[o].refcount = ops[o].refcount,
         thread'[t].pc \in InIO \/ thread'[t].pc = thread[t].then,
         thread'[t].then = thread[t].then,
         thread'[t].ret = thread[t].ret, thread'[t].unreg = thread[t].unreg,
         thread'[t].nested = thread[t].nested, thread'[t].outer = thread[t].outer
  PROVE  IInv'
<1>0. Types /\ Working(t) /\ UNCHANGED <<status, connectOp, connectLock, engine, clobbered>>
  BY Facts DEF Working, InIO, serviceVars
<1>1. /\ ThreadFits(t) /\ ConnectOpFits(t) /\ (~clobbered => StatusFits(t))
  BY <1>0, HolderFacts
<1>2. thread[t].then \in {"opened", "authenticated", "connectEnd", "quit"}
  BY <1>1 DEF ThreadFits
<1>3. Types'
  BY <1>0 DEF Types
<1>4. Phase(t)' = Phase(t) /\ Phase(t) = thread[t].then
  BY <1>2 DEF Phase, InIO
<1>5. Levels(t)' = Levels(t) /\ Made(t)' = Made(t) /\ Working(t)'
  BY <1>2 DEF Levels, Made, Working, InIO
<1>6. ThreadFits(t)'
  BY <1>1, <1>2, <1>4 DEF ThreadFits, InIO, Outside
<1>7. ConnectOpFits(t)'
  BY <1>0, <1>1, <1>2, <1>4, <1>5 DEF ConnectOpFits, InIO
<1>8. ~clobbered' => StatusFits(t)'
  BY <1>0, <1>1, <1>4 DEF StatusFits, Closed, Steady
<1> QED BY <1>0, <1>3, <1>5, <1>6, <1>7, <1>8, MoveKeeps

LEMMA IOInUse ==
  ASSUME IInv, NEW t \in Threads, thread[t].pc \in InIO
  PROVE  registered[t] \in Ops /\ ops[registered[t]].refcount > 0
<1>1. Working(t) /\ ThreadFits(t) /\ RegistrationFits(t)
  BY HolderFacts DEF Working, InIO
<1>2. Levels(t) > 0
  BY DEF Levels, InIO
<1>3. registered[t] \in Ops
  BY <1>1, <1>2 DEF RegistrationFits
<1> QED BY <1>3, InUse

(* One operation is replaced by one with as many references. *)
LEMMA SetOpKeeps ==
  ASSUME IInv, NEW o \in Ops, NEW r, SetOp(o, r), OperationFits(r), r.refcount = ops[o].refcount
  PROVE  /\ ops' \in [Ops -> Operation]
         /\ \A p \in Ops : OperationFits(ops'[p]) /\ ops'[p].refcount = ops[p].refcount
<1>1. ops \in [Ops -> Operation] /\ (\A p \in Ops : OperationFits(ops[p])) /\ r \in Operation
  BY Facts DEF OperationFits
<1>2. ops' = [ops EXCEPT ![o] = r]
  BY DEF SetOp
<1>3. ops' \in [Ops -> Operation] /\ ops'[o] = r /\ \A p \in Ops : p # o => ops'[p] = ops[p]
  BY <1>1, <1>2
<1> QED BY <1>1, <1>3

LEMMA IOKeeps ==
  ASSUME IInv, NEW t \in Threads, io_check(t) \/ io_fd(t) \/ io_cancelled(t) \/ io_done(t)
  PROVE  IInv'
<1> DEFINE o == registered[t]
<1>0. Types /\ thread \in [Threads -> ThreadRecords]
  BY Facts
<1>p. thread[t].pc \in InIO
  BY DEF io_check, io_fd, io_cancelled, io_done, At, InIO
<1>o. o \in Ops /\ ops[o].refcount > 0 /\ OperationFits(ops[o])
  BY <1>p, IOInUse, Facts
<1>q. {"fd", "select", "read"} \subseteq Places /\ {"fd", "select", "read"} \subseteq InIO
  BY DEF Places, InIO
<1>1. ASSUME io_check(t) PROVE IInv'
  <2>1. /\ SetOp(o, ops[o]) /\ UNCHANGED <<registered, serviceVars, calls, cancels, late, lost>>
        /\ IODone(t, "failed") \/ Go(t, "fd")
    BY <1>1, <1>o, CheckFits DEF io_check
  <2>2. /\ ops' \in [Ops -> Operation]
        /\ \A p \in Ops : OperationFits(ops'[p]) /\ ops'[p].refcount = ops[p].refcount
    BY <1>o, <2>1, SetOpKeeps
  <2>3. CASE IODone(t, "failed")
    BY <1>0, <1>p, <2>1, <2>2, <2>3, IODoneFacts, IOMoves
  <2>4. CASE Go(t, "fd")
    BY <1>0, <1>p, <1>q, <2>1, <2>2, <2>4, GoFacts, IOMoves
  <2> QED BY <2>1, <2>3, <2>4
<1>2. ASSUME io_fd(t) PROVE IInv'
  <2>1. /\ \/ SetOp(o, e_msgport_fd(ops[o])) /\ Go(t, "select")
           \/ UNCHANGED ops /\ Go(t, "read")
        /\ UNCHANGED <<registered, serviceVars, calls, cancels, late, lost>>
    BY <1>2 DEF io_fd
  <2>2. OperationFits(e_msgport_fd(ops[o])) /\ e_msgport_fd(ops[o]).refcount = ops[o].refcount
    BY <1>o, PipeFits
  <2>3. /\ ops' \in [Ops -> Operation]
        /\ \A p \in Ops : OperationFits(ops'[p]) /\ ops'[p].refcount = ops[p].refcount
    BY <1>o, <2>1, <2>2, SetOpKeeps, Facts
  <2> QED BY <1>0, <1>p, <1>q, <2>1, <2>3, GoFacts, IOMoves
<1>3. ASSUME io_cancelled(t) \/ io_done(t) PROVE IInv'
  <2>1. PICK x \in {"ok", "no", "failed"} : IODone(t, x)
    BY <1>3 DEF io_cancelled, io_done
  <2>2. UNCHANGED <<ops, registered, serviceVars, calls, cancels, late, lost>>
    BY <1>3 DEF io_cancelled, io_done, operationVars
  <2>3. /\ ops' \in [Ops -> Operation]
        /\ \A p \in Ops : OperationFits(ops'[p]) /\ ops'[p].refcount = ops[p].refcount
    BY <2>2, Facts
  <2> QED BY <1>0, <1>p, <2>1, <2>2, <2>3, IODoneFacts, IOMoves
<1> QED BY <1>1, <1>2, <1>3

-----------------------------------------------------------------------------
(* The steps of a call between its locks *)

LEMMA ConnectingKeeps == ASSUME IInv, NEW t \in Threads, connecting(t) PROVE IInv'
<1>0. /\ thread[t].pc = "connecting" /\ status' = "connecting" /\ DoIO(t, "opened")
      /\ UNCHANGED <<ops, registered, connectOp, connectLock, engine, clobbered, calls, cancels, late,
                     lost>>
  BY DEF connecting, At, operationVars
<1>1. Types /\ Working(t) /\ thread \in [Threads -> ThreadRecords] /\ "opened" \in Places
  BY <1>0, Facts DEF Working, Places
<1>2. ThreadFits(t) /\ ConnectOpFits(t) /\ (~clobbered => StatusFits(t))
  BY <1>1, HolderFacts
<1>3. /\ thread' \in [Threads -> ThreadRecords] /\ OthersStay(t)
      /\ thread'[t].pc = "check" /\ thread'[t].then = "opened"
      /\ thread'[t].unreg = thread[t].unreg
      /\ thread'[t].nested = thread[t].nested /\ thread'[t].outer = thread[t].outer
  BY <1>0, <1>1, DoIOFacts
<1>4. Types'
  BY <1>0, <1>1, <1>3 DEF Types
<1>p. Phase(t) = "connecting" /\ Phase(t)' = "opened" /\ ~thread[t].nested
  BY <1>0, <1>2, <1>3 DEF Phase, InIO, ThreadFits, Outside
<1>5. Levels(t)' = Levels(t) /\ Levels(t) = 1 /\ Made(t)' = Made(t) /\ Working(t)'
  BY <1>0, <1>3, <1>p DEF Levels, Made, Working
<1>6. ThreadFits(t)'
  BY <1>3, <1>p DEF ThreadFits, InIO
<1>7. ConnectOpFits(t)'
  BY <1>0, <1>2, <1>3, <1>5, <1>p DEF ConnectOpFits, InIO
<1>8. ~clobbered' => StatusFits(t)'
  BY <1>0, <1>2, <1>p DEF StatusFits, Closed, Steady
<1> QED BY <1>0, <1>1, <1>3, <1>4, <1>5, <1>6, <1>7, <1>8, MoveKeeps

LEMMA ConnectToServerKeeps == ASSUME IInv, NEW t \in Threads, connect_to_server(t) PROVE IInv'
<1> DEFINE no == FALSE
<1>0. /\ thread[t].pc = "opened"
      /\ \/ engine' = TRUE /\ (DoIO(t, "authenticated") \/ Go(t, "prompt"))
         \/ engine' = FALSE /\ thread' = [thread EXCEPT ![t] = [thread[t] EXCEPT !.pc = "connectEnd", !.ret = no]]
      /\ UNCHANGED <<ops, registered, status, connectOp, connectLock, clobbered, calls, cancels, late,
                     lost>>
      /\ no \in BOOLEAN
  BY DEF connect_to_server, At, operationVars, Become
<1>1. Types /\ Working(t) /\ thread \in [Threads -> ThreadRecords]
      /\ "authenticated" \in Places /\ "prompt" \in Places /\ "connectEnd" \in Places
  BY <1>0, Facts DEF Working, Places
<1>2. ThreadFits(t) /\ ConnectOpFits(t) /\ (~clobbered => StatusFits(t))
  BY <1>1, HolderFacts
<1> HIDE DEF no
<1>3. /\ thread' \in [Threads -> ThreadRecords] /\ OthersStay(t)
      /\ \/ thread'[t].pc = "check" /\ thread'[t].then = "authenticated" /\ engine' = TRUE
         \/ thread'[t].pc = "prompt" /\ engine' = TRUE
         \/ thread'[t].pc = "connectEnd" /\ thread'[t].ret = no /\ engine' = FALSE
      /\ thread'[t].unreg = thread[t].unreg
      /\ thread'[t].nested = thread[t].nested /\ thread'[t].outer = thread[t].outer
  <2>1. CASE engine' = TRUE /\ DoIO(t, "authenticated")
    BY <1>1, <2>1, DoIOFacts
  <2>3. CASE engine' = TRUE /\ Go(t, "prompt")
    BY <1>1, <2>3, GoFacts
  <2>2. CASE engine' = FALSE /\ thread' = [thread EXCEPT ![t] = [thread[t] EXCEPT !.pc = "connectEnd", !.ret = no]]
    BY <1>0, <1>1, <2>2 DEF ThreadRecords, OthersStay
  <2> QED BY <1>0, <2>1, <2>2, <2>3
<1>4. Types'
  <2>1. engine' \in BOOLEAN
    BY <1>0
  <2> QED BY <1>0, <1>1, <1>3, <2>1 DEF Types
<1>p. /\ Phase(t) = "opened" /\ ~thread[t].nested
      /\ \/ Phase(t)' \in {"prompt", "authenticated"} /\ engine' = TRUE
         \/ Phase(t)' = "connectEnd" /\ ~thread'[t].ret /\ engine' = FALSE
  BY <1>0, <1>2, <1>3 DEF Phase, InIO, ThreadFits, Outside, no
<1>5. Levels(t)' = Levels(t) /\ Levels(t) = 1 /\ Made(t)' = Made(t) /\ Working(t)'
  BY <1>0, <1>3, <1>p DEF Levels, Made, Working
<1>6. ThreadFits(t)'
  BY <1>3, <1>p DEF ThreadFits, InIO
<1>7. ConnectOpFits(t)'
  BY <1>0, <1>2, <1>3, <1>5, <1>p DEF ConnectOpFits, InIO
<1>8. ~clobbered' => StatusFits(t)'
  <2>1. ~clobbered => status = "connecting"
    BY <1>2, <1>p DEF StatusFits
  <2> QED BY <1>0, <1>p, <2>1 DEF StatusFits
<1> QED BY <1>0, <1>1, <1>3, <1>4, <1>5, <1>6, <1>7, <1>8, MoveKeeps

LEMMA Pop3ConnectKeeps ==
  ASSUME IInv, NEW t \in Threads, pop3_connect(t) \/ get_password(t)
  PROVE  IInv'
<1> DEFINE no == FALSE
           yes == TRUE
           made == thread[t].unreg
           good == [thread[t] EXCEPT !.pc = "check", !.then = "connectEnd", !.ret = yes]
           bad == [thread[t] EXCEPT !.pc = "disconnect", !.ret = no, !.nested = yes,
                                    !.outer = made]
<1>0. /\ thread[t].pc \in {"prompt", "authenticated"}
      /\ \/ thread' = [thread EXCEPT ![t] = good]
         \/ DoIO(t, "authenticated")
         \/ Go(t, "prompt")
         \/ thread' = [thread EXCEPT ![t] = bad]
      /\ UNCHANGED <<ops, registered, status, connectOp, connectLock, engine, clobbered, calls, cancels,
                     late, lost>>
      /\ no \in BOOLEAN /\ yes \in BOOLEAN
  BY DEF pop3_connect, get_password, FailConnect, At, operationVars, serviceVars, Become
<1>1. Types /\ Working(t) /\ thread \in [Threads -> ThreadRecords]
      /\ {"authenticated", "prompt", "connectEnd", "check", "disconnect"} \subseteq Places
  BY <1>0, Facts DEF Working, Places, InIO
<1>2. ThreadFits(t) /\ ConnectOpFits(t) /\ (~clobbered => StatusFits(t))
  BY <1>1, HolderFacts
<1>n. ~thread[t].nested /\ Phase(t) \in {"prompt", "authenticated"}
  BY <1>0, <1>2 DEF Phase, InIO, ThreadFits, Outside
<1>m. made \in BOOLEAN /\ made = thread[t].unreg
  BY <1>1 DEF ThreadRecords
<1> HIDE DEF no, yes, made
<1>r. /\ thread[t] \in ThreadRecords /\ no \in BOOLEAN /\ yes \in BOOLEAN /\ made \in BOOLEAN
      /\ "connectEnd" \in Places /\ "check" \in Places /\ "disconnect" \in Places
  BY <1>0, <1>1, <1>m
<1>g. /\ good \in ThreadRecords /\ good.pc = "check" /\ good.then = "connectEnd" /\ good.ret = yes
      /\ good.unreg = thread[t].unreg /\ good.nested = thread[t].nested
  BY <1>r DEF ThreadRecords
<1>b. /\ bad \in ThreadRecords /\ bad.pc = "disconnect" /\ bad.ret = no /\ bad.nested = yes
      /\ bad.outer = made
  BY <1>r DEF ThreadRecords
<1> HIDE DEF good, bad
<1>3. /\ thread' \in [Threads -> ThreadRecords] /\ OthersStay(t)
      /\ \/ /\ thread'[t].pc = "check" /\ thread'[t].then = "connectEnd" /\ thread'[t].ret
            /\ ~thread'[t].nested /\ thread'[t].unreg = thread[t].unreg
         \/ /\ thread'[t].pc = "check" /\ thread'[t].then = "authenticated"
            /\ ~thread'[t].nested /\ thread'[t].unreg = thread[t].unreg
         \/ /\ thread'[t].pc = "prompt" /\ ~thread'[t].nested /\ thread'[t].unreg = thread[t].unreg
         \/ /\ thread'[t].pc = "disconnect" /\ ~thread'[t].ret /\ thread'[t].nested
            /\ thread'[t].outer = thread[t].unreg
  <2>1. CASE thread' = [thread EXCEPT ![t] = good]
    BY <1>1, <1>g, <1>n, <2>1 DEF OthersStay, yes
  <2>2. CASE DoIO(t, "authenticated")
    BY <1>1, <1>n, <2>2, DoIOFacts
  <2>3. CASE thread' = [thread EXCEPT ![t] = bad]
    BY <1>1, <1>b, <1>m, <2>3 DEF OthersStay, yes, no
  <2>4. CASE Go(t, "prompt")
    BY <1>1, <1>n, <2>4, GoFacts
  <2> QED BY <1>0, <2>1, <2>2, <2>3, <2>4
<1>4. Types'
  BY <1>0, <1>1, <1>3 DEF Types
<1>5. Levels(t)' = Levels(t) /\ Levels(t) = 1 /\ Made(t)' = Made(t) /\ Working(t)'
  BY <1>0, <1>3, <1>n DEF Levels, Made, Working
<1>6. ThreadFits(t)'
  BY <1>3 DEF ThreadFits, InIO, Phase, Outside
<1>7. ConnectOpFits(t)'
  BY <1>0, <1>2, <1>3, <1>5, <1>n DEF ConnectOpFits, InIO
<1>8. ~clobbered' => StatusFits(t)'
  <2>1. ~clobbered => status = "connecting" /\ engine
    BY <1>2, <1>n DEF StatusFits
  <2>2. \/ Phase(t)' = "connectEnd" /\ thread'[t].ret
        \/ Phase(t)' \in {"prompt", "authenticated"}
        \/ Phase(t)' = "disconnect" /\ thread'[t].nested
    BY <1>3 DEF Phase, InIO
  <2> QED BY <1>0, <2>1, <2>2 DEF StatusFits
<1> QED BY <1>0, <1>1, <1>3, <1>4, <1>5, <1>6, <1>7, <1>8, MoveKeeps

(* connect_end, disconnect, pop3_disconnect and the unlock of a disconnect *)
(* within connect                                                          *)
LEMMA GoKeeps ==
  ASSUME IInv, NEW t \in Threads, NEW p \in Places, Go(t, p), thread[t].pc \notin InIO,
         UNCHANGED <<ops, registered, connectOp, connectLock, calls, cancels, late, lost>>,
         Types', Working(t), clobbered' = clobbered,
         \/ thread[t].pc = "connectEnd" /\ p = "connectRelease"
         \/ thread[t].pc = "disconnect" /\ p \in {"disconnectUnlock", "disconnectOp"}
         \/ thread[t].pc = "disconnecting" /\ p = "quit"
         \/ thread[t].pc = "quit" /\ p = "disconnectRelease"
         \/ thread[t].pc = "disconnectUnlock" /\ p = "disconnectStatus" /\ thread[t].nested,
         ASSUME ~clobbered, StatusFits(t), Phase(t)' = p, Phase(t) = thread[t].pc,
                thread'[t].nested = thread[t].nested, thread'[t].ret = thread[t].ret
         PROVE  StatusFits(t)'
  PROVE  IInv'
<1>1. ThreadFits(t) /\ ConnectOpFits(t) /\ (~clobbered => StatusFits(t))
      /\ thread \in [Threads -> ThreadRecords]
  BY HolderFacts, Facts
<1>2. /\ thread' \in [Threads -> ThreadRecords] /\ OthersStay(t) /\ thread'[t].pc = p
      /\ thread'[t].ret = thread[t].ret /\ thread'[t].unreg = thread[t].unreg
      /\ thread'[t].nested = thread[t].nested /\ thread'[t].outer = thread[t].outer
  BY <1>1, GoFacts
<1>3. Phase(t)' = p /\ Phase(t) = thread[t].pc
  BY <1>2 DEF Phase, InIO
<1>4. Levels(t)' = Levels(t) /\ Made(t)' = Made(t) /\ Working(t)'
  BY <1>2 DEF Levels, Made, Working
<1>5. ThreadFits(t)'
  BY <1>1, <1>2, <1>3 DEF ThreadFits, InIO, Outside
<1>6. ConnectOpFits(t)'
  BY <1>1, <1>2, <1>3, <1>4 DEF ConnectOpFits, InIO
<1>7. ~clobbered' => StatusFits(t)'
  BY <1>1, <1>2, <1>3
<1> QED BY <1>2, <1>4, <1>5, <1>6, <1>7, MoveKeeps

LEMMA ConnectEndKeeps == ASSUME IInv, NEW t \in Threads, connect_end(t) PROVE IInv'
<1>0. /\ thread[t].pc = "connectEnd" /\ Go(t, "connectRelease")
      /\ status' = IF thread[t].ret THEN "connected" ELSE "disconnected"
      /\ UNCHANGED <<ops, registered, connectOp, connectLock, engine, clobbered, calls, cancels, late,
                     lost>>
  BY DEF connect_end, At, operationVars
<1>1. /\ Types /\ Working(t) /\ "connectRelease" \in Places /\ thread[t].pc \notin InIO
      /\ thread \in [Threads -> ThreadRecords]
  BY <1>0, Facts DEF Working, Places, InIO
<1>2. Types'
  BY <1>0, <1>1, GoFacts DEF Types
<1>3. ASSUME ~clobbered, StatusFits(t), Phase(t)' = "connectRelease", Phase(t) = thread[t].pc,
             thread'[t].nested = thread[t].nested, thread'[t].ret = thread[t].ret
      PROVE  StatusFits(t)'
  BY <1>0, <1>3 DEF StatusFits, Steady
<1> QED BY <1>0, <1>1, <1>2, <1>3, GoKeeps

LEMMA DisconnectKeeps == ASSUME IInv, NEW t \in Threads, disconnect(t) PROVE IInv'
<1> DEFINE p == IF status \in {"disconnected", "disconnecting"} THEN "disconnectUnlock"
                ELSE "disconnectOp"
<1>0. /\ thread[t].pc = "disconnect" /\ Go(t, p)
      /\ UNCHANGED <<ops, registered, status, connectOp, connectLock, engine, clobbered, calls, cancels,
                     late, lost>>
  BY DEF disconnect, At, operationVars, serviceVars
<1>1. /\ Types /\ Working(t) /\ p \in Places /\ thread[t].pc \notin InIO
      /\ thread \in [Threads -> ThreadRecords] /\ p \in {"disconnectUnlock", "disconnectOp"}
      /\ p = "disconnectUnlock" => status \in {"disconnected", "disconnecting"}
  BY <1>0, Facts DEF Working, Places, InIO
<1> HIDE DEF p
<1>2. Types'
  BY <1>0, <1>1, GoFacts DEF Types
<1>3. ASSUME ~clobbered, StatusFits(t), Phase(t)' = p, Phase(t) = thread[t].pc,
             thread'[t].nested = thread[t].nested, thread'[t].ret = thread[t].ret
      PROVE  StatusFits(t)'
  BY <1>0, <1>1, <1>3 DEF StatusFits, Steady, Closed
<1> QED BY <1>0, <1>1, <1>2, <1>3, GoKeeps

LEMMA Pop3DisconnectKeeps == ASSUME IInv, NEW t \in Threads, pop3_disconnect(t) PROVE IInv'
<1>0. /\ thread[t].pc = "quit" /\ Go(t, "disconnectRelease") /\ engine' = FALSE
      /\ status' = "disconnected"
      /\ UNCHANGED <<ops, registered, connectOp, connectLock, clobbered, calls, cancels, late, lost>>
  BY DEF pop3_disconnect, At, operationVars
<1>1. /\ Types /\ Working(t) /\ "disconnectRelease" \in Places /\ thread[t].pc \notin InIO
      /\ thread \in [Threads -> ThreadRecords]
  BY <1>0, Facts DEF Working, Places, InIO
<1>2. Types'
  BY <1>0, <1>1, GoFacts DEF Types
<1>3. ASSUME ~clobbered, StatusFits(t), Phase(t)' = "disconnectRelease", Phase(t) = thread[t].pc,
             thread'[t].nested = thread[t].nested, thread'[t].ret = thread[t].ret
      PROVE  StatusFits(t)'
  BY <1>0, <1>3 DEF StatusFits, Closed
<1> QED BY <1>0, <1>1, <1>2, <1>3, GoKeeps

LEMMA DisconnectingKeeps == ASSUME IInv, NEW t \in Threads, disconnecting(t) PROVE IInv'
<1>0. /\ thread[t].pc = "disconnecting" /\ status' = "disconnecting"
      /\ DoIO(t, "quit") \/ Go(t, "quit")
      /\ UNCHANGED <<ops, registered, connectOp, connectLock, engine, clobbered, calls, cancels, late,
                     lost>>
  BY DEF disconnecting, At, operationVars
<1>1. Types /\ Working(t) /\ thread \in [Threads -> ThreadRecords] /\ "quit" \in Places
  BY <1>0, Facts DEF Working, Places
<1>2. ThreadFits(t) /\ ConnectOpFits(t)
  BY <1>1, HolderFacts
<1>3. /\ thread' \in [Threads -> ThreadRecords] /\ OthersStay(t)
      /\ thread'[t].pc = "quit" \/ (thread'[t].pc = "check" /\ thread'[t].then = "quit")
      /\ thread'[t].ret = thread[t].ret /\ thread'[t].unreg = thread[t].unreg
      /\ thread'[t].nested = thread[t].nested /\ thread'[t].outer = thread[t].outer
  BY <1>0, <1>1, DoIOFacts, GoFacts
<1>4. Types'
  BY <1>0, <1>1, <1>3 DEF Types
<1>p. Phase(t) = "disconnecting" /\ Phase(t)' = "quit"
  BY <1>0, <1>3 DEF Phase, InIO
<1>5. Levels(t)' = Levels(t) /\ Levels(t) > 0 /\ Made(t)' = Made(t) /\ Working(t)'
  BY <1>0, <1>3 DEF Levels, Made, Working
<1>6. ThreadFits(t)'
  BY <1>0, <1>2, <1>3, <1>p DEF ThreadFits, InIO, Outside
<1>7. ConnectOpFits(t)'
  BY <1>0, <1>2, <1>3, <1>5, <1>p DEF ConnectOpFits, InIO
<1>8. StatusFits(t)'
  BY <1>p DEF StatusFits
<1> QED BY <1>0, <1>1, <1>3, <1>4, <1>5, <1>6, <1>7, <1>8, MoveKeeps

(* The status is set once more.  Within connect that changes nothing, or   *)
(* it is noted in clobbered.                                               *)
LEMMA DisconnectStatusKeeps == ASSUME IInv, NEW t \in Threads, disconnect_status(t) PROVE IInv'
<1> DEFINE no == FALSE
           made == thread[t].outer
           r == [thread[t] EXCEPT !.pc = "connectEnd", !.nested = no, !.unreg = made]
<1>0. /\ thread[t].pc = "disconnectStatus" /\ status' = "disconnected"
      /\ clobbered' = (clobbered \/ status # "disconnected")
      /\ thread' = [thread EXCEPT ![t] = IF thread[t].nested THEN r ELSE Idle]
      /\ UNCHANGED <<ops, registered, connectOp, connectLock, engine, calls, cancels, late, lost>>
  BY DEF disconnect_status, At, operationVars, Become
<1>1. Types /\ thread \in [Threads -> ThreadRecords] /\ "connectEnd" \in Places
  BY Facts DEF Places
<1>c. clobbered' \in BOOLEAN /\ (~clobbered' => ~clobbered /\ status = "disconnected")
  BY <1>0, <1>1 DEF Types
<1>m. made \in BOOLEAN /\ no \in BOOLEAN /\ made = thread[t].outer /\ ~no
  BY <1>1 DEF ThreadRecords
<1> HIDE DEF no, made
<1>r. /\ r \in ThreadRecords /\ r.pc = "connectEnd" /\ r.nested = no /\ r.unreg = made
      /\ r.ret = thread[t].ret
  BY <1>1, <1>m DEF ThreadRecords
<1>i. Idle \in ThreadRecords /\ Idle.pc = "idle" /\ ~Idle.nested
  BY DEF Idle, ThreadRecords, Places, InIO
<1> HIDE DEF r
<1>2. thread' \in [Threads -> ThreadRecords] /\ OthersStay(t)
  BY <1>0, <1>1, <1>r, <1>i DEF OthersStay
<1>3. Types'
  <2>1. status' \in {"disconnected", "connecting", "connected", "disconnecting"}
    BY <1>0
  <2> QED BY <1>0, <1>1, <1>2, <1>c, <2>1 DEF Types
<1>4. CASE thread[t].nested
  <2>1. Working(t)
    BY <1>0, <1>4 DEF Working
  <2>2. ThreadFits(t) /\ ConnectOpFits(t) /\ (~clobbered => StatusFits(t))
    BY <2>1, HolderFacts
  <2>3. /\ thread'[t].pc = "connectEnd" /\ ~thread'[t].nested /\ thread'[t].unreg = thread[t].outer
        /\ thread'[t].ret = thread[t].ret /\ ~thread[t].ret
    BY <1>0, <1>1, <1>4, <1>m, <1>r, <2>2 DEF ThreadFits
  <2>4. Levels(t)' = Levels(t) /\ Levels(t) = 1 /\ Made(t)' = Made(t) /\ Working(t)'
    BY <1>0, <1>4, <2>3 DEF Levels, Made, Working
  <2>5. Phase(t)' = "connectEnd" /\ Phase(t) = "disconnectStatus"
    BY <1>0, <2>3 DEF Phase, InIO
  <2>6. ThreadFits(t)'
    BY <2>3 DEF ThreadFits, InIO
  <2>7. ConnectOpFits(t)'
    BY <1>0, <2>2, <2>3, <2>4, <2>5 DEF ConnectOpFits, InIO
  <2>8. ~clobbered' => StatusFits(t)'
    BY <1>0, <1>c, <2>2, <2>3, <2>5 DEF StatusFits, Closed
  <2> QED BY <1>0, <1>2, <1>3, <2>1, <2>4, <2>6, <2>7, <2>8, MoveKeeps
<1>5. CASE ~thread[t].nested
  <2>0. /\ LockFits /\ RefsFit /\ SharedAreOwned /\ ConnectionFits /\ NoThread \notin Threads
        /\ connectLock \in Threads \cup {NoThread}
        /\ \A u \in Threads : ThreadFits(u) /\ RegistrationFits(u)
    BY <1>1, Facts DEF IInv, Types
  <2>1. ~Working(t) /\ connectLock # t
    BY <1>0, <1>5, <2>0 DEF Working, LockFits
  <2>2. thread'[t] = Idle
    BY <1>0, <1>1, <1>5
  <2>3. Levels(t) = 0 /\ Levels(t)' = 0 /\ ~Working(t)' /\ ThreadFits(t)'
    BY <1>0, <1>5, <1>i, <2>2 DEF Levels, Working, ThreadFits, InIO
  <2>4. \A u \in Threads \ {t} : /\ Levels(u)' = Levels(u) /\ Working(u)' = Working(u)
                                 /\ Made(u)' = Made(u) /\ Phase(u)' = Phase(u) /\ ThreadFits(u)'
                                 /\ thread'[u] = thread[u]
    BY <1>2, <2>0, OtherKeeps DEF OthersStay
  <2>5. \A u \in Threads : ThreadFits(u)' /\ RegistrationFits(u)'
    BY <1>0, <2>0, <2>3, <2>4 DEF RegistrationFits, Kept
  <2>6. LockFits'
    <3>1. \A u \in Threads : Working(u)' => connectLock' = u
      BY <1>0, <2>0, <2>3, <2>4 DEF LockFits
    <3>2. ASSUME connectLock' # NoThread PROVE Working(connectLock)' /\ ConnectOpFits(connectLock)'
      <4>1. ASSUME NEW u \in Threads, connectLock = u PROVE Working(u)' /\ ConnectOpFits(u)'
        <5>1. u # t /\ Working(u) /\ ConnectOpFits(u)
          BY <2>0, <2>1, <4>1 DEF LockFits
        <5> QED BY <1>0, <2>4, <5>1 DEF ConnectOpFits
      <4> QED BY <1>0, <2>0, <3>2, <4>1
    <3> QED BY <1>0, <2>0, <3>1, <3>2 DEF LockFits
  <2>7. RefsFit'
    <3>1. \A u \in Threads : Levels(u)' = Levels(u)
      BY <2>3, <2>4
    <3>2. \A o \in Ops : CallsWith(o)' = CallsWith(o)
      BY <1>0, <2>0, <3>1 DEF CallsWith
    <3> QED BY <1>0, <2>0, <3>2 DEF RefsFit
  <2>8. SharedAreOwned'
    BY <1>0, <2>0 DEF SharedAreOwned
  <2>9. ConnectionFits'
    <3> SUFFICES ASSUME ~clobbered'
                 PROVE  IF connectLock' = NoThread THEN Steady' ELSE StatusFits(connectLock)'
      BY DEF ConnectionFits
    <3>1. status' = status /\ engine' = engine /\ ~clobbered
      BY <1>0, <1>c
    <3>2. CASE connectLock = NoThread
      BY <1>0, <2>0, <3>1, <3>2 DEF ConnectionFits, Steady
    <3>3. ASSUME NEW u \in Threads, connectLock = u PROVE StatusFits(u)'
      <4>1. StatusFits(u) /\ thread'[u] = thread[u] /\ Phase(u)' = Phase(u)
        BY <2>0, <2>1, <2>4, <3>1, <3>3 DEF ConnectionFits
      <4> QED BY <3>1, <4>1 DEF StatusFits, Closed, Steady
    <3> QED BY <1>0, <2>0, <3>2, <3>3
  <2> QED BY <1>3, <2>5, <2>6, <2>7, <2>8, <2>9 DEF IInv
<1> QED BY <1>4, <1>5

-----------------------------------------------------------------------------
(* Taking connect_lock and giving it back *)

LEMMA LockKeeps ==
  ASSUME IInv, NEW t \in Threads, camel_service_connect(t) \/ camel_service_disconnect(t)
  PROVE  IInv'
<1>0. /\ thread[t].pc = "idle" /\ calls < MaxCalls /\ connectLock = NoThread /\ calls' = calls + 1
      /\ UNCHANGED <<ops, registered, status, connectOp, engine, clobbered, cancels, late, lost>>
      /\ \/ UNCHANGED <<connectLock, thread>>
         \/ connectLock' = t /\ Go(t, "connectOp") /\ status # "connected"
         \/ connectLock' = t /\ Go(t, "disconnect")
  BY DEF camel_service_connect, camel_service_disconnect, At, operationVars
<1>1. /\ Types /\ LockFits /\ RefsFit /\ SharedAreOwned /\ ConnectionFits /\ NoThread \notin Threads
      /\ thread \in [Threads -> ThreadRecords] /\ "connectOp" \in Places /\ "disconnect" \in Places
      /\ calls' \in 0..MaxCalls /\ ThreadFits(t) /\ RegistrationFits(t)
  BY <1>0, Facts, ServiceAssumption DEF Places, Types, IInv
<1>2. CASE UNCHANGED <<connectLock, thread>>
  BY <1>0, <1>1, <1>2 DEF IInv, Types, ThreadFits, RegistrationFits, LockFits, SharedAreOwned, RefsFit,
     ConnectionFits, Phase, Working, Levels, Made, Kept, ConnectOpFits, StatusFits, Steady, Closed,
     CallsWith
<1>3. ASSUME NEW p \in {"connectOp", "disconnect"}, connectLock' = t, Go(t, p),
             p = "connectOp" => status # "connected"
      PROVE  IInv'
  <2>1. /\ thread' \in [Threads -> ThreadRecords] /\ OthersStay(t) /\ thread'[t].pc = p
        /\ thread'[t].unreg = thread[t].unreg
        /\ thread'[t].nested = thread[t].nested /\ thread'[t].outer = thread[t].outer
    BY <1>1, <1>3, GoFacts
  <2>2. Types'
    BY <1>0, <1>1, <1>3, <2>1 DEF Types
  <2>3. ~thread[t].nested /\ ~thread'[t].nested /\ Phase(t)' = p
    BY <1>0, <1>1, <2>1 DEF ThreadFits, Phase, InIO, Outside
  <2>4. Levels(t) = 0 /\ Levels(t)' = 0 /\ Working(t)'
    BY <1>0, <2>1, <2>3 DEF Levels, Working
  <2>5. connectOp = NoOp
    BY <1>0, <1>1 DEF LockFits
  <2>6. ThreadFits(t)' /\ ConnectOpFits(t)'
    BY <1>0, <2>1, <2>3, <2>4, <2>5 DEF ThreadFits, ConnectOpFits, InIO
  <2>7. RegistrationFits(t)'
    BY <1>0, <1>1, <2>4 DEF RegistrationFits, Kept
  <2>8. SharedAreOwned'
    BY <1>0, <1>1 DEF SharedAreOwned
  <2>9. RefsFit'
    <3>1. \A o \in Ops : CallsWith(o)' = 0 /\ CallsWith(o) = 0
      BY <1>0, <1>3, <2>4 DEF CallsWith
    <3> QED BY <1>0, <1>1, <3>1 DEF RefsFit
  <2>10. ConnectionFits'
    <3>1. ~clobbered => Steady
      BY <1>0, <1>1 DEF ConnectionFits
    <3>2. ~clobbered => StatusFits(t)'
      BY <1>0, <1>3, <2>3, <3>1 DEF StatusFits, Steady, Closed
    <3> QED BY <1>0, <1>1, <1>3, <3>2 DEF ConnectionFits
  <2>11. \A o \in Ops : lost'[o] >= lost[o]
    BY <1>0, <1>1 DEF Types
  <2> QED BY <1>0, <1>1, <1>3, <2>1, <2>2, <2>4, <2>6, <2>7, <2>8, <2>9, <2>10, <2>11, HolderKeeps
<1> QED BY <1>0, <1>2, <1>3

LEMMA DisconnectUnlockKeeps == ASSUME IInv, NEW t \in Threads, disconnect_unlock(t) PROVE IInv'
<1>0. /\ thread[t].pc = "disconnectUnlock" /\ Go(t, "disconnectStatus")
      /\ connectLock' = IF thread[t].nested THEN connectLock ELSE NoThread
      /\ UNCHANGED <<ops, registered, status, connectOp, engine, clobbered, calls, cancels, late, lost>>
  BY DEF disconnect_unlock, At, operationVars
<1>1. /\ Types /\ RefsFit /\ SharedAreOwned /\ NoThread \notin Threads
      /\ thread \in [Threads -> ThreadRecords] /\ "disconnectStatus" \in Places
      /\ Working(t) /\ thread[t].pc \notin InIO
  BY <1>0, Facts DEF Places, InIO, Working
<1>2. /\ connectLock = t /\ ThreadFits(t) /\ RegistrationFits(t) /\ ConnectOpFits(t)
      /\ ~clobbered => StatusFits(t)
  BY <1>1, HolderFacts
<1>3. /\ thread' \in [Threads -> ThreadRecords] /\ OthersStay(t) /\ thread'[t].pc = "disconnectStatus"
      /\ thread'[t].unreg = thread[t].unreg
      /\ thread'[t].nested = thread[t].nested /\ thread'[t].outer = thread[t].outer
  BY <1>0, <1>1, GoFacts
<1>4. Types'
  BY <1>0, <1>1, <1>2, <1>3 DEF Types
<1>5. CASE thread[t].nested
  <2>1. ASSUME ~clobbered, StatusFits(t), Phase(t)' = "disconnectStatus", Phase(t) = thread[t].pc,
             thread'[t].nested = thread[t].nested, thread'[t].ret = thread[t].ret
      PROVE  StatusFits(t)'
    BY <1>0, <2>1 DEF StatusFits, Closed
  <2> QED BY <1>0, <1>1, <1>4, <1>5, <2>1, GoKeeps
<1>6. CASE ~thread[t].nested
  <2>1. Levels(t) = 0 /\ Levels(t)' = 0 /\ ~Working(t)'
    BY <1>0, <1>3, <1>6 DEF Levels, Working
  <2>2. connectOp' = NoOp
    BY <1>0, <1>2, <2>1 DEF ConnectOpFits
  <2>3. ThreadFits(t)'
    BY <1>3, <1>6 DEF ThreadFits, InIO
  <2>4. RegistrationFits(t)'
    BY <1>0, <1>2, <2>1 DEF RegistrationFits, Kept
  <2>5. SharedAreOwned'
    BY <1>0, <1>1 DEF SharedAreOwned
  <2>6. RefsFit'
    <3>1. \A o \in Ops : CallsWith(o)' = 0 /\ CallsWith(o) = 0
      BY <1>0, <1>2, <1>6, <2>1 DEF CallsWith
    <3> QED BY <1>0, <1>1, <3>1 DEF RefsFit
  <2>7. ConnectionFits'
    <3>1. ~clobbered => Closed
      BY <1>0, <1>2 DEF StatusFits, Phase, InIO
    <3> QED BY <1>0, <1>6, <3>1 DEF ConnectionFits, Closed, Steady
  <2>8. \A o \in Ops : lost'[o] >= lost[o]
    BY <1>0, <1>1 DEF Types
  <2>9. connectLock' = NoThread /\ connectLock' # t
    BY <1>0, <1>1, <1>6
  <2> QED BY <1>0, <1>2, <1>3, <1>4, <2>1, <2>2, <2>3, <2>4, <2>5, <2>6, <2>7, <2>8, <2>9,
             HolderKeeps
<1> QED BY <1>5, <1>6

-----------------------------------------------------------------------------
(* connect_op and the references of the calls *)

LEMMA RegisterKeeps ==
  ASSUME IInv, NEW t \in Threads, NEW p \in {"connecting", "disconnecting"}, RegisterOp(t, p),
         \/ thread[t].pc = "connectOp" /\ p = "connecting"
         \/ thread[t].pc = "disconnectOp" /\ p = "disconnecting"
  PROVE  IInv'
<1> DEFINE o == IF registered[t] # NoOp THEN registered[t] ELSE CHOOSE u \in Ops : ops[u] = Free
           fresh == registered[t] = NoOp
           ref == camel_operation_ref(ops[o])
           r == [thread[t] EXCEPT !.unreg = fresh, !.pc = p]
<1>0. /\ registered[t] = NoOp => \E u \in Ops : ops[u] = Free
      /\ ops' = [ops EXCEPT ![o] = ref] /\ registered' = [registered EXCEPT ![t] = o]
      /\ connectOp' = o /\ thread' = [thread EXCEPT ![t] = r]
      /\ UNCHANGED <<status, connectLock, engine, clobbered, calls, cancels, late, lost>>
  BY DEF RegisterOp, SetOp, Become
<1>1. /\ Types /\ RefsFit /\ SharedAreOwned /\ NoThread \notin Threads /\ NoOp \notin Ops
      /\ thread \in [Threads -> ThreadRecords] /\ ops \in [Ops -> Operation]
      /\ \A q \in Ops : OperationFits(ops[q])
      /\ registered \in [Threads -> Ops \cup {NoOp}] /\ lost \in [Ops -> Nat]
      /\ p \in Places /\ Working(t)
  BY Facts DEF Places, Working
<1>2. /\ connectLock = t /\ ThreadFits(t) /\ RegistrationFits(t) /\ ConnectOpFits(t)
      /\ ~clobbered => StatusFits(t)
  BY <1>1, HolderFacts
<1>3. o \in Ops /\ (fresh => ops[o] = Free) /\ (~fresh => o = registered[t])
  BY <1>0, <1>1
<1>f. fresh \in BOOLEAN /\ (fresh <=> registered[t] = NoOp)
  OBVIOUS
<1>g. OperationFits(ref) /\ ref.refcount = ops[o].refcount + 1
  BY <1>1, <1>3, RefFits
<1> HIDE DEF o, fresh, ref
<1>r. /\ r \in ThreadRecords /\ r.pc = p /\ r.unreg = fresh /\ r.nested = thread[t].nested
      /\ r.outer = thread[t].outer /\ r.ret = thread[t].ret
  BY <1>1, <1>f DEF ThreadRecords
<1> HIDE DEF r
<1>4. /\ thread' \in [Threads -> ThreadRecords] /\ thread'[t] = r /\ OthersStay(t)
      /\ registered' \in [Threads -> Ops \cup {NoOp}] /\ registered'[t] = o
      /\ \A u \in Threads : u # t => registered'[u] = registered[u]
  BY <1>0, <1>1, <1>3, <1>r DEF OthersStay
<1>5. /\ ops' \in [Ops -> Operation] /\ (\A q \in Ops : OperationFits(ops'[q])) /\ ops'[o] = ref
      /\ \A q \in Ops : q # o => ops'[q] = ops[q]
  <2>1. ref \in Operation
    BY <1>g DEF OperationFits
  <2> QED BY <1>0, <1>1, <1>3, <1>g, <2>1
<1>6. Types'
  BY <1>0, <1>1, <1>2, <1>3, <1>4, <1>5 DEF Types
<1>7. /\ Levels(t) \in 0..1 /\ Levels(t)' = Levels(t) + 1
      /\ thread[t].nested <=> Levels(t) = 1
  BY <1>2, <1>4, <1>r DEF Levels, ThreadFits, Phase, InIO, Outside
<1>8. thread[t].nested => ~fresh
  BY <1>1, <1>2, <1>7, <1>f DEF RegistrationFits
<1>p. Phase(t)' = p /\ Phase(t) = thread[t].pc /\ Working(t)'
  BY <1>4, <1>r DEF Phase, InIO, Working
<1>9. ThreadFits(t)'
  BY <1>2, <1>4, <1>8, <1>p, <1>r DEF ThreadFits, InIO, Outside, Phase
<1>10. RegistrationFits(t)'
  <2>1. ASSUME NEW x \in Ops, x = o, ~Made(t)' PROVE Kept(x)'
    <3>1. ~fresh /\ (thread[t].nested => ~Made(t))
      BY <1>4, <1>8, <1>r, <2>1 DEF Made
    <3>2. Kept(x)
      BY <1>2, <1>3, <1>7, <2>1, <3>1 DEF RegistrationFits
    <3> QED BY <1>0, <3>2 DEF Kept
  <2> QED BY <1>3, <1>4, <1>7, <2>1 DEF RegistrationFits
<1>11. ConnectOpFits(t)'
  BY <1>0, <1>4, <1>7, <1>p, <1>r DEF ConnectOpFits, InIO
<1>12. SharedAreOwned'
  <2>1. ASSUME NEW u \in Threads, u # t, registered[u] = o PROVE o \in Owned
    <3>1. ~fresh
      <4>1. ops[o].refcount > 0
        BY <1>3, <2>1, InUse
      <4> QED BY <1>3, <4>1, FreeFits
    <3> QED BY <1>1, <1>3, <2>1, <3>1 DEF SharedAreOwned
  <2> QED BY <1>1, <1>4, <2>1 DEF SharedAreOwned
<1>13. RefsFit'
  <2>1. \A q \in Ops : CallsWith(q) = IF registered[t] = q THEN Levels(t) ELSE 0
    BY <1>1, <1>2 DEF CallsWith
  <2>2. \A q \in Ops : CallsWith(q)' = IF o = q THEN Levels(t)' ELSE 0
    BY <1>0, <1>1, <1>2, <1>4 DEF CallsWith
  <2>3. ASSUME NEW q \in Ops, q # o
        PROVE  ops'[q].refcount = (IF q \in Owned THEN 1 ELSE 0) + lost'[q] + CallsWith(q)'
    <3>1. CallsWith(q) = 0 /\ CallsWith(q)' = 0 /\ ops'[q] = ops[q]
      BY <1>1, <1>3, <1>5, <1>f, <2>1, <2>2, <2>3
    <3> QED BY <1>0, <1>1, <3>1 DEF RefsFit
  <2>4. ASSUME NEW q \in Ops, q = o
        PROVE  ops'[q].refcount = (IF q \in Owned THEN 1 ELSE 0) + lost'[q] + CallsWith(q)'
    <3>1. ops[q].refcount = (IF q \in Owned THEN 1 ELSE 0) + lost[q] + CallsWith(q)
      BY <1>1 DEF RefsFit
    <3>2. CallsWith(q) = Levels(t) /\ CallsWith(q)' = Levels(t) + 1
      BY <1>1, <1>3, <1>7, <1>8, <1>f, <2>1, <2>2, <2>4
    <3>3. ops'[q].refcount = ops[q].refcount + 1 /\ lost'[q] = lost[q] /\ lost[q] \in Nat
      BY <1>0, <1>1, <1>3, <1>5, <1>g, <2>4
    <3> QED BY <1>7, <3>1, <3>2, <3>3
  <2> QED BY <2>3, <2>4 DEF RefsFit
<1>14. ConnectionFits'
  <2>1. ~clobbered => StatusFits(t)'
    BY <1>0, <1>2, <1>p DEF StatusFits, Closed
  <2> QED BY <1>0, <1>1, <1>2, <2>1 DEF ConnectionFits
<1>15. \A q \in Ops : lost'[q] >= lost[q]
  BY <1>0, <1>1
<1> QED BY <1>0, <1>1, <1>2, <1>4, <1>6, <1>9, <1>10, <1>11, <1>12, <1>13, <1>14, <1>15, <1>p, HolderKeeps

(* What dropping the reference of a call does *)
LEMMA ReleaseFacts ==
  ASSUME IInv, NEW t \in Threads, connectOp = registered[t], registered[t] \in Ops, Levels(t) > 0,
         connectLock = t, NEW made \in BOOLEAN, ReleaseOp(t, made)
  PROVE  /\ ops' \in [Ops -> Operation] /\ \A q \in Ops : OperationFits(ops'[q])
         /\ ops'[registered[t]].refcount = ops[registered[t]].refcount - 1
         /\ \A q \in Ops : q # registered[t] => ops'[q] = ops[q]
         /\ registered' \in [Threads -> Ops \cup {NoOp}]
         /\ \A u \in Threads : u # t => registered'[u] = registered[u]
         /\ registered'[t] = IF made THEN NoOp ELSE registered[t]
         /\ late' \in SUBSET Ops /\ connectOp' = NoOp
         /\ SharedAreOwned'
<1> DEFINE o == registered[t]
           r == camel_operation_unref(ops[o])
<1>1. /\ Types /\ SharedAreOwned /\ NoOp \notin Ops /\ ops \in [Ops -> Operation] /\ o \in Ops
      /\ \A q \in Ops : OperationFits(ops[q])
      /\ registered \in [Threads -> Ops \cup {NoOp}]
  BY Facts
<1>2. ops[o].refcount > 0
  BY InUse
<1>3. OperationFits(r) /\ r.refcount = ops[o].refcount - 1 /\ r \in Operation
  BY <1>1, <1>2, UnrefFits DEF OperationFits
<1>4. /\ registered' = IF made THEN [registered EXCEPT ![t] = NoOp] ELSE registered
      /\ ops' = [ops EXCEPT ![o] = r] /\ connectOp' = NoOp
      /\ late' = IF ops[o].refcount = 1 THEN late \ {o} ELSE late
  BY DEF ReleaseOp, SetOp
<1> HIDE DEF o, r
<1>o. o = registered[t]
  BY DEF o
<1>5. /\ registered' \in [Threads -> Ops \cup {NoOp}]
      /\ \A u \in Threads : u # t => registered'[u] = registered[u]
      /\ registered'[t] = IF made THEN NoOp ELSE registered[t]
  BY <1>1, <1>4
<1>6. /\ ops' \in [Ops -> Operation] /\ (\A q \in Ops : OperationFits(ops'[q])) /\ ops'[o] = r
      /\ \A q \in Ops : q # o => ops'[q] = ops[q]
  BY <1>1, <1>3, <1>4
<1>7. late' \in SUBSET Ops
  BY <1>1, <1>4 DEF Types
<1>8. SharedAreOwned'
  BY <1>1, <1>5 DEF SharedAreOwned
<1> QED BY <1>3, <1>4, <1>5, <1>6, <1>7, <1>8, <1>o

LEMMA DisconnectReleaseKeeps == ASSUME IInv, NEW t \in Threads, disconnect_release(t) PROVE IInv'
<1> DEFINE made == thread[t].unreg
<1>0. /\ thread[t].pc = "disconnectRelease" /\ ReleaseOp(t, made) /\ Go(t, "disconnectUnlock")
      /\ UNCHANGED <<status, connectLock, engine, clobbered, calls, cancels, lost>>
  BY DEF disconnect_release, At
<1>1. /\ Types /\ RefsFit /\ NoThread \notin Threads /\ NoOp \notin Ops
      /\ thread \in [Threads -> ThreadRecords] /\ lost \in [Ops -> Nat]
      /\ "disconnectUnlock" \in Places /\ Working(t)
  BY <1>0, Facts DEF Places, Working
<1>2. /\ connectLock = t /\ ThreadFits(t) /\ RegistrationFits(t) /\ ConnectOpFits(t)
      /\ ~clobbered => StatusFits(t)
  BY <1>1, HolderFacts
<1>3. Levels(t) \in 1..2 /\ (thread[t].nested <=> Levels(t) = 2) /\ Phase(t) = "disconnectRelease"
  BY <1>0 DEF Levels, Phase, InIO
<1>4. registered[t] \in Ops /\ connectOp = registered[t]
  BY <1>2, <1>3 DEF RegistrationFits, ConnectOpFits
<1>5. made \in BOOLEAN /\ made = thread[t].unreg /\ (thread[t].nested => ~made)
  BY <1>0, <1>1, <1>2 DEF ThreadRecords, ThreadFits, Outside
<1> HIDE DEF made
<1>6. /\ ops' \in [Ops -> Operation] /\ \A q \in Ops : OperationFits(ops'[q])
      /\ ops'[registered[t]].refcount = ops[registered[t]].refcount - 1
      /\ \A q \in Ops : q # registered[t] => ops'[q] = ops[q]
      /\ registered' \in [Threads -> Ops \cup {NoOp}]
      /\ \A u \in Threads : u # t => registered'[u] = registered[u]
      /\ registered'[t] = IF made THEN NoOp ELSE registered[t]
      /\ late' \in SUBSET Ops /\ connectOp' = NoOp
      /\ SharedAreOwned'
  BY <1>0, <1>2, <1>3, <1>4, <1>5, ReleaseFacts
<1>7. /\ thread' \in [Threads -> ThreadRecords] /\ OthersStay(t) /\ thread'[t].pc = "disconnectUnlock"
      /\ thread'[t].ret = thread[t].ret /\ thread'[t].unreg = thread[t].unreg
      /\ thread'[t].nested = thread[t].nested /\ thread'[t].outer = thread[t].outer
  BY <1>0, <1>1, GoFacts
<1>8. Types'
  <2>1. connectOp' \in Ops \cup {NoOp}
    BY <1>6
  <2> QED BY <1>0, <1>1, <1>6, <1>7, <2>1 DEF Types
<1>9. Levels(t)' = Levels(t) - 1 /\ Made(t)' = Made(t) /\ Working(t)' /\ Phase(t)' = "disconnectUnlock"
  BY <1>0, <1>7 DEF Levels, Made, Working, Phase, InIO
<1>10. ThreadFits(t)'
  BY <1>2, <1>3, <1>7, <1>9 DEF ThreadFits, InIO, Outside
<1>11. RegistrationFits(t)'
  <2>1. ~made => (~thread[t].nested => ~Made(t))
    BY <1>5 DEF Made
  <2>2. ASSUME NEW x \in Ops, x = registered[t], ~made, Levels(t)' = 0 \/ ~Made(t)' PROVE Kept(x)'
    <3>1. ~Made(t)
      BY <1>3, <1>9, <2>1, <2>2
    <3> QED BY <1>0, <1>2, <2>2, <3>1 DEF RegistrationFits, Kept
  <2>3. Levels(t)' > 0 => ~made
    BY <1>3, <1>5, <1>9
  <2> QED BY <1>1, <1>4, <1>6, <2>2, <2>3 DEF RegistrationFits
<1>12. ConnectOpFits(t)'
  BY <1>6, <1>7, <1>9 DEF ConnectOpFits, InIO
<1>13. RefsFit'
  <2>1. ASSUME NEW q \in Ops
        PROVE  /\ CallsWith(q) = (IF registered[t] = q THEN Levels(t) ELSE 0)
               /\ CallsWith(q)' = (IF registered[t] = q THEN Levels(t) - 1 ELSE 0)
    <3>1. CallsWith(q) = IF registered[t] = q THEN Levels(t) ELSE 0
      BY <1>1, <1>2 DEF CallsWith
    <3>2. CallsWith(q)' = IF registered'[t] = q THEN Levels(t) - 1 ELSE 0
      BY <1>0, <1>1, <1>2, <1>9 DEF CallsWith
    <3>3. made => Levels(t) - 1 = 0
      BY <1>3, <1>5
    <3> QED BY <1>1, <1>6, <3>1, <3>2, <3>3
  <2>2. ASSUME NEW q \in Ops
        PROVE  ops'[q].refcount = (IF q \in Owned THEN 1 ELSE 0) + lost'[q] + CallsWith(q)'
    <3>1. ops[q].refcount = (IF q \in Owned THEN 1 ELSE 0) + lost[q] + CallsWith(q) /\ lost[q] \in Nat
      BY <1>1 DEF RefsFit
    <3>2. CASE q = registered[t]
      BY <1>0, <1>3, <1>6, <2>1, <3>1, <3>2
    <3>3. CASE q # registered[t]
      BY <1>0, <1>6, <2>1, <3>1, <3>3
    <3> QED BY <3>2, <3>3
  <2> QED BY <2>2 DEF RefsFit
<1>14. ConnectionFits'
  <2>1. ~clobbered => StatusFits(t)'
    BY <1>0, <1>2, <1>3, <1>9 DEF StatusFits, Closed
  <2> QED BY <1>0, <1>1, <1>2, <2>1 DEF ConnectionFits
<1>15. \A q \in Ops : lost'[q] >= lost[q]
  BY <1>0, <1>1
<1> QED BY <1>0, <1>1, <1>2, <1>6, <1>7, <1>8, <1>9, <1>10, <1>11, <1>12, <1>13, <1>14, <1>15, HolderKeeps

(* The end of connect.  The reference it does not drop, after a disconnect *)
(* from within it, keeps the operation.                                    *)
LEMMA ConnectReleaseKeeps == ASSUME IInv, NEW t \in Threads, connect_release(t) PROVE IInv'
<1> DEFINE made == thread[t].unreg
<1>0. /\ thread[t].pc = "connectRelease"
      /\ \/ connectOp # NoOp /\ ReleaseOp(t, made) /\ UNCHANGED lost
         \/ /\ connectOp = NoOp
            /\ lost' = [lost EXCEPT ![registered[t]] = @ + 1]
            /\ UNCHANGED <<ops, registered, connectOp, late>>
      /\ connectLock' = NoThread /\ thread' = [thread EXCEPT ![t] = Idle]
      /\ UNCHANGED <<status, engine, clobbered, calls, cancels>>
  BY DEF connect_release, At, Become, operationVars
<1>1. /\ Types /\ RefsFit /\ SharedAreOwned /\ NoThread \notin Threads /\ NoOp \notin Ops
      /\ thread \in [Threads -> ThreadRecords] /\ lost \in [Ops -> Nat]
      /\ Working(t)
  BY <1>0, Facts DEF Working
<1>2. /\ connectLock = t /\ ThreadFits(t) /\ RegistrationFits(t) /\ ConnectOpFits(t)
      /\ ~clobbered => StatusFits(t)
  BY <1>1, HolderFacts
<1>3. Levels(t) = 1 /\ ~thread[t].nested /\ Phase(t) = "connectRelease"
  BY <1>0, <1>2 DEF Levels, Phase, InIO, ThreadFits, Outside
<1>4. registered[t] \in Ops /\ connectOp \in {NoOp, registered[t]}
  BY <1>2, <1>3 DEF RegistrationFits, ConnectOpFits
<1>5. made \in BOOLEAN /\ (made <=> Made(t))
  BY <1>1, <1>3 DEF ThreadRecords, Made
<1> HIDE DEF made
<1>i. Idle \in ThreadRecords /\ Idle.pc = "idle" /\ ~Idle.nested
  BY DEF Idle, ThreadRecords, Places, InIO
<1>6. thread' \in [Threads -> ThreadRecords] /\ OthersStay(t) /\ thread'[t] = Idle
  BY <1>0, <1>1, <1>i DEF OthersStay
<1>7. Levels(t)' = 0 /\ ~Working(t)' /\ ThreadFits(t)'
  BY <1>6, <1>i DEF Levels, Working, ThreadFits, InIO
<1>8. ConnectionFits'
  <2>1. ~clobbered => Steady
    BY <1>2, <1>3 DEF StatusFits
  <2> QED BY <1>0, <2>1 DEF ConnectionFits, Steady
<1>9. \A q \in Ops : CallsWith(q)' = 0 /\ CallsWith(q) = IF registered[t] = q THEN 1 ELSE 0
  BY <1>0, <1>1, <1>2, <1>3 DEF CallsWith
<1>10. CASE connectOp # NoOp
  <2>1. ReleaseOp(t, made) /\ connectOp = registered[t] /\ lost' = lost
    BY <1>0, <1>4, <1>10
  <2>2. /\ ops' \in [Ops -> Operation] /\ \A q \in Ops : OperationFits(ops'[q])
        /\ ops'[registered[t]].refcount = ops[registered[t]].refcount - 1
        /\ \A q \in Ops : q # registered[t] => ops'[q] = ops[q]
        /\ registered' \in [Threads -> Ops \cup {NoOp}]
        /\ \A u \in Threads : u # t => registered'[u] = registered[u]
        /\ registered'[t] = IF made THEN NoOp ELSE registered[t]
        /\ late' \in SUBSET Ops /\ connectOp' = NoOp
        /\ SharedAreOwned'
    BY <1>2, <1>3, <1>4, <1>5, <2>1, ReleaseFacts
  <2>3. Types'
    BY <1>0, <1>1, <1>6, <2>1, <2>2 DEF Types
  <2>4. RegistrationFits(t)'
    <3>1. ASSUME NEW x \in Ops, x = registered[t], ~made PROVE Kept(x)'
      BY <1>2, <1>5, <2>1, <3>1 DEF RegistrationFits, Kept
    <3> QED BY <1>1, <1>4, <1>7, <2>2, <3>1 DEF RegistrationFits
  <2>5. RefsFit'
    <3>1. ASSUME NEW q \in Ops
          PROVE  ops'[q].refcount = (IF q \in Owned THEN 1 ELSE 0) + lost'[q] + CallsWith(q)'
      <4>1. ops[q].refcount = (IF q \in Owned THEN 1 ELSE 0) + lost[q] + CallsWith(q) /\ lost[q] \in Nat
        BY <1>1 DEF RefsFit
      <4>2. CASE q = registered[t]
        BY <1>9, <2>1, <2>2, <4>1, <4>2
      <4>3. CASE q # registered[t]
        BY <1>9, <2>1, <2>2, <4>1, <4>3
      <4> QED BY <4>2, <4>3
    <3> QED BY <3>1 DEF RefsFit
  <2>6. \A q \in Ops : lost'[q] >= lost[q]
    BY <1>1, <2>1
  <2> QED BY <1>0, <1>1, <1>2, <1>6, <1>7, <1>8, <2>2, <2>3, <2>4, <2>5, <2>6, HolderKeeps
<1>11. CASE connectOp = NoOp
  <2>1. /\ lost' = [lost EXCEPT ![registered[t]] = @ + 1]
        /\ UNCHANGED <<ops, registered, connectOp, late>>
    BY <1>0, <1>11
  <2>2. /\ lost' \in [Ops -> Nat] /\ lost'[registered[t]] = lost[registered[t]] + 1
        /\ \A q \in Ops : q # registered[t] => lost'[q] = lost[q]
    BY <1>1, <1>4, <2>1
  <2>3. Types'
    BY <1>0, <1>1, <1>6, <2>1, <2>2 DEF Types
  <2>4. RegistrationFits(t)'
    <3>1. ASSUME NEW x \in Ops, x = registered[t] PROVE Kept(x)'
      <4>1. lost'[x] > 0
        BY <1>1, <2>2, <3>1
      <4> QED BY <4>1 DEF Kept
    <3> QED BY <1>4, <1>7, <2>1, <3>1 DEF RegistrationFits
  <2>5. RefsFit'
    <3>1. ASSUME NEW q \in Ops
          PROVE  ops'[q].refcount = (IF q \in Owned THEN 1 ELSE 0) + lost'[q] + CallsWith(q)'
      <4>1. ops[q].refcount = (IF q \in Owned THEN 1 ELSE 0) + lost[q] + CallsWith(q) /\ lost[q] \in Nat
        BY <1>1 DEF RefsFit
      <4>2. CASE q = registered[t]
        BY <1>9, <2>1, <2>2, <4>1, <4>2
      <4>3. CASE q # registered[t]
        BY <1>9, <2>1, <2>2, <4>1, <4>3
      <4> QED BY <4>2, <4>3
    <3> QED BY <3>1 DEF RefsFit
  <2>6. \A q \in Ops : lost'[q] >= lost[q]
    BY <1>1, <2>2
  <2>7. SharedAreOwned' /\ connectOp' = NoOp
    BY <1>1, <1>11, <2>1 DEF SharedAreOwned
  <2> QED BY <1>0, <1>1, <1>2, <1>6, <1>7, <1>8, <2>1, <2>3, <2>4, <2>5, <2>6, <2>7, HolderKeeps
<1> QED BY <1>10, <1>11

-----------------------------------------------------------------------------
(* Cancellations *)

(* Operations change, but not their references, and no call notices.       *)
LEMMA OpsChangeKeeps ==
  ASSUME IInv, UNCHANGED <<registered, serviceVars, thread, calls, lost>>,
         ops' \in [Ops -> Operation], late' \in SUBSET Ops, cancels' \in 0..MaxCancels,
         \A o \in Ops : OperationFits(ops'[o]) /\ ops'[o].refcount = ops[o].refcount
  PROVE  IInv'
<1>0. /\ Types /\ UNCHANGED <<status, connectOp, connectLock, engine, clobbered>>
      /\ RefsFit
  BY Facts DEF serviceVars
<1>1. Types'
  BY <1>0 DEF Types
<1>2. RefsFit'
  BY <1>0 DEF RefsFit, CallsWith, Levels
<1>3. \A t \in Threads : ThreadFits(t)' /\ RegistrationFits(t)'
  BY <1>0 DEF IInv, ThreadFits, RegistrationFits, Phase, Levels, Made, Kept
<1>4. LockFits'
  BY <1>0 DEF IInv, LockFits, Working, ConnectOpFits, Phase, Levels
<1>5. SharedAreOwned'
  BY <1>0 DEF IInv, SharedAreOwned
<1>6. ConnectionFits'
  BY <1>0 DEF IInv, ConnectionFits, StatusFits, Phase, Steady, Closed
<1> QED BY <1>1, <1>2, <1>3, <1>4, <1>5, <1>6 DEF IInv

LEMMA CancelKeeps ==
  ASSUME IInv, camel_service_cancel_connect \/ cancel_all
  PROVE  IInv'
<1>0. /\ Types /\ UNCHANGED <<registered, serviceVars, thread, calls, lost>>
      /\ cancels < MaxCancels /\ cancels' = cancels + 1
      /\ ops \in [Ops -> Operation] /\ \A o \in Ops : OperationFits(ops[o])
  BY Facts DEF camel_service_cancel_connect, cancel_all, Cancels
<1>1. cancels' \in 0..MaxCancels
  BY <1>0, ServiceAssumption DEF Types
<1>2. InTheGap \subseteq Ops
  BY DEF InTheGap
<1>3. ASSUME camel_service_cancel_connect PROVE IInv'
  <2> DEFINE o == connectOp
             r == camel_operation_cancel(ops[o])
  <2>1. o \in Ops /\ SetOp(o, r) /\ late' = late \cup ({o} \cap InTheGap)
    BY <1>0, <1>3 DEF camel_service_cancel_connect, Types
  <2>2. ops[o].refcount > 0
    BY <2>1, ConnectOpInUse
  <2>3. OperationFits(r) /\ r.refcount = ops[o].refcount
    BY <1>0, <2>1, <2>2, CancelFits
  <2> HIDE DEF o, r
  <2>4. /\ ops' \in [Ops -> Operation]
        /\ \A p \in Ops : OperationFits(ops'[p]) /\ ops'[p].refcount = ops[p].refcount
    BY <2>1, <2>3, SetOpKeeps
  <2>5. late' \in SUBSET Ops
    BY <1>0, <2>1 DEF Types
  <2> QED BY <1>0, <1>1, <2>4, <2>5, OpsChangeKeeps
<1>4. ASSUME cancel_all PROVE IInv'
  <2>1. /\ ops' = [o \in Ops |-> IF ops[o] = Free THEN Free ELSE Cancelled(ops[o])]
        /\ late' = late \cup InTheGap
    BY <1>4 DEF cancel_all
  <2>2. ASSUME NEW o \in Ops
        PROVE  OperationFits(ops'[o]) /\ ops'[o].refcount = ops[o].refcount
    <3>1. CASE ops[o] = Free
      BY <1>0, <2>1, <3>1
    <3>2. CASE ops[o] # Free
      <4>1. ops[o].refcount > 0
        BY <1>0, <3>2 DEF OperationFits, Operation
      <4>2. ops'[o] = Cancelled(ops[o])
        BY <2>1, <3>2
      <4> QED BY <1>0, <4>1, <4>2, CancelledFits
    <3> QED BY <3>1, <3>2
  <2>3. ops' \in [Ops -> Operation]
    <3>1. ops' = [o \in Ops |-> ops'[o]]
      BY <2>1
    <3> QED BY <2>2, <3>1 DEF OperationFits
  <2>4. late' \in SUBSET Ops
    BY <1>0, <1>2, <2>1 DEF Types
  <2> QED BY <1>0, <1>1, <2>2, <2>3, <2>4, OpsChangeKeeps
<1> QED BY <1>3, <1>4

LEMMA UncancelKeeps == ASSUME IInv, NEW t \in Threads, uncancel(t) PROVE IInv'
<1> DEFINE o == registered[t]
           r == camel_operation_uncancel(ops[o])
<1>0. /\ Types /\ UNCHANGED <<registered, serviceVars, thread, calls, cancels, lost>>
      /\ o \in Ops /\ SetOp(o, r) /\ late' = late \ {o} /\ OperationFits(ops[o])
  BY Facts DEF uncancel
<1>1. ops[o].refcount > 0
  BY <1>0, InUse
<1>2. OperationFits(r) /\ r.refcount = ops[o].refcount
  BY <1>0, <1>1, UncancelFits
<1> HIDE DEF o, r
<1>3. /\ ops' \in [Ops -> Operation]
      /\ \A p \in Ops : OperationFits(ops'[p]) /\ ops'[p].refcount = ops[p].refcount
  BY <1>0, <1>2, SetOpKeeps
<1>4. late' \in SUBSET Ops /\ cancels' \in 0..MaxCancels
  BY <1>0 DEF Types
<1> QED BY <1>0, <1>3, <1>4, OpsChangeKeeps

LEMMA StutterKeeps == ASSUME IInv, UNCHANGED vars PROVE IInv'
<1>1. /\ UNCHANGED <<registered, serviceVars, thread, calls, lost>>
      /\ UNCHANGED <<ops, late, cancels>>
  BY DEF vars, operationVars
<1>2. /\ ops' \in [Ops -> Operation] /\ late' \in SUBSET Ops /\ cancels' \in 0..MaxCancels
      /\ \A o \in Ops : OperationFits(ops'[o]) /\ ops'[o].refcount = ops[o].refcount
  BY <1>1, Facts DEF Types
<1> QED BY <1>1, <1>2, OpsChangeKeeps

LEMMA StepKeeps == IInv /\ [Next]_vars => IInv'
<1> SUFFICES ASSUME IInv, [Next]_vars PROVE IInv'
  OBVIOUS
<1>1. ASSUME NEW t \in Threads, Goes(t) PROVE IInv'
  <2>1. ASSUME connect_op(t) \/ disconnect_op(t) PROVE IInv'
    BY <2>1, RegisterKeeps DEF connect_op, disconnect_op, At
  <2> QED BY <1>1, <2>1, IOKeeps, ConnectingKeeps, ConnectToServerKeeps, Pop3ConnectKeeps,
             ConnectEndKeeps, ConnectReleaseKeeps, DisconnectKeeps, DisconnectingKeeps,
             Pop3DisconnectKeeps, DisconnectReleaseKeeps, DisconnectUnlockKeeps,
             DisconnectStatusKeeps DEF Goes
<1> QED BY <1>1, IOKeeps, Pop3ConnectKeeps, LockKeeps, UncancelKeeps, CancelKeeps, StutterKeeps DEF Next

-----------------------------------------------------------------------------
(* The invariant holds of connecting, disconnecting and cancelling one     *)
(* service (camel-service.c, camel-operation.c), whatever the threads do.  *)
THEOREM ServiceInvariant == Spec => []IInv
BY InitHolds, StepKeeps, PTL DEF Spec

(* The types; and when camel_operation_unref has dropped the last          *)
(* reference nothing of the operation's port is left.                      *)
THEOREM ServiceTypeOK == Spec => []TypeOK
<1>1. IInv => TypeOK
  BY InvImplies
<1> QED BY <1>1, ServiceInvariant, PTL

(* However camel_operation_cancel, the checks and camel_operation_uncancel *)
(* of several threads mix, the pipe of an operation's port holds a byte    *)
(* per flagged message (e_msgport_put, e_msgport_get), and a message only  *)
(* while the operation is cancelled.                                       *)
THEOREM ServicePortMatchesFlag == Spec => []PortMatchesFlag
<1>1. IInv => PortMatchesFlag
  BY InvImplies
<1> QED BY <1>1, ServiceInvariant, PTL

(* The count of an operation is the number of its owners, and connect_op,  *)
(* which camel_service_cancel_connect uses, is never freed memory.         *)
THEOREM ServiceOperationsOwned == Spec => []OperationsOwned
<1>1. IInv => OperationsOwned
  BY InvImplies
<1> QED BY <1>1, ServiceInvariant, PTL

(* While nobody holds connect_lock, service->status tells whether there is *)
(* a connection, unless the assignment of camel_service_disconnect after   *)
(* its unlock has hit the connection of another thread.                    *)
THEOREM ServiceStatusIsTrue == Spec => []StatusIsTrue
<1>1. IInv => StatusIsTrue
  BY InvImplies
<1> QED BY <1>1, ServiceInvariant, PTL
=============================================================================
