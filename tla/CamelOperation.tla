--------------------------- MODULE CamelOperation ---------------------------
(***************************************************************************)
(* Cancellable operations (camel/camel-operation.c) and the message port   *)
(* each has (libedataserver/e-msgport.c).  A cancellation is a flag, which *)
(* a thread tests before it waits, and a message, which wakes a thread     *)
(* that waits in select for the pipe of the port.  Every function holds    *)
(* operation_lock or the lock of the queue over its accesses.  Blocking of *)
(* cancellations and the status stack are left out.                        *)
(***************************************************************************)
EXTENDS Integers, Sequences, FiniteSets

CONSTANTS Threads, Ops, NoOp,
          OwnOp          \* the operation a thread is registered with, or NoOp

ASSUME OperationAssumption == NoOp \notin Ops /\ OwnOp \in [Threads -> Ops \cup {NoOp}]

VARIABLES ops,           \* the operations, with the ports they own
          registered     \* the operation each thread is registered with

operationVars == <<ops, registered>>

\* queue holds a message as its flag MSG_FLAG_SYNC_WITH_PIPE; an operation
\* whose refcount is 0 is free memory.
Operation == [refcount : Nat, cancelled : BOOLEAN, queue : Seq(BOOLEAN),
              pipe : BOOLEAN, bytes : Int]

Free == [refcount |-> 0, cancelled |-> FALSE, queue |-> <<>>, pipe |-> FALSE, bytes |-> 0]

Owned == {OwnOp[t] : t \in Threads} \ {NoOp}

OperationInit ==
    /\ ops = [o \in Ops |-> IF o \in Owned THEN [Free EXCEPT !.refcount = 1] ELSE Free]
    /\ registered = OwnOp

-----------------------------------------------------------------------------
(* The port.                                                               *)

Flagged(q) == Cardinality({i \in DOMAIN q : q[i]})

\* A byte goes with the message if somebody has asked for the pipe by then.
e_msgport_put(p) == [p EXCEPT !.queue = Append(@, p.pipe),
                              !.bytes = IF p.pipe THEN @ + 1 ELSE @]

\* mutant: the byte of a message stays in the pipe
DrainedButBytes(p) == [p EXCEPT !.queue = <<>>]

\* e_msgport_get until the port is empty: each flagged message takes its byte.
Drained(p) == [p EXCEPT !.queue = <<>>, !.bytes = @ - Flagged(p.queue)]

e_msgport_fd(p) == [p EXCEPT !.pipe = TRUE]

-----------------------------------------------------------------------------
(* Operations.                                                             *)

camel_operation_ref(o) == [o EXCEPT !.refcount = @ + 1]

\* mutant: the port is not destroyed with its operation
UnrefKeepsPort(o) == [o EXCEPT !.refcount = @ - 1]

camel_operation_unref(o) == IF o.refcount = 1 THEN Free ELSE [o EXCEPT !.refcount = @ - 1]

\* mutant: the flag without the message
OnlyFlagged(o) == [o EXCEPT !.cancelled = TRUE]

Cancelled(o) == e_msgport_put([o EXCEPT !.cancelled = TRUE])

\* A second cancellation of one operation sends no second message.
camel_operation_cancel(o) == IF o.cancelled THEN o ELSE Cancelled(o)

camel_operation_uncancel(o) == [Drained(o) EXCEPT !.cancelled = FALSE]

\* Whether the check finds a cancellation, and the operation after it.
IsCancelled(o) == o.cancelled \/ o.queue # <<>>

camel_operation_cancel_check(o) ==
    IF ~o.cancelled /\ o.queue # <<>> THEN [Drained(o) EXCEPT !.cancelled = TRUE] ELSE o
=============================================================================
