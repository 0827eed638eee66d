---------------------------- MODULE CamelService ----------------------------
(***************************************************************************)
(* Connecting a mail service (camel/camel-service.c), with the POP3        *)
(* provider and the cancellable I/O below it.  Threads connect and         *)
(* disconnect one service while others cancel.  connect_op_lock is held    *)
(* within one step; connect_lock is held from step to step.                *)
(***************************************************************************)
EXTENDS CamelOperation

CONSTANTS NoThread,
          MaxCalls,      \* bound: calls of connect and disconnect
          MaxCancels     \* bound: cancellations

ASSUME ServiceAssumption == NoThread \notin Threads /\ MaxCalls \in Nat /\ MaxCancels \in Nat

VARIABLES status,        \* service->status
          connectOp,     \* service->connect_op
          connectLock,   \* the thread that holds connect_lock
          engine,        \* store->engine: there is a connection
          thread,        \* what each thread does
          calls, cancels,
          late,          \* history: operations cancelled too late to wake their thread
          lost,          \* history: references that connect did not drop
          clobbered      \* history: status was set without connect_lock

serviceVars == <<status, connectOp, connectLock, engine, clobbered>>

vars == <<operationVars, serviceVars, thread, calls, cancels, late, lost>>

\* A thread that does I/O is at "check", "fd" and "select", or at "read" without a
\* pipe; at "prompt" it waits for the user; the other places are between the calls
\* that camel_service_connect and camel_service_disconnect make.
InIO == {"check", "fd", "select", "read"}

Places ==
    InIO \cup {"idle", "connectOp", "connecting", "opened", "prompt", "authenticated", "connectEnd",
               "connectRelease", "disconnect", "disconnectOp", "disconnecting", "quit",
               "disconnectRelease", "disconnectUnlock", "disconnectStatus"}

\* then: where the thread goes on after its I/O, with io as the outcome.  unreg
\* is the variable of that name, outer that of a call of connect around it.
Idle == [pc |-> "idle", then |-> "idle", io |-> "ok", ret |-> FALSE,
         unreg |-> FALSE, nested |-> FALSE, outer |-> FALSE]

Init ==
    /\ OperationInit
    /\ status = "disconnected"
    /\ connectOp = NoOp
    /\ connectLock = NoThread
    /\ engine = FALSE
    /\ thread = [t \in Threads |-> Idle]
    /\ calls = 0
    /\ cancels = 0
    /\ late = {}
    /\ lost = [o \in Ops |-> 0]
    /\ clobbered = FALSE

-----------------------------------------------------------------------------
At(t, p) == thread[t].pc = p

Become(t, r) == thread' = [thread EXCEPT ![t] = r]

Go(t, p) == Become(t, [thread[t] EXCEPT !.pc = p])

\* The thread starts I/O and goes on at p with its outcome.
DoIO(t, p) == Become(t, [thread[t] EXCEPT !.pc = "check", !.then = p])

IODone(t, outcome) == Become(t, [thread[t] EXCEPT !.pc = thread[t].then, !.io = outcome])

SetOp(o, r) == ops' = [ops EXCEPT ![o] = r]

-----------------------------------------------------------------------------
(* Cancellable I/O, as in camel_read and socket_connect: the flag is       *)
(* tested, the pipe is asked for, and the thread waits for it and for the  *)
(* peer, or for the peer only if no pipe can be made.  The thread has an   *)
(* operation, since connect registers one.                                 *)

io_check(t) ==
    LET o == registered[t] IN
    /\ At(t, "check")
    /\ SetOp(o, camel_operation_cancel_check(ops[o]))
    /\ IF IsCancelled(ops[o]) THEN IODone(t, "failed") ELSE Go(t, "fd")
    /\ UNCHANGED <<registered, serviceVars, calls, cancels, late, lost>>

\* e_pipe may fail as long as the port has no pipe; the next I/O tries again.
io_fd(t) ==
    LET o == registered[t] IN
    /\ At(t, "fd")
    /\ \/ SetOp(o, e_msgport_fd(ops[o])) /\ Go(t, "select")
       \/ ~ops[o].pipe /\ UNCHANGED ops /\ Go(t, "read")
    /\ UNCHANGED <<registered, serviceVars, calls, cancels, late, lost>>

\* select reports the pipe: EINTR
io_cancelled(t) ==
    /\ At(t, "select")
    /\ ops[registered[t]].bytes > 0
    /\ IODone(t, "failed")
    /\ UNCHANGED <<operationVars, serviceVars, calls, cancels, late, lost>>

\* The peer answers yes or no, or the connection breaks, or the time is up.
io_done(t) ==
    /\ \/ At(t, "select") /\ ops[registered[t]].bytes = 0
       \/ At(t, "read")
    /\ \E outcome \in {"ok", "no", "failed"} : IODone(t, outcome)
    /\ UNCHANGED <<operationVars, serviceVars, calls, cancels, late, lost>>

-----------------------------------------------------------------------------
(* connect_op, which cancel_connect looks at.                              *)

\* The operation of the thread, or a new one that is registered for it.
RegisterOp(t, then) ==
    LET o == IF registered[t] # NoOp THEN registered[t]
             ELSE CHOOSE u \in Ops : ops[u] = Free IN
    /\ registered[t] = NoOp => \E u \in Ops : ops[u] = Free
    /\ SetOp(o, camel_operation_ref(ops[o]))
    /\ registered' = [registered EXCEPT ![t] = o]
    /\ connectOp' = o
    /\ Become(t, [thread[t] EXCEPT !.unreg = (registered[t] = NoOp), !.pc = then])
    /\ UNCHANGED <<status, connectLock, engine, clobbered, calls, cancels, late, lost>>

\* mutant: the reference is dropped only by who has made the operation
ReleaseIfMade(t, unreg) ==
    /\ registered' = IF unreg THEN [registered EXCEPT ![t] = NoOp] ELSE registered
    /\ SetOp(connectOp, IF unreg THEN camel_operation_unref(ops[connectOp]) ELSE ops[connectOp])
    /\ late' = late
    /\ connectOp' = NoOp

ReleaseOp(t, unreg) ==
    /\ registered' = IF unreg THEN [registered EXCEPT ![t] = NoOp] ELSE registered
    /\ SetOp(connectOp, camel_operation_unref(ops[connectOp]))
    /\ late' = IF ops[connectOp].refcount = 1 THEN late \ {connectOp} ELSE late
    /\ connectOp' = NoOp

-----------------------------------------------------------------------------
(* camel_service_connect and pop3_connect                                  *)

camel_service_connect(t) ==
    /\ At(t, "idle") /\ calls < MaxCalls
    /\ connectLock = NoThread
    /\ calls' = calls + 1
    /\ IF status = "connected" THEN UNCHANGED <<connectLock, thread>>
       ELSE connectLock' = t /\ Go(t, "connectOp")
    /\ UNCHANGED <<operationVars, status, connectOp, engine, clobbered, cancels, late, lost>>

connect_op(t) == At(t, "connectOp") /\ RegisterOp(t, "connecting")

connecting(t) ==
    /\ At(t, "connecting")
    /\ status' = "connecting"
    /\ DoIO(t, "opened")
    /\ UNCHANGED <<operationVars, connectOp, connectLock, engine, clobbered, calls, cancels, late, lost>>

\* mutant: the engine is kept when the connection fails
FailedKeepsEngine(t) ==
    /\ At(t, "opened")
    /\ engine' = TRUE
    /\ IF thread[t].io = "ok" THEN DoIO(t, "authenticated") \/ Go(t, "prompt")
       ELSE Become(t, [thread[t] EXCEPT !.pc = "connectEnd", !.ret = FALSE])
    /\ UNCHANGED <<operationVars, status, connectOp, connectLock, clobbered, calls, cancels, late, lost>>

\* connect_to_server: a connection that cannot be opened is the end of it.  The
\* first authentication uses the password of the URL, or asks for one.
connect_to_server(t) ==
    /\ At(t, "opened")
    /\ IF thread[t].io = "ok"
       THEN engine' = TRUE /\ (DoIO(t, "authenticated") \/ Go(t, "prompt"))
       ELSE engine' = FALSE /\ Become(t, [thread[t] EXCEPT !.pc = "connectEnd", !.ret = FALSE])
    /\ UNCHANGED <<operationVars, status, connectOp, connectLock, clobbered, calls, cancels, late, lost>>

\* What fails is disconnected from within connect.
FailConnect(t) == Become(t, [thread[t] EXCEPT !.pc = "disconnect", !.ret = FALSE,
                                              !.nested = TRUE, !.outer = thread[t].unreg])

\* camel_session_get_password: the user gives a password, or gives up.
get_password(t) ==
    /\ At(t, "prompt")
    /\ DoIO(t, "authenticated") \/ FailConnect(t)
    /\ UNCHANGED <<operationVars, serviceVars, calls, cancels, late, lost>>

\* mutant: a password is asked for again after any error
AsksAfterAnyError(t) ==
    /\ At(t, "authenticated")
    /\ IF thread[t].io = "ok"
       THEN Become(t, [thread[t] EXCEPT !.pc = "check", !.then = "connectEnd", !.ret = TRUE])
       ELSE Go(t, "prompt")
    /\ UNCHANGED <<operationVars, serviceVars, calls, cancels, late, lost>>

\* A password the server rejects is asked for again, except with SASL.  The
\* capabilities that are asked for at the end do not change the result.
pop3_connect(t) ==
    /\ At(t, "authenticated")
    /\ \/ thread[t].io = "ok" /\ Become(t, [thread[t] EXCEPT !.pc = "check", !.then = "connectEnd", !.ret = TRUE])
       \/ thread[t].io = "no" /\ Go(t, "prompt")
       \/ thread[t].io # "ok" /\ FailConnect(t)
    /\ UNCHANGED <<operationVars, serviceVars, calls, cancels, late, lost>>

connect_end(t) ==
    /\ At(t, "connectEnd")
    /\ status' = IF thread[t].ret THEN "connected" ELSE "disconnected"
    /\ Go(t, "connectRelease")
    /\ UNCHANGED <<operationVars, connectOp, connectLock, engine, clobbered, calls, cancels, late, lost>>

\* A disconnect from within connect has reset connect_op: then the operation
\* stays registered, and the reference of this call is not dropped.
connect_release(t) ==
    /\ At(t, "connectRelease")
    /\ IF connectOp # NoOp
       THEN ReleaseOp(t, thread[t].unreg) /\ UNCHANGED lost
       ELSE /\ lost' = [lost EXCEPT ![registered[t]] = @ + 1]
            /\ UNCHANGED <<operationVars, connectOp, late>>
    /\ connectLock' = NoThread
    /\ Become(t, Idle)
    /\ UNCHANGED <<status, engine, clobbered, calls, cancels>>

-----------------------------------------------------------------------------
(* camel_service_disconnect and pop3_disconnect                            *)

camel_service_disconnect(t) ==
    /\ At(t, "idle") /\ calls < MaxCalls
    /\ connectLock = NoThread
    /\ calls' = calls + 1
    /\ connectLock' = t
    /\ Go(t, "disconnect")
    /\ UNCHANGED <<operationVars, status, connectOp, engine, clobbered, cancels, late, lost>>

disconnect(t) ==
    /\ At(t, "disconnect")
    /\ Go(t, IF status \in {"disconnected", "disconnecting"} THEN "disconnectUnlock" ELSE "disconnectOp")
    /\ UNCHANGED <<operationVars, serviceVars, calls, cancels, late, lost>>

disconnect_op(t) == At(t, "disconnectOp") /\ RegisterOp(t, "disconnecting")

\* A clean disconnect says QUIT to the server and ignores its answer.
disconnecting(t) ==
    /\ At(t, "disconnecting")
    /\ status' = "disconnecting"
    /\ DoIO(t, "quit") \/ Go(t, "quit")
    /\ UNCHANGED <<operationVars, connectOp, connectLock, engine, clobbered, calls, cancels, late, lost>>

pop3_disconnect(t) ==
    /\ At(t, "quit")
    /\ engine' = FALSE
    /\ status' = "disconnected"
    /\ Go(t, "disconnectRelease")
    /\ UNCHANGED <<operationVars, connectOp, connectLock, clobbered, calls, cancels, late, lost>>

disconnect_release(t) ==
    /\ At(t, "disconnectRelease")
    /\ ReleaseOp(t, thread[t].unreg)
    /\ Go(t, "disconnectUnlock")
    /\ UNCHANGED <<status, connectLock, engine, clobbered, calls, cancels, lost>>

\* connect_lock is recursive: a disconnect within connect keeps it.
disconnect_unlock(t) ==
    /\ At(t, "disconnectUnlock")
    /\ connectLock' = IF thread[t].nested THEN connectLock ELSE NoThread
    /\ Go(t, "disconnectStatus")
    /\ UNCHANGED <<operationVars, status, connectOp, engine, clobbered, calls, cancels, late, lost>>

\* The status is set once more after connect_lock was unlocked.
disconnect_status(t) ==
    /\ At(t, "disconnectStatus")
    /\ status' = "disconnected"
    /\ clobbered' = (clobbered \/ status # "disconnected")
    /\ Become(t, IF thread[t].nested
                 THEN [thread[t] EXCEPT !.pc = "connectEnd", !.nested = FALSE, !.unreg = thread[t].outer]
                 ELSE Idle)
    /\ UNCHANGED <<operationVars, connectOp, connectLock, engine, calls, cancels, late, lost>>

-----------------------------------------------------------------------------
(* Cancellations, by threads that do not run the operations.               *)

\* Operations of threads that have tested the flag and have no pipe to be woken by
InTheGap == {registered[t] : t \in {u \in Threads : At(u, "fd") \/ At(u, "read")}}
            \cap {o \in Ops : ~ops[o].pipe}

Cancels == cancels < MaxCancels /\ cancels' = cancels + 1

camel_service_cancel_connect ==
    /\ Cancels
    /\ connectOp # NoOp
    /\ SetOp(connectOp, camel_operation_cancel(ops[connectOp]))
    /\ late' = late \cup ({connectOp} \cap InTheGap)
    /\ UNCHANGED <<registered, serviceVars, thread, calls, lost>>

\* camel_operation_cancel(NULL): all operations, cancelled before or not
cancel_all ==
    /\ Cancels
    /\ ops' = [o \in Ops |-> IF ops[o] = Free THEN Free ELSE Cancelled(ops[o])]
    /\ late' = late \cup InTheGap
    /\ UNCHANGED <<registered, serviceVars, thread, calls, lost>>

\* A thread makes its operation usable again before it goes on with it.
uncancel(t) ==
    /\ At(t, "idle")
    /\ registered[t] # NoOp /\ ops[registered[t]].cancelled
    /\ SetOp(registered[t], camel_operation_uncancel(ops[registered[t]]))
    /\ late' = late \ {registered[t]}
    /\ UNCHANGED <<registered, serviceVars, thread, calls, cancels, lost>>

-----------------------------------------------------------------------------
(* A thread in a call takes its steps; nobody promises that the peer, or   *)
(* the user, answers.                                                      *)

Goes(t) ==
    \/ io_check(t) \/ io_fd(t) \/ io_cancelled(t)
    \/ connect_op(t) \/ connecting(t) \/ connect_to_server(t) \/ pop3_connect(t)
    \/ connect_end(t) \/ connect_release(t)
    \/ disconnect(t) \/ disconnect_op(t) \/ disconnecting(t) \/ pop3_disconnect(t)
    \/ disconnect_release(t) \/ disconnect_unlock(t) \/ disconnect_status(t)

Next ==
    \/ \E t \in Threads : \/ Goes(t)
                          \/ io_done(t)
                          \/ get_password(t)
                          \/ camel_service_connect(t)
                          \/ camel_service_disconnect(t)
                          \/ uncancel(t)
    \/ camel_service_cancel_connect
    \/ cancel_all

Spec == Init /\ [][Next]_vars

FairSpec == Spec /\ \A t \in Threads : WF_vars(Goes(t))

-----------------------------------------------------------------------------
(* Properties.                                                             *)

\* The types; and an operation without references leaves nothing of its port.
TypeOK ==
    /\ ops \in [Ops -> Operation]
    /\ \A o \in Ops : ops[o].refcount = 0 => ops[o] = Free
    /\ registered \in [Threads -> Ops \cup {NoOp}]
    /\ status \in {"disconnected", "connecting", "connected", "disconnecting"}
    /\ connectOp \in Ops \cup {NoOp}
    /\ connectLock \in Threads \cup {NoThread}
    /\ engine \in BOOLEAN
    /\ thread \in [Threads -> [pc : Places, then : Places, io : {"ok", "no", "failed"}, ret : BOOLEAN,
                               unreg : BOOLEAN, nested : BOOLEAN, outer : BOOLEAN]]
    /\ calls \in 0..MaxCalls
    /\ cancels \in 0..MaxCancels
    /\ late \in SUBSET Ops
    /\ lost \in [Ops -> Nat]
    /\ clobbered \in BOOLEAN

\* The pipe holds a byte for each flagged message of the port, so that reading it
\* with the lock of the queue held never blocks and leaves nothing behind; and
\* there is a message only while the operation is cancelled, so that nobody is
\* woken for a cancellation that was taken back, however the cancellations,
\* checks and uncancels of several threads mix.
PortMatchesFlag ==
    \A o \in Ops : /\ ops[o].bytes = Flagged(ops[o].queue)
                   /\ ops[o].queue # <<>> => ops[o].cancelled

\* The references of a thread's call of connect or disconnect
Levels(t) ==
    IF thread[t].pc \in {"idle", "connectOp"} THEN 0
    ELSE IF thread[t].nested
         THEN IF thread[t].pc \in {"disconnect", "disconnectOp", "disconnectUnlock", "disconnectStatus"}
              THEN 1 ELSE 2
    ELSE IF thread[t].pc \in {"disconnect", "disconnectOp", "disconnectUnlock", "disconnectStatus"}
         THEN 0 ELSE 1

\* The calls that run with an operation are those of the thread with connect_lock.
CallsWith(o) ==
    IF connectLock # NoThread /\ registered[connectLock] = o THEN Levels(connectLock) ELSE 0

\* The count of an operation is the number of those that own a reference: the
\* thread it was made for, and the calls of connect and disconnect that run with
\* it.  So connect_op, which any thread may cancel, is never freed memory.  Not
\* counted are the references that connect does not drop after a disconnect
\* from within it (lost).
OperationsOwned ==
    /\ \A t \in Threads : Levels(t) > 0 => connectLock = t
    /\ \A o \in Ops : /\ ops[o].refcount = (IF o \in Owned THEN 1 ELSE 0) + lost[o] + CallsWith(o)
                      /\ connectOp = o => ops[o].refcount > 0

\* While nobody connects or disconnects, the status tells whether there is a
\* connection, unless the assignment after the unlock of connect_lock has hit a
\* connection that another thread had opened or was opening.
StatusIsTrue ==
    connectLock = NoThread /\ ~clobbered => (status = "connected" <=> engine)

HasCancel(t) == registered[t] # NoOp /\ ops[registered[t]].cancelled

Late(t) == registered[t] \in late

\* connect has not been accepted by the server yet.
Attempts(t) ==
    \/ thread[t].pc \in {"connectOp", "connecting", "opened", "prompt"}
    \/ At(t, "authenticated") /\ thread[t].io # "ok"
    \/ thread[t].pc \in InIO /\ thread[t].then \in {"opened", "authenticated"}

\* "If @service is currently attempting to connect to or disconnect from a
\* server, this causes it to stop and fail": a connect that is cancelled before
\* the server has accepted it fails, without any help of the server, if the user
\* answers the prompts.  Exempt is a cancellation that comes too late to wake the
\* thread: between the test of the flag and the creation of the pipe, or in a
\* read without one.
CancelFails ==
    \A t \in Threads :
       []<>~At(t, "prompt") =>
          (Attempts(t) /\ HasCancel(t) /\ ~Late(t))
          ~> ((At(t, "connectRelease") /\ ~thread[t].ret) \/ Late(t))

\* Every cancelled call of connect and disconnect ends: without any help of the
\* server, or, where the cancellation came too late to wake the thread, once the
\* server has answered what the thread waits for.
CancelStops ==
    \A t \in Threads :
       /\ []<>~At(t, "prompt") =>
             (~At(t, "idle") /\ HasCancel(t) /\ ~Late(t)) ~> (At(t, "idle") \/ Late(t))
       /\ []<>(thread[t].pc \notin {"prompt", "select", "read"}) =>
             (~At(t, "idle") /\ HasCancel(t)) ~> At(t, "idle")
=============================================================================
