----------------------------- MODULE ThreadLoop -----------------------------
(***************************************************************************)
(* One Tessera thread as the interpreter runs it: the ThreadState that     *)
(* handles to the thread share (tessera-runtime/src/thread_state.rs), the  *)
(* task that drives its body and its hooks (run_thread_task in             *)
(* tessera-interp/src/event_loop.rs), the tasks it spawns for handlers,    *)
(* and the tasks of other threads that call its handlers and terminate it. *)
(*                                                                         *)
(* Everything runs on one OS thread (a tokio LocalSet): a step of this     *)
(* specification is what one task does between two suspension points.  An  *)
(* `.await` on the uncontended status and terminate mutexes does not       *)
(* suspend.                                                                *)
(***************************************************************************)
EXTENDS Naturals, Sequences, FiniteSets

CONSTANTS
    Calls,           \* handler calls made on the thread, each at most once
    Body,            \* the task-local code of the thread: its body
    Prims,           \* signals, contracts and permits the thread may expose
    Capacity,        \* of the handler queue (64 in exec_thread_spawn)
    MaxNest,         \* bound on the nesting of #exclusive blocks in one task
    KeepsReceiver,   \* does ThreadState::new keep a receiver of exclusive_mode?
                     \* FALSE in the code: `watch::channel(false).0`
    MayPanic         \* does user code reach an operation on which Rust panics?

ASSUME BodyAssumption == Body \notin Calls
ASSUME BoundAssumption == Capacity \in Nat \ {0} /\ MaxNest \in Nat
ASSUME FlagAssumption == KeepsReceiver \in BOOLEAN /\ MayPanic \in BOOLEAN

VARIABLES
    status,            \* ThreadState.status
    exclusive_mode,    \* value of the watch ThreadState.exclusive_mode
    handler_in_flight, \* value of the watch ThreadState.handler_in_flight
    hf_changed,        \* the loop's receiver has not seen the last value of it
    terminate_signal,  \* the oneshot that terminate() fires
    terminate_future,  \* the outcome terminate()'s future resolves to
    queue,             \* requests in the handler channel, oldest first
    call,              \* per call: where dispatch_handler is, or its result
    known,             \* the calls that name a handler the template declares
    future,            \* per call: the execution future a Dispatched call holds
    task,              \* per call: the handler task spawned for it
    pc,                \* where run_thread_task is
    saw,               \* its locals `exclusive` and `handler_busy`
    terminate_during_exclusive,
    first_err,         \* run_teardown_hooks: a hook has failed
    depth,             \* per task: #exclusive blocks it is inside of
    prim               \* per primitive: unexposed, owned, or why it is broken

sharedVars == <<status, exclusive_mode, handler_in_flight, terminate_signal>>
callVars   == <<queue, call, known, future, task>>
loopVars   == <<pc, saw, terminate_during_exclusive, first_err, hf_changed>>
vars == <<sharedVars, callVars, loopVars, terminate_future, depth, prim>>

Statuses   == {"Running", "Terminating", "Terminated", "Crashed"}
Final      == {"Terminated", "Crashed"}
Rejections == {"TargetTerminated", "TargetTerminating", "TargetCrashed"}
Tasks      == Calls \cup {Body}

\* A handler task that has been spawned and has not ended.
Live == {"spawned", "waiting", "running"}
\* run_thread_task has returned or unwound: its receivers are dropped.
Gone == {"stopped", "panicked"}
\* Where the thread's task runs code of the template other than the body.
InHook == {"init", "enter", "on_exit", "on_terminate", "teardown_exit"}

TypeOK ==
    /\ status \in Statuses
    /\ exclusive_mode \in BOOLEAN
    /\ handler_in_flight \in BOOLEAN
    /\ hf_changed \in BOOLEAN
    /\ terminate_signal \in {"armed", "fired", "received"}
    /\ terminate_future \in {"pending", "Ok", "Failed", "dropped"}
    /\ queue \in Seq(Calls)
    /\ call \in [Calls -> {"idle", "sending", "queued", "Dispatched"}
                          \cup Rejections]
    /\ known \in SUBSET Calls
    /\ future \in [Calls -> {"none", "pending", "Ok", "Failed", "dropped"}]
    /\ task \in [Calls -> Live \cup {"none", "done", "panicked"}]
    /\ pc \in InHook \cup {"loop"} \cup Gone
    /\ saw \in [exclusive : BOOLEAN, busy : BOOLEAN]
    /\ terminate_during_exclusive \in BOOLEAN
    /\ first_err \in BOOLEAN
    /\ depth \in [Tasks -> Nat]
    /\ prim \in [Prims -> {"unexposed", "owned", "OwnerGone", "OwnerCrashed"}]

Init ==
    /\ status = "Running"
    /\ exclusive_mode = FALSE
    /\ handler_in_flight = FALSE
    /\ hf_changed = FALSE
    /\ terminate_signal = "armed"
    /\ terminate_future = "pending"
    /\ queue = <<>>
    /\ call = [c \in Calls |-> "idle"]
    /\ known = {}
    /\ future = [c \in Calls |-> "none"]
    /\ task = [c \in Calls |-> "none"]
    /\ pc = "init"
    /\ saw = [exclusive |-> FALSE, busy |-> FALSE]
    /\ terminate_during_exclusive = FALSE
    /\ first_err = FALSE
    /\ depth = [t \in Tasks |-> 0]
    /\ prim = [p \in Prims |-> "unexposed"]

-----------------------------------------------------------------------------
(* The watches.  `watch::Sender::send` stores the value only if a receiver  *)
(* is alive.                                                                *)

\* Handler tasks that wait for exclusive mode to end hold its only receivers.
ExclusiveReceivers == KeepsReceiver \/ \E c \in Calls : task[c] = "waiting"

\* Mutant: send_replace, which stores the value with no receiver alive.
Mut_set_exclusive(v) == exclusive_mode' = v

set_exclusive(v) ==
    exclusive_mode' = IF ExclusiveReceivers THEN v ELSE exclusive_mode

\* The event loop subscribes before its first iteration and drops hf_changed
\* when it returns.
set_handler_in_flight(v) ==
    IF pc \in Gone
    THEN UNCHANGED <<handler_in_flight, hf_changed>>
    ELSE handler_in_flight' = v /\ hf_changed' = TRUE

-----------------------------------------------------------------------------
(* ThreadState                                                              *)

\* Mutant: a crash reports the same reason as a normal end.
Mut_BrokenReason(s) == "OwnerGone"

BrokenReason(s) == IF s = "Terminated" THEN "OwnerGone" ELSE "OwnerCrashed"

set_status(s) ==
    /\ status' = s
    /\ prim' = IF s \in Final
               THEN [p \in Prims |-> IF prim[p] = "owned" THEN BrokenReason(s)
                                                          ELSE prim[p]]
               ELSE prim

Queued == {queue[i] : i \in DOMAIN queue}

\* Mutant: `if let` in place of `while let`, one request only.
Mut_drain_handlers(err) ==
    /\ queue' = IF queue = <<>> THEN queue ELSE Tail(queue)
    /\ call' = IF queue = <<>> THEN call ELSE [call EXCEPT ![Head(queue)] = err]

drain_handlers(err) ==
    /\ queue' = <<>>
    /\ call' = [c \in Calls |-> IF c \in Queued THEN err ELSE call[c]]

\* The handler channel's receiver is dropped with what it still holds; the
\* dispatchers find their oneshot closed.
DropReceiver == drain_handlers("TargetCrashed")

\* The caller has a handle once exec_thread_spawn's wait for ready_rx is over.
HandleBound == pc \notin {"init", "enter"}

terminate ==
    /\ HandleBound
    /\ terminate_signal = "armed"
    /\ terminate_signal' = "fired"
    /\ UNCHANGED <<status, exclusive_mode, handler_in_flight, callVars, loopVars,
                   terminate_future, depth, prim>>

-----------------------------------------------------------------------------
(* dispatch_handler, run by the caller's task.                              *)

Blocked == {c \in Calls : call[c] = "sending"}

\* A slot that is not promised to a sender already waiting for one.
FreeSlot == Len(queue) + Cardinality(Blocked) < Capacity

RejectionFor(s) == CASE s = "Terminated"  -> "TargetTerminated"
                     [] s = "Terminating" -> "TargetTerminating"
                     [] OTHER             -> "TargetCrashed"

Enqueue(c) ==
    /\ queue' = Append(queue, c)
    /\ call' = [call EXCEPT ![c] = "queued"]

\* The status is read, and the request sent or left waiting for a slot, without
\* suspending in between.
dispatch_handler(c, names_handler) ==
    /\ HandleBound /\ call[c] = "idle"
    /\ known' = IF names_handler THEN known \cup {c} ELSE known
    /\ \/ /\ status # "Running"
          /\ call' = [call EXCEPT ![c] = RejectionFor(status)]
          /\ UNCHANGED queue
       \/ /\ status = "Running" /\ pc \in Gone
          /\ call' = [call EXCEPT ![c] = "TargetCrashed"]
          /\ UNCHANGED queue
       \/ status = "Running" /\ pc \notin Gone /\ FreeSlot /\ Enqueue(c)
       \/ /\ status = "Running" /\ pc \notin Gone /\ ~FreeSlot
          /\ call' = [call EXCEPT ![c] = "sending"]
          /\ UNCHANGED queue
    /\ UNCHANGED <<sharedVars, future, task, loopVars, terminate_future, depth, prim>>

\* `__ping__` is answered without being queued.
dispatch_ping(c) ==
    /\ HandleBound /\ call[c] = "idle"
    /\ IF status = "Running"
       THEN /\ call' = [call EXCEPT ![c] = "Dispatched"]
            /\ future' = [future EXCEPT ![c] = "Ok"]
       ELSE /\ call' = [call EXCEPT ![c] = RejectionFor(status)]
            /\ UNCHANGED future
    /\ UNCHANGED <<sharedVars, queue, known, task, loopVars, terminate_future, depth, prim>>

\* `handler_tx.send(req).await` resumes: with a slot, or because the receiver
\* is gone.  The status is not read again.
SendResumes(c) ==
    /\ call[c] = "sending"
    /\ \/ pc \notin Gone /\ Len(queue) < Capacity /\ Enqueue(c)
       \/ /\ pc \in Gone
          /\ call' = [call EXCEPT ![c] = "TargetCrashed"]
          /\ UNCHANGED queue
    /\ UNCHANGED <<sharedVars, known, future, task, loopVars, terminate_future, depth, prim>>

-----------------------------------------------------------------------------
(* run_thread_task: setup and hooks.                                        *)

\* The top of the loop: read both watches; with a terminate deferred and the
\* exclusive block over, start the teardown instead of waiting again.
Iterate(deferred) ==
    /\ terminate_during_exclusive' = deferred
    /\ IF deferred /\ ~exclusive_mode'
       THEN pc' = "on_terminate" /\ UNCHANGED saw
       ELSE /\ pc' = "loop"
            /\ saw' = [exclusive |-> exclusive_mode', busy |-> handler_in_flight']

\* Mutant: the outcome is Ok on the error paths too.
Mut_Finish(s, err) ==
    /\ set_status(s)
    /\ drain_handlers(err)
    /\ terminate_future' = "Ok"
    /\ pc' = "stopped"

\* Every way the task ends: final status, queue emptied, outcome sent.
Finish(s, err) ==
    /\ set_status(s)
    /\ drain_handlers(err)
    /\ terminate_future' = IF s = "Terminated" THEN "Ok" ELSE "Failed"
    /\ pc' = "stopped"

taskLocals == <<saw, terminate_during_exclusive, hf_changed>>
unTouched  == <<exclusive_mode, handler_in_flight, known, future, task, depth>>

\* Field initialisers and the arity check.
InitFields ==
    /\ pc = "init"
    /\ \/ /\ pc' = "enter"
          /\ UNCHANGED <<status, prim, queue, call, terminate_future>>
       \/ Finish("Crashed", "TargetCrashed")
    /\ UNCHANGED <<taskLocals, unTouched, terminate_signal, first_err>>

OnEnter ==
    /\ pc = "enter"
    /\ \/ /\ hf_changed' = FALSE
          /\ UNCHANGED <<status, exclusive_mode, handler_in_flight, queue, call,
                         terminate_future, prim>>
          /\ Iterate(FALSE)
       \/ /\ Finish("Crashed", "TargetCrashed")
          /\ UNCHANGED <<taskLocals, exclusive_mode, handler_in_flight>>
    /\ UNCHANGED <<terminate_signal, first_err, known, future, task, depth>>

\* run_teardown_hooks: __on_terminate__, then __on_exit__ even if it failed.
OnTerminate ==
    /\ pc = "on_terminate"
    /\ pc' = "teardown_exit"
    /\ first_err' \in BOOLEAN
    /\ UNCHANGED <<sharedVars, callVars, taskLocals, terminate_future, depth, prim>>

\* Mutant: the error arm forgets to send the outcome.
Mut_TeardownExit ==
    /\ pc = "teardown_exit"
    /\ \E ok \in BOOLEAN :
          /\ first_err' = (first_err \/ ~ok)
          /\ set_status(IF first_err' THEN "Crashed" ELSE "Terminated")
          /\ terminate_future' = IF first_err' THEN terminate_future ELSE "Ok"
    /\ pc' = "stopped"
    /\ DropReceiver
    /\ UNCHANGED <<taskLocals, unTouched, terminate_signal>>

TeardownExit ==
    /\ pc = "teardown_exit"
    /\ \E ok \in BOOLEAN :
          /\ first_err' = (first_err \/ ~ok)
          /\ set_status(IF first_err' THEN "Crashed" ELSE "Terminated")
          /\ terminate_future' = IF first_err' THEN "Failed" ELSE "Ok"
    /\ pc' = "stopped"
    /\ DropReceiver
    /\ UNCHANGED <<taskLocals, unTouched, terminate_signal>>

\* __on_exit__ after the body returned.
OnExit ==
    /\ pc = "on_exit"
    /\ \/ Finish("Terminated", "TargetTerminated")
       \/ Finish("Crashed", "TargetCrashed")
    /\ UNCHANGED <<taskLocals, unTouched, terminate_signal, first_err>>

\* A Rust panic unwinds the task.  The status is left as it is; the outcome
\* channel is dropped with the task, or stays in ThreadState if the task has
\* not claimed it yet.
TaskPanics ==
    /\ MayPanic /\ pc \notin Gone
    /\ pc' = "panicked"
    /\ terminate_future' = IF HandleBound THEN "dropped" ELSE "pending"
    /\ DropReceiver
    /\ UNCHANGED <<sharedVars, taskLocals, known, future, task, first_err, depth, prim>>

-----------------------------------------------------------------------------
(* run_thread_task: the branches of the biased select.                      *)

TerminateReady == terminate_signal = "fired" /\ ~terminate_during_exclusive

\* Mutant: the drain before the hooks announces the end too early.
Mut_StartTerminating ==
    /\ set_status("Terminating")
    /\ drain_handlers("TargetTerminated")
    /\ terminate_signal' = "received"

StartTerminating ==
    /\ set_status("Terminating")
    /\ drain_handlers("TargetTerminating")
    /\ terminate_signal' = "received"

ReceiveTerminate ==
    /\ pc = "loop" /\ TerminateReady
    /\ StartTerminating
    /\ UNCHANGED <<unTouched, hf_changed, terminate_future, first_err>>
    /\ IF saw.exclusive
       THEN Iterate(TRUE)
       ELSE /\ pc' = "on_terminate"   \* the body is dropped where it stands
            /\ UNCHANGED <<saw, terminate_during_exclusive>>

\* The body is polled only after the terminate branch was found not ready.
BodyRuns == pc = "loop" /\ ~TerminateReady

BodyEntersExclusive ==
    /\ BodyRuns /\ depth[Body] < MaxNest
    /\ depth' = [depth EXCEPT ![Body] = @ + 1]
    /\ set_exclusive(TRUE)
    /\ UNCHANGED <<status, handler_in_flight, terminate_signal, callVars, loopVars,
                   terminate_future, prim>>

\* By its end, by return or by an error: the flag is cleared at any nesting.
BodyLeavesExclusive ==
    /\ BodyRuns /\ depth[Body] > 0
    /\ depth' = [depth EXCEPT ![Body] = @ - 1]
    /\ set_exclusive(FALSE)
    /\ UNCHANGED <<status, handler_in_flight, terminate_signal, callVars, loopVars,
                   terminate_future, prim>>

BodyReturns ==
    /\ BodyRuns /\ depth[Body] = 0
    /\ pc' = IF terminate_during_exclusive THEN "on_terminate" ELSE "on_exit"
    /\ UNCHANGED <<sharedVars, callVars, taskLocals, terminate_future, first_err, depth, prim>>

\* The error loses to a terminate that is deferred, or that the body itself
\* fired in the poll in which it failed.
BodyFails ==
    /\ BodyRuns /\ depth[Body] = 0
    /\ \/ /\ terminate_during_exclusive \/ terminate_signal = "armed"
          /\ StartTerminating
          /\ pc' = "on_terminate"
          /\ UNCHANGED terminate_future
       \/ /\ ~terminate_during_exclusive
          /\ Finish("Crashed", "TargetCrashed")
          /\ UNCHANGED terminate_signal
    /\ UNCHANGED <<taskLocals, unTouched, first_err>>

\* Mutant: accepting is not gated on `!handler_busy`.
Mut_AcceptHandler ==
    /\ BodyRuns /\ queue # <<>>
    /\ ~saw.exclusive /\ ~terminate_during_exclusive
    /\ queue' = Tail(queue)
    /\ LET c == Head(queue) IN
          \/ /\ c \in known
             /\ set_handler_in_flight(TRUE)
             /\ call' = [call EXCEPT ![c] = "Dispatched"]
             /\ future' = [future EXCEPT ![c] = "pending"]
             /\ task' = [task EXCEPT ![c] = "spawned"]
          \/ /\ c \notin known
             /\ call' = [call EXCEPT ![c] = "TargetCrashed"]
             /\ UNCHANGED <<handler_in_flight, hf_changed, future, task>>
    /\ UNCHANGED <<status, exclusive_mode, terminate_signal, known, terminate_future,
                   first_err, depth, prim>>
    /\ Iterate(FALSE)

\* dispatch_handler_inline: claim the gate, answer the dispatcher, spawn.
AcceptHandler ==
    /\ BodyRuns /\ queue # <<>>
    /\ ~saw.exclusive /\ ~terminate_during_exclusive /\ ~saw.busy
    /\ queue' = Tail(queue)
    /\ LET c == Head(queue) IN
          \/ /\ c \in known
             /\ set_handler_in_flight(TRUE)
             /\ call' = [call EXCEPT ![c] = "Dispatched"]
             /\ future' = [future EXCEPT ![c] = "pending"]
             /\ task' = [task EXCEPT ![c] = "spawned"]
          \/ /\ c \notin known
             /\ call' = [call EXCEPT ![c] = "TargetCrashed"]
             /\ UNCHANGED <<handler_in_flight, hf_changed, future, task>>
    /\ UNCHANGED <<status, exclusive_mode, terminate_signal, known, terminate_future,
                   first_err, depth, prim>>
    /\ Iterate(FALSE)

\* Mutant: the wakeup branch is armed only while the gate is free.
Mut_WakeOnHandlerChange ==
    /\ BodyRuns /\ ~saw.busy /\ hf_changed
    /\ hf_changed' = FALSE
    /\ UNCHANGED <<sharedVars, callVars, terminate_future, first_err, depth, prim>>
    /\ Iterate(terminate_during_exclusive)

\* hf_changed.changed(), a branch only of an iteration that saw the gate taken.
WakeOnHandlerChange ==
    /\ BodyRuns /\ saw.busy /\ hf_changed
    /\ hf_changed' = FALSE
    /\ UNCHANGED <<sharedVars, callVars, terminate_future, first_err, depth, prim>>
    /\ Iterate(terminate_during_exclusive)

-----------------------------------------------------------------------------
(* A handler task: independent of the loop that spawned it, and not         *)
(* cancelled with it.                                                       *)

HandlerBegins(c) ==
    /\ \/ task[c] = "spawned"
       \/ task[c] = "waiting" /\ ~exclusive_mode
    /\ task' = [task EXCEPT ![c] = IF exclusive_mode THEN "waiting" ELSE "running"]
    /\ UNCHANGED <<sharedVars, queue, call, known, future, loopVars, terminate_future,
                   depth, prim>>

HandlerEntersExclusive(c) ==
    /\ task[c] = "running" /\ depth[c] < MaxNest
    /\ depth' = [depth EXCEPT ![c] = @ + 1]
    /\ set_exclusive(TRUE)
    /\ UNCHANGED <<status, handler_in_flight, terminate_signal, callVars, loopVars,
                   terminate_future, prim>>

\* Mutant: the block is left without having been entered.
Mut_HandlerLeavesExclusive(c) ==
    /\ task[c] = "running"
    /\ depth' = [depth EXCEPT ![c] = @ - 1]
    /\ set_exclusive(FALSE)
    /\ UNCHANGED <<status, handler_in_flight, terminate_signal, callVars, loopVars,
                   terminate_future, prim>>

HandlerLeavesExclusive(c) ==
    /\ task[c] = "running" /\ depth[c] > 0
    /\ depth' = [depth EXCEPT ![c] = @ - 1]
    /\ set_exclusive(FALSE)
    /\ UNCHANGED <<status, handler_in_flight, terminate_signal, callVars, loopVars,
                   terminate_future, prim>>

\* Mutant: a failing handler ends without releasing the gate.
Mut_HandlerReturns(c) ==
    /\ task[c] = "running" /\ depth[c] = 0
    /\ \/ set_handler_in_flight(FALSE) /\ future' = [future EXCEPT ![c] = "Ok"]
       \/ /\ future' = [future EXCEPT ![c] = "Failed"]
          /\ UNCHANGED <<handler_in_flight, hf_changed>>
    /\ task' = [task EXCEPT ![c] = "done"]
    /\ UNCHANGED <<status, exclusive_mode, terminate_signal, queue, call, known, pc, saw,
                   terminate_during_exclusive, first_err, terminate_future, depth, prim>>

\* The gate is released before the outcome is delivered, in one poll.
HandlerReturns(c) ==
    /\ task[c] = "running" /\ depth[c] = 0
    /\ set_handler_in_flight(FALSE)
    /\ future' \in {[future EXCEPT ![c] = o] : o \in {"Ok", "Failed"}}
    /\ task' = [task EXCEPT ![c] = "done"]
    /\ UNCHANGED <<status, exclusive_mode, terminate_signal, queue, call, known, pc, saw,
                   terminate_during_exclusive, first_err, terminate_future, depth, prim>>

\* Mutant: the sender of the execution outcome outlives the panicking task.
Mut_HandlerPanics(c) ==
    /\ MayPanic /\ task[c] = "running"
    /\ task' = [task EXCEPT ![c] = "panicked"]
    /\ UNCHANGED <<sharedVars, queue, call, known, future, loopVars, terminate_future,
                   depth, prim>>

HandlerPanics(c) ==
    /\ MayPanic /\ task[c] = "running"
    /\ future' = [future EXCEPT ![c] = "dropped"]
    /\ task' = [task EXCEPT ![c] = "panicked"]
    /\ UNCHANGED <<sharedVars, queue, call, known, loopVars, terminate_future, depth, prim>>

-----------------------------------------------------------------------------
\* maybe_sync_expose, from a hook, the body or a handler: the first expose of a
\* primitive registers it with the thread, whatever the thread's status is.
Expose(p) ==
    /\ pc \in InHook \/ BodyRuns \/ \E c \in Calls : task[c] = "running"
    /\ prim[p] = "unexposed"
    /\ prim' = [prim EXCEPT ![p] = "owned"]
    /\ UNCHANGED <<sharedVars, callVars, loopVars, terminate_future, depth>>

Setup == InitFields \/ OnEnter
Hook  == Setup \/ OnTerminate \/ TeardownExit \/ OnExit
Select == ReceiveTerminate \/ AcceptHandler \/ WakeOnHandlerChange
BodyStep == \/ BodyEntersExclusive \/ BodyLeavesExclusive
            \/ BodyReturns \/ BodyFails
HandlerStep(c) == \/ HandlerBegins(c)
                  \/ HandlerEntersExclusive(c) \/ HandlerLeavesExclusive(c)
                  \/ HandlerReturns(c) \/ HandlerPanics(c)
CallerStep(c) == \/ \E known_name \in BOOLEAN : dispatch_handler(c, known_name)
                 \/ dispatch_ping(c)
                 \/ SendResumes(c)

Next ==
    \/ Hook \/ Select \/ BodyStep \/ TaskPanics \/ terminate
    \/ \E c \in Calls : HandlerStep(c) \/ CallerStep(c)
    \/ \E p \in Prims : Expose(p)

Spec == Init /\ [][Next]_vars

\* The executor polls every woken task, and hooks and handlers are assumed to
\* return; nothing is assumed of the body, which may run or sleep for ever, nor
\* of callers that have not called.
Fairness ==
    /\ WF_vars(Hook)
    /\ WF_vars(ReceiveTerminate)
    /\ WF_vars(AcceptHandler)
    /\ WF_vars(WakeOnHandlerChange)
    /\ \A c \in Calls : /\ WF_vars(HandlerBegins(c))
                        /\ SF_vars(HandlerReturns(c))
                        /\ WF_vars(HandlerLeavesExclusive(c))
                        /\ SF_vars(SendResumes(c))

FairSpec == Spec /\ Fairness

-----------------------------------------------------------------------------
(* Safety.                                                                  *)

\* R-HANDLER-2 (event_loop.rs:163, 307, 349): two handlers of one thread are
\* never in flight together, although the gate is read into `handler_busy` at
\* the top of an iteration and used after the select has waited.
OneHandlerAtATime ==
    \A c, d \in Calls : task[c] \in Live /\ task[d] \in Live => c = d

\* The outcome that waiters on terminate() get agrees with the final status,
\* and a task that unwound published neither.
OutcomeAgreesWithStatus ==
    /\ terminate_future = "Ok" <=> status = "Terminated"
    /\ terminate_future = "Failed" <=> status = "Crashed"
    /\ pc = "stopped" <=> status \in Final
    /\ terminate_future = "dropped" => pc = "panicked"

\* The channel holds exactly the calls whose dispatcher waits for an answer,
\* each once, and nothing once the task is gone: no drain leaves a dispatcher
\* without a reply.
NoRequestStranded ==
    /\ Queued = {c \in Calls : call[c] = "queued"}
    /\ \A i, j \in DOMAIN queue : queue[i] = queue[j] => i = j
    /\ Len(queue) <= Capacity
    /\ pc \in Gone => queue = <<>>

\* The execution future a caller holds is unresolved exactly while the task
\* that owns its sender is alive, also after the thread has ended.
FutureFollowsTask ==
    \A c \in Calls : /\ future[c] = "pending" <=> task[c] \in Live
                     /\ future[c] = "none" => call[c] # "Dispatched"

\* The reason a primitive reports agrees with how its owner ended.
BrokenReasonAgrees ==
    \A p \in Prims : /\ prim[p] = "OwnerGone" => status = "Terminated"
                     /\ prim[p] = "OwnerCrashed" => status = "Crashed"

\* The gate is only held by a handler that will release it: what lets the next
\* queued request be accepted (event_loop.rs:351-352).
GateHeldByLiveHandler ==
    pc = "loop" /\ handler_in_flight => \E c \in Calls : task[c] \in Live

\* Without a receiver that outlives ThreadState::new, set_exclusive stores
\* nothing: the flag is never raised and #exclusive excludes nobody.
ExclusiveNeedsReceiver == ~KeepsReceiver => ~exclusive_mode

\* R-EXCL-1 (event_loop.rs:336-338): a handler that was dispatched before an
\* #exclusive block does not begin while the body is inside of it.
ExclusiveDefersHandlers ==
    [][\A c \in Calls : task[c] \in {"spawned", "waiting"} /\ task'[c] = "running"
                        => pc # "loop" \/ depth[Body] = 0]_vars

\* Primitives of a thread that has ended are broken (thread_state.rs:67-68).
OwnedPrimsBrokenAtEnd == status \in Final => \A p \in Prims : prim[p] # "owned"

\* R-EXCL-3 (event_loop.rs:198-204): a terminate that is deferred turns the
\* status at once, so that later dispatches are refused, and a loop that would
\* still accept requests has not begun to end.
DeferredMeansTerminating ==
    /\ terminate_during_exclusive => status # "Running"
    /\ pc = "loop" /\ ~terminate_during_exclusive => status = "Running"

-----------------------------------------------------------------------------
(* Liveness.                                                                *)

\* terminate() interrupts a body that never returns: its future resolves.
TerminateResolves == terminate_signal # "armed" ~> terminate_future # "pending"

\* A dispatcher that has sent its request, or is blocked on a full queue, gets
\* an answer, through any number of busy handlers, drains and endings.
CallsAnswered ==
    \A c \in Calls : call[c] \in {"sending", "queued"}
                     ~> call[c] \notin {"sending", "queued"}

-----------------------------------------------------------------------------
Lifecycle == INSTANCE ThreadLifecycle WITH
    outcome <- terminate_future,
    dead    <- pc \in Gone,
    answer  <- [c \in Calls |-> IF call[c] \in {"idle", "sending", "queued"}
                                THEN "none" ELSE call[c]]

\* A thread behaves as ThreadLifecycle promises: its status moves forward only,
\* the outcome of terminate() is published once, with the final status, and each
\* call is answered at most once, with a verdict the status explains, whichever
\* of the exits of run_thread_task is taken (event_loop.rs:82-304).
ImplementsLifecycle == Lifecycle!Spec
=============================================================================
