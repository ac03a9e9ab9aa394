-------------------------- MODULE ThreadLoopProofs --------------------------
(***************************************************************************)
(* What holds of ThreadLoop for every set of calls and primitives, every   *)
(* queue capacity and nesting, with or without a receiver kept on          *)
(* exclusive_mode, and with or without panics.                             *)
(***************************************************************************)
EXTENDS ThreadLoop, FiniteSetTheorems, TLAPS

Waiters == INSTANCE NotifyProofs

\* Type correctness is preserved by the operators that Next is made of.
LEMMA DrainType ==
    ASSUME TypeOK, NEW err \in Rejections, drain_handlers(err)
    PROVE  /\ queue' \in Seq(Calls)
           /\ call' \in [Calls -> {"idle", "sending", "queued", "Dispatched"}
                                  \cup Rejections]
BY DEF TypeOK, drain_handlers

\* A status is set to a status, and breaks primitives with a reason.
LEMMA StatusType ==
    ASSUME TypeOK, NEW s \in Statuses, set_status(s)
    PROVE  /\ status' \in Statuses
           /\ prim' \in [Prims -> {"unexposed", "owned", "OwnerGone", "OwnerCrashed"}]
BY DEF TypeOK, set_status, BrokenReason

\* Sent to or lost, the value of exclusive_mode is a Boolean.
LEMMA FlagType ==
    ASSUME TypeOK, NEW v \in BOOLEAN, set_exclusive(v)
    PROVE  exclusive_mode' \in BOOLEAN
BY DEF TypeOK, set_exclusive

\* The top of an iteration reads both watches and picks the next step.
LEMMA IterateType ==
    ASSUME exclusive_mode' \in BOOLEAN, handler_in_flight' \in BOOLEAN,
           saw \in [exclusive : BOOLEAN, busy : BOOLEAN],
           NEW d \in BOOLEAN, Iterate(d)
    PROVE  /\ pc' \in {"loop", "on_terminate"}
           /\ saw' \in [exclusive : BOOLEAN, busy : BOOLEAN]
           /\ terminate_during_exclusive' \in BOOLEAN
BY DEF Iterate

\* An exit that sets the status, drains and publishes keeps the types.
LEMMA FinishType ==
    ASSUME TypeOK, NEW s \in Final, NEW err \in Rejections, Finish(s, err)
    PROVE  /\ status' \in Statuses
           /\ prim' \in [Prims -> {"unexposed", "owned", "OwnerGone", "OwnerCrashed"}]
           /\ queue' \in Seq(Calls)
           /\ call' \in [Calls -> {"idle", "sending", "queued", "Dispatched"}
                                  \cup Rejections]
           /\ terminate_future' \in {"Ok", "Failed"}
           /\ pc' = "stopped"
<1>1. s \in Statuses
  BY DEF Final, Statuses
<1>2. set_status(s) /\ drain_handlers(err)
  BY DEF Finish
<1>3. terminate_future' \in {"Ok", "Failed"} /\ pc' = "stopped"
  BY DEF Finish
<1> QED
  BY <1>1, <1>2, <1>3, DrainType, StatusType

\* ThreadState::new and a task not yet polled have the right types.
LEMMA TypeInit == Init => TypeOK
<1> SUFFICES ASSUME Init PROVE TypeOK
  OBVIOUS
<1>1. queue \in Seq(Calls) /\ known \in SUBSET Calls
  BY DEF Init
<1>2. /\ call \in [Calls -> {"idle", "sending", "queued", "Dispatched"}
                            \cup Rejections]
      /\ future \in [Calls -> {"none", "pending", "Ok", "Failed", "dropped"}]
      /\ task \in [Calls -> Live \cup {"none", "done", "panicked"}]
      /\ depth \in [Tasks -> Nat]
      /\ prim \in [Prims -> {"unexposed", "owned", "OwnerGone", "OwnerCrashed"}]
  BY DEF Init
<1> QED BY <1>1, <1>2 DEF Init, TypeOK, Statuses, InHook

\* So do the steps that run the hooks of the template,
LEMMA TypeHook == TypeOK /\ Hook => TypeOK'
<1> SUFFICES ASSUME TypeOK, Hook PROVE TypeOK'
  OBVIOUS
<1> USE DEF Rejections, Final, InHook, Gone
<1>1. CASE InitFields
  <2>1. CASE Finish("Crashed", "TargetCrashed")
    BY <1>1, <2>1, FinishType DEF InitFields, TypeOK, taskLocals, unTouched
  <2>2. CASE pc' = "enter" /\ UNCHANGED <<status, prim, queue, call, terminate_future>>
    BY <1>1, <2>2 DEF InitFields, TypeOK, taskLocals, unTouched
  <2> QED BY <1>1, <2>1, <2>2 DEF InitFields
<1>2. CASE OnEnter
  <2>1. CASE Finish("Crashed", "TargetCrashed")
             /\ UNCHANGED <<taskLocals, exclusive_mode, handler_in_flight>>
    BY <1>2, <2>1, FinishType DEF OnEnter, TypeOK, taskLocals
  <2>2. CASE /\ hf_changed' = FALSE
             /\ UNCHANGED <<status, exclusive_mode, handler_in_flight, queue, call,
                            terminate_future, prim>>
             /\ Iterate(FALSE)
    <3>1. exclusive_mode' \in BOOLEAN /\ handler_in_flight' \in BOOLEAN
          /\ saw \in [exclusive : BOOLEAN, busy : BOOLEAN]
      BY <2>2 DEF TypeOK
    <3>2. /\ pc' \in {"loop", "on_terminate"}
          /\ saw' \in [exclusive : BOOLEAN, busy : BOOLEAN]
          /\ terminate_during_exclusive' \in BOOLEAN
      BY <2>2, <3>1, IterateType
    <3> QED BY <1>2, <2>2, <3>2 DEF OnEnter, TypeOK
  <2> QED BY <1>2, <2>1, <2>2 DEF OnEnter
<1>3. CASE OnTerminate
  BY <1>3 DEF OnTerminate, TypeOK, sharedVars, callVars, taskLocals
<1>4. CASE TeardownExit
  <2>1. PICK ok \in BOOLEAN :
           /\ first_err' = (first_err \/ ~ok)
           /\ set_status(IF first_err' THEN "Crashed" ELSE "Terminated")
           /\ terminate_future' = IF first_err' THEN "Failed" ELSE "Ok"
    BY <1>4 DEF TeardownExit
  <2>2. first_err' \in BOOLEAN
    BY <2>1 DEF TypeOK
  <2>3. /\ status' \in Statuses
        /\ prim' \in [Prims -> {"unexposed", "owned", "OwnerGone", "OwnerCrashed"}]
    BY <2>1, StatusType DEF Statuses
  <2>4. drain_handlers("TargetCrashed")
    BY <1>4 DEF TeardownExit, DropReceiver
  <2>5. /\ queue' \in Seq(Calls)
        /\ call' \in [Calls -> {"idle", "sending", "queued", "Dispatched"}
                               \cup Rejections]
    BY <2>4, DrainType
  <2> QED BY <1>4, <2>1, <2>2, <2>3, <2>5 DEF TeardownExit, TypeOK, taskLocals, unTouched
<1>5. CASE OnExit
  <2>1. CASE Finish("Terminated", "TargetTerminated")
    BY <1>5, <2>1, FinishType DEF OnExit, TypeOK, taskLocals, unTouched
  <2>2. CASE Finish("Crashed", "TargetCrashed")
    BY <1>5, <2>2, FinishType DEF OnExit, TypeOK, taskLocals, unTouched
  <2> QED BY <1>5, <2>1, <2>2 DEF OnExit
<1> QED BY <1>1, <1>2, <1>3, <1>4, <1>5 DEF Hook, Setup

\* the branches of the select,
LEMMA TypeSelect == TypeOK /\ Select => TypeOK'
<1> SUFFICES ASSUME TypeOK, Select PROVE TypeOK'
  OBVIOUS
<1> USE DEF Rejections, Final, InHook, Gone
<1>1. CASE ReceiveTerminate
  <2>1. set_status("Terminating") /\ drain_handlers("TargetTerminating")
        /\ terminate_signal' = "received"
    BY <1>1 DEF ReceiveTerminate, StartTerminating
  <2>2. /\ status' \in Statuses
        /\ prim' \in [Prims -> {"unexposed", "owned", "OwnerGone", "OwnerCrashed"}]
    BY <2>1, StatusType DEF Statuses
  <2>3. /\ queue' \in Seq(Calls)
        /\ call' \in [Calls -> {"idle", "sending", "queued", "Dispatched"}
                               \cup Rejections]
    BY <2>1, DrainType
  <2>4. /\ pc' \in {"loop", "on_terminate"}
        /\ saw' \in [exclusive : BOOLEAN, busy : BOOLEAN]
        /\ terminate_during_exclusive' \in BOOLEAN
    <3>1. CASE saw.exclusive
      BY <1>1, <3>1, IterateType DEF ReceiveTerminate, unTouched, TypeOK
    <3>2. CASE ~saw.exclusive
      BY <1>1, <3>2 DEF ReceiveTerminate, TypeOK
    <3> QED BY <3>1, <3>2
  <2> QED BY <1>1, <2>1, <2>2, <2>3, <2>4 DEF ReceiveTerminate, unTouched, TypeOK
<1>2. CASE AcceptHandler
  <2>1. queue # <<>> /\ Head(queue) \in Calls /\ queue' \in Seq(Calls)
    BY <1>2 DEF AcceptHandler, TypeOK
  <2>2. PICK c \in Calls : c = Head(queue)
    BY <2>1
  <2>3. /\ handler_in_flight' \in BOOLEAN
        /\ hf_changed' \in BOOLEAN
        /\ call' \in [Calls -> {"idle", "sending", "queued", "Dispatched"}
                               \cup Rejections]
        /\ future' \in [Calls -> {"none", "pending", "Ok", "Failed", "dropped"}]
        /\ task' \in [Calls -> Live \cup {"none", "done", "panicked"}]
    <3>1. CASE c \in known
      BY <1>2, <2>2, <3>1 DEF AcceptHandler, TypeOK, set_handler_in_flight, Live
    <3>2. CASE c \notin known
      BY <1>2, <2>2, <3>2 DEF AcceptHandler, TypeOK
    <3> QED BY <3>1, <3>2
  <2>4. /\ pc' \in {"loop", "on_terminate"}
        /\ saw' \in [exclusive : BOOLEAN, busy : BOOLEAN]
        /\ terminate_during_exclusive' \in BOOLEAN
    <3>1. exclusive_mode' \in BOOLEAN /\ Iterate(FALSE)
          /\ saw \in [exclusive : BOOLEAN, busy : BOOLEAN]
      BY <1>2 DEF AcceptHandler, TypeOK
    <3> QED BY <2>3, <3>1, IterateType
  <2> QED BY <1>2, <2>1, <2>3, <2>4 DEF AcceptHandler, TypeOK
<1>3. CASE WakeOnHandlerChange
  <2>1. /\ pc' \in {"loop", "on_terminate"}
        /\ saw' \in [exclusive : BOOLEAN, busy : BOOLEAN]
        /\ terminate_during_exclusive' \in BOOLEAN
    BY <1>3, IterateType DEF WakeOnHandlerChange, TypeOK, sharedVars
  <2> QED BY <1>3, <2>1 DEF WakeOnHandlerChange, TypeOK, sharedVars, callVars
<1> QED BY <1>1, <1>2, <1>3 DEF Select

\* the polls of the body,
LEMMA TypeBody == TypeOK /\ BodyStep => TypeOK'
<1> SUFFICES ASSUME TypeOK, BodyStep PROVE TypeOK'
  OBVIOUS
<1> USE DEF InHook, Gone
<1>1. CASE BodyEntersExclusive
  <2>1. depth' \in [Tasks -> Nat]
    BY <1>1 DEF BodyEntersExclusive, TypeOK, Tasks
  <2>2. exclusive_mode' \in BOOLEAN
    BY <1>1, FlagType DEF BodyEntersExclusive
  <2> QED BY <1>1, <2>1, <2>2 DEF BodyEntersExclusive, TypeOK, callVars, loopVars
<1>2. CASE BodyLeavesExclusive
  <2>1. depth' \in [Tasks -> Nat]
    BY <1>2 DEF BodyLeavesExclusive, TypeOK, Tasks
  <2>2. exclusive_mode' \in BOOLEAN
    BY <1>2, FlagType DEF BodyLeavesExclusive
  <2> QED BY <1>2, <2>1, <2>2 DEF BodyLeavesExclusive, TypeOK, callVars, loopVars
<1>3. CASE BodyReturns
  BY <1>3 DEF BodyReturns, TypeOK, sharedVars, callVars, taskLocals
<1>4. CASE BodyFails
  <2>1. CASE Finish("Crashed", "TargetCrashed") /\ UNCHANGED terminate_signal
    BY <1>4, <2>1, FinishType
       DEF BodyFails, TypeOK, taskLocals, unTouched, Final, Rejections
  <2>2. CASE StartTerminating /\ pc' = "on_terminate" /\ UNCHANGED terminate_future
    <3>1. /\ status' \in Statuses
          /\ prim' \in [Prims -> {"unexposed", "owned", "OwnerGone", "OwnerCrashed"}]
      BY <2>2, StatusType DEF StartTerminating, Statuses
    <3>2. /\ queue' \in Seq(Calls)
          /\ call' \in [Calls -> {"idle", "sending", "queued", "Dispatched"}
                                 \cup Rejections]
      BY <2>2, DrainType DEF StartTerminating, Rejections
    <3> QED BY <1>4, <2>2, <3>1, <3>2
       DEF BodyFails, StartTerminating, TypeOK, taskLocals, unTouched
  <2> QED BY <1>4, <2>1, <2>2 DEF BodyFails
<1> QED BY <1>1, <1>2, <1>3, <1>4 DEF BodyStep

\* those of a handler task,
LEMMA TypeHandler ==
    ASSUME NEW c \in Calls, TypeOK, HandlerStep(c)
    PROVE  TypeOK'
<1>1. CASE HandlerBegins(c)
  BY <1>1 DEF HandlerBegins, TypeOK, Live, sharedVars, loopVars
<1>2. CASE HandlerEntersExclusive(c)
  <2>1. depth' \in [Tasks -> Nat]
    BY <1>2 DEF HandlerEntersExclusive, TypeOK, Tasks
  <2>2. exclusive_mode' \in BOOLEAN
    BY <1>2, FlagType DEF HandlerEntersExclusive
  <2> QED BY <1>2, <2>1, <2>2 DEF HandlerEntersExclusive, TypeOK, callVars, loopVars
<1>3. CASE HandlerLeavesExclusive(c)
  <2>1. depth' \in [Tasks -> Nat]
    BY <1>3 DEF HandlerLeavesExclusive, TypeOK, Tasks
  <2>2. exclusive_mode' \in BOOLEAN
    BY <1>3, FlagType DEF HandlerLeavesExclusive
  <2> QED BY <1>3, <2>1, <2>2 DEF HandlerLeavesExclusive, TypeOK, callVars, loopVars
<1>4. CASE HandlerReturns(c)
  <2>1. handler_in_flight' \in BOOLEAN /\ hf_changed' \in BOOLEAN
    BY <1>4 DEF HandlerReturns, set_handler_in_flight, TypeOK
  <2>2. /\ future' \in [Calls -> {"none", "pending", "Ok", "Failed", "dropped"}]
        /\ task' \in [Calls -> Live \cup {"none", "done", "panicked"}]
    BY <1>4 DEF HandlerReturns, TypeOK
  <2> QED BY <1>4, <2>1, <2>2 DEF HandlerReturns, TypeOK
<1>5. CASE HandlerPanics(c)
  BY <1>5 DEF HandlerPanics, TypeOK, sharedVars, loopVars
<1> QED BY <1>1, <1>2, <1>3, <1>4, <1>5 DEF HandlerStep

\* and the steps of the task that dispatches a call.
LEMMA TypeCaller ==
    ASSUME NEW c \in Calls, TypeOK, CallerStep(c)
    PROVE  TypeOK'
<1> DEFINE CallStates == {"idle", "sending", "queued", "Dispatched"} \cup Rejections
<1>0. ASSUME Enqueue(c)
      PROVE  queue' \in Seq(Calls) /\ call' \in [Calls -> CallStates]
  BY <1>0 DEF Enqueue, TypeOK
<1>1. ASSUME NEW d \in BOOLEAN, dispatch_handler(c, d)
      PROVE  TypeOK'
  <2>1. queue' \in Seq(Calls) /\ call' \in [Calls -> CallStates]
    <3>1. CASE Enqueue(c)
      BY <1>0, <3>1
    <3>2. CASE /\ UNCHANGED queue
               /\ \E s \in CallStates : call' = [call EXCEPT ![c] = s]
      BY <3>2 DEF TypeOK
    <3>3. "sending" \in CallStates /\ "TargetCrashed" \in CallStates
          /\ RejectionFor(status) \in CallStates
      BY DEF Rejections, RejectionFor
    <3> QED BY <1>1, <3>1, <3>2, <3>3 DEF dispatch_handler
  <2>2. known' \in SUBSET Calls
    BY <1>1 DEF dispatch_handler, TypeOK
  <2> QED BY <1>1, <2>1, <2>2 DEF dispatch_handler, TypeOK, sharedVars, loopVars
<1>2. CASE dispatch_ping(c)
  <2>1. call' \in [Calls -> CallStates]
    BY <1>2 DEF dispatch_ping, TypeOK, RejectionFor, Rejections
  <2>2. future' \in [Calls -> {"none", "pending", "Ok", "Failed", "dropped"}]
    BY <1>2 DEF dispatch_ping, TypeOK
  <2> QED BY <1>2, <2>1, <2>2 DEF dispatch_ping, TypeOK, sharedVars, loopVars
<1>3. CASE SendResumes(c)
  <2>1. queue' \in Seq(Calls) /\ call' \in [Calls -> CallStates]
    <3>1. CASE Enqueue(c)
      BY <1>0, <3>1
    <3>2. CASE call' = [call EXCEPT ![c] = "TargetCrashed"] /\ UNCHANGED queue
      BY <3>2 DEF TypeOK, Rejections
    <3> QED BY <1>3, <3>1, <3>2 DEF SendResumes
  <2> QED BY <1>3, <2>1 DEF SendResumes, TypeOK, sharedVars, loopVars
<1> QED BY <1>1, <1>2, <1>3 DEF CallerStep

\* Type correctness is inductive.
LEMMA TypeStep == TypeOK /\ [Next]_vars => TypeOK'
<1> SUFFICES ASSUME TypeOK, [Next]_vars PROVE TypeOK'
  OBVIOUS
<1>1. CASE TaskPanics
  <2>1. /\ queue' \in Seq(Calls)
        /\ call' \in [Calls -> {"idle", "sending", "queued", "Dispatched"}
                               \cup Rejections]
    BY <1>1, DrainType DEF TaskPanics, DropReceiver, Rejections
  <2> QED BY <1>1, <2>1 DEF TaskPanics, TypeOK, sharedVars, taskLocals, Gone
<1>2. CASE terminate
  BY <1>2 DEF terminate, TypeOK, callVars, loopVars
<1>3. ASSUME NEW p \in Prims, Expose(p) PROVE TypeOK'
  BY <1>3 DEF Expose, TypeOK, sharedVars, callVars, loopVars
<1>4. CASE UNCHANGED vars
  BY <1>4 DEF vars, sharedVars, callVars, loopVars, TypeOK
<1> QED BY <1>1, <1>2, <1>3, <1>4, TypeHook, TypeSelect, TypeBody, TypeHandler, TypeCaller
   DEF Next

\* Every variable of ThreadLoop keeps the type its Rust field has.
THEOREM TypeCorrect == Spec => []TypeOK
BY TypeInit, TypeStep, PTL DEF Spec

-----------------------------------------------------------------------------
(* R-HANDLER-2.  The loop decides on `handler_busy`, a copy of the gate; what *)
(* makes that safe is that the copy, like the gate itself, is only ever free  *)
(* while no handler task is alive.                                           *)

Quiet == \A c \in Calls : task[c] \notin Live

GateInv ==
    /\ OneHandlerAtATime
    /\ pc \in {"init", "enter"} => Quiet
    /\ pc = "loop" /\ (~saw.busy \/ ~handler_in_flight) => Quiet

\* GateInv is inductive: only AcceptHandler starts a handler, and it needs a
\* free gate in `saw`, which is read again after every change of the gate.
LEMMA GateStep == TypeOK /\ GateInv /\ [Next]_vars => GateInv'
<1> SUFFICES ASSUME TypeOK, GateInv, [Next]_vars PROVE GateInv'
  OBVIOUS
<1> USE DEF Quiet
\* A step that starts no handler and does not touch the gate or its copy.
<1>a. ASSUME UNCHANGED <<task, handler_in_flight, saw>>,
             pc' = pc \/ pc' \notin {"init", "enter", "loop"}
      PROVE  GateInv'
  BY <1>a DEF GateInv, OneHandlerAtATime
\* An iteration that starts no handler.
<1>b. ASSUME UNCHANGED <<task, handler_in_flight>>, NEW d \in BOOLEAN, Iterate(d),
             pc \in {"enter", "loop"}
      PROVE  GateInv'
  BY <1>b DEF GateInv, OneHandlerAtATime, Iterate
<1>1. CASE Hook
  <2>1. CASE InitFields
    <3>1. pc' \in {"enter", "stopped"} /\ pc = "init"
          /\ UNCHANGED <<task, handler_in_flight, saw>>
      BY <2>1 DEF InitFields, Finish, taskLocals, unTouched
    <3> QED BY <3>1 DEF GateInv, OneHandlerAtATime
  <2>2. CASE OnEnter
    <3>1. CASE Finish("Crashed", "TargetCrashed")
               /\ UNCHANGED <<taskLocals, exclusive_mode, handler_in_flight>>
      BY <1>a, <2>2, <3>1 DEF OnEnter, Finish, taskLocals
    <3>2. CASE Iterate(FALSE) /\ UNCHANGED handler_in_flight
      BY <1>b, <2>2, <3>2 DEF OnEnter
    <3> QED BY <2>2, <3>1, <3>2 DEF OnEnter
  <2>3. CASE OnTerminate
    BY <1>a, <2>3 DEF OnTerminate, sharedVars, callVars, taskLocals
  <2>4. CASE TeardownExit
    BY <1>a, <2>4 DEF TeardownExit, taskLocals, unTouched
  <2>5. CASE OnExit
    BY <1>a, <2>5 DEF OnExit, Finish, taskLocals, unTouched
  <2> QED BY <1>1, <2>1, <2>2, <2>3, <2>4, <2>5 DEF Hook, Setup
<1>2. CASE ReceiveTerminate
  <2>1. UNCHANGED <<task, handler_in_flight>> /\ pc = "loop"
    BY <1>2 DEF ReceiveTerminate, unTouched
  <2>2. CASE saw.exclusive
    BY <1>b, <1>2, <2>1, <2>2 DEF ReceiveTerminate
  <2>3. CASE ~saw.exclusive
    BY <1>a, <1>2, <2>1, <2>3 DEF ReceiveTerminate
  <2> QED BY <2>2, <2>3
<1>3. CASE AcceptHandler
  <2>1. pc = "loop" /\ ~saw.busy /\ queue # <<>> /\ Iterate(FALSE)
    BY <1>3 DEF AcceptHandler, BodyRuns
  <2>2. Quiet
    BY <2>1 DEF GateInv
  <2>3. PICK c \in Calls : c = Head(queue)
    BY <2>1 DEF TypeOK
  <2>4. CASE c \notin known
    BY <1>3, <1>b, <2>1, <2>3, <2>4 DEF AcceptHandler
  <2>5. CASE c \in known
    <3>1. task' = [task EXCEPT ![c] = "spawned"] /\ handler_in_flight' = TRUE
      BY <1>3, <2>1, <2>3, <2>5 DEF AcceptHandler, set_handler_in_flight, Gone
    <3>2. pc' = "loop" /\ saw'.busy
      <4>1. pc' = "loop" /\ saw' = [exclusive |-> exclusive_mode', busy |-> handler_in_flight']
        BY <2>1 DEF Iterate
      <4> QED BY <3>1, <4>1
    <3>3. OneHandlerAtATime'
      BY <2>2, <3>1 DEF OneHandlerAtATime, TypeOK
    <3> QED BY <3>1, <3>2, <3>3 DEF GateInv
  <2> QED BY <2>4, <2>5
<1>4. CASE WakeOnHandlerChange
  <2>1. UNCHANGED <<task, handler_in_flight>> /\ pc = "loop"
        /\ Iterate(terminate_during_exclusive) /\ terminate_during_exclusive \in BOOLEAN
    BY <1>4 DEF WakeOnHandlerChange, BodyRuns, sharedVars, callVars, TypeOK
  <2> QED BY <1>b, <2>1
<1>5. CASE BodyStep
  <2>1. CASE BodyEntersExclusive
    BY <1>a, <2>1 DEF BodyEntersExclusive, callVars, loopVars
  <2>2. CASE BodyLeavesExclusive
    BY <1>a, <2>2 DEF BodyLeavesExclusive, callVars, loopVars
  <2>3. CASE BodyReturns
    BY <1>a, <2>3 DEF BodyReturns, sharedVars, callVars, taskLocals
  <2>4. CASE BodyFails
    BY <1>a, <2>4 DEF BodyFails, Finish, taskLocals, unTouched
  <2> QED BY <1>5, <2>1, <2>2, <2>3, <2>4 DEF BodyStep
<1>6. ASSUME NEW c \in Calls, HandlerStep(c)
      PROVE  GateInv'
  <2>1. CASE HandlerBegins(c)
    <3>1. task[c] \in Live /\ task' = [task EXCEPT ![c] = task'[c]]
          /\ UNCHANGED <<pc, saw, handler_in_flight>>
      BY <2>1 DEF HandlerBegins, Live, sharedVars, loopVars, TypeOK
    <3>2. \A d \in Calls : task'[d] \in Live => task[d] \in Live
      BY <3>1 DEF TypeOK
    <3> QED BY <3>1, <3>2 DEF GateInv, OneHandlerAtATime
  <2>2. CASE HandlerEntersExclusive(c)
    BY <1>a, <2>2 DEF HandlerEntersExclusive, callVars, loopVars
  <2>3. CASE HandlerLeavesExclusive(c)
    BY <1>a, <2>3 DEF HandlerLeavesExclusive, callVars, loopVars
  <2>4. CASE HandlerReturns(c)
    <3>1. task[c] \in Live /\ task' = [task EXCEPT ![c] = "done"] /\ UNCHANGED <<pc, saw>>
      BY <2>4 DEF HandlerReturns, Live
    <3>2. Quiet'
      BY <3>1 DEF GateInv, OneHandlerAtATime, TypeOK, Live
    <3> QED BY <3>2 DEF GateInv, OneHandlerAtATime
  <2>5. CASE HandlerPanics(c)
    <3>1. task[c] \in Live /\ task' = [task EXCEPT ![c] = "panicked"]
      BY <2>5 DEF HandlerPanics, Live
    <3>2. Quiet'
      BY <3>1 DEF GateInv, OneHandlerAtATime, TypeOK, Live
    <3> QED BY <3>2 DEF GateInv, OneHandlerAtATime
  <2> QED BY <1>6, <2>1, <2>2, <2>3, <2>4, <2>5 DEF HandlerStep
<1>7. ASSUME NEW c \in Calls, CallerStep(c)
      PROVE  GateInv'
  BY <1>a, <1>7 DEF CallerStep, dispatch_handler, dispatch_ping, SendResumes,
                    sharedVars, loopVars
<1>8. CASE TaskPanics
  BY <1>a, <1>8 DEF TaskPanics, sharedVars, taskLocals
<1>9. CASE terminate
  BY <1>a, <1>9 DEF terminate, callVars, loopVars
<1>10. ASSUME NEW p \in Prims, Expose(p)
       PROVE  GateInv'
  BY <1>a, <1>10 DEF Expose, sharedVars, callVars, loopVars
<1>11. CASE UNCHANGED vars
  BY <1>a, <1>11 DEF vars, sharedVars, callVars, loopVars
<1> QED BY <1>1, <1>2, <1>3, <1>4, <1>5, <1>6, <1>7, <1>8, <1>9, <1>10, <1>11
   DEF Next, Select

\* R-HANDLER-2 for any number of calls: two handler tasks of a thread are never
\* alive together, also when one of them outlives the thread.
THEOREM HandlerExclusion == Spec => []OneHandlerAtATime
<1>1. Init => GateInv
  BY DEF Init, GateInv, Quiet, OneHandlerAtATime, Live
<1>2. GateInv => OneHandlerAtATime
  BY DEF GateInv
<1> QED BY <1>1, <1>2, GateStep, TypeCorrect, PTL DEF Spec

-----------------------------------------------------------------------------
(* How a thread ends.  Every error path sets the status, breaks the owned    *)
(* primitives and sends the outcome in its own words; they agree because a   *)
(* status is final only once the task has returned, so none is set twice.    *)

EndInv == OutcomeAgreesWithStatus /\ BrokenReasonAgrees

\* EndInv is inductive: the four ways to a final status set everything at once.
LEMMA EndStep == TypeOK /\ EndInv /\ [Next]_vars => EndInv'
<1> SUFFICES ASSUME TypeOK, EndInv, [Next]_vars PROVE EndInv'
  OBVIOUS
<1> USE DEF EndInv, OutcomeAgreesWithStatus, BrokenReasonAgrees, Final
\* A step that ends nothing.
<1>a. ASSUME UNCHANGED <<status, prim, terminate_future>>,
             pc' = pc \/ (pc \notin Gone /\ pc' \notin Gone)
      PROVE  EndInv'
  BY <1>a DEF Gone
\* The final status, the outcome and the reasons are set together.
<1>b. ASSUME pc \notin Gone, NEW s \in Final, set_status(s), pc' = "stopped",
             terminate_future' = IF s = "Terminated" THEN "Ok" ELSE "Failed"
      PROVE  EndInv'
  <2>1. status' = s /\ status \notin Final
    BY <1>b DEF set_status, Gone
  <2>2. BrokenReasonAgrees'
    BY <1>b, <2>1 DEF set_status, BrokenReason, TypeOK
  <2> QED BY <1>b, <2>1, <2>2
<1>c. ASSUME pc \notin Gone, NEW s \in Final, NEW err, Finish(s, err)
      PROVE  EndInv'
  BY <1>b, <1>c DEF Finish
<1>d. ASSUME pc = "loop", set_status("Terminating"), UNCHANGED terminate_future,
             pc' \notin Gone
      PROVE  EndInv'
  BY <1>d DEF set_status, Gone
<1>e. ASSUME NEW d \in BOOLEAN, Iterate(d)
      PROVE  pc' \in {"loop", "on_terminate"}
  BY <1>e DEF Iterate
<1>1. CASE Hook
  <2>1. CASE InitFields
    BY <1>a, <1>c, <2>1 DEF InitFields, Gone
  <2>2. CASE OnEnter
    BY <1>a, <1>c, <1>e, <2>2 DEF OnEnter, Gone
  <2>3. CASE OnTerminate
    BY <1>a, <2>3 DEF OnTerminate, sharedVars, Gone
  <2>4. CASE TeardownExit
    <3>1. PICK s \in Final :
             /\ set_status(s)
             /\ terminate_future' = IF s = "Terminated" THEN "Ok" ELSE "Failed"
      BY <2>4 DEF TeardownExit
    <3> QED BY <1>b, <2>4, <3>1 DEF TeardownExit, Gone
  <2>5. CASE OnExit
    BY <1>c, <2>5 DEF OnExit, Gone
  <2> QED BY <1>1, <2>1, <2>2, <2>3, <2>4, <2>5 DEF Hook, Setup
<1>2. CASE ReceiveTerminate
  <2>1. pc' \in {"loop", "on_terminate"}
    BY <1>2, <1>e DEF ReceiveTerminate
  <2> QED BY <1>2, <1>d, <2>1 DEF ReceiveTerminate, StartTerminating, Gone
<1>3. CASE AcceptHandler
  BY <1>3, <1>a, <1>e DEF AcceptHandler, BodyRuns, Gone
<1>4. CASE WakeOnHandlerChange
  BY <1>4, <1>a, <1>e DEF WakeOnHandlerChange, BodyRuns, sharedVars, Gone, TypeOK
<1>5. CASE BodyStep
  <2>1. CASE BodyEntersExclusive
    BY <1>a, <2>1 DEF BodyEntersExclusive, loopVars
  <2>2. CASE BodyLeavesExclusive
    BY <1>a, <2>2 DEF BodyLeavesExclusive, loopVars
  <2>3. CASE BodyReturns
    BY <1>a, <2>3 DEF BodyReturns, BodyRuns, sharedVars, Gone
  <2>4. CASE BodyFails
    BY <1>c, <1>d, <2>4 DEF BodyFails, BodyRuns, StartTerminating, Gone
  <2> QED BY <1>5, <2>1, <2>2, <2>3, <2>4 DEF BodyStep
<1>6. ASSUME NEW c \in Calls, HandlerStep(c)
      PROVE  EndInv'
  BY <1>a, <1>6
     DEF HandlerStep, HandlerBegins, HandlerEntersExclusive, HandlerLeavesExclusive,
         HandlerReturns, HandlerPanics, sharedVars, loopVars
<1>7. ASSUME NEW c \in Calls, CallerStep(c)
      PROVE  EndInv'
  BY <1>a, <1>7 DEF CallerStep, dispatch_handler, dispatch_ping, SendResumes,
                    sharedVars, loopVars
<1>8. CASE TaskPanics
  BY <1>8 DEF TaskPanics, sharedVars, Gone
<1>9. CASE terminate
  BY <1>a, <1>9 DEF terminate, loopVars
<1>10. ASSUME NEW p \in Prims, Expose(p)
       PROVE  EndInv'
  <2>1. /\ UNCHANGED <<status, pc, terminate_future>>
        /\ prim' = [prim EXCEPT ![p] = "owned"]
    BY <1>10 DEF Expose, sharedVars, loopVars
  <2> QED BY <2>1 DEF TypeOK
<1>11. CASE UNCHANGED vars
  BY <1>a, <1>11 DEF vars, sharedVars, loopVars
<1> QED BY <1>1, <1>2, <1>3, <1>4, <1>5, <1>6, <1>7, <1>8, <1>9, <1>10, <1>11
   DEF Next, Select

\* What terminate() resolves to and what the status says never disagree, on any
\* of the ways a thread task ends.
THEOREM OutcomeAgreement == Spec => []OutcomeAgreesWithStatus
<1>1. Init => EndInv
  BY DEF Init, EndInv, OutcomeAgreesWithStatus, BrokenReasonAgrees, Final
<1>2. EndInv => OutcomeAgreesWithStatus
  BY DEF EndInv
<1> QED BY <1>1, <1>2, EndStep, TypeCorrect, PTL DEF Spec

\* A primitive reports OwnerGone only of an owner that terminated, and
\* OwnerCrashed only of one that crashed.
THEOREM BrokenReasonAgreement == Spec => []BrokenReasonAgrees
<1>1. Init => EndInv
  BY DEF Init, EndInv, OutcomeAgreesWithStatus, BrokenReasonAgrees, Final
<1>2. EndInv => BrokenReasonAgrees
  BY DEF EndInv
<1> QED BY <1>1, <1>2, EndStep, TypeCorrect, PTL DEF Spec

-----------------------------------------------------------------------------
(* The exclusive flag.  Its only receivers are handler tasks that wait for it *)
(* to fall, and a handler only waits while it is raised: without a receiver   *)
(* from the start there never is one.                                        *)

FlagInv == ~KeepsReceiver => ~exclusive_mode /\ \A c \in Calls : task[c] # "waiting"

\* FlagInv is inductive: no receiver, so no write is stored, so nobody waits.
LEMMA FlagStep == TypeOK /\ FlagInv /\ [Next]_vars => FlagInv'
<1> SUFFICES ASSUME TypeOK, FlagInv, [Next]_vars, ~KeepsReceiver
             PROVE  ~exclusive_mode' /\ \A c \in Calls : task'[c] # "waiting"
  BY DEF FlagInv
<1>a. ~exclusive_mode /\ ~ExclusiveReceivers
  BY DEF FlagInv, ExclusiveReceivers
<1>b. \A v \in BOOLEAN : set_exclusive(v) => ~exclusive_mode'
  BY <1>a DEF set_exclusive
<1>1. CASE UNCHANGED <<exclusive_mode, task>>
  BY <1>1 DEF FlagInv
<1>2. CASE BodyStep
  <2>1. UNCHANGED task
    BY <1>2 DEF BodyStep, BodyEntersExclusive, BodyLeavesExclusive, BodyReturns,
                BodyFails, callVars, unTouched
  <2>2. ~exclusive_mode'
    BY <1>2, <1>a, <1>b
       DEF BodyStep, BodyEntersExclusive, BodyLeavesExclusive, BodyReturns, BodyFails,
           sharedVars, unTouched
  <2> QED BY <2>1, <2>2 DEF FlagInv
<1>3. ASSUME NEW c \in Calls, HandlerStep(c)
      PROVE  ~exclusive_mode' /\ \A d \in Calls : task'[d] # "waiting"
  <2>1. ~exclusive_mode'
    BY <1>3, <1>a, <1>b
       DEF HandlerStep, HandlerBegins, HandlerEntersExclusive, HandlerLeavesExclusive,
           HandlerReturns, HandlerPanics, sharedVars
  <2>2. UNCHANGED task \/ \E s \in {"running", "done", "panicked"} :
                             task' = [task EXCEPT ![c] = s]
    BY <1>3, <1>a
       DEF HandlerStep, HandlerBegins, HandlerEntersExclusive, HandlerLeavesExclusive,
           HandlerReturns, HandlerPanics, callVars
  <2>3. \A d \in Calls : task'[d] # "waiting"
    BY <2>2 DEF FlagInv, TypeOK
  <2> QED BY <2>1, <2>3
<1>4. CASE AcceptHandler
  <2>1. UNCHANGED exclusive_mode
        /\ \/ UNCHANGED task
           \/ task' = [task EXCEPT ![Head(queue)] = "spawned"]
    BY <1>4 DEF AcceptHandler
  <2> QED BY <1>a, <2>1 DEF FlagInv, TypeOK
<1>5. CASE Hook
  BY <1>1, <1>5 DEF Hook, Setup, InitFields, OnEnter, OnTerminate, TeardownExit, OnExit,
                    unTouched, sharedVars, callVars
<1>6. CASE ReceiveTerminate \/ WakeOnHandlerChange \/ TaskPanics \/ terminate
  BY <1>1, <1>6 DEF ReceiveTerminate, WakeOnHandlerChange, TaskPanics, terminate,
                    unTouched, sharedVars, callVars
<1>7. ASSUME NEW c \in Calls, CallerStep(c)
      PROVE  UNCHANGED <<exclusive_mode, task>>
  BY <1>7 DEF CallerStep, dispatch_handler, dispatch_ping, SendResumes, sharedVars
<1>8. ASSUME NEW p \in Prims, Expose(p)
      PROVE  UNCHANGED <<exclusive_mode, task>>
  BY <1>8 DEF Expose, sharedVars, callVars
<1>9. CASE UNCHANGED vars
  BY <1>1, <1>9 DEF vars, sharedVars, callVars
<1> QED BY <1>1, <1>2, <1>3, <1>4, <1>5, <1>6, <1>7, <1>8, <1>9 DEF Next, Select

\* With the receiver dropped in ThreadState::new, as the code drops it, no
\* execution of any thread raises exclusive_mode.
THEOREM FlagNeverRaised == Spec => []ExclusiveNeedsReceiver
<1>1. Init => FlagInv
  BY DEF Init, FlagInv
<1>2. FlagInv => ExclusiveNeedsReceiver
  BY DEF FlagInv, ExclusiveNeedsReceiver
<1> QED BY <1>1, <1>2, FlagStep, TypeCorrect, PTL DEF Spec

-----------------------------------------------------------------------------
(* The handler channel.  A call goes from its dispatcher through the queue to *)
(* a handler task or to a drain; nobody else answers it on the way.          *)

CallsInv ==
    /\ NoRequestStranded
    /\ FutureFollowsTask
    /\ \A c \in Calls : call[c] \in {"idle", "sending", "queued"} =>
                            task[c] = "none" /\ future[c] = "none"
    /\ IsFiniteSet(Blocked)

\* A drain answers all that are queued.
LEMMA DrainCalls ==
    ASSUME TypeOK, CallsInv, NEW err \in Rejections, drain_handlers(err),
           UNCHANGED <<future, task>>
    PROVE  CallsInv'
<1>0. /\ queue' = <<>> /\ call' = [c \in Calls |-> IF call[c] = "queued" THEN err ELSE call[c]]
  BY DEF drain_handlers, CallsInv, NoRequestStranded
<1>1. err \notin {"idle", "sending", "queued", "Dispatched"}
  BY DEF Rejections
<1>2. Capacity \in Nat
  BY BoundAssumption
<1>3. Queued' = {} /\ Len(queue') = 0 /\ DOMAIN queue' = {}
  BY <1>0 DEF Queued
<1>4. NoRequestStranded'
  BY <1>0, <1>1, <1>2, <1>3 DEF NoRequestStranded
<1>5. Blocked' = Blocked
  BY <1>0, <1>1 DEF Blocked
<1>6. FutureFollowsTask'
  BY <1>0, <1>1 DEF CallsInv, FutureFollowsTask
<1>7. \A c \in Calls : call'[c] \in {"idle", "sending", "queued"} =>
                          task'[c] = "none" /\ future'[c] = "none"
  BY <1>0, <1>1 DEF CallsInv
<1> QED BY <1>4, <1>5, <1>6, <1>7 DEF CallsInv

\* A call that was not queued yet is refused, answered or left waiting.
LEMMA RefuseCall ==
    ASSUME TypeOK, CallsInv, NEW c \in Calls, call[c] \in {"idle", "sending"},
           NEW s \in Rejections \cup {"sending"}, call' = [call EXCEPT ![c] = s],
           UNCHANGED <<queue, future, task, pc>>
    PROVE  CallsInv'
<1>1. s \notin {"idle", "queued", "Dispatched"}
  BY DEF Rejections
<1>2. call'[c] = s /\ \A d \in Calls : d # c => call'[d] = call[d]
  BY DEF TypeOK
<1>3. NoRequestStranded'
  BY <1>1, <1>2 DEF CallsInv, NoRequestStranded, Queued
<1>4. FutureFollowsTask'
  BY <1>1, <1>2 DEF CallsInv, FutureFollowsTask
<1>5. \A d \in Calls : call'[d] \in {"idle", "sending", "queued"} =>
                          task'[d] = "none" /\ future'[d] = "none"
  BY <1>1, <1>2 DEF CallsInv
<1>6. IsFiniteSet(Blocked \cup {c})
  BY FS_AddElement DEF CallsInv
<1>7. Blocked' \subseteq Blocked \cup {c}
  BY <1>2 DEF Blocked
<1>8. IsFiniteSet(Blocked')
  BY <1>6, <1>7, FS_Subset
<1> QED BY <1>3, <1>4, <1>5, <1>8 DEF CallsInv

\* A call enters the channel, once, when there is a slot.
LEMMA EnqueueCall ==
    ASSUME TypeOK, CallsInv, NEW c \in Calls, call[c] \in {"idle", "sending"},
           Enqueue(c), Len(queue) < Capacity, pc \notin Gone,
           UNCHANGED <<future, task, pc>>
    PROVE  CallsInv'
<1>0. queue \in Seq(Calls) /\ Len(queue) \in Nat /\ Capacity \in Nat
  BY BoundAssumption DEF TypeOK
<1>1. queue' = Append(queue, c) /\ call' = [call EXCEPT ![c] = "queued"]
  BY DEF Enqueue
<1>2. call'[c] = "queued" /\ \A d \in Calls : d # c => call'[d] = call[d]
  BY <1>1 DEF TypeOK
<1>3. Queued = Waiters!Waiting(queue) /\ Queued' = Waiters!Waiting(queue')
  BY DEF Queued, Waiters!Waiting
<1>4. c \notin Queued
  BY DEF CallsInv, NoRequestStranded
<1>5. Waiters!Distinct(queue)
  BY DEF CallsInv, NoRequestStranded, Waiters!Distinct
<1>6. Queued' = Queued \cup {c} /\ Waiters!Distinct(queue')
  BY <1>0, <1>1, <1>3, <1>4, <1>5, Waiters!WaitingFacts, Waiters!AppendDistinct
<1>7. Len(queue') <= Capacity
  BY <1>0, <1>1
<1>8. NoRequestStranded'
  <2>1. Queued' = {d \in Calls : call'[d] = "queued"}
    BY <1>2, <1>6 DEF CallsInv, NoRequestStranded
  <2> QED BY <1>6, <1>7, <2>1 DEF NoRequestStranded, Waiters!Distinct
<1>9. FutureFollowsTask'
  BY <1>2 DEF CallsInv, FutureFollowsTask
<1>10. \A d \in Calls : call'[d] \in {"idle", "sending", "queued"} =>
                          task'[d] = "none" /\ future'[d] = "none"
  BY <1>2 DEF CallsInv
<1>11. Blocked' \subseteq Blocked
  BY <1>2 DEF Blocked
<1>12. IsFiniteSet(Blocked')
  BY <1>11, FS_Subset DEF CallsInv
<1> QED BY <1>8, <1>9, <1>10, <1>12 DEF CallsInv

\* The loop takes the oldest call and answers it, with or without a task.
LEMMA AcceptCall == TypeOK /\ CallsInv /\ AcceptHandler => CallsInv'
<1> SUFFICES ASSUME TypeOK, CallsInv, AcceptHandler PROVE CallsInv'
  OBVIOUS
<1>0. /\ queue \in Seq(Calls) /\ queue # <<>> /\ queue' = Tail(queue) /\ pc = "loop"
      /\ Len(queue) \in Nat /\ Capacity \in Nat
  BY BoundAssumption DEF TypeOK, AcceptHandler, BodyRuns
<1>1. PICK c \in Calls : c = Head(queue)
  BY <1>0, Waiters!WaitingFacts
<1>2. Queued = Waiters!Waiting(queue) /\ Queued' = Waiters!Waiting(queue')
  BY DEF Queued, Waiters!Waiting
<1>3. Waiters!Distinct(queue)
  BY DEF CallsInv, NoRequestStranded, Waiters!Distinct
<1>4. Queued' = Queued \ {c} /\ c \in Queued /\ Waiters!Distinct(queue')
  BY <1>0, <1>1, <1>2, <1>3, Waiters!TailDistinct
<1>5. call[c] = "queued" /\ task[c] = "none" /\ future[c] = "none"
  BY <1>4 DEF CallsInv, NoRequestStranded
<1>6. PICK s \in {"Dispatched", "TargetCrashed"} : call' = [call EXCEPT ![c] = s]
  BY <1>1 DEF AcceptHandler
<1>7. call'[c] = s /\ \A d \in Calls : d # c => call'[d] = call[d]
  BY <1>6 DEF TypeOK
<1>8. Len(queue') <= Capacity
  <2>1. Len(queue') = Len(queue) - 1 /\ Len(queue) <= Capacity
    BY <1>0 DEF CallsInv, NoRequestStranded
  <2> QED BY <1>0, <2>1
<1>9. pc' \notin Gone
  <2>1. Iterate(FALSE)
    BY DEF AcceptHandler
  <2> QED BY <2>1 DEF Iterate, Gone
<1>10. NoRequestStranded'
  <2>1. Queued' = {d \in Calls : call'[d] = "queued"}
    BY <1>4, <1>7 DEF CallsInv, NoRequestStranded
  <2> QED BY <1>4, <1>8, <1>9, <2>1 DEF NoRequestStranded, Waiters!Distinct
<1>11. /\ \A d \in Calls : d # c => task'[d] = task[d] /\ future'[d] = future[d]
       /\ \/ s = "Dispatched" /\ task'[c] = "spawned" /\ future'[c] = "pending"
          \/ s = "TargetCrashed" /\ task'[c] = "none" /\ future'[c] = "none"
  <2>1. CASE c \in known
    <3>1. /\ call' = [call EXCEPT ![c] = "Dispatched"]
          /\ future' = [future EXCEPT ![c] = "pending"]
          /\ task' = [task EXCEPT ![c] = "spawned"]
      BY <1>1, <2>1 DEF AcceptHandler
    <3>2. s = "Dispatched"
      BY <1>7, <3>1 DEF TypeOK
    <3> QED BY <3>1, <3>2 DEF TypeOK
  <2>2. CASE c \notin known
    <3>1. call' = [call EXCEPT ![c] = "TargetCrashed"] /\ UNCHANGED <<future, task>>
      BY <1>1, <2>2 DEF AcceptHandler
    <3>2. s = "TargetCrashed"
      BY <1>7, <3>1 DEF TypeOK
    <3> QED BY <1>5, <3>1, <3>2
  <2> QED BY <2>1, <2>2
<1>12. FutureFollowsTask'
  <2>1. \A d \in Calls : d # c => call'[d] = call[d] /\ task'[d] = task[d] /\ future'[d] = future[d]
    BY <1>7, <1>11
  <2> QED BY <1>7, <1>11, <2>1 DEF CallsInv, FutureFollowsTask, Live
<1>13. \A d \in Calls : call'[d] \in {"idle", "sending", "queued"} =>
                          task'[d] = "none" /\ future'[d] = "none"
  BY <1>7, <1>11 DEF CallsInv
<1>14. Blocked' \subseteq Blocked
  BY <1>7 DEF Blocked
<1>15. IsFiniteSet(Blocked')
  BY <1>14, FS_Subset DEF CallsInv
<1> QED BY <1>10, <1>12, <1>13, <1>15 DEF CallsInv

\* Only those steps, and the handler tasks themselves, touch a call.
LEMMA CallsStep == TypeOK /\ CallsInv /\ [Next]_vars => CallsInv'
<1> SUFFICES ASSUME TypeOK, CallsInv, [Next]_vars PROVE CallsInv'
  OBVIOUS
\* A step that touches no call, and is not the end of the task.
<1>a. ASSUME UNCHANGED <<queue, call, future, task>>, pc' = pc \/ pc' \notin Gone
      PROVE  CallsInv'
  BY <1>a DEF CallsInv, NoRequestStranded, FutureFollowsTask, Queued, Blocked
<1>b. \A d \in BOOLEAN : Iterate(d) => pc' \notin Gone
  BY DEF Iterate, Gone
<1>c. ASSUME NEW s, NEW err \in Rejections, Finish(s, err), UNCHANGED unTouched
      PROVE  CallsInv'
  BY <1>c, DrainCalls DEF Finish, unTouched
<1>d. {"TargetTerminated", "TargetTerminating", "TargetCrashed"} = Rejections
  BY DEF Rejections
<1>1. CASE Hook
  <2>1. CASE InitFields
    <3>1. CASE Finish("Crashed", "TargetCrashed")
      BY <1>c, <1>d, <2>1, <3>1 DEF InitFields
    <3>2. CASE pc' = "enter" /\ UNCHANGED <<status, prim, queue, call, terminate_future>>
      BY <1>a, <2>1, <3>2 DEF InitFields, unTouched, Gone
    <3> QED BY <2>1, <3>1, <3>2 DEF InitFields
  <2>2. CASE OnEnter
    <3>1. CASE /\ Finish("Crashed", "TargetCrashed")
               /\ UNCHANGED <<taskLocals, exclusive_mode, handler_in_flight>>
      BY <1>d, <2>2, <3>1, DrainCalls DEF OnEnter, Finish
    <3>2. CASE Iterate(FALSE) /\ UNCHANGED <<queue, call>>
      BY <1>a, <1>b, <2>2, <3>2 DEF OnEnter
    <3> QED BY <2>2, <3>1, <3>2 DEF OnEnter
  <2>3. CASE OnTerminate
    BY <1>a, <2>3 DEF OnTerminate, callVars, Gone
  <2>4. CASE TeardownExit
    BY <1>d, <2>4, DrainCalls DEF TeardownExit, DropReceiver, unTouched
  <2>5. CASE OnExit
    BY <1>c, <1>d, <2>5 DEF OnExit
  <2> QED BY <1>1, <2>1, <2>2, <2>3, <2>4, <2>5 DEF Hook, Setup
<1>2. CASE ReceiveTerminate
  BY <1>2, <1>d, DrainCalls DEF ReceiveTerminate, StartTerminating, unTouched
<1>3. CASE AcceptHandler
  BY <1>3, AcceptCall
<1>4. CASE WakeOnHandlerChange
  BY <1>4, <1>a, <1>b DEF WakeOnHandlerChange, callVars, TypeOK
<1>5. CASE BodyStep
  <2>1. CASE BodyEntersExclusive \/ BodyLeavesExclusive
    BY <1>a, <2>1 DEF BodyEntersExclusive, BodyLeavesExclusive, callVars, loopVars
  <2>2. CASE BodyReturns
    BY <1>a, <2>2 DEF BodyReturns, callVars, Gone
  <2>3. CASE BodyFails
    <3>1. UNCHANGED unTouched /\ \E err \in Rejections : drain_handlers(err)
      BY <1>d, <2>3 DEF BodyFails, StartTerminating, Finish
    <3> QED BY <3>1, DrainCalls DEF unTouched
  <2> QED BY <1>5, <2>1, <2>2, <2>3 DEF BodyStep
<1>6. ASSUME NEW c \in Calls, HandlerStep(c)
      PROVE  CallsInv'
  <2>1. CASE HandlerEntersExclusive(c) \/ HandlerLeavesExclusive(c)
    BY <1>a, <2>1 DEF HandlerEntersExclusive, HandlerLeavesExclusive, callVars, loopVars
  <2>2. CASE HandlerBegins(c) \/ HandlerReturns(c) \/ HandlerPanics(c)
    <3>1. /\ task[c] \in Live /\ UNCHANGED <<queue, call, pc>>
          /\ \A d \in Calls : d # c => task'[d] = task[d] /\ future'[d] = future[d]
          /\ \/ task'[c] \in Live /\ future'[c] = future[c]
             \/ task'[c] \notin Live \cup {"none"} /\ future'[c] \notin {"pending", "none"}
      <4>1. CASE HandlerBegins(c)
        BY <4>1 DEF HandlerBegins, TypeOK, Live, loopVars
      <4>2. CASE HandlerReturns(c)
        BY <4>2 DEF HandlerReturns, TypeOK, Live
      <4>3. CASE HandlerPanics(c)
        BY <4>3 DEF HandlerPanics, TypeOK, Live, loopVars
      <4> QED BY <2>2, <4>1, <4>2, <4>3
    <3>2. call[c] \notin {"idle", "sending", "queued"}
      BY <3>1 DEF CallsInv, Live
    <3>3. FutureFollowsTask'
      BY <3>1 DEF CallsInv, FutureFollowsTask
    <3> QED BY <3>1, <3>2, <3>3 DEF CallsInv, NoRequestStranded, Queued, Blocked
  <2> QED BY <1>6, <2>1, <2>2 DEF HandlerStep
<1>7. ASSUME NEW c \in Calls, CallerStep(c)
      PROVE  CallsInv'
  <2>1. ASSUME NEW k \in BOOLEAN, dispatch_handler(c, k) PROVE CallsInv'
    <3>0. call[c] = "idle" /\ UNCHANGED <<future, task, pc>>
      BY <2>1 DEF dispatch_handler, loopVars
    <3>1. ASSUME NEW s \in Rejections \cup {"sending"}, call' = [call EXCEPT ![c] = s],
                 UNCHANGED queue
          PROVE  CallsInv'
      BY <3>0, <3>1, RefuseCall
    <3>2. CASE pc \notin Gone /\ FreeSlot /\ Enqueue(c)
      <4>1. Cardinality(Blocked) \in Nat /\ Capacity \in Nat /\ Len(queue) \in Nat
        BY FS_CardinalityType, BoundAssumption DEF CallsInv, TypeOK
      <4>2. Len(queue) < Capacity
        BY <3>2, <4>1 DEF FreeSlot
      <4> QED BY <3>0, <3>2, <4>2, EnqueueCall
    <3>3. RejectionFor(status) \in Rejections
      BY DEF RejectionFor, Rejections
    <3> QED BY <1>d, <2>1, <3>1, <3>2, <3>3 DEF dispatch_handler
  <2>2. CASE dispatch_ping(c)
    <3>1. CASE status # "Running"
      BY <2>2, <3>1, RefuseCall DEF dispatch_ping, RejectionFor, Rejections, loopVars
    <3>2. CASE status = "Running"
      <4>1. /\ call[c] = "idle" /\ UNCHANGED <<queue, task, pc>>
            /\ call' = [call EXCEPT ![c] = "Dispatched"] /\ future' = [future EXCEPT ![c] = "Ok"]
        BY <2>2, <3>2 DEF dispatch_ping, loopVars
      <4>2. /\ call'[c] = "Dispatched" /\ future'[c] = "Ok" /\ task'[c] = "none"
            /\ \A d \in Calls : d # c => call'[d] = call[d] /\ future'[d] = future[d]
        BY <4>1 DEF TypeOK, CallsInv
      <4>3. NoRequestStranded'
        BY <4>1, <4>2 DEF CallsInv, NoRequestStranded, Queued
      <4>4. FutureFollowsTask'
        BY <4>1, <4>2 DEF CallsInv, FutureFollowsTask, Live
      <4>5. Blocked' = Blocked
        BY <4>1, <4>2 DEF Blocked
      <4> QED BY <4>1, <4>2, <4>3, <4>4, <4>5 DEF CallsInv
    <3> QED BY <3>1, <3>2
  <2>3. CASE SendResumes(c)
    <3>1. call[c] = "sending" /\ UNCHANGED <<future, task, pc>>
      BY <2>3 DEF SendResumes, loopVars
    <3>2. CASE pc \notin Gone /\ Len(queue) < Capacity /\ Enqueue(c)
      BY <3>1, <3>2, EnqueueCall
    <3>3. CASE call' = [call EXCEPT ![c] = "TargetCrashed"] /\ UNCHANGED queue
      BY <1>d, <3>1, <3>3, RefuseCall
    <3> QED BY <2>3, <3>2, <3>3 DEF SendResumes
  <2> QED BY <1>7, <2>1, <2>2, <2>3 DEF CallerStep
<1>8. CASE TaskPanics
  BY <1>8, <1>d, DrainCalls DEF TaskPanics, DropReceiver
<1>9. CASE terminate
  BY <1>a, <1>9 DEF terminate, callVars, loopVars
<1>10. ASSUME NEW p \in Prims, Expose(p)
       PROVE  CallsInv'
  BY <1>a, <1>10 DEF Expose, callVars, loopVars
<1>11. CASE UNCHANGED vars
  BY <1>a, <1>11 DEF vars, callVars, loopVars
<1> QED BY <1>1, <1>2, <1>3, <1>4, <1>5, <1>6, <1>7, <1>8, <1>9, <1>10, <1>11
   DEF Next, Select

\* Nobody has called yet.
LEMMA CallsInit == Init => CallsInv
<1> SUFFICES ASSUME Init PROVE CallsInv
  OBVIOUS
<1>1. /\ queue = <<>> /\ call = [c \in Calls |-> "idle"] /\ pc = "init"
      /\ future = [c \in Calls |-> "none"] /\ task = [c \in Calls |-> "none"]
  BY DEF Init
<1>2. Queued = {} /\ Len(queue) = 0 /\ DOMAIN queue = {} /\ Blocked = {}
  BY <1>1 DEF Queued, Blocked
<1>3. Capacity \in Nat
  BY BoundAssumption
<1>4. NoRequestStranded
  BY <1>1, <1>2, <1>3 DEF NoRequestStranded
<1>5. FutureFollowsTask
  BY <1>1 DEF FutureFollowsTask, Live
<1>6. IsFiniteSet(Blocked)
  BY <1>2, FS_EmptySet
<1> QED BY <1>1, <1>4, <1>5, <1>6 DEF CallsInv

\* No drain, and no end of the task, leaves a dispatcher without a reply, for
\* any number of calls and any capacity of the channel.
THEOREM RequestsAnswered == Spec => []NoRequestStranded
<1>1. CallsInv => NoRequestStranded
  BY DEF CallsInv
<1> QED BY <1>1, CallsInit, CallsStep, TypeCorrect, PTL DEF Spec

\* An execution future is pending exactly while its handler task is alive.
THEOREM FuturesFollowTasks == Spec => []FutureFollowsTask
<1>1. CallsInv => FutureFollowsTask
  BY DEF CallsInv
<1> QED BY <1>1, CallsInit, CallsStep, TypeCorrect, PTL DEF Spec

-----------------------------------------------------------------------------
(* A terminate that is deferred.                                             *)

DeferInv ==
    /\ pc \in {"init", "enter"} => status = "Running" /\ ~terminate_during_exclusive
    /\ DeferredMeansTerminating

\* DeferInv is inductive: the loop is left with every status but Running, and a
\* deferred terminate has set the status before.
LEMMA DeferStep == TypeOK /\ DeferInv /\ [Next]_vars => DeferInv'
<1> SUFFICES ASSUME TypeOK, DeferInv, [Next]_vars PROVE DeferInv'
  OBVIOUS
<1> USE DEF DeferInv, DeferredMeansTerminating
\* A step that leaves the loop, or stays where it is.
<1>a. ASSUME UNCHANGED <<status, terminate_during_exclusive>>,
             pc' = pc \/ pc' \notin {"init", "enter", "loop"}
      PROVE  DeferInv'
  BY <1>a
\* An iteration.
<1>b. ASSUME UNCHANGED status, NEW d \in BOOLEAN, Iterate(d),
             d => status # "Running", ~d => status = "Running"
      PROVE  DeferInv'
  BY <1>b DEF Iterate
\* The status leaves Running with the loop.
<1>c. ASSUME NEW s \in Statuses \ {"Running"}, status' = s,
             pc' \notin {"init", "enter", "loop"}
      PROVE  DeferInv'
  BY <1>c
<1>d. ASSUME NEW s \in Final, NEW err, Finish(s, err) PROVE DeferInv'
  BY <1>c, <1>d DEF Finish, set_status, Final, Statuses
<1>1. CASE Hook
  <2>1. CASE InitFields
    BY <1>d, <2>1 DEF InitFields, taskLocals, Final
  <2>2. CASE OnEnter
    BY <1>b, <1>d, <2>2 DEF OnEnter, Final
  <2>3. CASE OnTerminate
    BY <1>a, <2>3 DEF OnTerminate, sharedVars, taskLocals
  <2>4. CASE TeardownExit
    <3>1. PICK s \in Final : set_status(s)
      BY <2>4 DEF TeardownExit, Final
    <3> QED BY <1>c, <2>4, <3>1 DEF TeardownExit, set_status, Final, Statuses
  <2>5. CASE OnExit
    BY <1>d, <2>5 DEF OnExit, Final
  <2> QED BY <1>1, <2>1, <2>2, <2>3, <2>4, <2>5 DEF Hook, Setup
<1>2. CASE ReceiveTerminate
  <2>1. status' = "Terminating"
    BY <1>2 DEF ReceiveTerminate, StartTerminating, set_status
  <2>2. CASE saw.exclusive
    BY <1>2, <2>1, <2>2 DEF ReceiveTerminate, Iterate
  <2>3. CASE ~saw.exclusive
    BY <1>2, <1>c, <2>1, <2>3 DEF ReceiveTerminate, Statuses
  <2> QED BY <2>2, <2>3
<1>3. CASE AcceptHandler
  BY <1>3, <1>b DEF AcceptHandler, BodyRuns
<1>4. CASE WakeOnHandlerChange
  BY <1>4, <1>b DEF WakeOnHandlerChange, BodyRuns, sharedVars, TypeOK
<1>5. CASE BodyStep
  <2>1. CASE BodyEntersExclusive \/ BodyLeavesExclusive
    BY <1>a, <2>1 DEF BodyEntersExclusive, BodyLeavesExclusive, loopVars
  <2>2. CASE BodyReturns
    BY <1>a, <2>2 DEF BodyReturns, sharedVars, taskLocals
  <2>3. CASE BodyFails
    BY <1>c, <1>d, <2>3 DEF BodyFails, StartTerminating, set_status, Final, Statuses
  <2> QED BY <1>5, <2>1, <2>2, <2>3 DEF BodyStep
<1>6. ASSUME NEW c \in Calls, HandlerStep(c) \/ CallerStep(c)
      PROVE  DeferInv'
  BY <1>a, <1>6
     DEF HandlerStep, HandlerBegins, HandlerEntersExclusive, HandlerLeavesExclusive,
         HandlerReturns, HandlerPanics, CallerStep, dispatch_handler, dispatch_ping,
         SendResumes, sharedVars, loopVars
<1>7. CASE TaskPanics
  BY <1>7, <1>a DEF TaskPanics, sharedVars, taskLocals
<1>8. CASE terminate
  BY <1>8, <1>a DEF terminate, loopVars
<1>9. ASSUME NEW p \in Prims, Expose(p)
      PROVE  DeferInv'
  BY <1>9, <1>a DEF Expose, sharedVars, loopVars
<1>10. CASE UNCHANGED vars
  BY <1>10, <1>a DEF vars, sharedVars, loopVars
<1> QED BY <1>1, <1>2, <1>3, <1>4, <1>5, <1>6, <1>7, <1>8, <1>9, <1>10 DEF Next, Select

\* R-EXCL-3: a terminate that waits for an #exclusive block has turned the
\* status already, and the loop accepts requests only while the status lets them
\* be sent.
THEOREM DeferredTerminates == Spec => []DeferredMeansTerminating
<1>1. Init => DeferInv
  BY DEF Init, DeferInv, DeferredMeansTerminating
<1>2. DeferInv => DeferredMeansTerminating
  BY DEF DeferInv
<1> QED BY <1>1, <1>2, DeferStep, TypeCorrect, PTL DEF Spec

-----------------------------------------------------------------------------
(* The gate is released.  A panic would take the handler away with the gate   *)
(* closed: the run ThreadLoopGate shows it, so it is excluded here.          *)

HeldInv ==
    /\ pc \in {"init", "enter"} => ~handler_in_flight
    /\ GateHeldByLiveHandler

\* HeldInv is inductive: a handler that ends in the loop has opened the gate.
LEMMA HeldStep == ~MayPanic /\ TypeOK /\ HeldInv /\ [Next]_vars => HeldInv'
<1> SUFFICES ASSUME ~MayPanic, TypeOK, HeldInv, [Next]_vars PROVE HeldInv'
  OBVIOUS
<1> USE DEF HeldInv, GateHeldByLiveHandler
<1>a. ASSUME UNCHANGED <<task, handler_in_flight>>,
             pc' = pc \/ pc' \notin {"init", "enter", "loop"}
      PROVE  HeldInv'
  BY <1>a
<1>b. ASSUME UNCHANGED <<task, handler_in_flight>>, NEW d, Iterate(d), pc \in {"enter", "loop"}
      PROVE  HeldInv'
  BY <1>b DEF Iterate
<1>1. CASE Hook
  <2>1. CASE InitFields
    BY <2>1 DEF InitFields, Finish, unTouched
  <2>2. CASE OnEnter
    BY <1>a, <1>b, <2>2 DEF OnEnter, Finish
  <2>3. CASE OnTerminate \/ TeardownExit \/ OnExit
    BY <1>a, <2>3 DEF OnTerminate, TeardownExit, OnExit, Finish, sharedVars, callVars, unTouched
  <2> QED BY <1>1, <2>1, <2>2, <2>3 DEF Hook, Setup
<1>2. CASE ReceiveTerminate
  BY <1>2, <1>a, <1>b DEF ReceiveTerminate, unTouched
<1>3. CASE AcceptHandler
  <2>1. pc = "loop" /\ queue # <<>> /\ Iterate(FALSE)
    BY <1>3 DEF AcceptHandler, BodyRuns
  <2>2. PICK c \in Calls : c = Head(queue)
    BY <2>1 DEF TypeOK
  <2>3. CASE c \in known
    <3>1. task' = [task EXCEPT ![c] = "spawned"]
      BY <1>3, <2>2, <2>3 DEF AcceptHandler
    <3>2. task'[c] \in Live
      BY <3>1 DEF TypeOK, Live
    <3> QED BY <2>1, <3>2 DEF Iterate
  <2>4. CASE c \notin known
    BY <1>3, <1>b, <2>1, <2>2, <2>4 DEF AcceptHandler
  <2> QED BY <2>3, <2>4
<1>4. CASE WakeOnHandlerChange
  BY <1>4, <1>b DEF WakeOnHandlerChange, BodyRuns, sharedVars, callVars
<1>5. CASE BodyStep
  <2>1. CASE BodyEntersExclusive \/ BodyLeavesExclusive
    BY <1>a, <2>1 DEF BodyEntersExclusive, BodyLeavesExclusive, callVars, loopVars
  <2>2. CASE BodyReturns \/ BodyFails
    BY <1>a, <2>2 DEF BodyReturns, BodyFails, Finish, sharedVars, callVars, unTouched
  <2> QED BY <1>5, <2>1, <2>2 DEF BodyStep
<1>6. ASSUME NEW c \in Calls, HandlerStep(c)
      PROVE  HeldInv'
  <2>1. CASE HandlerEntersExclusive(c) \/ HandlerLeavesExclusive(c)
    BY <1>a, <2>1 DEF HandlerEntersExclusive, HandlerLeavesExclusive, callVars, loopVars
  <2>2. CASE HandlerBegins(c)
    <3>1. task'[c] \in Live /\ UNCHANGED <<pc, handler_in_flight>>
      BY <2>2 DEF HandlerBegins, TypeOK, Live, sharedVars, loopVars
    <3> QED BY <3>1
  <2>3. CASE HandlerReturns(c)
    BY <2>3 DEF HandlerReturns, set_handler_in_flight, Gone
  <2>4. ~HandlerPanics(c)
    BY DEF HandlerPanics
  <2> QED BY <1>6, <2>1, <2>2, <2>3, <2>4 DEF HandlerStep
<1>7. ASSUME NEW c \in Calls, CallerStep(c)
      PROVE  HeldInv'
  BY <1>a, <1>7 DEF CallerStep, dispatch_handler, dispatch_ping, SendResumes, sharedVars, loopVars
<1>8. CASE TaskPanics \/ terminate
  BY <1>8, <1>a DEF TaskPanics, terminate, callVars, loopVars
<1>9. ASSUME NEW p \in Prims, Expose(p)
      PROVE  HeldInv'
  BY <1>9, <1>a DEF Expose, sharedVars, callVars, loopVars
<1>10. CASE UNCHANGED vars
  BY <1>10, <1>a DEF vars, sharedVars, callVars, loopVars
<1> QED BY <1>1, <1>2, <1>3, <1>4, <1>5, <1>6, <1>7, <1>8, <1>9, <1>10 DEF Next, Select

\* While no operation panics, a closed gate is held by a handler that is alive
\* and will open it, for any number of calls.
THEOREM GateReleased == ~MayPanic => (Spec => []GateHeldByLiveHandler)
<1> SUFFICES ASSUME ~MayPanic PROVE Spec => []GateHeldByLiveHandler
  OBVIOUS
<1>1. Init => HeldInv
  BY DEF Init, HeldInv, GateHeldByLiveHandler
<1>2. HeldInv => GateHeldByLiveHandler
  BY DEF HeldInv
<1>3. TypeOK /\ HeldInv /\ [Next]_vars => HeldInv'
  BY HeldStep
<1> QED BY <1>1, <1>2, <1>3, TypeCorrect, PTL DEF Spec

-----------------------------------------------------------------------------
(* The thread implements ThreadLifecycle.  All that its status, the outcome of *)
(* terminate() and the answers of calls do is allowed there; what makes each  *)
(* answer explained is where the loop is when it gives it.                   *)

LifeInv == TypeOK /\ CallsInv /\ EndInv /\ DeferInv

\* A dispatcher that has no answer yet.
Open == {"idle", "sending", "queued"}

\* AnswersGiven in terms of the calls themselves.
LEMMA AnswersFacts ==
    ASSUME TypeOK, TypeOK', known \subseteq known',
           \A c \in Calls : \/ call'[c] = call[c]
                            \/ call[c] \in Open /\ call'[c] \in Open
                            \/ call[c] \in Open /\ Lifecycle!Explained(c, call'[c])
    PROVE  Lifecycle!AnswersGiven
<1> DEFINE answer == [c \in Calls |-> IF call[c] \in {"idle", "sending", "queued"}
                                      THEN "none" ELSE call[c]]
           later  == [c \in Calls |-> IF call'[c] \in {"idle", "sending", "queued"}
                                      THEN "none" ELSE call'[c]]
<1>1. known' \subseteq Calls
  BY DEF TypeOK
<1>2. ASSUME NEW c \in Calls
      PROVE  \/ later[c] = answer[c]
             \/ answer[c] = "none" /\ Lifecycle!Explained(c, later[c])
  <2>1. CASE call'[c] = call[c] \/ (call[c] \in Open /\ call'[c] \in Open)
    BY <2>1 DEF Open
  <2>2. CASE call[c] \in Open /\ call'[c] \notin Open /\ Lifecycle!Explained(c, call'[c])
    <3>1. answer[c] = "none" /\ later[c] = call'[c]
      BY <2>2 DEF Open
    <3> QED BY <2>2, <3>1
  <2> QED BY <2>1, <2>2
<1>3. DOMAIN later = Calls
  OBVIOUS
<1> QED BY <1>1, <1>2, <1>3 DEF Lifecycle!AnswersGiven

\* A drain gives the one answer that it gives to all, if it is explained.
LEMMA DrainAnswers ==
    ASSUME TypeOK, TypeOK', NoRequestStranded, NEW err \in Rejections,
           drain_handlers(err), UNCHANGED known,
           \A c \in Calls : Lifecycle!Explained(c, err)
    PROVE  Lifecycle!AnswersGiven
<1>1. ASSUME NEW c \in Calls
      PROVE  call'[c] = call[c] \/ (call[c] \in Open /\ call'[c] = err)
  <2>1. call'[c] = IF call[c] = "queued" THEN err ELSE call[c]
    BY DEF drain_handlers, NoRequestStranded
  <2> QED BY <2>1 DEF Open
<1>2. ASSUME NEW c \in Calls
      PROVE  call'[c] = call[c] \/ (call[c] \in Open /\ Lifecycle!Explained(c, call'[c]))
  <2>1. CASE call'[c] = err
    BY <1>1, <2>1
  <2>2. CASE call'[c] # err
    BY <1>1, <2>2
  <2> QED BY <2>1, <2>2
<1> QED BY <1>2, AnswersFacts

\* A step that answers nobody.
LEMMA NoAnswers ==
    ASSUME TypeOK, TypeOK', UNCHANGED <<call, known>>
    PROVE  Lifecycle!AnswersGiven
BY AnswersFacts

\* Every step of the thread is one that the lifecycle allows.
LEMMA LifeStep == LifeInv /\ LifeInv' /\ [Next]_vars => Lifecycle!Next
<1> SUFFICES ASSUME LifeInv, LifeInv', [Next]_vars PROVE Lifecycle!Next
  OBVIOUS
<1>0. /\ TypeOK /\ TypeOK' /\ NoRequestStranded
      /\ pc = "stopped" <=> status \in Final
      /\ terminate_future = "Ok" <=> status = "Terminated"
      /\ terminate_future = "Failed" <=> status = "Crashed"
      /\ terminate_future = "dropped" => pc = "panicked"
      /\ pc = "loop" /\ ~terminate_during_exclusive => status = "Running"
  BY DEF LifeInv, CallsInv, EndInv, OutcomeAgreesWithStatus, DeferInv, DeferredMeansTerminating
\* Answers only.
<1>a. ASSUME Lifecycle!AnswersGiven, UNCHANGED <<status, terminate_future>>,
             pc' = pc \/ (pc \notin Gone /\ pc' \notin Gone)
      PROVE  Lifecycle!Next
  BY <1>a DEF Lifecycle!Next, Lifecycle!Serve
<1>b. ASSUME UNCHANGED <<call, known, status, terminate_future>>,
             pc' = pc \/ (pc \notin Gone /\ pc' \notin Gone)
      PROVE  Lifecycle!Next
  BY <1>0, <1>a, <1>b, NoAnswers
\* The end, with the answers it gives to the calls in the channel.
<1>c. ASSUME pc \notin Gone, NEW s \in Final, set_status(s), pc' = "stopped",
             terminate_future' = IF s = "Terminated" THEN "Ok" ELSE "Failed",
             NEW err \in Rejections, drain_handlers(err), UNCHANGED known,
             err = "TargetCrashed" \/ (err = "TargetTerminated" /\ s = "Terminated")
      PROVE  Lifecycle!Next
  <2>1. status \in {"Running", "Terminating"} /\ status' = s
    BY <1>0, <1>c DEF set_status, Gone, TypeOK, Statuses, Final
  <2>2. \A c \in Calls : Lifecycle!Explained(c, err)
    BY <1>c, <2>1 DEF Lifecycle!Explained, Gone
  <2>3. Lifecycle!AnswersGiven
    BY <1>0, <1>c, <2>2, DrainAnswers
  <2>4. CASE s = "Terminated"
    BY <1>c, <2>1, <2>3, <2>4 DEF Lifecycle!Next, Lifecycle!End, Gone
  <2>5. CASE s = "Crashed"
    BY <1>c, <2>1, <2>3, <2>5 DEF Lifecycle!Next, Lifecycle!End, Gone
  <2> QED BY <2>4, <2>5 DEF Final
<1>d. ASSUME pc \notin Gone, UNCHANGED known,
             \/ Finish("Crashed", "TargetCrashed")
             \/ Finish("Terminated", "TargetTerminated")
      PROVE  Lifecycle!Next
  BY <1>c, <1>d DEF Finish, Final, Rejections
\* The teardown begins.
<1>e. ASSUME pc = "loop", StartTerminating, UNCHANGED <<known, terminate_future>>, pc' \notin Gone
      PROVE  Lifecycle!Next
  <2>1. status' = "Terminating" /\ status \in {"Running", "Terminating"} /\ pc \notin Gone
    BY <1>0, <1>e DEF StartTerminating, set_status, TypeOK, Statuses, Final, Gone
  <2>2. \A c \in Calls : Lifecycle!Explained(c, "TargetTerminating")
    BY <2>1 DEF Lifecycle!Explained
  <2>3. Lifecycle!AnswersGiven
    BY <1>0, <1>e, <2>2, DrainAnswers DEF StartTerminating, Rejections
  <2>4. CASE status = "Running"
    BY <1>e, <2>1, <2>3, <2>4 DEF Lifecycle!Next, Lifecycle!BeginTerminating
  <2>5. CASE status = "Terminating"
    BY <1>a, <1>e, <2>1, <2>3, <2>5
  <2> QED BY <2>1, <2>4, <2>5
<1>f. \A d \in BOOLEAN : Iterate(d) => pc' \notin Gone
  BY DEF Iterate, Gone
<1>1. CASE Hook
  <2>1. CASE InitFields
    BY <1>b, <1>d, <2>1 DEF InitFields, unTouched, Gone
  <2>2. CASE OnEnter
    BY <1>b, <1>d, <1>f, <2>2 DEF OnEnter, Gone
  <2>3. CASE OnTerminate
    BY <1>b, <2>3 DEF OnTerminate, sharedVars, callVars, Gone
  <2>4. CASE TeardownExit
    <3>1. PICK s \in Final :
             /\ set_status(s)
             /\ terminate_future' = IF s = "Terminated" THEN "Ok" ELSE "Failed"
      BY <2>4 DEF TeardownExit, Final
    <3> QED BY <1>c, <2>4, <3>1 DEF TeardownExit, DropReceiver, unTouched, Gone, Rejections
  <2>5. CASE OnExit
    BY <1>d, <2>5 DEF OnExit, unTouched, Gone
  <2> QED BY <1>1, <2>1, <2>2, <2>3, <2>4, <2>5 DEF Hook, Setup
<1>2. CASE ReceiveTerminate
  <2>1. pc' \notin Gone
    BY <1>2, <1>f DEF ReceiveTerminate, Gone
  <2> QED BY <1>2, <1>e, <2>1 DEF ReceiveTerminate, unTouched
<1>3. CASE AcceptHandler
  <2>1. /\ pc = "loop" /\ queue # <<>> /\ Iterate(FALSE) /\ status = "Running"
        /\ UNCHANGED <<status, known, terminate_future>>
    BY <1>0, <1>3 DEF AcceptHandler, BodyRuns
  <2>2. PICK c \in Calls : c = Head(queue)
    BY <1>0, <2>1, Waiters!WaitingFacts DEF TypeOK
  <2>3. call[c] = "queued"
    <3>1. c = queue[1] /\ 1 \in DOMAIN queue
      BY <1>0, <2>1, <2>2 DEF TypeOK
    <3> QED BY <1>0, <3>1 DEF NoRequestStranded, Queued
  <2>4. /\ Lifecycle!Explained(c, call'[c])
        /\ \A d \in Calls : d # c => call'[d] = call[d]
    <3>1. CASE c \in known
      <4>1. call' = [call EXCEPT ![c] = "Dispatched"]
        BY <1>3, <2>2, <3>1 DEF AcceptHandler
      <4>2. call'[c] = "Dispatched" /\ status' = "Running"
        BY <1>0, <2>1, <4>1 DEF TypeOK
      <4> QED BY <4>1, <4>2 DEF Lifecycle!Explained
    <3>2. CASE c \notin known
      <4>1. call' = [call EXCEPT ![c] = "TargetCrashed"]
        BY <1>3, <2>2, <3>2 DEF AcceptHandler
      <4>2. call'[c] = "TargetCrashed" /\ c \notin known' /\ status' = "Running"
        BY <1>0, <2>1, <3>2, <4>1 DEF TypeOK
      <4> QED BY <4>1, <4>2 DEF Lifecycle!Explained
    <3> QED BY <3>1, <3>2
  <2>5. Lifecycle!AnswersGiven
    BY <1>0, <2>1, <2>3, <2>4, AnswersFacts DEF Open
  <2> QED BY <1>a, <1>f, <2>1, <2>5 DEF Gone
<1>4. CASE WakeOnHandlerChange
  BY <1>0, <1>4, <1>b, <1>f DEF WakeOnHandlerChange, BodyRuns, sharedVars, callVars, Gone, TypeOK
<1>5. CASE BodyStep
  <2>1. CASE BodyEntersExclusive \/ BodyLeavesExclusive
    BY <1>b, <2>1 DEF BodyEntersExclusive, BodyLeavesExclusive, callVars, loopVars
  <2>2. CASE BodyReturns
    BY <1>b, <2>2 DEF BodyReturns, BodyRuns, sharedVars, callVars, Gone
  <2>3. CASE BodyFails
    BY <1>d, <1>e, <2>3 DEF BodyFails, BodyRuns, unTouched, Gone
  <2> QED BY <1>5, <2>1, <2>2, <2>3 DEF BodyStep
<1>6. ASSUME NEW c \in Calls, HandlerStep(c)
      PROVE  Lifecycle!Next
  BY <1>b, <1>6
     DEF HandlerStep, HandlerBegins, HandlerEntersExclusive, HandlerLeavesExclusive,
         HandlerReturns, HandlerPanics, sharedVars, callVars, loopVars
<1>7. ASSUME NEW c \in Calls, CallerStep(c)
      PROVE  Lifecycle!Next
  <2>0. /\ UNCHANGED <<status, pc, terminate_future>> /\ known \subseteq known'
        /\ call[c] \in {"idle", "sending"}
    BY <1>7 DEF CallerStep, dispatch_handler, dispatch_ping, SendResumes, sharedVars, loopVars
  <2>1. PICK s : call' = [call EXCEPT ![c] = s] /\ (s \in Open \/ Lifecycle!Explained(c, s))
    <3>1. status # "Running" => Lifecycle!Explained(c, RejectionFor(status))
      <4>1. status = "Crashed" => pc' \in Gone
        BY <1>0, <2>0 DEF Final, Gone
      <4>2. status \in Statuses /\ status' = status
        BY <1>0, <2>0 DEF TypeOK
      <4> QED BY <4>1, <4>2 DEF Lifecycle!Explained, RejectionFor, Statuses
    <3>2. pc \in Gone => Lifecycle!Explained(c, "TargetCrashed")
      BY <2>0 DEF Lifecycle!Explained
    <3>3. status = "Running" => Lifecycle!Explained(c, "Dispatched")
      BY <2>0 DEF Lifecycle!Explained
    <3> QED BY <1>7, <3>1, <3>2, <3>3
         DEF CallerStep, dispatch_handler, dispatch_ping, SendResumes, Enqueue, Open
  <2>2. call'[c] = s /\ \A d \in Calls : d # c => call'[d] = call[d]
    BY <1>0, <2>1 DEF TypeOK
  <2>3. Lifecycle!AnswersGiven
    BY <1>0, <2>0, <2>1, <2>2, AnswersFacts DEF Open
  <2> QED BY <1>a, <2>0, <2>3
<1>8. CASE TaskPanics
  <2>1. /\ pc \notin Gone /\ pc' \in Gone /\ drain_handlers("TargetCrashed")
        /\ UNCHANGED <<status, known>>
        /\ terminate_future' \in {"dropped", "pending"}
        /\ terminate_future' = "pending" => pc \in {"init", "enter"}
    BY <1>8 DEF TaskPanics, DropReceiver, HandleBound, sharedVars, Gone
  <2>2. terminate_future = "pending"
    BY <1>0, <2>1 DEF TypeOK, Final, Gone
  <2>3. \A c \in Calls : Lifecycle!Explained(c, "TargetCrashed")
    BY <2>1 DEF Lifecycle!Explained
  <2>4. Lifecycle!AnswersGiven
    BY <1>0, <2>1, <2>3, DrainAnswers DEF Rejections
  <2> QED BY <2>1, <2>2, <2>4 DEF Lifecycle!Next, Lifecycle!Unwind
<1>9. CASE terminate
  BY <1>9, <1>b DEF terminate, callVars, loopVars
<1>10. ASSUME NEW p \in Prims, Expose(p)
       PROVE  Lifecycle!Next
  BY <1>10, <1>b DEF Expose, sharedVars, callVars, loopVars
<1>11. CASE UNCHANGED vars
  BY <1>11, <1>b DEF vars, sharedVars, callVars, loopVars
<1> QED BY <1>1, <1>2, <1>3, <1>4, <1>5, <1>6, <1>7, <1>8, <1>9, <1>10, <1>11
   DEF Next, Select

\* A new thread is a new one there.
LEMMA LifeInit == Init => LifeInv /\ Lifecycle!Init
<1> SUFFICES ASSUME Init PROVE LifeInv /\ Lifecycle!Init
  OBVIOUS
<1>1. EndInv /\ DeferInv
  BY DEF Init, EndInv, OutcomeAgreesWithStatus, BrokenReasonAgrees, Final, DeferInv,
         DeferredMeansTerminating
<1>2. Lifecycle!Init
  BY DEF Init, Lifecycle!Init, Gone
<1> QED BY <1>1, <1>2, TypeInit, CallsInit DEF LifeInv

\* A thread behaves as ThreadLifecycle promises, for any number of calls and
\* primitives: whatever its hooks, handlers and body do, its status only moves
\* forward, terminate() has one outcome, which the status explains, and so are
\* the answers that calls get, once each.
THEOREM LifecycleKept == Spec => ImplementsLifecycle
<1>1. LifeInv /\ [Next]_vars => LifeInv'
  BY TypeStep, CallsStep, EndStep, DeferStep DEF LifeInv
<1>2. LifeInv /\ LifeInv' /\ [Next]_vars => [Lifecycle!Next]_(Lifecycle!vars)
  BY LifeStep
<1> QED BY <1>1, <1>2, LifeInit, PTL DEF Spec, ImplementsLifecycle, Lifecycle!Spec
=============================================================================
