------------------------------- MODULE Spawn -------------------------------
(* Threads as the interpreter sees them: spawning, the life of a body from  *)
(* setup to __on_exit__, handlers, and who runs when.  The event loop's own *)
(* order of events is ThreadLoop's; here it is one that takes a request     *)
(* whenever the body may be suspended.                                      *)
EXTENDS Exec

(* ------------------------------- spawning ------------------------------- *)
NewThread(t) ==
    [status |-> "Running", ready |-> FALSE, gone |-> FALSE,
     busy |-> FALSE, queue |-> <<>>, fields |-> EmptyScope, owned |-> {},
     mutable |-> IF t = <<>> THEN {}
                 ELSE {f.x : f \in {g \in SeqRange(t[1].fields) : g.vis = "expose_mutable"}}]

\* The child gets a fresh environment and the functions of its parent; with a
\* template, its functions and an object for `self`, to be filled by its task.
ExecSpawn ==
    /\ Kind = "apply" /\ Node_.k = "Spawn"
    /\ LET t == Named(program.threads, Node_.x)
           th == Len(threads) + 1
           obj == IF t = <<>> THEN 0 ELSE Len(heap) + 1
           slots == IF t = <<>> THEN <<>> ELSE SlotsOf(t[1].fields)
           funcs == IF t = <<>> THEN I.funcs ELSE I.funcs \o t[1].funcs
           thread == [at |-> "thread", t |-> t, body |-> Node_.blocks[1],
                      args |-> Mode[3], stage |-> "setup"]
       IN  /\ threads' = Append(threads, NewThread(t))
           /\ heap' = IF t = <<>> THEN heap
                      ELSE Cell(heap, "Object", [fields |-> EmptyScope])
           /\ interps' = Append(interps, [NewInterp(funcs) EXCEPT
                  !.tmpl = t, !.thread = th, !.self = obj])
           /\ tasks' = Append(
                  [tasks EXCEPT ![running].mode = <<"ready", th, Node_.bind>>],
                  NewTask(Len(interps) + 1, Done,
                          <<thread>> \o IF t = <<>> THEN <<>> ELSE <<Fill(slots, obj)>>))
    /\ UNCHANGED <<running, log>>

\* A task that is over, by itself or by a Rust panic, gives up the executor.
Over == {"end", "panicked"}
Leave(how) ==
    /\ tasks' = [tasks EXCEPT ![running].mode = <<how>>, ![running].kont = <<>>]
    /\ running' = 0

\* Mutant: the queue is not drained.
Mut_Finish(h, th, status) ==
    BreakPrims(h, threads[th].owned, IF status = "Crashed" THEN "OwnerCrashed" ELSE "OwnerGone")

\* set_status and drain_handlers at the end of a thread: waiting requests are
\* rejected and what the thread owns is broken.
Finish(h, th, status) ==
    LET rejected == {r.cell : r \in SeqRange(threads[th].queue)}
        reason == IF status = "Crashed" THEN "OwnerCrashed" ELSE "OwnerGone"
    IN  [i \in DOMAIN h |->
            IF i \in rejected THEN [h[i] EXCEPT !.out = <<"fail", "Target" \o status>>]
            ELSE BreakPrims(h, threads[th].owned, reason)[i]]

FinishThread(status) ==
    /\ threads' = [threads EXCEPT ![I.thread] =
           [@ EXCEPT !.status = status, !.ready = TRUE, !.queue = <<>>]]
    /\ heap' = Finish(heap, I.thread, status)
    /\ Leave("end")

(* ------------------------- the life of a thread ------------------------- *)
Stage(s) == At("thread") /\ Top.stage = s
NextStage(s) == Append(Rest, [Top EXCEPT !.stage = s])
\* The parser takes only synchronous functions for these hooks.
ThreadHook(x) ==
    IF Top.t = <<>> THEN <<>>
    ELSE FirstNamed(SelectSeq(Top.t[1].funcs, LAMBDA f : f.kind = "sync"), x)

\* The parameters join the fields in `self`, then __on_enter__ is called.
ThreadSetup ==
    /\ Stage("setup") /\ Completed
    /\ LET hook == ThreadHook("__on_enter__")
           ps == IF Top.t = <<>> THEN <<>> ELSE Top.t[1].params
       IN IF Top.t # <<>> /\ Len(ps) # Len(Top.args)
          THEN FinishThread("Crashed") /\ UNCHANGED interps
          ELSE /\ heap' = IF Top.t = <<>> THEN heap
                          ELSE [heap EXCEPT ![I.self].fields = Bind(ps, Top.args) @@ @]
               /\ IF Top.t = <<>> THEN UNCHANGED interps
                  ELSE SetEnv(Define(I.env, "self", Ref("Object", I.self)))
               /\ To(IF hook = <<>> THEN Yield(Void) ELSE <<"invoke", hook[1], <<>>>>,
                     NextStage("enter"))
               /\ UNCHANGED <<threads, running>>
    /\ UNCHANGED log

ThreadEntered ==
    /\ Stage("enter") /\ Kind = "val"
    /\ threads' = [threads EXCEPT ![I.thread].ready = TRUE]
    /\ EnterBlock(Top.body, NextStage("body"), I.env)
    /\ UNCHANGED <<heap, running, log>>

\* What the body returns is ignored.
ThreadBodyEnds ==
    /\ Stage("body") /\ Completed
    /\ LET hook == ThreadHook("__on_exit__")
       IN  To(IF hook = <<>> THEN Yield(Void) ELSE <<"invoke", hook[1], <<>>>>,
              NextStage("exit"))
    /\ UNCHANGED <<interps, threads, heap, running, log>>

ThreadEnds ==
    /\ \/ Stage("exit") /\ Kind = "val" /\ FinishThread("Terminated")
       \/ At("thread") /\ Failed /\ FinishThread("Crashed")
    /\ UNCHANGED <<interps, log>>

(* ------------------------------- handlers ------------------------------- *)
\* The loop of thread tk takes a request between two polls of its body.
DispatchHandler(tk) ==
    /\ running = 0
    /\ tasks[tk].kont # <<>> /\ tasks[tk].kont[1].at = "thread"
    /\ tasks[tk].kont[1].stage = "body"
    /\ LET th == interps[tasks[tk].in].thread
           s == threads[th]
           r == Head(s.queue)
           t == tasks[tk].kont[1].t
           hs == IF t = <<>> THEN <<>> ELSE FirstNamed(t[1].handlers, r.x)
       IN /\ s.queue # <<>> /\ ~s.busy
          /\ threads' = [threads EXCEPT ![th].queue = Tail(@), ![th].busy = hs # <<>>]
          /\ heap' = [heap EXCEPT ![r.cell].out =
                 IF hs = <<>> THEN <<"fail", "TargetCrashed">> ELSE <<"running">>]
          /\ tasks' = IF hs = <<>> THEN tasks
                      ELSE Append(tasks,
                              NewTask(tasks[tk].in, <<"handle", hs[1], r.args>>,
                                      <<[at |-> "handler", cell |-> r.cell, h |-> hs[1]]>>))
    /\ UNCHANGED <<interps, running, log>>

\* The handler runs on the interpreter state of the body, on top of whatever
\* scopes and frames the body has there at this moment.
HandlerStart ==
    /\ Kind = "handle"
    /\ LET h == Mode[2]
           fits == Len(h.params) = Len(Mode[3])
       IN IF fits
          THEN /\ To(Done, Append(T.kont, [at |-> "block", rest |-> h.body]))
               /\ interps' = [interps EXCEPT ![T.in].frames = Append(@, h.x),
                      ![T.in].env = Push(Append(@, Bind(h.params, Mode[3])))]
          ELSE /\ To(<<"refused">>, T.kont) /\ UNCHANGED interps
    /\ UNCHANGED <<threads, heap, running, log>>

HandlerEnds ==
    /\ At("handler") /\ (Completed \/ Failed \/ Kind = "refused")
    /\ LET ok == IF Kind = "ret" THEN Mode[2] ELSE Void
       IN  heap' = [heap EXCEPT ![Top.cell].out =
                       IF Completed THEN <<"ok", ok>> ELSE <<"fail", "ExecutionFailed">>]
    /\ interps' = IF Kind = "refused" THEN interps
                  ELSE [interps EXCEPT ![T.in].env = Pop(@), ![T.in].frames = Front(@),
                            ![T.in].bt = IF Failed THEN Backtrace(T.in, I.frames) ELSE @,
                            ![T.in].caught = @ \/ Failed]
    /\ threads' = [threads EXCEPT ![I.thread].busy = FALSE]
    /\ Leave("end")
    /\ UNCHANGED log

MiniEnds ==
    /\ At("mini") /\ (Kind = "val" \/ Failed)
    /\ heap' = [heap EXCEPT ![Top.cell].out =
                   IF Failed THEN <<"fail", "Panic">> ELSE <<"ok", Mode[2]>>]
    /\ Leave("end")
    /\ UNCHANGED <<interps, threads, log>>

(* --------------------------- the main program --------------------------- *)
\* What a top-level statement returns is dropped and the next one is run.
TopStep ==
    /\ At("top") /\ Completed /\ Top.rest # <<>>
    /\ To(<<"node", Head(Top.rest)>>, <<[at |-> "top", rest |-> Tail(Top.rest)]>>)
    /\ UNCHANGED <<interps, threads, heap, running, log, phase>>

\* When it is over, or panics, the other tasks are dropped.
TopEnds ==
    /\ T.kont[1].at = "top"
    /\ \/ Kind = "unwind"
       \/ At("top") /\ (Failed \/ (Completed /\ Top.rest = <<>>))
    /\ phase' = "done"
    /\ UNCHANGED machine

\* A Rust panic ends its task without any cleanup: nobody resets the flags, and
\* requests to a thread whose task it was fail.
TaskPanics ==
    /\ Kind = "unwind"
    /\ LET base == T.kont[1]
           queued == {r.cell : r \in SeqRange(threads[I.thread].queue)}
           drop(h, kind) == [h EXCEPT !.out = <<"fail", kind>>]
       IN CASE base.at = "thread" ->
                 /\ threads' = [threads EXCEPT ![I.thread] =
                        [@ EXCEPT !.gone = TRUE, !.ready = TRUE, !.queue = <<>>]]
                 /\ heap' = [i \in DOMAIN heap |->
                        IF i \in queued THEN drop(heap[i], "TargetCrashed") ELSE heap[i]]
            [] base.at # "thread" ->
                 /\ base.at # "top"
                 /\ heap' = [heap EXCEPT ![base.cell] =
                        drop(@, IF @.is = "Future" THEN "Panic" ELSE "ExecutionFailed")]
                 /\ UNCHANGED threads
    /\ Leave("panicked")
    /\ UNCHANGED <<interps, log>>

(* ------------------------------ the executor ----------------------------- *)
Waiting == {"wait", "reply", "ready", "sleep", "forever"}

\* What a waiting task goes on with, as <<>> or <<mode>>.
Answer(t) ==
    LET m == tasks[t].mode
        c == heap[m[2]]
        kind == c.out[2]
    IN CASE m[1] = "ready" -> IF threads[m[2]].ready THEN <<Done>> ELSE <<>>
         [] m[1] = "sleep" -> IF running = 0 THEN <<Yield(Void)>> ELSE <<>>
         [] m[1] = "forever" -> <<>>
         [] m[1] = "reply" ->
                IF c.out[1] = "queued" THEN <<>> ELSE <<Yield(Ref("HandlerFuture", m[2]))>>
         [] c.is = "signal" ->
                IF c.broken # "" THEN <<Fail(c.broken, "broken")>>
                ELSE IF c.raised THEN <<Yield(Void)>> ELSE <<>>
         [] OTHER ->
                CASE c.out[1] = "ok" -> <<Yield(c.out[2])>>
                  [] c.out[1] = "fail" -> <<Fail(kind, "future")>>
                  [] OTHER -> <<>>

\* The running task finds no answer and gives up the executor.
Park ==
    /\ Kind \in Waiting /\ Answer(running) = <<>>
    /\ running' = 0
    /\ UNCHANGED <<interps, tasks, threads, heap, log>>

\* The answer is there, at once or when the executor polls the task again.
Resume(t) ==
    /\ running \in {0, t}
    /\ tasks[t].mode[1] \in Waiting
    /\ Answer(t) # <<>>
    /\ running' = t
    /\ Settle(t, Answer(t)[1], tasks[t].kont)
    /\ interps' = IF tasks[t].mode[1] = "ready" /\ tasks[t].mode[3] # ""
                  THEN [interps EXCEPT ![tasks[t].in].env =
                           Define(@, tasks[t].mode[3], Ref("ThreadHandle", tasks[t].mode[2]))]
                  ELSE interps
    /\ UNCHANGED <<threads, heap, log>>

\* A task that was spawned is polled for the first time.
Poll(t) ==
    /\ running = 0 /\ tasks[t].mode[1] \notin Waiting \cup Over
    /\ running' = t
    /\ UNCHANGED <<interps, tasks, threads, heap, log>>

(* ------------------------------ next state ------------------------------ *)
Expression ==
    \/ Evaluate \/ Operand \/ ApplyValue \/ ApplyMethod \/ ApplySpecial \/ ApplyWait
    \/ ApplyDispatch \/ ApplyCall \/ Invoke \/ CallReturn \/ TryStart \/ TryReturn
Statement ==
    \/ ExecLet \/ ExecAssign \/ ExecAssignField \/ ExecAssignIndex \/ ExecSimple
    \/ ExecIf \/ BlockStep \/ OperandFails \/ ExecWhile \/ WhileStep \/ ExecFor
    \/ ForStep \/ ExecExclusive \/ FillSlot \/ FillFails
Scoped ==
    \/ ScopeStart \/ ScopeFillFails \/ ScopeEnter \/ ScopeEnterFails \/ ScopeBody
    \/ ScopeExit \/ ScopeLeave
Threaded ==
    \/ ExecSpawn \/ ThreadSetup \/ ThreadEntered \/ ThreadBodyEnds \/ ThreadEnds
    \/ HandlerStart \/ HandlerEnds \/ MiniEnds \/ TaskPanics

Run ==
    /\ phase = "run"
    /\ \/ running # 0 /\ (Expression \/ Statement \/ Scoped \/ Threaded) /\ UNCHANGED phase
       \/ running # 0 /\ (TopStep \/ TopEnds)
       \/ running # 0 /\ Park /\ UNCHANGED phase
       \/ \E t \in DOMAIN tasks : (DispatchHandler(t) \/ Resume(t) \/ Poll(t)) /\ UNCHANGED phase
    /\ UNCHANGED program
=============================================================================
