-------------------------------- MODULE Eval --------------------------------
(* The tree-walking interpreter, crates/tessera-interp: expressions and     *)
(* calls.  An evaluation that may suspend in the middle of an expression is *)
(* written as a machine: a task has a mode, which says what it does next,   *)
(* and a continuation, whose items are the calls of eval_expr, exec_stmt,   *)
(* exec_block ... it is in.  All tasks run on one thread, and a task keeps  *)
(* it until it has to wait.                                                 *)
(*                                                                          *)
(* terminate(), isDone(), locked values and queues are in ThreadLoop and    *)
(* SharedData; contracts and permits in SyncPrimitive.                      *)
EXTENDS Builtins, SequencesExt

VARIABLES
    program,   \* what is run
    phase,     \* "run" until the main task ends, then "done"
    interps,   \* InterpStates; a body and its handlers share one
    tasks,     \* [in, mode, kont, raised]; tasks[1] runs the top-level statements
    threads,   \* ThreadStates
    heap,      \* what values refer to
    running,   \* the task that has the executor, 0 if it chooses one
    log        \* per object of a scope block, what happened to the block

machine == <<interps, tasks, threads, heap, running, log>>

T == tasks[running]
I == interps[T.in]
Mode == T.mode
Kind == Mode[1]
Top == Last(T.kont)
Rest == Front(T.kont)
At(item) == T.kont # <<>> /\ Top.at = item
Node_ == Mode[2]

\* The results of statements and blocks: exec_stmt's Ok(None), Ok(Some(v)).
Done == <<"done">>
Ret(v) == <<"ret", v>>
Completed == Kind \in {"done", "ret"}
Failed == Kind = "err"

\* For the properties, a task remembers the first error since the last one it
\* caught, and the frames at it.  Only a `try` makes a value of an error.
Settle(t, m, k) ==
    tasks' = [tasks EXCEPT ![t].mode = m, ![t].kont = k,
                  ![t].raised = IF m[1] = "err" /\ @ = <<>>
                                THEN <<m, interps[tasks[t].in].frames>>
                                ELSE IF m[1] = "val" /\ tasks[t].mode[1] = "err" THEN <<>>
                                ELSE @]
To(m, k) == Settle(running, m, k)
SetEnv(e) == interps' = [interps EXCEPT ![T.in].env = e]
EnterBlock(b, k, env) ==
    To(Done, Append(k, [at |-> "block", rest |-> b])) /\ SetEnv(Push(env))

NewTask(i, m, k) == [in |-> i, mode |-> m, kont |-> k, raised |-> <<>>]
NewInterp(funcs) ==
    [env |-> <<EmptyScope>>, frames |-> <<>>, bt |-> <<>>, funcs |-> funcs,
     tmpl |-> <<>>, thread |-> 0, self |-> 0, caught |-> FALSE]

Start(p) ==
    /\ program = p
    /\ interps = <<NewInterp(p.funcs)>>
    /\ tasks = <<NewTask(1, Done, <<[at |-> "top", rest |-> p.main]>>)>>
    /\ threads = <<>> /\ heap = <<>> /\ running = 1 /\ log = EmptyScope

(* ------------------------ operands before operators --------------------- *)
\* The functions that are built in hide those of the program that have their
\* names.  Programs that call getchar, contract or permit are left out.
Special == {"signal", "keepalive", "asleep"}
IsFunc(n) ==
    n.k = "Call" /\ n.x \notin Special \cup {"print", "println"} /\ Named(I.funcs, n.x) # <<>>

\* The operands a node has evaluated before it acts.  Three calls ignore their
\* arguments and two look only at the first; an unknown function has none.
Operands(n) ==
    CASE n.k = "Call" /\ n.x \in {"signal", "keepalive"} -> <<>>
      [] n.k = "Call" /\ n.x = "asleep" -> SubSeq(n.args, 1, IF n.args = <<>> THEN 0 ELSE 1)
      [] n.k = "Call" /\ n.x \notin {"print", "println"} /\ ~IsFunc(n) -> <<>>
      [] n.k \in {"For", "ScopeBlock", "Try"} -> <<>>
      [] OTHER -> n.args

Evaluate ==
    /\ Kind = "node"
    /\ LET ops == Operands(Node_)
       IN  IF ops = <<>> THEN To(<<"apply", Node_, <<>>>>, T.kont)
           ELSE To(<<"node", ops[1]>>,
                   Append(T.kont, [at |-> "args", n |-> Node_, vals |-> <<>>]))
    /\ UNCHANGED <<interps, threads, heap, running, log>>

Operand ==
    /\ Kind = "val" /\ At("args")
    /\ LET vals == Append(Top.vals, Mode[2])
       IN  IF Decided(Top.n, vals) \/ Len(vals) = Len(Operands(Top.n))
           THEN To(<<"apply", Top.n, vals>>, Rest)
           ELSE To(<<"node", Operands(Top.n)[Len(vals) + 1]>>,
                   Append(Rest, [Top EXCEPT !.vals = vals]))
    /\ UNCHANGED <<interps, threads, heap, running, log>>

(* ------------------------------ expressions ----------------------------- *)
\* In a template `self` is the object of the thread; elsewhere a variable.
EvalIdent(x) ==
    CASE x = "self" /\ I.self # 0 -> Yield(Ref("Object", I.self))
      [] ScopeOf(I.env, x) # 0 -> Yield(Lookup(I.env, x))
      [] x = "self" -> Fail("Panic", "self")
      [] OTHER -> Fail("UndefinedVariable", x)

Handle(v) == TypeName(v) = "ThreadHandle"
Waitable == {"Future", "HandlerFuture", "signal"}

\* What an expression that neither waits nor calls evaluates to.
Value(n, vals) ==
    CASE n.k = "Lit" -> {Yield(EvalLiteral(n.v))}
      [] n.k = "Ident" -> {EvalIdent(n.x)}
      [] n.k = "BinOp" /\ n.x \in {"&&", "||"} -> {Logical(n.x, vals)}
      [] n.k = "BinOp" -> {EvalBinOp(n.x, vals[1], vals[2])}
      [] n.k = "UnaryOp" -> EvalUnary(n.x, vals[1])
      [] n.k = "FieldAccess" ->
             {EvalFieldAccess(vals[1], n.x, heap,
                  IF Handle(vals[1]) THEN threads[vals[1][2]].fields ELSE EmptyScope)}
      [] n.k = "Index" -> {EvalIndex(vals[1], vals[2], heap)}
      [] n.k = "Panic" -> {Fail("Panic", "user")}
      [] n.k = "Assert" -> {IF Truthy(vals[1]) THEN Yield(Void)
                            ELSE Fail("AssertionFailed", "user")}
      [] n.k = "Await" /\ TypeName(vals[1]) \notin Waitable -> {Yield(vals[1])}
      [] n.k = "Call" /\ n.x \in {"print", "println"} -> {Yield(Void)}
      [] n.k = "Call" -> {Fail("Panic", "function")}
      [] OTHER -> {}

ApplyValue ==
    /\ Kind = "apply" /\ ~IsFunc(Node_) /\ ~(Node_.k = "Call" /\ Node_.x \in Special)
    /\ \E m \in Value(Node_, Mode[3]) : To(m, T.kont)
    /\ UNCHANGED <<interps, threads, heap, running, log>>

\* Constructors, and the methods that neither wait nor reach another thread.
ApplyMethod ==
    /\ Kind = "apply"
    /\ LET v == Mode[3]
           waits == Node_.x = "wait" /\ TypeName(v[1]) \in Waitable
           r == IF Node_.k = "TypeCtor" THEN EvalTypeCtor(Node_, v, heap)
                ELSE EvalMethodCall(Node_.x, v[1], Tail(v), heap)
       IN  /\ \/ Node_.k = "TypeCtor"
              \/ Node_.k = "MethodCall" /\ ~Handle(v[1]) /\ ~waits
           /\ To(r.to, T.kont) /\ heap' = r.heap
    /\ UNCHANGED <<interps, threads, running, log>>

\* signal() makes one; keepalive() and asleep(ms) wait.
ApplySpecial ==
    /\ Kind = "apply" /\ Node_.k = "Call" /\ Node_.x \in Special
    /\ LET ms == First(Mode[3], Num(0))
           s == [raised |-> FALSE, broken |-> "", claimed |-> FALSE]
       IN CASE Node_.x = "signal" ->
                 /\ To(Yield(Ref("signal", Len(heap) + 1)), T.kont)
                 /\ heap' = Cell(heap, "signal", s)
            [] Node_.x = "keepalive" -> To(<<"forever">>, T.kont) /\ UNCHANGED heap
            [] Node_.x = "asleep" ->
                 /\ To(IF TypeName(ms) = "int" /\ ms # Num(0) /\ ms[2] > 0
                       THEN <<"sleep">> ELSE Yield(Void), T.kont)
                 /\ UNCHANGED heap
    /\ UNCHANGED <<interps, threads, running, log>>

\* await e, e.wait(): the answer is taken when the task is polled.
ApplyWait ==
    /\ Kind = "apply"
    /\ Node_.k = "Await" \/ (Node_.k = "MethodCall" /\ Node_.x = "wait")
    /\ TypeName(Mode[3][1]) \in Waitable
    /\ To(<<"wait", Mode[3][1][2]>>, T.kont)
    /\ UNCHANGED <<interps, threads, heap, running, log>>

\* dispatch_handler: the status is read, then the request is queued.  A ping is
\* answered at once; a handle that ended, or whose task died, rejects.  (A handle
\* is an Arc of its thread's state, which is there as long as the handle is.)
ApplyDispatch ==
    /\ Kind = "apply" /\ Node_.k = "MethodCall" /\ Handle(Mode[3][1])
    /\ Mode[3][1][2] \in DOMAIN threads
    /\ LET th == Mode[3][1][2]
           new == Len(heap) + 1
           cell(out) == heap' = Cell(heap, "HandlerFuture", [out |-> out])
       IN IF threads[th].status # "Running" \/ Node_.x = "__ping__" \/ threads[th].gone
          THEN /\ cell(IF threads[th].status # "Running"
                       THEN <<"fail", "Target" \o threads[th].status>>
                       ELSE IF Node_.x = "__ping__" THEN <<"ok", Str("pong")>>
                       ELSE <<"fail", "TargetCrashed">>)
               /\ To(Yield(Ref("HandlerFuture", new)), T.kont)
               /\ UNCHANGED threads
          ELSE /\ cell(<<"queued">>)
               /\ threads' = [threads EXCEPT ![th].queue =
                      Append(@, [x |-> Node_.x, args |-> Tail(Mode[3]), cell |-> new])]
               /\ To(<<"reply", new>>, T.kont)
    /\ UNCHANGED <<interps, running, log>>

(* --------------------------------- calls -------------------------------- *)
\* An async function gets a task and an environment of its own; it shares the
\* thread and the template's object.
ApplyCall ==
    /\ Kind = "apply" /\ IsFunc(Node_)
    /\ LET f == Named(I.funcs, Node_.x)[1]
           own == Put(EmptyScope, "self", Ref("Object", I.self))
           self == IF I.self = 0 THEN EmptyScope ELSE own
           cell == Len(heap) + 1
       IN IF f.kind = "async"
          THEN /\ heap' = Cell(heap, "Future", [out |-> <<"running">>])
               /\ interps' = Append(interps,
                      [I EXCEPT !.env = <<self>>, !.frames = <<>>, !.bt = <<>>,
                                !.caught = FALSE])
               /\ tasks' = Append(
                      [tasks EXCEPT ![running].mode = Yield(Ref("Future", cell))],
                      NewTask(Len(interps) + 1, <<"invoke", f, Mode[3]>>,
                              <<[at |-> "mini", cell |-> cell]>>))
          ELSE To(<<"invoke", f, Mode[3]>>, T.kont) /\ UNCHANGED <<heap, interps>>
    /\ UNCHANGED <<threads, running, log>>

Bind(params, args) ==
    [x \in {params[i].x : i \in DOMAIN args} |->
        args[CHOOSE i \in DOMAIN args :
                params[i].x = x /\ \A j \in DOMAIN args : params[j].x = x => j <= i]]

Accepts(f, args) ==
    /\ Len(args) <= Len(f.params)
    /\ Len(args) >= Cardinality({i \in DOMAIN f.params : ~f.params[i].opt})
    /\ \A i \in DOMAIN args : RuntimeTypeMatches(f.params[i].ty, args[i])

Mut_Backtrace(i, frames) == frames
Backtrace(i, frames) == IF interps[i].bt = <<>> THEN frames ELSE interps[i].bt

\* call_func: the frame is pushed before the arguments are checked, the scope
\* of the parameters after; a parameter left to its default is not bound.
Invoke ==
    /\ Kind = "invoke"
    /\ LET f == Mode[2]
           frames == Append(I.frames, f.x)
       IN IF Accepts(f, Mode[3])
          THEN /\ To(Done, T.kont \o <<[at |-> "call", f |-> f], [at |-> "block", rest |-> f.body]>>)
               /\ interps' = [interps EXCEPT ![T.in].frames = frames,
                      ![T.in].env = Push(Append(@, Bind(f.params, Mode[3])))]
          ELSE /\ To(Fail("Panic", "argument"), T.kont)
               /\ interps' = [interps EXCEPT ![T.in].bt = Backtrace(T.in, frames)]
    /\ UNCHANGED <<threads, heap, running, log>>

\* Mutant: the scope of the body is popped as well, which the block has done.
Mut_CallReturn ==
    /\ (Completed \/ Failed) /\ At("call")
    /\ interps' = [interps EXCEPT
           ![T.in].env = Pop(Pop(@)), ![T.in].frames = Front(@),
           ![T.in].bt = IF Failed THEN Backtrace(T.in, I.frames) ELSE @]
    /\ To(IF Failed THEN Mode ELSE Yield(IF Kind = "ret" THEN Mode[2] ELSE Void), Rest)
    /\ UNCHANGED <<threads, heap, running, log>>

\* However the body ends, one scope is popped: after an error that is not the
\* scope of the parameters but the one the block left behind.
CallReturn ==
    /\ (Completed \/ Failed) /\ At("call")
    /\ interps' = [interps EXCEPT
           ![T.in].env = Pop(@), ![T.in].frames = Front(@),
           ![T.in].bt = IF Failed THEN Backtrace(T.in, I.frames) ELSE @]
    /\ To(IF Failed THEN Mode ELSE Yield(IF Kind = "ret" THEN Mode[2] ELSE Void), Rest)
    /\ UNCHANGED <<threads, heap, running, log>>

TryStart ==
    /\ Kind = "apply" /\ Node_.k = "Try"
    /\ To(<<"node", Node_.args[1]>>, Append(T.kont, [at |-> "try"]))
    /\ UNCHANGED <<interps, threads, heap, running, log>>

TryReturn ==
    /\ (Kind = "val" \/ Failed) /\ At("try")
    /\ To(Yield(IF Failed THEN Err(ErrorObj(Mode[2])) ELSE Ok(Mode[2])), Rest)
    /\ interps' = [interps EXCEPT ![T.in].caught = @ \/ Failed]
    /\ UNCHANGED <<threads, heap, running, log>>
=============================================================================
