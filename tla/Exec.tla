-------------------------------- MODULE Exec --------------------------------
(* The interpreter's statements and scope blocks.                           *)
EXTENDS Eval

(* ---------------------------- exposed fields ---------------------------- *)
\* How the thread's template exposes a field; "" if it does not.
Exposes(i, x) ==
    LET fs == IF interps[i].tmpl = <<>> THEN <<>> ELSE interps[i].tmpl[1].fields
        f == Named(SelectSeq(fs, LAMBDA d : d.vis # "define"), x)
    IN  IF f = <<>> \/ interps[i].thread = 0 THEN "" ELSE f[1].vis

\* maybe_sync_expose: whatever is stored under the name of an exposed field is
\* what handles show; an unclaimed signal gets the thread as its owner.
Synced(x, v) == Exposes(T.in, x) # ""
\* (In the mutant whoever exposes it does.)
Mut_Claims(x, v) == Synced(x, v) /\ TypeName(v) = "signal"
\* (A signal is an Arc of its state, which is there as long as the signal is.)
Claims(x, v) ==
    /\ Synced(x, v) /\ TypeName(v) = "signal"
    /\ v[2] \in DOMAIN heap /\ heap[v[2]].is = "signal" /\ ~heap[v[2]].claimed
SyncThreads(x, v) ==
    threads' = IF Synced(x, v)
               THEN [threads EXCEPT
                        ![I.thread].fields = Put(@, x, v),
                        ![I.thread].owned = IF Claims(x, v) THEN @ \cup {v[2]} ELSE @]
               ELSE threads
SyncHeap(h, x, v) == IF Claims(x, v) THEN [h EXCEPT ![v[2]].claimed = TRUE] ELSE h

(* ------------------------- lets and assignments ------------------------- *)
ExecLet ==
    /\ Kind = "apply" /\ Node_.k = "Let"
    /\ LET v == Mode[3][1]
       IN  /\ SyncThreads(Node_.x, v) /\ heap' = SyncHeap(heap, Node_.x, v)
           /\ SetEnv(Define(I.env, Node_.x, v)) /\ To(Done, T.kont)
    /\ UNCHANGED <<running, log>>

\* A variable keeps the type of its value, unless that is void.
ExecAssign ==
    /\ Kind = "apply" /\ Node_.k = "Assign"
    /\ LET v == Mode[3][1]
           x == Node_.x
           known == ScopeOf(I.env, x) # 0
       IN IF known /\ TypeName(Lookup(I.env, x)) \notin {"void", TypeName(v)}
          THEN /\ To(Fail("Panic", "assign"), T.kont)
               /\ UNCHANGED <<interps, threads, heap>>
          ELSE /\ SyncThreads(x, v) /\ heap' = SyncHeap(heap, x, v)
               /\ IF known THEN SetEnv(AssignVar(I.env, x, v)) /\ To(Done, T.kont)
                  ELSE /\ To(Fail("UndefinedVariable", x), T.kont)
                       /\ UNCHANGED interps
    /\ UNCHANGED <<running, log>>

\* Through a handle an assignment is ignored, or refused if the field is
\* exposed as mutable.
ExecAssignField ==
    /\ Kind = "apply" /\ Node_.k = "AssignField"
    /\ LET v == Mode[3][1]
           o == Mode[3][2]
           x == Node_.x
       IN CASE TypeName(o) = "Object" ->
                 /\ SyncThreads(x, v)
                 /\ heap' = SyncHeap([heap EXCEPT ![o[2]].fields = Put(@, x, v)], x, v)
                 /\ To(Done, T.kont)
            [] Handle(o) ->
                 /\ To(IF /\ x \in DOMAIN threads[o[2]].fields
                          /\ x \in threads[o[2]].mutable
                       THEN Fail("ExposeMutableFieldReplace", "") ELSE Done, T.kont)
                 /\ UNCHANGED <<threads, heap>>
            [] OTHER -> To(Fail("Panic", "object"), T.kont) /\ UNCHANGED <<threads, heap>>
    /\ UNCHANGED <<interps, running, log>>

ExecAssignIndex ==
    /\ Kind = "apply" /\ Node_.k = "AssignIndex"
    /\ LET r == StoreIndex(Mode[3][2], Mode[3][3], Mode[3][1], heap)
       IN  To(r.to, T.kont) /\ heap' = r.heap
    /\ UNCHANGED <<interps, threads, running, log>>

(* ------------------------- control flow statements ---------------------- *)
\* break is a return of Never, which only loops look at; continue does nothing.
ExecSimple ==
    /\ Kind = "apply"
    /\ \/ Node_.k = "Return" /\ To(Ret(First(Mode[3], Void)), T.kont)
       \/ Node_.k = "Break" /\ To(Ret(Never), T.kont)
       \/ Node_.k \in {"Continue", "ExprStmt"} /\ To(Done, T.kont)
    /\ UNCHANGED <<interps, threads, heap, running, log>>

ExecIf ==
    /\ Kind = "apply" /\ Node_.k = "If"
    /\ LET which == IF Truthy(Mode[3][1]) THEN 1 ELSE 2
       IN  IF which \in DOMAIN Node_.blocks
           THEN EnterBlock(Node_.blocks[which], T.kont, I.env)
           ELSE To(Done, T.kont) /\ UNCHANGED interps
    /\ UNCHANGED <<threads, heap, running, log>>

\* An error leaves the scope of the block on the stack.  (In the mutant a
\* return does, too.)
Mut_BlockStep ==
    /\ At("block") /\ (Completed \/ Failed)
    /\ IF Kind = "done" /\ Top.rest # <<>>
       THEN To(<<"node", Head(Top.rest)>>,
                Append(Rest, [at |-> "block", rest |-> Tail(Top.rest)]))
       ELSE To(Mode, Rest)
    /\ IF Kind = "done" /\ Top.rest = <<>> THEN SetEnv(Pop(I.env)) ELSE UNCHANGED interps
    /\ UNCHANGED <<threads, heap, running, log>>

BlockStep ==
    /\ At("block") /\ (Completed \/ Failed)
    /\ \/ /\ Kind = "done" /\ Top.rest # <<>>
          /\ To(<<"node", Head(Top.rest)>>,
                Append(Rest, [at |-> "block", rest |-> Tail(Top.rest)]))
          /\ UNCHANGED interps
       \/ /\ Kind = "ret" \/ (Kind = "done" /\ Top.rest = <<>>)
          /\ To(Mode, Rest) /\ SetEnv(Pop(I.env))
       \/ Failed /\ To(Mode, Rest) /\ UNCHANGED interps
    /\ UNCHANGED <<threads, heap, running, log>>

\* An error in an operand or in a top-level statement's parts goes up as it is.
OperandFails ==
    /\ Failed /\ (At("args") \/ At("while") \/ At("for"))
    /\ To(Mode, Rest)
    /\ UNCHANGED <<interps, threads, heap, running, log>>

ExecWhile ==
    /\ Kind = "apply" /\ Node_.k = "While"
    /\ IF Truthy(Mode[3][1])
       THEN EnterBlock(Node_.blocks[1], Append(T.kont, [at |-> "while", n |-> Node_]), I.env)
       ELSE To(Done, T.kont) /\ UNCHANGED interps
    /\ UNCHANGED <<threads, heap, running, log>>

WhileStep ==
    /\ At("while") /\ Completed
    /\ To(IF Kind = "done" THEN <<"node", Top.n>>
          ELSE IF Mode[2] = Never THEN Done ELSE Mode, Rest)
    /\ UNCHANGED <<interps, threads, heap, running, log>>

\* A for loop has a scope of its own, which is popped unless an error leaves.
\* What its init and its update return is ignored.
ExecFor ==
    /\ Kind = "apply" /\ Node_.k = "For"
    /\ LET init == Node_.blocks[1]
       IN  To(IF init = <<>> THEN Done ELSE <<"node", init[1]>>,
              Append(T.kont, [at |-> "for", n |-> Node_, part |-> "init"]))
    /\ SetEnv(Push(I.env))
    /\ UNCHANGED <<threads, heap, running, log>>

ForStep ==
    /\ At("for") /\ (Completed \/ Kind = "val")
    /\ LET n == Top.n
           upd == n.blocks[2]
           at(part) == Append(Rest, [Top EXCEPT !.part = part])
           body == EnterBlock(n.blocks[3], at("body"), I.env)
           leave(m) == To(m, Rest) /\ SetEnv(Pop(I.env))
       IN CASE Top.part \in {"init", "update"} ->
                 IF n.args = <<>> THEN body
                 ELSE To(<<"node", n.args[1]>>, at("cond")) /\ UNCHANGED interps
            [] Top.part = "cond" -> IF Truthy(Mode[2]) THEN body ELSE leave(Done)
            [] Top.part = "body" /\ Kind = "ret" ->
                 leave(IF Mode[2] = Never THEN Done ELSE Mode)
            [] OTHER ->
                 /\ To(IF upd = <<>> THEN Done ELSE <<"node", upd[1]>>, at("update"))
                 /\ UNCHANGED interps
    /\ UNCHANGED <<threads, heap, running, log>>

\* #exclusive sets a flag of the thread that has no receiver and stays down
\* (ExclusiveNeedsReceiver in ThreadLoop): what is left is a block.
ExecExclusive ==
    /\ Kind = "apply" /\ Node_.k = "Exclusive"
    /\ EnterBlock(Node_.blocks[1], T.kont, I.env)
    /\ UNCHANGED <<threads, heap, running, log>>

(* ------------------------ filling a `self` object ------------------------ *)
\* A slot is a name with <<e>>, or <<>> and the default of its type.
Slot(x, e, ty) == [x |-> x, e |-> e, ty |-> ty]
SlotsOf(fields) ==
    [i \in DOMAIN fields |->
        Slot(fields[i].x, IF fields[i].vis = "define" THEN fields[i].init ELSE <<>>,
             fields[i].ty)]

\* The slots are evaluated in order, each stored before the next is begun.
FillSlot ==
    /\ At("fill") /\ (Completed \/ Kind = "val")
    /\ LET k == Top.k
           slots == Top.slots
           next == k + 1
       IN /\ heap' = IF k = 0 THEN heap
                     ELSE [heap EXCEPT ![Top.obj].fields = Put(@, slots[k].x, Mode[2])]
          /\ IF next > Len(slots) THEN To(Done, Rest)
             ELSE To(IF slots[next].e = <<>> THEN Yield(DefaultValueForType(slots[next].ty))
                     ELSE <<"node", slots[next].e[1]>>,
                     Append(Rest, [Top EXCEPT !.k = next]))
    /\ UNCHANGED <<interps, threads, running, log>>

FillFails ==
    /\ At("fill") /\ Failed /\ To(Mode, Rest)
    /\ UNCHANGED <<interps, threads, heap, running, log>>

Fill(slots, obj) == [at |-> "fill", slots |-> slots, obj |-> obj, k |-> 0]

(* ----------------------------- scope blocks ------------------------------ *)
\* The first of that name, as <<>> or <<f>>.
FirstNamed(fs, x) ==
    LET named == SelectSeq(fs, LAMBDA f : f.x = x)
    IN  SubSeq(named, 1, IF named = <<>> THEN 0 ELSE 1)
HookOf(d, x) == IF d = <<>> THEN <<>> ELSE FirstNamed(d[1].funcs, x)

\* A history for the properties: the events of the block around an object.
Events(obj) == IF obj \in DOMAIN log THEN log[obj] ELSE <<>>
Note(event, obj) == log' = Put(log, obj, Append(Events(obj), event))
BreakPrims(h, prims, reason) ==
    [i \in DOMAIN h |->
        IF i \in prims /\ h[i].broken = "" THEN [h[i] EXCEPT !.broken = reason] ELSE h[i]]

\* The signals that define fields of the template hold.
PrimsOf(d, obj) ==
    LET names == IF d = <<>> THEN {} ELSE {d[1].fields[i].x : i \in DOMAIN d[1].fields}
        held == {heap[obj].fields[x] : x \in names}
    IN  {v[2] : v \in {w \in held : TypeName(w) = "signal"}}

\* The scope is pushed first; what fails before the hook runs leaves it there.
\* An unknown template counts as none, and then nothing is evaluated.
ScopeStart ==
    /\ Kind = "apply" /\ Node_.k = "ScopeBlock"
    /\ LET d == Named(program.scopes, Node_.x)
           obj == Len(heap) + 1
           item(stage) == [at |-> "scope", n |-> Node_, d |-> d, obj |-> obj,
                           stage |-> stage, prims |-> {}, res |-> Done]
           args == [i \in DOMAIN Node_.args |->
                       Slot(d[1].params[i].x, <<Node_.args[i]>>, d[1].params[i].ty)]
       IN CASE d = <<>> ->
                 /\ EnterBlock(Node_.blocks[1], Append(T.kont, item("body")), Push(I.env))
                 /\ UNCHANGED heap
            [] d # <<>> /\ Len(d[1].params) # Len(Node_.args) ->
                 To(Fail("Panic", "arity"), T.kont) /\ SetEnv(Push(I.env)) /\ UNCHANGED heap
            [] OTHER ->
                 /\ heap' = Cell(heap, "Object", [fields |-> EmptyScope])
                 /\ To(Done, T.kont \o <<item("fill"),
                                         Fill(args \o SlotsOf(d[1].fields), obj)>>)
                 /\ SetEnv(Push(I.env))
    /\ UNCHANGED <<threads, running, log>>

\* __on_enter__, the body and __on_exit__ are blocks of the task that is here.
ScopeFillFails ==
    /\ At("scope") /\ Top.stage = "fill" /\ Failed
    /\ To(Mode, Rest)
    /\ UNCHANGED <<interps, threads, heap, running, log>>

ScopeEnter ==
    /\ At("scope") /\ Top.stage = "fill" /\ Completed
    /\ LET hook == HookOf(Top.d, "__on_enter__")
           env == Define(I.env, "self", Ref("Object", Top.obj))
           kont == Append(Rest, [Top EXCEPT !.stage = "enter"])
       IN  IF hook = <<>> THEN To(Done, kont) /\ SetEnv(env)
           ELSE EnterBlock(hook[1].body, kont, env)
    /\ UNCHANGED <<threads, heap, running, log>>

ScopeEnterFails ==
    /\ At("scope") /\ Top.stage = "enter" /\ Failed
    /\ heap' = BreakPrims(heap, PrimsOf(Top.d, Top.obj), "ScopeCrashed")
    /\ SetEnv(Pop(I.env)) /\ To(Mode, Rest)
    /\ UNCHANGED <<threads, running, log>>

ScopeBody ==
    /\ At("scope") /\ Top.stage = "enter" /\ Completed
    /\ EnterBlock(Top.n.blocks[1],
           Append(Rest, [Top EXCEPT !.stage = "body", !.prims = PrimsOf(Top.d, Top.obj)]),
           I.env)
    /\ Note("entered", Top.obj)
    /\ UNCHANGED <<threads, heap, running>>

\* In the mutant an error of the body skips the hook.
Mut_ScopeExit ==
    /\ At("scope") /\ Top.stage = "body" /\ (Completed \/ Failed)
    /\ LET hook == HookOf(Top.d, "__on_exit__")
           kont == Append(Rest, [Top EXCEPT !.stage = "exit", !.res = Mode])
       IN  IF Failed THEN To(Mode, Rest) /\ SetEnv(Pop(I.env))
           ELSE IF hook = <<>> THEN To(Done, kont) /\ UNCHANGED interps
           ELSE EnterBlock(hook[1].body, kont, I.env)
    /\ IF Top.d = <<>> \/ Failed THEN UNCHANGED log ELSE Note("exited", Top.obj)
    /\ UNCHANGED <<threads, heap, running>>

ScopeExit ==
    /\ At("scope") /\ Top.stage = "body" /\ (Completed \/ Failed)
    /\ LET hook == HookOf(Top.d, "__on_exit__")
           kont == Append(Rest, [Top EXCEPT !.stage = "exit", !.res = Mode])
       IN  IF hook = <<>> THEN To(Done, kont) /\ UNCHANGED interps
           ELSE EnterBlock(hook[1].body, kont, I.env)
    /\ IF Top.d = <<>> THEN UNCHANGED log ELSE Note("exited", Top.obj)
    /\ UNCHANGED <<threads, heap, running>>

\* The body's error, then the hook's, then what the body returned.
ScopeLeave ==
    /\ At("scope") /\ Top.stage = "exit" /\ (Completed \/ Failed)
    /\ LET crashed == Top.res[1] = "err"
           reason == IF crashed THEN "ScopeCrashed" ELSE "ScopeGone"
       IN  /\ heap' = BreakPrims(heap, Top.prims, reason)
           /\ To(IF ~crashed /\ Failed THEN Mode ELSE Top.res, Rest)
    /\ SetEnv(Pop(I.env))
    /\ IF Top.d = <<>> THEN UNCHANGED log ELSE Note("broken", Top.obj)
    /\ UNCHANGED <<threads, running>>
=============================================================================
