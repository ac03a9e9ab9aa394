-------------------------------- MODULE Lints --------------------------------
(* crates/tessera-lint.  A visitor's state while it walks is a function of   *)
(* the place it is at, so a walk is the set of its sites, [n, w]: a statement *)
(* or an expression and where it stands.  A pass is a question about sites    *)
(* or declarations; how often it reports, and where, is left out.             *)
EXTENDS TypeChecker

CONSTANT Rank   \* where each string of a program comes in the order of strings
ASSUME RankAssumption ==
    /\ Rank \in [DOMAIN Rank -> Nat]
    /\ \A s, t \in DOMAIN Rank : Rank[s] = Rank[t] => s = t

(* --------------------------------- walks -------------------------------- *)
\* All expressions in an expression, all statements in a block, and all
\* expressions of a statement.
RECURSIVE ExprsIn(_)
ExprsIn(e) == {e} \cup UNION {ExprsIn(a) : a \in SeqRange(Visited(e))}

RECURSIVE StmtsIn(_)
StmtsIn(b) == UNION {{s} \cup UNION {StmtsIn(c) : c \in SeqRange(s.blocks)} :
                     s \in SeqRange(b)}

ExprsOfStmt(s) == UNION {ExprsIn(e) : e \in SeqRange(Visited(s))}

(* --------------------------- types as lints know them -------------------- *)
ResolveTypeExpr(t, p) ==
    IF t[1] \in {"HandlerDispatchError", "QueuePushError", "ParseError"} THEN ErrorTy
    ELSE ResolveType(t, p)

IsHandle(t) == t[1] = "ThreadHandle"
IsHandlerOf(t, m, p) == IsHandle(t) /\ HandlerSig([p |-> p], t[2][1], m) # <<>>

\* The method table again, without scalar results, which no pass looks at.
MethodReturnType(m, r, p) ==
    LET rows == SelectSeq(MethodRows(r), LAMBDA w :
                    m \in w.ms /\ r[1] \in w.on /\ w.ty # VoidTy)
    IN CASE m = "terminate" /\ IsHandle(r) -> <<"Future", VoidTy>>
         [] rows # <<>> -> rows[1].ty
         [] rows = <<>> /\ IsHandlerOf(r, m, p) ->
                <<"HandlerFuture", ResolveType(HandlerSig([p |-> p], r[2][1], m)[1].ret, p)>>
         [] OTHER -> ErrorTy

\* What a pass infers; ErrorTy if it cannot tell.  Constructors know only the
\* variables of the top level.
RECURSIVE Infer(_, _, _, _)
Infer(e, vars, env, p) ==
    LET sub(i) == Infer(e.args[i], vars, env, p)
        inner == IF e.args = <<>> THEN ErrorTy ELSE Infer(e.args[1], env, env, p)
        targ == IF e.targs = <<>> THEN ErrorTy ELSE ResolveTypeExpr(e.targs[1], p)
        field == FieldType(sub(1), e.x, [p |-> p]).ty
    IN CASE e.k = "Ident" -> IF e.x \in DOMAIN vars THEN vars[e.x] ELSE ErrorTy
         [] e.k = "FieldAccess" -> field
         [] e.k = "MethodCall" -> MethodReturnType(e.x, sub(1), p)
         [] e.k = "TypeCtor" /\ e.x \in {"Some", "locked"} ->
                IF inner = ErrorTy THEN ErrorTy
                ELSE <<IF e.x = "Some" THEN "Option" ELSE "locked", inner>>
         [] e.k = "TypeCtor" /\ e.x = "Ok" -> <<"Result", inner, ErrorTy>>
         [] e.k = "TypeCtor" /\ e.x = "Err" -> <<"Result", ErrorTy, inner>>
         [] e.k = "TypeCtor" /\ e.x \in {"List", "Queue"} -> <<e.x, targ>>
         [] OTHER -> ErrorTy

(* ---------------------------------- sites -------------------------------- *)
\* Where a site stands: in async code, at top level, in a loop, in #exclusive,
\* the primitives of the enclosing template, the variables of the pass and of
\* the top level.
After(s, w) ==
    LET let == IF s.ty = <<>> THEN Infer(s.args[1], w.vars, w.env, w.p)
               ELSE ResolveTypeExpr(s.ty[1], w.p)
    IN CASE s.k = "Let" -> [w EXCEPT !.vars = s.x :> let @@ @]
         [] s.k = "Spawn" /\ s.bind # "" /\ s.x \in Templates(w.p) ->
                [w EXCEPT !.vars = s.bind :> Handle_(s.x) @@ @]
         [] OTHER -> w

Inside(s, w) ==
    CASE s.k = "Spawn" ->
             [w EXCEPT !.async = TRUE, !.top = FALSE, !.loop = FALSE, !.excl = FALSE, !.owned = {}]
      [] s.k = "Exclusive" -> [w EXCEPT !.excl = TRUE]
      [] s.k = "While" -> [w EXCEPT !.loop = TRUE]
      [] OTHER -> w

RECURSIVE Sites(_, _)
Sites(b, w) ==
    IF b = <<>> THEN {}
    ELSE LET s == Head(b)
             init == IF s.k = "For" /\ s.blocks[1] # <<>> THEN After(s.blocks[1][1], w) ELSE w
             inside == CASE s.k = "For" -> {Sites(s.blocks[1], w), Sites(s.blocks[2], init),
                                            Sites(s.blocks[3], [init EXCEPT !.loop = TRUE])}
                         [] OTHER -> {Sites(c, Inside(s, w)) : c \in SeqRange(s.blocks)}
         IN  {[n |-> s, w |-> w]} \cup {[n |-> e, w |-> init] : e \in ExprsOfStmt(s)}
             \cup UNION inside \cup Sites(Tail(b), After(s, w))

\* `env` holds the variables of the top level, as the type checker left them.
Site(p, env, owned) ==
    [p |-> p, async |-> FALSE, top |-> TRUE, loop |-> FALSE, excl |-> FALSE,
     owned |-> owned, vars |-> env, env |-> env]

Body(f, owned, p, env) ==
    LET params == [x \in {f.params[i].x : i \in DOMAIN f.params} |->
                      ResolveTypeExpr(Named(f.params, x)[1].ty, p)]
    IN  Sites(f.body, [Site(p, env, owned) EXCEPT
            !.async = (f.kind # "sync"), !.top = FALSE, !.vars = params @@ @])

PrimTys == {<<"signal">>, <<"contract">>, <<"permit">>}
Prims(d) == {f.x : f \in {g \in SeqRange(d.fields) : g.ty \in PrimTys}}
Members(d) == SeqRange(d.funcs)
ThreadMembers(d) == Members(d) \cup SeqRange(d.handlers)

\* walk_program: it does not go into free functions; half of the passes visit
\* those themselves.
Walked(p, env) ==
    LET owned(d) == IF d \in SeqRange(p.threads) THEN Prims(d) ELSE {}
        funcs(d) == IF d \in SeqRange(p.threads) THEN ThreadMembers(d) ELSE Members(d)
    IN  UNION {UNION {Body(f, owned(d), p, env) : f \in funcs(d)} :
                  d \in SeqRange(p.scopes) \cup SeqRange(p.threads)}
        \cup Sites(p.main, Site(p, env, {}))
FreeFunctions(p, env) == UNION {Body(f, {}, p, env) : f \in SeqRange(p.funcs)}

(* ------------------------------ await and wait --------------------------- *)
IsMethod(n, m) == n.k = "MethodCall" /\ n.x = m
Receiver(s) == Infer(s.n.args[1], s.w.vars, s.w.env, s.w.p)

\* Several passes see only a variable of the top level.
Global(n, w) == IF n.k = "Ident" /\ n.x \in DOMAIN w.env THEN w.env[n.x] ELSE ErrorTy

AwaitAsyncOnly(ss) == \E s \in ss : s.n.k = "Await" /\ ~s.w.async

PrimAwaitInSync(ss, ty) ==
    \E s \in ss : s.n.k = "Await" /\ ~s.w.async /\ Global(s.n.args[1], s.w) = ty
SignalAwaitInSync(ss) == PrimAwaitInSync(ss, <<"signal">>)
ContractAwaitInSync(ss) == PrimAwaitInSync(ss, <<"contract">>)
PermitAwaitInSync(ss) ==
    \E s \in ss : /\ IsMethod(s.n, "awaitPermit") /\ ~s.w.async
                  /\ Global(s.n.args[1], s.w) = <<"permit">>

PrimWaitInAsync(all, ty) ==
    \E s \in all : IsMethod(s.n, "wait") /\ s.w.async /\ Receiver(s) = ty
SignalWaitInAsync(all) == PrimWaitInAsync(all, <<"signal">>)
ContractWaitInAsync(all) == PrimWaitInAsync(all, <<"contract">>)
PermitWaitInAsync(all) == PrimWaitInAsync(all, <<"permit">>)

HandlerAwaitType(all) ==
    \E s \in all : /\ s.n.k = "MethodCall" /\ s.n.x \in {"waitHandler", "awaitHandler"}
                   /\ Receiver(s)[1] = "Future"

\* The thread waits for a primitive that only it can drive.
ExclusiveSelfPrimitiveAwait(ss) ==
    \E s \in ss : /\ s.w.excl /\ (s.n.k = "Await" \/ IsMethod(s.n, "wait"))
                  /\ LET e == s.n.args[1]
                     IN  e.k = "FieldAccess" /\ e.args[1] = Ident("self") /\ e.x \in s.w.owned

(* ---------------------------- futures that are lost ---------------------- *)
BareCalls(all) == {[n |-> s.n.args[1], w |-> s.w] : s \in {t \in all : t.n.k = "ExprStmt"}}

HandlerResultIgnored(all) ==
    \E s \in BareCalls(all) :
        /\ s.n.k = "MethodCall" /\ s.n.x \notin {"terminate", "__ping__"}
        /\ IsHandlerOf(Receiver(s), s.n.x, s.w.p)

TerminateFutureIgnored(all) ==
    \E s \in BareCalls(all) : IsMethod(s.n, "terminate") /\ IsHandle(Receiver(s))

AwaitUnconsumedFuture(all) ==
    \E s \in BareCalls(all) :
        \/ /\ s.n.k = "Call" /\ FuncSig(s.w, s.n.x) # <<>>
           /\ FuncSig(s.w, s.n.x)[1].kind = "async"
        \/ /\ s.n.k = "MethodCall" /\ s.n.x # "terminate"
           /\ ~IsHandlerOf(Receiver(s), s.n.x, s.w.p)
           /\ MethodReturnType(s.n.x, Receiver(s), s.w.p)[1] \in {"Future", "HandlerFuture"}

(* ------------------------------- thread fields --------------------------- *)
ThreadOf(t, p) == IF IsHandle(t) THEN Named(p.threads, t[2][1]) ELSE <<>>
FieldsOf(t, vis, p) ==
    IF ThreadOf(t, p) = <<>> THEN {}
    ELSE {f.x : f \in {g \in SeqRange(ThreadOf(t, p)[1].fields) : g.vis = vis}}
ThreadFields(p, vis) ==
    {f \in UNION {SeqRange(d.fields) : d \in SeqRange(p.threads)} : f.vis = vis}

DefineExternalAccess(ss) ==
    \E s \in ss : /\ s.n.k = "FieldAccess"
                  /\ s.n.x \in FieldsOf(Global(s.n.args[1], s.w), "define", s.w.p)
ExposeReadonlyWrite(ss) ==
    \E s \in ss : /\ s.n.k = "AssignField"
                  /\ s.n.x \in FieldsOf(Global(s.n.args[2], s.w), "expose", s.w.p)
ExposeMutableUnsafe(p) ==
    \E f \in ThreadFields(p, "expose_mutable") :
        ResolveTypeExpr(f.ty, p)[1] \notin {"locked", "Queue", "signal", "contract", "permit"}
ExposeReadonlyContainer(p) ==
    \E f \in ThreadFields(p, "expose") : ResolveTypeExpr(f.ty, p)[1] \in {"List", "Map"}
TerminateNonTerminatable(ss) ==
    \E s \in ss :
        /\ IsMethod(s.n, "terminate")
        /\ LET d == ThreadOf(Global(s.n.args[1], s.w), s.w.p)
           IN  /\ d # <<>>
               /\ \A f \in Members(d[1]) : f.x # "__on_terminate__" \/ f.kind # "async"

(* -------------------------------- declarations --------------------------- *)
Funcs(p) == SeqRange(p.funcs)
ScopeFuncs(p) == UNION {Members(d) : d \in SeqRange(p.scopes)}
ThreadFuncs(p) == UNION {ThreadMembers(d) : d \in SeqRange(p.threads)}

\* The generic types; only the types of fields are looked at.
RECURSIVE ArgsMissing(_)
ArgsMissing(t) ==
    \/ t[1] \in Generic /\ Len(t) - 1 # Arity[t[1]]
    \/ \E i \in 2..Len(t) : ArgsMissing(t[i])
GenericTypeArgMissing(p) ==
    \E d \in SeqRange(p.scopes) \cup SeqRange(p.threads) :
        \E f \in SeqRange(d.fields) : ArgsMissing(f.ty)

RECURSIVE TypeExprDepth(_)
TypeExprDepth(t) ==
    LET ds == {TypeExprDepth(t[i]) : i \in 2..Len(t)}
    IN  1 + IF ds = {} THEN 0 ELSE CHOOSE d \in ds : \A e \in ds : e <= d
MaxDepth == 3
GenericNestingDepth(p, all) ==
    LET funcs == Funcs(p) \cup ScopeFuncs(p) \cup ThreadFuncs(p)
        decls == SeqRange(p.scopes) \cup SeqRange(p.threads)
        lets == {s.n : s \in {t \in all : t.n.k = "Let"}}
        ctors == {s.n : s \in {t \in all : t.n.k = "TypeCtor"}}
        types == UNION {{f.ret} \cup {q.ty : q \in SeqRange(f.params)} : f \in funcs}
                 \cup {f.ty : f \in UNION {SeqRange(d.fields) \cup SeqRange(d.params) : d \in decls}}
                 \cup UNION {SeqRange(n.ty) : n \in lets}
                 \cup {<<n.x>> \o n.targs : n \in ctors}
    IN  \E t \in types : TypeExprDepth(t) > MaxDepth

HandlerPingRedefined(p) ==
    \E d \in SeqRange(p.threads) : \E h \in SeqRange(d.handlers) : h.x = "__ping__"

HookSignature(p) ==
    \E d \in SeqRange(p.scopes) \cup SeqRange(p.threads) : \E f \in Members(d) :
        /\ f.x \in Hooks
        /\ \/ f.kind # (IF f.x = "__on_terminate__" THEN "async" ELSE "sync")
           \/ f.params # <<>> \/ f.ret # VoidTy

TemplateParamMismatch(p, all) ==
    \E s \in all :
        LET d == CASE s.n.k = "Spawn" \/ s.n.k = "ScopeBlock" ->
                          IF Named(p.threads, s.n.x) # <<>> THEN Named(p.threads, s.n.x)
                          ELSE Named(p.scopes, s.n.x)
                   [] OTHER -> <<>>
            given == Len(s.n.args)
        IN  d # <<>> /\ ( \/ given > Len(d[1].params)
                         \/ given < Cardinality({i \in DOMAIN d[1].params : ~d[1].params[i].opt}))

PermitReleaseNonPositive(ss) ==
    \E s \in ss : LET arg(i) == s.n.args[i].v[2]
                      int(i) == i <= Len(s.n.args) /\ s.n.args[i].k = "Lit"
                                /\ s.n.args[i].v[1] = "int"
                  IN  \/ s.n.k = "Call" /\ s.n.x = "permit" /\ int(1) /\ arg(1) < 0
                      \/ IsMethod(s.n, "release") /\ int(2) /\ arg(2) <= 0

(* -------------------------- returns, breaks, asserts --------------------- *)
ToplevelControlFlow(ss) == \E s \in ss : s.n.k \in {"Return", "Await"} /\ s.w.top
BreakContinueOutsideLoop(all) ==
    \E s \in all : s.n.k \in {"Break", "Continue"} /\ ~s.w.loop

\* A loop may run zero times, and only a panic that is a statement counts.
RECURSIVE Mut_DefinitelyTerminates(_)
Mut_DefinitelyTerminates(b) ==
    \E s \in SeqRange(b) :
        s.k = "Return" \/ (s.k = "If" /\ \A c \in SeqRange(s.blocks) : Mut_DefinitelyTerminates(c))

RECURSIVE DefinitelyTerminates(_)
DefinitelyTerminates(b) ==
    \E s \in SeqRange(b) :
        \/ s.k = "Return"
        \/ s.k = "ExprStmt" /\ s.args[1].k = "Panic"
        \/ s.k = "If" /\ Len(s.blocks) = 2 /\ \A i \in 1..2 : DefinitelyTerminates(s.blocks[i])

Valued(f) == f.ret \notin {VoidTy, <<"never">>}
IsScopeHook(f) == f.x \in {"__on_enter__", "__on_exit__"}
IsThreadHook(f) ==
    \/ IsScopeHook(f) /\ f.kind = "sync"
    \/ f.x = "__on_terminate__" /\ f.kind = "async"
ReturnNotAllPaths(p) ==
    \E f \in Funcs(p) \cup {g \in ScopeFuncs(p) : ~IsScopeHook(g)}
             \cup {g \in ThreadFuncs(p) : ~IsThreadHook(g)} :
        Valued(f) /\ ~DefinitelyTerminates(f.body)

\* The returns of a body, not those of threads spawned in it.
RECURSIVE Returns(_)
Returns(b) ==
    {s \in SeqRange(b) : s.k = "Return"}
    \cup UNION {UNION {Returns(c) : c \in SeqRange(s.blocks)} :
                  s \in {t \in SeqRange(b) : t.k # "Spawn"}}

ReturnTypeMismatch(p) ==
    \E f \in Funcs(p) \cup ScopeFuncs(p) \cup ThreadFuncs(p) :
        LET declared == ResolveTypeExpr(f.ret, p)
            literal(r) == IF r.args[1].k = "Lit" /\ r.args[1].v[1] # "Option"
                          THEN <<r.args[1].v[1]>> ELSE declared
        IN  /\ declared \notin {VoidTy, <<"never">>, ErrorTy}
            /\ \E r \in Returns(f.body) :
                   \/ r.args = <<>>
                   \/ /\ literal(r) # declared
                      /\ {literal(r), declared} # {IntTy, <<"double">>}

VoidReturnValue(p, all) ==
    LET bodies == {f.body : f \in {g \in Funcs(p) \cup ScopeFuncs(p) \cup ThreadFuncs(p) :
                                      ResolveTypeExpr(g.ret, p) = VoidTy}}
                  \cup {s.n.blocks[1] : s \in {t \in all : t.n.k = "Spawn"}}
    IN  \E b \in bodies : \E r \in Returns(b) : r.args # <<>>

\* compare: numbers and strings have an order, and nothing else (doubles and
\* chars, which are no data here, have one too).
Comparable(l, r) == l[1] = r[1] /\ l[1] \in {"int", "String"}
Place(c) == IF c[1] = "String" THEN Rank[c[2]] ELSE c[2]

\* Folding: <<c>> if the value is a constant.  The mutant does not tell <= from <.
Mut_FoldOp(op, l, r) ==
    LET is(b) == << <<"bool", b>> >>
    IN CASE op = "==" -> is(l[1] = r[1] /\ l = r)
         [] op = "!=" -> is(l[1] # r[1] \/ l # r)
         [] op \in {"<", "<="} /\ Comparable(l, r) -> is(Place(l) < Place(r))
         [] op \in {">", ">="} /\ Comparable(l, r) -> is(Place(l) > Place(r))
         [] OTHER -> <<>>

FoldOp(op, l, r) ==
    LET bools == l[1] = "bool" /\ r[1] = "bool"
        is(b) == << <<"bool", b>> >>
    IN CASE op = "&&" /\ bools -> is(l[2] /\ r[2])
         [] op = "||" /\ bools -> is(l[2] \/ r[2])
         [] op = "==" -> is(l[1] = r[1] /\ l = r)
         [] op = "!=" -> is(l[1] # r[1] \/ l # r)
         [] op = "<" /\ Comparable(l, r) -> is(Place(l) < Place(r))
         [] op = "<=" /\ Comparable(l, r) -> is(Place(l) <= Place(r))
         [] op = ">" /\ Comparable(l, r) -> is(Place(l) > Place(r))
         [] op = ">=" /\ Comparable(l, r) -> is(Place(l) >= Place(r))
         [] OTHER -> <<>>

RECURSIVE Fold(_)
Fold(e) ==
    CASE e.k = "Lit" -> IF e.v = <<"Option">> THEN <<>> ELSE <<e.v>>
      [] e.k = "UnaryOp" /\ e.x = "!" ->
             LET v == Fold(e.args[1])
             IN  IF v # <<>> /\ v[1][1] = "bool" THEN << <<"bool", ~v[1][2]>> >> ELSE <<>>
      [] e.k = "BinOp" ->
             LET l == Fold(e.args[1])
                 r == Fold(e.args[2])
             IN  IF l = <<>> \/ r = <<>> THEN <<>> ELSE FoldOp(e.x, l[1], r[1])
      [] OTHER -> <<>>

\* The verdict on the condition of an assertion: <<b>> or <<>>.
AssertVerdict(e) ==
    LET v == Fold(e.args[1])
    IN  IF v # <<>> /\ v[1][1] = "bool" THEN <<v[1][2]>> ELSE <<>>
AssertConstCondition(all) == \E s \in all : s.n.k = "Assert" /\ AssertVerdict(s.n) # <<>>

(* -------------------------------- the runner ----------------------------- *)
\* The passes whose diagnostics are errors; all others warn or inform.  ss are
\* the sites a walk visits, all those and the ones in free functions.
Errors(p, ss, all) ==
    {r \in {"return"} : ReturnNotAllPaths(p) \/ ReturnTypeMismatch(p) \/ VoidReturnValue(p, all)}
    \cup {r \in {"control"} : ToplevelControlFlow(ss) \/ BreakContinueOutsideLoop(all)}
    \cup {r \in {"await"} : \/ AwaitAsyncOnly(ss) \/ HandlerAwaitType(all) \/ SignalAwaitInSync(ss)
                           \/ ContractAwaitInSync(ss) \/ PermitAwaitInSync(ss)}
    \cup {r \in {"field"} : \/ ExposeMutableUnsafe(p) \/ ExposeReadonlyWrite(ss)
                           \/ DefineExternalAccess(ss) \/ GenericTypeArgMissing(p)}
    \cup {r \in {"template"} : \/ TerminateNonTerminatable(ss) \/ HookSignature(p)
                              \/ HandlerPingRedefined(p)}
    \cup {r \in {"permit"} : PermitReleaseNonPositive(ss)}

Warnings(p, ss, all) ==
    {r \in {"wait"} : \/ ExclusiveSelfPrimitiveAwait(ss) \/ SignalWaitInAsync(all)
                     \/ ContractWaitInAsync(all) \/ PermitWaitInAsync(all)}
    \cup {r \in {"future"} : \/ HandlerResultIgnored(all) \/ TerminateFutureIgnored(all)
                            \/ AwaitUnconsumedFuture(all)}
    \cup {r \in {"type"} : ExposeReadonlyContainer(p) \/ GenericNestingDepth(p, all)}
    \cup {r \in {"template"} : TemplateParamMismatch(p, all)}
    \cup {r \in {"assert"} : AssertConstCondition(all)}
=============================================================================
