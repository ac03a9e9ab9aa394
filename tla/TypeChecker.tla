----------------------------- MODULE TypeChecker -----------------------------
(* crates/tessera-types.  Checking yields a type, the errors it reports and, *)
(* for the properties, the holes it passes over: places where what it        *)
(* accepts is not what the interpreter does.  The checker stops at none of   *)
(* them; module Tessera says what a program without holes is spared.         *)
EXTENDS Syntax, FiniteSets, TLC

ErrorTy == <<"Error">>                 \* the type of what was reported, or given up on
BoolTy == <<"bool">>
IntTy == <<"int">>
VoidTy == <<"void">>
StringTy == <<"String">>

Numeric(t) == t \in {IntTy, <<"double">>}
Arg(t, i) == IF i \in DOMAIN t THEN t[i] ELSE ErrorTy

Generic == {"List", "Map", "Option", "Result", "Future", "HandlerFuture", "locked", "Queue"}

RECURSIVE ContainsError(_)
ContainsError(t) ==
    \/ t = ErrorTy
    \/ t[1] \in Generic /\ \E i \in 2..Len(t) : ContainsError(t[i])

TypesCompatible(expected, got) ==
    ContainsError(got) \/ ContainsError(expected) \/ expected = got

(* --------------------------- resolving annotations ----------------------- *)
Arity == [g \in Generic |-> IF g \in {"Map", "Result"} THEN 2 ELSE 1]
Atomic == {"bool", "int", "double", "char", "String", "void", "never", "signal",
           "contract", "permit", "HandlerDispatchError", "QueuePushError", "ParseError"}

Templates(p) == {p.scopes[i].x : i \in DOMAIN p.scopes} \cup {p.threads[i].x : i \in DOMAIN p.threads}
Handle_(x) == <<"ThreadHandle", <<x>>>>

RECURSIVE ResolveType(_, _)
ResolveType(t, p) ==
    CASE t[1] \in Atomic -> t
      [] t[1] \in Generic ->
             [i \in 1..Arity[t[1]] + 1 |->
                 IF i = 1 THEN t[1] ELSE IF i \in DOMAIN t THEN ResolveType(t[i], p) ELSE ErrorTy]
      [] t[1] = "thread" /\ Len(t) > 1 /\ t[2][1] \in Templates(p) -> Handle_(t[2][1])
      [] t[1] \in Templates(p) -> Handle_(t[1])
      [] OTHER -> ErrorTy

\* What is reported while an annotation is resolved.
RECURSIVE ResolveErrors(_, _)
ResolveErrors(t, p) ==
    CASE t[1] \in Atomic \cup Templates(p) -> {}
      [] t[1] \in Generic -> UNION {ResolveErrors(t[i], p) : i \in 2..Len(t)}
      [] t[1] = "thread" /\ Len(t) > 1 /\ t[2][1] \in Templates(p) -> {}
      [] OTHER -> {"unknown type"}

(* ------------------------- the table of the methods ---------------------- *)
Row(ms, on, ty) == [ms |-> ms, on |-> on, ty |-> ty]
Strings == {"String"}

\* `on` is {} if the checker does not look at the receiver.
MethodRows(r) == <<
    Row({"wait"}, {"Future", "HandlerFuture"}, Arg(r, 2)),
    Row({"wait"}, {"signal", "contract", "permit"}, VoidTy),
    Row({"isDone"}, {"Future", "HandlerFuture"}, BoolTy),
    Row({"raise", "reset", "fulfill", "release", "set", "close", "enqueue", "lock",
         "unlock", "waitForNonEmpty", "awaitSignal", "awaitContract", "awaitPermit"}, {}, VoidTy),
    Row({"isRaised", "isPending", "tryPush", "isEmpty", "isClosed", "tryLock",
         "isLocked", "isSome", "isNone", "isOk", "isErr"}, {}, BoolTy),
    Row({"terminate"}, {}, <<"Future", VoidTy>>),
    Row({"count"}, {"permit"}, IntTy),
    Row({"length", "indexOf"}, {"String", "List"}, IntTy),
    Row({"size"}, {"Map", "Queue"}, IntTy),
    Row({"push"}, {"List"}, VoidTy),
    Row({"push"}, {"Queue"}, <<"Result", VoidTy, <<"QueuePushError">>>>),
    Row({"pop"}, {"List"}, <<"Option", Arg(r, 2)>>),
    Row({"dequeue", "tryPop"}, {"Queue"}, <<"Option", Arg(r, 2)>>),
    Row({"remove", "get"}, {"Map"}, <<"Option", Arg(r, 3)>>),
    Row({"get"}, {"List", "locked"}, Arg(r, 2)),
    Row({"unwrap", "unwrapOr"}, {"Option", "Result"}, Arg(r, 2)),
    Row({"unwrapErr"}, {"Result"}, Arg(r, 3)),
    Row({"toString"}, {"int", "double", "char", "bool"}, StringTy),
    Row({"toInt"}, {"double", "char"}, IntTy),
    Row({"toInt"}, Strings, <<"Result", IntTy, <<"ParseError">>>>),
    Row({"toDouble"}, {"int"}, <<"double">>),
    Row({"toDouble"}, Strings, <<"Result", <<"double">>, <<"ParseError">>>>),
    Row({"toChar"}, {"int"}, <<"Option", <<"char">>>>),
    Row({"startsWith", "endsWith"}, Strings, BoolTy),
    Row({"contains"}, {"String", "List", "Map"}, BoolTy),
    Row({"trim"}, Strings, StringTy),
    Row({"split"}, Strings, <<"List", StringTy>>),
    Row({"clear"}, {"List"}, VoidTy),
    Row({"isDigit", "isAlpha", "isWhitespace"}, {"char"}, BoolTy) >>

Builtin == UNION {MethodRows(<<"int">>)[i].ms : i \in DOMAIN MethodRows(<<"int">>)}

\* Any other receiver is reported for these methods, and typed silently as an
\* error for the rest.
Strict ==
    {"isDone", "length", "size", "toString", "toInt", "toDouble", "toChar", "startsWith",
     "endsWith", "contains", "indexOf", "trim", "split", "clear", "isDigit", "isAlpha",
     "isWhitespace"}

\* The types whose values have the methods that are typed whatever they are
\* called on, and the number of arguments a method insists on.
Owners(m) ==
    CASE m \in {"raise", "reset", "isRaised"} -> {"signal"}
      [] m \in {"fulfill", "isPending"} -> {"contract"}
      [] m = "release" -> {"permit"}
      [] m = "set" -> {"List", "Map", "locked"}
      [] m \in {"isSome", "isNone"} -> {"Option"}
      [] m \in {"isOk", "isErr"} -> {"Result", "HandlerFuture", "signal", "contract", "permit"}
      [] m \in {"lock", "unlock", "tryLock", "isLocked"} -> {"locked"}
      [] m = "isEmpty" -> {"List", "Queue"}
      [] m \in {"close", "enqueue", "waitForNonEmpty", "tryPush", "isClosed"} -> {"Queue"}
      [] m = "terminate" -> {"ThreadHandle"}
      [] OTHER -> {}

\* The types the arguments of a method must have for its value to be typed as
\* the table says; the checker does not compare them.
Operands_(m, r) ==
    CASE m \in {"push", "unwrapOr"} -> <<Arg(r, 2)>>
      [] m = "get" /\ r[1] = "List" -> <<IntTy>>
      [] m = "set" /\ r[1] = "List" -> <<IntTy, Arg(r, 2)>>
      [] m = "set" /\ r[1] = "Map" -> <<Arg(r, 2), Arg(r, 3)>>
      [] m \in {"get", "remove", "contains"} /\ r[1] = "Map" -> <<Arg(r, 2)>>
      [] m \in {"contains", "indexOf"} /\ r[1] = "List" -> <<Arg(r, 2)>>
      [] OTHER -> <<>>

(* ------------------------------ expressions ------------------------------ *)
\* A context: the variables in scope, the type the enclosing let announces,
\* whether await is allowed, the return type, and, for the holes, the names in
\* scope that the interpreter will not find.
Object(fields) == <<"TemplateObject", fields>>
FuncSig(c, x) == Named(c.p.funcs, x)
HandlerSig(c, th, x) ==
    LET ts == {i \in DOMAIN c.p.threads : c.p.threads[i].x = th}
    IN  IF x = "__ping__" THEN <<[params |-> <<>>, ret |-> StringTy]>>
        ELSE IF ts = {} THEN <<>> ELSE Named(c.p.threads[CHOOSE i \in ts : TRUE].handlers, x)

ParamTypes(params, p) == [i \in DOMAIN params |-> ResolveType(params[i].ty, p)]
FieldTypes(fields, p) ==
    [x \in {fields[i].x : i \in DOMAIN fields} |-> ResolveType(Named(fields, x)[1].ty, p)]
ExposedTypes(c, th) ==
    FieldTypes(SelectSeq(Named(c.p.threads, th)[1].fields, LAMBDA f : f.vis # "define"), c.p)

Mismatch(expected, got) ==
    Len(expected) # Len(got) \/ \E i \in DOMAIN got : expected[i] # got[i]

LiteralType(v, c) ==
    IF v # <<"Option">> THEN <<v[1]>>
    ELSE IF c.expected # <<>> /\ c.expected[1][1] = "Option" THEN c.expected[1]
    ELSE <<"Option", ErrorTy>>

BuiltinCalls ==
    "keepalive" :> <<"never">> @@ "getchar" :> <<"Option", <<"char">>>> @@ "print" :> VoidTy
    @@ "println" :> VoidTy @@ "asleep" :> VoidTy @@ "signal" :> <<"signal">>
    @@ "contract" :> <<"contract">> @@ "permit" :> <<"permit">>

Mut_BinOpType(op, l, r) ==
    IF op \in {"+", "-", "*", "/", "%"} THEN l ELSE BoolTy
BinOpType(op, l, r) ==
    CASE op \in {"+", "-", "*", "/", "%"} -> IF l = r /\ Numeric(l) THEN l ELSE ErrorTy
      [] op \in {"==", "!="} -> BoolTy
      [] op \in {"<", "<=", ">", ">="} -> IF l = r /\ Numeric(l) THEN BoolTy ELSE ErrorTy
      [] OTHER -> IF l = BoolTy /\ r = BoolTy THEN BoolTy ELSE ErrorTy

\* Only a let tells Ok and Err their other half.
CtorType(e, args, c) ==
    LET half(i) == IF c.expected # <<>> /\ c.expected[1][1] = "Result"
                   THEN c.expected[1][i] ELSE ErrorTy
        targ(i) == IF i \in DOMAIN e.targs THEN ResolveType(e.targs[i], c.p) ELSE ErrorTy
        inner == IF args = <<>> THEN ErrorTy ELSE args[1]
    IN CASE e.x = "Ok" -> <<"Result", inner, half(3)>>
         [] e.x = "Err" -> <<"Result", half(2), inner>>
         [] e.x = "Some" -> <<"Option", inner>>
         [] e.x = "None" -> LiteralType(<<"Option">>, c)
         [] e.x = "Map" -> <<"Map", targ(1), targ(2)>>
         [] e.x \in {"List", "locked", "Queue"} -> <<e.x, targ(1)>>
         [] OTHER -> ErrorTy

AwaitType(t) ==
    CASE t[1] \in {"Future", "HandlerFuture"} -> t[2]
      [] t[1] \in {"signal", "contract", "permit"} -> VoidTy
      [] OTHER -> ErrorTy

\* [ty, errs] of a call on an argument list of those types.
CallType(e, args, c) ==
    LET f == FuncSig(c, e.x)
        ps == ParamTypes(f[1].params, c.p)
        ret == ResolveType(f[1].ret, c.p)
        ty == IF f[1].kind = "async" THEN <<"Future", ret>> ELSE ret
    IN IF e.x \in DOMAIN BuiltinCalls THEN [ty |-> BuiltinCalls[e.x], errs |-> {}]
       ELSE IF f = <<>> THEN [ty |-> ErrorTy, errs |-> {}]
       ELSE [ty |-> ty,
             errs |-> IF Len(ps) # Len(args) THEN {"arity"}
                      ELSE IF \E i \in DOMAIN ps : ~TypesCompatible(ps[i], args[i])
                      THEN {"argument"} ELSE {}]

\* [ty, errs, holes] of a method call: the rows of the table that fit, or the
\* signature of a handler.
MethodRule(m, r, args, rows, sig, c) ==
    LET is(t, holes) == [ty |-> t, errs |-> {}, holes |-> holes]
        bad(why) == [ty |-> ErrorTy, errs |-> {why}, holes |-> {}]
    IN CASE rows # <<>> ->
              is(rows[1].ty,
                 {h \in {"receiver"} : Owners(m) # {} /\ r[1] \notin Owners(m)}
                 \cup {h \in {"method argument"} :
                        Operands_(m, r) # <<>> /\ Mismatch(Operands_(m, r), args)})
         [] rows = <<>> /\ m \in Strict -> bad("method")
         [] rows = <<>> /\ m \in Builtin \ Strict -> is(ErrorTy, {})
         [] sig # <<>> ->
              is(<<"HandlerFuture", ResolveType(sig[1].ret, c.p)>>,
                 {h \in {"handler argument"} : Mismatch(ParamTypes(sig[1].params, c.p), args)})
         [] OTHER -> IF r = ErrorTy THEN is(ErrorTy, {}) ELSE bad("method")
MethodType(m, r, args, c) ==
    MethodRule(m, r, args,
        SelectSeq(MethodRows(r), LAMBDA w : m \in w.ms /\ (w.on = {} \/ r[1] \in w.on)),
        IF r[1] = "ThreadHandle" THEN HandlerSig(c, r[2][1], m) ELSE <<>>, c)

\* [ty, errs] of a field.
FieldType(r, x, c) ==
    LET fs == CASE r[1] = "TemplateObject" -> r[2]
                [] r[1] = "ThreadHandle" -> IF Named(c.p.threads, r[2][1]) = <<>> THEN <<>>
                                            ELSE ExposedTypes(c, r[2][1])
                [] r[1] = "error" -> "kind" :> StringTy @@ "message" :> StringTy
                [] OTHER -> <<>>
    IN IF x \in DOMAIN fs THEN [ty |-> fs[x], errs |-> {}]
       ELSE [ty |-> ErrorTy, errs |-> IF r = ErrorTy THEN {} ELSE {"field"}]

\* The rule for an expression, given what its operands were checked to be.  The
\* messages of panics and everything in an assertion go unchecked.
ExprRule(e, sub, c) ==
    LET ty == [i \in DOMAIN e.args |-> sub[i].ty]
        errs == UNION {sub[i].errs : i \in DOMAIN sub}
        holes == UNION {sub[i].holes : i \in DOMAIN sub}
        is(t, more) ==
            [ty |-> t, errs |-> errs,
             holes |-> holes \cup more \cup {h \in {"error"} : ContainsError(t)}]
        bad(why) == [ty |-> ErrorTy, errs |-> errs \cup {why}, holes |-> holes]
        also(r) == [ty |-> r.ty, errs |-> errs \cup r.errs,
                    holes |-> is(r.ty, IF "holes" \in DOMAIN r THEN r.holes ELSE {}).holes]
    IN CASE e.k = "Lit" -> is(LiteralType(e.v, c), {})
         [] e.k = "Ident" -> IF e.x \in DOMAIN c.vars
                             THEN is(c.vars[e.x], {h \in {"lost name"} : e.x \in c.stale})
                             ELSE bad("undefined variable")
         [] e.k = "BinOp" -> IF e.x \in {"&&", "||"} /\ BinOpType(e.x, ty[1], ty[2]) = ErrorTy
                             THEN bad("logical") ELSE is(BinOpType(e.x, ty[1], ty[2]), {})
         [] e.k = "UnaryOp" -> IF (e.x = "!" /\ ty[1] = BoolTy) \/ (e.x = "-" /\ Numeric(ty[1]))
                               THEN is(ty[1], {}) ELSE bad("operand")
         [] e.k = "Call" -> also(CallType(e, ty, c))
         [] e.k = "MethodCall" -> also(MethodType(e.x, ty[1], Tail(ty), c))
         [] e.k = "FieldAccess" -> also(FieldType(ty[1], e.x, c))
         [] e.k = "Index" -> is(IF ty[1][1] = "List" THEN ty[1][2]
                                ELSE IF ty[1] = StringTy THEN <<"char">> ELSE ErrorTy,
                                {h \in {"index"} : ty[2] # IntTy})
         [] e.k = "Await" -> [is(AwaitType(ty[1]), {}) EXCEPT
                                !.errs = @ \cup {h \in {"await"} : ~c.async}]
         [] e.k = "Try" -> is(<<"Result", ty[1], <<"error">>>>, {})
         [] e.k \in {"Panic", "Assert"} ->
                [ty |-> IF e.k = "Panic" THEN <<"never">> ELSE VoidTy, errs |-> {},
                 holes |-> {h \in {"unvisited"} : errs \cup holes # {}}]
         [] e.k = "TypeCtor" ->
                is(CtorType(e, ty, c),
                   {h \in {"elements"} : e.x = "List" /\ \E i \in DOMAIN ty : <<"List", ty[i]>> # CtorType(e, ty, c)})

RECURSIVE CheckExpr(_, _)
CheckExpr(e, c) == ExprRule(e, [i \in DOMAIN e.args |-> CheckExpr(e.args[i], c)], c)

(* ------------------------------- statements ------------------------------ *)
\* Checking a statement yields [errs, holes, c], the context after it.
With_(c, vars) == [c EXCEPT !.vars = vars @@ @, !.stale = @ \ DOMAIN vars]
Checked(c, subs, errs, holes) ==
    [errs |-> errs \cup UNION {s.errs : s \in subs},
     holes |-> holes \cup UNION {s.holes : s \in subs}, c |-> c]

\* A name that two members of a sequence have.
Twice(s) == \E i, j \in DOMAIN s : i < j /\ s[i].x = s[j].x
DupLets(b) ==
    {h \in {"declared twice"} : Twice(SelectSeq(b, LAMBDA s : s.k = "Let"))}

\* The parameters and the define fields of a scope template.
ScopeVars(d, p) ==
    FieldTypes(d.fields, p) @@ [x \in {d.params[i].x : i \in DOMAIN d.params} |->
                                   ResolveType(Named(d.params, x)[1].ty, p)]

RECURSIVE CheckStmt(_, _), CheckSeq(_, _)
Then(first, rest) == Checked(rest.c, {first, rest}, {}, {})
CheckRest(b, first) == Then(first, CheckSeq(b, first.c))
CheckSeq(b, c) ==
    IF b = <<>> THEN Checked(c, {}, {}, {}) ELSE CheckRest(Tail(b), CheckStmt(Head(b), c))
CheckBlock(b, c) == [CheckSeq(b, c) EXCEPT !.c = c, !.errs = @ \cup DupLets(b)]

\* In a spawned body the spawner's variables are in scope, but not at run time.
SpawnedIn(c) ==
    [c EXCEPT !.async = TRUE, !.ret = <<VoidTy>>, !.stale = @ \cup DOMAIN c.vars]

CheckSpawn(s, tys, c) ==
    LET t == Named(c.p.threads, s.x)
        known == s.x \in Templates(c.p)
        bound == IF s.bind = "" THEN c
                 ELSE With_(c, s.bind :> IF known THEN Handle_(s.x) ELSE ErrorTy)
        body == CheckBlock(s.blocks[1], SpawnedIn(bound))
    IN  Checked(bound, {body},
            {h \in {"unknown template"} : s.bind # "" /\ s.x # "" /\ ~known},
            {h \in {"spawn argument"} :
                IF t = <<>> THEN s.x # "" ELSE Mismatch(ParamTypes(t[1].params, c.p), tys)})

\* A scope block is checked as one scope with its bindings and its body's; at
\* run time the bindings are fields of `self` only.
CheckScopeBlock(s, tys, c) ==
    LET d == Named(c.p.scopes, s.x)
        vars == IF d = <<>> THEN <<>> ELSE ScopeVars(d[1], c.p)
        inner == [With_(c, vars @@ "self" :> Object(vars)) EXCEPT !.stale = @ \cup DOMAIN vars]
        body == CheckSeq(s.blocks[1], inner)
    IN  Checked(c, {body}, DupLets(s.blocks[1]),
            {h \in {"scope argument"} :
                d = <<>> \/ Mismatch(ParamTypes(d[1].params, c.p), tys)})

Declared(s, c) == [i \in DOMAIN s.ty |-> ResolveType(s.ty[i], c.p)]
CheckLet(s, init, c) ==
    LET ty == IF s.ty = <<>> THEN init.ty ELSE Declared(s, c)[1]
    IN  Checked(With_(c, s.x :> ty), {init},
            UNION {ResolveErrors(s.ty[i], c.p) : i \in DOMAIN s.ty},
            {h \in {"let"} : ty # init.ty})

CheckAssign(s, ty, c) ==
    IF s.x \notin DOMAIN c.vars THEN Checked(c, {}, {}, {"unknown target"})
    ELSE Checked(c, {}, {h \in {"assign"} : ~TypesCompatible(c.vars[s.x], ty)},
                 {h \in {"lost name"} : s.x \in c.stale})

\* Of an assignment to a field or an element only the value is looked at.
TargetHoles(s, ops, c) ==
    LET o == ops[2]
        want == IF s.k = "AssignField" THEN FieldType(o.ty, s.x, c).ty
                ELSE IF o.ty[1] = "List" /\ ops[3].ty = IntTy THEN o.ty[2] ELSE ErrorTy
    IN  {h \in {"target"} :
           \/ want # ops[1].ty \/ o.ty[1] = "ThreadHandle"
           \/ \E i \in DOMAIN ops \ {1} : ops[i].errs \cup ops[i].holes # {}}

CheckFor(s, init, c) ==
    LET cond == {CheckExpr(s.args[i], init.c) : i \in DOMAIN s.args}
        upd == CheckSeq(s.blocks[2], init.c)
    IN  Checked(c, cond \cup {init, upd, CheckBlock(s.blocks[3], upd.c)}, {}, {})

\* The rule for any other statement, given what its operands were checked to be.
StmtRule(s, ops, c) ==
    LET subs == {ops[i] : i \in DOMAIN Visited(s)}
        tys == [i \in DOMAIN ops |-> ops[i].ty]
        blocks == {CheckBlock(s.blocks[i], c) : i \in DOMAIN s.blocks}
        plain(more, errs, holes) == Checked(c, subs \cup more, errs, holes)
        after(r) == Checked(r.c, subs \cup {r}, {}, {})
    IN CASE s.k = "Let" -> CheckLet(s, ops[1], c)
         [] s.k = "Assign" -> after(CheckAssign(s, tys[1], c))
         [] s.k \in {"AssignField", "AssignIndex"} -> plain({}, {}, TargetHoles(s, ops, c))
         [] s.k \in {"If", "While"} ->
                plain(blocks, {h \in {"condition"} : tys[1] \notin {BoolTy, ErrorTy}}, {})
         [] s.k = "Return" ->
                plain({}, {}, {h \in {"return"} :
                    c.ret # <<>> /\ c.ret[1] # (IF tys = <<>> THEN VoidTy ELSE tys[1])})
         [] s.k = "Spawn" -> after(CheckSpawn(s, tys, c))
         [] s.k = "ScopeBlock" -> after(CheckScopeBlock(s, tys, c))
         [] OTHER -> plain(blocks, {}, {})

CheckStmt(s, c) ==
    LET expected == IF s.k = "Let" THEN [c EXCEPT !.expected = Declared(s, c)] ELSE c
    IN  IF s.k = "For" THEN CheckFor(s, CheckSeq(s.blocks[1], c), c)
        ELSE StmtRule(s, [i \in DOMAIN s.args |-> CheckExpr(s.args[i], expected)], c)

(* -------------------------------- programs ------------------------------- *)
Context(p, vars, async, ret) ==
    [p |-> p, vars |-> vars, expected |-> <<>>, async |-> async, ret |-> ret, stale |-> {}]

\* Parameters and fields of a template share the names of `self`.
Collisions(d) ==
    {h \in {"declared more than once"} :
        Twice([i \in DOMAIN d.params |-> [x |-> d.params[i].x]]
              \o [i \in DOMAIN d.fields |-> [x |-> d.fields[i].x]])}

CheckFunc(f, self, p) ==
    LET params == [x \in {f.params[i].x : i \in DOMAIN f.params} |->
                      ResolveType(Named(f.params, x)[1].ty, p)]
        ret == ResolveType(f.ret, p)
        c == Context(p, params @@ self, f.kind # "sync", <<ret>>)
    IN  Checked(c, {CheckBlock(f.body, c)},
            ResolveErrors(f.ret, p) \cup UNION {ResolveErrors(f.params[i].ty, p) : i \in DOMAIN f.params},
            {h \in {"handler type"} : ContainsError(ret)})

\* Initialisers are never checked, and run where only globals are in scope; what
\* a field has without one, or exposed with one, is the default of its type.
FieldHoles(f, p) ==
    LET r == CheckExpr(f.init[1], Context(p, <<>>, FALSE, <<>>))
        used == f.init # <<>> /\ f.vis = "define"
    IN  {h \in {"initialiser"} : used /\ (r.errs \cup r.holes # {} \/ r.ty # ResolveType(f.ty, p))}
        \cup {h \in {"default"} : ~used /\ f.ty[1] \notin {"int", "bool", "String", "void"}}

CheckTemplate(d, handlers, p) ==
    LET self == "self" :> Object(ScopeVars(d, p))
        funcs == d.funcs \o handlers
    IN  Checked(Context(p, self, FALSE, <<>>),
            {CheckFunc(funcs[i], self, p) : i \in DOMAIN funcs},
            Collisions(d)
            \cup UNION {ResolveErrors(d.params[i].ty, p) : i \in DOMAIN d.params}
            \cup UNION {ResolveErrors(d.fields[i].ty, p) : i \in DOMAIN d.fields},
            UNION {FieldHoles(d.fields[i], p) : i \in DOMAIN d.fields})

\* In a thread with a template `self` is the thread's, also in scope blocks.
\* The result's context holds the variables the top level ends with.
CheckProgram(p) ==
    LET main == CheckSeq(p.main, Context(p, <<>>, FALSE, <<>>))
    IN  Checked(main.c,
            {CheckTemplate(p.scopes[i], <<>>, p) : i \in DOMAIN p.scopes}
            \cup {CheckTemplate(p.threads[i], p.threads[i].handlers, p) : i \in DOMAIN p.threads}
            \cup {CheckFunc(p.funcs[i], <<>>, p) : i \in DOMAIN p.funcs}
            \cup {main},
            DupLets(p.main), {h \in {"self"} : p.scopes # <<>> /\ p.threads # <<>>})
=============================================================================
