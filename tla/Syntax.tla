------------------------------- MODULE Syntax -------------------------------
(* The syntax tree of crates/tessera-ast.  Every node has a tag `k`, a name *)
(* `x` (an identifier, operator, method, field or template; "" if none),    *)
(* its operand expressions `args` in the order the interpreter evaluates    *)
(* them, and the blocks it contains, each a sequence of statements.  Spans  *)
(* and anonymous templates are left out.  A type is a tuple whose head is   *)
(* its name: <<"List", <<"int">>>>.                                         *)
EXTENDS Naturals, Sequences

Node(k, x, args) == [k |-> k, x |-> x, args |-> args, blocks |-> <<>>]
With(k, x, args, blocks) == [Node(k, x, args) EXCEPT !.blocks = blocks]

(* ------------------------------ expressions ----------------------------- *)
Lit(v)               == [k |-> "Lit", x |-> "", args |-> <<>>, blocks |-> <<>>, v |-> v]
Ident(x)             == Node("Ident", x, <<>>)
BinOp(op, l, r)      == Node("BinOp", op, <<l, r>>)
UnaryOp(op, e)       == Node("UnaryOp", op, <<e>>)
Call(f, args)        == Node("Call", f, args)
MethodCall(o, m, as) == Node("MethodCall", m, <<o>> \o as)
FieldAccess(o, f)    == Node("FieldAccess", f, <<o>>)
Index(o, i)          == Node("Index", "", <<o, i>>)
Await(e)             == Node("Await", "", <<e>>)
Try(e)               == Node("Try", "", <<e>>)
Panic(e)             == Node("Panic", "", <<e>>)
AssertExpr(c, msg)   == Node("Assert", "", <<c>> \o msg)
\* `List<int>()`, `Ok(e)`: targs are the type arguments.
TypeCtor(c, targs, args) ==
    [k |-> "TypeCtor", x |-> c, args |-> args, blocks |-> <<>>, targs |-> targs]

(* ------------------------------ statements ------------------------------ *)
\* ty is <<>> or <<type>>; in an assignment the value comes before the target.
Let(x, ty, e)         == [k |-> "Let", x |-> x, args |-> <<e>>, blocks |-> <<>>, ty |-> ty]
Assign(x, e)          == Node("Assign", x, <<e>>)
AssignField(o, f, e)  == Node("AssignField", f, <<e, o>>)
AssignIndex(o, i, e)  == Node("AssignIndex", "", <<e, o, i>>)
\* An else-if is an else block that holds one If.
If(c, blocks)         == With("If", "", <<c>>, blocks)
While(c, body)        == With("While", "", <<c>>, <<body>>)
\* init and upd are blocks of at most one statement, cond is <<>> or <<e>>.
For(init, cond, upd, body) == With("For", "", cond, <<init, upd, body>>)
Return(args)          == Node("Return", "", args)
Break                 == Node("Break", "", <<>>)
Continue              == Node("Continue", "", <<>>)
\* x is the template ("" in the shorthand), bind the handle ("" if discarded).
Spawn(x, args, body, bind) ==
    [k |-> "Spawn", x |-> x, args |-> args, blocks |-> <<body>>, bind |-> bind]
ScopeBlock(x, args, body)  == With("ScopeBlock", x, args, <<body>>)
Exclusive(body)       == With("Exclusive", "", <<>>, <<body>>)
ExprStmt(e)           == Node("ExprStmt", "", <<e>>)

(* ----------------------------- declarations ----------------------------- *)
\* opt: the parameter has a default.
Param(x, ty) == [x |-> x, ty |-> ty, opt |-> FALSE]
OptParam(x, ty) == [Param(x, ty) EXCEPT !.opt = TRUE]

\* kind is "sync", "async" or "handler".
Func(kind, x, params, ret, body) ==
    [kind |-> kind, x |-> x, params |-> params, ret |-> ret, body |-> body]

\* vis is "expose", "expose_mutable" or "define"; init is <<>> or <<e>>.
Field(vis, x, ty, init) == [vis |-> vis, x |-> x, ty |-> ty, init |-> init]

\* Functions of a template: hooks (__on_enter__, ...) and member functions.
ScopeTemplate(x, params, fields, funcs) ==
    [x |-> x, params |-> params, fields |-> fields, funcs |-> funcs]
ThreadTemplate(x, params, fields, funcs, handlers) ==
    [x |-> x, params |-> params, fields |-> fields, funcs |-> funcs,
     handlers |-> handlers]

Program(scopes, threads, funcs, main) ==
    [scopes |-> scopes, threads |-> threads, funcs |-> funcs, main |-> main]

(* ------------------------------ the visitor ----------------------------- *)
SeqRange(s) == {s[i] : i \in DOMAIN s}

\* The declaration of that name in a sequence, as <<>> or <<d>>; the last one
\* wins, because tables are filled in order.
Named(ds, x) ==
    LET is == {i \in DOMAIN ds : ds[i].x = x}
    IN  IF is = {} THEN <<>> ELSE <<ds[CHOOSE i \in is : \A j \in is : j <= i]>>

Hooks == {"__on_enter__", "__on_exit__", "__on_terminate__"}

\* The operands a walk visits: of an assignment the value, not the target.
Visited(n) ==
    IF n.k \in {"AssignField", "AssignIndex"} THEN <<n.args[1]>> ELSE n.args
=============================================================================
