------------------------------ MODULE MCTessera ------------------------------
EXTENDS Tessera

int == <<"int">>
bool == <<"bool">>
string == <<"String">>
I_(n) == Lit(Num(n))
B_(b) == Lit(Bool(b))
S_(s) == Lit(Str(s))
Main(stmts) == Program(<<>>, <<>>, <<>>, stmts)
Do(e) == ExprStmt(e)

MCRank == "a" :> 1 @@ "b" :> 2 @@ "h" :> 3 @@ "k" :> 4 @@ "m" :> 5 @@ "s" :> 6

(* Every operator and method on small operands.  Bits = 4: 7 is the largest     *)
(* literal, 7 + 1 wraps, and a negative number is computed.                     *)
MinusOne == UnaryOp("-", I_(1))
Smallest == BinOp("-", UnaryOp("-", I_(7)), I_(1))
Atoms == {Smallest, I_(0), I_(7), B_(TRUE), S_("s"), Lit(None), TypeCtor("Some", <<>>, <<I_(1)>>)}
Ops == {"+", "-", "*", "/", "%", "==", "!=", "<", "<=", "&&", "||"}
Operators ==
    {Main(<<Let("a", <<>>, l), Let("b", <<>>, BinOp(op, Ident("a"), r))>>) :
        op \in Ops, l \in Atoms \ {TypeCtor("Some", <<>>, <<I_(1)>>)}, r \in {MinusOne, I_(0), B_(FALSE), S_("s"), Lit(None)}}
    \cup {Main(<<Let("a", <<>>, UnaryOp(op, e))>>) : op \in {"-", "!"}, e \in {Smallest, I_(1), B_(TRUE)}}

Types == {int, <<"List", int>>, <<"Map", string, int>>, <<"Option", int>>,
          <<"Result", int, string>>, <<"signal">>}
New(ty) ==
    CASE ty = int -> I_(3)
      [] ty[1] \in {"List", "Map"} -> TypeCtor(ty[1], Tail(ty), <<>>)
      [] ty[1] = "Option" -> TypeCtor("Some", <<>>, <<I_(1)>>)
      [] ty[1] = "Result" -> TypeCtor("Ok", <<>>, <<I_(1)>>)
      [] OTHER -> Call("signal", <<>>)
Args == {<<>>, <<I_(0)>>, <<I_(0), I_(1)>>, <<S_("k")>>, <<S_("k"), I_(1)>>}
Methods == {"push", "pop", "get", "set", "remove", "contains", "length", "size", "indexOf",
            "isEmpty", "clear", "isSome", "isNone", "unwrap", "unwrapOr", "unwrapErr", "isOk",
            "isErr", "toString", "raise", "reset", "isRaised"}
Calls ==
    {Main(<<Let("a", <<ty>>, New(ty)), Let("b", <<>>, MethodCall(Ident("a"), m, as)),
            Let("c", <<>>, MethodCall(Ident("a"), IF ty[1] = "List" THEN "pop" ELSE "isSome", <<>>)) >>) :
        ty \in Types, m \in Methods, as \in Args}

(* Control flow: a function that returns an int, called in several ways.     *)
x_ == Ident("x")
Plus(e, n) == BinOp("+", e, I_(n))
Is(e, n) == BinOp("==", e, I_(n))
Under(e, n) == BinOp("<", e, I_(n))
Give(e) == Return(<<e>>)
Boom == Do(Panic(S_("m")))
Tick(x, b) == For(<<Let(x, <<int>>, I_(0))>>, <<Under(Ident(x), 2)>>, <<Assign(x, Plus(Ident(x), 1))>>, b)
Bodies == {
    <<Give(BinOp("/", I_(7), x_))>>,
    <<Give(UnaryOp("-", x_))>>,
    <<Boom>>, <<>>, <<Give(B_(TRUE))>>, <<Break>>,
    <<If(Is(x_, 0), <<<<Give(I_(1))>>, <<Boom>>>>)>>,
    <<If(Is(x_, 0), <<<<Give(I_(1))>>>>)>>,
    <<While(Under(x_, 2), <<Assign("x", Plus(x_, 1)), If(Is(x_, 1), <<<<Break>>>>)>>), Give(x_)>>,
    <<While(Under(x_, 2), <<Assign("x", Plus(x_, 1)), If(Is(x_, 2), <<<<Give(x_)>>>>)>>)>>,
    <<Tick("i", <<If(Is(Ident("i"), 1), <<<<Give(Ident("i"))>>, <<Continue>>>>)>>), Give(x_)>>,
    <<For(<<>>, <<>>, <<>>, <<If(Is(x_, 0), <<<<Break>>>>), Give(I_(2))>>), Give(x_)>>,
    <<Tick("i", <<Do(BinOp("/", I_(1), Ident("i")))>>), Give(x_)>>,
    <<For(<<>>, <<Is(BinOp("%", I_(1), x_), 0)>>, <<>>, <<Break>>), Give(x_)>>,
    <<While(Is(BinOp("/", I_(6), x_), 3), <<Assign("x", I_(1))>>), Give(x_)>>,
    <<Exclusive(<<Let("y", <<>>, Plus(x_, 1)), Give(Ident("y"))>>), Give(x_)>>,
    <<Do(AssertExpr(Under(x_, 1), <<S_("m")>>)), Give(x_)>>,
    <<Do(AssertExpr(BinOp("&&", Under(I_(1), 2), UnaryOp("!", B_(FALSE))), <<>>)), Give(x_)>>,
    <<Let("l", <<>>, TypeCtor("List", <<int>>, <<>>)), Do(MethodCall(Ident("l"), "push", <<x_>>)),
      AssignIndex(Ident("l"), x_, I_(5)), Give(Index(Ident("l"), I_(0)))>>,
    <<If(Is(x_, 0), <<<<Let("x", <<bool>>, B_(TRUE))>>>>), Give(x_)>>,
    <<Give(Ident("v"))>> }
Uses == {
    <<Let("a", <<>>, Call("f", <<I_(0)>>)), Let("b", <<>>, Call("f", <<I_(2)>>))>>,
    <<Let("v", <<int>>, I_(3)), Let("r", <<>>, Try(Call("f", <<I_(2)>>))),
      If(MethodCall(Ident("r"), "isErr", <<>>), <<<<Assign("v", I_(4))>>, <<Do(MethodCall(Ident("r"), "unwrap", <<>>))>>>>)>>,
    <<While(BinOp("<=", Call("g", <<I_(0)>>), I_(0)), <<Let("v", <<int>>, I_(1)), Break>>)>>,
    <<Do(Call("g", <<Smallest>>))>> }
g_ == Func("sync", "g", <<Param("v", int)>>, int,
           <<Let("w", <<>>, Call("f", <<Ident("v")>>)), Give(Ident("w"))>>)
Control ==
    {Program(<<>>, <<>>, <<Func("sync", "f", <<Param("x", int)>>, int, b), g_>>, u) : b \in Bodies, u \in Uses}
    \cup {Program(<<>>, <<>>, <<Func("sync", "f", <<Param("x", int), OptParam("o", bool)>>, <<"void">>, <<Return(<<>>)>>)>>, u) :
            u \in {<<Do(Call("f", as))>> : as \in {<<>>, <<I_(1)>>, <<I_(1), B_(TRUE)>>, <<B_(TRUE), B_(TRUE)>>}}}
    \* Functions that have the names of built-in ones.
    \cup {Program(<<>>, <<>>, <<Func("sync", x, <<Param("x", bool)>>, int, <<Give(I_(1))>>)>>,
            <<Let("a", <<>>, Call(x, <<I_(0)>>)), Do(Call(x, <<>>))>>) : x \in {"asleep", "signal", "print"}}

(* Assertions of constants, alone and combined.                              *)
Constants == {I_(0), I_(1), B_(TRUE), S_("a"), S_("b"), Lit(None)}
Assertions ==
    LET less(l, r) == BinOp("<", l, r)
        compared == {BinOp(op, l, r) : op \in {"==", "!=", "<", "<=", ">", ">="}, l \in Constants, r \in Constants}
        parts == {B_(FALSE), less(I_(0), I_(1)), less(S_("a"), S_("b")), UnaryOp("!", B_(FALSE)), Ident("t")}
        combined == {BinOp(op, l, r) : op \in {"&&", "||", "=="}, l \in parts, r \in parts}
    IN  {Main(<<Let("t", <<>>, B_(TRUE)), Do(AssertExpr(c, <<>>))>>) :
            c \in Constants \cup compared \cup combined \cup {UnaryOp("!", e) : e \in parts}}
        \cup {Main(<<Do(AssertExpr(B_(b), <<BinOp("/", I_(1), I_(0))>>))>>) : b \in BOOLEAN}

(* Scope blocks: hooks that fail, bodies that leave in every way.            *)
Hook(kind, x, b) == Func(kind, x, <<>>, <<"void">>, b)
Either(x, kind) == {<<>>, <<Hook(kind, x, <<Do(Call("print", <<S_("h")>>))>>)>>, <<Hook(kind, x, <<Boom>>)>>}
self_ == Ident("self")
Self(f) == FieldAccess(self_, f)
Held == Field("define", "sg", <<"signal">>, <<Call("signal", <<>>)>>)
Insides == {<<Do(MethodCall(Self("sg"), "raise", <<>>))>>, <<Give(Self("a"))>>, <<Boom>>,
            <<Give(UnaryOp("-", Smallest))>>,
            <<ScopeBlock("S", <<Plus(Self("a"), 1)>>, <<Give(Self("a"))>>)>>}
InF(d, args, b) ==
    Program(<<d>>, <<>>, <<Func("sync", "f", <<Param("x", int)>>, int, <<ScopeBlock("S", args, b), Give(x_)>>)>>,
            <<Let("r", <<>>, Try(Call("f", <<I_(1)>>))), Do(Call("f", <<I_(2)>>))>>)
Scopes ==
    {InF(ScopeTemplate("S", <<Param("a", int)>>, <<Held>>, en \o ex), <<x_>>, b) :
        en \in Either("__on_enter__", "sync"), ex \in Either("__on_exit__", "sync"), b \in Insides}
    \cup {InF(ScopeTemplate("S", <<Param("a", int)>>,
                  <<Held, Field("define", "d", int, <<BinOp("/", I_(1), I_(0))>>)>>, <<>>), <<x_>>, <<>>)}
    \cup {InF(ScopeTemplate(t, <<Param("a", int)>>, <<>>, <<>>), <<>>, <<>>) : t \in {"S", "R"}}
    \cup {Program(<<ScopeTemplate("S", <<>>, <<>>, <<Hook("sync", "__on_exit__", ex)>>)>>, <<>>,
                  <<Hook("sync", "f", <<Boom>>), Hook("sync", "g", <<Do(BinOp("/", I_(1), I_(0)))>>)>>,
                  <<ScopeBlock("S", <<>>, b)>>) :
            ex \in {<<Boom>>, <<Do(Call("g", <<>>))>>}, b \in {<<>>, <<Boom>>, <<Do(Call("f", <<>>))>>}}

(* Threads: bodies, handlers and what the spawner does with the handle.      *)
Sleep == Do(Call("asleep", <<I_(1)>>))
Stay == Do(Call("keepalive", <<>>))
Negated == UnaryOp("-", Self("k"))
W(hooks, handlers) ==
    ThreadTemplate("W", <<Param("p", int)>>,
        <<Field("expose", "n", int, <<>>), Field("define", "k", int, <<Smallest>>)>>,
        hooks \o <<Func("sync", "tell", <<Param("v", int)>>, <<"void">>, <<AssignField(self_, "n", Ident("v"))>>),
                   Func("sync", "neg", <<>>, int, <<Give(Negated)>>)>>, handlers)
Handler(x, ps, b) == Func("handler", x, ps, int, b)
Handlers == <<
    Handler("get", <<>>, <<Sleep, Give(Self("n"))>>),
    Handler("add", <<Param("d", int)>>,
            <<Sleep, AssignField(self_, "n", BinOp("+", Self("n"), Ident("d"))), Give(Self("n"))>>),
    Handler("boom", <<>>, <<Boom>>),
    Handler("over", <<>>, <<Give(Negated)>>) >>
Hd == Ident("h")
Ask(m, as) == MethodCall(Hd, m, as)
Wait(e) == MethodCall(e, "wait", <<>>)
Lives == {<<>>, <<Stay>>, <<Let("n", <<int>>, I_(2)), Sleep, Do(Call("tell", <<Ident("n")>>))>>,
          <<Sleep, Boom>>, <<Sleep, Do(Call("neg", <<>>))>>, <<Exclusive(<<Sleep, Sleep>>), Return(<<>>)>>}
Asks == {<<>>, <<Let("q", <<>>, Wait(Ask("get", <<>>)))>>,
         <<Let("q", <<>>, Try(Wait(Ask("add", <<I_(1)>>)))), Do(FieldAccess(Hd, "n"))>>,
         <<Let("q", <<>>, Try(Wait(Ask("boom", <<>>)))), Let("r", <<>>, Wait(Ask("__ping__", <<>>)))>>,
         <<Let("q", <<>>, Try(Wait(Ask("over", <<>>)))), Sleep, Let("r", <<>>, Try(Wait(Ask("get", <<>>))))>>,
         <<Let("q", <<>>, Try(Wait(Ask("get", <<I_(1)>>)))), Let("r", <<>>, Ask("get", <<>>))>>,
         <<AssignField(Hd, "n", I_(3))>>}
OnThreads ==
    {Program(<<>>, <<W(<<>>, Handlers)>>, <<>>, <<Spawn("W", <<I_(0)>>, b, "h")>> \o u) : b \in Lives, u \in Asks}
    \cup {Program(<<>>, <<W(en \o ex, Handlers)>>, <<>>, <<Spawn("W", as, <<Sleep>>, ""), Sleep>>) :
            en \in Either("__on_enter__", "sync"), ex \in Either("__on_exit__", "sync"), as \in {<<>>, <<I_(0)>>}}
    \cup {Program(<<>>, <<W(<<>>, Handlers)>>, <<>>, <<Spawn("W", <<I_(0)>>, b, ""), Sleep>>) :
            b \in {<<Do(Call("tell", <<>>))>>, <<Assign("n", I_(1))>>,
                  <<Let("a", <<>>, I_(1)), Assign("a", Call("tell", <<I_(1)>>))>>,
                  <<AssignField(Call("neg", <<>>), "n", I_(1))>>}}
    \cup {Program(<<>>, <<>>, <<>>, <<Spawn("", <<>>, <<Let("a", <<>>, I_(1)), Assign("a", I_(2)), Stay>>, "h"),
                                      Let("q", <<>>, Try(Ask("get", <<>>)))>>)}
    \cup {Program(<<>>, <<[W(<<>>, <<>>) EXCEPT !.fields = <<Field("define", "k", int, <<BinOp("/", I_(1), I_(0))>>)>>]>>, <<>>,
                  <<Spawn("W", <<I_(0)>>, <<>>, "h")>>)}

(* Signals between a thread and the top level, async functions, `await`.     *)
Raise(e) == Do(MethodCall(e, "raise", <<>>))
V == ThreadTemplate("V", <<Param("in", <<"signal">>)>>,
        <<Field("expose_mutable", "out", <<"signal">>, <<>>)>>,
        <<Hook("sync", "__on_enter__", <<AssignField(self_, "out", Call("signal", <<>>))>>),
          Func("async", "run", <<>>, <<"void">>, <<Do(Await(Self("in"))), Raise(Self("out"))>>),
          Func("async", "stay", <<>>, <<"void">>, <<Do(Try(Await(Self("out"))))>>)>>, <<>>)
Signalled ==
    {Program(<<>>, <<V>>, <<>>,
        <<Let("s", <<>>, Call("signal", <<>>)), Spawn("V", <<Ident("s")>>, b, "h")>> \o u) :
        b \in {<<Do(Await(Call("run", <<>>))), Sleep>>, <<Sleep, Boom>>, <<Do(Await(Call("stay", <<>>)))>>},
        u \in {<<Raise(Ident("s")), Do(Wait(FieldAccess(Hd, "out")))>>,
               <<Do(Try(Wait(FieldAccess(Hd, "out"))))>>,
               <<AssignField(Hd, "out", Call("signal", <<>>))>>}}
\* One signal, exposed by two threads of which either may end first.
Sharer == ThreadTemplate("E", <<Param("in", <<"signal">>)>>, <<Field("expose", "out", <<"signal">>, <<>>)>>,
              <<Hook("sync", "__on_enter__", <<AssignField(self_, "out", Self("in"))>>)>>, <<>>)
Shared ==
    {Program(<<>>, <<Sharer>>, <<>>,
        <<Let("s", <<>>, Call("signal", <<>>)), Spawn("E", <<Ident("s")>>, b, ""),
          Spawn("E", <<Ident("s")>>, <<Sleep>>, ""), Do(Try(Wait(Ident("s"))))>>) : b \in {<<Sleep>>, <<Stay>>}}
m_(b) == Func("async", "m", <<Param("x", int)>>, int, b)
o_ == Func("async", "o", <<Param("x", int)>>, int, <<Sleep, Let("y", <<>>, Await(Call("m", <<x_>>))), Give(Plus(Ident("y"), 1))>>)
Asynchronous ==
    {Program(<<>>, <<>>, <<m_(b), o_>>, <<Let("a", <<>>, Call("m", <<I_(0)>>)), Let("r", <<>>, Try(Wait(Call("o", <<Smallest>>))))>> \o u) :
        b \in {<<Sleep, Give(Plus(x_, 1))>>, <<Boom>>, <<Give(UnaryOp("-", x_))>>, <<If(Is(x_, 0), <<<<Sleep>>>>), Give(I_(1))>>},
        u \in {<<>>, <<Let("c", <<>>, Wait(Ident("a")))>>, <<Do(Call("m", <<I_(0)>>))>>}}

Language == Operators \cup Calls \cup Control \cup Assertions \cup Scopes \cup OnThreads \cup Signalled \cup Shared \cup Asynchronous

(* A handler that looks for a variable of the body it interrupts, and one      *)
(* that looks for its own parameter after the body has gone on.               *)
Peek == Handler("peek", <<>>, <<Give(Ident("outer"))>>)
Sharing ==
    {Program(<<>>, <<W(<<>>, <<Peek>>)>>, <<>>,
        <<Spawn("W", <<I_(0)>>, <<Let("outer", <<int>>, I_(5)), Stay>>, "h"),
          Let("r", <<>>, Try(Wait(Ask("peek", <<>>))))>>),
     Program(<<>>, <<W(<<>>, Handlers)>>, <<>>,
        <<Spawn("W", <<I_(0)>>, <<Sleep>>, "h"), Let("r", <<>>, Try(Wait(Ask("add", <<I_(1)>>))))>>)}
=============================================================================
