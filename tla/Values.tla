------------------------------- MODULE Values -------------------------------
(* Runtime values: tuples whose head is the name of the type (type_name).   *)
(* Lists, maps, objects, signals, futures and handles are references into a *)
(* heap of cells, since the code shares them by Rc or Arc.  Doubles, chars, *)
(* locked values and queues are left out.                                   *)
EXTENDS Syntax, Integers, TLC

CONSTANT Bits    \* width of an int; 32 in the code
ASSUME BitsAssumption == Bits \in Nat \ {0}

IntMin == -(2^(Bits - 1))
IntMax == 2^(Bits - 1) - 1

Num(n)     == <<"int", n>>
Bool(b)    == <<"bool", b>>
Str(s)     == <<"String", s>>
Void       == <<"void">>
Never      == <<"never">>
None       == <<"Option">>
Some(v)    == <<"Option", v>>
Ok(v)      == <<"Result", "Ok", v>>
Err(v)     == <<"Result", "Err", v>>
ErrorObj(kind) == <<"error", kind>>
Ref(ty, id)    == <<ty, id>>

TypeName(v) == v[1]

\* wrapping_add, wrapping_sub, wrapping_mul: arithmetic modulo 2^Bits.
Wrap(n) == ((n - IntMin) % 2^Bits) + IntMin

Abs(n) == IF n < 0 THEN -n ELSE n
\* Rust truncates towards zero; the remainder has the sign of the dividend.
TruncDiv(a, b) ==
    LET q == Abs(a) \div Abs(b) IN IF (a < 0) = (b < 0) THEN q ELSE -q
TruncRem(a, b) == a - b * TruncDiv(a, b)

\* Literals are read as 64-bit integers and cut down.
EvalLiteral(v) == IF TypeName(v) = "int" THEN Num(Wrap(v[2])) ELSE v

\* Everything but false and 0 and None is true: "" and empty lists are.
Truthy(v) == v \notin {Bool(FALSE), Num(0), None}

\* Only scalars and None are ever equal: two lists, two Somes, two Results or
\* two errors never are.  Comparing a signal with Err(reason) is left out.
ValuesEqual(a, b) ==
    /\ TypeName(a) = TypeName(b)
    /\ TypeName(a) \in {"bool", "int", "String", "void", "Option"}
    /\ TypeName(a) = "Option" => a = None /\ b = None
    /\ a = b

\* layer[n] is what is left of v inside n constructors, text[n] how it prints.
ValueToString(v) ==
    LET layer[n \in Nat] ==
            IF n = 0 THEN v ELSE LET w == layer[n - 1] IN w[Len(w)]
        text[n \in Nat] ==
            LET w == layer[n]
            IN CASE w = Bool(TRUE)  -> "true"
                 [] w = Bool(FALSE) -> "false"
                 [] w = None -> "None"
                 [] TypeName(w) = "int" -> ToString(w[2])
                 [] TypeName(w) = "String" -> w[2]
                 [] TypeName(w) \in {"void", "never"} -> TypeName(w)
                 [] TypeName(w) = "Option" /\ w # None -> "Some(" \o text[n + 1] \o ")"
                 [] TypeName(w) = "Result" -> w[2] \o "(" \o text[n + 1] \o ")"
                 [] TypeName(w) = "error" -> "error(" \o w[2] \o ")"
                 [] OTHER -> "<complex>"
    IN  text[0]

\* Can the value be a key of a map?
IsKey(v) == TypeName(v) \in {"bool", "int", "String"}

\* The parameter types the runtime checks; it accepts anything for the others.
CheckedTypes ==
    {"bool", "int", "String", "List", "Map", "Option", "Result", "signal",
     "Future", "HandlerFuture"}
RuntimeTypeMatches(ty, v) ==
    CASE ty[1] = "never" -> FALSE
      [] ty[1] = "thread" -> TypeName(v) = "ThreadHandle"
      [] ty[1] \in CheckedTypes \cup {"void"} -> TypeName(v) = ty[1]
      [] OTHER -> TRUE

DefaultValueForType(ty) ==
    CASE ty[1] = "int" -> Num(0)
      [] ty[1] = "bool" -> Bool(FALSE)
      [] ty[1] = "String" -> Str("")
      [] OTHER -> Void

(* --------------------- the scope chain, innermost last ------------------- *)
EmptyScope == [x \in {} |-> Void]
\* Under a name there is now this value.
Put(f, x, v) == [y \in DOMAIN f \cup {x} |-> IF y = x THEN v ELSE f[y]]
Push(env) == Append(env, EmptyScope)
Pop(env) == SubSeq(env, 1, Len(env) - 1)
Define(env, x, v) == [env EXCEPT ![Len(env)] = Put(@, x, v)]

\* The innermost scope that has the name; 0 if there is none.
ScopeOf(env, x) ==
    LET is == {i \in DOMAIN env : x \in DOMAIN env[i]}
    IN  IF is = {} THEN 0 ELSE CHOOSE i \in is : \A j \in is : j <= i
Lookup(env, x) == env[ScopeOf(env, x)][x]
AssignVar(env, x, v) == [env EXCEPT ![ScopeOf(env, x)][x] = v]
=============================================================================
