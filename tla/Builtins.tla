------------------------------ MODULE Builtins ------------------------------
(* Operators, constructors, fields and the methods that neither wait nor    *)
(* reach another thread.  An outcome is what the evaluation continues with, *)
(* <<"val", v>>, <<"err", kind, why>> or <<"unwind">> (a Rust panic), and   *)
(* the heap it leaves.  A cell of the heap is a record with a tag `is`.     *)
EXTENDS Values, FiniteSets

Yield(v) == <<"val", v>>
Fail(kind, why) == <<"err", kind, why>>
TypeError == Fail("TypeMismatch", "operands")
Unwind == <<"unwind">>

(* ------------------------------- operators ------------------------------ *)
\* MIN / -1 and MIN % -1 overflow and are not caught.
Divide(a, b, q) ==
    IF b = 0 THEN Fail("DivisionByZero", "")
    ELSE IF a = IntMin /\ b = -1 THEN Unwind
    ELSE Yield(Num(q))

Comparisons == {"<", "<=", ">", ">="}
Compare(op, a, b) ==
    CASE op = "<" -> a < b [] op = "<=" -> a <= b
      [] op = ">" -> a > b [] op = ">=" -> a >= b

EvalBinOp(op, l, r) ==
    LET ints == TypeName(l) = "int" /\ TypeName(r) = "int"
        strs == TypeName(l) = "String" \/ TypeName(r) = "String"
    IN CASE op = "==" -> Yield(Bool(ValuesEqual(l, r)))
         [] op = "!=" -> Yield(Bool(~ValuesEqual(l, r)))
         [] op = "+" /\ ints -> Yield(Num(Wrap(l[2] + r[2])))
         [] op = "+" /\ strs -> Yield(Str(ValueToString(l) \o ValueToString(r)))
         [] op = "-" /\ ints -> Yield(Num(Wrap(l[2] - r[2])))
         [] op = "*" /\ ints -> Yield(Num(Wrap(l[2] * r[2])))
         [] op = "/" /\ ints -> Divide(l[2], r[2], TruncDiv(l[2], r[2]))
         [] op = "%" /\ ints -> Divide(l[2], r[2], TruncRem(l[2], r[2]))
         [] op \in Comparisons /\ ints -> Yield(Bool(Compare(op, l[2], r[2])))
         [] OTHER -> TypeError

\* -MIN overflows: a debug build panics, a release build wraps.
EvalUnary(op, v) ==
    CASE op = "-" /\ TypeName(v) = "int" ->
             IF v[2] = IntMin THEN {Unwind, Yield(v)} ELSE {Yield(Num(-v[2]))}
      [] op = "!" /\ TypeName(v) = "bool" -> {Yield(Bool(~v[2]))}
      [] OTHER -> {Fail("TypeMismatch", "operand")}

\* && and || stop at the left operand if it decides; an assertion evaluates
\* its message only if the condition is falsy.
Decided(n, vals) ==
    /\ Len(vals) = 1
    /\ \/ n.k = "BinOp" /\ n.x = "&&" /\ ~Truthy(vals[1])
       \/ n.k = "BinOp" /\ n.x = "||" /\ Truthy(vals[1])
       \/ n.k = "Assert" /\ Truthy(vals[1])

Logical(op, vals) == Yield(Bool(Truthy(vals[Len(vals)])))

(* ----------------------------- constructors ----------------------------- *)
First(args, default) == IF args = <<>> THEN default ELSE args[1]

Cell(heap, is, fields) == Append(heap, Put(fields, "is", is))

\* [to, heap]: the outcome of a constructor.
EvalTypeCtor(n, args, heap) ==
    LET same(v) == [to |-> Yield(v), heap |-> heap]
        fresh(ty, fields) ==
            [to |-> Yield(Ref(ty, Len(heap) + 1)), heap |-> Cell(heap, ty, fields)]
    IN CASE n.x = "Ok"   -> same(Ok(First(args, Void)))
         [] n.x = "Err"  -> same(Err(First(args, Void)))
         [] n.x = "Some" -> same(Some(First(args, Void)))
         [] n.x = "None" -> same(None)
         [] n.x = "List" -> fresh("List", [items |-> args])
         [] n.x = "Map"  -> fresh("Map", [map |-> EmptyScope])
         [] OTHER -> [to |-> Fail("Panic", "constructor"), heap |-> heap]

(* ---------------------------- fields, indexing --------------------------- *)
\* `exposed` is what a handle shows of its thread.
EvalFieldAccess(v, f, heap, exposed) ==
    CASE TypeName(v) = "ThreadHandle" ->
             IF f \in DOMAIN exposed THEN Yield(exposed[f]) ELSE Fail("Panic", "field")
      [] TypeName(v) = "Object" ->
             IF f \in DOMAIN heap[v[2]].fields THEN Yield(heap[v[2]].fields[f])
             ELSE Fail("Panic", "field")
      [] TypeName(v) = "error" ->
             IF f \in {"kind", "message"} THEN Yield(Str(v[2])) ELSE Fail("Panic", "field")
      [] OTHER -> Fail("Panic", "field")

\* A negative index becomes a huge unsigned one.
InBounds(items, i) == i >= 0 /\ i < Len(items)

EvalIndex(v, i, heap) ==
    IF TypeName(v) = "List" /\ TypeName(i) = "int"
    THEN LET items == heap[v[2]].items
         IN  IF InBounds(items, i[2]) THEN Yield(items[i[2] + 1])
             ELSE Fail("IndexOutOfBounds", "")
    ELSE Fail("Panic", "index")

\* Storing through an index; a target that is no list, or an index that is no
\* int, is silently ignored.
StoreIndex(v, i, new, heap) ==
    IF TypeName(v) = "List" /\ TypeName(i) = "int"
    THEN IF InBounds(heap[v[2]].items, i[2])
         THEN [to |-> <<"done">>, heap |-> [heap EXCEPT ![v[2]].items[i[2] + 1] = new]]
         ELSE [to |-> Fail("IndexOutOfBounds", ""), heap |-> heap]
    ELSE [to |-> <<"done">>, heap |-> heap]

(* -------------------------------- methods ------------------------------- *)
OptionMethod(m, v, args) ==
    CASE m = "isSome" -> Yield(Bool(v # None))
      [] m = "isNone" -> Yield(Bool(v = None))
      [] m = "unwrap" -> IF v = None THEN Fail("UnwrapNone", "") ELSE Yield(v[2])
      [] m = "unwrapOr" -> Yield(IF v = None THEN First(args, Void) ELSE v[2])
      [] OTHER -> Fail("Panic", "method")

ResultMethod(m, v, args) ==
    LET ok == v[2] = "Ok"
    IN CASE m = "isOk" -> Yield(Bool(ok))
         [] m = "isErr" -> Yield(Bool(~ok))
         [] m = "unwrap" -> IF ok THEN Yield(v[3]) ELSE Fail("UnwrapErr", "")
         [] m = "unwrapErr" -> IF ok THEN Fail("UnwrapErr", "") ELSE Yield(v[3])
         [] m = "unwrapOr" -> Yield(IF ok THEN v[3] ELSE First(args, Void))
         [] OTHER -> Fail("Panic", "method")

\* The first index whose element equals v, from 0; -1 if there is none.
IndexOf(items, v) ==
    LET is == {i \in DOMAIN items : ValuesEqual(items[i], v)}
    IN  IF is = {} THEN -1 ELSE (CHOOSE i \in is : \A j \in is : i <= j) - 1

ListMethod(m, v, args, heap) ==
    LET id == v[2]
        items == heap[id].items
        look(w) == [to |-> Yield(w), heap |-> heap]
        store(new, w) == [to |-> Yield(w), heap |-> [heap EXCEPT ![id].items = new]]
        fail(kind) == [to |-> Fail(kind, "argument"), heap |-> heap]
        index == TypeName(First(args, Void)) = "int"
    IN CASE m = "length"   -> look(Num(Len(items)))
         [] m = "isEmpty"  -> look(Bool(items = <<>>))
         [] m = "contains" -> look(Bool(IndexOf(items, First(args, Void)) >= 0))
         [] m = "indexOf"  -> look(Num(IndexOf(items, First(args, Void))))
         [] m = "clear"    -> store(<<>>, Void)
         [] m = "push"     -> store(Append(items, First(args, Void)), Void)
         [] m = "pop"      -> IF items = <<>> THEN look(None)
                              ELSE store(SubSeq(items, 1, Len(items) - 1),
                                         Some(items[Len(items)]))
         [] m = "get" /\ ~index -> fail("Panic")
         [] m = "set" /\ (~index \/ Len(args) < 2) -> fail("Panic")
         [] m \in {"get", "set"} /\ ~InBounds(items, args[1][2]) -> fail("IndexOutOfBounds")
         [] m = "get" -> look(items[args[1][2] + 1])
         [] m = "set" -> store([items EXCEPT ![args[1][2] + 1] = args[2]], Void)
         [] OTHER -> [to |-> Fail("Panic", "method"), heap |-> heap]

\* get and remove treat a key that cannot be one as absent; contains and set
\* fail.
MapMethod(m, v, args, heap) ==
    LET id == v[2]
        map == heap[id].map
        key == First(args, Void)
        has == args # <<>> /\ IsKey(key) /\ key \in DOMAIN map
        found == IF has THEN Some(map[key]) ELSE None
        look(w) == [to |-> Yield(w), heap |-> heap]
        store(new, w) == [to |-> Yield(w), heap |-> [heap EXCEPT ![id].map = new]]
        fail == [to |-> Fail("Panic", "argument"), heap |-> heap]
    IN CASE m = "size"   -> look(Num(Cardinality(DOMAIN map)))
         [] m = "get"    -> look(found)
         [] m = "remove" -> store([k \in DOMAIN map \ {key} |-> map[k]], found)
         [] m = "contains" -> IF IsKey(key) THEN look(Bool(has)) ELSE fail
         [] m = "set" -> IF Len(args) >= 2 /\ IsKey(key)
                         THEN store(Put(map, key, args[2]), Void) ELSE fail
         [] OTHER -> [to |-> Fail("Panic", "method"), heap |-> heap]

\* raise is ignored by a broken signal, as in module Signal.
SignalMethod(m, v, heap) ==
    LET id == v[2]
        s == heap[id]
        look(w) == [to |-> Yield(w), heap |-> heap]
        store(b) == [to |-> Yield(Void),
                     heap |-> [heap EXCEPT ![id].raised = IF s.broken = "" THEN b ELSE @]]
    IN CASE m = "raise" -> store(TRUE)
         [] m = "reset" -> store(FALSE)
         [] m = "isRaised" -> look(Bool(s.raised /\ s.broken = ""))
         [] m = "isOk" -> look(Bool(s.broken = ""))
         [] m = "isErr" -> look(Bool(s.broken # ""))
         [] OTHER -> [to |-> Fail("Panic", "method"), heap |-> heap]

ScalarMethod(m, v) ==
    IF m = "toString" /\ TypeName(v) \in {"int", "bool"} THEN Yield(Str(ValueToString(v)))
    ELSE IF m = "length" /\ TypeName(v) = "String" THEN Yield(Num(Len(v[2])))
    ELSE Fail("Panic", "method")

EvalMethodCall(m, v, args, heap) ==
    CASE TypeName(v) = "Option" -> [to |-> OptionMethod(m, v, args), heap |-> heap]
      [] TypeName(v) = "Result" -> [to |-> ResultMethod(m, v, args), heap |-> heap]
      [] TypeName(v) = "List"   -> ListMethod(m, v, args, heap)
      [] TypeName(v) = "Map"    -> MapMethod(m, v, args, heap)
      [] TypeName(v) = "signal" -> SignalMethod(m, v, heap)
      [] OTHER -> [to |-> ScalarMethod(m, v), heap |-> heap]
=============================================================================
