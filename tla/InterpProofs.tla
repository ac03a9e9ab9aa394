---------------------------- MODULE InterpProofs ----------------------------
(***************************************************************************)
(* The interpreter's bookkeeping for every program: nothing is assumed of  *)
(* the syntax tree or of the values in it.                                 *)
(***************************************************************************)
EXTENDS Interp, FiniteSetTheorems, SequenceTheorems, TLAPS

-----------------------------------------------------------------------------
(* Sequences of whatever: the items of a continuation have no common type.   *)

IsSeq(s) == s \in Seq({s[i] : i \in DOMAIN s})

\* A sequence over any set is one.
LEMMA SeqIs ==
    ASSUME NEW S, NEW s \in Seq(S)
    PROVE  IsSeq(s)
<1>1. Len(s) \in Nat /\ DOMAIN s = 1..Len(s) /\ s \in [1..Len(s) -> S]
  BY LenProperties
<1>2. s \in [1..Len(s) -> {s[i] : i \in DOMAIN s}]
  BY <1>1
<1> QED BY <1>1, <1>2, SeqDef DEF IsSeq

\* The length and the domain of a sequence.
LEMMA SeqShape ==
    ASSUME NEW s, IsSeq(s)
    PROVE  /\ Len(s) \in Nat /\ DOMAIN s = 1..Len(s)
           /\ s = <<>> <=> Len(s) = 0
<1>1. s \in Seq({s[i] : i \in DOMAIN s})
  BY DEF IsSeq
<1> QED BY <1>1, LenProperties, EmptySeq

\* Functions on an initial segment of the numbers are sequences.
LEMMA FunIsSeq ==
    ASSUME NEW f, NEW n \in Nat, DOMAIN f = 1..n, f = [i \in 1..n |-> f[i]]
    PROVE  IsSeq(f) /\ Len(f) = n
<1>1. f \in [1..n -> {f[i] : i \in DOMAIN f}]
  OBVIOUS
<1>2. f \in Seq({f[i] : i \in DOMAIN f})
  BY <1>1, SeqDef
<1>3. Len(f) \in Nat /\ DOMAIN f = 1..Len(f)
  BY <1>2, LenProperties
<1> QED BY <1>2, <1>3 DEF IsSeq

\* One element more.
LEMMA AppendShape ==
    ASSUME NEW s, NEW x, IsSeq(s)
    PROVE  /\ IsSeq(Append(s, x)) /\ Len(Append(s, x)) = Len(s) + 1
           /\ \A i \in 1..Len(s) : Append(s, x)[i] = s[i]
           /\ Append(s, x)[Len(s) + 1] = x
<1> DEFINE S == {s[i] : i \in DOMAIN s} \cup {x}
<1>1. s \in Seq({s[i] : i \in DOMAIN s})
  BY DEF IsSeq
<1>2. s \in Seq(S) /\ x \in S
  BY <1>1, SeqMonotonic
<1> HIDE DEF S
<1>3. Append(s, x) \in Seq(S)
  BY <1>2
<1>4. IsSeq(Append(s, x))
  BY <1>3, SeqIs
<1> QED BY <1>2, <1>4

\* One element less.
LEMMA FrontShape ==
    ASSUME NEW s, IsSeq(s), s # <<>>
    PROVE  /\ IsSeq(Front(s)) /\ Len(Front(s)) = Len(s) - 1
           /\ \A i \in 1..(Len(s) - 1) : Front(s)[i] = s[i]
           /\ Last(s) = s[Len(s)]
           /\ Len(s) >= 1
<1> DEFINE S == {s[i] : i \in DOMAIN s}
<1>1. Len(s) \in Nat /\ DOMAIN s = 1..Len(s) /\ Len(s) >= 1
  BY SeqShape
<1>2. \A i \in 1..(Len(s) - 1) : s[i] \in S
  BY <1>1
<1>3. /\ SubSeq(s, 1, Len(s) - 1) \in Seq(S)
      /\ Len(SubSeq(s, 1, Len(s) - 1)) = Len(s) - 1
      /\ \A i \in 1..(Len(s) - 1) : SubSeq(s, 1, Len(s) - 1)[i] = s[i]
  <2> HIDE DEF S
  <2>1. 1 \in Int /\ Len(s) - 1 \in Int
    BY <1>1
  <2>2. /\ SubSeq(s, 1, Len(s) - 1) \in Seq(S)
        /\ Len(SubSeq(s, 1, Len(s) - 1)) = IF 1 <= Len(s) - 1 THEN Len(s) - 1 - 1 + 1 ELSE 0
        /\ \A i \in 1..(Len(s) - 1 - 1 + 1) : SubSeq(s, 1, Len(s) - 1)[i] = s[1 + i - 1]
    BY <2>1, <1>2, SubSeqProperties
  <2> QED BY <1>1, <2>2
<1>4. IsSeq(SubSeq(s, 1, Len(s) - 1))
  BY <1>3, SeqIs
<1> QED BY <1>1, <1>3, <1>4 DEF Front, Last

\* One element replaced.
LEMMA ExceptShape ==
    ASSUME NEW s, NEW i, NEW x, IsSeq(s)
    PROVE  /\ IsSeq([s EXCEPT ![i] = x]) /\ Len([s EXCEPT ![i] = x]) = Len(s)
           /\ DOMAIN [s EXCEPT ![i] = x] = DOMAIN s
<1> DEFINE f == [s EXCEPT ![i] = x]
<1>1. Len(s) \in Nat /\ DOMAIN s = 1..Len(s)
  BY SeqShape
<1>2. DOMAIN f = 1..Len(s) /\ f = [j \in 1..Len(s) |-> f[j]]
  BY <1>1
<1> HIDE DEF f
<1>3. IsSeq(f) /\ Len(f) = Len(s)
  BY <1>1, <1>2, FunIsSeq
<1> QED BY <1>1, <1>2, <1>3 DEF f

\* Two elements more.
LEMMA AppendTwo ==
    ASSUME NEW s, NEW x, NEW y, IsSeq(s)
    PROVE  s \o <<x, y>> = Append(Append(s, x), y)
<1> DEFINE S == {s[i] : i \in DOMAIN s} \cup {x, y}
<1>1. s \in Seq(S) /\ x \in S /\ y \in S
  BY SeqMonotonic DEF IsSeq
<1> HIDE DEF S
<1>2. <<x, y>> \in Seq(S) /\ Len(<<x, y>>) = 2
  BY <1>1
<1>3. /\ s \o <<x, y>> \in Seq(S) /\ Len(s \o <<x, y>>) = Len(s) + 2
      /\ \A i \in 1..(Len(s) + 2) :
            (s \o <<x, y>>)[i] = IF i <= Len(s) THEN s[i] ELSE <<x, y>>[i - Len(s)]
  BY <1>1, <1>2, ConcatProperties
<1>4. /\ Append(Append(s, x), y) \in Seq(S) /\ Len(Append(Append(s, x), y)) = Len(s) + 2
      /\ \A i \in 1..Len(s) : Append(Append(s, x), y)[i] = s[i]
      /\ Append(Append(s, x), y)[Len(s) + 1] = x
      /\ Append(Append(s, x), y)[Len(s) + 2] = y
  <2>1. Append(s, x) \in Seq(S) /\ Len(Append(s, x)) = Len(s) + 1 /\ Len(s) \in Nat
    BY <1>1
  <2>2. Append(s, x)[Len(s) + 1] = x /\ \A i \in 1..Len(s) : Append(s, x)[i] = s[i]
    BY <1>1
  <2> QED BY <1>1, <2>1, <2>2
<1>5. Len(s) \in Nat
  BY <1>1
<1>6. \A i \in 1..(Len(s) + 2) : (s \o <<x, y>>)[i] = Append(Append(s, x), y)[i]
  <2>1. (s \o <<x, y>>)[Len(s) + 1] = x
    BY <1>3, <1>5
  <2>2. (s \o <<x, y>>)[Len(s) + 2] = y
    BY <1>3, <1>5
  <2>3. \A i \in 1..(Len(s) + 2) : i \in 1..Len(s) \/ i = Len(s) + 1 \/ i = Len(s) + 2
    BY <1>5
  <2> QED BY <1>3, <1>4, <1>5, <2>1, <2>2, <2>3
<1> QED BY <1>3, <1>4, <1>6, SeqEqual

\* The sequence without elements.
LEMMA EmptyShape == IsSeq(<<>>) /\ Len(<<>>) = 0
<1>1. <<>> \in Seq({}) /\ Len(<<>>) = 0
  OBVIOUS
<1> QED BY <1>1, SeqIs

\* A sequence that was written down.
LEMMA ShortSeqs ==
    ASSUME NEW x
    PROVE  /\ IsSeq(<<>>) /\ Len(<<>>) = 0
           /\ IsSeq(<<x>>) /\ Len(<<x>>) = 1 /\ <<x>>[1] = x
<1>1. <<>> \in Seq({}) /\ <<x>> \in Seq({x})
  OBVIOUS
<1> QED BY <1>1, SeqIs

-----------------------------------------------------------------------------
(* Continuations.  The first item is the base, which says what the task is;  *)
(* what is above it comes and goes.                                          *)

Bases == {"top", "thread", "handler", "mini"}

ItemOK(x) ==
    /\ "at" \in DOMAIN x
    /\ x.at = "scope" => /\ {"obj", "stage", "d", "res"} \subseteq DOMAIN x
                         /\ x.res[1] \in {"done", "ret", "err"}
                         /\ x.stage # "exit" => x.res[1] = "done"
                         /\ x.stage \in {"fill", "enter"} => x.d # <<>>

KontOK(k) ==
    /\ IsSeq(k)
    /\ \A j \in DOMAIN k : ItemOK(k[j]) /\ (k[j].at \in Bases <=> j = 1)

\* How many of its items are of certain kinds.
Places(k, ats) == {j \in DOMAIN k : k[j].at \in ats}
N(k, ats) == Cardinality(Places(k, ats))
One(b) == IF b THEN 1 ELSE 0

\* A scope block of a template that exists; one whose body failed.
Scope(k, j) == j \in DOMAIN k /\ k[j].at = "scope" /\ k[j].d # <<>>
BodyErred(k) == \E j \in DOMAIN k : k[j].at = "scope" /\ k[j].res[1] = "err"

\* A task goes on with kk after k: its base says the same.
Forward(k, kk) ==
    /\ k # <<>> /\ kk # <<>>
    /\ kk[1].at = k[1].at
    /\ k[1].at \in {"handler", "mini"} => kk[1] = k[1]
SameScopes(k, kk) ==
    \A j : /\ Scope(k, j) => Scope(kk, j) /\ kk[j] = k[j]
           /\ Scope(kk, j) => Scope(k, j)

\* The items of a continuation can be counted.
LEMMA PlacesFinite ==
    ASSUME NEW k, IsSeq(k), NEW ats
    PROVE  IsFiniteSet(Places(k, ats)) /\ N(k, ats) \in Nat
<1>1. Len(k) \in Nat /\ DOMAIN k = 1..Len(k)
  BY SeqShape
<1>2. IsFiniteSet(1..Len(k))
  BY <1>1, FS_Interval
<1>3. Places(k, ats) \subseteq 1..Len(k)
  BY <1>1 DEF Places
<1> QED BY <1>2, <1>3, FS_Subset, FS_CardinalityType DEF N

\* An item on top counts if it is of the kinds.
LEMMA CountAppend ==
    ASSUME NEW k, NEW x, IsSeq(k), NEW ats
    PROVE  N(Append(k, x), ats) = N(k, ats) + One(x.at \in ats)
<1> DEFINE kk == Append(k, x)
<1>1. /\ Len(k) \in Nat /\ DOMAIN k = 1..Len(k) /\ DOMAIN kk = 1..(Len(k) + 1)
      /\ \A j \in 1..Len(k) : kk[j] = k[j]
      /\ kk[Len(k) + 1] = x
  BY SeqShape, AppendShape
<1> HIDE DEF kk
<1>2. IsFiniteSet(Places(k, ats)) /\ N(k, ats) \in Nat
  BY PlacesFinite
<1>3. CASE x.at \in ats
  <2>1. Places(kk, ats) = Places(k, ats) \cup {Len(k) + 1}
    BY <1>1, <1>3 DEF Places
  <2>2. Len(k) + 1 \notin Places(k, ats)
    BY <1>1 DEF Places
  <2> QED BY <1>2, <1>3, <2>1, <2>2, FS_AddElement DEF N, One, kk
<1>4. CASE x.at \notin ats
  <2>1. Places(kk, ats) = Places(k, ats)
    BY <1>1, <1>4 DEF Places
  <2> QED BY <1>2, <1>4, <2>1 DEF N, One, kk
<1> QED BY <1>3, <1>4

\* The last element replaced.
LEMMA ReplaceLast ==
    ASSUME NEW k, NEW x, IsSeq(k), k # <<>>
    PROVE  /\ IsSeq(Append(Front(k), x)) /\ Len(Append(Front(k), x)) = Len(k)
           /\ DOMAIN Append(Front(k), x) = 1..Len(k) /\ Append(Front(k), x) # <<>>
           /\ Append(Front(k), x)[Len(k)] = x
           /\ \A i \in 1..(Len(k) - 1) : Append(Front(k), x)[i] = k[i]
<1> DEFINE f == Front(k)
<1>1. /\ Len(k) \in Nat /\ Len(k) >= 1
      /\ IsSeq(f) /\ Len(f) = Len(k) - 1
      /\ \A i \in 1..(Len(k) - 1) : f[i] = k[i]
  BY SeqShape, FrontShape
<1> HIDE DEF f
<1> DEFINE g == Append(f, x)
<1>2. /\ IsSeq(g) /\ Len(g) = Len(f) + 1 /\ g[Len(f) + 1] = x
      /\ \A i \in 1..Len(f) : g[i] = f[i]
  BY <1>1, AppendShape
<1> HIDE DEF g
<1>3. Len(f) + 1 = Len(k) /\ 1..Len(f) = 1..(Len(k) - 1)
  BY <1>1
<1>4. DOMAIN g = 1..Len(g) /\ g # <<>>
  BY <1>1, <1>2, <1>3, SeqShape
<1> QED BY <1>1, <1>2, <1>3, <1>4 DEF f, g

\* The same in one predicate.
Swapped(kk, k, x) ==
    /\ IsSeq(kk) /\ Len(kk) = Len(k) /\ DOMAIN kk = 1..Len(k) /\ kk # <<>>
    /\ kk[Len(k)] = x /\ \A i \in 1..(Len(k) - 1) : kk[i] = k[i]

\* Putting an item in the place of the last one.
LEMMA SwapLast ==
    ASSUME NEW k, NEW x, IsSeq(k), k # <<>>
    PROVE  Swapped(Append(Front(k), x), k, x)
BY ReplaceLast DEF Swapped

\* A continuation is its front and its top.
LEMMA FrontAndLast ==
    ASSUME NEW k, IsSeq(k), k # <<>>
    PROVE  k = Append(Front(k), Last(k))
<1> DEFINE S == {k[i] : i \in DOMAIN k}
           kk == Append(Front(k), Last(k))
<1>1. /\ Len(k) \in Nat /\ DOMAIN k = 1..Len(k) /\ Len(k) >= 1
      /\ IsSeq(Front(k)) /\ Len(Front(k)) = Len(k) - 1
      /\ \A i \in 1..(Len(k) - 1) : Front(k)[i] = k[i]
      /\ Last(k) = k[Len(k)]
  BY SeqShape, FrontShape
<1>2. /\ IsSeq(kk) /\ Len(kk) = Len(k) /\ kk[Len(k)] = k[Len(k)]
      /\ \A i \in 1..(Len(k) - 1) : kk[i] = k[i]
  BY <1>1, ReplaceLast
<1>3. \A i \in 1..Len(k) : kk[i] = k[i]
  BY <1>1, <1>2
<1>4. {kk[i] : i \in DOMAIN kk} = S
  BY <1>1, <1>2, <1>3, SeqShape
<1>5. kk \in Seq(S) /\ k \in Seq(S)
  BY <1>2, <1>4 DEF IsSeq
<1> QED BY <1>2, <1>3, <1>5, SeqEqual

\* The top is counted, too.
LEMMA CountFront ==
    ASSUME NEW k, IsSeq(k), k # <<>>, NEW ats
    PROVE  N(k, ats) = N(Front(k), ats) + One(Last(k).at \in ats)
<1> DEFINE f == Front(k)
           x == Last(k)
<1>1. IsSeq(f) /\ k = Append(f, x)
  BY FrontAndLast, FrontShape
<1> HIDE DEF f, x
<1>2. N(Append(f, x), ats) = N(f, ats) + One(x.at \in ats)
  BY <1>1, CountAppend
<1> QED BY <1>1, <1>2 DEF f, x

\* An item goes on top.
LEMMA PushKont ==
    ASSUME NEW k, NEW x, KontOK(k), k # <<>>, ItemOK(x), x.at \notin Bases
    PROVE  /\ KontOK(Append(k, x)) /\ Forward(k, Append(k, x))
           /\ BodyErred(k) => BodyErred(Append(k, x))
           /\ x.at # "scope" \/ x.d = <<>> => SameScopes(k, Append(k, x))
           /\ N(Append(k, x), ScopeItems) = N(k, ScopeItems) + One(x.at \in ScopeItems)
           /\ N(Append(k, x), CallItems) = N(k, CallItems) + One(x.at \in CallItems)
<1> DEFINE kk == Append(k, x)
<1>1. /\ Len(k) \in Nat /\ DOMAIN k = 1..Len(k) /\ Len(k) >= 1
      /\ IsSeq(kk) /\ DOMAIN kk = 1..(Len(k) + 1) /\ Len(kk) = Len(k) + 1
      /\ \A j \in 1..Len(k) : kk[j] = k[j]
      /\ kk[Len(k) + 1] = x
  BY SeqShape, AppendShape DEF KontOK
<1>2. kk # <<>>
  BY <1>1, SeqShape
<1>3. /\ N(kk, ScopeItems) = N(k, ScopeItems) + One(x.at \in ScopeItems)
      /\ N(kk, CallItems) = N(k, CallItems) + One(x.at \in CallItems)
  BY CountAppend DEF KontOK
<1> HIDE DEF kk
<1>4. KontOK(kk)
  <2>1. ASSUME NEW j \in DOMAIN kk PROVE ItemOK(kk[j]) /\ (kk[j].at \in Bases <=> j = 1)
    <3>1. CASE j \in 1..Len(k)
      BY <1>1, <3>1 DEF KontOK
    <3>2. CASE j = Len(k) + 1
      BY <1>1, <3>2
    <3> QED BY <1>1, <3>1, <3>2
  <2> QED BY <1>1, <2>1 DEF KontOK
<1>5. Forward(k, kk)
  BY <1>1, <1>2 DEF Forward
<1>6. BodyErred(k) => BodyErred(kk)
  BY <1>1 DEF BodyErred
<1>7. x.at # "scope" \/ x.d = <<>> => SameScopes(k, kk)
  BY <1>1 DEF SameScopes, Scope
<1> QED BY <1>3, <1>4, <1>5, <1>6, <1>7 DEF kk

\* What the top counts for.
LEMMA PopCount ==
    ASSUME NEW k, KontOK(k), k # <<>>
    PROVE  /\ N(k, ScopeItems) = N(Front(k), ScopeItems) + One(Last(k).at \in ScopeItems)
           /\ N(k, CallItems) = N(Front(k), CallItems) + One(Last(k).at \in CallItems)
<1>1. IsSeq(k)
  BY DEF KontOK
<1> QED BY <1>1, CountFront

\* An item that is not the base is taken from the top.
LEMMA PopKont ==
    ASSUME NEW k, KontOK(k), k # <<>>, Last(k).at \notin Bases
    PROVE  /\ KontOK(Front(k)) /\ Forward(k, Front(k))
           /\ BodyErred(k) =>
                 \/ BodyErred(Front(k))
                 \/ Last(k).at = "scope" /\ Last(k).res[1] = "err"
           /\ Last(k).at # "scope" \/ Last(k).d = <<>> => SameScopes(k, Front(k))
           /\ ItemOK(Last(k))
<1> DEFINE kk == Front(k)
<1>1. /\ Len(k) \in Nat /\ DOMAIN k = 1..Len(k) /\ Len(k) >= 1
      /\ IsSeq(kk) /\ DOMAIN kk = 1..(Len(k) - 1) /\ Len(kk) = Len(k) - 1
      /\ \A j \in 1..(Len(k) - 1) : kk[j] = k[j]
      /\ Last(k) = k[Len(k)]
  BY SeqShape, FrontShape DEF KontOK
<1>2. Len(k) # 1 /\ ItemOK(Last(k))
  BY <1>1 DEF KontOK
<1>3. kk # <<>>
  BY <1>1, <1>2, SeqShape
<1> HIDE DEF kk
<1>4. KontOK(kk)
  BY <1>1 DEF KontOK
<1>5. Forward(k, kk)
  BY <1>1, <1>2, <1>3 DEF Forward
<1>6. BodyErred(k) => BodyErred(kk) \/ (Last(k).at = "scope" /\ Last(k).res[1] = "err")
  <2>1. \A j \in DOMAIN k : j \in DOMAIN kk \/ j = Len(k)
    BY <1>1
  <2> QED BY <1>1, <2>1 DEF BodyErred
<1>7. Last(k).at # "scope" \/ Last(k).d = <<>> => SameScopes(k, kk)
  BY <1>1 DEF SameScopes, Scope
<1> QED BY <1>2, <1>4, <1>5, <1>6, <1>7 DEF kk

\* An item that may take the place of another.
Replaces(x, y) == ItemOK(x) /\ x.at = y.at /\ x.at \notin {"handler", "mini"}

\* The top is replaced by an item of its kind.
LEMMA SwapKont ==
    ASSUME NEW k, NEW x, KontOK(k), k # <<>>, Replaces(x, Last(k))
    PROVE  /\ KontOK(Append(Front(k), x)) /\ Forward(k, Append(Front(k), x))
           /\ BodyErred(k) =>
                 \/ BodyErred(Append(Front(k), x))
                 \/ x.at = "scope" /\ Last(k).res[1] = "err" /\ x.res # Last(k).res
           /\ x.at # "scope" => SameScopes(k, Append(Front(k), x))
           /\ N(Append(Front(k), x), ScopeItems) = N(k, ScopeItems)
           /\ N(Append(Front(k), x), CallItems) = N(k, CallItems)
<1> DEFINE kk == Append(Front(k), x)
<1>0. IsSeq(k)
  BY DEF KontOK
<1>1. /\ Len(k) \in Nat /\ DOMAIN k = 1..Len(k) /\ Len(k) >= 1
      /\ IsSeq(Front(k)) /\ Len(Front(k)) = Len(k) - 1
      /\ \A i \in 1..(Len(k) - 1) : Front(k)[i] = k[i]
      /\ Last(k) = k[Len(k)]
  BY <1>0, SeqShape, FrontShape
<1>a. Swapped(kk, k, x)
  BY <1>0, SwapLast
<1>2. /\ IsSeq(kk) /\ Len(kk) = Len(k) /\ kk[Len(k)] = x
      /\ \A i \in 1..(Len(k) - 1) : kk[i] = k[i]
  BY ONLY <1>a DEF Swapped
<1>3. DOMAIN kk = 1..Len(k) /\ kk # <<>>
  BY ONLY <1>a DEF Swapped
<1>4. N(kk, ScopeItems) = N(k, ScopeItems) /\ N(kk, CallItems) = N(k, CallItems)
  BY <1>0, <1>1, CountAppend, CountFront DEF Replaces
<1> HIDE DEF kk
<1>5. KontOK(kk)
  <2>1. ASSUME NEW j \in DOMAIN kk PROVE ItemOK(kk[j]) /\ (kk[j].at \in Bases <=> j = 1)
    <3>1. CASE j \in 1..(Len(k) - 1)
      BY <1>1, <1>2, <3>1 DEF KontOK, Replaces
    <3>2. CASE j = Len(k)
      BY <1>1, <1>2, <3>2 DEF KontOK, Replaces
    <3> QED BY <1>1, <1>3, <3>1, <3>2
  <2> QED BY <1>2, <2>1 DEF KontOK
<1>6. Forward(k, kk)
  <2>1. CASE Len(k) = 1
    BY <1>1, <1>2, <1>3, <2>1 DEF Forward, Replaces
  <2>2. CASE Len(k) > 1
    BY <1>1, <1>2, <1>3, <2>2 DEF Forward, Replaces
  <2> QED BY <1>1, <2>1, <2>2
<1>7. BodyErred(k) =>
         BodyErred(kk) \/ (x.at = "scope" /\ Last(k).res[1] = "err" /\ x.res # Last(k).res)
  <2>1. \A j \in DOMAIN k : j \in 1..(Len(k) - 1) \/ j = Len(k)
    BY <1>1
  <2> QED BY <1>1, <1>2, <1>3, <2>1 DEF BodyErred, Replaces
<1>8. x.at # "scope" => SameScopes(k, kk)
  BY <1>1, <1>2, <1>3 DEF SameScopes, Scope, Replaces
<1> QED BY <1>4, <1>5, <1>6, <1>7, <1>8 DEF kk

-----------------------------------------------------------------------------
(* The shape of a state.                                                     *)

TaskRecord == {"in", "mode", "kont", "raised"}
InterpRecord == {"env", "frames", "bt", "funcs", "tmpl", "thread", "self", "caught"}
ThreadRecord == {"status", "ready", "gone", "busy", "queue", "fields", "owned", "mutable"}
Statuses == {"Running", "Terminated", "Crashed"}
Kinds == {"Future", "HandlerFuture"}

\* The modes of a task that is in the middle of something.
Lively == {"node", "apply", "val", "err", "unwind", "invoke", "done", "ret"} \cup Waiting

TaskOK(t) ==
    /\ DOMAIN t = TaskRecord
    /\ t.in \in DOMAIN interps
    /\ KontOK(t.kont)
    /\ t.mode[1] \in Lively \cup {"handle", "refused"} \cup Over
    /\ t.kont = <<>> <=> t.mode[1] \in Over
    /\ t.mode[1] \in {"handle", "refused"} => Len(t.kont) = 1 /\ t.kont[1].at = "handler"
    /\ t.kont # <<>> /\ t.kont[1].at \in {"thread", "handler"} => interps[t.in].thread # 0

InterpOK(s) ==
    /\ DOMAIN s = InterpRecord /\ IsSeq(s.env) /\ IsSeq(s.frames)
    /\ s.thread \in 0..Len(threads) /\ s.self \in 0..Len(heap)

ThreadOK(s) == DOMAIN s = ThreadRecord /\ s.status \in Statuses /\ IsSeq(s.queue)

CellOK(c) == "is" \in DOMAIN c /\ (c.is \in Kinds => "out" \in DOMAIN c)
HeapOK(h) == IsSeq(h) /\ \A c \in DOMAIN h : CellOK(h[c])

Shape ==
    /\ IsSeq(tasks) /\ \A t \in DOMAIN tasks : TaskOK(tasks[t])
    /\ running \in 0..Len(tasks) /\ (running # 0 => tasks[running].kont # <<>>)
    /\ IsSeq(interps) /\ \A i \in DOMAIN interps : InterpOK(interps[i])
    /\ IsSeq(threads) /\ \A th \in DOMAIN threads : ThreadOK(threads[th])
    /\ HeapOK(heap)

-----------------------------------------------------------------------------
(* What most steps have in common: task t goes on, in its interpreter state. *)

TaskTurn(t) ==
    /\ IsSeq(tasks') /\ Len(tasks') >= Len(tasks)
    /\ \A u \in DOMAIN tasks \ {t} : tasks'[u] = tasks[u]
    /\ DOMAIN tasks'[t] = TaskRecord /\ tasks'[t].in = tasks[t].in
    /\ tasks[t].mode[1] \in Lively /\ tasks'[t].mode[1] \in Lively
    /\ KontOK(tasks'[t].kont) /\ Forward(tasks[t].kont, tasks'[t].kont)

InterpTurn(i) ==
    /\ IsSeq(interps') /\ Len(interps') >= Len(interps)
    /\ \A j \in DOMAIN interps \ {i} : interps'[j] = interps[j]
    /\ DOMAIN interps'[i] = InterpRecord
    /\ IsSeq(interps'[i].env) /\ IsSeq(interps'[i].frames)
    /\ interps'[i].thread = interps[i].thread /\ interps'[i].self = interps[i].self
    /\ interps[i].caught => interps'[i].caught

\* An error is not forgotten, unless it is caught.
ErrIn(t) == t.mode[1] \in {"err", "unwind"} \/ BodyErred(t.kont)
ErrTurn(t) == ErrIn(tasks[t]) => ErrIn(tasks'[t]) \/ interps'[tasks[t].in].caught

\* The stacks grow and shrink with the continuation, except that an error may
\* leave scopes behind.
Room(t) ==
    /\ Len(interps[tasks[t].in].env) >= 1 + N(tasks[t].kont, ScopeItems)
    /\ Len(interps[tasks[t].in].frames) >= N(tasks[t].kont, CallItems)
ScopesGrow(t, e) == e + N(tasks[t].kont, ScopeItems)
    = Len(interps[tasks[t].in].env) + N(tasks'[t].kont, ScopeItems)
ScopesStay(t, e) == e + N(tasks[t].kont, ScopeItems)
    >= Len(interps[tasks[t].in].env) + N(tasks'[t].kont, ScopeItems)
FramesGrow(t, f) == f + N(tasks[t].kont, CallItems)
    = Len(interps[tasks[t].in].frames) + N(tasks'[t].kont, CallItems)
Balance(t) ==
    LET e == Len(interps'[tasks[t].in].env)
    IN  /\ ScopesGrow(t, e) \/ (tasks'[t].mode[1] = "err" /\ ScopesStay(t, e))
        /\ FramesGrow(t, Len(interps'[tasks[t].in].frames))

Turn(t) ==
    /\ t \in DOMAIN tasks /\ running' = t
    /\ TaskTurn(t) /\ InterpTurn(tasks[t].in) /\ ErrTurn(t)
    /\ Room(t) => Balance(t)

\* Scope blocks are where they were, and nothing was started.
Quiet(t) == SameScopes(tasks[t].kont, tasks'[t].kont) /\ log' = log
NoNew == Len(tasks') = Len(tasks) /\ Len(interps') = Len(interps)

\* No future was made or got an outcome.
CellKept(c, d) == DOMAIN d = DOMAIN c /\ d.is = c.is /\ ("out" \in DOMAIN c => d.out = c.out)
HeapKept(h, hh) ==
    /\ IsSeq(hh) /\ Len(hh) >= Len(h)
    /\ \A c \in DOMAIN h : CellKept(h[c], hh[c])
    /\ \A c \in DOMAIN hh \ DOMAIN h : "is" \in DOMAIN hh[c] /\ hh[c].is \notin Kinds

\* The threads' loops are where they were.
ThreadKept(s, r) ==
    /\ DOMAIN r = DOMAIN s /\ r.status = s.status /\ r.ready = s.ready
    /\ r.gone = s.gone /\ r.queue = s.queue
ThreadsKept ==
    /\ IsSeq(threads') /\ Len(threads') = Len(threads)
    /\ \A th \in DOMAIN threads : ThreadKept(threads[th], threads'[th])

Plain(t) == Turn(t) /\ Quiet(t) /\ NoNew /\ HeapKept(heap, heap') /\ ThreadsKept

\* Modes a task may go on with: an error is not dropped on the way.
Onward(t, m) ==
    /\ tasks[t].mode[1] \in Lively /\ m[1] \in Lively
    /\ tasks[t].mode[1] \in {"err", "unwind"} => m[1] = tasks[t].mode[1]

\* What Settle does to the tasks.
LEMMA SettleTurn ==
    ASSUME Shape, NEW t \in DOMAIN tasks, NEW m, NEW kk, Settle(t, m, kk),
           tasks[t].mode[1] \in Lively, m[1] \in Lively,
           KontOK(kk), Forward(tasks[t].kont, kk)
    PROVE  /\ TaskTurn(t) /\ Len(tasks') = Len(tasks) /\ DOMAIN tasks' = DOMAIN tasks
           /\ tasks'[t].mode = m /\ tasks'[t].kont = kk
<1>1. IsSeq(tasks) /\ DOMAIN tasks[t] = TaskRecord /\ DOMAIN tasks = 1..Len(tasks)
  BY SeqShape DEF Shape, TaskOK
<1>2. Len(tasks) \in Nat
  BY <1>1, SeqShape
<1>3. DOMAIN tasks' = 1..Len(tasks) /\ tasks' = [u \in 1..Len(tasks) |-> tasks'[u]]
  BY <1>1 DEF Settle
<1>4. IsSeq(tasks') /\ Len(tasks') = Len(tasks)
  BY <1>2, <1>3, FunIsSeq
<1>5. \A u \in DOMAIN tasks \ {t} : tasks'[u] = tasks[u]
  BY <1>1 DEF Settle
<1>6. /\ DOMAIN tasks'[t] = TaskRecord /\ tasks'[t].in = tasks[t].in
      /\ tasks'[t].mode = m /\ tasks'[t].kont = kk
  BY <1>1 DEF Settle, TaskRecord
<1> QED BY <1>1, <1>2, <1>3, <1>4, <1>5, <1>6 DEF TaskTurn

\* An interpreter state with other scopes and frames.
LEMMA InterpSet ==
    ASSUME Shape, NEW i \in DOMAIN interps, NEW s, interps' = [interps EXCEPT ![i] = s],
           DOMAIN s = InterpRecord, IsSeq(s.env), IsSeq(s.frames),
           s.thread = interps[i].thread, s.self = interps[i].self,
           interps[i].caught => s.caught
    PROVE  InterpTurn(i) /\ Len(interps') = Len(interps) /\ interps'[i] = s
<1>1. IsSeq(interps)
  BY DEF Shape
<1>2. IsSeq(interps') /\ Len(interps') = Len(interps) /\ Len(interps) \in Nat
  BY <1>1, ExceptShape, SeqShape
<1>3. interps'[i] = s /\ \A j \in DOMAIN interps \ {i} : interps'[j] = interps[j]
  OBVIOUS
<1> QED BY <1>2, <1>3 DEF InterpTurn

\* Or with the ones it has.
LEMMA InterpSame ==
    ASSUME Shape, NEW i \in DOMAIN interps, interps' = interps
    PROVE  InterpTurn(i) /\ Len(interps') = Len(interps)
BY SeqShape DEF Shape, InterpOK, InterpTurn

\* Another environment.
LEMMA EnvSet ==
    ASSUME Shape, NEW i \in DOMAIN interps, NEW e, IsSeq(e),
           interps' = [interps EXCEPT ![i].env = e]
    PROVE  /\ InterpTurn(i) /\ Len(interps') = Len(interps)
           /\ interps'[i].env = e /\ interps'[i].frames = interps[i].frames
<1> DEFINE s == [interps[i] EXCEPT !.env = e]
<1>1. InterpOK(interps[i])
  BY DEF Shape
<1>2. /\ DOMAIN s = InterpRecord /\ s.env = e /\ s.frames = interps[i].frames
      /\ s.thread = interps[i].thread /\ s.self = interps[i].self
      /\ s.caught = interps[i].caught
  BY <1>1 DEF InterpOK, InterpRecord
<1>3. interps' = [interps EXCEPT ![i] = s] /\ IsSeq(s.frames) /\ IsSeq(s.env)
  BY <1>1, <1>2 DEF InterpOK
<1> HIDE DEF s
<1> QED BY <1>2, <1>3, InterpSet

\* What there is to know of the running task.
LEMMA Here ==
    ASSUME Shape, NEW t \in DOMAIN tasks
    PROVE  /\ TaskOK(tasks[t]) /\ KontOK(tasks[t].kont) /\ IsSeq(tasks[t].kont)
           /\ tasks[t].in \in DOMAIN interps /\ InterpOK(interps[tasks[t].in])
           /\ IsSeq(interps[tasks[t].in].env) /\ IsSeq(interps[tasks[t].in].frames)
           /\ Len(interps[tasks[t].in].env) \in Nat /\ Len(interps[tasks[t].in].frames) \in Nat
           /\ SameScopes(tasks[t].kont, tasks[t].kont)
           /\ tasks[t].kont # <<>> => Forward(tasks[t].kont, tasks[t].kont)
           /\ N(tasks[t].kont, ScopeItems) \in Nat /\ N(tasks[t].kont, CallItems) \in Nat
<1>1. TaskOK(tasks[t]) /\ KontOK(tasks[t].kont) /\ IsSeq(tasks[t].kont)
  BY DEF Shape, TaskOK, KontOK
<1>2. tasks[t].in \in DOMAIN interps /\ InterpOK(interps[tasks[t].in])
  BY <1>1 DEF Shape, TaskOK
<1>3. SameScopes(tasks[t].kont, tasks[t].kont)
  BY DEF SameScopes
<1>4. tasks[t].kont # <<>> => Forward(tasks[t].kont, tasks[t].kont)
  BY DEF Forward
<1>5. N(tasks[t].kont, ScopeItems) \in Nat /\ N(tasks[t].kont, CallItems) \in Nat
  BY <1>1, PlacesFinite
<1>6. IsSeq(interps[tasks[t].in].env) /\ IsSeq(interps[tasks[t].in].frames)
  BY <1>2 DEF InterpOK
<1>7. Len(interps[tasks[t].in].env) \in Nat /\ Len(interps[tasks[t].in].frames) \in Nat
  BY <1>6, SeqShape
<1> QED BY <1>1, <1>2, <1>3, <1>4, <1>5, <1>6, <1>7

\* There is one.
LEMMA Runs ==
    ASSUME Shape, running # 0
    PROVE  running \in DOMAIN tasks /\ tasks[running].kont # <<>>
BY SeqShape DEF Shape

\* A heap and threads that nothing happened to.
LEMMA NothingElse ==
    ASSUME Shape
    PROVE  HeapKept(heap, heap) /\ (threads' = threads => ThreadsKept)
<1>1. HeapKept(heap, heap)
  BY SeqShape DEF Shape, HeapOK, HeapKept, CellKept, CellOK
<1>2. threads' = threads => ThreadsKept
  BY DEF Shape, ThreadsKept, ThreadKept
<1> QED BY <1>1, <1>2

\* Task t goes on with kk, without forgetting an error.
LEMMA GoOn ==
    ASSUME Shape, NEW t \in DOMAIN tasks, NEW m, NEW kk, Settle(t, m, kk), running' = t,
           Onward(t, m), KontOK(kk), Forward(tasks[t].kont, kk),
           BodyErred(tasks[t].kont) => BodyErred(kk),
           InterpTurn(tasks[t].in), Len(interps') = Len(interps), log' = log,
           SameScopes(tasks[t].kont, kk),
           tasks'[t].kont = kk /\ tasks'[t].mode = m => (Room(t) => Balance(t))
    PROVE  Turn(t) /\ Quiet(t) /\ NoNew
<1>1. /\ TaskTurn(t) /\ Len(tasks') = Len(tasks)
      /\ tasks'[t].mode = m /\ tasks'[t].kont = kk
  BY SettleTurn DEF Onward
<1>2. ErrTurn(t)
  BY <1>1 DEF ErrTurn, ErrIn, Onward
<1> QED BY <1>1, <1>2 DEF Turn, Quiet, NoNew

\* Task t stays where it is and leaves the stacks as high as they are.
LEMMA StayOn ==
    ASSUME Shape, NEW t \in DOMAIN tasks, tasks[t].kont # <<>>,
           NEW m, Settle(t, m, tasks[t].kont), running' = t,
           Onward(t, m), log' = log, InterpTurn(tasks[t].in), Len(interps') = Len(interps),
           Len(interps'[tasks[t].in].env) = Len(interps[tasks[t].in].env),
           Len(interps'[tasks[t].in].frames) = Len(interps[tasks[t].in].frames)
    PROVE  Turn(t) /\ Quiet(t) /\ NoNew
<1>1. tasks'[t].kont = tasks[t].kont /\ tasks'[t].mode = m => (Room(t) => Balance(t))
  BY Here DEF Balance, ScopesGrow, FramesGrow
<1> QED BY <1>1, Here, GoOn

\* The same in the environment there is.
LEMMA StaySame ==
    ASSUME Shape, NEW t \in DOMAIN tasks, tasks[t].kont # <<>>,
           NEW m, Settle(t, m, tasks[t].kont), running' = t,
           Onward(t, m), log' = log, interps' = interps
    PROVE  Turn(t) /\ Quiet(t) /\ NoNew
BY Here, InterpSame, StayOn

\* An item goes on top that does not count.
LEMMA PushSame ==
    ASSUME Shape, NEW t \in DOMAIN tasks, tasks[t].kont # <<>>,
           NEW m, NEW x, Settle(t, m, Append(tasks[t].kont, x)), running' = t,
           Onward(t, m), log' = log, interps' = interps,
           ItemOK(x), x.at \notin Bases \cup ScopeItems
    PROVE  Turn(t) /\ Quiet(t) /\ NoNew
<1> DEFINE k == tasks[t].kont
           kk == Append(k, x)
<1>1. /\ KontOK(k) /\ InterpTurn(tasks[t].in) /\ Len(interps') = Len(interps)
  BY Here, InterpSame
<1>2. x.at \notin Bases /\ x.at \notin ScopeItems /\ x.at \notin CallItems /\ x.at # "scope"
  BY DEF ScopeItems, CallItems
<1>3. /\ KontOK(kk) /\ Forward(k, kk) /\ (BodyErred(k) => BodyErred(kk)) /\ SameScopes(k, kk)
      /\ N(kk, ScopeItems) = N(k, ScopeItems) + One(x.at \in ScopeItems)
      /\ N(kk, CallItems) = N(k, CallItems) + One(x.at \in CallItems)
  BY <1>1, <1>2, PushKont
<1>4. N(kk, ScopeItems) = N(k, ScopeItems) /\ N(kk, CallItems) = N(k, CallItems)
  BY <1>2, <1>3, Here DEF One
<1> HIDE DEF kk
<1>5. tasks'[t].kont = kk => Balance(t)
  BY <1>4, Here DEF Balance, ScopesGrow, FramesGrow
<1> QED BY <1>1, <1>3, <1>5, GoOn DEF kk

\* The top is replaced by an item of its kind that is no scope block.
LEMMA SwapSame ==
    ASSUME Shape, NEW t \in DOMAIN tasks, tasks[t].kont # <<>>,
           NEW m, NEW x, Settle(t, m, Append(Front(tasks[t].kont), x)), running' = t,
           Onward(t, m), log' = log, Replaces(x, Last(tasks[t].kont)), x.at # "scope",
           InterpTurn(tasks[t].in), Len(interps') = Len(interps),
           Len(interps'[tasks[t].in].env) = Len(interps[tasks[t].in].env),
           Len(interps'[tasks[t].in].frames) = Len(interps[tasks[t].in].frames)
    PROVE  Turn(t) /\ Quiet(t) /\ NoNew
<1> DEFINE k == tasks[t].kont
           kk == Append(Front(k), x)
<1>1. KontOK(k)
  BY Here
<1>2. /\ KontOK(kk) /\ Forward(k, kk) /\ (BodyErred(k) => BodyErred(kk)) /\ SameScopes(k, kk)
      /\ N(kk, ScopeItems) = N(k, ScopeItems) /\ N(kk, CallItems) = N(k, CallItems)
  BY <1>1, SwapKont
<1> HIDE DEF kk
<1>3. tasks'[t].kont = kk => Balance(t)
  BY <1>2, Here DEF Balance, ScopesGrow, FramesGrow
<1> QED BY <1>2, <1>3, GoOn DEF kk

\* The scopes without the innermost.
LEMMA PopShape ==
    ASSUME NEW e, IsSeq(e)
    PROVE  /\ IsSeq(Pop(e)) /\ IsSeq(Front(e))
           /\ Len(e) >= 1 => Len(Pop(e)) = Len(e) - 1 /\ Len(Front(e)) = Len(e) - 1
<1>1. Pop(e) = Front(e)
  BY DEF Pop, Front
<1>2. CASE e = <<>>
  <2>1. IsSeq(<<>>) /\ Len(<<>>) = 0
    BY EmptyShape
  <2>2. SubSeq(e, 1, Len(e) - 1) = <<>>
    BY <1>2, <2>1, SubSeqEmpty
  <2>3. Front(e) = <<>> /\ ~(Len(e) >= 1)
    BY <1>2, <2>1, <2>2 DEF Front
  <2> QED BY <1>1, <2>1, <2>3
<1>3. CASE e # <<>>
  BY <1>1, <1>3, FrontShape
<1> QED BY <1>2, <1>3

\* The stacks without the top: its scope and frame are popped, or an error
\* leaves the scope behind.
PopsOne(t, m) ==
    LET top == Last(tasks[t].kont)
        old == interps[tasks[t].in]
        new == interps'[tasks[t].in]
    IN  Len(old.env) >= 1 + One(top.at \in ScopeItems)
             /\ Len(old.frames) >= One(top.at \in CallItems)
        => /\ \/ Len(new.env) + One(top.at \in ScopeItems) = Len(old.env)
              \/ m[1] = "err" /\ Len(new.env) + One(top.at \in ScopeItems) >= Len(old.env)
           /\ Len(new.frames) + One(top.at \in CallItems) = Len(old.frames)

\* A call that returns pops what it pushed, and one that fails what is left of it.
LEMMA PopBalance ==
    ASSUME Shape, NEW t \in DOMAIN tasks, tasks[t].kont # <<>>, Last(tasks[t].kont).at \notin Bases,
           NEW m, InterpTurn(tasks[t].in), PopsOne(t, m),
           tasks'[t].kont = Front(tasks[t].kont), tasks'[t].mode = m, Room(t)
    PROVE  Balance(t)
<1> DEFINE k == tasks[t].kont
           kk == Front(k)
           s == One(Last(k).at \in ScopeItems)
           c == One(Last(k).at \in CallItems)
           a == Len(interps[tasks[t].in].env)
           b == Len(interps'[tasks[t].in].env)
           f == Len(interps[tasks[t].in].frames)
           g == Len(interps'[tasks[t].in].frames)
           n == N(k, ScopeItems)
           nn == N(kk, ScopeItems)
           l == N(k, CallItems)
           ll == N(kk, CallItems)
<1>1. KontOK(k)
  BY Here
<1>2. KontOK(kk) /\ n = nn + s /\ l = ll + c
  BY <1>1, PopKont, PopCount
<1>3. nn \in Nat /\ ll \in Nat /\ s \in 0..1 /\ c \in 0..1
  BY <1>2, PlacesFinite DEF KontOK, One
<1>4. a \in Nat /\ b \in Nat /\ f \in Nat /\ g \in Nat
  BY Here, SeqShape DEF InterpTurn
<1>5. a >= 1 + n /\ f >= l
  BY DEF Room
<1>6. a >= 1 + s /\ f >= c
         => /\ b + s = a \/ (m[1] = "err" /\ b + s >= a)
            /\ g + c = f
  BY DEF PopsOne
<1>7. /\ ScopesGrow(t, b) <=> b + n = a + nn
      /\ ScopesStay(t, b) <=> b + n >= a + nn
      /\ FramesGrow(t, g) <=> g + l = f + ll
  BY DEF ScopesGrow, ScopesStay, FramesGrow
<1>8. Balance(t) <=> /\ ScopesGrow(t, b) \/ (m[1] = "err" /\ ScopesStay(t, b))
                     /\ FramesGrow(t, g)
  BY DEF Balance
<1> HIDE DEF a, b, f, g, n, nn, l, ll, s, c
<1>9. a >= 1 + s /\ f >= c
  BY <1>2, <1>3, <1>4, <1>5
<1> QED BY <1>2, <1>3, <1>4, <1>6, <1>7, <1>8, <1>9

\* The top goes, which is neither the base nor a scope block.
LEMMA PopTurn ==
    ASSUME Shape, NEW t \in DOMAIN tasks, tasks[t].kont # <<>>,
           NEW m, Settle(t, m, Front(tasks[t].kont)), running' = t,
           Onward(t, m), log' = log, InterpTurn(tasks[t].in), Len(interps') = Len(interps),
           Last(tasks[t].kont).at \notin Bases \cup {"scope"}, PopsOne(t, m)
    PROVE  Turn(t) /\ Quiet(t) /\ NoNew
<1> DEFINE k == tasks[t].kont
           kk == Front(k)
<1>1. KontOK(k) /\ Last(k).at \notin Bases /\ Last(k).at # "scope"
  BY Here
<1>2. KontOK(kk) /\ Forward(k, kk) /\ (BodyErred(k) => BodyErred(kk)) /\ SameScopes(k, kk)
  BY <1>1, PopKont, PopCount
<1>3. tasks'[t].kont = kk /\ tasks'[t].mode = m => (Room(t) => Balance(t))
  BY <1>1, PopBalance
<1> QED BY <1>2, <1>3, GoOn

\* An item that does not count goes.
LEMMA PopSame ==
    ASSUME Shape, NEW t \in DOMAIN tasks, tasks[t].kont # <<>>,
           NEW m, Settle(t, m, Front(tasks[t].kont)), running' = t,
           Onward(t, m), log' = log, interps' = interps,
           Last(tasks[t].kont).at \notin Bases \cup ScopeItems
    PROVE  Turn(t) /\ Quiet(t) /\ NoNew
<1>1. InterpTurn(tasks[t].in) /\ Len(interps') = Len(interps)
  BY Here, InterpSame
<1>2. /\ Last(tasks[t].kont).at \notin Bases \cup {"scope"}
      /\ One(Last(tasks[t].kont).at \in ScopeItems) = 0
      /\ One(Last(tasks[t].kont).at \in CallItems) = 0
  BY DEF ScopeItems, CallItems, One
<1> QED BY <1>1, <1>2, Here, PopTurn DEF PopsOne

\* A continuation that has s more scopes and c more calls, and the same scope
\* blocks.
Grows(k, kk, s, c) ==
    /\ KontOK(kk) /\ Forward(k, kk)
    /\ N(kk, ScopeItems) = N(k, ScopeItems) + s /\ N(kk, CallItems) = N(k, CallItems) + c
Keeps(k, kk) == (BodyErred(k) => BodyErred(kk)) /\ SameScopes(k, kk)

\* An item that may be put on top of any task.
Above(x) == ItemOK(x) /\ x.at \notin Bases

\* A continuation that stays grows by nothing.
LEMMA GrowsSame ==
    ASSUME NEW k, KontOK(k), k # <<>>
    PROVE  Grows(k, k, 0, 0) /\ Keeps(k, k)
<1>1. N(k, ScopeItems) \in Nat /\ N(k, CallItems) \in Nat
  BY PlacesFinite DEF KontOK
<1> QED BY <1>1 DEF Grows, Keeps, Forward, SameScopes

\* One that is pushed on grows by what the new item counts.
LEMMA GrowsPush ==
    ASSUME NEW k, NEW x, KontOK(k), k # <<>>, Above(x)
    PROVE  /\ Grows(k, Append(k, x), One(x.at \in ScopeItems), One(x.at \in CallItems))
           /\ x.at # "scope" \/ x.d = <<>> => Keeps(k, Append(k, x))
BY PushKont DEF Above, Grows, Keeps

\* An item that is replaced by a later stage of the same call counts as before.
LEMMA GrowsSwap ==
    ASSUME NEW k, NEW x, KontOK(k), k # <<>>, Replaces(x, Last(k))
    PROVE  /\ Grows(k, Append(Front(k), x), 0, 0)
           /\ x.at # "scope" => Keeps(k, Append(Front(k), x))
<1> DEFINE kk == Append(Front(k), x)
<1>1. /\ KontOK(kk) /\ Forward(k, kk)
      /\ N(kk, ScopeItems) = N(k, ScopeItems) /\ N(kk, CallItems) = N(k, CallItems)
      /\ x.at # "scope" => Keeps(k, kk)
  BY SwapKont DEF Keeps
<1>2. N(k, ScopeItems) \in Nat /\ N(k, CallItems) \in Nat
  BY PlacesFinite DEF KontOK
<1> HIDE DEF kk
<1> QED BY <1>1, <1>2 DEF Grows, kk

\* First one thing, then another.
LEMMA GrowsTwice ==
    ASSUME NEW k, NEW kk, NEW kkk, NEW s \in Int, NEW c \in Int, NEW ss \in Int, NEW cc \in Int,
           KontOK(k), Grows(k, kk, s, c), Grows(kk, kkk, ss, cc)
    PROVE  /\ Grows(k, kkk, s + ss, c + cc)
           /\ Keeps(k, kk) /\ Keeps(kk, kkk) => Keeps(k, kkk)
<1>1. N(k, ScopeItems) \in Nat /\ N(k, CallItems) \in Nat
  BY PlacesFinite DEF KontOK
<1>2. Forward(k, kkk)
  BY DEF Grows, Forward
<1>3. Keeps(k, kk) /\ Keeps(kk, kkk) => Keeps(k, kkk)
  BY DEF Keeps, SameScopes
<1> QED BY <1>1, <1>2, <1>3 DEF Grows

\* The stacks that task t works on have s scopes and c frames more; no error is
\* forgotten.
Stacks(t, s, c) ==
    /\ InterpTurn(tasks[t].in) /\ Len(interps') = Len(interps)
    /\ Len(interps'[tasks[t].in].env) = Len(interps[tasks[t].in].env) + s
    /\ Len(interps'[tasks[t].in].frames) = Len(interps[tasks[t].in].frames) + c
Remembers(t, m, kk) ==
    ErrIn(tasks[t]) => \/ m[1] \in {"err", "unwind"} \/ BodyErred(kk)
                       \/ interps'[tasks[t].in].caught

\* The stacks grow with the continuation.
LEMMA GrowTurn ==
    ASSUME Shape, NEW t \in DOMAIN tasks, tasks[t].kont # <<>>, NEW s \in Nat, NEW c \in Nat,
           NEW m, NEW kk, Settle(t, m, kk), Grows(tasks[t].kont, kk, s, c),
           tasks[t].mode[1] \in Lively, m[1] \in Lively, running' = t,
           Remembers(t, m, kk), Stacks(t, s, c)
    PROVE  Turn(t) /\ NoNew /\ tasks'[t].kont = kk /\ tasks'[t].mode = m
<1>1. /\ TaskTurn(t) /\ Len(tasks') = Len(tasks)
      /\ tasks'[t].mode = m /\ tasks'[t].kont = kk
  BY SettleTurn DEF Grows
<1>2. ErrTurn(t)
  BY <1>1 DEF ErrTurn, ErrIn, Remembers
<1> DEFINE a == Len(interps[tasks[t].in].env)
           f == Len(interps[tasks[t].in].frames)
           n == N(tasks[t].kont, ScopeItems)
           l == N(tasks[t].kont, CallItems)
<1>3. a \in Nat /\ f \in Nat /\ n \in Nat /\ l \in Nat
  BY Here
<1>4. N(tasks'[t].kont, ScopeItems) = n + s /\ N(tasks'[t].kont, CallItems) = l + c
  BY <1>1 DEF Grows
<1>5. /\ ScopesGrow(t, a + s) <=> a + s + n = a + (n + s)
      /\ FramesGrow(t, f + c) <=> f + c + l = f + (l + c)
  BY <1>4 DEF ScopesGrow, FramesGrow
<1>6. ScopesGrow(t, a + s) /\ FramesGrow(t, f + c)
  <2> HIDE DEF a, f, n, l
  <2> QED BY <1>3, <1>5
<1>7. Balance(t)
  BY <1>6 DEF Balance, Stacks
<1> QED BY <1>1, <1>2, <1>7 DEF Turn, NoNew, Stacks

\* The same when no error is dropped and the scope blocks stay.
LEMMA GrowQuiet ==
    ASSUME Shape, NEW t \in DOMAIN tasks, tasks[t].kont # <<>>, NEW s \in Nat, NEW c \in Nat,
           NEW m, NEW kk, Settle(t, m, kk), Grows(tasks[t].kont, kk, s, c),
           Keeps(tasks[t].kont, kk), Onward(t, m), running' = t, log' = log, Stacks(t, s, c)
    PROVE  Turn(t) /\ Quiet(t) /\ NoNew
<1>1. /\ tasks[t].mode[1] \in Lively /\ m[1] \in Lively
      /\ Remembers(t, m, kk)
  BY DEF Onward, ErrIn, Keeps, Remembers
<1> QED BY <1>1, GrowTurn DEF Quiet, Keeps

\* A block is entered in a scope of its own.
BlockItem(b) == [at |-> "block", rest |-> b]
\* A block that is entered adds one scope.
LEMMA GrowsBlock ==
    ASSUME NEW k, NEW kk, KontOK(k), NEW s \in Nat, NEW c \in Nat, Grows(k, kk, s, c), NEW b
    PROVE  /\ Grows(k, Append(kk, BlockItem(b)), s + 1, c)
           /\ Keeps(kk, Append(kk, BlockItem(b)))
           /\ Keeps(k, kk) => Keeps(k, Append(kk, BlockItem(b)))
<1> DEFINE x == BlockItem(b)
<1>1. Above(x) /\ x.at = "block"
  BY DEF BlockItem, Above, ItemOK, Bases
<1>2. One(x.at \in ScopeItems) = 1 /\ One(x.at \in CallItems) = 0
  BY <1>1 DEF One, ScopeItems, CallItems
<1>3. KontOK(kk) /\ kk # <<>>
  BY DEF Grows, Forward
<1>4. x.at # "scope"
  BY <1>1
<1> HIDE DEF x
<1>5. Grows(kk, Append(kk, x), 1, 0) /\ Keeps(kk, Append(kk, x))
  BY <1>1, <1>2, <1>3, <1>4, GrowsPush
<1>6. /\ Grows(k, Append(kk, x), s + 1, c + 0)
      /\ Keeps(k, kk) => Keeps(k, Append(kk, x))
  <2>1. s \in Int /\ c \in Int /\ 1 \in Int /\ 0 \in Int
    OBVIOUS
  <2> QED BY <1>5, <2>1, GrowsTwice
<1>7. c + 0 = c
  OBVIOUS
<1> QED BY <1>5, <1>6, <1>7 DEF x

\* Entering a block is a turn, on top of whatever continuation the statement left.
LEMMA EnterTurn ==
    ASSUME Shape, running # 0, tasks[running].mode[1] \in Lively, NEW b, NEW kk, NEW e,
           NEW s \in Nat, EnterBlock(b, kk, e), Grows(tasks[running].kont, kk, s, 0),
           IsSeq(e), Len(e) = Len(I.env) + s, running' = running,
           ErrIn(tasks[running]) => BodyErred(kk)
    PROVE  /\ Turn(running) /\ NoNew
           /\ tasks'[running].kont = Append(kk, BlockItem(b))
           /\ tasks'[running].mode = <<"done">>
           /\ Keeps(kk, tasks'[running].kont)
<1> DEFINE t == running
           k == tasks[t].kont
           top == Append(kk, BlockItem(b))
           more == s + 1
           none == 0
           m == <<"done">>
<1>1. t \in DOMAIN tasks /\ k # <<>> /\ KontOK(k) /\ tasks[t].in \in DOMAIN interps
  BY Runs, Here
<1>2. Settle(t, m, top)
  BY DEF EnterBlock, To, Done, T, BlockItem
<1>3. interps' = [interps EXCEPT ![tasks[t].in].env = Push(e)]
  BY DEF EnterBlock, SetEnv, T
<1>4. IsSeq(Push(e)) /\ Len(Push(e)) = Len(interps[tasks[t].in].env) + more
  <2> DEFINE n == Len(interps[tasks[t].in].env)
  <2>1. IsSeq(Push(e)) /\ Len(Push(e)) = n + s + 1
    BY AppendShape DEF Push, I, T
  <2>2. n \in Nat
    BY <1>1, Here
  <2> HIDE DEF n
  <2>3. n + s + 1 = n + more
    BY <2>2
  <2> QED BY <2>1, <2>3 DEF n
<1>5. /\ InterpTurn(tasks[t].in) /\ Len(interps') = Len(interps)
      /\ interps'[tasks[t].in].env = Push(e)
      /\ interps'[tasks[t].in].frames = interps[tasks[t].in].frames
  BY <1>1, <1>3, <1>4, EnvSet
<1>6. Grows(k, top, more, none) /\ Keeps(kk, top)
  BY <1>1, GrowsBlock
<1>7. ErrIn(tasks[t]) => BodyErred(top)
  BY <1>6 DEF Keeps
<1>8. Stacks(t, more, none)
  <2>1. Len(interps'[tasks[t].in].frames) = Len(interps[tasks[t].in].frames) + none
    BY <1>1, <1>5, Here
  <2> HIDE DEF more, none, t
  <2> QED BY <1>4, <1>5, <2>1 DEF Stacks
<1>9. more \in Nat /\ none \in Nat /\ m[1] \in Lively
  BY DEF Lively
<1> HIDE DEF top, more, none, m, t
<1>10. tasks[t].mode[1] \in Lively /\ running' = t /\ Remembers(t, m, top)
  BY <1>7 DEF t, Remembers
<1>11. Turn(t) /\ NoNew /\ tasks'[t].kont = top /\ tasks'[t].mode = m
  BY <1>1, <1>2, <1>6, <1>8, <1>9, <1>10, GrowTurn
<1> QED BY <1>6, <1>11 DEF top, m, t

\* It touches no scope block.
LEMMA EnterQuiet ==
    ASSUME Shape, running # 0, Onward(running, <<"done">>), NEW b, NEW kk, NEW e,
           NEW s \in Nat, EnterBlock(b, kk, e), Grows(tasks[running].kont, kk, s, 0),
           Keeps(tasks[running].kont, kk),
           IsSeq(e), Len(e) = Len(I.env) + s, running' = running, log' = log
    PROVE  Turn(running) /\ Quiet(running) /\ NoNew
<1>1. tasks[running].mode[1] \in Lively /\ tasks[running].mode[1] \notin {"err", "unwind"}
  BY DEF Onward
<1>2. ErrIn(tasks[running]) => BodyErred(kk)
  BY <1>1 DEF ErrIn, Keeps
<1>3. /\ Turn(running) /\ NoNew /\ Keeps(kk, tasks'[running].kont)
  BY <1>1, <1>2, EnterTurn
<1> QED BY <1>3 DEF Quiet, Keeps, SameScopes

\* Nothing happens to threads and cells.
LEMMA PlainSame ==
    ASSUME Shape, NEW t, Turn(t), Quiet(t), NoNew, heap' = heap, threads' = threads
    PROVE  Plain(t)
BY NothingElse DEF Plain

-----------------------------------------------------------------------------
(* Expressions.                                                              *)

Outcomes == {"val", "err", "unwind"}

\* Operators give a value, an error or a panic.
LEMMA OperatorOutcome ==
    ASSUME NEW op, NEW l, NEW r
    PROVE  /\ EvalBinOp(op, l, r)[1] \in Outcomes
           /\ \A m \in EvalUnary(op, l) : m[1] \in Outcomes
<1>1. EvalBinOp(op, l, r)[1] \in Outcomes
  BY DEF EvalBinOp, Divide, Yield, Fail, Unwind, TypeError, Outcomes
<1>2. \A m \in EvalUnary(op, l) : m[1] \in Outcomes
  BY DEF EvalUnary, Yield, Fail, Unwind, Outcomes
<1> QED BY <1>1, <1>2

\* So do expressions.
LEMMA ValueOutcome ==
    ASSUME NEW n, NEW vals, NEW m \in Value(n, vals)
    PROVE  m[1] \in Outcomes
<1>1. /\ Logical(n.x, vals)[1] \in Outcomes /\ EvalIdent(n.x)[1] \in Outcomes
      /\ EvalIndex(vals[1], vals[2], heap)[1] \in Outcomes
  BY DEF Logical, EvalIdent, EvalIndex, Yield, Fail, Outcomes
<1>2. \A fields : EvalFieldAccess(vals[1], n.x, heap, fields)[1] \in Outcomes
  BY DEF EvalFieldAccess, Yield, Fail, Outcomes
<1>3. /\ \A v : Yield(v)[1] \in Outcomes
      /\ \A kind, why : Fail(kind, why)[1] \in Outcomes
  BY DEF Yield, Fail, Outcomes
<1> QED BY <1>1, <1>2, <1>3, OperatorOutcome DEF Value

\* An expression is evaluated, operands first.
LEMMA EvaluatePlain == ASSUME Shape, running # 0, Evaluate PROVE Plain(running)
<1> DEFINE t == running
           k == tasks[t].kont
           x(n) == [at |-> "args", n |-> n, vals |-> <<>>]
<1>1. t \in DOMAIN tasks /\ k # <<>>
  BY Runs
<1>2. \A n : Onward(t, <<"apply", n, <<>>>>) /\ Onward(t, <<"node", n>>)
  BY DEF Evaluate, Onward, Lively, Kind, Mode, T
<1>3. /\ running' = t /\ log' = log /\ interps' = interps /\ heap' = heap /\ threads' = threads
  BY DEF Evaluate
<1>4. CASE Operands(Node_) = <<>>
  <2>1. Settle(t, <<"apply", Node_, <<>>>>, k)
    BY <1>4 DEF Evaluate, To, T
  <2> QED BY <1>1, <1>2, <1>3, <2>1, StaySame, PlainSame
<1>5. CASE Operands(Node_) # <<>>
  <2>1. Settle(t, <<"node", Operands(Node_)[1]>>, Append(k, x(Node_)))
    BY <1>5 DEF Evaluate, To, T
  <2>2. ItemOK(x(Node_)) /\ x(Node_).at \notin Bases \cup ScopeItems
    BY DEF ItemOK, Bases, ScopeItems
  <2> HIDE DEF x
  <2> QED BY <1>1, <1>2, <1>3, <2>1, <2>2, PushSame, PlainSame
<1> QED BY <1>4, <1>5

\* The top item, as the actions name it.
LEMMA TopItem ==
    ASSUME Shape, running # 0, NEW a, At(a)
    PROVE  /\ running \in DOMAIN tasks /\ tasks[running].kont # <<>>
           /\ KontOK(tasks[running].kont) /\ ItemOK(Last(tasks[running].kont))
           /\ Last(tasks[running].kont).at = a
           /\ a \in Bases => Len(tasks[running].kont) = 1
<1> DEFINE k == tasks[running].kont
<1>1. running \in DOMAIN tasks /\ k # <<>> /\ KontOK(k) /\ IsSeq(k)
  BY Runs, Here
<1>2. Last(tasks[running].kont).at = a
  BY DEF At, Top, T
<1>3. Last(k) = k[Len(k)] /\ Len(k) \in DOMAIN k
  <2>1. Last(k) = k[Len(k)] /\ Len(k) >= 1 /\ DOMAIN k = 1..Len(k) /\ Len(k) \in Nat
    BY <1>1, FrontShape, SeqShape
  <2> QED BY <2>1
<1>4. ItemOK(k[Len(k)]) /\ (k[Len(k)].at \in Bases => Len(k) = 1)
  <2> HIDE DEF k
  <2> QED BY <1>1, <1>3 DEF KontOK
<1> QED BY <1>1, <1>2, <1>3, <1>4

\* An item with the same fields.
LEMMA SameItem ==
    ASSUME NEW x, NEW y, ItemOK(y), DOMAIN x = DOMAIN y, x.at = y.at,
           y.at \notin {"scope", "handler", "mini"}
    PROVE  Replaces(x, y)
BY DEF Replaces, ItemOK

\* The next operand, or the operator.
LEMMA OperandPlain == ASSUME Shape, running # 0, Operand PROVE Plain(running)
<1> DEFINE t == running
           k == tasks[t].kont
           vals == Append(Last(k).vals, tasks[t].mode[2])
           x == [Last(k) EXCEPT !.vals = vals]
           apply == <<"apply", Last(k).n, vals>>
           node == <<"node", Operands(Last(k).n)[Len(vals) + 1]>>
<1>1. /\ t \in DOMAIN tasks /\ k # <<>> /\ ItemOK(Last(k)) /\ Last(k).at = "args"
  BY TopItem DEF Operand
<1>2. Onward(t, apply) /\ Onward(t, node)
  BY DEF Operand, Onward, Lively, Kind, Mode, T
<1>3. /\ running' = t /\ log' = log /\ interps' = interps /\ heap' = heap /\ threads' = threads
  BY DEF Operand
<1>4. Settle(t, apply, Front(k)) \/ Settle(t, node, Append(Front(k), x))
  BY DEF Operand, To, T, Top, Rest, Mode
<1>5. Last(k).at \notin Bases \cup ScopeItems
  BY <1>1 DEF Bases, ScopeItems
<1>6. Replaces(x, Last(k)) /\ x.at # "scope"
  BY <1>1, SameItem DEF ItemOK
<1> HIDE DEF x, apply, node
<1>7. CASE Settle(t, apply, Front(k))
  BY <1>1, <1>2, <1>3, <1>5, <1>7, PopSame, PlainSame
<1>8. CASE Settle(t, node, Append(Front(k), x))
  BY <1>1, <1>2, <1>3, <1>6, <1>8, Here, InterpSame, SwapSame, PlainSame
<1> QED BY <1>4, <1>7, <1>8

\* An expression that neither waits nor calls.
LEMMA ApplyValuePlain == ASSUME Shape, running # 0, ApplyValue PROVE Plain(running)
<1>1. PICK m \in Value(Node_, Mode[3]) : To(m, T.kont)
  BY DEF ApplyValue
<1>2. m[1] \in Outcomes
  BY <1>1, ValueOutcome
<1>3. Onward(running, m)
  BY <1>2 DEF ApplyValue, Onward, Outcomes, Lively, Kind, Mode, T
<1>4. Settle(running, m, tasks[running].kont)
  BY <1>1 DEF To, T
<1>5. /\ running' = running /\ log' = log /\ interps' = interps /\ heap' = heap
      /\ threads' = threads
  BY DEF ApplyValue
<1> QED BY <1>3, <1>4, <1>5, Runs, StaySame, PlainSame

\* Waiting.
LEMMA ApplyWaitPlain == ASSUME Shape, running # 0, ApplyWait PROVE Plain(running)
<1> DEFINE m == <<"wait", Mode[3][1][2]>>
<1>1. Onward(running, m)
  BY DEF ApplyWait, Onward, Lively, Waiting, Kind, Mode, T
<1>2. Settle(running, m, tasks[running].kont)
  BY DEF ApplyWait, To, T
<1>3. /\ running' = running /\ log' = log /\ interps' = interps /\ heap' = heap
      /\ threads' = threads
  BY DEF ApplyWait
<1> HIDE DEF m
<1> QED BY <1>1, <1>2, <1>3, Runs, StaySame, PlainSame

\* A try expression.
LEMMA TryStartPlain == ASSUME Shape, running # 0, TryStart PROVE Plain(running)
<1> DEFINE m == <<"node", Node_.args[1]>>
           x == [at |-> "try"]
<1>1. Onward(running, m)
  BY DEF TryStart, Onward, Lively, Kind, Mode, T
<1>2. Settle(running, m, Append(tasks[running].kont, x))
  BY DEF TryStart, To, T
<1>3. /\ running' = running /\ log' = log /\ interps' = interps /\ heap' = heap
      /\ threads' = threads
  BY DEF TryStart
<1>4. ItemOK(x) /\ x.at \notin Bases \cup ScopeItems
  BY DEF ItemOK, Bases, ScopeItems
<1> HIDE DEF m, x
<1> QED BY <1>1, <1>2, <1>3, <1>4, Runs, PushSame, PlainSame

-----------------------------------------------------------------------------
(* Steps that change the heap.                                               *)

\* Something else in a field of a cell, other than what makes it a future.
LEMMA HeapField ==
    ASSUME NEW h, HeapOK(h), NEW c, NEW f, f \notin {"is", "out"}, NEW v,
           NEW hh, hh = [h EXCEPT ![c] = [h[c] EXCEPT ![f] = v]]
    PROVE  HeapKept(h, hh)
<1>1. IsSeq(h)
  BY DEF HeapOK
<1>2. IsSeq(hh) /\ Len(hh) = Len(h) /\ DOMAIN hh = DOMAIN h
  BY <1>1, ExceptShape
<1>3. ASSUME NEW d \in DOMAIN h PROVE CellKept(h[d], hh[d])
  <2>1. CellOK(h[d])
    BY DEF HeapOK
  <2>2. hh[d] = h[d] \/ hh[d] = [h[d] EXCEPT ![f] = v]
    OBVIOUS
  <2> QED BY <2>1, <2>2 DEF CellOK, CellKept
<1>4. Len(h) \in Nat
  BY <1>1, SeqShape
<1> QED BY <1>2, <1>3, <1>4 DEF HeapKept

\* A new cell.
Fresh(h, hh, ty, fields) ==
    /\ IsSeq(hh) /\ Len(hh) = Len(h) + 1 /\ Len(h) \in Nat
    /\ \A c \in DOMAIN h : c \in DOMAIN hh /\ hh[c] = h[c]
    /\ DOMAIN hh = DOMAIN h \cup {Len(h) + 1}
    /\ "is" \in DOMAIN hh[Len(h) + 1] /\ hh[Len(h) + 1].is = ty
    /\ \A x \in DOMAIN fields : x # "is" =>
          x \in DOMAIN hh[Len(h) + 1] /\ hh[Len(h) + 1][x] = fields[x]

\* Cell adds one cell and leaves the others.
LEMMA NewCell ==
    ASSUME NEW h, HeapOK(h), NEW ty, NEW fields
    PROVE  Fresh(h, Cell(h, ty, fields), ty, fields)
<1> DEFINE d == Put(fields, "is", ty)
           hh == Cell(h, ty, fields)
<1>1. IsSeq(h) /\ hh = Append(h, d)
  BY DEF HeapOK, Cell
<1>2. /\ "is" \in DOMAIN d /\ d.is = ty
      /\ \A x \in DOMAIN fields : x # "is" => x \in DOMAIN d /\ d[x] = fields[x]
  BY DEF Put
<1> HIDE DEF d, hh
<1>3. /\ IsSeq(hh) /\ Len(hh) = Len(h) + 1 /\ Len(h) \in Nat
      /\ \A c \in 1..Len(h) : hh[c] = h[c]
      /\ hh[Len(h) + 1] = d
      /\ DOMAIN h = 1..Len(h)
  BY <1>1, AppendShape, SeqShape
<1>4. DOMAIN hh = 1..(Len(h) + 1)
  BY <1>3, SeqShape
<1>5. DOMAIN hh = DOMAIN h \cup {Len(h) + 1}
  BY <1>3, <1>4
<1> QED BY <1>2, <1>3, <1>5 DEF Fresh, hh

\* A new cell that nobody waits for.
LEMMA HeapMore ==
    ASSUME NEW h, HeapOK(h), NEW ty, ty \notin Kinds, NEW fields
    PROVE  HeapKept(h, Cell(h, ty, fields))
<1> DEFINE hh == Cell(h, ty, fields)
<1>1. Fresh(h, hh, ty, fields)
  BY NewCell
<1> HIDE DEF hh
<1> QED BY <1>1 DEF Fresh, HeapKept, CellKept, hh

\* A heap that stays is kept.
LEMMA HeapStays ==
    ASSUME NEW h, HeapOK(h)
    PROVE  HeapKept(h, h)
BY SeqShape DEF HeapOK, HeapKept, CellKept

\* One change after the other.
LEMMA HeapTwice ==
    ASSUME NEW h, NEW hh, NEW hhh, HeapOK(h), HeapKept(h, hh)
    PROVE  HeapOK(hh) /\ (HeapKept(hh, hhh) => HeapKept(h, hhh))
<1>1. DOMAIN h = 1..Len(h) /\ DOMAIN hh = 1..Len(hh) /\ Len(h) \in Nat /\ Len(hh) \in Nat
  BY SeqShape DEF HeapOK, HeapKept
<1>2. DOMAIN h \subseteq DOMAIN hh
  BY <1>1 DEF HeapKept
<1>3. \A c \in DOMAIN hh : CellOK(hh[c])
  BY DEF HeapOK, HeapKept, CellKept, CellOK
<1>4. HeapOK(hh)
  BY <1>3 DEF HeapOK, HeapKept
<1>5. ASSUME HeapKept(hh, hhh) PROVE HeapKept(h, hhh)
  <2>1. Len(hhh) \in Nat /\ DOMAIN hhh = 1..Len(hhh)
    BY <1>5, SeqShape DEF HeapKept
  <2>2. IsSeq(hhh) /\ Len(hhh) >= Len(h)
    BY <1>1, <1>5, <2>1 DEF HeapKept
  <2>3. \A c \in DOMAIN h : CellKept(h[c], hhh[c])
    BY <1>2, <1>5 DEF HeapKept, CellKept
  <2>4. \A c \in DOMAIN hhh \ DOMAIN h : "is" \in DOMAIN hhh[c] /\ hhh[c].is \notin Kinds
    BY <1>2, <1>5 DEF HeapKept, CellKept
  <2> QED BY <2>2, <2>3, <2>4 DEF HeapKept
<1> QED BY <1>4, <1>5

\* What constructors and methods make of the heap.
Harmless(r, h) == r.to[1] \in Outcomes \cup {"done"} /\ HeapKept(h, r.heap)

\* Constructors, stores and methods change no future and add none.
LEMMA CtorHarmless ==
    ASSUME NEW n, NEW args, NEW h, HeapOK(h)
    PROVE  Harmless(EvalTypeCtor(n, args, h), h)
<1>1. HeapKept(h, h)
  BY HeapStays
<1>2. \A fields : /\ HeapKept(h, Cell(h, "List", fields))
                  /\ HeapKept(h, Cell(h, "Map", fields))
  BY HeapMore DEF Kinds
<1> QED BY <1>1, <1>2 DEF EvalTypeCtor, Harmless, Outcomes, Yield, Fail

\* Likewise for what is stored at an index.
LEMMA StoreHarmless ==
    ASSUME NEW v, NEW i, NEW new, NEW h, HeapOK(h)
    PROVE  Harmless(StoreIndex(v, i, new, h), h)
<1>1. HeapKept(h, h)
  BY HeapStays
<1>2. HeapKept(h, [h EXCEPT ![v[2]].items[i[2] + 1] = new])
  BY HeapField
<1> QED BY <1>1, <1>2 DEF StoreIndex, Harmless, Outcomes, Fail

\* Likewise for the methods that do not wait.
LEMMA MethodHarmless ==
    ASSUME NEW m, NEW v, NEW args, NEW h, HeapOK(h)
    PROVE  Harmless(EvalMethodCall(m, v, args, h), h)
<1>1. HeapKept(h, h)
  BY HeapStays
<1>2. \A id, new : /\ HeapKept(h, [h EXCEPT ![id].items = new])
                   /\ HeapKept(h, [h EXCEPT ![id].map = new])
                   /\ HeapKept(h, [h EXCEPT ![id].raised = new])
  BY HeapField
<1>3. Harmless(ListMethod(m, v, args, h), h)
  BY <1>1, <1>2 DEF ListMethod, Harmless, Outcomes, Yield, Fail
<1>4. Harmless(MapMethod(m, v, args, h), h)
  BY <1>1, <1>2 DEF MapMethod, Harmless, Outcomes, Yield, Fail
<1>5. Harmless(SignalMethod(m, v, h), h)
  BY <1>1, <1>2 DEF SignalMethod, Harmless, Outcomes, Yield, Fail
<1>6. OptionMethod(m, v, args)[1] \in Outcomes
  BY DEF OptionMethod, Outcomes, Yield, Fail
<1>7. ResultMethod(m, v, args)[1] \in Outcomes
  BY DEF ResultMethod, Outcomes, Yield, Fail
<1>8. ScalarMethod(m, v)[1] \in Outcomes
  BY DEF ScalarMethod, Outcomes, Yield, Fail
<1>9. \A to : to[1] \in Outcomes => Harmless([to |-> to, heap |-> h], h)
  BY <1>1 DEF Harmless
<1> QED BY <1>3, <1>4, <1>5, <1>6, <1>7, <1>8, <1>9 DEF EvalMethodCall

\* Threads that nothing happened to.
LEMMA PlainHeap ==
    ASSUME Shape, NEW t, Turn(t), Quiet(t), NoNew, HeapKept(heap, heap'), threads' = threads
    PROVE  Plain(t)
BY NothingElse DEF Plain

\* Constructors and methods.
LEMMA ApplyMethodPlain == ASSUME Shape, running # 0, ApplyMethod PROVE Plain(running)
<1>1. HeapOK(heap)
  BY DEF Shape
<1>2. PICK r : Harmless(r, heap) /\ To(r.to, T.kont) /\ heap' = r.heap
  BY <1>1, CtorHarmless, MethodHarmless DEF ApplyMethod
<1> DEFINE m == r.to
<1>3. m[1] \in Outcomes \cup {"done"} /\ HeapKept(heap, heap')
  BY <1>2 DEF Harmless
<1>4. Settle(running, m, tasks[running].kont)
  BY <1>2 DEF To, T
<1> HIDE DEF m
<1>5. Onward(running, m)
  BY <1>3 DEF ApplyMethod, Onward, Outcomes, Lively, Kind, Mode, T
<1>6. running' = running /\ log' = log /\ interps' = interps /\ threads' = threads
  BY DEF ApplyMethod
<1> QED BY <1>3, <1>4, <1>5, <1>6, Runs, StaySame, PlainHeap

\* A signal, or a wait without an answer to wait for.
LEMMA ApplySpecialPlain == ASSUME Shape, running # 0, ApplySpecial PROVE Plain(running)
<1>1. HeapKept(heap, heap')
  <2>1. \A fields : HeapKept(heap, Cell(heap, "signal", fields))
    BY HeapMore DEF Shape, Kinds
  <2>2. HeapKept(heap, heap)
    BY HeapStays DEF Shape
  <2> QED BY <2>1, <2>2 DEF ApplySpecial, Special
<1>2. PICK m : To(m, T.kont) /\ m[1] \in {"val", "forever", "sleep"}
  <2>1. Yield(Ref("signal", Len(heap) + 1))[1] = "val" /\ Yield(Void)[1] = "val"
    BY DEF Yield
  <2>2. CASE Node_.x = "signal"
    BY <2>1, <2>2 DEF ApplySpecial
  <2>3. CASE Node_.x = "keepalive"
    <3>1. To(<<"forever">>, T.kont)
      BY <2>3 DEF ApplySpecial
    <3> QED BY <3>1
  <2>4. CASE Node_.x = "asleep"
    <3>1. To(<<"sleep">>, T.kont) \/ To(Yield(Void), T.kont)
      BY <2>4 DEF ApplySpecial
    <3> QED BY <2>1, <3>1
  <2> QED BY <2>2, <2>3, <2>4 DEF ApplySpecial, Special
<1>3. Settle(running, m, tasks[running].kont)
  BY <1>2 DEF To, T
<1>4. Onward(running, m)
  BY <1>2 DEF ApplySpecial, Onward, Lively, Waiting, Kind, Mode, T
<1>5. running' = running /\ log' = log /\ interps' = interps /\ threads' = threads
  BY DEF ApplySpecial
<1> QED BY <1>1, <1>3, <1>4, <1>5, Runs, StaySame, PlainHeap

\* A call of a function that is not async goes on in the same task.
LEMMA ApplyCallPlain ==
    ASSUME Shape, running # 0, ApplyCall, Named(I.funcs, Node_.x)[1].kind # "async"
    PROVE  Plain(running)
<1> DEFINE m == <<"invoke", Named(I.funcs, Node_.x)[1], Mode[3]>>
<1>1. /\ Settle(running, m, tasks[running].kont) /\ heap' = heap /\ interps' = interps
      /\ running' = running /\ log' = log /\ threads' = threads
  BY DEF ApplyCall, To, T
<1>2. Onward(running, m)
  BY DEF ApplyCall, Onward, Lively, Kind, Mode, T
<1> HIDE DEF m
<1> QED BY <1>1, <1>2, Runs, StaySame, PlainSame

\* One interpreter state that changed in place.
InterpNow(i) ==
    /\ DOMAIN interps' = DOMAIN interps /\ interps' = [j \in DOMAIN interps |-> interps'[j]]
    /\ \A j \in DOMAIN interps \ {i} : interps'[j] = interps[j]
    /\ DOMAIN interps'[i] = DOMAIN interps[i]
    /\ IsSeq(interps'[i].env) /\ IsSeq(interps'[i].frames)
    /\ interps'[i].thread = interps[i].thread /\ interps'[i].self = interps[i].self
    /\ interps[i].caught => interps'[i].caught

\* An update of one interpreter's state is a turn of that interpreter.
LEMMA InterpAt ==
    ASSUME Shape, NEW i \in DOMAIN interps, InterpNow(i)
    PROVE  InterpTurn(i) /\ Len(interps') = Len(interps)
<1>1. IsSeq(interps) /\ DOMAIN interps = 1..Len(interps) /\ Len(interps) \in Nat
  BY SeqShape DEF Shape
<1>2. IsSeq(interps') /\ Len(interps') = Len(interps)
  BY <1>1, FunIsSeq DEF InterpNow
<1>3. DOMAIN interps'[i] = InterpRecord
  BY DEF InterpNow, Shape, InterpOK
<1> QED BY <1>1, <1>2, <1>3 DEF InterpNow, InterpTurn

\* An item that does not count goes.
LEMMA GrowsPop ==
    ASSUME NEW k, KontOK(k), k # <<>>, Last(k).at \notin Bases \cup ScopeItems
    PROVE  Grows(k, Front(k), 0, 0) /\ Keeps(k, Front(k))
<1> DEFINE kk == Front(k)
           y == Last(k)
<1>1. y.at \notin Bases /\ y.at # "scope" /\ y.at \notin ScopeItems /\ y.at \notin CallItems
  BY DEF ScopeItems, CallItems
<1>2. /\ KontOK(kk) /\ Forward(k, kk) /\ Keeps(k, kk)
      /\ N(k, ScopeItems) = N(kk, ScopeItems) + 0 /\ N(k, CallItems) = N(kk, CallItems) + 0
  BY <1>1, PopKont, PopCount DEF Keeps, One
<1>3. N(kk, ScopeItems) \in Nat /\ N(kk, CallItems) \in Nat
  BY <1>2, PlacesFinite DEF KontOK
<1> HIDE DEF kk
<1>4. N(kk, ScopeItems) = N(k, ScopeItems) + 0 /\ N(kk, CallItems) = N(k, CallItems) + 0
  BY <1>2, <1>3
<1> QED BY <1>2, <1>4 DEF Grows, kk

\* What a try expression catches is remembered as caught.
LEMMA TryReturnPlain == ASSUME Shape, running # 0, TryReturn PROVE Plain(running)
<1> DEFINE t == running
           i == tasks[t].in
           k == tasks[t].kont
           m == Yield(IF Failed THEN Err(ErrorObj(Mode[2])) ELSE Ok(Mode[2]))
<1>1. /\ t \in DOMAIN tasks /\ k # <<>> /\ Last(k).at = "try" /\ KontOK(k)
      /\ i \in DOMAIN interps /\ InterpOK(interps[i])
  BY TopItem, Here DEF TryReturn
<1>2. Last(k).at \notin Bases \cup ScopeItems
  BY <1>1 DEF Bases, ScopeItems
<1>3. Settle(t, m, Front(k)) /\ m[1] = "val"
  BY DEF TryReturn, To, T, Rest, Yield
<1>4. /\ interps' = [interps EXCEPT ![i].caught = @ \/ Failed]
      /\ running' = t /\ log' = log /\ heap' = heap /\ threads' = threads
  BY DEF TryReturn, T
<1>5. /\ InterpNow(i) /\ interps'[i].env = interps[i].env /\ interps'[i].frames = interps[i].frames
      /\ Failed => interps'[i].caught
  BY <1>1, <1>4 DEF InterpNow, InterpOK, InterpRecord
<1>6. Grows(k, Front(k), 0, 0) /\ Keeps(k, Front(k))
  BY <1>1, <1>2, GrowsPop
<1>7. Stacks(t, 0, 0)
  BY <1>1, <1>5, InterpAt, Here DEF Stacks
<1>8. tasks[t].mode[1] \in Lively /\ m[1] \in Lively
  BY <1>3 DEF TryReturn, Failed, Kind, Mode, T, Lively
<1>9. Remembers(t, m, Front(k))
  BY <1>5, <1>6 DEF Remembers, ErrIn, Keeps, TryReturn, Failed, Kind, Mode, T
<1> DEFINE kk == Front(k)
           none == 0
<1>10. none \in Nat
  OBVIOUS
<1> HIDE DEF m, kk, none
<1>11. Turn(t) /\ NoNew /\ tasks'[t].kont = kk
  <2>1. /\ Settle(t, m, kk) /\ Grows(k, kk, none, none) /\ Stacks(t, none, none)
        /\ Remembers(t, m, kk) /\ running' = t
    BY <1>3, <1>4, <1>6, <1>7, <1>9 DEF kk, none
  <2> QED BY <1>1, <1>8, <1>10, <2>1, GrowTurn
<1>12. Quiet(t)
  BY <1>4, <1>6, <1>11 DEF Quiet, Keeps, kk
<1> QED BY <1>4, <1>11, <1>12, PlainSame

\* A call pushes its frame and two scopes; what is refused is an error here.
LEMMA InvokePlain == ASSUME Shape, running # 0, Invoke PROVE Plain(running)
<1> DEFINE t == running
           i == tasks[t].in
           k == tasks[t].kont
           f == Mode[2]
           c == [at |-> "call", f |-> f]
<1>1. /\ t \in DOMAIN tasks /\ k # <<>> /\ KontOK(k) /\ IsSeq(k)
      /\ i \in DOMAIN interps /\ InterpOK(interps[i])
      /\ IsSeq(interps[i].env) /\ IsSeq(interps[i].frames)
  BY Runs, Here
<1>2. running' = t /\ log' = log /\ heap' = heap /\ threads' = threads /\ tasks[t].mode[1] = "invoke"
  BY DEF Invoke, Kind, Mode, T
<1>3. CASE Accepts(f, Mode[3])
  <2> DEFINE b == BlockItem(f.body)
             e == Push(Append(interps[i].env, Bind(f.params, Mode[3])))
             frames == Append(interps[i].frames, f.x)
  <2>1. /\ Settle(t, Done, k \o <<c, b>>)
        /\ interps' = [interps EXCEPT ![i].frames = frames, ![i].env = e]
    BY <1>3 DEF Invoke, To, T, I, BlockItem
  <2>2. k \o <<c, b>> = Append(Append(k, c), b)
    <3> HIDE DEF c, b
    <3> QED BY <1>1, AppendTwo
  <2>3. Settle(t, Done, Append(Append(k, c), b))
    BY <2>1, <2>2
  <2>4. Above(c) /\ c.at = "call" /\ c.at # "scope"
    BY DEF Above, ItemOK, Bases
  <2>5. One(c.at \in ScopeItems) = 1 /\ One(c.at \in CallItems) = 1
    BY <2>4 DEF One, ScopeItems, CallItems
  <2>6. Grows(k, Append(k, c), 1, 1) /\ Keeps(k, Append(k, c))
    <3> HIDE DEF c
    <3> QED BY <1>1, <2>4, <2>5, GrowsPush
  <2> DEFINE kk == Append(Append(k, c), b)
  <2>7. Grows(k, kk, 2, 1) /\ Keeps(k, kk)
    <3> DEFINE kc == Append(k, c)
               one == 1
    <3>1. one \in Nat /\ one + 1 = 2
      OBVIOUS
    <3>2. Grows(k, kc, one, one) /\ Keeps(k, kc)
      BY <2>6
    <3> HIDE DEF kc, one
    <3>3. Grows(k, Append(kc, b), one + 1, one) /\ Keeps(k, Append(kc, b))
      BY <1>1, <3>1, <3>2, GrowsBlock
    <3> QED BY <3>1, <3>3 DEF kc, one
  <2>8. /\ IsSeq(e) /\ Len(e) = Len(interps[i].env) + 2
        /\ IsSeq(frames) /\ Len(frames) = Len(interps[i].frames) + 1
    <3>1. IsSeq(frames) /\ Len(frames) = Len(interps[i].frames) + 1
      BY <1>1, AppendShape
    <3> DEFINE p == Append(interps[i].env, Bind(f.params, Mode[3]))
    <3>2. IsSeq(p) /\ Len(p) = Len(interps[i].env) + 1 /\ Len(interps[i].env) \in Nat
      BY <1>1, AppendShape, SeqShape
    <3> HIDE DEF p
    <3>3. IsSeq(Push(p)) /\ Len(Push(p)) = Len(p) + 1
      BY <3>2, AppendShape DEF Push
    <3> QED BY <3>1, <3>2, <3>3 DEF p
  <2> HIDE DEF e, frames, kk
  <2>9. InterpNow(i) /\ interps'[i].env = e /\ interps'[i].frames = frames
    BY <1>1, <2>1, <2>8 DEF InterpNow, InterpOK, InterpRecord
  <2>10. Stacks(t, 2, 1)
    BY <1>1, <2>8, <2>9, InterpAt DEF Stacks
  <2>11. Onward(t, Done)
    BY <1>2 DEF Onward, Lively, Done
  <2> DEFINE two == 2
             one == 1
  <2>12. two \in Nat /\ one \in Nat
    OBVIOUS
  <2>13. Settle(t, Done, kk) /\ Grows(k, kk, two, one) /\ Keeps(k, kk) /\ Stacks(t, two, one)
    BY <2>3, <2>7, <2>10 DEF kk
  <2> HIDE DEF two, one
  <2> QED BY <1>1, <1>2, <2>11, <2>12, <2>13, GrowQuiet, PlainSame
<1>4. CASE ~Accepts(f, Mode[3])
  <2> DEFINE m == Fail("Panic", "argument")
             bt == Backtrace(i, Append(interps[i].frames, f.x))
  <2>1. Settle(t, m, k) /\ interps' = [interps EXCEPT ![i].bt = bt]
    BY <1>4 DEF Invoke, To, T, I
  <2> HIDE DEF bt
  <2>2. InterpNow(i) /\ interps'[i].env = interps[i].env /\ interps'[i].frames = interps[i].frames
    BY <1>1, <2>1 DEF InterpNow, InterpOK, InterpRecord
  <2>3. InterpTurn(i) /\ Len(interps') = Len(interps)
    BY <1>1, <2>2, InterpAt
  <2>4. Onward(t, m)
    BY <1>2 DEF Onward, Lively, Fail
  <2> HIDE DEF m
  <2> QED BY <1>1, <1>2, <2>1, <2>2, <2>3, <2>4, StayOn, PlainSame
<1> QED BY <1>3, <1>4

\* A return pops them again: the block has popped the other scope.
LEMMA CallReturnPlain == ASSUME Shape, running # 0, CallReturn PROVE Plain(running)
<1> DEFINE t == running
           i == tasks[t].in
           k == tasks[t].kont
           m == IF Failed THEN Mode ELSE Yield(IF Kind = "ret" THEN Mode[2] ELSE Void)
           bt == IF Failed THEN Backtrace(i, interps[i].frames) ELSE interps[i].bt
           e == Pop(interps[i].env)
           frames == Front(interps[i].frames)
<1>1. /\ t \in DOMAIN tasks /\ k # <<>> /\ Last(k).at = "call"
      /\ i \in DOMAIN interps /\ InterpOK(interps[i])
      /\ IsSeq(interps[i].env) /\ IsSeq(interps[i].frames)
  BY TopItem, Here DEF CallReturn
<1>2. /\ Settle(t, m, Front(k)) /\ running' = t /\ log' = log /\ heap' = heap
      /\ threads' = threads
  BY DEF CallReturn, To, T, Rest
<1>3. interps' = [interps EXCEPT ![i].env = e, ![i].frames = frames, ![i].bt = bt]
  BY DEF CallReturn, T, I
<1>4. Onward(t, m)
  BY DEF CallReturn, Onward, Completed, Failed, Yield, Lively, Kind, Mode, T
<1>5. Last(k).at \notin Bases \cup {"scope"}
  BY <1>1 DEF Bases
<1>6. One(Last(k).at \in ScopeItems) = 1 /\ One(Last(k).at \in CallItems) = 1
  BY <1>1 DEF One, ScopeItems, CallItems
<1>7. IsSeq(e) /\ IsSeq(frames)
  BY <1>1, PopShape
<1>8. /\ Len(interps[i].env) >= 1 => Len(e) + 1 = Len(interps[i].env)
      /\ Len(interps[i].frames) >= 1 => Len(frames) + 1 = Len(interps[i].frames)
  <2>1. Len(interps[i].env) \in Nat /\ Len(interps[i].frames) \in Nat
    BY <1>1, SeqShape
  <2>2. /\ Len(interps[i].env) >= 1 => Len(e) = Len(interps[i].env) - 1
        /\ Len(interps[i].frames) >= 1 => Len(frames) = Len(interps[i].frames) - 1
    BY <1>1, PopShape
  <2> QED BY <2>1, <2>2
<1> HIDE DEF e, frames, bt, m
<1>9. InterpNow(i) /\ interps'[i].env = e /\ interps'[i].frames = frames
  BY <1>1, <1>3, <1>7 DEF InterpNow, InterpOK, InterpRecord
<1>10. InterpTurn(i) /\ Len(interps') = Len(interps)
  BY <1>1, <1>9, InterpAt
<1>11. /\ Len(interps[i].env) \in Nat
       /\ Len(interps[i].env) >= 1 + 1 => Len(interps[i].env) >= 1
  BY <1>1, SeqShape
<1>12. Turn(t) /\ Quiet(t) /\ NoNew
  BY <1>1, <1>2, <1>4, <1>5, <1>6, <1>8, <1>9, <1>10, <1>11, PopTurn DEF PopsOne
<1> QED BY <1>2, <1>12, PlainSame

-----------------------------------------------------------------------------
(* Statements.                                                               *)

\* What is stored under the name of an exposed field.
LEMMA SyncKept ==
    ASSUME Shape, NEW x, NEW v
    PROVE  /\ SyncThreads(x, v) => ThreadsKept
           /\ \A h : HeapOK(h) => HeapKept(h, SyncHeap(h, x, v))
<1>1. ASSUME SyncThreads(x, v) PROVE ThreadsKept
  <2> DEFINE th == I.thread
             own == IF Claims(x, v) THEN threads[th].owned \cup {v[2]} ELSE threads[th].owned
             s == [[threads[th] EXCEPT !.fields = Put(@, x, v)] EXCEPT !.owned = own]
  <2>1. threads' = [threads EXCEPT ![th] = s] \/ threads' = threads
    BY <1>1 DEF SyncThreads
  <2>2. CASE threads' = [threads EXCEPT ![th] = s]
    <3>1. IsSeq(threads') /\ Len(threads') = Len(threads)
      BY <2>2, ExceptShape DEF Shape
    <3>2. \A u \in DOMAIN threads : threads'[u] = threads[u] \/ (u = th /\ threads'[u] = s)
      BY <2>2
    <3>3. th \in DOMAIN threads => ThreadKept(threads[th], s)
      BY DEF Shape, ThreadOK, ThreadRecord, ThreadKept
    <3>4. \A u \in DOMAIN threads : ThreadKept(threads[u], threads[u])
      BY DEF ThreadKept
    <3> HIDE DEF s
    <3> QED BY <3>1, <3>2, <3>3, <3>4 DEF ThreadsKept
  <2>3. CASE threads' = threads
    BY <2>3, NothingElse
  <2> QED BY <2>1, <2>2, <2>3
<1>2. ASSUME NEW h, HeapOK(h) PROVE HeapKept(h, SyncHeap(h, x, v))
  <2>1. HeapKept(h, [h EXCEPT ![v[2]].claimed = TRUE])
    BY <1>2, HeapField
  <2>2. HeapKept(h, h)
    BY <1>2, HeapStays
  <2> QED BY <2>1, <2>2 DEF SyncHeap
<1> QED BY <1>1, <1>2

\* Variables change their values in the scopes there are.
LEMMA VarShape ==
    ASSUME NEW e, IsSeq(e), NEW x, NEW v
    PROVE  /\ IsSeq(Define(e, x, v)) /\ Len(Define(e, x, v)) = Len(e)
           /\ IsSeq(AssignVar(e, x, v)) /\ Len(AssignVar(e, x, v)) = Len(e)
BY ExceptShape DEF Define, AssignVar

\* A task stays where it is with other values in its scopes.
LEMMA EnvStay ==
    ASSUME Shape, NEW t \in DOMAIN tasks, tasks[t].kont # <<>>,
           NEW m, Settle(t, m, tasks[t].kont), running' = t, Onward(t, m), log' = log,
           NEW e, interps' = [interps EXCEPT ![tasks[t].in].env = e],
           IsSeq(e), Len(e) = Len(interps[tasks[t].in].env)
    PROVE  Turn(t) /\ Quiet(t) /\ NoNew
<1>1. tasks[t].in \in DOMAIN interps
  BY Here
<1>2. /\ InterpTurn(tasks[t].in) /\ Len(interps') = Len(interps)
      /\ interps'[tasks[t].in].env = e
      /\ interps'[tasks[t].in].frames = interps[tasks[t].in].frames
  BY <1>1, EnvSet
<1> QED BY <1>2, StayOn

\* Or leaves the block or the loop that is on top, with its scope.
LEMMA EnvPop ==
    ASSUME Shape, NEW t \in DOMAIN tasks, tasks[t].kont # <<>>,
           NEW m, Settle(t, m, Front(tasks[t].kont)), running' = t, Onward(t, m), log' = log,
           interps' = [interps EXCEPT ![tasks[t].in].env = Pop(interps[tasks[t].in].env)],
           Last(tasks[t].kont).at \in {"block", "for"}
    PROVE  Turn(t) /\ Quiet(t) /\ NoNew
<1> DEFINE i == tasks[t].in
           k == tasks[t].kont
           e == Pop(interps[i].env)
<1>1. i \in DOMAIN interps /\ IsSeq(interps[i].env) /\ IsSeq(interps[i].frames)
  BY Here
<1>2. /\ Len(interps[i].env) \in Nat /\ Len(interps[i].frames) \in Nat
      /\ IsSeq(e) /\ (Len(interps[i].env) >= 1 => Len(e) = Len(interps[i].env) - 1)
  BY <1>1, SeqShape, PopShape
<1>3. /\ Last(k).at \notin Bases \cup {"scope"}
      /\ One(Last(k).at \in ScopeItems) = 1 /\ One(Last(k).at \in CallItems) = 0
  BY DEF Bases, ScopeItems, CallItems, One
<1> HIDE DEF e
<1>4. /\ InterpTurn(i) /\ Len(interps') = Len(interps)
      /\ interps'[i].env = e /\ interps'[i].frames = interps[i].frames
  BY <1>1, <1>2, EnvSet DEF e
<1>5. Len(interps[i].env) >= 1 + 1 => Len(interps'[i].env) + 1 = Len(interps[i].env)
  BY <1>2, <1>4
<1>6. Len(interps'[i].frames) + 0 = Len(interps[i].frames)
  BY <1>2, <1>4
<1> QED BY <1>3, <1>4, <1>5, <1>6, PopTurn DEF PopsOne

\* A variable is declared.
LEMMA ExecLetPlain == ASSUME Shape, running # 0, ExecLet PROVE Plain(running)
<1> DEFINE t == running
           i == tasks[t].in
           v == Mode[3][1]
           x == Node_.x
           e == Define(interps[i].env, x, v)
           m == Done
<1>1. /\ t \in DOMAIN tasks /\ tasks[t].kont # <<>> /\ IsSeq(interps[i].env)
  BY Runs, Here
<1>2. /\ Settle(t, m, tasks[t].kont) /\ interps' = [interps EXCEPT ![i].env = e]
      /\ running' = t /\ log' = log
  BY DEF ExecLet, To, SetEnv, T, I
<1>3. Onward(t, m)
  BY DEF ExecLet, Onward, Lively, Done, Kind, Mode, T
<1>4. IsSeq(e) /\ Len(e) = Len(interps[i].env)
  BY <1>1, VarShape
<1> HIDE DEF e, m
<1>5. Turn(t) /\ Quiet(t) /\ NoNew
  BY <1>1, <1>2, <1>3, <1>4, EnvStay
<1>6. ThreadsKept /\ HeapKept(heap, heap')
  BY SyncKept DEF ExecLet, Shape
<1> QED BY <1>5, <1>6 DEF Plain

\* A variable gets another value, or the assignment is refused.
LEMMA ExecAssignPlain == ASSUME Shape, running # 0, ExecAssign PROVE Plain(running)
<1> DEFINE t == running
           i == tasks[t].in
           v == Mode[3][1]
           x == Node_.x
           e == AssignVar(interps[i].env, x, v)
           m == Done
           bad == Fail("Panic", "assign")
           free == Fail("UndefinedVariable", x)
<1>1. /\ t \in DOMAIN tasks /\ tasks[t].kont # <<>> /\ IsSeq(interps[i].env)
  BY Runs, Here
<1>2. running' = t /\ log' = log
  BY DEF ExecAssign
<1>3. Onward(t, m) /\ Onward(t, bad) /\ Onward(t, free)
  BY DEF ExecAssign, Onward, Lively, Done, Fail, Kind, Mode, T
<1>4. IsSeq(e) /\ Len(e) = Len(interps[i].env)
  BY <1>1, VarShape
<1>5. \/ /\ Settle(t, bad, tasks[t].kont) \/ Settle(t, free, tasks[t].kont)
         /\ interps' = interps
      \/ Settle(t, m, tasks[t].kont) /\ interps' = [interps EXCEPT ![i].env = e]
  BY DEF ExecAssign, To, SetEnv, T, I
<1> HIDE DEF e, m, bad, free
<1>6. Turn(t) /\ Quiet(t) /\ NoNew
  <2>1. CASE /\ Settle(t, bad, tasks[t].kont) \/ Settle(t, free, tasks[t].kont)
             /\ interps' = interps
    BY <1>1, <1>2, <1>3, <2>1, StaySame
  <2>2. CASE Settle(t, m, tasks[t].kont) /\ interps' = [interps EXCEPT ![i].env = e]
    BY <1>1, <1>2, <1>3, <1>4, <2>2, EnvStay
  <2> QED BY <1>5, <2>1, <2>2
<1>7. ThreadsKept /\ HeapKept(heap, heap')
  <2>1. \/ threads' = threads /\ heap' = heap
        \/ SyncThreads(x, v) /\ heap' = SyncHeap(heap, x, v)
    BY DEF ExecAssign
  <2> QED BY <2>1, SyncKept, NothingElse DEF Shape
<1> QED BY <1>6, <1>7 DEF Plain

\* A field of an object gets another value.
LEMMA ExecAssignFieldPlain == ASSUME Shape, running # 0, ExecAssignField PROVE Plain(running)
<1> DEFINE t == running
           v == Mode[3][1]
           o == Mode[3][2]
           x == Node_.x
           h == [heap EXCEPT ![o[2]].fields = Put(@, x, v)]
<1>1. PICK m : To(m, T.kont) /\ m[1] \in {"done", "err"}
  <2>1. Done[1] = "done" /\ \A kind, why : Fail(kind, why)[1] = "err"
    BY DEF Done, Fail
  <2>2. CASE TypeName(o) = "Object"
    <3>1. To(Done, T.kont)
      BY <2>2 DEF ExecAssignField, Handle
    <3> QED BY <2>1, <3>1
  <2>3. CASE TypeName(o) # "Object"
    <3>1. \/ To(Done, T.kont) \/ To(Fail("ExposeMutableFieldReplace", ""), T.kont)
          \/ To(Fail("Panic", "object"), T.kont)
      BY <2>3 DEF ExecAssignField, Handle
    <3> QED BY <2>1, <3>1
  <2> QED BY <2>2, <2>3
<1>2. Settle(t, m, tasks[t].kont)
  BY <1>1 DEF To, T
<1>3. Onward(t, m)
  BY <1>1 DEF ExecAssignField, Onward, Lively, Kind, Mode, T
<1>4. running' = t /\ log' = log /\ interps' = interps
  BY DEF ExecAssignField
<1>5. \/ threads' = threads /\ heap' = heap
      \/ SyncThreads(x, v) /\ heap' = SyncHeap(h, x, v)
  BY DEF ExecAssignField, Handle
<1>6. HeapOK(heap) /\ HeapKept(heap, h)
  BY HeapField DEF Shape
<1> HIDE DEF h
<1>7. HeapOK(h) /\ (HeapKept(h, heap') => HeapKept(heap, heap'))
  BY <1>6, HeapTwice
<1>8. ThreadsKept /\ HeapKept(heap, heap')
  BY <1>5, <1>7, SyncKept, NothingElse
<1>9. Turn(t) /\ Quiet(t) /\ NoNew
  BY <1>2, <1>3, <1>4, Runs, StaySame
<1> QED BY <1>8, <1>9 DEF Plain

\* So does an element of a list.
LEMMA ExecAssignIndexPlain == ASSUME Shape, running # 0, ExecAssignIndex PROVE Plain(running)
<1>1. PICK r : Harmless(r, heap) /\ To(r.to, T.kont) /\ heap' = r.heap
  BY StoreHarmless DEF ExecAssignIndex, Shape
<1> DEFINE m == r.to
<1>2. m[1] \in Outcomes \cup {"done"} /\ HeapKept(heap, heap')
  BY <1>1 DEF Harmless
<1>3. Settle(running, m, tasks[running].kont)
  BY <1>1 DEF To, T
<1> HIDE DEF m
<1>4. Onward(running, m)
  BY <1>2 DEF ExecAssignIndex, Onward, Outcomes, Lively, Kind, Mode, T
<1>5. running' = running /\ log' = log /\ interps' = interps /\ threads' = threads
  BY DEF ExecAssignIndex
<1> QED BY <1>2, <1>3, <1>4, <1>5, Runs, StaySame, PlainHeap

\* A block of the task that is here, on top of what it was in.
LEMMA EnterOn ==
    ASSUME Shape, running # 0, Onward(running, Done), NEW b, NEW kk, EnterBlock(b, kk, I.env),
           Grows(tasks[running].kont, kk, 0, 0), Keeps(tasks[running].kont, kk),
           running' = running, log' = log
    PROVE  Turn(running) /\ Quiet(running) /\ NoNew
<1> DEFINE e == I.env
           none == 0
<1>1. running \in DOMAIN tasks
  BY Runs
<1>2. IsSeq(e) /\ Len(e) \in Nat /\ Onward(running, <<"done">>)
  BY <1>1, Here DEF I, T, Done
<1>3. Len(e) = Len(I.env) + none /\ none \in Nat
  BY <1>2
<1>4. EnterBlock(b, kk, e) /\ Grows(tasks[running].kont, kk, none, 0)
  OBVIOUS
<1> HIDE DEF e, none
<1> QED BY <1>2, <1>3, <1>4, EnterQuiet

\* A block that is entered in the environment at hand.
LEMMA EnterHere ==
    ASSUME Shape, running # 0, Onward(running, Done), NEW b, EnterBlock(b, T.kont, I.env),
           running' = running, log' = log
    PROVE  Turn(running) /\ Quiet(running) /\ NoNew
<1> DEFINE k == tasks[running].kont
<1>1. k # <<>> /\ KontOK(k)
  BY Runs, Here
<1>2. Grows(k, k, 0, 0) /\ Keeps(k, k)
  BY <1>1, GrowsSame
<1>3. EnterBlock(b, k, I.env)
  BY DEF T
<1> HIDE DEF k
<1> QED BY <1>2, <1>3, EnterOn DEF k

\* An item on top that does not count, and a block above it.
LEMMA EnterAbove ==
    ASSUME Shape, running # 0, Onward(running, Done), NEW b, NEW x,
           EnterBlock(b, Append(tasks[running].kont, x), I.env),
           Above(x), x.at \notin ScopeItems, running' = running, log' = log
    PROVE  Turn(running) /\ Quiet(running) /\ NoNew
<1> DEFINE k == tasks[running].kont
           kk == Append(k, x)
<1>1. k # <<>> /\ KontOK(k)
  BY Runs, Here
<1>2. One(x.at \in ScopeItems) = 0 /\ One(x.at \in CallItems) = 0 /\ x.at # "scope"
  BY DEF One, ScopeItems, CallItems
<1>3. Grows(k, kk, 0, 0) /\ Keeps(k, kk)
  BY <1>1, <1>2, GrowsPush
<1> HIDE DEF kk
<1> QED BY <1>3, EnterOn DEF kk

\* break, continue, return, an expression by itself.
LEMMA ExecSimplePlain == ASSUME Shape, running # 0, ExecSimple PROVE Plain(running)
<1>1. PICK m : To(m, T.kont) /\ m[1] \in {"ret", "done"}
  <2>1. Done[1] = "done" /\ \A v : Ret(v)[1] = "ret"
    BY DEF Done, Ret
  <2>2. \/ To(Ret(First(Mode[3], Void)), T.kont) \/ To(Ret(Never), T.kont) \/ To(Done, T.kont)
    BY DEF ExecSimple
  <2> QED BY <2>1, <2>2
<1>2. Settle(running, m, tasks[running].kont)
  BY <1>1 DEF To, T
<1>3. Onward(running, m)
  BY <1>1 DEF ExecSimple, Onward, Lively, Kind, Mode, T
<1>4. /\ running' = running /\ log' = log /\ interps' = interps /\ heap' = heap
      /\ threads' = threads
  BY DEF ExecSimple
<1> QED BY <1>2, <1>3, <1>4, Runs, StaySame, PlainSame

\* if enters one of its blocks, or none.
LEMMA ExecIfPlain == ASSUME Shape, running # 0, ExecIf PROVE Plain(running)
<1>1. /\ running' = running /\ log' = log /\ heap' = heap /\ threads' = threads
      /\ Onward(running, Done)
  BY DEF ExecIf, Onward, Lively, Done, Kind, Mode, T
<1>2. \/ \E b : EnterBlock(b, T.kont, I.env)
      \/ Settle(running, Done, tasks[running].kont) /\ interps' = interps
  BY DEF ExecIf, To, T
<1> QED BY <1>1, <1>2, Runs, EnterHere, StaySame, PlainSame

\* `#exclusive` sets the flag and enters its block.
LEMMA ExecExclusivePlain == ASSUME Shape, running # 0, ExecExclusive PROVE Plain(running)
<1>1. /\ running' = running /\ log' = log /\ heap' = heap /\ threads' = threads
      /\ Onward(running, Done)
  BY DEF ExecExclusive, Onward, Lively, Done, Kind, Mode, T
<1>2. \E b : EnterBlock(b, T.kont, I.env)
  BY DEF ExecExclusive
<1> QED BY <1>1, <1>2, EnterHere, PlainSame

\* A while loop is its item and the block above it.
LEMMA ExecWhilePlain == ASSUME Shape, running # 0, ExecWhile PROVE Plain(running)
<1> DEFINE x == [at |-> "while", n |-> Node_]
<1>1. /\ running' = running /\ log' = log /\ heap' = heap /\ threads' = threads
      /\ Onward(running, Done)
  BY DEF ExecWhile, Onward, Lively, Done, Kind, Mode, T
<1>2. Above(x) /\ x.at \notin ScopeItems
  BY DEF Above, ItemOK, Bases, ScopeItems
<1>3. \/ \E b : EnterBlock(b, Append(tasks[running].kont, x), I.env)
      \/ Settle(running, Done, tasks[running].kont) /\ interps' = interps
  BY DEF ExecWhile, To, T
<1> HIDE DEF x
<1> QED BY <1>1, <1>2, <1>3, Runs, EnterAbove, StaySame, PlainSame

\* A loop that asks its condition or enters its body.
LEMMA WhileStepPlain == ASSUME Shape, running # 0, WhileStep PROVE Plain(running)
<1> DEFINE k == tasks[running].kont
           m == IF Kind = "done" THEN <<"node", Top.n>>
                ELSE IF Mode[2] = Never THEN Done ELSE Mode
<1>1. running \in DOMAIN tasks /\ k # <<>> /\ Last(k).at \notin Bases \cup ScopeItems
  BY TopItem DEF WhileStep, Bases, ScopeItems
<1>2. /\ Settle(running, m, Front(k)) /\ running' = running /\ log' = log
      /\ interps' = interps /\ heap' = heap /\ threads' = threads
  BY DEF WhileStep, To, T, Rest
<1>3. Onward(running, m)
  BY DEF WhileStep, Onward, Completed, Done, Lively, Kind, Mode, T
<1> HIDE DEF m
<1> QED BY <1>1, <1>2, <1>3, PopSame, PlainSame

\* An error takes the item away and leaves its scope behind.
LEMMA ErrorDrops ==
    ASSUME Shape, NEW t \in DOMAIN tasks, tasks[t].kont # <<>>,
           NEW m, m[1] = "err", Settle(t, m, Front(tasks[t].kont)), running' = t, Onward(t, m),
           log' = log, interps' = interps,
           Last(tasks[t].kont).at \in {"args", "while", "fill", "block", "for"}
    PROVE  Turn(t) /\ Quiet(t) /\ NoNew
<1> DEFINE i == tasks[t].in
           k == tasks[t].kont
           s == One(Last(k).at \in ScopeItems)
           c == One(Last(k).at \in CallItems)
<1>1. /\ InterpTurn(i) /\ Len(interps') = Len(interps)
      /\ Len(interps[i].env) \in Nat /\ Len(interps[i].frames) \in Nat
  BY Here, InterpSame
<1>2. Last(k).at \notin Bases \cup {"scope"} /\ s \in 0..1 /\ c = 0
  BY DEF Bases, ScopeItems, CallItems, One
<1>3. Len(interps'[i].env) + s >= Len(interps[i].env)
  <2> HIDE DEF s, c
  <2> QED BY <1>1, <1>2
<1>4. Len(interps'[i].frames) + c = Len(interps[i].frames)
  BY <1>1, <1>2
<1> QED BY <1>1, <1>2, <1>3, <1>4, PopTurn DEF PopsOne

\* An operand that fails drops the operands before it.
LEMMA OperandFailsPlain == ASSUME Shape, running # 0, OperandFails \/ FillFails
                           PROVE Plain(running)
<1> DEFINE k == tasks[running].kont
           m == Mode
<1>1. /\ running \in DOMAIN tasks /\ k # <<>>
      /\ Last(k).at \in {"args", "while", "fill", "block", "for"}
  BY TopItem DEF OperandFails, FillFails
<1>2. /\ Settle(running, m, Front(k)) /\ running' = running /\ log' = log
      /\ interps' = interps /\ heap' = heap /\ threads' = threads
  BY DEF OperandFails, FillFails, To, T, Rest
<1>3. Onward(running, m) /\ m[1] = "err"
  BY DEF OperandFails, FillFails, Onward, Failed, Lively, Kind, Mode, T
<1> HIDE DEF m
<1> QED BY <1>1, <1>2, <1>3, ErrorDrops, PlainSame

\* A block goes on, is left, or is left by an error.
LEMMA BlockStepPlain == ASSUME Shape, running # 0, BlockStep PROVE Plain(running)
<1> DEFINE t == running
           i == tasks[t].in
           k == tasks[t].kont
           m == Mode
           node == <<"node", Head(Last(k).rest)>>
           x == [at |-> "block", rest |-> Tail(Last(k).rest)]
<1>1. t \in DOMAIN tasks /\ k # <<>> /\ ItemOK(Last(k)) /\ Last(k).at = "block"
  BY TopItem DEF BlockStep
<1>2. running' = t /\ log' = log /\ heap' = heap /\ threads' = threads
  BY DEF BlockStep
<1>3. \/ /\ Settle(t, node, Append(Front(k), x)) /\ interps' = interps /\ Kind = "done"
      \/ /\ Settle(t, m, Front(k)) /\ Completed
         /\ interps' = [interps EXCEPT ![i].env = Pop(interps[i].env)]
      \/ /\ Settle(t, m, Front(k)) /\ interps' = interps /\ Failed
  BY DEF BlockStep, Completed, To, SetEnv, T, I, Top, Rest
<1>4. Replaces(x, Last(k)) /\ x.at # "scope"
  BY <1>1 DEF Replaces, ItemOK
<1> HIDE DEF x
<1>5. CASE Settle(t, node, Append(Front(k), x)) /\ interps' = interps /\ Kind = "done"
  <2>1. Onward(t, node)
    BY <1>5 DEF Onward, Lively, Kind, Mode, T
  <2> HIDE DEF node
  <2> QED BY <1>1, <1>2, <1>4, <1>5, <2>1, Here, InterpSame, SwapSame, PlainSame
<1>6. CASE /\ Settle(t, m, Front(k)) /\ Completed
           /\ interps' = [interps EXCEPT ![i].env = Pop(interps[i].env)]
  <2>1. Onward(t, m)
    BY <1>6 DEF Onward, Completed, Lively, Kind, Mode, T
  <2> HIDE DEF m
  <2> QED BY <1>1, <1>2, <1>6, <2>1, EnvPop, PlainSame
<1>7. CASE Settle(t, m, Front(k)) /\ interps' = interps /\ Failed
  <2>1. Onward(t, m) /\ m[1] = "err"
    BY <1>7 DEF Onward, Failed, Lively, Kind, Mode, T
  <2> HIDE DEF m
  <2> QED BY <1>1, <1>2, <1>7, <2>1, ErrorDrops, PlainSame
<1> QED BY <1>3, <1>5, <1>6, <1>7

\* A for loop has a scope of its own.
LEMMA ExecForPlain == ASSUME Shape, running # 0, ExecFor PROVE Plain(running)
<1> DEFINE t == running
           i == tasks[t].in
           k == tasks[t].kont
           init == Node_.blocks[1]
           m == IF init = <<>> THEN Done ELSE <<"node", init[1]>>
           x == [at |-> "for", n |-> Node_, part |-> "init"]
           e == Push(interps[i].env)
           one == 1
           none == 0
<1>1. /\ t \in DOMAIN tasks /\ k # <<>> /\ KontOK(k) /\ i \in DOMAIN interps
      /\ IsSeq(interps[i].env) /\ Len(interps[i].frames) \in Nat
  BY Runs, Here
<1>2. /\ Settle(t, m, Append(k, x)) /\ interps' = [interps EXCEPT ![i].env = e]
      /\ running' = t /\ log' = log /\ heap' = heap /\ threads' = threads
  BY DEF ExecFor, To, SetEnv, T, I
<1>3. Onward(t, m)
  BY DEF ExecFor, Onward, Lively, Done, Kind, Mode, T
<1>4. /\ Above(x) /\ x.at # "scope" /\ one \in Nat /\ none \in Nat
      /\ One(x.at \in ScopeItems) = one /\ One(x.at \in CallItems) = none
  BY DEF Above, ItemOK, Bases, ScopeItems, CallItems, One
<1> HIDE DEF x, m
<1>5. Grows(k, Append(k, x), one, none) /\ Keeps(k, Append(k, x))
  BY <1>1, <1>4, GrowsPush
<1>6. IsSeq(e) /\ Len(e) = Len(interps[i].env) + one
  BY <1>1, AppendShape DEF Push
<1> HIDE DEF e, one
<1>7. Stacks(t, one, none)
  <2>1. /\ InterpTurn(i) /\ Len(interps') = Len(interps)
        /\ interps'[i].env = e /\ interps'[i].frames = interps[i].frames
    BY <1>1, <1>2, <1>6, EnvSet
  <2>2. Len(interps'[i].frames) = Len(interps[i].frames) + none
    BY <1>1, <2>1
  <2> QED BY <1>6, <2>1, <2>2 DEF Stacks
<1> DEFINE kk == Append(k, x)
<1> HIDE DEF none, kk
<1> QED BY <1>1, <1>2, <1>3, <1>4, <1>5, <1>7, GrowQuiet, PlainSame DEF kk

\* Its part changes, or it ends with its scope.
LEMMA ForStepPlain == ASSUME Shape, running # 0, ForStep PROVE Plain(running)
<1> DEFINE t == running
           i == tasks[t].in
           k == tasks[t].kont
           at(part) == [Last(k) EXCEPT !.part = part]
<1>1. /\ t \in DOMAIN tasks /\ k # <<>> /\ ItemOK(Last(k)) /\ Last(k).at = "for" /\ KontOK(k)
  BY TopItem DEF ForStep
<1>2. /\ running' = t /\ log' = log /\ heap' = heap /\ threads' = threads
      /\ Kind \in {"done", "ret", "val"}
  BY DEF ForStep, Completed
<1>3. \A m : m[1] \in Lively => Onward(t, m)
  BY <1>2 DEF Onward, Lively, Kind, Mode, T
<1>4. \A part : Replaces(at(part), Last(k)) /\ at(part).at # "scope"
  BY <1>1, SameItem DEF ItemOK
<1>5. \/ \E part, b : EnterBlock(b, Append(Front(k), at(part)), I.env)
      \/ \E part, m : /\ Settle(t, m, Append(Front(k), at(part))) /\ interps' = interps
                      /\ m[1] \in Lively
      \/ \E m : /\ Settle(t, m, Front(k)) /\ m[1] \in Lively
                /\ interps' = [interps EXCEPT ![i].env = Pop(interps[i].env)]
  <2> DEFINE n == Last(k).n
             upd == n.blocks[2]
             node == <<"node", n.args[1]>>
             next == IF upd = <<>> THEN Done ELSE <<"node", upd[1]>>
             out == IF Mode[2] = Never THEN Done ELSE Mode
  <2>1. /\ \A part : (at(part) = [Top EXCEPT !.part = part]) /\ Rest = Front(k) /\ Top = Last(k)
        /\ T.in = i /\ I.env = interps[i].env
    BY DEF Top, Rest, T, I
  <2>2. /\ node[1] \in Lively /\ next[1] \in Lively /\ Done[1] \in Lively
        /\ Kind = "ret" => out[1] \in Lively
    BY DEF Done, Lively, Kind
  <2> HIDE DEF node, next, out
  <2>3. ASSUME NEW part, EnterBlock(n.blocks[3], Append(Rest, [Top EXCEPT !.part = part]), I.env)
        PROVE  \E p, b : EnterBlock(b, Append(Front(k), at(p)), I.env)
    BY <2>1, <2>3
  <2>4. ASSUME NEW part, NEW m, To(m, Append(Rest, [Top EXCEPT !.part = part])), m[1] \in Lively,
               interps' = interps
        PROVE  \E p, w : /\ Settle(t, w, Append(Front(k), at(p))) /\ interps' = interps
                         /\ w[1] \in Lively
    BY <2>1, <2>4 DEF To
  <2>5. ASSUME NEW m, To(m, Rest), SetEnv(Pop(I.env)), m[1] \in Lively
        PROVE  \E w : /\ Settle(t, w, Front(k)) /\ w[1] \in Lively
                      /\ interps' = [interps EXCEPT ![i].env = Pop(interps[i].env)]
    BY <2>1, <2>5 DEF To, SetEnv
  <2> HIDE DEF at
  <2>6. CASE Top.part \in {"init", "update"}
    <3>1. \/ EnterBlock(n.blocks[3], Append(Rest, [Top EXCEPT !.part = "body"]), I.env)
          \/ To(node, Append(Rest, [Top EXCEPT !.part = "cond"])) /\ interps' = interps
      BY <2>1, <2>6 DEF ForStep, node
    <3> QED BY <2>2, <2>3, <2>4, <3>1
  <2>7. CASE Top.part = "cond"
    <3>1. \/ EnterBlock(n.blocks[3], Append(Rest, [Top EXCEPT !.part = "body"]), I.env)
          \/ To(Done, Rest) /\ SetEnv(Pop(I.env))
      BY <2>1, <2>7 DEF ForStep
    <3> QED BY <2>2, <2>3, <2>5, <3>1
  <2>8. CASE Top.part = "body" /\ Kind = "ret"
    <3>1. To(out, Rest) /\ SetEnv(Pop(I.env))
      BY <2>1, <2>8 DEF ForStep, out
    <3> QED BY <2>2, <2>5, <2>8, <3>1
  <2>9. CASE /\ Top.part \notin {"init", "update", "cond"}
             /\ ~(Top.part = "body" /\ Kind = "ret")
    <3>1. To(next, Append(Rest, [Top EXCEPT !.part = "update"])) /\ interps' = interps
      BY <2>1, <2>9 DEF ForStep, next
    <3> QED BY <2>2, <2>4, <3>1
  <2> QED BY <2>6, <2>7, <2>8, <2>9
<1> HIDE DEF at
<1>6. CASE \E part, b : EnterBlock(b, Append(Front(k), at(part)), I.env)
  <2>1. PICK part, b : EnterBlock(b, Append(Front(k), at(part)), I.env)
    BY <1>6
  <2>2. Grows(k, Append(Front(k), at(part)), 0, 0) /\ Keeps(k, Append(Front(k), at(part)))
    BY <1>1, <1>4, GrowsSwap
  <2>3. Onward(t, Done)
    BY <1>3 DEF Done, Lively
  <2> QED BY <1>1, <1>2, <2>1, <2>2, <2>3, EnterOn, PlainSame
<1>7. CASE \E part, m : /\ Settle(t, m, Append(Front(k), at(part))) /\ interps' = interps
                        /\ m[1] \in Lively
  BY <1>1, <1>2, <1>3, <1>4, <1>7, Here, InterpSame, SwapSame, PlainSame
<1>8. CASE \E m : /\ Settle(t, m, Front(k)) /\ m[1] \in Lively
                  /\ interps' = [interps EXCEPT ![i].env = Pop(interps[i].env)]
  BY <1>1, <1>2, <1>3, <1>8, EnvPop, PlainSame
<1> QED BY <1>5, <1>6, <1>7, <1>8

\* A slot of a `self` object.
LEMMA FillSlotPlain == ASSUME Shape, running # 0, FillSlot PROVE Plain(running)
<1> DEFINE t == running
           k == tasks[t].kont
           next == Last(k).k + 1
           x == [Last(k) EXCEPT !.k = next]
           slots == Last(k).slots
           m == IF slots[next].e = <<>> THEN Yield(DefaultValueForType(slots[next].ty))
                ELSE <<"node", slots[next].e[1]>>
           done == Done
<1>1. /\ t \in DOMAIN tasks /\ k # <<>> /\ ItemOK(Last(k)) /\ Last(k).at = "fill"
  BY TopItem DEF FillSlot
<1>2. running' = t /\ log' = log /\ interps' = interps /\ threads' = threads
  BY DEF FillSlot
<1>3. Onward(t, m) /\ Onward(t, done)
  BY DEF FillSlot, Completed, Onward, Lively, Yield, Done, Kind, Mode, T
<1>4. Replaces(x, Last(k)) /\ x.at # "scope"
  BY <1>1, SameItem DEF ItemOK
<1>5. Last(k).at \notin Bases \cup ScopeItems
  BY <1>1 DEF Bases, ScopeItems
<1>6. Settle(t, done, Front(k)) \/ Settle(t, m, Append(Front(k), x))
  BY DEF FillSlot, To, T, Top, Rest
<1>7. HeapKept(heap, heap')
  <2>1. HeapKept(heap, heap)
    BY NothingElse
  <2>2. \A v : HeapKept(heap, [heap EXCEPT ![Top.obj].fields = v])
    BY HeapField DEF Shape
  <2>3. \/ heap' = heap
        \/ \E v : heap' = [heap EXCEPT ![Top.obj].fields = v]
    BY DEF FillSlot
  <2> QED BY <2>1, <2>2, <2>3
<1> HIDE DEF x, m, done
<1>8. CASE Settle(t, done, Front(k))
  BY <1>1, <1>2, <1>3, <1>5, <1>7, <1>8, PopSame, PlainHeap
<1>9. CASE Settle(t, m, Append(Front(k), x))
  BY <1>1, <1>2, <1>3, <1>4, <1>7, <1>9, Here, InterpSame, SwapSame, PlainHeap
<1> QED BY <1>6, <1>8, <1>9

-----------------------------------------------------------------------------
(* Scope blocks.                                                             *)

Steady(t) == Turn(t) /\ NoNew /\ HeapKept(heap, heap') /\ ThreadsKept

\* The scope blocks are the same except at place n.
SameElse(k, kk, n) ==
    \A j : j # n => /\ Scope(k, j) => Scope(kk, j) /\ kk[j] = k[j]
                    /\ Scope(kk, j) => Scope(k, j)

\* A block is begun around a new object; goes on; is left.
Opens(t) ==
    LET k == tasks[t].kont
        kk == tasks'[t].kont
    IN  \E n : /\ SameElse(k, kk, n) /\ ~Scope(k, n) /\ Scope(kk, n)
               /\ kk[n].obj \in DOMAIN heap' \ DOMAIN heap /\ kk[n].stage = "fill"
               /\ log' = log
Moves(t) ==
    LET k == tasks[t].kont
        kk == tasks'[t].kont
    IN  \E n : /\ SameElse(k, kk, n) /\ Scope(k, n) /\ Scope(kk, n) /\ kk[n].obj = k[n].obj
               /\ \/ k[n].stage = "fill" /\ kk[n].stage = "enter" /\ log' = log
                  \/ k[n].stage = "enter" /\ kk[n].stage = "body" /\ Note("entered", k[n].obj)
                  \/ k[n].stage = "body" /\ kk[n].stage = "exit" /\ Note("exited", k[n].obj)
Closes(t) ==
    LET k == tasks[t].kont
        kk == tasks'[t].kont
    IN  \E n : /\ SameElse(k, kk, n) /\ Scope(k, n) /\ ~Scope(kk, n)
               /\ \/ k[n].stage \in {"fill", "enter"} /\ log' = log
                  \/ k[n].stage = "exit" /\ Note("broken", k[n].obj)

ScopeTurn(t) == Steady(t) /\ (Quiet(t) \/ Opens(t) \/ Moves(t) \/ Closes(t))

\* Where the top of a continuation is.
LEMMA TopPlace ==
    ASSUME NEW k, KontOK(k), k # <<>>
    PROVE  /\ Len(k) \in DOMAIN k /\ k[Len(k)] = Last(k) /\ Len(k) + 1 \notin DOMAIN k
           /\ \A j \in DOMAIN k : j = Len(k) \/ j \in 1..(Len(k) - 1)
<1>1. IsSeq(k)
  BY DEF KontOK
<1>2. Last(k) = k[Len(k)] /\ Len(k) >= 1 /\ DOMAIN k = 1..Len(k) /\ Len(k) \in Nat
  BY <1>1, FrontShape, SeqShape
<1>3. Len(k) + 1 \notin DOMAIN k /\ Len(k) \in DOMAIN k
  BY <1>2
<1>4. \A j \in DOMAIN k : j = Len(k) \/ j \in 1..(Len(k) - 1)
  BY <1>2
<1> QED BY <1>2, <1>3, <1>4

\* Only the top is replaced, or taken.
LEMMA SwapElse ==
    ASSUME NEW k, KontOK(k), k # <<>>, NEW x
    PROVE  /\ SameElse(k, Append(Front(k), x), Len(k))
           /\ Len(k) \in DOMAIN Append(Front(k), x) /\ Append(Front(k), x)[Len(k)] = x
<1> DEFINE kk == Append(Front(k), x)
<1>1. IsSeq(k)
  BY DEF KontOK
<1>a. Swapped(kk, k, x)
  BY <1>1, SwapLast
<1>2. DOMAIN kk = 1..Len(k) /\ kk[Len(k)] = x /\ \A i \in 1..(Len(k) - 1) : kk[i] = k[i]
  BY ONLY <1>a DEF Swapped
<1>3. DOMAIN k = 1..Len(k) /\ Len(k) \in DOMAIN k /\ Len(k) \in Nat
  BY <1>1, SeqShape, TopPlace
<1>4. \A j \in DOMAIN k : j = Len(k) \/ j \in 1..(Len(k) - 1)
  BY TopPlace
<1> HIDE DEF kk
<1> QED BY <1>2, <1>3, <1>4 DEF SameElse, Scope, kk

\* A continuation without its last item has the other scope blocks where they were.
LEMMA PopElse ==
    ASSUME NEW k, KontOK(k), k # <<>>
    PROVE  SameElse(k, Front(k), Len(k)) /\ ~Scope(Front(k), Len(k))
<1> DEFINE kk == Front(k)
<1>1. IsSeq(k)
  BY DEF KontOK
<1>2. /\ IsSeq(kk) /\ Len(kk) = Len(k) - 1 /\ Len(k) >= 1 /\ Len(k) \in Nat
      /\ \A i \in 1..(Len(k) - 1) : kk[i] = k[i]
  BY <1>1, FrontShape, SeqShape
<1>3. DOMAIN kk = 1..(Len(k) - 1) /\ DOMAIN k = 1..Len(k)
  BY <1>1, <1>2, SeqShape
<1>4. \A j \in DOMAIN k : j = Len(k) \/ j \in 1..(Len(k) - 1)
  BY TopPlace
<1> HIDE DEF kk
<1> QED BY <1>2, <1>3, <1>4 DEF SameElse, Scope, kk

\* Or there is a new top.
LEMMA PushElse ==
    ASSUME NEW k, KontOK(k), NEW x
    PROVE  /\ SameElse(k, Append(k, x), Len(k) + 1) /\ ~Scope(k, Len(k) + 1)
           /\ Len(k) + 1 \in DOMAIN Append(k, x) /\ Append(k, x)[Len(k) + 1] = x
<1> DEFINE kk == Append(k, x)
<1>1. IsSeq(k)
  BY DEF KontOK
<1>2. /\ IsSeq(kk) /\ Len(kk) = Len(k) + 1 /\ Len(k) \in Nat /\ kk[Len(k) + 1] = x
      /\ \A i \in 1..Len(k) : kk[i] = k[i]
  BY <1>1, AppendShape, SeqShape
<1>3. DOMAIN kk = 1..(Len(k) + 1) /\ DOMAIN k = 1..Len(k)
  BY <1>1, <1>2, SeqShape
<1> HIDE DEF kk
<1> QED BY <1>2, <1>3 DEF SameElse, Scope, kk

\* What goes on top afterwards does not matter.
LEMMA ElseTwice ==
    ASSUME NEW k, NEW kk, NEW kkk, NEW n, SameElse(k, kk, n), SameScopes(kk, kkk)
    PROVE  /\ SameElse(k, kkk, n) /\ (Scope(kk, n) <=> Scope(kkk, n))
           /\ Scope(kk, n) => kkk[n] = kk[n]
BY DEF SameElse, SameScopes

\* Signals are broken.
LEMMA BreakKept ==
    ASSUME NEW h, HeapOK(h), NEW prims, NEW reason
    PROVE  HeapKept(h, BreakPrims(h, prims, reason))
<1> DEFINE hh == BreakPrims(h, prims, reason)
<1>1. IsSeq(h) /\ DOMAIN h = 1..Len(h) /\ Len(h) \in Nat
  BY SeqShape DEF HeapOK
<1>2. /\ DOMAIN hh = DOMAIN h /\ hh = [i \in DOMAIN h |-> hh[i]]
      /\ \A i \in DOMAIN h : hh[i] = h[i] \/ hh[i] = [h[i] EXCEPT !.broken = reason]
  BY DEF BreakPrims
<1> HIDE DEF hh
<1>3. IsSeq(hh) /\ Len(hh) = Len(h)
  BY <1>1, <1>2, FunIsSeq
<1>4. \A i \in DOMAIN h : CellKept(h[i], hh[i])
  BY <1>2 DEF CellKept, HeapOK, CellOK
<1> QED BY <1>1, <1>2, <1>3, <1>4 DEF HeapKept, hh

\* A scope block is left.
LEMMA ScopePop ==
    ASSUME Shape, NEW t \in DOMAIN tasks, tasks[t].kont # <<>>,
           Last(tasks[t].kont).at \notin Bases,
           NEW m, Settle(t, m, Front(tasks[t].kont)), running' = t,
           tasks[t].mode[1] \in Lively, m[1] \in Lively, Remembers(t, m, Front(tasks[t].kont)),
           InterpTurn(tasks[t].in), Len(interps') = Len(interps), PopsOne(t, m)
    PROVE  /\ Turn(t) /\ NoNew /\ tasks'[t].kont = Front(tasks[t].kont)
           /\ SameElse(tasks[t].kont, tasks'[t].kont, Len(tasks[t].kont))
           /\ ~Scope(tasks'[t].kont, Len(tasks[t].kont))
<1> DEFINE k == tasks[t].kont
           kk == Front(k)
<1>1. KontOK(k)
  BY Here
<1>2. KontOK(kk) /\ Forward(k, kk)
  BY <1>1, PopKont, PopCount
<1>3. /\ TaskTurn(t) /\ Len(tasks') = Len(tasks)
      /\ tasks'[t].mode = m /\ tasks'[t].kont = kk
  BY <1>2, SettleTurn
<1>4. ErrTurn(t)
  BY <1>3 DEF ErrTurn, ErrIn, Remembers
<1>5. Room(t) => Balance(t)
  BY <1>3, PopBalance
<1>6. SameElse(k, kk, Len(k)) /\ ~Scope(kk, Len(k))
  BY <1>1, PopElse
<1> QED BY <1>3, <1>4, <1>5, <1>6 DEF Turn, NoNew

\* The item of a scope block changes, with or without a block above it.
LEMMA ScopeSwap ==
    ASSUME Shape, running # 0, At("scope"), NEW x, Replaces(x, Top), running' = running,
           tasks[running].mode[1] \in Lively,
           ErrIn(tasks[running]) => BodyErred(Append(Front(tasks[running].kont), x)),
           NEW e, IsSeq(e), Len(e) = Len(I.env), NEW b,
           \/ EnterBlock(b, Append(Front(tasks[running].kont), x), e)
           \/ To(Done, Append(Front(tasks[running].kont), x)) /\ SetEnv(e)
           \/ To(Done, Append(Front(tasks[running].kont), x)) /\ interps' = interps
    PROVE  LET k == tasks[running].kont
               kk == tasks'[running].kont
           IN  /\ Turn(running) /\ NoNew
               /\ SameElse(k, kk, Len(k)) /\ (Scope(kk, Len(k)) <=> x.d # <<>>)
               /\ Scope(kk, Len(k)) => kk[Len(k)] = x
<1> DEFINE t == running
           i == tasks[t].in
           k == tasks[t].kont
           kx == Append(Front(k), x)
           none == 0
           m == Done
<1>1. /\ t \in DOMAIN tasks /\ k # <<>> /\ KontOK(k) /\ Last(k).at = "scope"
      /\ i \in DOMAIN interps /\ Replaces(x, Last(k)) /\ x.at = "scope"
  BY TopItem, Here DEF Top, T, Replaces
<1>2. Grows(k, kx, 0, 0)
  BY <1>1, GrowsSwap
<1>3. SameElse(k, kx, Len(k)) /\ Len(k) \in DOMAIN kx /\ kx[Len(k)] = x
  BY <1>1, SwapElse
<1>4. Scope(kx, Len(k)) <=> x.d # <<>>
  BY <1>1, <1>3 DEF Scope
<1>5. SameScopes(kx, kx)
  BY DEF SameScopes
<1>6. Turn(t) /\ NoNew /\ SameScopes(kx, tasks'[t].kont)
  <2>1. CASE EnterBlock(b, kx, e)
    <3>1. Len(e) = Len(I.env) + none /\ none \in Nat
      BY <1>1, Here DEF I, T
    <3>2. EnterBlock(b, kx, e) /\ Grows(k, kx, none, 0) /\ (ErrIn(tasks[t]) => BodyErred(kx))
      BY <1>2, <2>1
    <3> HIDE DEF kx, none
    <3>3. Turn(t) /\ NoNew /\ Keeps(kx, tasks'[t].kont)
      BY <3>1, <3>2, EnterTurn
    <3> QED BY <3>3 DEF Keeps
  <2>2. CASE To(m, kx) /\ (SetEnv(e) \/ interps' = interps)
    <3>1. Settle(t, m, kx) /\ m[1] \in Lively /\ none \in Nat
      BY <2>2 DEF To, Done, Lively
    <3>2. Stacks(t, none, none)
      <4>1. /\ InterpTurn(i) /\ Len(interps') = Len(interps)
            /\ Len(interps'[i].env) = Len(interps[i].env)
            /\ interps'[i].frames = interps[i].frames
        BY <1>1, <2>2, EnvSet, InterpSame DEF SetEnv, I, T
      <4>2. Len(interps[i].env) \in Nat /\ Len(interps[i].frames) \in Nat
        BY <1>1, Here
      <4> QED BY <4>1, <4>2 DEF Stacks
    <3>3. Remembers(t, m, kx) /\ Grows(k, kx, none, none)
      BY <1>2 DEF Remembers
    <3> HIDE DEF kx, none, m
    <3>4. Turn(t) /\ NoNew /\ tasks'[t].kont = kx
      BY <1>1, <3>1, <3>2, <3>3, GrowTurn
    <3> QED BY <1>5, <3>4
  <2> HIDE DEF kx
  <2> QED BY <2>1, <2>2 DEF kx
<1> DEFINE n == Len(k)
           kk == tasks'[t].kont
<1>7. SameElse(k, kx, n) /\ SameScopes(kx, kk)
  BY <1>3, <1>6
<1> HIDE DEF kx, n, kk
<1>8. SameElse(k, kk, n) /\ (Scope(kx, n) <=> Scope(kk, n)) /\ (Scope(kx, n) => kk[n] = kx[n])
  BY <1>7, ElseTwice
<1> QED BY <1>3, <1>4, <1>6, <1>8 DEF n, kk

\* No block, or one that moves on.
LEMMA ScopeMoved ==
    ASSUME Shape, NEW t \in DOMAIN tasks, tasks[t].kont # <<>>, Last(tasks[t].kont).at = "scope",
           NEW x, x.d = Last(tasks[t].kont).d, x.obj = Last(tasks[t].kont).obj,
           SameElse(tasks[t].kont, tasks'[t].kont, Len(tasks[t].kont)),
           Scope(tasks'[t].kont, Len(tasks[t].kont)) <=> x.d # <<>>,
           Scope(tasks'[t].kont, Len(tasks[t].kont)) => tasks'[t].kont[Len(tasks[t].kont)] = x,
           x.d = <<>> => log' = log,
           LET y == Last(tasks[t].kont)
           IN  x.d # <<>> =>
               \/ y.stage = "fill" /\ x.stage = "enter" /\ log' = log
               \/ y.stage = "enter" /\ x.stage = "body" /\ Note("entered", y.obj)
               \/ y.stage = "body" /\ x.stage = "exit" /\ Note("exited", y.obj)
    PROVE  Quiet(t) \/ Moves(t)
<1> DEFINE k == tasks[t].kont
           kk == tasks'[t].kont
           n == Len(k)
<1>1. KontOK(k)
  BY Here
<1>2. n \in DOMAIN k /\ k[n] = Last(k)
  BY <1>1, TopPlace
<1>3. Scope(k, n) <=> x.d # <<>>
  BY <1>2 DEF Scope
<1> HIDE DEF kk, n
<1>4. CASE x.d = <<>>
  <2>1. SameScopes(k, kk)
    BY <1>3, <1>4 DEF SameElse, SameScopes, kk, n
  <2> QED BY <1>4, <2>1 DEF Quiet, kk
<1>5. CASE x.d # <<>>
  BY <1>2, <1>3, <1>5 DEF Moves, kk, n
<1> QED BY <1>4, <1>5

\* What takes a scope item off is silent before the exit hook and notes the break after it.
LEMMA ScopeClosed ==
    ASSUME Shape, NEW t \in DOMAIN tasks, tasks[t].kont # <<>>, Last(tasks[t].kont).at = "scope",
           SameElse(tasks[t].kont, tasks'[t].kont, Len(tasks[t].kont)),
           ~Scope(tasks'[t].kont, Len(tasks[t].kont)),
           LET y == Last(tasks[t].kont)
           IN  \/ y.stage \in {"fill", "enter"} /\ log' = log
               \/ y.d = <<>> /\ log' = log
               \/ y.d # <<>> /\ y.stage = "exit" /\ Note("broken", y.obj)
    PROVE  Quiet(t) \/ Closes(t)
<1> DEFINE k == tasks[t].kont
           kk == tasks'[t].kont
           n == Len(k)
<1>1. KontOK(k)
  BY Here
<1>2. n \in DOMAIN k /\ k[n] = Last(k)
  BY <1>1, TopPlace
<1>3. Scope(k, n) <=> Last(k).d # <<>>
  BY <1>2 DEF Scope
<1> HIDE DEF kk, n
<1>4. CASE Last(k).d = <<>> /\ log' = log
  <2>1. SameScopes(k, kk)
    BY <1>3, <1>4 DEF SameElse, SameScopes, kk, n
  <2> QED BY <1>4, <2>1 DEF Quiet, kk
<1>5. CASE Last(k).d # <<>>
  BY <1>2, <1>3, <1>5 DEF Closes, kk, n
<1> QED BY <1>4, <1>5

\* What fails before the hook leaves the scope there.
LEMMA ScopeFillFailsTurn == ASSUME Shape, running # 0, ScopeFillFails PROVE ScopeTurn(running)
<1> DEFINE t == running
           i == tasks[t].in
           k == tasks[t].kont
           m == Mode
<1>1. /\ t \in DOMAIN tasks /\ k # <<>> /\ Last(k).at = "scope" /\ Last(k).at \notin Bases
      /\ Last(k).stage = "fill"
  BY TopItem DEF ScopeFillFails, Bases, Top, T
<1>2. /\ Settle(t, m, Front(k)) /\ running' = t /\ log' = log
      /\ interps' = interps /\ heap' = heap /\ threads' = threads
  BY DEF ScopeFillFails, To, T, Rest
<1>3. tasks[t].mode[1] \in Lively /\ m[1] = "err" /\ m[1] \in Lively
  BY DEF ScopeFillFails, Failed, Lively, Kind, Mode, T
<1> HIDE DEF m
<1>4. Remembers(t, m, Front(k))
  BY <1>3 DEF Remembers
<1>5. /\ InterpTurn(i) /\ Len(interps') = Len(interps)
      /\ Len(interps[i].env) \in Nat /\ Len(interps[i].frames) \in Nat
  BY <1>1, <1>2, Here, InterpSame
<1>6. One(Last(k).at \in ScopeItems) = 1 /\ One(Last(k).at \in CallItems) = 0
  BY <1>1 DEF One, ScopeItems, CallItems
<1>7. PopsOne(t, m)
  BY <1>2, <1>3, <1>5, <1>6 DEF PopsOne
<1>8. /\ Turn(t) /\ NoNew /\ SameElse(k, tasks'[t].kont, Len(k)) /\ ~Scope(tasks'[t].kont, Len(k))
  BY <1>1, <1>2, <1>3, <1>4, <1>5, <1>7, ScopePop
<1>9. Quiet(t) \/ Closes(t)
  BY <1>1, <1>2, <1>8, ScopeClosed
<1> QED BY <1>2, <1>8, <1>9, NothingElse DEF ScopeTurn, Steady

\* A scope block is left with its scope.
LEMMA ScopePops ==
    ASSUME Shape, NEW t \in DOMAIN tasks, tasks[t].kont # <<>>,
           Last(tasks[t].kont).at = "scope", NEW m,
           interps' = [interps EXCEPT ![tasks[t].in].env = Pop(interps[tasks[t].in].env)]
    PROVE  InterpTurn(tasks[t].in) /\ Len(interps') = Len(interps) /\ PopsOne(t, m)
<1> DEFINE i == tasks[t].in
           e == Pop(interps[i].env)
<1>1. /\ i \in DOMAIN interps /\ IsSeq(interps[i].env)
      /\ Len(interps[i].env) \in Nat /\ Len(interps[i].frames) \in Nat
  BY Here
<1>2. IsSeq(e) /\ (Len(interps[i].env) >= 1 => Len(e) = Len(interps[i].env) - 1)
  BY <1>1, PopShape
<1> HIDE DEF e
<1>3. /\ InterpTurn(i) /\ Len(interps') = Len(interps)
      /\ interps'[i].env = e /\ interps'[i].frames = interps[i].frames
  BY <1>1, <1>2, EnvSet DEF e
<1>4. One(Last(tasks[t].kont).at \in ScopeItems) = 1 /\ One(Last(tasks[t].kont).at \in CallItems) = 0
  BY DEF One, ScopeItems, CallItems
<1>5. Len(interps[i].env) >= 1 + 1 => Len(interps'[i].env) + 1 = Len(interps[i].env)
  BY <1>1, <1>2, <1>3
<1>6. Len(interps'[i].frames) + 0 = Len(interps[i].frames)
  BY <1>1, <1>3
<1> QED BY <1>3, <1>4, <1>5, <1>6 DEF PopsOne

\* The hook before the body failed.
LEMMA ScopeEnterFailsTurn == ASSUME Shape, running # 0, ScopeEnterFails PROVE ScopeTurn(running)
<1> DEFINE t == running
           i == tasks[t].in
           k == tasks[t].kont
           m == Mode
<1>1. /\ t \in DOMAIN tasks /\ k # <<>> /\ Last(k).at = "scope" /\ Last(k).at \notin Bases
      /\ Last(k).stage = "enter"
  BY TopItem DEF ScopeEnterFails, Bases, Top, T
<1>2. /\ Settle(t, m, Front(k)) /\ running' = t /\ log' = log /\ threads' = threads
      /\ interps' = [interps EXCEPT ![i].env = Pop(interps[i].env)]
  BY DEF ScopeEnterFails, To, SetEnv, T, I, Rest
<1>3. tasks[t].mode[1] \in Lively /\ m[1] = "err" /\ m[1] \in Lively
  BY DEF ScopeEnterFails, Failed, Lively, Kind, Mode, T
<1> HIDE DEF m
<1>4. Remembers(t, m, Front(k))
  BY <1>3 DEF Remembers
<1>5. InterpTurn(i) /\ Len(interps') = Len(interps) /\ PopsOne(t, m)
  BY <1>1, <1>2, ScopePops
<1>6. /\ Turn(t) /\ NoNew /\ SameElse(k, tasks'[t].kont, Len(k)) /\ ~Scope(tasks'[t].kont, Len(k))
  BY <1>1, <1>2, <1>3, <1>4, <1>5, ScopePop
<1>7. Quiet(t) \/ Closes(t)
  BY <1>1, <1>2, <1>6, ScopeClosed
<1>8. HeapKept(heap, heap')
  BY BreakKept DEF ScopeEnterFails, Shape
<1> QED BY <1>2, <1>6, <1>7, <1>8, NothingElse DEF ScopeTurn, Steady

\* The hook after the body has run, or there is none.
LEMMA ScopeLeaveTurn == ASSUME Shape, running # 0, ScopeLeave PROVE ScopeTurn(running)
<1> DEFINE t == running
           i == tasks[t].in
           k == tasks[t].kont
           y == Last(k)
           m == IF y.res[1] # "err" /\ Failed THEN Mode ELSE y.res
<1>1. /\ t \in DOMAIN tasks /\ k # <<>> /\ y.at = "scope" /\ y.at \notin Bases
      /\ y.stage = "exit" /\ ItemOK(y) /\ KontOK(k)
  BY TopItem DEF ScopeLeave, Bases, Top, T
<1>2. /\ Settle(t, m, Front(k)) /\ running' = t /\ threads' = threads
      /\ interps' = [interps EXCEPT ![i].env = Pop(interps[i].env)]
  BY DEF ScopeLeave, To, SetEnv, T, I, Rest, Top
<1>3. y.res[1] \in {"done", "ret", "err"}
  BY <1>1 DEF ItemOK
<1>4. tasks[t].mode[1] \in {"done", "ret", "err"} /\ (Failed <=> tasks[t].mode[1] = "err")
  BY DEF ScopeLeave, Completed, Failed, Kind, Mode, T
<1>5. tasks[t].mode[1] \in Lively /\ m[1] \in Lively
  BY <1>3, <1>4 DEF Lively, Mode, T
<1>6. (Failed \/ y.res[1] = "err") => m[1] = "err"
  BY <1>4 DEF Mode, T
<1> HIDE DEF m
<1>7. BodyErred(k) => BodyErred(Front(k)) \/ y.res[1] = "err"
  BY <1>1, PopKont, PopCount
<1>8. Remembers(t, m, Front(k))
  BY <1>4, <1>6, <1>7 DEF Remembers, ErrIn
<1>9. InterpTurn(i) /\ Len(interps') = Len(interps) /\ PopsOne(t, m)
  BY <1>1, <1>2, ScopePops
<1>10. /\ Turn(t) /\ NoNew /\ SameElse(k, tasks'[t].kont, Len(k)) /\ ~Scope(tasks'[t].kont, Len(k))
  BY <1>1, <1>2, <1>5, <1>8, <1>9, ScopePop
<1>11. (y.d = <<>> /\ log' = log) \/ (y.d # <<>> /\ Note("broken", y.obj))
  BY DEF ScopeLeave, Top, T
<1>12. Quiet(t) \/ Closes(t)
  BY <1>1, <1>10, <1>11, ScopeClosed
<1>13. HeapKept(heap, heap')
  BY BreakKept DEF ScopeLeave, Shape
<1> QED BY <1>2, <1>10, <1>12, <1>13, NothingElse DEF ScopeTurn, Steady

\* A block around the top of a task that no error is going through.
LEMMA ScopeKeeps ==
    ASSUME NEW t, KontOK(tasks[t].kont), tasks[t].kont # <<>>,
           tasks[t].mode[1] \notin {"err", "unwind"},
           NEW x, Replaces(x, Last(tasks[t].kont)),
           Last(tasks[t].kont).res[1] # "err" \/ x.res = Last(tasks[t].kont).res
    PROVE  ErrIn(tasks[t]) => BodyErred(Append(Front(tasks[t].kont), x))
BY SwapKont DEF ErrIn

\* The `self` object is filled: it gets its name, and its hook is run.
LEMMA ScopeEnterTurn == ASSUME Shape, running # 0, ScopeEnter PROVE ScopeTurn(running)
<1> DEFINE t == running
           k == tasks[t].kont
           y == Last(k)
           x == [y EXCEPT !.stage = "enter"]
           e == Define(I.env, "self", Ref("Object", y.obj))
           hook == HookOf(y.d, "__on_enter__")
<1>1. /\ t \in DOMAIN tasks /\ k # <<>> /\ KontOK(k) /\ y.at = "scope" /\ ItemOK(y)
      /\ y.stage = "fill" /\ At("scope") /\ y = Top
  BY TopItem DEF ScopeEnter, Top, T
<1>2. /\ running' = running /\ log' = log /\ heap' = heap /\ threads' = threads
      /\ tasks[t].mode[1] \in {"done", "ret"}
  BY DEF ScopeEnter, Completed, Kind, Mode, T
<1>3. x.d = y.d /\ x.obj = y.obj /\ x.stage = "enter" /\ x.res = y.res /\ y.res[1] = "done"
  BY <1>1 DEF ItemOK
<1>4. Replaces(x, y)
  BY <1>1 DEF ItemOK, Replaces
<1>5. \/ EnterBlock(hook[1].body, Append(Front(k), x), e)
      \/ To(Done, Append(Front(k), x)) /\ SetEnv(e)
  BY DEF ScopeEnter, T, I, Top, Rest
<1>6. IsSeq(e) /\ Len(e) = Len(I.env)
  BY <1>1, Here, VarShape DEF I, T
<1> HIDE DEF x, e, hook
<1>7. ErrIn(tasks[t]) => BodyErred(Append(Front(k), x))
  BY <1>1, <1>2, <1>3, <1>4, ScopeKeeps
<1>8. /\ Turn(t) /\ NoNew
      /\ SameElse(k, tasks'[t].kont, Len(k)) /\ (Scope(tasks'[t].kont, Len(k)) <=> x.d # <<>>)
      /\ Scope(tasks'[t].kont, Len(k)) => tasks'[t].kont[Len(k)] = x
  <2>1. tasks[t].mode[1] \in Lively
    BY <1>2 DEF Lively
  <2>2. Replaces(x, Top)
    BY <1>1, <1>4
  <2> QED BY <1>1, <1>2, <1>5, <1>6, <1>7, <2>1, <2>2, ScopeSwap
<1>9. Quiet(t) \/ Moves(t)
  <2>1. x.d = y.d /\ x.obj = y.obj /\ log' = log
    BY <1>2, <1>3
  <2>2. x.d # <<>> => y.stage = "fill" /\ x.stage = "enter" /\ log' = log
    BY <1>1, <1>2, <1>3
  <2> QED BY <1>1, <1>8, <2>1, <2>2, ScopeMoved
<1> QED BY <1>2, <1>8, <1>9, NothingElse DEF ScopeTurn, Steady

\* The body is run.
LEMMA ScopeBodyTurn == ASSUME Shape, running # 0, ScopeBody PROVE ScopeTurn(running)
<1> DEFINE t == running
           k == tasks[t].kont
           y == Last(k)
           x == [y EXCEPT !.stage = "body", !.prims = PrimsOf(y.d, y.obj)]
           e == I.env
           b == Top.n.blocks[1]
<1>1. /\ t \in DOMAIN tasks /\ k # <<>> /\ KontOK(k) /\ y.at = "scope" /\ ItemOK(y)
      /\ y.stage = "enter" /\ At("scope") /\ y = Top /\ y.d # <<>>
  BY TopItem DEF ScopeBody, Top, T, ItemOK
<1>2. /\ running' = running /\ Note("entered", y.obj) /\ heap' = heap /\ threads' = threads
      /\ tasks[t].mode[1] \in {"done", "ret"}
  BY DEF ScopeBody, Completed, Kind, Mode, T, Top
<1>3. x.d = y.d /\ x.obj = y.obj /\ x.stage = "body" /\ x.res = y.res /\ y.res[1] = "done"
  BY <1>1 DEF ItemOK
<1>4. Replaces(x, y)
  BY <1>1 DEF ItemOK, Replaces
<1>5. EnterBlock(b, Append(Front(k), x), e)
  BY DEF ScopeBody, T, I, Top, Rest
<1>6. IsSeq(e) /\ Len(e) = Len(I.env)
  BY <1>1, Here DEF I, T
<1> HIDE DEF x, e, b
<1>7. ErrIn(tasks[t]) => BodyErred(Append(Front(k), x))
  BY <1>1, <1>2, <1>3, <1>4, ScopeKeeps
<1>8. /\ Turn(t) /\ NoNew
      /\ SameElse(k, tasks'[t].kont, Len(k)) /\ (Scope(tasks'[t].kont, Len(k)) <=> x.d # <<>>)
      /\ Scope(tasks'[t].kont, Len(k)) => tasks'[t].kont[Len(k)] = x
  <2>1. tasks[t].mode[1] \in Lively
    BY <1>2 DEF Lively
  <2>2. Replaces(x, Top)
    BY <1>1, <1>4
  <2> QED BY <1>1, <1>2, <1>5, <1>6, <1>7, <2>1, <2>2, ScopeSwap
<1>9. Quiet(t) \/ Moves(t)
  <2>1. x.d = y.d /\ x.obj = y.obj /\ x.d # <<>>
    BY <1>1, <1>3
  <2>2. y.stage = "enter" /\ x.stage = "body" /\ Note("entered", y.obj)
    BY <1>1, <1>2, <1>3
  <2> QED BY <1>1, <1>8, <2>1, <2>2, ScopeMoved
<1> QED BY <1>2, <1>8, <1>9, NothingElse DEF ScopeTurn, Steady

\* The hook after the body, however that ended.
LEMMA ScopeExitTurn == ASSUME Shape, running # 0, ScopeExit PROVE ScopeTurn(running)
<1> DEFINE t == running
           k == tasks[t].kont
           y == Last(k)
           x == [y EXCEPT !.stage = "exit", !.res = Mode]
           e == I.env
           hook == HookOf(y.d, "__on_exit__")
<1>1. /\ t \in DOMAIN tasks /\ k # <<>> /\ KontOK(k) /\ y.at = "scope" /\ ItemOK(y)
      /\ y.stage = "body" /\ At("scope") /\ y = Top
  BY TopItem DEF ScopeExit, Top, T
<1>2. /\ running' = running /\ heap' = heap /\ threads' = threads
      /\ (y.d = <<>> /\ log' = log) \/ (y.d # <<>> /\ Note("exited", y.obj))
      /\ tasks[t].mode[1] \in {"done", "ret", "err"}
  BY DEF ScopeExit, Completed, Failed, Kind, Mode, T, Top
<1>3. /\ x.d = y.d /\ x.obj = y.obj /\ x.stage = "exit" /\ x.res = tasks[t].mode
      /\ y.res[1] = "done"
  BY <1>1 DEF ItemOK, Mode, T
<1>4. Replaces(x, y) /\ x.at = "scope"
  BY <1>1, <1>2, <1>3 DEF ItemOK, Replaces
<1>5. \/ EnterBlock(hook[1].body, Append(Front(k), x), e)
      \/ To(Done, Append(Front(k), x)) /\ interps' = interps
  BY DEF ScopeExit, T, I, Top, Rest
<1>6. IsSeq(e) /\ Len(e) = Len(I.env)
  BY <1>1, Here DEF I, T
<1> HIDE DEF x, e, hook
<1>7. ErrIn(tasks[t]) => BodyErred(Append(Front(k), x))
  <2>1. CASE tasks[t].mode[1] # "err"
    BY <1>1, <1>2, <1>3, <1>4, <2>1, ScopeKeeps
  <2>2. CASE tasks[t].mode[1] = "err"
    <3>1. SameElse(k, Append(Front(k), x), Len(k)) /\ Len(k) \in DOMAIN Append(Front(k), x)
          /\ Append(Front(k), x)[Len(k)] = x
      BY <1>1, SwapElse
    <3> QED BY <1>3, <1>4, <2>2, <3>1 DEF BodyErred
  <2> QED BY <2>1, <2>2
<1>8. /\ Turn(t) /\ NoNew
      /\ SameElse(k, tasks'[t].kont, Len(k)) /\ (Scope(tasks'[t].kont, Len(k)) <=> x.d # <<>>)
      /\ Scope(tasks'[t].kont, Len(k)) => tasks'[t].kont[Len(k)] = x
  <2>1. tasks[t].mode[1] \in Lively
    BY <1>2 DEF Lively
  <2>2. Replaces(x, Top)
    BY <1>1, <1>4
  <2> QED BY <1>1, <1>2, <1>5, <1>6, <1>7, <2>1, <2>2, ScopeSwap
<1>9. Quiet(t) \/ Moves(t)
  <2>1. x.d = y.d /\ x.obj = y.obj
    BY <1>3
  <2>2. x.d # <<>> => y.stage = "body" /\ x.stage = "exit" /\ Note("exited", y.obj)
    BY <1>1, <1>2, <1>3
  <2>3. x.d = <<>> => log' = log
    BY <1>2, <1>3
  <2> QED BY <1>1, <1>8, <2>1, <2>2, <2>3, ScopeMoved
<1> QED BY <1>2, <1>8, <1>9, NothingElse DEF ScopeTurn, Steady

\* An error of a body further down is not forgotten.
LEMMA ScopeOnTop ==
    ASSUME NEW k, KontOK(k), NEW x, BodyErred(k)
    PROVE  BodyErred(Append(k, x))
<1>1. IsSeq(k)
  BY DEF KontOK
<1>2. /\ IsSeq(Append(k, x)) /\ Len(Append(k, x)) = Len(k) + 1 /\ Len(k) \in Nat
      /\ DOMAIN k = 1..Len(k) /\ \A i \in 1..Len(k) : Append(k, x)[i] = k[i]
  BY <1>1, AppendShape, SeqShape
<1>3. DOMAIN Append(k, x) = 1..(Len(k) + 1)
  BY <1>2, SeqShape
<1> QED BY <1>2, <1>3 DEF BodyErred

\* A scope block is begun in a scope of its own.
LEMMA ScopeStartTurn == ASSUME Shape, running # 0, ScopeStart PROVE ScopeTurn(running)
<1> DEFINE t == running
           i == tasks[t].in
           k == tasks[t].kont
           d == Named(program.scopes, Node_.x)
           obj == Len(heap) + 1
           item(stage) == [at |-> "scope", n |-> Node_, d |-> d, obj |-> obj,
                           stage |-> stage, prims |-> {}, res |-> Done]
           e == Push(I.env)
           one == 1
           none == 0
<1>1. /\ t \in DOMAIN tasks /\ k # <<>> /\ KontOK(k) /\ IsSeq(k)
      /\ i \in DOMAIN interps /\ IsSeq(interps[i].env)
      /\ Len(interps[i].env) \in Nat /\ Len(interps[i].frames) \in Nat
      /\ N(k, ScopeItems) \in Nat /\ N(k, CallItems) \in Nat
  BY Runs, Here
<1>2. running' = t /\ log' = log /\ threads' = threads /\ tasks[t].mode[1] = "apply"
  BY DEF ScopeStart, Kind, Mode, T
<1>3. IsSeq(e) /\ Len(e) = Len(I.env) + one /\ Len(e) = Len(interps[i].env) + one
  BY <1>1, AppendShape DEF Push, I, T
<1>4. one \in Nat /\ none \in Nat
  OBVIOUS
<1>5. Onward(t, <<"done">>) /\ Onward(t, Fail("Panic", "arity"))
  BY <1>2 DEF Onward, Lively, Fail
<1>6. ASSUME NEW s \in {"fill", "body"}, s = "fill" => d # <<>>
      PROVE  /\ Grows(k, Append(k, item(s)), one, none)
             /\ d = <<>> => Keeps(k, Append(k, item(s)))
  <2> DEFINE x == item(s)
  <2>1. Above(x) /\ x.at = "scope" /\ x.d = d
    BY <1>6 DEF Above, ItemOK, Bases, Done
  <2>2. One(x.at \in ScopeItems) = one /\ One(x.at \in CallItems) = none
    BY <2>1 DEF One, ScopeItems, CallItems
  <2> HIDE DEF x, one, none, k, d
  <2>3. /\ Grows(k, Append(k, x), one, none)
        /\ x.at # "scope" \/ x.d = <<>> => Keeps(k, Append(k, x))
    BY <1>1, <2>1, <2>2, GrowsPush
  <2> QED BY <2>1, <2>3 DEF x
<1>7. CASE d = <<>>
  <2> DEFINE kk == Append(k, item("body"))
  <2>1. EnterBlock(Node_.blocks[1], kk, e) /\ heap' = heap
    BY <1>7 DEF ScopeStart, T
  <2>2. Grows(k, kk, one, 0) /\ Keeps(k, kk)
    BY <1>6, <1>7
  <2> HIDE DEF kk, e, one, none, d, item
  <2>3. Turn(t) /\ Quiet(t) /\ NoNew
    BY <1>2, <1>3, <1>4, <1>5, <2>1, <2>2, EnterQuiet
  <2> QED BY <1>2, <2>1, <2>3, NothingElse DEF ScopeTurn, Steady
<1>8. ASSUME interps' = [interps EXCEPT ![i].env = e]
      PROVE  /\ InterpTurn(i) /\ Len(interps') = Len(interps) /\ interps'[i].env = e
             /\ interps'[i].frames = interps[i].frames
  BY <1>1, <1>3, <1>8, EnvSet
<1>9. CASE d # <<>> /\ Len(d[1].params) # Len(Node_.args)
  <2> DEFINE m == Fail("Panic", "arity")
  <2>1. /\ Settle(t, m, k) /\ heap' = heap /\ m[1] = "err"
        /\ interps' = [interps EXCEPT ![i].env = e]
    BY <1>9 DEF ScopeStart, To, T, SetEnv, I, Fail
  <2> HIDE DEF m
  <2>2. /\ Forward(k, k) /\ SameScopes(k, k)
        /\ InterpTurn(i) /\ Len(interps') = Len(interps)
    <3>1. Forward(k, k) /\ SameScopes(k, k)
      BY <1>1, Here
    <3> QED BY <1>8, <2>1, <3>1
  <2>3. tasks'[t].kont = k /\ tasks'[t].mode = m => Balance(t)
    BY <1>1, <1>3, <1>8, <2>1 DEF Balance, ScopesStay, FramesGrow
  <2>4. Onward(t, m)
    BY <1>5 DEF m
  <2>5. Turn(t) /\ Quiet(t) /\ NoNew
    BY <1>1, <1>2, <2>1, <2>2, <2>3, <2>4, GoOn
  <2> QED BY <1>2, <2>1, <2>5, NothingElse DEF ScopeTurn, Steady
<1>10. CASE d # <<>> /\ Len(d[1].params) = Len(Node_.args)
  <2> DEFINE x == item("fill")
             kx == Append(k, x)
             args == [a \in DOMAIN Node_.args |->
                       Slot(d[1].params[a].x, <<Node_.args[a]>>, d[1].params[a].ty)]
             y == Fill(args \o SlotsOf(d[1].fields), obj)
             kk == Append(kx, y)
             n == Len(k) + 1
             m == Done
  <2>1. /\ heap' = Cell(heap, "Object", [fields |-> EmptyScope])
        /\ To(m, k \o <<item("fill"), y>>)
        /\ interps' = [interps EXCEPT ![i].env = e]
    BY <1>10 DEF ScopeStart, SetEnv, T, I
  <2>2. Settle(t, m, kk)
    <3>1. k \o <<x, y>> = kk
      <4> HIDE DEF x, y
      <4> QED BY <1>1, AppendTwo
    <3> QED BY <2>1, <3>1 DEF To
  <2>3. Above(y) /\ y.at = "fill"
    BY DEF Fill, Above, ItemOK, Bases
  <2>4. One(y.at \in ScopeItems) = none /\ One(y.at \in CallItems) = none /\ y.at # "scope"
    BY <2>3 DEF One, ScopeItems, CallItems
  <2>5. Grows(k, kx, one, none)
    BY <1>6, <1>10
  <2>6. Fresh(heap, heap', "Object", [fields |-> EmptyScope]) /\ HeapKept(heap, heap')
    BY <2>1, NewCell, HeapMore DEF Shape, Kinds
  <2>7. obj \in DOMAIN heap' \ DOMAIN heap
    BY <2>6, SeqShape DEF Fresh, Shape, HeapOK
  <2>8. SameElse(k, kx, n) /\ ~Scope(k, n) /\ n \in DOMAIN kx /\ kx[n] = item("fill")
    BY <1>1, PushElse
  <2>9. Scope(kx, n) /\ kx[n].obj = obj /\ kx[n].stage = "fill"
    BY <1>10, <2>8 DEF Scope
  <2> HIDE DEF y, kx, m, item, n, obj, d
  <2>10. Grows(k, kk, one, none) /\ SameScopes(kx, kk)
    <3>1. KontOK(kx) /\ kx # <<>>
      BY <2>5 DEF Grows, Forward
    <3> HIDE DEF one, none, k
    <3>2. Grows(kx, kk, none, none) /\ Keeps(kx, kk)
      BY <2>3, <2>4, <3>1, GrowsPush
    <3>3. one \in Int /\ none \in Int /\ one + none = one /\ none + none = none
      BY DEF one, none
    <3> QED BY <1>1, <2>5, <3>2, <3>3, GrowsTwice DEF Keeps
  <2>11. SameElse(k, kk, n) /\ Scope(kk, n) /\ kk[n] = kx[n]
    <3> HIDE DEF kk
    <3> QED BY <2>8, <2>9, <2>10, ElseTwice
  <2>12. Stacks(t, one, none)
    <3>1. /\ InterpTurn(i) /\ Len(interps') = Len(interps) /\ interps'[i].env = e
          /\ interps'[i].frames = interps[i].frames
      BY <1>8, <2>1
    <3> HIDE DEF e
    <3> QED BY <1>1, <1>3, <3>1 DEF Stacks
  <2>13. tasks[t].mode[1] \in Lively /\ m[1] \in Lively
    BY <1>2 DEF Lively, m, Done
  <2>14. Remembers(t, m, kk)
    <3>1. SameElse(k, kk, n) /\ ~Scope(k, n)
      BY <2>8, <2>11
    <3>2. BodyErred(k) => BodyErred(kk)
      <4>1. BodyErred(k) => BodyErred(kx)
        BY <1>1, ScopeOnTop DEF kx
      <4>2. BodyErred(kx) => BodyErred(kk)
        <5>1. KontOK(kx) /\ kx # <<>>
          BY <2>5 DEF Grows, Forward
        <5>2. Keeps(kx, kk)
          BY <2>3, <2>4, <5>1, GrowsPush
        <5> QED BY <5>2 DEF Keeps
      <4> QED BY <4>1, <4>2
    <3> QED BY <1>2, <3>2 DEF Remembers, ErrIn
  <2> HIDE DEF kk, one, none
  <2>15. Turn(t) /\ NoNew /\ tasks'[t].kont = kk
    BY <1>1, <1>2, <1>4, <2>2, <2>10, <2>12, <2>13, <2>14, GrowTurn
  <2>16. Opens(t)
    BY <1>2, <2>7, <2>8, <2>9, <2>11, <2>15 DEF Opens
  <2> QED BY <1>2, <2>6, <2>15, <2>16, NothingElse DEF ScopeTurn, Steady
<1> QED BY <1>7, <1>9, <1>10

-----------------------------------------------------------------------------
(* Bodies and handlers.                                                      *)

\* The base of a body in its next stage.
LEMMA NextStageSame ==
    ASSUME Shape, running # 0, At("thread"), NEW s, NEW m, To(m, NextStage(s)), Onward(running, m),
           running' = running, log' = log, InterpTurn(T.in), Len(interps') = Len(interps),
           Len(interps'[T.in].env) = Len(I.env), Len(interps'[T.in].frames) = Len(I.frames)
    PROVE  Turn(running) /\ Quiet(running) /\ NoNew
<1> DEFINE t == running
           k == tasks[t].kont
           x == [Last(k) EXCEPT !.stage = s]
<1>1. t \in DOMAIN tasks /\ k # <<>> /\ ItemOK(Last(k)) /\ Last(k).at = "thread"
  BY TopItem
<1>2. Replaces(x, Last(k)) /\ x.at # "scope"
  BY <1>1, SameItem DEF ItemOK
<1>3. Settle(t, m, Append(Front(k), x))
  BY DEF To, NextStage, Rest, Top, T
<1> HIDE DEF x
<1> QED BY <1>1, <1>2, <1>3, SwapSame DEF T, I

\* The body is over, and the hook after it is run.
LEMMA ThreadBodyEndsPlain == ASSUME Shape, running # 0, ThreadBodyEnds PROVE Plain(running)
<1> DEFINE hook == ThreadHook("__on_exit__")
           m == IF hook = <<>> THEN Yield(Void) ELSE <<"invoke", hook[1], <<>>>>
<1>1. At("thread") /\ To(m, NextStage("exit"))
  BY DEF ThreadBodyEnds, Stage
<1>2. Onward(running, m)
  BY DEF ThreadBodyEnds, Completed, Onward, Lively, Yield, Kind, Mode, T
<1>3. /\ running' = running /\ log' = log /\ interps' = interps /\ heap' = heap
      /\ threads' = threads
  BY DEF ThreadBodyEnds
<1>4. running \in DOMAIN tasks /\ T.in \in DOMAIN interps
  BY Runs, Here DEF T
<1>5. InterpTurn(T.in) /\ Len(interps') = Len(interps)
  BY <1>3, <1>4, InterpSame
<1> HIDE DEF m, hook
<1>6. Len(interps'[T.in].env) = Len(I.env) /\ Len(interps'[T.in].frames) = Len(I.frames)
  BY <1>3 DEF I
<1> QED BY <1>1, <1>2, <1>3, <1>5, <1>6, NextStageSame, PlainSame

\* A thread whose arguments fit its template gets its `self`, and the hook
\* before the body is run.
Fits == IF Top.t = <<>> THEN TRUE ELSE Len(Top.t[1].params) = Len(Top.args)
\* The setup of a thread evaluates its fields.
LEMMA ThreadSetupPlain == ASSUME Shape, running # 0, ThreadSetup, Fits PROVE Plain(running)
<1> DEFINE hook == ThreadHook("__on_enter__")
           m == IF hook = <<>> THEN Yield(Void) ELSE <<"invoke", hook[1], <<>>>>
           e == Define(I.env, "self", Ref("Object", I.self))
           ps == IF Top.t = <<>> THEN <<>> ELSE Top.t[1].params
<1>1. At("thread")
  BY DEF ThreadSetup, Stage
<1>2. Onward(running, m)
  BY DEF ThreadSetup, Completed, Onward, Lively, Yield, Kind, Mode, T
<1>3. ~(Top.t # <<>> /\ Len(ps) # Len(Top.args))
  BY DEF Fits
<1>4. /\ running' = running /\ log' = log /\ threads' = threads /\ To(m, NextStage("enter"))
      /\ interps' = interps \/ interps' = [interps EXCEPT ![T.in].env = e]
      /\ \/ heap' = heap
         \/ heap' = [heap EXCEPT ![I.self].fields = Bind(ps, Top.args) @@ heap[I.self].fields]
  BY <1>3 DEF ThreadSetup, SetEnv
<1>5. HeapKept(heap, heap')
  <2>1. \A v : HeapKept(heap, [heap EXCEPT ![I.self].fields = v])
    BY HeapField DEF Shape
  <2>2. HeapKept(heap, heap)
    BY NothingElse
  <2>3. heap' = heap \/ \E v : heap' = [heap EXCEPT ![I.self].fields = v]
    BY <1>4
  <2> QED BY <2>1, <2>2, <2>3
<1>6. running \in DOMAIN tasks /\ T.in \in DOMAIN interps /\ IsSeq(I.env)
  BY Runs, Here DEF T, I
<1>7. IsSeq(e) /\ Len(e) = Len(I.env)
  BY <1>6, VarShape
<1> HIDE DEF m, hook, e
<1>8. /\ InterpTurn(T.in) /\ Len(interps') = Len(interps)
      /\ Len(interps'[T.in].env) = Len(I.env) /\ Len(interps'[T.in].frames) = Len(I.frames)
  <2>1. CASE interps' = interps
    BY <1>6, <2>1, InterpSame DEF I
  <2>2. CASE interps' = [interps EXCEPT ![T.in].env = e]
    <3> DEFINE i == T.in
    <3>1. /\ i \in DOMAIN interps /\ IsSeq(e) /\ Len(e) = Len(interps[i].env)
          /\ interps' = [interps EXCEPT ![i].env = e]
      BY <1>6, <1>7, <2>2 DEF I
    <3> HIDE DEF i
    <3>2. /\ InterpTurn(i) /\ Len(interps') = Len(interps)
          /\ interps'[i].env = e /\ interps'[i].frames = interps[i].frames
      BY <3>1, EnvSet
    <3> QED BY <3>1, <3>2 DEF i, I
  <2> QED BY <1>4, <2>1, <2>2
<1> QED BY <1>1, <1>2, <1>4, <1>5, <1>8, NextStageSame, PlainHeap

\* One item, and nothing below it.
LEMMA OnlyItem ==
    ASSUME NEW k, IsSeq(k), Len(k) = 1, NEW x
    PROVE  Append(Front(k), x) = <<x>>
<1>1. k # <<>>
  BY SeqShape
<1>2. IsSeq(Front(k)) /\ Len(Front(k)) = 0
  BY <1>1, FrontShape
<1>3. Front(k) = <<>>
  BY <1>2, SeqShape
<1> QED BY <1>3

\* The next statement of the main program.
LEMMA TopStepPlain == ASSUME Shape, running # 0, TopStep PROVE Plain(running)
<1> DEFINE t == running
           k == tasks[t].kont
           x == [at |-> "top", rest |-> Tail(Last(k).rest)]
           m == <<"node", Head(Top.rest)>>
<1>1. /\ t \in DOMAIN tasks /\ k # <<>> /\ KontOK(k) /\ Last(k).at = "top" /\ Len(k) = 1
  BY TopItem DEF TopStep, Bases
<1>2. /\ running' = t /\ log' = log /\ interps' = interps /\ heap' = heap /\ threads' = threads
  BY DEF TopStep
<1>3. Onward(t, m)
  BY DEF TopStep, Completed, Onward, Lively, Kind, Mode, T
<1>4. Replaces(x, Last(k)) /\ x.at # "scope"
  BY <1>1 DEF Replaces, ItemOK
<1>5. Settle(t, m, Append(Front(k), x))
  <2>1. Settle(t, m, <<x>>)
    BY DEF TopStep, To, Top, T
  <2> HIDE DEF x, m
  <2>2. Append(Front(k), x) = <<x>>
    BY <1>1, OnlyItem DEF KontOK
  <2> QED BY <2>1, <2>2
<1> HIDE DEF x, m
<1> QED BY <1>1, <1>2, <1>3, <1>4, <1>5, Here, InterpSame, SwapSame, PlainSame

\* An answer is a value or an error.
LEMMA AnswerOutcome ==
    ASSUME NEW t, Answer(t) # <<>>
    PROVE  Answer(t)[1][1] \in {"val", "err", "done"}
<1> DEFINE Good(a) == a = <<>> \/ a[1][1] \in {"val", "err", "done"}
           c == heap[tasks[t].mode[2]]
<1>1. /\ Good(<<>>) /\ Good(<<Done>>) /\ \A v : Good(<<Yield(v)>>)
      /\ \A kind, why : Good(<<Fail(kind, why)>>)
  BY DEF Done, Yield, Fail
<1> HIDE DEF Good
<1>2. /\ Good(IF threads[tasks[t].mode[2]].ready THEN <<Done>> ELSE <<>>)
      /\ Good(IF running = 0 THEN <<Yield(Void)>> ELSE <<>>)
      /\ Good(IF c.out[1] = "queued" THEN <<>>
              ELSE <<Yield(Ref("HandlerFuture", tasks[t].mode[2]))>>)
      /\ Good(IF c.broken # "" THEN <<Fail(c.broken, "broken")>>
              ELSE IF c.raised THEN <<Yield(Void)>> ELSE <<>>)
  BY <1>1
<1>3. Good(CASE c.out[1] = "ok" -> <<Yield(c.out[2])>>
             [] c.out[1] = "fail" -> <<Fail(c.out[2], "future")>>
             [] OTHER -> <<>>)
  BY <1>1
<1>4. Good(Answer(t))
  BY <1>1, <1>2, <1>3 DEF Answer
<1> QED BY <1>4 DEF Good

\* A task that waited goes on; the thread it spawned may get a name.
LEMMA ResumePlain == ASSUME Shape, NEW t \in DOMAIN tasks, Resume(t) PROVE Plain(t)
<1> DEFINE i == tasks[t].in
           k == tasks[t].kont
           m == Answer(t)[1]
           e == Define(interps[i].env, tasks[t].mode[3], Ref("ThreadHandle", tasks[t].mode[2]))
<1>1. /\ Settle(t, m, k) /\ running' = t /\ threads' = threads /\ heap' = heap /\ log' = log
      /\ tasks[t].mode[1] \in Waiting /\ Answer(t) # <<>>
      /\ interps' = [interps EXCEPT ![i].env = e] \/ interps' = interps
  BY DEF Resume
<1>2. k # <<>> /\ IsSeq(interps[i].env)
  BY <1>1, Here DEF TaskOK, Waiting, Over
<1>3. m[1] \in {"val", "err", "done"}
  BY <1>1, AnswerOutcome
<1>4. Onward(t, m)
  BY <1>1, <1>3 DEF Onward, Lively, Waiting
<1>5. IsSeq(e) /\ Len(e) = Len(interps[i].env)
  BY <1>2, VarShape
<1> HIDE DEF m, e
<1>6. CASE interps' = interps
  BY <1>1, <1>2, <1>4, <1>6, StaySame, PlainSame
<1>7. CASE interps' = [interps EXCEPT ![i].env = e]
  BY <1>1, <1>2, <1>4, <1>5, <1>7, EnvStay, PlainSame
<1> QED BY <1>1, <1>6, <1>7

\* A thread is ready, and its body begins.
ReadyNow ==
    /\ IsSeq(threads') /\ Len(threads') = Len(threads)
    /\ \A th \in DOMAIN threads :
          /\ DOMAIN threads'[th] = DOMAIN threads[th]
          /\ threads'[th].status = threads[th].status
          /\ threads[th].ready => threads'[th].ready
          /\ threads'[th].gone = threads[th].gone /\ threads'[th].queue = threads[th].queue

\* The thread is ready after its enter hook.
LEMMA ThreadEnteredTurn ==
    ASSUME Shape, running # 0, ThreadEntered
    PROVE  Turn(running) /\ Quiet(running) /\ NoNew /\ heap' = heap /\ ReadyNow
<1> DEFINE t == running
           k == tasks[t].kont
           x == [Last(k) EXCEPT !.stage = "body"]
           kx == Append(Front(k), x)
           b == Top.body
<1>1. /\ t \in DOMAIN tasks /\ k # <<>> /\ KontOK(k) /\ ItemOK(Last(k)) /\ Last(k).at = "thread"
  BY TopItem DEF ThreadEntered, Stage
<1>2. Replaces(x, Last(k)) /\ x.at # "scope"
  BY <1>1, SameItem DEF ItemOK
<1>3. EnterBlock(b, kx, I.env)
  BY DEF ThreadEntered, NextStage, Rest, Top, T
<1>4. running' = running /\ log' = log /\ heap' = heap
      /\ threads' = [threads EXCEPT ![I.thread].ready = TRUE]
  BY DEF ThreadEntered
<1>5. Onward(running, Done)
  BY DEF ThreadEntered, Onward, Done, Lively, Kind, Mode, T
<1> HIDE DEF x, b
<1>6. Grows(k, kx, 0, 0) /\ Keeps(k, kx)
  BY <1>1, <1>2, GrowsSwap
<1> HIDE DEF kx
<1>7. Turn(running) /\ Quiet(running) /\ NoNew
  BY <1>3, <1>4, <1>5, <1>6, EnterOn
<1>8. ReadyNow
  <2>1. IsSeq(threads)
    BY DEF Shape
  <2>2. IsSeq(threads') /\ Len(threads') = Len(threads) /\ DOMAIN threads' = DOMAIN threads
    BY <1>4, <2>1, ExceptShape
  <2>3. ASSUME NEW th \in DOMAIN threads
        PROVE  \/ threads'[th] = threads[th]
               \/ threads'[th] = [threads[th] EXCEPT !.ready = TRUE]
    BY <1>4
  <2>4. \A th \in DOMAIN threads : DOMAIN threads[th] = ThreadRecord
    BY DEF Shape, ThreadOK
  <2>5. ASSUME NEW th \in DOMAIN threads
        PROVE  /\ DOMAIN threads'[th] = DOMAIN threads[th]
               /\ threads'[th].status = threads[th].status
               /\ threads[th].ready => threads'[th].ready
               /\ threads'[th].gone = threads[th].gone
               /\ threads'[th].queue = threads[th].queue
    <3>1. threads'[th] = threads[th] \/ threads'[th] = [threads[th] EXCEPT !.ready = TRUE]
      BY <2>3
    <3>2. DOMAIN threads[th] = ThreadRecord
      BY <2>4
    <3> DEFINE a == threads[th]
               c == threads'[th]
    <3> HIDE DEF a, c
    <3>3. c = a \/ c = [a EXCEPT !.ready = TRUE]
      BY <3>1 DEF a, c
    <3>4. DOMAIN a = ThreadRecord
      BY <3>2 DEF a
    <3>5. /\ DOMAIN c = DOMAIN a /\ c.status = a.status /\ (a.ready => c.ready)
          /\ c.gone = a.gone /\ c.queue = a.queue
      BY <3>3, <3>4 DEF ThreadRecord
    <3> QED BY <3>5 DEF a, c
  <2> QED BY <2>2, <2>5 DEF ReadyNow
<1> QED BY <1>4, <1>7, <1>8

-----------------------------------------------------------------------------
(* Steps that start something: a request, a future's task, a thread.         *)

\* A request is answered at once, or queued at a thread whose loop goes on.
Dispatched ==
    \/ /\ \E o : /\ o[1] \notin {"queued", "running"}
                 /\ Fresh(heap, heap', "HandlerFuture", [out |-> o])
       /\ threads' = threads
    \/ /\ Fresh(heap, heap', "HandlerFuture", [out |-> <<"queued">>])
       /\ \E th \in DOMAIN threads : \E r :
             /\ r.cell = Len(heap) + 1
             /\ threads[th].status = "Running" /\ ~threads[th].gone
             /\ threads' = [threads EXCEPT ![th].queue = Append(@, r)]

\* A call of a handler puts a request in the queue, or is refused at once.
LEMMA ApplyDispatchTurn ==
    ASSUME Shape, running # 0, ApplyDispatch
    PROVE  Turn(running) /\ Quiet(running) /\ NoNew /\ Dispatched
<1> DEFINE th == Mode[3][1][2]
           new == Len(heap) + 1
           r == [x |-> Node_.x, args |-> Tail(Mode[3]), cell |-> new]
<1>1. th \in DOMAIN threads /\ HeapOK(heap)
  BY DEF ApplyDispatch, Shape
<1>2. \A o : Fresh(heap, Cell(heap, "HandlerFuture", [out |-> o]), "HandlerFuture", [out |-> o])
  BY <1>1, NewCell
<1>3. running' = running /\ log' = log /\ interps' = interps
  BY DEF ApplyDispatch
<1>4. PICK m : To(m, T.kont) /\ m[1] \in {"val", "reply"}
  <2>1. Yield(Ref("HandlerFuture", new))[1] = "val" /\ <<"reply", new>>[1] = "reply"
    BY DEF Yield
  <2>2. To(Yield(Ref("HandlerFuture", new)), T.kont) \/ To(<<"reply", new>>, T.kont)
    BY DEF ApplyDispatch
  <2> QED BY <2>1, <2>2
<1>5. Settle(running, m, tasks[running].kont) /\ Onward(running, m)
  BY <1>4 DEF ApplyDispatch, To, Onward, Lively, Waiting, Kind, Mode, T
<1>6. Turn(running) /\ Quiet(running) /\ NoNew
  BY <1>3, <1>5, Runs, StaySame
<1>7. Dispatched
  <2>1. CASE threads[th].status # "Running" \/ Node_.x = "__ping__" \/ threads[th].gone
    <3>1. threads' = threads
      BY <2>1 DEF ApplyDispatch
    <3>2. PICK o : /\ heap' = Cell(heap, "HandlerFuture", [out |-> o])
                   /\ o[1] \in {"fail", "ok"}
      <4>1. heap' = Cell(heap, "HandlerFuture",
                         [out |-> IF threads[th].status # "Running"
                                  THEN <<"fail", "Target" \o threads[th].status>>
                                  ELSE IF Node_.x = "__ping__" THEN <<"ok", Str("pong")>>
                                  ELSE <<"fail", "TargetCrashed">>])
        BY <2>1 DEF ApplyDispatch
      <4> QED BY <4>1
    <3>3. Fresh(heap, heap', "HandlerFuture", [out |-> o])
      BY <1>2, <3>2
    <3> QED BY <3>1, <3>2, <3>3 DEF Dispatched
  <2>2. CASE ~(threads[th].status # "Running" \/ Node_.x = "__ping__" \/ threads[th].gone)
    <3>1. /\ heap' = Cell(heap, "HandlerFuture", [out |-> <<"queued">>])
          /\ threads' = [threads EXCEPT ![th].queue = Append(@, r)]
      BY <2>2 DEF ApplyDispatch
    <3>2. Fresh(heap, heap', "HandlerFuture", [out |-> <<"queued">>])
      BY <1>2, <3>1
    <3>3. r.cell = Len(heap) + 1
      OBVIOUS
    <3> HIDE DEF r, th
    <3> QED BY <1>1, <2>2, <3>1, <3>2, <3>3 DEF Dispatched
  <2> QED BY <2>1, <2>2
<1> QED BY <1>6, <1>7

\* A task with an interpreter state of its own begins.
NewState(s) ==
    /\ DOMAIN s = InterpRecord
    /\ IsSeq(s.env) /\ Len(s.env) = 1 /\ IsSeq(s.frames) /\ Len(s.frames) = 0
NewKont(kk) == KontOK(kk) /\ kk # <<>> /\ \A j \in DOMAIN kk : kk[j].at \notin ScopeItems
ForkNow(t, mm, m, kk, s) ==
    /\ tasks' = Append([tasks EXCEPT ![t].mode = mm], NewTask(Len(interps) + 1, m, kk))
    /\ interps' = Append(interps, s)
    /\ running' = t /\ log' = log
Forks(t, m, kk) ==
    /\ Turn(t) /\ Quiet(t)
    /\ Len(tasks') = Len(tasks) + 1 /\ Len(interps') = Len(interps) + 1
    /\ tasks'[Len(tasks) + 1] = NewTask(Len(interps) + 1, m, kk)
    /\ NewState(interps'[Len(interps) + 1]) /\ m[1] \in Lively /\ NewKont(kk)

\* What async calls and spawns share: one new interpreter and one new task for it.
LEMMA ForkTurn ==
    ASSUME Shape, NEW t \in DOMAIN tasks, tasks[t].kont # <<>>, NEW mm, Onward(t, mm),
           NEW m, NEW kk, NEW s, ForkNow(t, mm, m, kk, s), NewState(s), NewKont(kk),
           m[1] \in Lively
    PROVE  Forks(t, m, kk) /\ interps'[Len(interps) + 1] = s
<1> DEFINE ts == [tasks EXCEPT ![t].mode = mm]
           new == NewTask(Len(interps) + 1, m, kk)
           i == tasks[t].in
<1>1. IsSeq(tasks) /\ DOMAIN tasks = 1..Len(tasks) /\ Len(tasks) \in Nat
  BY SeqShape DEF Shape
<1>2. IsSeq(ts) /\ Len(ts) = Len(tasks)
  BY <1>1, ExceptShape
<1>3. DOMAIN tasks[t] = TaskRecord
  BY DEF Shape, TaskOK
<1>4. /\ ts[t].mode = mm /\ ts[t].kont = tasks[t].kont /\ ts[t].in = tasks[t].in
      /\ DOMAIN ts[t] = TaskRecord
      /\ \A u \in DOMAIN tasks \ {t} : ts[u] = tasks[u]
  BY <1>3 DEF TaskRecord
<1> HIDE DEF ts, new
<1>5. /\ IsSeq(tasks') /\ Len(tasks') = Len(tasks) + 1 /\ tasks'[Len(tasks) + 1] = new
      /\ \A u \in 1..Len(tasks) : tasks'[u] = ts[u]
  BY <1>2, AppendShape DEF ts, new, ForkNow
<1>6. IsSeq(interps) /\ DOMAIN interps = 1..Len(interps) /\ Len(interps) \in Nat
  BY SeqShape DEF Shape
<1>7. /\ IsSeq(interps') /\ Len(interps') = Len(interps) + 1 /\ interps'[Len(interps) + 1] = s
      /\ \A j \in 1..Len(interps) : interps'[j] = interps[j]
  BY <1>6, AppendShape DEF ForkNow
<1>8. i \in DOMAIN interps /\ InterpOK(interps[i]) /\ KontOK(tasks[t].kont)
      /\ Forward(tasks[t].kont, tasks[t].kont) /\ SameScopes(tasks[t].kont, tasks[t].kont)
      /\ Len(interps[i].env) \in Nat /\ Len(interps[i].frames) \in Nat
      /\ N(tasks[t].kont, ScopeItems) \in Nat /\ N(tasks[t].kont, CallItems) \in Nat
  BY Here
<1>9. /\ tasks'[t].mode = mm /\ tasks'[t].kont = tasks[t].kont /\ tasks'[t].in = tasks[t].in
      /\ DOMAIN tasks'[t] = TaskRecord
      /\ \A u \in DOMAIN tasks \ {t} : tasks'[u] = tasks[u]
  BY <1>1, <1>4, <1>5
<1>10. TaskTurn(t)
  BY <1>1, <1>5, <1>8, <1>9 DEF TaskTurn, Onward
<1>12. /\ i \in DOMAIN interps' /\ DOMAIN interps \subseteq DOMAIN interps'
       /\ \A j \in DOMAIN interps : interps'[j] = interps[j]
  BY <1>6, <1>7, <1>8, SeqShape
<1>11. InterpTurn(i)
  <2>1. IsSeq(interps') /\ Len(interps') >= Len(interps)
    BY <1>6, <1>7
  <2>2. interps'[i] = interps[i]
    BY <1>8, <1>12
  <2>3. DOMAIN interps[i] = InterpRecord /\ IsSeq(interps[i].env) /\ IsSeq(interps[i].frames)
    BY <1>8 DEF InterpOK
  <2> QED BY <1>12, <2>1, <2>2, <2>3 DEF InterpTurn
<1>13. ErrTurn(t)
  BY <1>9 DEF ErrTurn, ErrIn, Onward
<1>14. Balance(t)
  BY <1>8, <1>9, <1>12 DEF Balance, ScopesGrow, FramesGrow
<1>15. Turn(t) /\ Quiet(t)
  BY <1>8, <1>9, <1>10, <1>11, <1>13, <1>14 DEF Turn, Quiet, ForkNow
<1> QED BY <1>5, <1>7, <1>15 DEF Forks, new

\* A continuation of a base alone, or with the filling of an object above it.
LEMMA TwoItems ==
    ASSUME NEW x, NEW y
    PROVE  <<x>> \o <<>> = <<x>> /\ <<x>> \o <<y>> = <<x, y>>
<1>1. <<x>> \in Seq({x, y}) /\ y \in {x, y}
  OBVIOUS
<1>2. Append(<<x>>, y) = <<x, y>>
  <2>1. <<x, y>> \in Seq({x, y}) /\ Len(<<x, y>>) = 2 /\ <<x, y>>[1] = x /\ <<x, y>>[2] = y
    OBVIOUS
  <2>2. IsSeq(<<x>>) /\ Len(<<x>>) = 1 /\ <<x>>[1] = x
    BY ShortSeqs
  <2> DEFINE z == Append(<<x>>, y)
  <2>3. Len(z) = 2 /\ z[1] = x /\ z[2] = y
    BY <2>2, AppendShape
  <2>4. z \in Seq({x, y})
    BY <1>1
  <2> HIDE DEF z
  <2>5. \A i \in 1..Len(z) : z[i] = <<x, y>>[i]
    <3>1. 1..Len(z) = {1, 2}
      BY <2>3
    <3> QED BY <2>1, <2>3, <3>1
  <2> QED BY <2>1, <2>3, <2>4, <2>5, SeqEqual DEF z
<1> QED BY <1>1, <1>2, ConcatEmptySeq, AppendIsConcat

\* The continuation of a new task, with one item and with two.
LEMMA BaseKont ==
    ASSUME NEW x, x.at \in Bases \ {"handler"}, "at" \in DOMAIN x
    PROVE  NewKont(<<x>>) /\ <<x>>[1] = x
<1>1. ItemOK(x) /\ x.at \notin ScopeItems
  BY DEF ItemOK, Bases, ScopeItems
<1>2. IsSeq(<<x>>) /\ <<x>> # <<>>
  BY ShortSeqs
<1>3. DOMAIN <<x>> = {1} /\ <<x>>[1] = x
  OBVIOUS
<1> QED BY <1>1, <1>2, <1>3 DEF KontOK, NewKont

\* With the fields of a thread still to be evaluated.
LEMMA BaseAndFill ==
    ASSUME NEW x, x.at \in Bases \ {"handler"}, "at" \in DOMAIN x,
           NEW y, y.at = "fill", "at" \in DOMAIN y
    PROVE  NewKont(<<x, y>>) /\ <<x, y>>[1] = x
<1>1. /\ ItemOK(x) /\ x.at \notin ScopeItems
      /\ ItemOK(y) /\ y.at \notin ScopeItems /\ y.at \notin Bases
  BY DEF ItemOK, Bases, ScopeItems
<1>2. <<x, y>> \in Seq({x, y})
  OBVIOUS
<1>3. IsSeq(<<x, y>>) /\ <<x, y>> # <<>>
  BY <1>2, SeqIs
<1>4. DOMAIN <<x, y>> = {1, 2} /\ <<x, y>>[1] = x /\ <<x, y>>[2] = y
  OBVIOUS
<1> QED BY <1>1, <1>3, <1>4 DEF KontOK, NewKont

\* An async function begins in a task of its own; its future is running.
Calls(t) ==
    \E m, x :
        /\ x.at = "mini" /\ x.cell = Len(heap) + 1 /\ Forks(t, m, <<x>>)
        /\ interps'[Len(interps) + 1].thread = interps[tasks[t].in].thread
        /\ interps'[Len(interps) + 1].self = interps[tasks[t].in].self
        /\ Fresh(heap, heap', "Future", [out |-> <<"running">>])
        /\ threads' = threads

\* A call of an async function starts a task on a copy of the state.
LEMMA ApplyCallTurn ==
    ASSUME Shape, running # 0, ApplyCall, Named(I.funcs, Node_.x)[1].kind = "async"
    PROVE  Calls(running)
<1> DEFINE t == running
           i == tasks[t].in
           cell == Len(heap) + 1
           self == IF I.self = 0 THEN EmptyScope ELSE Put(EmptyScope, "self", Ref("Object", I.self))
           s == [interps[i] EXCEPT !.env = <<self>>, !.frames = <<>>, !.bt = <<>>,
                                   !.caught = FALSE]
           mm == Yield(Ref("Future", cell))
           m == <<"invoke", Named(I.funcs, Node_.x)[1], Mode[3]>>
           x == [at |-> "mini", cell |-> cell]
           kk == <<x>>
<1>1. /\ t \in DOMAIN tasks /\ tasks[t].kont # <<>> /\ InterpOK(interps[i])
  BY Runs, Here
<1>2. /\ running' = t /\ log' = log /\ threads' = threads
      /\ heap' = Cell(heap, "Future", [out |-> <<"running">>])
      /\ interps' = Append(interps, s)
      /\ tasks' = Append([tasks EXCEPT ![t].mode = mm], NewTask(Len(interps) + 1, m, kk))
  BY DEF ApplyCall, I, T
<1>3. ForkNow(t, mm, m, kk, s)
  BY <1>2 DEF ForkNow
<1>4. Onward(t, mm) /\ m[1] \in Lively
  BY DEF ApplyCall, Yield, Onward, Lively, Kind, Mode, T
<1>5. x.at \in Bases \ {"handler"} /\ "at" \in DOMAIN x /\ x.at = "mini" /\ x.cell = cell
  BY DEF Bases
<1>6. NewKont(kk)
  <2> HIDE DEF x
  <2> QED BY <1>5, BaseKont
<1>7. /\ DOMAIN s = InterpRecord /\ s.env = <<self>> /\ s.frames = <<>>
      /\ s.thread = interps[i].thread /\ s.self = interps[i].self
  BY <1>1 DEF InterpOK, InterpRecord
<1> HIDE DEF s, mm, m, x, self
<1>8. NewState(s)
  BY <1>7, ShortSeqs DEF NewState
<1> HIDE DEF kk
<1>9. Forks(t, m, kk) /\ interps'[Len(interps) + 1] = s
  BY <1>1, <1>4, <1>6, <1>8, <1>3, ForkTurn
<1>10. Fresh(heap, heap', "Future", [out |-> <<"running">>])
  BY <1>2, NewCell DEF Shape
<1> QED BY <1>2, <1>5, <1>7, <1>9, <1>10 DEF Calls, kk

\* A thread begins.
Spawns(t) ==
    \E m, kk, s :
        /\ kk[1].at = "thread" /\ Forks(t, m, kk)
        /\ interps'[Len(interps) + 1].thread = Len(threads) + 1
        /\ interps'[Len(interps) + 1].self \in 0..Len(heap')
        /\ HeapKept(heap, heap')
        /\ ThreadOK(s) /\ s.status = "Running" /\ threads' = Append(threads, s)

\* A thread begins as a running one with nothing queued.
LEMMA NewThreadOK ==
    ASSUME NEW d
    PROVE  ThreadOK(NewThread(d)) /\ NewThread(d).status = "Running"
<1>1. /\ DOMAIN NewThread(d) = ThreadRecord /\ NewThread(d).status = "Running"
      /\ NewThread(d).queue = <<>>
  BY DEF NewThread, ThreadRecord
<1> QED BY <1>1, EmptyShape DEF ThreadOK, Statuses

\* A spawn starts a thread, its object and its task.
LEMMA ExecSpawnTurn == ASSUME Shape, running # 0, ExecSpawn PROVE Spawns(running)
<1> DEFINE t == running
           i == tasks[t].in
           d == Named(program.threads, Node_.x)
           th == Len(threads) + 1
           obj == IF d = <<>> THEN 0 ELSE Len(heap) + 1
           slots == IF d = <<>> THEN <<>> ELSE SlotsOf(d[1].fields)
           funcs == IF d = <<>> THEN I.funcs ELSE I.funcs \o d[1].funcs
           x == [at |-> "thread", t |-> d, body |-> Node_.blocks[1],
                 args |-> Mode[3], stage |-> "setup"]
           y == Fill(slots, obj)
           kk == <<x>> \o IF d = <<>> THEN <<>> ELSE <<y>>
           s == [NewInterp(funcs) EXCEPT !.tmpl = d, !.thread = th, !.self = obj]
           mm == <<"ready", th, Node_.bind>>
           m == Done
<1>1. t \in DOMAIN tasks /\ tasks[t].kont # <<>>
  BY Runs
<1>2. /\ running' = t /\ log' = log /\ threads' = Append(threads, NewThread(d))
      /\ heap' = IF d = <<>> THEN heap ELSE Cell(heap, "Object", [fields |-> EmptyScope])
      /\ interps' = Append(interps, s)
      /\ tasks' = Append([tasks EXCEPT ![t].mode = mm], NewTask(Len(interps) + 1, m, kk))
  BY DEF ExecSpawn, I, T
<1>3. ForkNow(t, mm, m, kk, s)
  BY <1>2 DEF ForkNow
<1>4. Onward(t, mm) /\ m[1] \in Lively
  BY DEF ExecSpawn, Onward, Lively, Waiting, Done, Kind, Mode, T
<1>5. /\ x.at \in Bases \ {"handler"} /\ "at" \in DOMAIN x /\ x.at = "thread"
      /\ y.at = "fill" /\ "at" \in DOMAIN y
  BY DEF Bases, Fill
<1>6. kk = <<x>> \/ kk = <<x, y>>
  <2> HIDE DEF x, y
  <2> QED BY TwoItems
<1> HIDE DEF kk
<1>7. NewKont(kk) /\ kk[1] = x
  <2> HIDE DEF x, y
  <2>1. NewKont(<<x>>) /\ <<x>>[1] = x
    BY <1>5, BaseKont
  <2>2. NewKont(<<x, y>>) /\ <<x, y>>[1] = x
    BY <1>5, BaseAndFill
  <2> QED BY <1>6, <2>1, <2>2
<1>8. /\ DOMAIN s = InterpRecord /\ s.env = <<EmptyScope>> /\ s.frames = <<>>
      /\ s.thread = th /\ s.self = obj
  BY DEF NewInterp, InterpRecord
<1>9. HeapKept(heap, heap') /\ obj \in 0..Len(heap')
  <2>1. HeapOK(heap)
    BY DEF Shape
  <2>2. CASE d = <<>>
    <3>1. heap' = heap /\ obj = 0
      BY <1>2, <2>2
    <3>2. Len(heap) \in Nat
      BY <2>1, SeqShape DEF HeapOK
    <3> HIDE DEF obj
    <3> QED BY <2>1, <3>1, <3>2, HeapStays
  <2>3. CASE d # <<>>
    <3>1. heap' = Cell(heap, "Object", [fields |-> EmptyScope]) /\ obj = Len(heap) + 1
      BY <1>2, <2>3
    <3>2. Fresh(heap, heap', "Object", [fields |-> EmptyScope]) /\ HeapKept(heap, heap')
      BY <2>1, <3>1, NewCell, HeapMore DEF Kinds
    <3> HIDE DEF obj
    <3> QED BY <3>1, <3>2 DEF Fresh
  <2> QED BY <2>2, <2>3
<1> HIDE DEF s, mm, m, x, y, obj, d, th
<1>10. NewState(s)
  BY <1>8, ShortSeqs DEF NewState
<1>11. Forks(t, m, kk) /\ interps'[Len(interps) + 1] = s
  BY <1>1, <1>4, <1>7, <1>10, <1>3, ForkTurn
<1>12. ThreadOK(NewThread(d)) /\ NewThread(d).status = "Running"
  BY NewThreadOK
<1> QED BY <1>2, <1>5, <1>7, <1>8, <1>9, <1>11, <1>12 DEF Spawns, th

-----------------------------------------------------------------------------
(* Steps that end something.                                                 *)

\* The running task is over and gives up the executor.
Gone(t, how) ==
    /\ t \in DOMAIN tasks /\ tasks[t].kont # <<>> /\ running' = 0
    /\ IsSeq(tasks') /\ Len(tasks') = Len(tasks)
    /\ \A u \in DOMAIN tasks \ {t} : tasks'[u] = tasks[u]
    /\ DOMAIN tasks'[t] = TaskRecord /\ tasks'[t].in = tasks[t].in
    /\ tasks'[t].mode = <<how>> /\ tasks'[t].kont = <<>>

\* A task that leaves has nothing to go back to.
LEMMA LeaveGone ==
    ASSUME Shape, running # 0, NEW how, Leave(how)
    PROVE  Gone(running, how)
<1> DEFINE t == running
<1>1. /\ t \in DOMAIN tasks /\ tasks[t].kont # <<>> /\ DOMAIN tasks[t] = TaskRecord
  BY Runs, Here DEF TaskOK
<1>2. /\ tasks' = [tasks EXCEPT ![t] = [tasks[t] EXCEPT !.mode = <<how>>, !.kont = <<>>]]
      /\ running' = 0
  BY DEF Leave
<1>3. IsSeq(tasks)
  BY DEF Shape
<1>4. IsSeq(tasks') /\ Len(tasks') = Len(tasks)
  BY <1>2, <1>3, ExceptShape
<1>5. tasks'[t] = [tasks[t] EXCEPT !.mode = <<how>>, !.kont = <<>>]
  BY <1>1, <1>2
<1>6. /\ DOMAIN tasks'[t] = TaskRecord /\ tasks'[t].in = tasks[t].in
      /\ tasks'[t].mode = <<how>> /\ tasks'[t].kont = <<>>
  BY <1>1, <1>5 DEF TaskRecord
<1> QED BY <1>1, <1>2, <1>4, <1>6 DEF Gone

\* Some futures get an outcome of a kind.
Settled(cells, kinds) ==
    /\ IsSeq(heap') /\ Len(heap') = Len(heap)
    /\ \A c \in DOMAIN heap :
          /\ DOMAIN heap'[c] = DOMAIN heap[c] /\ heap'[c].is = heap[c].is
          /\ "out" \in DOMAIN heap[c] =>
                IF c \in cells THEN heap'[c].out[1] \in kinds
                ELSE heap'[c].out = heap[c].out
Outs == {"ok", "fail"}

\* One of them.
LEMMA SettledOne ==
    ASSUME Shape, NEW c, NEW o, heap' = [heap EXCEPT ![c].out = o], NEW kinds, o[1] \in kinds
    PROVE  Settled({c}, kinds)
<1>1. IsSeq(heap) /\ \A d \in DOMAIN heap : CellOK(heap[d])
  BY DEF Shape, HeapOK
<1>2. IsSeq(heap') /\ Len(heap') = Len(heap)
  BY <1>1, ExceptShape
<1>3. ASSUME NEW d \in DOMAIN heap
      PROVE  /\ DOMAIN heap'[d] = DOMAIN heap[d] /\ heap'[d].is = heap[d].is
             /\ "out" \in DOMAIN heap[d] =>
                   IF d \in {c} THEN heap'[d].out[1] \in kinds ELSE heap'[d].out = heap[d].out
  <2>1. "is" \in DOMAIN heap[d]
    BY <1>1 DEF CellOK
  <2>2. heap'[d] = IF d = c THEN [heap[d] EXCEPT !.out = o] ELSE heap[d]
    OBVIOUS
  <2> QED BY <2>1, <2>2
<1> QED BY <1>2, <1>3 DEF Settled

\* Those of the requests of a thread, when what it owns may be broken as well.
Asked(th) == {r.cell : r \in SeqRange(threads[th].queue)}
\* Cells that get an outcome differ in nothing else.
LEMMA SettledSome ==
    ASSUME Shape, NEW cells, NEW kinds, NEW hh, HeapKept(heap, hh), Len(hh) = Len(heap),
           DOMAIN heap' = DOMAIN heap, heap' = [d \in DOMAIN heap |-> heap'[d]],
           \A d \in DOMAIN heap :
               IF d \in cells THEN \E o : o[1] \in kinds /\ heap'[d] = [heap[d] EXCEPT !.out = o]
               ELSE heap'[d] = hh[d]
    PROVE  Settled(cells, kinds)
<1>1. /\ IsSeq(heap) /\ DOMAIN heap = 1..Len(heap) /\ Len(heap) \in Nat
      /\ \A d \in DOMAIN heap : CellOK(heap[d])
  BY SeqShape DEF Shape, HeapOK
<1>2. IsSeq(heap') /\ Len(heap') = Len(heap)
  BY <1>1, FunIsSeq
<1>3. ASSUME NEW d \in DOMAIN heap
      PROVE  /\ DOMAIN heap'[d] = DOMAIN heap[d] /\ heap'[d].is = heap[d].is
             /\ "out" \in DOMAIN heap[d] =>
                   IF d \in cells THEN heap'[d].out[1] \in kinds ELSE heap'[d].out = heap[d].out
  <2>1. "is" \in DOMAIN heap[d] /\ CellKept(heap[d], hh[d])
    BY <1>1 DEF CellOK, HeapKept
  <2>2. CASE d \in cells
    <3>1. PICK o : o[1] \in kinds /\ heap'[d] = [heap[d] EXCEPT !.out = o]
      BY <2>2
    <3> QED BY <2>1, <2>2, <3>1
  <2>3. CASE d \notin cells
    BY <2>1, <2>3 DEF CellKept
  <2> QED BY <2>2, <2>3
<1> QED BY <1>2, <1>3 DEF Settled

\* A thread that takes no more requests.
Closed(th, status, gone) ==
    /\ th \in DOMAIN threads /\ IsSeq(threads') /\ Len(threads') = Len(threads)
    /\ \A o \in DOMAIN threads \ {th} : threads'[o] = threads[o]
    /\ ThreadOK(threads'[th]) /\ threads'[th].ready /\ threads'[th].queue = <<>>
    /\ threads'[th].status = status /\ threads'[th].gone = gone

\* A thread that is closed differs in its status, its queue and what is gone.
LEMMA ClosedThread ==
    ASSUME Shape, NEW th \in DOMAIN threads, NEW status \in Statuses, NEW gone, NEW s,
           threads' = [threads EXCEPT ![th] = s], DOMAIN s = ThreadRecord,
           s.ready, s.queue = <<>>, s.status = status, s.gone = gone
    PROVE  Closed(th, status, gone)
<1>1. IsSeq(threads)
  BY DEF Shape
<1>2. IsSeq(threads') /\ Len(threads') = Len(threads)
  BY <1>1, ExceptShape
<1>3. threads'[th] = s /\ \A o \in DOMAIN threads \ {th} : threads'[o] = threads[o]
  OBVIOUS
<1>4. ThreadOK(s)
  BY EmptyShape DEF ThreadOK
<1> QED BY <1>2, <1>3, <1>4 DEF Closed

\* A body is over, and its thread with it.
BodyOver(t, th, status) ==
    /\ Gone(t, "end") /\ tasks[t].kont[1].at = "thread" /\ Len(tasks[t].kont) = 1
    /\ tasks[t].mode[1] \in Lively /\ th = interps[tasks[t].in].thread
    /\ tasks[t].mode[1] # "unwind" /\ (tasks[t].mode[1] = "err" => status = "Crashed")
    /\ status \in {"Terminated", "Crashed"}
    /\ Closed(th, status, threads[th].gone) /\ Settled(Asked(th), Outs)
    /\ interps' = interps /\ log' = log

\* The common end of a thread: status, drain and outcome.
LEMMA FinishOver ==
    ASSUME Shape, running # 0, At("thread"), NEW status, status \in {"Terminated", "Crashed"},
           FinishThread(status), interps' = interps, log' = log,
           Kind \in Lively, Kind # "unwind", Kind = "err" => status = "Crashed"
    PROVE  BodyOver(running, I.thread, status)
<1> DEFINE t == running
           i == tasks[t].in
           th == I.thread
           s == [threads[th] EXCEPT !.status = status, !.ready = TRUE, !.queue = <<>>]
           reason == IF status = "Crashed" THEN "OwnerCrashed" ELSE "OwnerGone"
           hh == BreakPrims(heap, threads[th].owned, reason)
<1>1. /\ t \in DOMAIN tasks /\ tasks[t].kont # <<>> /\ KontOK(tasks[t].kont)
      /\ Last(tasks[t].kont).at = "thread" /\ Len(tasks[t].kont) = 1
  BY TopItem DEF Bases
<1>2. tasks[t].kont[1].at = "thread"
  BY <1>1, TopPlace
<1>3. Gone(t, "end")
  BY LeaveGone DEF FinishThread
<1>4. th \in DOMAIN threads
  <2>1. TaskOK(tasks[t]) /\ InterpOK(interps[i])
    BY <1>1, Here
  <2>2. th \in 0..Len(threads) /\ th # 0
    BY <1>1, <1>2, <2>1 DEF TaskOK, InterpOK, I, T
  <2>3. DOMAIN threads = 1..Len(threads) /\ Len(threads) \in Nat
    BY SeqShape DEF Shape
  <2> HIDE DEF th
  <2> QED BY <2>2, <2>3
<1>5. threads' = [threads EXCEPT ![th] = s] /\ heap' = Finish(heap, th, status)
  BY DEF FinishThread
<1>6. ThreadOK(threads[th])
  BY <1>4 DEF Shape
<1>7. /\ DOMAIN s = ThreadRecord /\ s.ready /\ s.queue = <<>> /\ s.status = status
      /\ s.gone = threads[th].gone
  BY <1>6 DEF ThreadOK, ThreadRecord
<1>8. Settled(Asked(th), Outs)
  <2>1. HeapOK(heap)
    BY DEF Shape
  <2>2. HeapKept(heap, hh) /\ DOMAIN hh = DOMAIN heap
    <3>1. HeapKept(heap, hh)
      BY <2>1, BreakKept
    <3>2. DOMAIN hh = DOMAIN heap
      BY DEF BreakPrims
    <3> QED BY <3>1, <3>2
  <2>3. Len(hh) = Len(heap)
    BY <2>1, <2>2, SeqShape DEF HeapOK, HeapKept
  <2>4. /\ DOMAIN heap' = DOMAIN heap /\ heap' = [d \in DOMAIN heap |-> heap'[d]]
        /\ \A d \in DOMAIN heap :
              heap'[d] = IF d \in Asked(th)
                         THEN [heap[d] EXCEPT !.out = <<"fail", "Target" \o status>>]
                         ELSE hh[d]
    BY <1>5 DEF Finish, Asked
  <2> DEFINE o == <<"fail", "Target" \o status>>
  <2>5. o[1] \in Outs
    BY DEF Outs
  <2> HIDE DEF hh, th, o
  <2>6. \A d \in DOMAIN heap :
               IF d \in Asked(th) THEN \E x : x[1] \in Outs /\ heap'[d] = [heap[d] EXCEPT !.out = x]
               ELSE heap'[d] = hh[d]
    BY <2>4, <2>5 DEF o
  <2> QED BY <2>2, <2>3, <2>4, <2>6, SettledSome
<1>9. status \in Statuses
  BY DEF Statuses
<1> HIDE DEF s
<1>10. Closed(th, status, threads[th].gone)
  BY <1>4, <1>5, <1>7, <1>9, ClosedThread
<1> QED BY <1>1, <1>2, <1>3, <1>8, <1>10 DEF BodyOver, I, T, Kind, Mode

\* Every way a body ends closes its thread.
LEMMA ThreadEndsOver ==
    ASSUME Shape, running # 0, ThreadEnds \/ (ThreadSetup /\ ~Fits)
    PROVE  \E status : BodyOver(running, I.thread, status)
<1>1. CASE ThreadEnds
  <2>1. \/ Stage("exit") /\ Kind = "val" /\ FinishThread("Terminated")
        \/ At("thread") /\ Failed /\ FinishThread("Crashed")
    BY <1>1 DEF ThreadEnds
  <2>2. interps' = interps /\ log' = log
    BY <1>1 DEF ThreadEnds
  <2>3. CASE Stage("exit") /\ Kind = "val" /\ FinishThread("Terminated")
    <3>1. At("thread") /\ Kind \in Lively /\ Kind # "unwind" /\ Kind # "err"
      BY <2>3 DEF Stage, Lively
    <3> QED BY <2>2, <2>3, <3>1, FinishOver
  <2>4. CASE At("thread") /\ Failed /\ FinishThread("Crashed")
    <3>1. Kind \in Lively /\ Kind # "unwind"
      BY <2>4 DEF Failed, Lively
    <3> QED BY <2>2, <2>4, <3>1, FinishOver
  <2> QED BY <2>1, <2>3, <2>4
<1>2. CASE ThreadSetup /\ ~Fits
  <2>1. At("thread") /\ FinishThread("Crashed") /\ interps' = interps /\ log' = log
    BY <1>2 DEF ThreadSetup, Fits, Stage
  <2>2. Kind \in Lively /\ Kind # "unwind"
    BY <1>2 DEF ThreadSetup, Completed, Lively
  <2> QED BY <2>1, <2>2, FinishOver
<1> QED BY <1>1, <1>2

\* The body of an async function is over.
FutureOver(t) ==
    /\ Gone(t, "end") /\ tasks[t].kont[1].at = "mini" /\ Len(tasks[t].kont) = 1
    /\ Settled({tasks[t].kont[1].cell}, Outs)
    /\ interps' = interps /\ threads' = threads /\ log' = log

\* An async function or bare spawn that ends settles its future.
LEMMA MiniEndsOver == ASSUME Shape, running # 0, MiniEnds PROVE FutureOver(running)
<1> DEFINE t == running
           c == Top.cell
           o == IF Failed THEN <<"fail", "Panic">> ELSE <<"ok", Mode[2]>>
<1>1. /\ t \in DOMAIN tasks /\ tasks[t].kont # <<>> /\ KontOK(tasks[t].kont)
      /\ Last(tasks[t].kont).at = "mini" /\ Len(tasks[t].kont) = 1
  BY TopItem DEF MiniEnds, Bases
<1>2. tasks[t].kont[1] = Last(tasks[t].kont)
  BY <1>1, TopPlace
<1>3. Gone(t, "end")
  BY LeaveGone DEF MiniEnds
<1>4. heap' = [heap EXCEPT ![c].out = o] /\ o[1] \in Outs
  BY DEF MiniEnds, Outs
<1>5. interps' = interps /\ threads' = threads /\ log' = log
  BY DEF MiniEnds
<1>6. c = tasks[t].kont[1].cell
  BY <1>2 DEF Top, T
<1> HIDE DEF o, c
<1>7. Settled({c}, Outs)
  BY <1>4, SettledOne
<1> QED BY <1>1, <1>2, <1>3, <1>5, <1>6, <1>7 DEF FutureOver

\* A handler is over: its scope and its frame are popped, unless it was refused;
\* an error of it is remembered as caught.
HandlerOver(t) ==
    LET i == tasks[t].in
    IN  /\ Gone(t, "end") /\ tasks[t].kont[1].at = "handler" /\ Len(tasks[t].kont) = 1
        /\ Settled({tasks[t].kont[1].cell}, Outs) /\ ThreadsKept /\ log' = log
        /\ \/ tasks[t].mode[1] = "refused" /\ interps' = interps
           \/ /\ tasks[t].mode[1] \in Lively \ {"unwind"}
              /\ InterpTurn(i) /\ Len(interps') = Len(interps)
              /\ tasks[t].mode[1] = "err" => interps'[i].caught
              /\ interps'[i].env = Pop(interps[i].env)
              /\ interps'[i].frames = Front(interps[i].frames)

\* A handler that ends answers its caller.
LEMMA HandlerEndsOver == ASSUME Shape, running # 0, HandlerEnds PROVE HandlerOver(running)
<1> DEFINE t == running
           i == tasks[t].in
           c == Top.cell
           o == IF Completed THEN <<"ok", IF Kind = "ret" THEN Mode[2] ELSE Void>>
                ELSE <<"fail", "ExecutionFailed">>
<1>1. /\ t \in DOMAIN tasks /\ tasks[t].kont # <<>> /\ KontOK(tasks[t].kont)
      /\ Last(tasks[t].kont).at = "handler" /\ Len(tasks[t].kont) = 1
      /\ i \in DOMAIN interps /\ InterpOK(interps[i])
  BY TopItem, Here DEF HandlerEnds, Bases
<1>2. tasks[t].kont[1] = Last(tasks[t].kont)
  BY <1>1, TopPlace
<1>3. Gone(t, "end")
  BY LeaveGone DEF HandlerEnds
<1>4. heap' = [heap EXCEPT ![c].out = o] /\ o[1] \in Outs
  BY DEF HandlerEnds, Outs
<1>5. log' = log /\ threads' = [threads EXCEPT ![I.thread].busy = FALSE]
  BY DEF HandlerEnds
<1>6. c = tasks[t].kont[1].cell
  BY <1>2 DEF Top, T
<1>7. ThreadsKept
  <2>1. IsSeq(threads) /\ \A th \in DOMAIN threads : DOMAIN threads[th] = ThreadRecord
    BY DEF Shape, ThreadOK
  <2>2. IsSeq(threads') /\ Len(threads') = Len(threads)
    BY <1>5, <2>1, ExceptShape
  <2>3. ASSUME NEW th \in DOMAIN threads PROVE ThreadKept(threads[th], threads'[th])
    <3> DEFINE a == threads[th]
               b == threads'[th]
    <3>1. b = a \/ b = [a EXCEPT !.busy = FALSE]
      BY <1>5
    <3>2. DOMAIN a = ThreadRecord
      BY <2>1
    <3> HIDE DEF a, b
    <3>3. ThreadKept(a, b)
      BY <3>1, <3>2 DEF ThreadKept, ThreadRecord
    <3> QED BY <3>3 DEF a, b
  <2> QED BY <2>2, <2>3 DEF ThreadsKept
<1> HIDE DEF o, c
<1>8. Settled({c}, Outs)
  BY <1>4, SettledOne
<1>9. \/ tasks[t].mode[1] = "refused" /\ interps' = interps
      \/ /\ tasks[t].mode[1] \in Lively \ {"unwind"}
         /\ InterpTurn(i) /\ Len(interps') = Len(interps)
         /\ tasks[t].mode[1] = "err" => interps'[i].caught
         /\ interps'[i].env = Pop(interps[i].env)
         /\ interps'[i].frames = Front(interps[i].frames)
  <2>1. CASE tasks[t].mode[1] = "refused"
    BY <2>1 DEF HandlerEnds, Kind, Mode, T
  <2>2. CASE tasks[t].mode[1] # "refused"
    <3>1. tasks[t].mode[1] \in {"done", "ret", "err"}
      BY <2>2 DEF HandlerEnds, Completed, Failed, Kind, Mode, T
    <3>2. tasks[t].mode[1] \in Lively \ {"unwind"}
      BY <3>1 DEF Lively
    <3>3. interps' = [interps EXCEPT ![i].env = Pop(@), ![i].frames = Front(@),
                            ![i].bt = IF Failed THEN Backtrace(i, I.frames) ELSE @,
                            ![i].caught = @ \/ Failed]
      BY <2>2 DEF HandlerEnds, Kind, Mode, T
    <3>4. IsSeq(Pop(interps[i].env)) /\ IsSeq(Front(interps[i].frames))
      BY <1>1, PopShape DEF InterpOK
    <3>5. /\ InterpNow(i) /\ interps'[i].env = Pop(interps[i].env)
          /\ interps'[i].frames = Front(interps[i].frames)
          /\ Failed => interps'[i].caught
      BY <1>1, <3>3, <3>4 DEF InterpNow, InterpOK, InterpRecord
    <3>6. InterpTurn(i) /\ Len(interps') = Len(interps)
      BY <1>1, <3>5, InterpAt
    <3>7. tasks[t].mode[1] = "err" => Failed
      BY DEF Failed, Kind, Mode, T
    <3> QED BY <3>2, <3>5, <3>6, <3>7
  <2> QED BY <2>1, <2>2
<1> QED BY <1>1, <1>2, <1>3, <1>5, <1>6, <1>7, <1>8, <1>9 DEF HandlerOver

\* A task ends without any cleanup.
Panics(t) ==
    LET base == tasks[t].kont[1]
        th == interps[tasks[t].in].thread
    IN  /\ Gone(t, "panicked") /\ tasks[t].mode[1] = "unwind"
        /\ interps' = interps /\ log' = log
        /\ \/ /\ base.at = "thread"
              /\ Closed(th, threads[th].status, TRUE) /\ Settled(Asked(th), Outs)
           \/ /\ base.at \in {"handler", "mini"}
              /\ threads' = threads /\ Settled({base.cell}, Outs)

\* A Rust panic ends its task, whatever it was in.
LEMMA TaskPanicsPanics == ASSUME Shape, running # 0, TaskPanics PROVE Panics(running)
<1> DEFINE t == running
           i == tasks[t].in
           k == tasks[t].kont
           base == k[1]
           th == interps[i].thread
           s == [threads[th] EXCEPT !.gone = TRUE, !.ready = TRUE, !.queue = <<>>]
<1>1. /\ t \in DOMAIN tasks /\ k # <<>> /\ KontOK(k) /\ IsSeq(k) /\ TaskOK(tasks[t])
      /\ i \in DOMAIN interps /\ InterpOK(interps[i])
  BY Runs, Here
<1>2. base.at \in Bases
  <2>1. 1 \in DOMAIN k
    BY <1>1, SeqShape
  <2> QED BY <1>1, <2>1 DEF KontOK
<1>3. Gone(t, "panicked")
  BY LeaveGone DEF TaskPanics
<1>4. interps' = interps /\ log' = log /\ tasks[t].mode[1] = "unwind"
  BY DEF TaskPanics, Kind, Mode, T
<1>5. HeapOK(heap)
  BY DEF Shape
<1>6. CASE base.at = "thread"
  <2>1. /\ threads' = [threads EXCEPT ![th] = s]
        /\ heap' = [d \in DOMAIN heap |->
                       IF d \in Asked(th) THEN [heap[d] EXCEPT !.out = <<"fail", "TargetCrashed">>]
                       ELSE heap[d]]
    BY <1>6 DEF TaskPanics, Asked, T, I
  <2>2. th \in DOMAIN threads
    <3>1. th \in 0..Len(threads) /\ th # 0
      BY <1>1, <1>6 DEF TaskOK, InterpOK
    <3>2. DOMAIN threads = 1..Len(threads) /\ Len(threads) \in Nat
      BY SeqShape DEF Shape
    <3> HIDE DEF th
    <3> QED BY <3>1, <3>2
  <2>3. ThreadOK(threads[th])
    BY <2>2 DEF Shape
  <2>4. /\ DOMAIN s = ThreadRecord /\ s.ready /\ s.queue = <<>> /\ s.gone = TRUE
        /\ s.status = threads[th].status /\ threads[th].status \in Statuses
    BY <2>3 DEF ThreadOK, ThreadRecord
  <2> DEFINE o == <<"fail", "TargetCrashed">>
  <2>5. o[1] \in Outs
    BY DEF Outs
  <2> HIDE DEF s
  <2>6. Closed(th, threads[th].status, TRUE)
    BY <2>1, <2>2, <2>4, ClosedThread
  <2>7. HeapKept(heap, heap)
    BY <1>5, HeapStays
  <2> HIDE DEF th, o
  <2>8. /\ DOMAIN heap' = DOMAIN heap /\ heap' = [d \in DOMAIN heap |-> heap'[d]]
        /\ \A d \in DOMAIN heap :
               IF d \in Asked(th) THEN \E x : x[1] \in Outs /\ heap'[d] = [heap[d] EXCEPT !.out = x]
               ELSE heap'[d] = heap[d]
    BY <2>1, <2>5 DEF o
  <2>9. Settled(Asked(th), Outs)
    BY <2>7, <2>8, SettledSome
  <2> QED BY <1>3, <1>4, <1>6, <2>6, <2>9 DEF Panics, th
<1>7. CASE base.at # "thread"
  <2> DEFINE o == <<"fail", IF heap[base.cell].is = "Future" THEN "Panic" ELSE "ExecutionFailed">>
             c == base.cell
  <2>1. base.at \in {"handler", "mini"} /\ threads' = threads
    BY <1>2, <1>7 DEF TaskPanics, T, Bases
  <2>2. heap' = [heap EXCEPT ![c].out = o] /\ o[1] \in Outs
    BY <1>7 DEF TaskPanics, T, Outs
  <2> HIDE DEF o, c
  <2>3. Settled({c}, Outs)
    BY <2>2, SettledOne
  <2> QED BY <1>3, <1>4, <2>1, <2>3 DEF Panics, c
<1> QED BY <1>6, <1>7

\* The first request is taken from a queue.
LEMMA TailShape ==
    ASSUME NEW q, IsSeq(q), q # <<>>
    PROVE  /\ IsSeq(Tail(q)) /\ Head(q) \in SeqRange(q)
           /\ SeqRange(q) = SeqRange(Tail(q)) \cup {Head(q)}
<1> DEFINE S == {q[i] : i \in DOMAIN q}
<1>1. q \in Seq(S)
  BY DEF IsSeq
<1>2. Len(q) \in Nat /\ DOMAIN q = 1..Len(q) /\ Len(q) # 0
  BY SeqShape
<1> HIDE DEF S
<1>3. /\ Tail(q) \in Seq(S) /\ Len(Tail(q)) = Len(q) - 1
      /\ \A i \in 1..Len(Tail(q)) : Tail(q)[i] = q[i + 1]
      /\ Head(q) = q[1]
  BY <1>1, HeadTailProperties
<1>4. IsSeq(Tail(q))
  BY <1>3, SeqIs
<1>5. DOMAIN Tail(q) = 1..(Len(q) - 1)
  BY <1>3, <1>4, SeqShape
<1>6. 1 \in DOMAIN q /\ Head(q) \in SeqRange(q)
  BY <1>2, <1>3 DEF SeqRange
<1>7. ASSUME NEW x \in SeqRange(q) PROVE x \in SeqRange(Tail(q)) \cup {Head(q)}
  <2>1. PICK i \in 1..Len(q) : x = q[i]
    BY <1>2 DEF SeqRange
  <2>2. CASE i = 1
    BY <1>3, <2>1, <2>2
  <2>3. CASE i # 1
    <3>1. i - 1 \in 1..(Len(q) - 1) /\ (i - 1) + 1 = i
      BY <1>2, <2>3
    <3>2. Tail(q)[i - 1] = q[i]
      BY <1>3, <3>1
    <3> QED BY <1>5, <2>1, <3>1, <3>2 DEF SeqRange
  <2> QED BY <2>2, <2>3
<1>8. ASSUME NEW x \in SeqRange(Tail(q)) PROVE x \in SeqRange(q)
  <2>1. PICK i \in 1..(Len(q) - 1) : x = Tail(q)[i]
    BY <1>5 DEF SeqRange
  <2>2. i + 1 \in 1..Len(q) /\ x = q[i + 1]
    BY <1>2, <1>3, <2>1
  <2> QED BY <1>2, <2>2 DEF SeqRange
<1> QED BY <1>4, <1>6, <1>7, <1>8

\* A task begins for the request whose answer goes to a cell.
Begins(i, cell) ==
    /\ IsSeq(tasks') /\ Len(tasks') = Len(tasks) + 1
    /\ \A u \in DOMAIN tasks : tasks'[u] = tasks[u]
    /\ \E m, x : /\ m[1] = "handle" /\ "at" \in DOMAIN x
                 /\ x.at = "handler" /\ x.cell = cell
                 /\ tasks'[Len(tasks) + 1] = NewTask(i, m, <<x>>)

Begun(new, i, cell) ==
    LET x == tasks'[new]
    IN  /\ IsSeq(tasks') /\ Len(tasks') = new
        /\ new \notin DOMAIN tasks /\ DOMAIN tasks' = DOMAIN tasks \cup {new}
        /\ \A u \in DOMAIN tasks : tasks'[u] = tasks[u]
        /\ DOMAIN x = TaskRecord /\ x.in = i /\ x.mode[1] = "handle"
        /\ KontOK(x.kont) /\ x.kont # <<>> /\ Len(x.kont) = 1 /\ DOMAIN x.kont = {1}
        /\ x.kont[1].at = "handler" /\ x.kont[1].cell = cell

\* What a handler task is at its birth.
LEMMA NewHandler ==
    ASSUME Shape, NEW i, NEW cell, Begins(i, cell), NEW new, new = Len(tasks) + 1
    PROVE  Begun(new, i, cell)
<1>1. PICK m, x : /\ m[1] = "handle" /\ "at" \in DOMAIN x
                  /\ x.at = "handler" /\ x.cell = cell
                  /\ tasks'[new] = NewTask(i, m, <<x>>)
  BY DEF Begins
<1> DEFINE kk == <<x>>
<1>2. DOMAIN kk = {1} /\ kk[1] = x /\ kk # <<>> /\ Len(kk) = 1
  BY ShortSeqs
<1>3. KontOK(kk)
  <2>1. x.at \in Bases /\ ItemOK(x)
    BY <1>1 DEF Bases, ItemOK
  <2> QED BY <1>2, <2>1, ShortSeqs DEF KontOK
<1>4. /\ DOMAIN tasks'[new] = TaskRecord /\ tasks'[new].in = i /\ tasks'[new].mode = m
      /\ tasks'[new].kont = kk
  <2> HIDE DEF kk
  <2> QED BY <1>1 DEF NewTask, TaskRecord, kk
<1>5. /\ IsSeq(tasks') /\ Len(tasks') = new
      /\ \A u \in DOMAIN tasks : tasks'[u] = tasks[u]
  BY DEF Begins
<1>6. new \notin DOMAIN tasks /\ DOMAIN tasks' = DOMAIN tasks \cup {new}
  BY <1>5, SeqShape DEF Shape
<1> HIDE DEF kk
<1> QED BY <1>1, <1>2, <1>3, <1>4, <1>5, <1>6 DEF Begun

\* A loop takes the next request: it is refused, or a task begins for it on the
\* interpreter state of the body.
Takes(tk) ==
    LET i == tasks[tk].in
        th == interps[i].thread
        q == threads[th].queue
        cell == Head(q).cell
    IN  /\ tk \in DOMAIN tasks /\ tasks[tk].kont # <<>> /\ tasks[tk].kont[1].at = "thread"
        /\ running = 0 /\ running' = 0 /\ interps' = interps /\ log' = log
        /\ th \in DOMAIN threads /\ q # <<>>
        /\ IsSeq(threads') /\ Len(threads') = Len(threads)
        /\ \A o \in DOMAIN threads \ {th} : threads'[o] = threads[o]
        /\ LET s == threads'[th]
           IN  /\ DOMAIN s = ThreadRecord /\ s.status = threads[th].status
               /\ s.ready = threads[th].ready /\ s.gone = threads[th].gone /\ s.queue = Tail(q)
        /\ \/ tasks' = tasks /\ Settled({cell}, Outs)
           \/ Begins(i, cell) /\ Settled({cell}, {"running"})

\* A loop that is free takes the oldest request.
LEMMA DispatchTakes ==
    ASSUME Shape, NEW tk \in DOMAIN tasks, DispatchHandler(tk)
    PROVE  Takes(tk)
<1> DEFINE i == tasks[tk].in
           th == interps[i].thread
           q == threads[th].queue
           r == Head(q)
           d == tasks[tk].kont[1].t
           hs == IF d = <<>> THEN <<>> ELSE FirstNamed(d[1].handlers, r.x)
           cell == r.cell
           s == [threads[th] EXCEPT !.queue = Tail(@), !.busy = hs # <<>>]
<1>1. /\ tasks[tk].kont # <<>> /\ tasks[tk].kont[1].at = "thread" /\ q # <<>>
      /\ running = 0 /\ running' = 0 /\ interps' = interps /\ log' = log
      /\ threads' = [threads EXCEPT ![th] = s]
  BY DEF DispatchHandler
<1>2. TaskOK(tasks[tk]) /\ i \in DOMAIN interps /\ InterpOK(interps[i])
  BY Here
<1>3. th \in DOMAIN threads
  <2>1. th \in 0..Len(threads) /\ th # 0
    BY <1>1, <1>2 DEF TaskOK, InterpOK
  <2>2. DOMAIN threads = 1..Len(threads) /\ Len(threads) \in Nat
    BY SeqShape DEF Shape
  <2> HIDE DEF th
  <2> QED BY <2>1, <2>2
<1>4. DOMAIN threads[th] = ThreadRecord /\ IsSeq(threads)
  BY <1>3 DEF Shape, ThreadOK
<1>5. /\ IsSeq(threads') /\ Len(threads') = Len(threads) /\ threads'[th] = s
      /\ \A o \in DOMAIN threads \ {th} : threads'[o] = threads[o]
  <2> HIDE DEF s, th
  <2> QED BY <1>1, <1>3, <1>4, ExceptShape
<1>6. /\ DOMAIN s = ThreadRecord /\ s.status = threads[th].status
      /\ s.ready = threads[th].ready /\ s.gone = threads[th].gone /\ s.queue = Tail(q)
  BY <1>4 DEF ThreadRecord
<1>7. \/ tasks' = tasks /\ Settled({cell}, Outs)
      \/ Begins(i, cell) /\ Settled({cell}, {"running"})
  <2>1. CASE hs = <<>>
    <3> DEFINE o == <<"fail", "TargetCrashed">>
    <3>1. tasks' = tasks /\ heap' = [heap EXCEPT ![cell].out = o] /\ o[1] \in Outs
      BY <2>1 DEF DispatchHandler, Outs
    <3> HIDE DEF o, cell
    <3> QED BY <3>1, SettledOne
  <2>2. CASE hs # <<>>
    <3> DEFINE o == <<"running">>
               m == <<"handle", hs[1], r.args>>
               x == [at |-> "handler", cell |-> cell, h |-> hs[1]]
               new == NewTask(i, m, <<x>>)
    <3>1. /\ heap' = [heap EXCEPT ![cell].out = o] /\ o[1] \in {"running"}
          /\ tasks' = Append(tasks, new)
      BY <2>2 DEF DispatchHandler
    <3>2. m[1] = "handle" /\ "at" \in DOMAIN x /\ x.at = "handler" /\ x.cell = cell
      OBVIOUS
    <3>3. IsSeq(tasks) /\ DOMAIN tasks = 1..Len(tasks)
      BY SeqShape DEF Shape
    <3> HIDE DEF o, cell, x, m
    <3>4. Settled({cell}, {"running"})
      BY <3>1, SettledOne
    <3> HIDE DEF new
    <3>5. /\ IsSeq(tasks') /\ Len(tasks') = Len(tasks) + 1
          /\ \A u \in DOMAIN tasks : tasks'[u] = tasks[u]
          /\ tasks'[Len(tasks) + 1] = new
      BY <3>1, <3>3, AppendShape
    <3>6. Begins(i, cell)
      BY <3>2, <3>5 DEF new, Begins
    <3> QED BY <3>4, <3>6
  <2> QED BY <2>1, <2>2
<1> HIDE DEF s
<1> QED BY <1>1, <1>3, <1>5, <1>6, <1>7 DEF Takes

\* A handler begins, on top of the scopes and frames that are there, or is
\* refused.
Starts(t) ==
    LET k == tasks[t].kont
        kk == tasks'[t].kont
    IN  /\ t \in DOMAIN tasks /\ running' = t
        /\ heap' = heap /\ threads' = threads /\ log' = log
        /\ tasks[t].mode[1] = "handle"
        /\ IsSeq(tasks') /\ Len(tasks') = Len(tasks)
        /\ \A u \in DOMAIN tasks \ {t} : tasks'[u] = tasks[u]
        /\ DOMAIN tasks'[t] = TaskRecord /\ tasks'[t].in = tasks[t].in
        /\ InterpTurn(tasks[t].in) /\ Len(interps') = Len(interps)
        /\ \/ tasks'[t].mode[1] = "refused" /\ kk = k /\ interps' = interps
           \/ tasks'[t].mode[1] = "done" /\ Grows(k, kk, 1, 0) /\ Keeps(k, kk) /\ Stacks(t, 2, 1)

\* A handler binds its parameters and begins.
LEMMA HandlerStarts == ASSUME Shape, running # 0, HandlerStart PROVE Starts(running)
<1> DEFINE t == running
           i == tasks[t].in
           k == tasks[t].kont
           h == Mode[2]
           b == BlockItem(h.body)
           e == Push(Append(interps[i].env, Bind(h.params, Mode[3])))
           frames == Append(interps[i].frames, h.x)
           kk == Append(k, b)
<1>1. /\ t \in DOMAIN tasks /\ k # <<>> /\ KontOK(k) /\ DOMAIN tasks[t] = TaskRecord
      /\ i \in DOMAIN interps /\ InterpOK(interps[i])
      /\ IsSeq(interps[i].env) /\ IsSeq(interps[i].frames)
      /\ Len(interps[i].env) \in Nat /\ Len(interps[i].frames) \in Nat
  BY Runs, Here DEF TaskOK
<1>2. /\ tasks[t].mode[1] = "handle" /\ running' = t
      /\ heap' = heap /\ threads' = threads /\ log' = log
  BY DEF HandlerStart, Kind, Mode, T
<1>3. /\ IsSeq(tasks) /\ DOMAIN tasks = 1..Len(tasks)
  BY SeqShape DEF Shape
<1>4. ASSUME NEW m, NEW kn, Settle(t, m, kn)
      PROVE  /\ IsSeq(tasks') /\ Len(tasks') = Len(tasks)
             /\ \A u \in DOMAIN tasks \ {t} : tasks'[u] = tasks[u]
             /\ DOMAIN tasks'[t] = TaskRecord /\ tasks'[t].in = tasks[t].in
             /\ tasks'[t].mode = m /\ tasks'[t].kont = kn
  <2>1. PICK new : tasks' = [tasks EXCEPT ![t] = [tasks[t] EXCEPT !.mode = m, !.kont = kn,
                                                      !.raised = new]]
    BY <1>4 DEF Settle
  <2>2. IsSeq(tasks') /\ Len(tasks') = Len(tasks)
    BY <1>3, <2>1, ExceptShape
  <2>3. tasks'[t] = [tasks[t] EXCEPT !.mode = m, !.kont = kn, !.raised = new]
    BY <1>1, <2>1
  <2>4. \A u \in DOMAIN tasks \ {t} : tasks'[u] = tasks[u]
    BY <2>1
  <2> QED BY <1>1, <2>2, <2>3, <2>4 DEF TaskRecord
<1>5. CASE Len(h.params) = Len(Mode[3])
  <2>1. /\ Settle(t, Done, kk)
        /\ interps' = [interps EXCEPT ![i].frames = frames, ![i].env = e]
    BY <1>5 DEF HandlerStart, To, T, BlockItem
  <2>2. KontOK(kk) /\ Grows(k, kk, 1, 0) /\ Keeps(k, kk)
    <3> DEFINE none == 0
    <3>1. none \in Nat /\ none + 1 = 1 /\ Grows(k, k, none, none) /\ Keeps(k, k)
      BY <1>1, GrowsSame
    <3> HIDE DEF none, k
    <3>2. Grows(k, Append(k, b), none + 1, none) /\ Keeps(k, Append(k, b))
      BY <1>1, <3>1, GrowsBlock
    <3> HIDE DEF b
    <3> QED BY <3>1, <3>2 DEF none, Grows
  <2>3. /\ IsSeq(e) /\ Len(e) = Len(interps[i].env) + 2
        /\ IsSeq(frames) /\ Len(frames) = Len(interps[i].frames) + 1
    <3> DEFINE e1 == Append(interps[i].env, Bind(h.params, Mode[3]))
    <3>1. IsSeq(e1) /\ Len(e1) = Len(interps[i].env) + 1
      BY <1>1, AppendShape
    <3> HIDE DEF e1
    <3>2. IsSeq(Push(e1)) /\ Len(Push(e1)) = Len(e1) + 1
      BY <3>1, AppendShape DEF Push
    <3>3. IsSeq(frames) /\ Len(frames) = Len(interps[i].frames) + 1
      BY <1>1, AppendShape
    <3>4. e = Push(e1)
      BY DEF e1
    <3> HIDE DEF e
    <3> QED BY <1>1, <3>1, <3>2, <3>3, <3>4
  <2> HIDE DEF e, frames
  <2>4. InterpNow(i) /\ interps'[i].env = e /\ interps'[i].frames = frames
    BY <1>1, <2>1, <2>3 DEF InterpNow, InterpOK, InterpRecord
  <2>5. InterpTurn(i) /\ Len(interps') = Len(interps)
    BY <1>1, <2>4, InterpAt
  <2>6. Stacks(t, 2, 1)
    BY <2>3, <2>4, <2>5 DEF Stacks
  <2> HIDE DEF kk
  <2>7. /\ IsSeq(tasks') /\ Len(tasks') = Len(tasks)
        /\ \A u \in DOMAIN tasks \ {t} : tasks'[u] = tasks[u]
        /\ DOMAIN tasks'[t] = TaskRecord /\ tasks'[t].in = tasks[t].in
        /\ tasks'[t].mode = Done /\ tasks'[t].kont = kk
    BY <1>4, <2>1
  <2>8. tasks'[t].mode[1] = "done"
    BY <2>7 DEF Done
  <2> QED BY <1>1, <1>2, <2>2, <2>5, <2>6, <2>7, <2>8 DEF Starts
<1>6. CASE Len(h.params) # Len(Mode[3])
  <2> DEFINE m == <<"refused">>
  <2>1. Settle(t, m, k) /\ interps' = interps
    BY <1>6 DEF HandlerStart, To, T
  <2>2. m[1] = "refused"
    OBVIOUS
  <2> HIDE DEF m, k
  <2>3. /\ IsSeq(tasks') /\ Len(tasks') = Len(tasks)
        /\ \A u \in DOMAIN tasks \ {t} : tasks'[u] = tasks[u]
        /\ DOMAIN tasks'[t] = TaskRecord /\ tasks'[t].in = tasks[t].in
        /\ tasks'[t].mode = m /\ tasks'[t].kont = k
    BY <1>4, <2>1
  <2>4. InterpTurn(i) /\ Len(interps') = Len(interps)
    BY <1>1, <2>1, InterpSame
  <2>5. tasks'[t].mode[1] = "refused"
    BY <2>2, <2>3
  <2> QED BY <1>1, <1>2, <2>1, <2>3, <2>4, <2>5 DEF Starts, k
<1> QED BY <1>5, <1>6

-----------------------------------------------------------------------------
(* The kinds of steps.                                                       *)

Enters(t) == Turn(t) /\ Quiet(t) /\ NoNew /\ heap' = heap /\ ReadyNow
Asks(t) == Turn(t) /\ Quiet(t) /\ NoNew /\ Dispatched
Idle == /\ UNCHANGED <<interps, tasks, threads, heap, log>>
        /\ running' \in 0..Len(tasks) /\ (running' # 0 => tasks[running'].kont # <<>>)

StepOf(t) ==
    \/ ScopeTurn(t) \/ Enters(t) \/ Asks(t) \/ Calls(t) \/ Spawns(t) \/ Starts(t)
    \/ HandlerOver(t) \/ FutureOver(t) \/ Panics(t) \/ Takes(t)
    \/ \E th, status : BodyOver(t, th, status)
Step == Idle \/ \E t \in DOMAIN tasks : StepOf(t)

\* A turn that is no scope block's is one of those that may be.
LEMMA PlainScope == ASSUME NEW t, Plain(t) PROVE ScopeTurn(t)
BY DEF Plain, ScopeTurn, Steady

\* Every step of the running task is one of these: expressions,
LEMMA ExpressionStep == ASSUME Shape, running # 0, Expression PROVE StepOf(running)
<1> DEFINE t == running
<1>1. t \in DOMAIN tasks
  BY Runs
<1>2. CASE \/ Evaluate \/ Operand \/ ApplyValue \/ ApplyMethod \/ ApplySpecial \/ ApplyWait
           \/ Invoke \/ CallReturn \/ TryStart \/ TryReturn
  <2>1. Plain(t)
    BY <1>2, EvaluatePlain, OperandPlain, ApplyValuePlain, ApplyMethodPlain, ApplySpecialPlain,
       ApplyWaitPlain, InvokePlain, CallReturnPlain, TryStartPlain, TryReturnPlain
  <2> QED BY <1>1, <2>1, PlainScope DEF StepOf
<1>3. CASE ApplyDispatch
  BY <1>1, <1>3, ApplyDispatchTurn DEF StepOf, Asks
<1>4. CASE ApplyCall
  <2>1. Plain(t) \/ Calls(t)
    BY <1>4, ApplyCallPlain, ApplyCallTurn
  <2> QED BY <1>1, <2>1, PlainScope DEF StepOf
<1> QED BY <1>2, <1>3, <1>4 DEF Expression

\* statements,
LEMMA StatementStep == ASSUME Shape, running # 0, Statement \/ Scoped PROVE StepOf(running)
<1> DEFINE t == running
<1>1. t \in DOMAIN tasks
  BY Runs
<1>2. ASSUME Statement PROVE Plain(t)
  <2>1. CASE \/ ExecLet \/ ExecAssign \/ ExecAssignField \/ ExecAssignIndex \/ ExecSimple
             \/ ExecIf \/ BlockStep
    BY <2>1, ExecLetPlain, ExecAssignPlain, ExecAssignFieldPlain, ExecAssignIndexPlain,
       ExecSimplePlain, ExecIfPlain, BlockStepPlain
  <2>2. CASE \/ OperandFails \/ ExecWhile \/ WhileStep \/ ExecFor
             \/ ForStep \/ ExecExclusive \/ FillSlot \/ FillFails
    BY <2>2, OperandFailsPlain, ExecWhilePlain, WhileStepPlain, ExecForPlain, ForStepPlain,
       ExecExclusivePlain, FillSlotPlain
  <2> QED BY <1>2, <2>1, <2>2 DEF Statement
<1>3. ASSUME Scoped PROVE ScopeTurn(t)
  BY <1>3, ScopeStartTurn, ScopeFillFailsTurn, ScopeEnterTurn, ScopeEnterFailsTurn,
     ScopeBodyTurn, ScopeExitTurn, ScopeLeaveTurn DEF Scoped
<1> QED BY <1>1, <1>2, <1>3, PlainScope DEF StepOf

\* threads and the top level;
LEMMA ThreadedStep == ASSUME Shape, running # 0, Threaded \/ TopStep PROVE StepOf(running)
<1> DEFINE t == running
<1>1. t \in DOMAIN tasks
  BY Runs
<1>2. CASE TopStep \/ ThreadBodyEnds \/ (ThreadSetup /\ Fits)
  <2>1. Plain(t)
    BY <1>2, TopStepPlain, ThreadBodyEndsPlain, ThreadSetupPlain
  <2> QED BY <1>1, <2>1, PlainScope DEF StepOf
<1>3. CASE ThreadEnds \/ (ThreadSetup /\ ~Fits)
  <2>1. \E status : BodyOver(t, I.thread, status)
    BY <1>3, ThreadEndsOver
  <2> QED BY <1>1, <2>1 DEF StepOf
<1>4. CASE ThreadEntered
  BY <1>1, <1>4, ThreadEnteredTurn DEF StepOf, Enters
<1>5. CASE ExecSpawn
  BY <1>1, <1>5, ExecSpawnTurn DEF StepOf
<1>6. CASE HandlerStart
  BY <1>1, <1>6, HandlerStarts DEF StepOf
<1>7. CASE HandlerEnds \/ MiniEnds \/ TaskPanics
  BY <1>1, <1>7, HandlerEndsOver, MiniEndsOver, TaskPanicsPanics DEF StepOf
<1> QED BY <1>2, <1>3, <1>4, <1>5, <1>6, <1>7 DEF Threaded

\* and every step of the interpreter is one of a task.
LEMMA RunStep == ASSUME Shape, Run PROVE Step
<1>1. DOMAIN tasks = 1..Len(tasks) /\ Len(tasks) \in Nat
  BY SeqShape DEF Shape
<1>2. CASE running # 0 /\ (Expression \/ Statement \/ Scoped \/ Threaded \/ TopStep)
  BY <1>2, Runs, ExpressionStep, StatementStep, ThreadedStep DEF Step
<1>3. CASE running # 0 /\ (TopEnds \/ Park)
  BY <1>1, <1>3 DEF TopEnds, Park, machine, Step, Idle, Shape
<1>4. ASSUME NEW t \in DOMAIN tasks, Poll(t) PROVE Step
  <2>1. tasks[t].kont # <<>>
    BY <1>4 DEF Poll, Shape, TaskOK
  <2> QED BY <1>1, <1>4, <2>1 DEF Poll, Step, Idle
<1>5. ASSUME NEW t \in DOMAIN tasks, DispatchHandler(t) \/ Resume(t) PROVE Step
  <2>1. Takes(t) \/ Plain(t)
    BY <1>5, DispatchTakes, ResumePlain
  <2> QED BY <2>1, PlainScope DEF Step, StepOf
<1> QED BY <1>2, <1>3, <1>4, <1>5 DEF Run

-----------------------------------------------------------------------------
(* The shape is kept.                                                        *)

\* A task, an interpreter state after the step.
TaskFits(t) ==
    /\ DOMAIN t = TaskRecord
    /\ t.in \in DOMAIN interps'
    /\ KontOK(t.kont)
    /\ t.mode[1] \in Lively \cup {"handle", "refused"} \cup Over
    /\ t.kont = <<>> <=> t.mode[1] \in Over
    /\ t.mode[1] \in {"handle", "refused"} => Len(t.kont) = 1 /\ t.kont[1].at = "handler"
    /\ t.kont # <<>> /\ t.kont[1].at \in {"thread", "handler"} => interps'[t.in].thread # 0
InterpFits(s) ==
    /\ DOMAIN s = InterpRecord /\ IsSeq(s.env) /\ IsSeq(s.frames)
    /\ s.thread \in 0..Len(threads') /\ s.self \in 0..Len(heap')

\* Interpreter states keep their thread and object; nothing disappears.
InterpsMore ==
    /\ IsSeq(interps') /\ Len(interps') >= Len(interps)
    /\ \A i \in DOMAIN interps :
          /\ DOMAIN interps'[i] = InterpRecord
          /\ IsSeq(interps'[i].env) /\ IsSeq(interps'[i].frames)
          /\ interps'[i].thread = interps[i].thread /\ interps'[i].self = interps[i].self
    /\ \A i \in DOMAIN interps' \ DOMAIN interps : InterpFits(interps'[i])
ThreadsMore ==
    /\ IsSeq(threads') /\ Len(threads') >= Len(threads)
    /\ \A th \in DOMAIN threads' : ThreadOK(threads'[th])
HeapMoreOK == HeapOK(heap') /\ Len(heap') >= Len(heap)
World == InterpsMore /\ ThreadsMore /\ HeapMoreOK

\* Interpreters that are kept, and new ones, have the shape they should.
LEMMA InterpsFit ==
    ASSUME Shape, World
    PROVE  /\ \A i \in DOMAIN interps' : InterpFits(interps'[i])
           /\ \A i \in DOMAIN interps : i \in DOMAIN interps' /\ interps'[i].thread = interps[i].thread
<1>1. /\ DOMAIN interps = 1..Len(interps) /\ DOMAIN interps' = 1..Len(interps')
      /\ Len(interps) \in Nat /\ Len(interps') \in Nat
      /\ Len(threads) \in Nat /\ Len(threads') \in Nat /\ Len(heap) \in Nat /\ Len(heap') \in Nat
  BY SeqShape DEF Shape, World, InterpsMore, ThreadsMore, HeapMoreOK, HeapOK
<1>2. DOMAIN interps \subseteq DOMAIN interps'
  BY <1>1 DEF World, InterpsMore
<1>3. 0..Len(threads) \subseteq 0..Len(threads') /\ 0..Len(heap) \subseteq 0..Len(heap')
  BY <1>1 DEF World, ThreadsMore, HeapMoreOK
<1>4. ASSUME NEW i \in DOMAIN interps PROVE InterpFits(interps'[i])
  <2>1. InterpOK(interps[i])
    BY DEF Shape
  <2> QED BY <1>3, <2>1 DEF InterpOK, InterpFits, World, InterpsMore
<1> QED BY <1>2, <1>4 DEF World, InterpsMore

\* A task that nothing happened to.
LEMMA TaskStays ==
    ASSUME Shape, World, NEW u \in DOMAIN tasks, tasks'[u] = tasks[u]
    PROVE  TaskFits(tasks'[u])
<1>1. TaskOK(tasks[u]) /\ tasks[u].in \in DOMAIN interps
  BY Here
<1>2. tasks[u].in \in DOMAIN interps' /\ interps'[tasks[u].in].thread = interps[tasks[u].in].thread
  BY <1>1, InterpsFit
<1> QED BY <1>1, <1>2 DEF TaskOK, TaskFits

\* A task that went on.
LEMMA TaskWent ==
    ASSUME Shape, World, NEW t \in DOMAIN tasks,
           DOMAIN tasks'[t] = TaskRecord, tasks'[t].in = tasks[t].in,
           tasks'[t].mode[1] \in Lively, KontOK(tasks'[t].kont),
           Forward(tasks[t].kont, tasks'[t].kont)
    PROVE  TaskFits(tasks'[t])
<1>1. TaskOK(tasks[t]) /\ tasks[t].in \in DOMAIN interps
  BY Here
<1>2. tasks[t].in \in DOMAIN interps' /\ interps'[tasks[t].in].thread = interps[tasks[t].in].thread
  BY <1>1, InterpsFit
<1>3. tasks'[t].mode[1] \notin Over \cup {"handle", "refused"}
  BY DEF Lively, Waiting, Over
<1> QED BY <1>1, <1>2, <1>3 DEF TaskOK, TaskFits, Forward

\* What has to be shown of a step.
TasksFit ==
    /\ IsSeq(tasks') /\ \A u \in DOMAIN tasks' : TaskFits(tasks'[u])
    /\ running' \in 0..Len(tasks') /\ (running' # 0 => tasks'[running'].kont # <<>>)
\* The shape is kept when every part of it is.
LEMMA ShapeKept ==
    ASSUME Shape, World, TasksFit
    PROVE  Shape'
<1>1. \A u \in DOMAIN tasks' : TaskOK(tasks[u])'
  BY DEF TasksFit, TaskFits, TaskOK
<1>2. \A i \in DOMAIN interps' : InterpOK(interps[i])'
  BY InterpsFit DEF InterpFits, InterpOK
<1>3. \A th \in DOMAIN threads' : ThreadOK(threads[th])'
  BY DEF World, ThreadsMore, ThreadOK
<1>4. HeapOK(heap)'
  BY DEF World, HeapMoreOK, HeapOK, CellOK
<1> QED BY <1>1, <1>2, <1>3, <1>4 DEF Shape, TasksFit, World, InterpsMore, ThreadsMore

\* The parts of a world in which something is left as it is.
LEMMA SameInterps ==
    ASSUME Shape, NEW i \in DOMAIN interps, InterpTurn(i)
    PROVE  Len(interps') = Len(interps) => InterpsMore
<1>1. DOMAIN interps = 1..Len(interps) /\ DOMAIN interps' = 1..Len(interps')
  BY SeqShape DEF Shape, InterpTurn
<1>2. \A j \in DOMAIN interps : InterpOK(interps[j])
  BY DEF Shape
<1> QED BY <1>1, <1>2 DEF InterpTurn, InterpsMore, InterpOK

\* Parts that do not change are kept.
LEMMA StillInterps == ASSUME Shape, interps' = interps PROVE InterpsMore
BY SeqShape DEF Shape, InterpsMore, InterpOK

\* Threads may change the fields that the shape does not bind.
LEMMA StillThreads == ASSUME Shape, threads' = threads \/ ThreadsKept PROVE ThreadsMore
<1>1. DOMAIN threads = 1..Len(threads) /\ Len(threads) \in Nat
  BY SeqShape DEF Shape
<1>2. CASE threads' = threads
  BY <1>1, <1>2 DEF ThreadsMore, Shape
<1>3. CASE ThreadsKept
  <2>1. DOMAIN threads' = DOMAIN threads
    BY <1>1, <1>3, SeqShape DEF ThreadsKept
  <2>2. ASSUME NEW th \in DOMAIN threads PROVE ThreadOK(threads'[th])
    BY <1>3 DEF ThreadsKept, ThreadKept, Shape, ThreadOK
  <2> QED BY <1>1, <1>3, <2>1, <2>2 DEF ThreadsKept, ThreadsMore
<1> QED BY <1>2, <1>3

\* A heap that is kept has the shape,
LEMMA StillHeap ==
    ASSUME Shape, heap' = heap \/ HeapKept(heap, heap')
    PROVE  HeapMoreOK
<1>1. HeapKept(heap, heap) /\ HeapOK(heap)
  BY NothingElse DEF Shape
<1>2. HeapKept(heap, heap')
  BY <1>1
<1>3. HeapOK(heap')
  BY <1>1, <1>2, HeapTwice
<1> QED BY <1>2, <1>3 DEF HeapMoreOK, HeapKept

\* one with a new future,
LEMMA FreshHeap ==
    ASSUME Shape, NEW ty, NEW o, Fresh(heap, heap', ty, [out |-> o])
    PROVE  HeapMoreOK
<1>1. /\ HeapOK(heap) /\ IsSeq(heap') /\ Len(heap') = Len(heap) + 1 /\ Len(heap) \in Nat
      /\ DOMAIN heap' = DOMAIN heap \cup {Len(heap) + 1}
      /\ \A c \in DOMAIN heap : heap'[c] = heap[c]
  BY DEF Shape, Fresh
<1>2. CellOK(heap'[Len(heap) + 1])
  BY DEF Fresh, CellOK
<1> QED BY <1>1, <1>2 DEF HeapMoreOK, HeapOK

\* and one where futures have got an outcome.
LEMMA SettledHeap ==
    ASSUME Shape, NEW cells, NEW kinds, Settled(cells, kinds)
    PROVE  HeapMoreOK
<1>1. DOMAIN heap = 1..Len(heap) /\ DOMAIN heap' = 1..Len(heap') /\ Len(heap) \in Nat
  BY SeqShape DEF Shape, HeapOK, Settled
<1>2. DOMAIN heap' = DOMAIN heap
  BY <1>1 DEF Settled
<1> QED BY <1>1, <1>2 DEF HeapMoreOK, HeapOK, Settled, Shape, CellOK

\* So have threads of which one was closed,
LEMMA ClosedThreads ==
    ASSUME Shape, NEW th, NEW status, NEW gone, Closed(th, status, gone)
    PROVE  ThreadsMore
<1>1. DOMAIN threads = 1..Len(threads) /\ DOMAIN threads' = 1..Len(threads') /\ Len(threads) \in Nat
  BY SeqShape DEF Shape, Closed
<1>2. DOMAIN threads' = DOMAIN threads
  BY <1>1 DEF Closed
<1> QED BY <1>1, <1>2 DEF ThreadsMore, Closed, Shape

\* The task went on, in a world without new tasks.
LEMMA TurnTasks ==
    ASSUME Shape, World, NEW t, Turn(t), Len(tasks') = Len(tasks)
    PROVE  TasksFit
<1>1. t \in DOMAIN tasks /\ TaskTurn(t) /\ running' = t
  BY DEF Turn
<1>2. DOMAIN tasks = 1..Len(tasks) /\ DOMAIN tasks' = 1..Len(tasks') /\ Len(tasks) \in Nat
  BY <1>1, SeqShape DEF Shape, TaskTurn
<1>3. TaskFits(tasks'[t]) /\ tasks'[t].kont # <<>>
  BY <1>1, TaskWent DEF TaskTurn, Forward
<1>4. ASSUME NEW u \in DOMAIN tasks \ {t} PROVE TaskFits(tasks'[u])
  BY <1>1, TaskStays DEF TaskTurn
<1> QED BY <1>1, <1>2, <1>3, <1>4 DEF TasksFit, TaskTurn

\* The task is over.
LEMMA GoneTasks ==
    ASSUME Shape, World, NEW t, NEW how, how \in Over, Gone(t, how)
    PROVE  TasksFit
<1>1. /\ t \in DOMAIN tasks /\ DOMAIN tasks = 1..Len(tasks) /\ DOMAIN tasks' = 1..Len(tasks')
      /\ Len(tasks) \in Nat /\ Len(tasks') = Len(tasks)
  BY SeqShape DEF Shape, Gone
<1>2. TaskFits(tasks'[t])
  <2>1. KontOK(<<>>)
    BY EmptyShape, SeqShape DEF KontOK
  <2>2. tasks[t].in \in DOMAIN interps'
    BY <1>1, Here, InterpsFit
  <2>3. /\ DOMAIN tasks'[t] = TaskRecord /\ tasks'[t].in = tasks[t].in
        /\ tasks'[t].mode = <<how>> /\ tasks'[t].kont = <<>>
    BY DEF Gone
  <2>4. how \notin {"handle", "refused"}
    BY DEF Over
  <2> QED BY <2>1, <2>2, <2>3, <2>4 DEF TaskFits
<1>3. ASSUME NEW u \in DOMAIN tasks \ {t} PROVE TaskFits(tasks'[u])
  BY TaskStays DEF Gone
<1> QED BY <1>1, <1>2, <1>3 DEF TasksFit, Gone

\* Steps of one task.
LEMMA ReadyThreads == ASSUME Shape, ReadyNow PROVE ThreadsMore
<1>1. DOMAIN threads = 1..Len(threads) /\ DOMAIN threads' = 1..Len(threads') /\ Len(threads) \in Nat
  BY SeqShape DEF Shape, ReadyNow
<1>2. DOMAIN threads' = DOMAIN threads
  BY <1>1 DEF ReadyNow
<1>3. ASSUME NEW th \in DOMAIN threads PROVE ThreadOK(threads'[th])
  BY DEF ReadyNow, Shape, ThreadOK
<1> QED BY <1>1, <1>2, <1>3 DEF ThreadsMore, ReadyNow

\* or one has got a request,
LEMMA AskedThreads == ASSUME Shape, Dispatched PROVE ThreadsMore
<1>1. CASE threads' = threads
  BY <1>1, StillThreads
<1>2. CASE \E th \in DOMAIN threads : \E r : threads' = [threads EXCEPT ![th].queue = Append(@, r)]
  <2>0. PICK th \in DOMAIN threads :
               \E r : threads' = [threads EXCEPT ![th].queue = Append(@, r)]
    BY <1>2
  <2>1. PICK r : threads' = [threads EXCEPT ![th].queue = Append(@, r)]
    BY <2>0
  <2> DEFINE a == threads[th]
             b == threads'[th]
             q == Append(threads[th].queue, r)
             s == [threads[th] EXCEPT !.queue = q]
  <2>2. ThreadOK(a) /\ IsSeq(threads)
    BY DEF Shape
  <2>3. IsSeq(q)
    BY <2>2, AppendShape DEF ThreadOK
  <2>4. threads' = [threads EXCEPT ![th] = s]
    BY <2>1
  <2>5. ThreadOK(s)
    <3> HIDE DEF q
    <3> QED BY <2>2, <2>3 DEF ThreadOK, ThreadRecord
  <2> HIDE DEF s
  <2>6. IsSeq(threads') /\ Len(threads') = Len(threads) /\ DOMAIN threads' = DOMAIN threads
    BY <2>2, <2>4, ExceptShape
  <2>7. Len(threads) \in Nat
    BY <2>2, SeqShape
  <2>8. \A o \in DOMAIN threads : ThreadOK(threads'[o])
    BY <2>4, <2>5 DEF Shape
  <2> QED BY <2>6, <2>7, <2>8 DEF ThreadsMore
<1> QED BY <1>1, <1>2 DEF Dispatched

\* with its future.
LEMMA AskedHeap == ASSUME Shape, Dispatched PROVE HeapMoreOK
BY FreshHeap DEF Dispatched

\* Turns keep the shape;
LEMMA TurnShape ==
    ASSUME Shape, NEW t, ScopeTurn(t) \/ Enters(t) \/ Asks(t)
    PROVE  World /\ Shape'
<1>1. Turn(t) /\ NoNew
  BY DEF ScopeTurn, Steady, Enters, Asks
<1>2. t \in DOMAIN tasks /\ tasks[t].in \in DOMAIN interps /\ InterpTurn(tasks[t].in)
  BY <1>1, Here DEF Turn
<1>3. InterpsMore
  BY <1>1, <1>2, SameInterps DEF NoNew
<1>4. HeapMoreOK
  BY StillHeap, AskedHeap DEF ScopeTurn, Steady, Enters, Asks
<1>5. ThreadsMore
  BY StillThreads, ReadyThreads, AskedThreads DEF ScopeTurn, Steady, Enters, Asks
<1>6. TasksFit
  BY <1>1, <1>3, <1>4, <1>5, TurnTasks DEF World, NoNew
<1> QED BY <1>3, <1>4, <1>5, <1>6, ShapeKept DEF World

\* Steps that begin a task with an interpreter state of its own.
LEMMA ForkShape ==
    ASSUME Shape, NEW t, NEW m, NEW kk, Forks(t, m, kk), HeapMoreOK, ThreadsMore,
           interps'[Len(interps) + 1].thread \in 0..Len(threads'),
           interps'[Len(interps) + 1].self \in 0..Len(heap'),
           kk[1].at \in {"thread", "handler"} => interps'[Len(interps) + 1].thread # 0
    PROVE  World /\ Shape'
<1> DEFINE ni == Len(interps) + 1
           nt == Len(tasks) + 1
<1>1. /\ t \in DOMAIN tasks /\ TaskTurn(t) /\ running' = t /\ InterpTurn(tasks[t].in)
      /\ tasks[t].in \in DOMAIN interps
  BY Here DEF Forks, Turn
<1>2. /\ DOMAIN tasks = 1..Len(tasks) /\ DOMAIN tasks' = 1..Len(tasks') /\ Len(tasks) \in Nat
      /\ DOMAIN interps = 1..Len(interps) /\ DOMAIN interps' = 1..Len(interps')
      /\ Len(interps) \in Nat /\ IsSeq(tasks') /\ IsSeq(interps')
  BY <1>1, SeqShape DEF Shape, TaskTurn, InterpTurn
<1>3. Len(tasks') = Len(tasks) + 1 /\ Len(interps') = Len(interps) + 1
  BY DEF Forks
<1>4. InterpsMore
  <2>1. DOMAIN interps' \ DOMAIN interps = {ni}
    BY <1>2, <1>3
  <2>2. InterpFits(interps'[ni])
    BY DEF Forks, NewState, InterpFits
  <2>3. \A j \in DOMAIN interps : InterpOK(interps[j])
    BY DEF Shape
  <2> HIDE DEF ni
  <2> QED BY <1>1, <1>2, <1>3, <2>1, <2>2, <2>3 DEF InterpsMore, InterpTurn, InterpOK
<1>5. World
  BY <1>4 DEF World
<1>6. TaskFits(tasks'[nt])
  <2>1. /\ tasks'[nt] = NewTask(ni, m, kk) /\ m[1] \in Lively /\ KontOK(kk) /\ kk # <<>>
        /\ ni \in DOMAIN interps'
    BY <1>2, <1>3 DEF Forks, NewKont
  <2>2. /\ DOMAIN tasks'[nt] = TaskRecord /\ tasks'[nt].in = ni /\ tasks'[nt].mode = m
        /\ tasks'[nt].kont = kk
    BY <2>1 DEF NewTask, TaskRecord
  <2>3. m[1] \notin Over \cup {"handle", "refused"}
    BY <2>1 DEF Lively, Waiting, Over
  <2> HIDE DEF ni, nt
  <2> QED BY <2>1, <2>2, <2>3 DEF TaskFits, ni
<1>7. TaskFits(tasks'[t]) /\ tasks'[t].kont # <<>>
  BY <1>1, <1>5, TaskWent DEF TaskTurn, Forward
<1>8. ASSUME NEW u \in DOMAIN tasks \ {t} PROVE TaskFits(tasks'[u])
  BY <1>1, <1>5, TaskStays DEF TaskTurn
<1>9. TasksFit
  <2>1. DOMAIN tasks' = DOMAIN tasks \cup {nt}
    BY <1>2, <1>3
  <2>2. IsSeq(tasks') /\ t \in DOMAIN tasks' /\ running' = t
    BY <1>1, <1>2, <2>1
  <2> HIDE DEF nt
  <2> QED BY <1>6, <1>7, <1>8, <2>1, <2>2, <1>2 DEF TasksFit
<1> QED BY <1>5, <1>9, ShapeKept

\* so do async calls,
LEMMA CallShape == ASSUME Shape, NEW t, Calls(t) PROVE World /\ Shape'
<1>1. PICK m, x :
        /\ x.at = "mini" /\ Forks(t, m, <<x>>)
        /\ interps'[Len(interps) + 1].thread = interps[tasks[t].in].thread
        /\ interps'[Len(interps) + 1].self = interps[tasks[t].in].self
        /\ Fresh(heap, heap', "Future", [out |-> <<"running">>])
        /\ threads' = threads
  BY DEF Calls
<1>2. t \in DOMAIN tasks /\ InterpOK(interps[tasks[t].in])
  BY <1>1, Here DEF Forks, Turn
<1>3. HeapMoreOK /\ ThreadsMore
  BY <1>1, FreshHeap, StillThreads
<1>4. Len(heap) \in Nat /\ Len(heap') \in Nat /\ Len(heap') >= Len(heap)
  BY <1>3, SeqShape DEF HeapMoreOK, HeapOK, Shape
<1> DEFINE kk == <<x>>
<1>5. kk[1].at \notin {"thread", "handler"}
  BY <1>1
<1>6. /\ interps'[Len(interps) + 1].thread \in 0..Len(threads')
      /\ interps'[Len(interps) + 1].self \in 0..Len(heap')
  BY <1>1, <1>2, <1>4 DEF InterpOK
<1>7. Forks(t, m, kk)
  BY <1>1
<1> HIDE DEF kk
<1> QED BY <1>3, <1>5, <1>6, <1>7, ForkShape

\* so do spawns.
LEMMA SpawnShape == ASSUME Shape, NEW t, Spawns(t) PROVE World /\ Shape'
<1>1. PICK m, kk, s :
        /\ kk[1].at = "thread" /\ Forks(t, m, kk)
        /\ interps'[Len(interps) + 1].thread = Len(threads) + 1
        /\ interps'[Len(interps) + 1].self \in 0..Len(heap')
        /\ HeapKept(heap, heap')
        /\ ThreadOK(s) /\ threads' = Append(threads, s)
  BY DEF Spawns
<1>2. HeapMoreOK
  BY <1>1, StillHeap
<1>3. IsSeq(threads) /\ Len(threads) \in Nat /\ DOMAIN threads = 1..Len(threads)
  BY SeqShape DEF Shape
<1>4. /\ IsSeq(threads') /\ Len(threads') = Len(threads) + 1
      /\ \A th \in 1..Len(threads) : threads'[th] = threads[th]
      /\ threads'[Len(threads) + 1] = s
  BY <1>1, <1>3, AppendShape
<1>5. DOMAIN threads' = 1..(Len(threads) + 1)
  BY <1>4, SeqShape
<1>6. \A th \in DOMAIN threads' : ThreadOK(threads'[th])
  BY <1>1, <1>3, <1>4, <1>5 DEF Shape
<1>7. ThreadsMore
  BY <1>3, <1>4, <1>6 DEF ThreadsMore
<1>8. Len(threads) + 1 \in 0..Len(threads') /\ Len(threads) + 1 # 0
  BY <1>3, <1>4
<1> QED BY <1>1, <1>2, <1>7, <1>8, ForkShape

\* A handler begins.
LEMMA StartShape == ASSUME Shape, NEW t, Starts(t) PROVE World /\ Shape'
<1> DEFINE k == tasks[t].kont
           kk == tasks'[t].kont
<1>1. /\ t \in DOMAIN tasks /\ running' = t /\ heap' = heap /\ threads' = threads
      /\ tasks[t].mode[1] = "handle" /\ IsSeq(tasks') /\ Len(tasks') = Len(tasks)
      /\ \A u \in DOMAIN tasks \ {t} : tasks'[u] = tasks[u]
      /\ DOMAIN tasks'[t] = TaskRecord /\ tasks'[t].in = tasks[t].in
      /\ InterpTurn(tasks[t].in) /\ Len(interps') = Len(interps)
  BY DEF Starts
<1>2. /\ TaskOK(tasks[t]) /\ tasks[t].in \in DOMAIN interps
      /\ DOMAIN tasks = 1..Len(tasks) /\ DOMAIN tasks' = 1..Len(tasks') /\ Len(tasks) \in Nat
  BY <1>1, Here, SeqShape DEF Shape
<1>3. World
  BY <1>1, <1>2, SameInterps, StillThreads, StillHeap DEF World
<1>4. tasks[t].mode[1] \notin Over /\ Len(k) = 1 /\ k[1].at = "handler" /\ k # <<>>
  BY <1>1, <1>2 DEF TaskOK, Over
<1>5. TaskFits(tasks'[t]) /\ kk # <<>>
  <2>1. CASE tasks'[t].mode[1] = "refused" /\ kk = k
    <3>1. tasks[t].in \in DOMAIN interps' /\ interps'[tasks[t].in].thread = interps[tasks[t].in].thread
      BY <1>2, <1>3, InterpsFit
    <3> QED BY <1>1, <1>2, <1>4, <2>1, <3>1 DEF TaskFits, TaskOK, Over
  <2>2. CASE tasks'[t].mode[1] = "done" /\ Grows(k, kk, 1, 0)
    BY <1>1, <1>3, <2>2, TaskWent DEF Grows, Forward, Lively
  <2> QED BY <2>1, <2>2 DEF Starts
<1>6. ASSUME NEW u \in DOMAIN tasks \ {t} PROVE TaskFits(tasks'[u])
  BY <1>1, <1>3, TaskStays
<1>7. TasksFit
  BY <1>1, <1>2, <1>5, <1>6 DEF TasksFit
<1> QED BY <1>3, <1>7, ShapeKept

\* A loop takes a request.
LEMMA TakeShape == ASSUME Shape, NEW t, Takes(t) PROVE World /\ Shape'
<1> DEFINE i == tasks[t].in
           th == interps[i].thread
           q == threads[th].queue
           cell == Head(q).cell
           new == Len(tasks) + 1
           s == threads'[th]
<1>1. /\ t \in DOMAIN tasks /\ tasks[t].kont # <<>> /\ tasks[t].kont[1].at = "thread"
      /\ running' = 0 /\ interps' = interps
      /\ th \in DOMAIN threads /\ q # <<>>
      /\ IsSeq(threads') /\ Len(threads') = Len(threads)
      /\ \A o \in DOMAIN threads \ {th} : threads'[o] = threads[o]
      /\ DOMAIN s = ThreadRecord /\ s.status = threads[th].status /\ s.queue = Tail(q)
  BY DEF Takes
<1>2. /\ TaskOK(tasks[t]) /\ i \in DOMAIN interps
      /\ DOMAIN tasks = 1..Len(tasks) /\ Len(tasks) \in Nat /\ IsSeq(tasks)
  BY <1>1, Here, SeqShape DEF Shape
<1>3. ThreadsMore
  <2>1. DOMAIN threads = 1..Len(threads) /\ DOMAIN threads' = 1..Len(threads') /\ Len(threads) \in Nat
    BY <1>1, SeqShape DEF Shape
  <2>2. ThreadOK(threads[th])
    BY <1>1 DEF Shape
  <2>3. IsSeq(Tail(q))
    <3> HIDE DEF q
    <3>1. IsSeq(q)
      BY <2>2 DEF ThreadOK, q
    <3> QED BY <1>1, <3>1, TailShape
  <2>4. ThreadOK(s)
    BY <1>1, <2>2, <2>3 DEF ThreadOK
  <2> HIDE DEF th, q
  <2> QED BY <1>1, <2>1, <2>4 DEF ThreadsMore, Shape
<1>4. HeapMoreOK
  BY SettledHeap DEF Takes
<1>5. World
  BY <1>1, <1>3, <1>4, StillInterps DEF World
<1>6. ASSUME tasks' = tasks PROVE TasksFit
  <2>1. \A u \in DOMAIN tasks' : TaskFits(tasks'[u])
    BY <1>5, <1>6, TaskStays
  <2> QED BY <1>1, <1>2, <1>6, <2>1 DEF TasksFit
<1>7. ASSUME NEW w, Begins(i, w) PROVE TasksFit
  <2>1. i \in DOMAIN interps' /\ interps'[i].thread # 0
    BY <1>1, <1>2 DEF TaskOK
  <2> HIDE DEF i, new
  <2>2. Begun(new, i, w)
    BY <1>7, NewHandler DEF new
  <2>3. TaskFits(tasks'[new])
    BY <2>1, <2>2 DEF Begun, TaskFits, Over
  <2>4. ASSUME NEW u \in DOMAIN tasks PROVE TaskFits(tasks'[u])
    BY <1>5, <2>2, TaskStays DEF Begun
  <2>5. 0 \in 0..Len(tasks')
    BY <2>2, SeqShape DEF Begun
  <2> QED BY <1>1, <2>2, <2>3, <2>4, <2>5 DEF TasksFit, Begun
<1>8. TasksFit
  <2>1. tasks' = tasks \/ \E w : Begins(i, w)
    BY DEF Takes
  <2> HIDE DEF i, new
  <2> QED BY <1>6, <1>7, <2>1
<1> QED BY <1>5, <1>8, ShapeKept

\* Something is over.
LEMMA OverShape ==
    ASSUME Shape, NEW t,
           HandlerOver(t) \/ FutureOver(t) \/ Panics(t) \/ \E th, status : BodyOver(t, th, status)
    PROVE  World /\ Shape'
<1>1. \E how \in Over : Gone(t, how)
  BY DEF HandlerOver, FutureOver, Panics, BodyOver, Over
<1>2. t \in DOMAIN tasks /\ tasks[t].in \in DOMAIN interps
  BY <1>1, Here DEF Gone
<1>3. HeapMoreOK
  BY SettledHeap DEF HandlerOver, FutureOver, Panics, BodyOver
<1>4. ThreadsMore
  BY StillThreads, ClosedThreads DEF HandlerOver, FutureOver, Panics, BodyOver
<1>5. InterpsMore
  BY <1>2, StillInterps, SameInterps DEF HandlerOver, FutureOver, Panics, BodyOver
<1>6. World
  BY <1>3, <1>4, <1>5 DEF World
<1> QED BY <1>1, <1>6, GoneTasks, ShapeKept

\* An idle executor changes nothing,
LEMMA IdleShape == ASSUME Shape, Idle PROVE World /\ Shape'
<1>1. World
  BY StillInterps, StillThreads, StillHeap DEF Idle, World
<1>2. \A u \in DOMAIN tasks : TaskFits(tasks'[u])
  BY <1>1, TaskStays DEF Idle
<1> QED BY <1>1, <1>2, ShapeKept DEF Idle, TasksFit, Shape

\* and so every step keeps the shape.
LEMMA StepShape == ASSUME Shape, Step PROVE World /\ Shape'
BY IdleShape, TurnShape, CallShape, SpawnShape, StartShape, TakeShape, OverShape DEF Step, StepOf

\* The machine starts in it.
LEMMA BootShape == ASSUME Boot PROVE Shape
<1>1. PICK p \in Programs : Start(p)
  BY DEF Boot
<1> DEFINE x == [at |-> "top", rest |-> p.main]
           k == <<x>>
           t == NewTask(1, Done, k)
           s == NewInterp(p.funcs)
<1>2. KontOK(k) /\ Len(k) = 1 /\ k[1].at = "top" /\ k # <<>>
  <2>1. ItemOK(x) /\ x.at \in Bases /\ x.at = "top"
    BY DEF ItemOK, Bases
  <2> HIDE DEF x
  <2>2. DOMAIN k = {1} /\ k[1] = x
    OBVIOUS
  <2> QED BY <2>1, <2>2, ShortSeqs DEF KontOK
<1> HIDE DEF k
<1>3. /\ DOMAIN t = TaskRecord /\ t.in = 1 /\ t.mode = <<"done">> /\ t.kont = k
  BY DEF NewTask, TaskRecord, Done
<1>4. /\ DOMAIN s = InterpRecord /\ s.env = <<EmptyScope>> /\ s.frames = <<>>
      /\ s.thread = 0 /\ s.self = 0
  BY DEF NewInterp, InterpRecord
<1>5. /\ interps = <<s>> /\ tasks = <<t>> /\ threads = <<>> /\ heap = <<>> /\ running = 1
      /\ log = EmptyScope
  BY <1>1 DEF Start, k
<1> HIDE DEF s, t
<1>6. /\ DOMAIN interps = {1} /\ interps[1] = s /\ DOMAIN tasks = {1} /\ tasks[1] = t
      /\ IsSeq(interps) /\ IsSeq(tasks) /\ Len(tasks) = 1
  BY <1>5, ShortSeqs
<1>7. /\ DOMAIN threads = {} /\ DOMAIN heap = {} /\ IsSeq(threads) /\ IsSeq(heap)
      /\ Len(threads) = 0 /\ Len(heap) = 0
  BY <1>5, EmptyShape
<1>8. InterpOK(s)
  <2>1. IsSeq(s.env) /\ IsSeq(s.frames)
    BY <1>4, ShortSeqs
  <2> QED BY <1>4, <1>7, <2>1 DEF InterpOK
<1>9. TaskOK(t)
  BY <1>2, <1>3, <1>6 DEF TaskOK, Lively, Over
<1> QED BY <1>2, <1>3, <1>5, <1>6, <1>7, <1>8, <1>9 DEF Shape, HeapOK

\* Whatever happens is one of these steps.
LEMMA NextStep ==
    ASSUME Shape, [Run]_<<program, machine>>
    PROVE  Step
<1>1. CASE Run
  BY <1>1, RunStep
<1>2. CASE UNCHANGED <<program, machine>>
  BY <1>2 DEF machine, Step, Idle, Shape
<1> QED BY <1>1, <1>2

\* The machine is well formed at all times: this is what every other invariant
\* of the interpreter rests on.
THEOREM WellFormed == Interpreter => []Shape
<1>1. Shape /\ [Run]_<<program, machine>> => Shape'
  BY NextStep, StepShape
<1> QED BY <1>1, BootShape, PTL DEF Interpreter

-----------------------------------------------------------------------------
(* Nobody waits for an answer in vain.                                       *)

\* A thread without a loop has nothing left to do, and nobody adds to it.
Calm(s) == s.queue = <<>> /\ s.ready /\ (s.status # "Running" \/ s.gone)
Owed(c) ==
    /\ heap[c].out[1] = "queued" => Queues(c) # {}
    /\ heap[c].out[1] = "running" => Computes(c) # {}
AnswerInv ==
    /\ \A th \in DOMAIN threads : Loops(th) = {} => Calm(threads[th])
    /\ \A c \in DOMAIN heap : heap[c].is \in Kinds => Owed(c)

\* A request that is queued keeps its thread's loop going.
LEMMA AnswersOwed == ASSUME Shape, AnswerInv PROVE AnswerOwed
<1>1. ASSUME NEW c \in DOMAIN heap, heap[c].is \in Kinds, heap[c].out[1] = "queued"
      PROVE  \E th \in Queues(c) : Loops(th) # {}
  <2>1. PICK th \in Queues(c) : TRUE
    BY <1>1 DEF AnswerInv, Owed
  <2>2. th \in DOMAIN threads /\ SeqRange(threads[th].queue) # {}
    BY <2>1 DEF Queues
  <2>3. threads[th].queue # <<>>
    BY <2>2 DEF SeqRange
  <2> QED BY <2>1, <2>2, <2>3 DEF AnswerInv, Calm
<1> QED BY <1>1 DEF AnswerInv, AnswerOwed, Owed, Kinds, Calm

\* A task that is not over, and says the same at its base.
Continues(u) ==
    /\ u \in DOMAIN tasks' /\ tasks'[u].in = tasks[u].in
    /\ Forward(tasks[u].kont, tasks'[u].kont)
Persist(S) == \A u \in Alive \ S : Continues(u)

\* A loop, a task that computes a future and a queue go on where the step ends none.
LEMMA StillLoops ==
    ASSUME Shape, World, NEW S, Persist(S), NEW th, Loops(th) \ S # {}
    PROVE  Loops(th)' # {}
<1>1. PICK u \in Loops(th) : u \notin S
  OBVIOUS
<1>2. /\ u \in DOMAIN tasks /\ Continues(u) /\ tasks[u].kont[1].at = "thread"
      /\ interps[tasks[u].in].thread = th /\ tasks[u].in \in DOMAIN interps
  BY <1>1, Here DEF Persist, Loops, Alive
<1>3. interps'[tasks'[u].in].thread = th
  BY <1>2, InterpsFit DEF Continues
<1>4. u \in Loops(th)'
  BY <1>2, <1>3 DEF Loops, Alive, Continues, Forward
<1> QED BY <1>4

\* Whoever computes a future goes on, or its continuation does.
LEMMA StillComputes ==
    ASSUME Shape, World, NEW S, Persist(S), NEW c, Computes(c) \ S # {}
    PROVE  Computes(c)' # {}
<1>1. PICK u \in Computes(c) : u \notin S
  OBVIOUS
<1>2. /\ u \in DOMAIN tasks /\ Continues(u) /\ tasks[u].kont[1].at \in {"handler", "mini"}
      /\ tasks[u].kont[1].cell = c
  BY <1>1 DEF Persist, Computes, Alive
<1>3. u \in Computes(c)'
  BY <1>2 DEF Computes, Alive, Continues, Forward
<1> QED BY <1>3

\* A request that was queued and not taken is still queued.
LEMMA StillQueues ==
    ASSUME Shape, World, NEW c, NEW th \in Queues(c),
           SeqRange(threads[th].queue) \subseteq SeqRange(threads'[th].queue)
    PROVE  Queues(c)' # {}
<1>1. /\ DOMAIN threads = 1..Len(threads) /\ DOMAIN threads' = 1..Len(threads')
      /\ Len(threads) \in Nat /\ Len(threads') \in Nat /\ Len(threads') >= Len(threads)
  BY SeqShape DEF Shape, World, ThreadsMore
<1>2. th \in DOMAIN threads'
  BY <1>1 DEF Queues
<1>3. th \in Queues(c)'
  BY <1>2 DEF Queues
<1> QED BY <1>3

\* An outcome that is still owed.
LEMMA StillOwed ==
    ASSUME Shape, World, NEW S, Persist(S), NEW c, Owed(c), heap'[c].out = heap[c].out,
           Computes(c) \cap S = {}, Queues(c) # {} => Queues(c)' # {}
    PROVE  Owed(c)'
<1>1. Computes(c) # {} => Computes(c)' # {}
  BY StillComputes
<1> QED BY <1>1 DEF Owed

\* Who goes on.
LEMMA TurnContinues ==
    ASSUME Shape, NEW t, Turn(t)
    PROVE  Persist({})
<1>1. TaskTurn(t) /\ t \in DOMAIN tasks
  BY DEF Turn
<1>2. /\ DOMAIN tasks = 1..Len(tasks) /\ DOMAIN tasks' = 1..Len(tasks')
      /\ Len(tasks) \in Nat /\ Len(tasks') \in Nat /\ Len(tasks') >= Len(tasks)
  BY <1>1, SeqShape DEF Shape, TaskTurn
<1>3. ASSUME NEW u \in Alive PROVE Continues(u)
  <2>1. u \in DOMAIN tasks /\ u \in DOMAIN tasks' /\ tasks[u].kont # <<>>
    BY <1>2 DEF Alive
  <2> QED BY <1>1, <2>1 DEF TaskTurn, Continues, Forward
<1> QED BY <1>3 DEF Persist

\* A task that leaves ends only what it was doing itself.
LEMMA GoneContinues ==
    ASSUME Shape, NEW t, NEW how, Gone(t, how)
    PROVE  Persist({t})
<1>1. DOMAIN tasks' = DOMAIN tasks
  BY SeqShape DEF Shape, Gone
<1> QED BY <1>1 DEF Gone, Persist, Continues, Forward, Alive

\* A handler that starts ends nothing,
LEMMA StartContinues ==
    ASSUME Shape, NEW t, Starts(t)
    PROVE  Persist({})
<1>1. DOMAIN tasks' = DOMAIN tasks
  BY SeqShape DEF Shape, Starts
<1> QED BY <1>1 DEF Starts, Grows, Persist, Continues, Forward, Alive

\* nor does a loop that takes a request.
LEMMA TakeContinues ==
    ASSUME Shape, NEW t, Takes(t)
    PROVE  Persist({})
<1>1. DOMAIN tasks = 1..Len(tasks) /\ Len(tasks) \in Nat
  BY SeqShape DEF Shape
<1>2. CASE tasks' = tasks
  BY <1>2 DEF Persist, Continues, Forward, Alive
<1>3. ASSUME NEW i, NEW cell, Begins(i, cell) PROVE Persist({})
  <2>1. DOMAIN tasks \subseteq DOMAIN tasks'
    BY <1>1, <1>3, SeqShape DEF Begins
  <2> QED BY <1>3, <2>1 DEF Begins, Persist, Continues, Forward, Alive
<1>4. tasks' = tasks \/ \E i, cell : Begins(i, cell)
  BY DEF Takes
<1> QED BY <1>2, <1>3, <1>4

\* The two halves of the invariant, after a step.
LoopsCalm == \A th \in DOMAIN threads : Loops(th) = {} => Calm(threads[th])
AllOwed == \A c \in DOMAIN heap : heap[c].is \in Kinds => Owed(c)

\* A thread that was calm stays so.
LEMMA LoopsKept ==
    ASSUME Shape, World, AnswerInv, Persist({}), Len(threads') = Len(threads),
           \A th \in DOMAIN threads : Calm(threads[th]) => Calm(threads'[th])
    PROVE  LoopsCalm'
<1>1. DOMAIN threads' = DOMAIN threads
  BY SeqShape DEF Shape, World, ThreadsMore
<1>2. ASSUME NEW th \in DOMAIN threads', Loops(th)' = {} PROVE Calm(threads'[th])
  <2>1. Loops(th) \ {} = {}
    BY <1>2, StillLoops
  <2> QED BY <1>1, <2>1 DEF AnswerInv
<1>3. ASSUME NEW th \in DOMAIN threads', Loops(th)' = {} PROVE Calm(threads[th])'
  BY <1>2, <1>3 DEF Calm
<1> QED BY <1>3 DEF LoopsCalm

\* No queue lost anything.
QueuesKept ==
    \A th \in DOMAIN threads : SeqRange(threads[th].queue) \subseteq SeqRange(threads'[th].queue)

\* A future without an answer that was owed is owed,
LEMMA OldOwed ==
    ASSUME Shape, World, AnswerInv, Persist({}), QueuesKept,
           NEW c \in DOMAIN heap, heap[c].is \in Kinds, heap'[c].out = heap[c].out
    PROVE  Owed(c)'
<1>1. Queues(c) # {} => Queues(c)' # {}
  BY StillQueues DEF QueuesKept, Queues
<1>2. Owed(c) /\ Computes(c) \cap {} = {}
  BY DEF AnswerInv
<1> QED BY <1>1, <1>2, StillOwed

\* so all are when there is no new one,
LEMMA OwedKept ==
    ASSUME Shape, World, AnswerInv, Persist({}), QueuesKept, HeapKept(heap, heap')
    PROVE  AllOwed'
<1>1. ASSUME NEW c \in DOMAIN heap', heap'[c].is \in Kinds PROVE Owed(c)'
  <2>1. c \in DOMAIN heap /\ CellKept(heap[c], heap'[c])
    BY <1>1 DEF HeapKept
  <2>2. heap[c].is \in Kinds /\ heap'[c].out = heap[c].out
    BY <1>1, <2>1 DEF CellKept, Shape, HeapOK, CellOK
  <2> QED BY <2>1, <2>2, OldOwed
<1> QED BY <1>1 DEF AllOwed

\* and when there is one new one that is owed.
LEMMA OwedMore ==
    ASSUME Shape, World, AnswerInv, Persist({}), QueuesKept,
           NEW ty, NEW o, Fresh(heap, heap', ty, [out |-> o]),
           NEW new, new = Len(heap) + 1, Owed(new)'
    PROVE  AllOwed'
<1>1. ASSUME NEW c \in DOMAIN heap', heap'[c].is \in Kinds PROVE Owed(c)'
  <2>1. CASE c \in DOMAIN heap
    <3>1. heap[c].is \in Kinds /\ heap'[c].out = heap[c].out
      BY <1>1, <2>1 DEF Fresh
    <3> QED BY <2>1, <3>1, OldOwed
  <2>2. CASE c = new
    BY <2>2
  <2> QED BY <2>1, <2>2 DEF Fresh
<1> QED BY <1>1 DEF AllOwed

\* Of the cells that were settled nothing is owed any more, or a task computes
\* them.
LEMMA OwedSettled ==
    ASSUME Shape, World, AnswerInv, NEW S, Persist(S), NEW cells, NEW kinds,
           Settled(cells, kinds),
           \A c : c \notin cells =>
              Computes(c) \cap S = {} /\ (Queues(c) # {} => Queues(c)' # {}),
           kinds = Outs \/ (kinds = {"running"} /\ \A c \in cells : Computes(c)' # {})
    PROVE  AllOwed'
<1>1. DOMAIN heap' = DOMAIN heap
  BY SeqShape DEF Settled, Shape, HeapOK
<1>2. ASSUME NEW c \in DOMAIN heap', heap'[c].is \in Kinds PROVE Owed(c)'
  <2>1. c \in DOMAIN heap /\ heap[c].is \in Kinds /\ "out" \in DOMAIN heap[c]
    BY <1>1, <1>2 DEF Settled, Shape, HeapOK, CellOK
  <2>2. CASE c \in cells
    <3>1. heap'[c].out[1] \in kinds
      BY <2>1, <2>2 DEF Settled
    <3> QED BY <2>2, <3>1 DEF Owed, Outs
  <2>3. CASE c \notin cells
    <3>1. heap'[c].out = heap[c].out
      BY <2>1, <2>3 DEF Settled
    <3>2. Owed(c)
      BY <2>1 DEF AnswerInv
    <3>3. Computes(c) \cap S = {} /\ (Queues(c) # {} => Queues(c)' # {})
      BY <2>3
    <3> QED BY <3>1, <3>2, <3>3, StillOwed
  <2> QED BY <2>2, <2>3
<1> QED BY <1>2 DEF AllOwed

\* The two halves of the invariant.
LEMMA BothKept == ASSUME LoopsCalm', AllOwed' PROVE AnswerInv'
BY DEF LoopsCalm, AllOwed, AnswerInv

\* Steps that only change what their task is at.
LEMMA SteadyAnswers ==
    ASSUME Shape, AnswerInv, NEW t, ScopeTurn(t) \/ Enters(t)
    PROVE  AnswerInv'
<1>1. World /\ Persist({})
  BY TurnShape, TurnContinues DEF ScopeTurn, Steady, Enters
<1>2. /\ Len(threads') = Len(threads)
      /\ \A th \in DOMAIN threads : Calm(threads[th]) => Calm(threads'[th])
      /\ QueuesKept
  BY DEF ScopeTurn, Steady, Enters, ThreadsKept, ThreadKept, ReadyNow, Calm, QueuesKept
<1>3. HeapKept(heap, heap')
  BY NothingElse DEF ScopeTurn, Steady, Enters
<1> QED BY <1>1, <1>2, <1>3, LoopsKept, OwedKept, BothKept

\* A handler that starts computes the future it was taken for.
LEMMA StartAnswers == ASSUME Shape, AnswerInv, NEW t, Starts(t) PROVE AnswerInv'
<1>1. World /\ Persist({})
  BY StartShape, StartContinues
<1>2. threads' = threads /\ heap' = heap
  BY DEF Starts
<1>3. /\ Len(threads') = Len(threads) /\ QueuesKept
      /\ \A th \in DOMAIN threads : Calm(threads[th]) => Calm(threads'[th])
  BY <1>2 DEF QueuesKept
<1>4. HeapKept(heap, heap')
  BY <1>2, NothingElse
<1> QED BY <1>1, <1>3, <1>4, LoopsKept, OwedKept, BothKept

\* A request is queued at a thread that has a loop.
LEMMA AskAnswers == ASSUME Shape, AnswerInv, NEW t, Asks(t) PROVE AnswerInv'
<1>1. World /\ Persist({}) /\ Dispatched
  BY TurnShape, TurnContinues DEF Asks
<1>2. PICK new : new = Len(heap) + 1
  OBVIOUS
<1>3. CASE /\ \E o : /\ o[1] \notin {"queued", "running"}
                     /\ Fresh(heap, heap', "HandlerFuture", [out |-> o])
           /\ threads' = threads
  <2>1. PICK o : /\ o[1] \notin {"queued", "running"}
                 /\ Fresh(heap, heap', "HandlerFuture", [out |-> o])
    BY <1>3
  <2>2. heap'[new].out = o
    BY <1>2, <2>1 DEF Fresh
  <2>3. Owed(new)'
    BY <2>1, <2>2 DEF Owed
  <2>4. Len(threads') = Len(threads) /\ QueuesKept
    BY <1>3 DEF QueuesKept
  <2>5. \A th \in DOMAIN threads : Calm(threads[th]) => Calm(threads'[th])
    BY <1>3
  <2> QED BY <1>1, <1>2, <2>1, <2>3, <2>4, <2>5, LoopsKept, OwedMore, BothKept
<1>4. CASE /\ Fresh(heap, heap', "HandlerFuture", [out |-> <<"queued">>])
           /\ \E th \in DOMAIN threads : \E r :
                 /\ r.cell = Len(heap) + 1
                 /\ threads[th].status = "Running" /\ ~threads[th].gone
                 /\ threads' = [threads EXCEPT ![th].queue = Append(@, r)]
  <2>0. PICK th \in DOMAIN threads : \E r :
                 /\ r.cell = Len(heap) + 1
                 /\ threads[th].status = "Running" /\ ~threads[th].gone
                 /\ threads' = [threads EXCEPT ![th].queue = Append(@, r)]
    BY <1>4
  <2>1. PICK r :
                 /\ r.cell = Len(heap) + 1
                 /\ threads[th].status = "Running" /\ ~threads[th].gone
                 /\ threads' = [threads EXCEPT ![th].queue = Append(@, r)]
    BY <2>0
  <2> DEFINE q == threads[th].queue
             s == [threads[th] EXCEPT !.queue = Append(q, r)]
  <2>2. /\ ThreadOK(threads[th]) /\ IsSeq(q) /\ Len(q) \in Nat /\ DOMAIN q = 1..Len(q)
    BY SeqShape DEF Shape, ThreadOK
  <2>3. SeqRange(q) \subseteq SeqRange(Append(q, r)) /\ r \in SeqRange(Append(q, r))
    <3> HIDE DEF q
    <3> DEFINE qq == Append(q, r)
    <3>1. /\ IsSeq(qq) /\ Len(qq) = Len(q) + 1 /\ \A i \in 1..Len(q) : qq[i] = q[i]
          /\ qq[Len(q) + 1] = r
      BY <2>2, AppendShape
    <3>2. DOMAIN qq = 1..(Len(q) + 1)
      BY <3>1, SeqShape
    <3> HIDE DEF qq
    <3> QED BY <2>2, <3>1, <3>2 DEF SeqRange, qq
  <2>4. s.queue = Append(q, r) /\ threads' = [threads EXCEPT ![th] = s]
    BY <2>1, <2>2 DEF ThreadOK, ThreadRecord
  <2> HIDE DEF s
  <2>5. threads'[th].queue = Append(q, r) /\ \A o \in DOMAIN threads \ {th} : threads'[o] = threads[o]
    BY <2>4
  <2>6. DOMAIN threads' = DOMAIN threads /\ Len(threads') = Len(threads)
    BY <2>4, ExceptShape DEF Shape
  <2>7. QueuesKept
    BY <2>3, <2>5 DEF QueuesKept
  <2>8. \A o \in DOMAIN threads : Calm(threads[o]) => Calm(threads'[o])
    <3>1. ~Calm(threads[th])
      BY <2>1 DEF Calm
    <3> HIDE DEF Calm
    <3> QED BY <2>5, <3>1
  <2>9. Owed(new)'
    <3>1. heap'[new].out = <<"queued">>
      BY <1>2, <1>4 DEF Fresh
    <3>2. th \in DOMAIN threads' /\ r \in SeqRange(threads'[th].queue) /\ r.cell = new
      BY <1>2, <2>1, <2>3, <2>5, <2>6
    <3>3. th \in Queues(new)'
      BY <3>2 DEF Queues
    <3> QED BY <3>1, <3>3 DEF Owed
  <2> QED BY <1>1, <1>2, <1>4, <2>6, <2>7, <2>8, <2>9, LoopsKept, OwedMore, BothKept
<1> QED BY <1>1, <1>3, <1>4 DEF Dispatched

\* The task that was started computes its future.
LEMMA CallAnswers == ASSUME Shape, AnswerInv, NEW t, Calls(t) PROVE AnswerInv'
<1>1. PICK m, x :
        /\ x.at = "mini" /\ x.cell = Len(heap) + 1 /\ Forks(t, m, <<x>>)
        /\ Fresh(heap, heap', "Future", [out |-> <<"running">>])
        /\ threads' = threads
  BY DEF Calls
<1> DEFINE kk == <<x>>
           nt == Len(tasks) + 1
           ni == Len(interps) + 1
<1>2. World /\ Persist({}) /\ IsSeq(tasks')
  BY <1>1, CallShape, TurnContinues DEF Forks, Turn, TaskTurn
<1>3. PICK new : new = Len(heap) + 1
  OBVIOUS
<1>4. Owed(new)'
  <2>1. heap'[new].out = <<"running">>
    BY <1>1, <1>3 DEF Fresh
  <2>2. nt \in DOMAIN tasks'
    BY <1>1, <1>2, SeqShape DEF Forks, Shape
  <2>3. kk[1] = x /\ kk # <<>>
    BY <1>1 DEF Forks, NewKont
  <2>4. tasks'[nt].kont = kk
    <3> HIDE DEF kk
    <3> QED BY <1>1 DEF Forks, NewTask, kk
  <2> HIDE DEF kk, nt
  <2>5. nt \in Computes(new)'
    BY <1>1, <1>3, <2>2, <2>3, <2>4 DEF Computes, Alive
  <2> QED BY <2>1, <2>5 DEF Owed
<1>5. /\ Len(threads') = Len(threads) /\ QueuesKept
      /\ \A th \in DOMAIN threads : Calm(threads[th]) => Calm(threads'[th])
  BY <1>1 DEF QueuesKept
<1> QED BY <1>1, <1>2, <1>3, <1>4, <1>5, LoopsKept, OwedMore, BothKept

\* A thread begins with a loop.
LEMMA SpawnAnswers == ASSUME Shape, AnswerInv, NEW t, Spawns(t) PROVE AnswerInv'
<1>1. PICK m, kk, s :
        /\ kk[1].at = "thread" /\ Forks(t, m, kk)
        /\ interps'[Len(interps) + 1].thread = Len(threads) + 1
        /\ HeapKept(heap, heap')
        /\ threads' = Append(threads, s)
  BY DEF Spawns
<1> DEFINE nt == Len(tasks) + 1
           ni == Len(interps) + 1
<1>2. World /\ Persist({}) /\ IsSeq(tasks')
  BY <1>1, SpawnShape, TurnContinues DEF Forks, Turn, TaskTurn
<1>3. /\ IsSeq(threads) /\ Len(threads) \in Nat /\ DOMAIN threads = 1..Len(threads)
      /\ \A th \in DOMAIN threads : threads'[th] = threads[th]
      /\ DOMAIN threads' = 1..(Len(threads) + 1)
  <2>1. IsSeq(threads) /\ Len(threads) \in Nat /\ DOMAIN threads = 1..Len(threads)
    BY SeqShape DEF Shape
  <2> QED BY <1>1, <2>1, AppendShape, SeqShape
<1>4. PICK new : new = Len(threads) + 1
  OBVIOUS
<1>5. nt \in Loops(new)'
  <2>1. nt \in DOMAIN tasks'
    BY <1>1, <1>2, SeqShape DEF Forks, Shape
  <2>2. tasks'[nt].kont = kk /\ tasks'[nt].in = ni /\ kk # <<>>
    BY <1>1 DEF Forks, NewTask, NewKont
  <2> HIDE DEF nt, ni
  <2> QED BY <1>1, <1>4, <2>1, <2>2 DEF Loops, Alive, ni
<1>6. LoopsCalm'
  <2>1. ASSUME NEW th \in DOMAIN threads', Loops(th)' = {} PROVE Calm(threads'[th])
    <3>1. th # new
      BY <1>5, <2>1
    <3>2. th \in DOMAIN threads
      BY <1>3, <1>4, <3>1
    <3>3. Loops(th) \ {} = {}
      BY <1>2, <2>1, StillLoops
    <3>4. Calm(threads[th])
      BY <3>2, <3>3 DEF AnswerInv
    <3> QED BY <1>3, <3>2, <3>4
  <2>2. ASSUME NEW th \in DOMAIN threads', Loops(th)' = {} PROVE Calm(threads[th])'
    BY <2>1, <2>2 DEF Calm
  <2> QED BY <2>2 DEF LoopsCalm
<1>7. AllOwed'
  BY <1>1, <1>2, <1>3, OwedKept DEF QueuesKept
<1> QED BY <1>6, <1>7, BothKept

\* A request leaves its queue for a task that computes its answer, or it is
\* answered.
LEMMA TakeAnswers == ASSUME Shape, AnswerInv, NEW t, Takes(t) PROVE AnswerInv'
<1>1. PICK i : i = tasks[t].in
  OBVIOUS
<1>2. PICK th : th = interps[i].thread
  OBVIOUS
<1>3. PICK q : q = threads[th].queue
  OBVIOUS
<1>4. PICK cell : cell = Head(q).cell
  OBVIOUS
<1>5. PICK new : new = Len(tasks) + 1
  OBVIOUS
<1>6. /\ th \in DOMAIN threads /\ q # <<>> /\ Len(threads') = Len(threads)
      /\ \A o \in DOMAIN threads \ {th} : threads'[o] = threads[o]
      /\ threads'[th].queue = Tail(q)
      /\ \/ tasks' = tasks /\ Settled({cell}, Outs)
         \/ Begins(i, cell) /\ Settled({cell}, {"running"})
  BY <1>1, <1>2, <1>3, <1>4, Zenon DEF Takes
<1>7. World /\ Persist({}) /\ IsSeq(q)
  <2>1. ThreadOK(threads[th])
    BY <1>6 DEF Shape
  <2> QED BY <1>3, <2>1, TakeShape, TakeContinues DEF ThreadOK
<1>8. SeqRange(q) = SeqRange(Tail(q)) \cup {Head(q)}
  BY <1>6, <1>7, TailShape
<1>9. LoopsCalm'
  <2>1. ~Calm(threads[th])
    BY <1>3, <1>6 DEF Calm
  <2>2. \A o \in DOMAIN threads : Calm(threads[o]) => Calm(threads'[o])
    <3> HIDE DEF Calm
    <3> QED BY <1>6, <2>1
  <2> QED BY <1>6, <1>7, <2>2, LoopsKept
<1>10. ASSUME NEW c, c \notin {cell}, Queues(c) # {} PROVE Queues(c)' # {}
  <2>1. PICK o \in Queues(c) : TRUE
    BY <1>10
  <2>2. CASE o = th
    <3>1. PICK r \in SeqRange(q) : r.cell = c
      BY <1>3, <2>1, <2>2 DEF Queues
    <3>2. r \in SeqRange(Tail(q))
      BY <1>4, <1>8, <1>10, <3>1
    <3>3. DOMAIN threads' = DOMAIN threads
      BY <1>6, <1>7, SeqShape DEF Shape, World, ThreadsMore
    <3>4. th \in Queues(c)'
      BY <1>6, <3>1, <3>2, <3>3 DEF Queues
    <3> QED BY <3>4
  <2>3. CASE o # th
    <3>1. threads'[o] = threads[o]
      BY <1>6, <2>1, <2>3 DEF Queues
    <3> QED BY <1>7, <2>1, <3>1, StillQueues
  <2> QED BY <2>2, <2>3
<1>11. AllOwed'
  <2>1. CASE Settled({cell}, Outs)
    BY <1>7, <1>10, <2>1, OwedSettled
  <2>2. CASE Begins(i, cell) /\ Settled({cell}, {"running"})
    <3>1. Begun(new, i, cell)
      BY <1>5, <2>2, NewHandler
    <3>2. new \in Computes(cell)'
      BY <3>1 DEF Begun, Computes, Alive
    <3> QED BY <1>7, <1>10, <2>2, <3>2, OwedSettled
  <2> QED BY <1>6, <2>1, <2>2
<1> QED BY <1>9, <1>11, BothKept

\* A task that computed one future is over, and the future has an outcome.
LEMMA OneOverAnswers ==
    ASSUME Shape, World, AnswerInv, NEW t, NEW how, Gone(t, how),
           tasks[t].kont[1].at \in {"handler", "mini"}, Settled({tasks[t].kont[1].cell}, Outs),
           threads' = threads \/ ThreadsKept
    PROVE  AnswerInv'
<1>1. Persist({t})
  BY GoneContinues
<1>2. PICK cell : cell = tasks[t].kont[1].cell
  OBVIOUS
<1>3. /\ Len(threads') = Len(threads) /\ DOMAIN threads' = DOMAIN threads
      /\ \A th \in DOMAIN threads : Calm(threads[th]) => Calm(threads'[th])
      /\ QueuesKept
  <2>1. ThreadsKept
    BY NothingElse
  <2> QED BY <2>1, SeqShape DEF ThreadsKept, ThreadKept, QueuesKept, Calm, Shape
<1>4. LoopsCalm'
  <2>1. ASSUME NEW th \in DOMAIN threads', Loops(th)' = {} PROVE Calm(threads'[th])
    <3>1. Loops(th) \ {t} = {} /\ t \notin Loops(th)
      BY <1>1, <2>1, StillLoops DEF Loops
    <3>2. Loops(th) = {}
      BY <3>1
    <3> QED BY <1>3, <3>2 DEF AnswerInv
  <2>2. ASSUME NEW th \in DOMAIN threads', Loops(th)' = {} PROVE Calm(threads[th])'
    BY <2>1, <2>2 DEF Calm
  <2> QED BY <2>2 DEF LoopsCalm
<1>5. ASSUME NEW c, c \notin {cell}
      PROVE  Computes(c) \cap {t} = {} /\ (Queues(c) # {} => Queues(c)' # {})
  <2>1. Computes(c) \cap {t} = {}
    BY <1>2, <1>5 DEF Computes
  <2>2. Queues(c) # {} => Queues(c)' # {}
    BY <1>3, StillQueues DEF QueuesKept, Queues
  <2> QED BY <2>1, <2>2
<1>6. AllOwed'
  BY <1>1, <1>2, <1>5, OwedSettled
<1> QED BY <1>4, <1>6, BothKept

\* A loop is over: what was asked of it is answered, and no more is taken.
LEMMA LoopOverAnswers ==
    ASSUME Shape, World, AnswerInv, NEW t, NEW how, Gone(t, how),
           tasks[t].kont[1].at = "thread", NEW th, th = interps[tasks[t].in].thread,
           NEW status, NEW gone, status # "Running" \/ gone,
           Closed(th, status, gone), Settled(Asked(th), Outs)
    PROVE  AnswerInv'
<1>1. Persist({t})
  BY GoneContinues
<1>2. DOMAIN threads' = DOMAIN threads
  BY SeqShape DEF Closed, Shape
<1>3. Calm(threads'[th]) /\ \A o \in DOMAIN threads \ {th} : threads'[o] = threads[o]
  BY DEF Closed, Calm
<1>4. LoopsCalm'
  <2>1. ASSUME NEW o \in DOMAIN threads', Loops(o)' = {} PROVE Calm(threads'[o])
    <3>1. CASE o = th
      BY <1>3, <3>1
    <3>2. CASE o # th
      <4>1. Loops(o) \ {t} = {} /\ t \notin Loops(o)
        BY <1>1, <2>1, <3>2, StillLoops DEF Loops
      <4>2. Loops(o) = {}
        BY <4>1
      <4> QED BY <1>2, <1>3, <3>2, <4>2 DEF AnswerInv
    <3> QED BY <3>1, <3>2
  <2>2. ASSUME NEW o \in DOMAIN threads', Loops(o)' = {} PROVE Calm(threads[o])'
    BY <2>1, <2>2 DEF Calm
  <2> QED BY <2>2 DEF LoopsCalm
<1>5. ASSUME NEW c, c \notin Asked(th)
      PROVE  Computes(c) \cap {t} = {} /\ (Queues(c) # {} => Queues(c)' # {})
  <2>1. Computes(c) \cap {t} = {}
    BY DEF Computes
  <2>2. ASSUME NEW o \in Queues(c) PROVE Queues(c)' # {}
    <3>1. o # th
      BY <1>5, <2>2 DEF Queues, Asked
    <3>2. threads'[o] = threads[o]
      BY <1>3, <2>2, <3>1 DEF Queues
    <3> QED BY <2>2, <3>2, StillQueues
  <2> QED BY <2>1, <2>2
<1>6. AllOwed'
  BY <1>1, <1>5, OwedSettled
<1> QED BY <1>4, <1>6, BothKept

\* A task that is over has answered what it owed.
LEMMA OverAnswers ==
    ASSUME Shape, AnswerInv, NEW t,
           HandlerOver(t) \/ FutureOver(t) \/ Panics(t) \/ \E th, status : BodyOver(t, th, status)
    PROVE  AnswerInv'
<1>1. World
  BY OverShape
<1>2. CASE HandlerOver(t) \/ FutureOver(t)
  BY <1>1, <1>2, OneOverAnswers DEF HandlerOver, FutureOver
<1>3. CASE Panics(t)
  <2>1. CASE tasks[t].kont[1].at = "thread"
    BY <1>1, <1>3, <2>1, LoopOverAnswers DEF Panics
  <2>2. CASE tasks[t].kont[1].at \in {"handler", "mini"}
    BY <1>1, <1>3, <2>2, OneOverAnswers DEF Panics
  <2> QED BY <1>3, <2>1, <2>2 DEF Panics
<1>4. CASE \E th, status : BodyOver(t, th, status)
  <2>1. PICK th, status : BodyOver(t, th, status)
    BY <1>4
  <2>2. status # "Running"
    BY <2>1 DEF BodyOver
  <2> QED BY <1>1, <2>1, <2>2, LoopOverAnswers DEF BodyOver
<1> QED BY <1>2, <1>3, <1>4

\* An idle executor changes nothing.
LEMMA IdleAnswers == ASSUME AnswerInv, Idle PROVE AnswerInv'
BY DEF Idle, AnswerInv, Loops, Alive, Computes, Queues, Owed, Calm

\* Every step keeps answers owed,
LEMMA StepAnswers == ASSUME Shape, AnswerInv, Step PROVE AnswerInv'
BY IdleAnswers, SteadyAnswers, AskAnswers, CallAnswers, SpawnAnswers, StartAnswers, TakeAnswers,
   OverAnswers DEF Step, StepOf

\* and nothing is owed at first.
LEMMA BootAnswers == ASSUME Boot PROVE AnswerInv
BY DEF Boot, Start, AnswerInv

\* Whoever waits for an answer waits for somebody who can still give one, in
\* every run of every program: the runtime leaves nobody behind.
THEOREM AnswersAreOwed == Interpreter => []AnswerOwed
<1>1. AnswerInv /\ Shape /\ [Run]_<<program, machine>> => AnswerInv'
  BY NextStep, StepAnswers
<1>2. AnswerInv /\ Shape => AnswerOwed
  BY AnswersOwed
<1> QED BY <1>1, <1>2, BootAnswers, WellFormed, PTL DEF Interpreter

-----------------------------------------------------------------------------
(* Scope blocks are left through their exit hooks.                           *)

\* Scope blocks of existing templates, and what the log says of their objects.
Holds(t, j) == t \in DOMAIN tasks /\ Scope(tasks[t].kont, j)
Item(t, j) == tasks[t].kont[j]
Logged(s) ==
    /\ s.obj \in DOMAIN heap
    /\ s.stage \in {"fill", "enter", "body", "exit"}
    /\ s.stage \in {"fill", "enter"} => s.obj \notin DOMAIN log
    /\ s.stage = "body" => s.obj \in DOMAIN log /\ log[s.obj] = <<"entered">>
    /\ s.stage = "exit" => s.obj \in DOMAIN log /\ log[s.obj] = <<"entered", "exited">>
Histories == {<<"entered">>, <<"entered", "exited">>, <<"entered", "exited", "broken">>}
Panicking == \E t \in DOMAIN tasks : tasks[t].mode[1] = "panicked"
Accounted(obj) ==
    /\ obj \in DOMAIN heap /\ log[obj] \in Histories
    /\ Len(log[obj]) = 3 \/ (\E t, j : Holds(t, j) /\ Item(t, j).obj = obj) \/ Panicking
ExitInv ==
    /\ \A t, j : Holds(t, j) => Logged(Item(t, j))
    /\ \A t, j, u, l : Holds(t, j) /\ Holds(u, l) /\ Item(t, j).obj = Item(u, l).obj
                          => t = u /\ j = l
    /\ \A obj \in DOMAIN log : Accounted(obj)

\* The invariant is stronger than the property.
LEMMA ExitsHook == ASSUME ExitInv PROVE ExitHooks
BY DEF ExitInv, ExitHooks, Accounted, Histories, Panicking, InScope, Holds, Item, Scope

\* The scope blocks are the same, except perhaps one.
ElseHolds(t, n) ==
    \A u, j : u # t \/ j # n =>
       (Holds(u, j)' <=> Holds(u, j)) /\ (Holds(u, j) => Item(u, j)' = Item(u, j))
SameHolds ==
    \A u, j : (Holds(u, j)' <=> Holds(u, j)) /\ (Holds(u, j) => Item(u, j)' = Item(u, j))
Grown == DOMAIN heap \subseteq DOMAIN heap' /\ (Panicking => Panicking')

\* A step that holds the same scope blocks and writes no event keeps the invariant.
LEMMA SameExits ==
    ASSUME ExitInv, SameHolds, log' = log, Grown
    PROVE  ExitInv'
<1>1. ASSUME NEW t, NEW j, Holds(t, j)' PROVE Logged(Item(t, j))'
  <2>1. Holds(t, j) /\ Logged(Item(t, j)) /\ Item(t, j)' = Item(t, j)
    BY <1>1 DEF SameHolds, ExitInv
  <2> QED BY <2>1 DEF Logged, Grown
<1>2. ASSUME NEW t, NEW j, NEW u, NEW l, Holds(t, j)', Holds(u, l)',
             Item(t, j)'.obj = Item(u, l)'.obj
      PROVE  t = u /\ j = l
  BY <1>2 DEF SameHolds, ExitInv
<1>3. ASSUME NEW obj \in DOMAIN log' PROVE Accounted(obj)'
  BY DEF SameHolds, ExitInv, Accounted, Grown
<1> QED BY <1>1, <1>2, <1>3 DEF ExitInv

\* A block is begun around a new object.
LEMMA OpenExits ==
    ASSUME ExitInv, NEW t, NEW n, ElseHolds(t, n), Holds(t, n)', ~Holds(t, n), Grown,
           NEW s, s = Item(t, n)', s.obj \in DOMAIN heap' \ DOMAIN heap, s.stage = "fill",
           log' = log
    PROVE  ExitInv'
<1>1. s.obj \notin DOMAIN log
  BY DEF ExitInv, Accounted
<1>2. ASSUME NEW u, NEW j, Holds(u, j)', u # t \/ j # n
      PROVE  Holds(u, j) /\ Item(u, j)' = Item(u, j) /\ Logged(Item(u, j)) /\ Item(u, j).obj # s.obj
  BY <1>2 DEF ElseHolds, ExitInv, Logged
<1>3. ASSUME NEW u, NEW j, Holds(u, j)' PROVE Logged(Item(u, j))'
  <2>1. CASE u = t /\ j = n
    BY <1>1, <2>1 DEF Logged
  <2>2. CASE u # t \/ j # n
    BY <1>2, <1>3, <2>2 DEF Logged, Grown
  <2> QED BY <2>1, <2>2
<1>4. ASSUME NEW v, NEW j, NEW u, NEW l, Holds(v, j)', Holds(u, l)',
             Item(v, j)'.obj = Item(u, l)'.obj
      PROVE  v = u /\ j = l
  <2>1. CASE (v # t \/ j # n) /\ (u # t \/ l # n)
    BY <1>2, <1>4, <2>1 DEF ExitInv
  <2>2. CASE (v = t /\ j = n) \/ (u = t /\ l = n)
    BY <1>2, <1>4, <2>2
  <2> QED BY <2>1, <2>2
<1>5. ASSUME NEW obj \in DOMAIN log' PROVE Accounted(obj)'
  <2>1. Accounted(obj)
    BY DEF ExitInv
  <2>2. (\E u, j : Holds(u, j) /\ Item(u, j).obj = obj)
        => (\E u, j : Holds(u, j)' /\ Item(u, j)'.obj = obj)
    BY DEF ElseHolds
  <2> QED BY <2>1, <2>2 DEF Accounted, Grown
<1> QED BY <1>3, <1>4, <1>5 DEF ExitInv

\* What is noted is added to the object's history.
LEMMA ThreeItems ==
    ASSUME NEW x, NEW y, NEW z
    PROVE  Append(<<>>, x) = <<x>> /\ Append(<<x>>, y) = <<x, y>> /\ Append(<<x, y>>, z) = <<x, y, z>>
<1> DEFINE a == Append(<<x, y>>, z)
           b == <<x, y, z>>
<1>1. <<x, y>> \in Seq({x, y, z}) /\ Len(<<x, y>>) = 2 /\ <<x, y>>[1] = x /\ <<x, y>>[2] = y
  OBVIOUS
<1>2. IsSeq(<<x, y>>)
  BY <1>1, SeqIs
<1>3. Len(a) = 3 /\ a[1] = x /\ a[2] = y /\ a[3] = z
  BY <1>1, <1>2, AppendShape
<1>4. a \in Seq({x, y, z}) /\ b \in Seq({x, y, z}) /\ Len(b) = 3 /\ b[1] = x /\ b[2] = y /\ b[3] = z
  BY <1>1
<1> HIDE DEF a, b
<1>5. \A i \in 1..Len(a) : a[i] = b[i]
  <2>1. 1..Len(a) = {1, 2, 3}
    BY <1>3
  <2> QED BY <1>3, <1>4, <2>1
<1>6. a = b
  BY <1>3, <1>4, <1>5, SeqEqual
<1>7. Append(<<x>>, y) = <<x, y>>
  <2>1. <<x>> \in Seq({x, y}) /\ y \in {x, y}
    OBVIOUS
  <2> QED BY <2>1, AppendIsConcat, TwoItems
<1> QED BY <1>6, <1>7 DEF a, b

\* What an event adds to the history of an object.
LEMMA Noted ==
    ASSUME NEW event, NEW obj, Note(event, obj)
    PROVE  /\ DOMAIN log' = DOMAIN log \cup {obj}
           /\ \A o \in DOMAIN log : o # obj => log'[o] = log[o]
           /\ obj \notin DOMAIN log => log'[obj] = <<event>>
           /\ obj \in DOMAIN log => log'[obj] = Append(log[obj], event)
<1>1. Append(<<>>, event) = <<event>>
  BY ThreeItems
<1> QED BY <1>1 DEF Note, Events, Put

\* Only the history of one object is changed.
OnlyLogs(obj) ==
    /\ DOMAIN log' \subseteq DOMAIN log \cup {obj} /\ DOMAIN log \subseteq DOMAIN log'
    /\ \A o \in DOMAIN log : o # obj => log'[o] = log[o]

\* The others are accounted for as before.
LEMMA OtherExits ==
    ASSUME ExitInv, NEW t, NEW n, ElseHolds(t, n), Holds(t, n), Grown,
           NEW s, s = Item(t, n), OnlyLogs(s.obj)
    PROVE  /\ \A u, j : (u # t \/ j # n) /\ Holds(u, j)' =>
                 /\ Holds(u, j) /\ Item(u, j)' = Item(u, j) /\ Item(u, j).obj # s.obj
                 /\ Logged(Item(u, j))'
           /\ \A obj \in DOMAIN log' : obj # s.obj => Accounted(obj)'
<1>1. ASSUME NEW u, NEW j, u # t \/ j # n, Holds(u, j)'
      PROVE  /\ Holds(u, j) /\ Item(u, j)' = Item(u, j) /\ Item(u, j).obj # s.obj
             /\ Logged(Item(u, j))'
  <2>1. Holds(u, j) /\ Item(u, j)' = Item(u, j) /\ Logged(Item(u, j)) /\ Item(u, j).obj # s.obj
    BY <1>1 DEF ElseHolds, ExitInv
  <2>2. Logged(Item(u, j))'
    BY <2>1 DEF Logged, OnlyLogs, Grown
  <2> QED BY <2>1, <2>2
<1>2. ASSUME NEW obj \in DOMAIN log', obj # s.obj PROVE Accounted(obj)'
  <2>1. obj \in DOMAIN log /\ Accounted(obj) /\ log'[obj] = log[obj]
    BY <1>2 DEF ExitInv, OnlyLogs
  <2>2. (\E u, j : Holds(u, j) /\ Item(u, j).obj = obj)
        => (\E u, j : Holds(u, j)' /\ Item(u, j)'.obj = obj)
    BY <1>2 DEF ElseHolds
  <2> QED BY <2>1, <2>2 DEF Accounted, Grown
<1> QED BY <1>1, <1>2

\* A block goes on to its next stage.
LEMMA MoveExits ==
    ASSUME ExitInv, NEW t, NEW n, ElseHolds(t, n), Holds(t, n), Holds(t, n)', Grown,
           NEW s, s = Item(t, n), NEW ss, ss = Item(t, n)', ss.obj = s.obj,
           \/ s.stage = "fill" /\ ss.stage = "enter" /\ log' = log
           \/ s.stage = "enter" /\ ss.stage = "body" /\ Note("entered", s.obj)
           \/ s.stage = "body" /\ ss.stage = "exit" /\ Note("exited", s.obj)
    PROVE  ExitInv'
<1>1. Logged(s)
  BY DEF ExitInv
<1>2. OnlyLogs(s.obj)
  <2>1. PICK obj : obj = s.obj
    OBVIOUS
  <2>2. CASE log' = log
    BY <2>2 DEF OnlyLogs
  <2>3. ASSUME NEW event, Note(event, obj) PROVE OnlyLogs(obj)
    <3>1. /\ DOMAIN log' = DOMAIN log \cup {obj}
          /\ \A o \in DOMAIN log : o # obj => log'[o] = log[o]
      BY ONLY <2>3, Noted
    <3> QED BY <3>1 DEF OnlyLogs
  <2>4. log' = log \/ \E event : Note(event, obj)
    BY <2>1
  <2> QED BY <2>1, <2>2, <2>3, <2>4
<1>3. /\ s.obj \in DOMAIN heap' /\ ss.stage \in {"fill", "enter", "body", "exit"}
      /\ ss.stage \in {"fill", "enter"} => s.obj \notin DOMAIN log'
      /\ ss.stage = "body" => s.obj \in DOMAIN log' /\ log'[s.obj] = <<"entered">>
      /\ ss.stage = "exit" => s.obj \in DOMAIN log' /\ log'[s.obj] = <<"entered", "exited">>
  <2>1. CASE s.stage = "fill" /\ ss.stage = "enter" /\ log' = log
    BY <1>1, <2>1 DEF Logged, Grown
  <2>2. CASE s.stage = "enter" /\ ss.stage = "body" /\ Note("entered", s.obj)
    BY <1>1, <2>2, Noted DEF Logged, Grown
  <2>3. CASE s.stage = "body" /\ ss.stage = "exit" /\ Note("exited", s.obj)
    <3>1. s.obj \in DOMAIN log /\ log[s.obj] = <<"entered">>
      BY <1>1, <2>3 DEF Logged
    <3>2. log'[s.obj] = Append(log[s.obj], "exited") /\ s.obj \in DOMAIN log'
      BY <2>3, <3>1, Noted
    <3>3. Append(<<"entered">>, "exited") = <<"entered", "exited">>
      BY ThreeItems
    <3>4. log'[s.obj] = <<"entered", "exited">>
      BY <3>1, <3>2, <3>3
    <3> QED BY <1>1, <2>3, <3>2, <3>4 DEF Logged, Grown
  <2> QED BY <2>1, <2>2, <2>3
<1>4. ASSUME NEW u, NEW j, Holds(u, j)' PROVE Logged(Item(u, j))'
  <2>1. CASE u = t /\ j = n
    BY <1>3, <2>1 DEF Logged
  <2>2. CASE u # t \/ j # n
    BY <1>2, <1>4, <2>2, OtherExits
  <2> QED BY <2>1, <2>2
<1>5. ASSUME NEW v, NEW j, NEW u, NEW l, Holds(v, j)', Holds(u, l)',
             Item(v, j)'.obj = Item(u, l)'.obj
      PROVE  v = u /\ j = l
  <2>1. CASE (v # t \/ j # n) /\ (u # t \/ l # n)
    BY <1>2, <1>5, <2>1, OtherExits DEF ExitInv
  <2>2. CASE (v = t /\ j = n) \/ (u = t /\ l = n)
    BY <1>2, <1>5, <2>2, OtherExits
  <2> QED BY <2>1, <2>2
<1>6. ASSUME NEW obj \in DOMAIN log' PROVE Accounted(obj)'
  <2>1. CASE obj # s.obj
    BY <1>2, <2>1, OtherExits
  <2>2. CASE obj = s.obj
    <3>1. log'[obj] \in Histories
      BY <1>3, <2>2 DEF Histories
    <3>2. \E u, j : Holds(u, j)' /\ Item(u, j)'.obj = obj
      BY <2>2
    <3> QED BY <1>3, <2>2, <3>1, <3>2 DEF Accounted
  <2> QED BY <2>1, <2>2
<1> QED BY <1>4, <1>5, <1>6 DEF ExitInv

\* A block is left: it was not entered, or what it holds is broken.
LEMMA CloseExits ==
    ASSUME ExitInv, NEW t, NEW n, ElseHolds(t, n), Holds(t, n), ~Holds(t, n)', Grown,
           NEW s, s = Item(t, n),
           \/ s.stage \in {"fill", "enter"} /\ log' = log
           \/ s.stage = "exit" /\ Note("broken", s.obj)
    PROVE  ExitInv'
<1>1. Logged(s)
  BY DEF ExitInv
<1>2. OnlyLogs(s.obj)
  BY Noted DEF OnlyLogs
<1>3. ASSUME NEW u, NEW j, Holds(u, j)'
      PROVE  Holds(u, j) /\ Item(u, j)' = Item(u, j) /\ Logged(Item(u, j))'
  <2>1. u # t \/ j # n
    BY <1>3
  <2> QED BY <1>2, <1>3, <2>1, OtherExits
<1>4. ASSUME NEW obj \in DOMAIN log' PROVE Accounted(obj)'
  <2>1. CASE obj # s.obj
    BY <1>2, <2>1, OtherExits
  <2>2. CASE obj = s.obj
    <3>1. s.stage = "exit" /\ Note("broken", s.obj)
      BY <1>1, <2>2 DEF Logged
    <3>2. obj \in DOMAIN log /\ log[obj] = <<"entered", "exited">>
      BY <1>1, <2>2, <3>1 DEF Logged
    <3>3. log'[obj] = Append(log[obj], "broken")
      BY <2>2, <3>1, <3>2, Noted
    <3>4. Append(<<"entered", "exited">>, "broken") = <<"entered", "exited", "broken">>
      BY ThreeItems
    <3>5. log'[obj] = <<"entered", "exited", "broken">>
      BY <3>2, <3>3, <3>4
    <3> QED BY <1>1, <2>2, <3>5 DEF Accounted, Histories, Logged, Grown
  <2> QED BY <2>1, <2>2
<1> QED BY <1>3, <1>4 DEF ExitInv

\* A panic leaves everything as it is, and forgets the blocks of one task.
LEMMA PanicExits ==
    ASSUME ExitInv, log' = log, DOMAIN heap \subseteq DOMAIN heap', Panicking',
           \A u, j : Holds(u, j)' => Holds(u, j) /\ Item(u, j)' = Item(u, j)
    PROVE  ExitInv'
<1>1. ASSUME NEW u, NEW j, Holds(u, j)' PROVE Logged(Item(u, j))'
  <2>1. Logged(Item(u, j)) /\ Item(u, j)' = Item(u, j)
    BY <1>1 DEF ExitInv
  <2> QED BY <2>1 DEF Logged
<1>2. ASSUME NEW obj \in DOMAIN log' PROVE Accounted(obj)'
  BY DEF ExitInv, Accounted
<1> QED BY <1>1, <1>2 DEF ExitInv

\* What happens to the tasks, as the blocks see it.
Others(t) ==
    /\ t \in DOMAIN tasks /\ DOMAIN tasks \subseteq DOMAIN tasks'
    /\ \A u \in DOMAIN tasks \ {t} : tasks'[u] = tasks[u]
    /\ \A u \in DOMAIN tasks' \ DOMAIN tasks : \A j : ~Scope(tasks'[u].kont, j)

\* Scope blocks held by a task whose continuation keeps them, and by all other tasks, are held.
LEMMA OthersHold ==
    ASSUME NEW t, Others(t)
    PROVE  /\ SameScopes(tasks[t].kont, tasks'[t].kont) => SameHolds
           /\ \A n : SameElse(tasks[t].kont, tasks'[t].kont, n) => ElseHolds(t, n)
<1>1. ASSUME NEW u, u # t, NEW j
      PROVE  (Holds(u, j)' <=> Holds(u, j)) /\ (Holds(u, j) => Item(u, j)' = Item(u, j))
  BY <1>1 DEF Others, Holds, Item
<1>2. ASSUME SameScopes(tasks[t].kont, tasks'[t].kont), NEW j
      PROVE  (Holds(t, j)' <=> Holds(t, j)) /\ (Holds(t, j) => Item(t, j)' = Item(t, j))
  BY <1>2 DEF SameScopes, Others, Holds, Item
<1>3. ASSUME NEW n, SameElse(tasks[t].kont, tasks'[t].kont, n), NEW j, j # n
      PROVE  (Holds(t, j)' <=> Holds(t, j)) /\ (Holds(t, j) => Item(t, j)' = Item(t, j))
  BY <1>3 DEF SameElse, Others, Holds, Item
<1>4. ASSUME SameScopes(tasks[t].kont, tasks'[t].kont) PROVE SameHolds
  <2>1. ASSUME NEW u, NEW j
        PROVE  (Holds(u, j)' <=> Holds(u, j)) /\ (Holds(u, j) => Item(u, j)' = Item(u, j))
    <3>1. CASE u = t
      BY <1>2, <1>4, <3>1
    <3>2. CASE u # t
      BY <1>1, <3>2
    <3> QED BY <3>1, <3>2
  <2> QED BY <2>1 DEF SameHolds
<1>5. ASSUME NEW n, SameElse(tasks[t].kont, tasks'[t].kont, n) PROVE ElseHolds(t, n)
  <2>1. ASSUME NEW u, NEW j, u # t \/ j # n
        PROVE  (Holds(u, j)' <=> Holds(u, j)) /\ (Holds(u, j) => Item(u, j)' = Item(u, j))
    <3>1. CASE u = t
      BY <1>3, <1>5, <2>1, <3>1
    <3>2. CASE u # t
      BY <1>1, <3>2
    <3> QED BY <3>1, <3>2
  <2> QED BY <2>1 DEF ElseHolds
<1> QED BY <1>4, <1>5

\* Objects that were there are there, and panics are not taken back.
LEMMA NothingLost ==
    ASSUME Shape, World, NEW t, Others(t), tasks[t].mode[1] # "panicked"
    PROVE  Grown
<1>1. DOMAIN heap \subseteq DOMAIN heap'
  BY SeqShape DEF Shape, World, HeapMoreOK, HeapOK
<1>2. Panicking => Panicking'
  BY DEF Panicking, Others
<1> QED BY <1>1, <1>2 DEF Grown

\* A turn leaves the other tasks alone.
LEMMA TurnOthers ==
    ASSUME Shape, NEW t, Turn(t),
           \A u \in DOMAIN tasks' \ DOMAIN tasks : \A j : ~Scope(tasks'[u].kont, j)
    PROVE  Others(t) /\ tasks[t].mode[1] # "panicked"
<1>1. TaskTurn(t) /\ t \in DOMAIN tasks
  BY DEF Turn
<1>2. DOMAIN tasks \subseteq DOMAIN tasks'
  BY <1>1, SeqShape DEF TaskTurn, Shape
<1>3. tasks[t].mode[1] # "panicked"
  BY <1>1 DEF TaskTurn, Lively, Waiting
<1> QED BY <1>1, <1>2, <1>3 DEF Others, TaskTurn

\* A turn without new tasks.
LEMMA TurnExits ==
    ASSUME Shape, ExitInv, NEW t, ScopeTurn(t) \/ Enters(t) \/ Asks(t)
    PROVE  ExitInv'
<1> DEFINE k == tasks[t].kont
           kk == tasks'[t].kont
<1>1. World /\ Turn(t) /\ NoNew
  BY TurnShape DEF ScopeTurn, Steady, Enters, Asks
<1>2. DOMAIN tasks' = DOMAIN tasks /\ t \in DOMAIN tasks
  BY <1>1, SeqShape DEF NoNew, Turn, TaskTurn, Shape
<1>3. Others(t) /\ Grown
  <2>1. Others(t) /\ tasks[t].mode[1] # "panicked"
    BY <1>1, <1>2, TurnOthers
  <2> QED BY <1>1, <2>1, NothingLost
<1>4. CASE Quiet(t)
  BY <1>3, <1>4, OthersHold, SameExits DEF Quiet
<1>5. CASE Opens(t)
  <2>1. PICK n : /\ SameElse(k, kk, n) /\ ~Scope(k, n) /\ Scope(kk, n)
                 /\ kk[n].obj \in DOMAIN heap' \ DOMAIN heap /\ kk[n].stage = "fill"
                 /\ log' = log
    BY <1>5 DEF Opens
  <2>2. ElseHolds(t, n)
    BY <1>3, <2>1, OthersHold
  <2>3. Holds(t, n)' /\ ~Holds(t, n)
    BY <1>2, <2>1 DEF Holds
  <2>4. PICK s : s = Item(t, n)' /\ s = kk[n]
    BY DEF Item
  <2> HIDE DEF k, kk
  <2> QED BY <1>3, <2>1, <2>2, <2>3, <2>4, OpenExits
<1>6. CASE Moves(t)
  <2>1. PICK n : /\ SameElse(k, kk, n) /\ Scope(k, n) /\ Scope(kk, n) /\ kk[n].obj = k[n].obj
                 /\ \/ k[n].stage = "fill" /\ kk[n].stage = "enter" /\ log' = log
                    \/ k[n].stage = "enter" /\ kk[n].stage = "body" /\ Note("entered", k[n].obj)
                    \/ k[n].stage = "body" /\ kk[n].stage = "exit" /\ Note("exited", k[n].obj)
    BY <1>6 DEF Moves
  <2>2. ElseHolds(t, n)
    BY <1>3, <2>1, OthersHold
  <2>3. Holds(t, n)' /\ Holds(t, n)
    BY <1>2, <2>1 DEF Holds
  <2>4. PICK s : s = Item(t, n) /\ s = k[n]
    BY DEF Item
  <2>5. PICK ss : ss = Item(t, n)' /\ ss = kk[n]
    BY DEF Item
  <2> HIDE DEF k, kk
  <2> QED BY <1>3, <2>1, <2>2, <2>3, <2>4, <2>5, MoveExits
<1>7. CASE Closes(t)
  <2>1. PICK n : /\ SameElse(k, kk, n) /\ Scope(k, n) /\ ~Scope(kk, n)
                 /\ \/ k[n].stage \in {"fill", "enter"} /\ log' = log
                    \/ k[n].stage = "exit" /\ Note("broken", k[n].obj)
    BY <1>7 DEF Closes
  <2>2. ElseHolds(t, n)
    BY <1>3, <2>1, OthersHold
  <2>3. ~Holds(t, n)' /\ Holds(t, n)
    BY <1>2, <2>1 DEF Holds
  <2>4. PICK s : s = Item(t, n) /\ s = k[n]
    BY DEF Item
  <2> HIDE DEF k, kk
  <2> QED BY <1>3, <2>1, <2>2, <2>3, <2>4, CloseExits
<1> QED BY <1>4, <1>5, <1>6, <1>7 DEF ScopeTurn, Enters, Asks

\* New tasks have no scope blocks.
LEMMA NoScopes ==
    ASSUME NEW k, KontOK(k), \A j \in DOMAIN k : j # 1 => k[j].at \notin ScopeItems
    PROVE  \A j : ~Scope(k, j)
BY DEF KontOK, Scope, Bases, ScopeItems

\* A new task holds no scope block;
LEMMA ForkExits ==
    ASSUME Shape, ExitInv, NEW t, Calls(t) \/ Spawns(t)
    PROVE  ExitInv'
<1>1. World
  BY CallShape, SpawnShape
<1>2. PICK m, kk : Forks(t, m, kk)
  BY DEF Calls, Spawns
<1>3. Turn(t) /\ Quiet(t) /\ TaskTurn(t)
  BY <1>2 DEF Forks, Turn
<1>4. DOMAIN tasks' \ DOMAIN tasks = {Len(tasks) + 1}
  BY <1>2, <1>3, SeqShape DEF Forks, TaskTurn, Shape
<1>5. \A j : ~Scope(kk, j)
  BY <1>2, NoScopes DEF Forks, NewKont
<1>6. tasks'[Len(tasks) + 1].kont = kk
  BY <1>2 DEF Forks, NewTask
<1>7. Others(t) /\ tasks[t].mode[1] # "panicked"
  BY <1>3, <1>4, <1>5, <1>6, TurnOthers
<1>8. Grown
  BY <1>1, <1>7, NothingLost
<1> QED BY <1>3, <1>7, <1>8, OthersHold, SameExits DEF Quiet

\* a handler that starts holds none,
LEMMA StartExits == ASSUME Shape, ExitInv, NEW t, Starts(t) PROVE ExitInv'
<1>1. World /\ DOMAIN tasks' = DOMAIN tasks
  BY StartShape, SeqShape DEF Starts, Shape
<1>2. Others(t) /\ tasks[t].mode[1] # "panicked" /\ log' = log
  BY <1>1 DEF Starts, Others
<1>3. SameScopes(tasks[t].kont, tasks'[t].kont)
  BY DEF Starts, Keeps, SameScopes
<1>4. Grown
  BY <1>1, <1>2, NothingLost
<1> QED BY <1>2, <1>3, <1>4, OthersHold, SameExits

\* nor does one that is taken.
LEMMA TakeExits == ASSUME Shape, ExitInv, NEW t, Takes(t) PROVE ExitInv'
<1>1. World /\ t \in DOMAIN tasks /\ tasks[t].kont # <<>> /\ log' = log
  BY TakeShape DEF Takes
<1>2. tasks[t].mode[1] # "panicked"
  BY <1>1, Here DEF TaskOK, Over
<1>3. /\ DOMAIN tasks \subseteq DOMAIN tasks' /\ \A u \in DOMAIN tasks : tasks'[u] = tasks[u]
      /\ \A u \in DOMAIN tasks' \ DOMAIN tasks : \A j : ~Scope(tasks'[u].kont, j)
  <2>1. CASE tasks' = tasks
    BY <2>1
  <2>2. ASSUME NEW i, NEW cell, Begins(i, cell)
        PROVE  /\ DOMAIN tasks \subseteq DOMAIN tasks'
               /\ \A u \in DOMAIN tasks : tasks'[u] = tasks[u]
               /\ \A u \in DOMAIN tasks' \ DOMAIN tasks : \A j : ~Scope(tasks'[u].kont, j)
    <3>1. PICK new : new = Len(tasks) + 1
      OBVIOUS
    <3>2. Begun(new, i, cell)
      BY <2>2, <3>1, NewHandler
    <3>3. \A j : ~Scope(tasks'[new].kont, j)
      BY <3>2 DEF Scope, Begun
    <3> QED BY <3>2, <3>3 DEF Begun
  <2>3. tasks' = tasks \/ \E i, cell : Begins(i, cell)
    BY DEF Takes
  <2> QED BY <2>1, <2>2, <2>3
<1>4. Others(t) /\ tasks'[t] = tasks[t]
  BY <1>1, <1>3 DEF Others
<1>5. SameScopes(tasks[t].kont, tasks'[t].kont)
  BY <1>4 DEF SameScopes
<1>6. Grown
  BY <1>1, <1>2, <1>4, NothingLost
<1> QED BY <1>1, <1>4, <1>5, <1>6, OthersHold, SameExits

\* A task that ends properly is in no scope block any more.
LEMMA OverExits ==
    ASSUME Shape, ExitInv, NEW t,
           HandlerOver(t) \/ FutureOver(t) \/ Panics(t) \/ \E th, status : BodyOver(t, th, status)
    PROVE  ExitInv'
<1>1. World /\ log' = log
  BY OverShape DEF HandlerOver, FutureOver, Panics, BodyOver
<1>2. PICK how \in Over : Gone(t, how)
  BY DEF HandlerOver, FutureOver, Panics, BodyOver, Over
<1>3. /\ t \in DOMAIN tasks /\ tasks[t].kont # <<>> /\ DOMAIN tasks' = DOMAIN tasks
      /\ tasks'[t].kont = <<>> /\ \A u \in DOMAIN tasks \ {t} : tasks'[u] = tasks[u]
  BY <1>2, SeqShape DEF Gone, Shape
<1>4. tasks[t].mode[1] # "panicked" /\ KontOK(tasks[t].kont)
  BY <1>3, Here DEF TaskOK, Over
<1>5. Others(t)
  BY <1>3 DEF Others
<1>6. \A j : ~Scope(tasks'[t].kont, j)
  BY <1>3 DEF Scope
<1>7. CASE Panics(t)
  <2>1. Panicking'
    BY <1>3, <1>7 DEF Panics, Gone, Panicking
  <2>2. DOMAIN heap \subseteq DOMAIN heap'
    BY <1>1, SeqShape DEF Shape, World, HeapMoreOK, HeapOK
  <2>3. ASSUME NEW u, NEW j, Holds(u, j)' PROVE Holds(u, j) /\ Item(u, j)' = Item(u, j)
    BY <1>3, <1>6, <2>3 DEF Holds, Item
  <2> QED BY <1>1, <2>1, <2>2, <2>3, PanicExits
<1>8. CASE HandlerOver(t) \/ FutureOver(t) \/ \E th, status : BodyOver(t, th, status)
  <2>1. Len(tasks[t].kont) = 1
    BY <1>8 DEF HandlerOver, FutureOver, BodyOver
  <2>2. DOMAIN tasks[t].kont = {1}
    BY <1>4, <2>1, SeqShape DEF KontOK
  <2>3. \A j : ~Scope(tasks[t].kont, j)
    BY <1>4, <2>2, NoScopes
  <2>4. SameScopes(tasks[t].kont, tasks'[t].kont)
    BY <1>6, <2>3 DEF SameScopes
  <2>5. Grown
    BY <1>1, <1>4, <1>5, NothingLost
  <2> QED BY <1>1, <1>5, <2>4, <2>5, OthersHold, SameExits
<1> QED BY <1>7, <1>8

\* An idle executor changes nothing.
LEMMA IdleExits == ASSUME ExitInv, Idle PROVE ExitInv'
<1>1. SameHolds /\ log' = log /\ Grown
  BY DEF Idle, SameHolds, Holds, Item, Grown, Panicking
<1> QED BY <1>1, SameExits

\* Every step keeps the histories in order,
LEMMA StepExits == ASSUME Shape, ExitInv, Step PROVE ExitInv'
BY IdleExits, TurnExits, ForkExits, StartExits, TakeExits, OverExits DEF Step, StepOf

\* and there are none at first.
LEMMA BootExits == ASSUME Boot PROVE ExitInv
<1>1. PICK p \in Programs : Start(p)
  BY DEF Boot
<1> DEFINE x == [at |-> "top", rest |-> p.main]
           k == <<x>>
<1>2. tasks = <<NewTask(1, Done, k)>> /\ log = EmptyScope
  BY <1>1 DEF Start
<1>3. \A j : ~Scope(k, j)
  <2>1. DOMAIN k = {1} /\ k[1] = x /\ x.at = "top"
    OBVIOUS
  <2> HIDE DEF k, x
  <2> QED BY <2>1 DEF Scope
<1> HIDE DEF k
<1>4. DOMAIN tasks = {1} /\ tasks[1].kont = k
  BY <1>2 DEF NewTask
<1>5. DOMAIN log = {}
  BY <1>2 DEF EmptyScope
<1> QED BY <1>3, <1>4, <1>5 DEF ExitInv, Holds

\* A scope block that was entered is left through its exit hook, and then breaks
\* what it holds, once each and in that order, in every run of every program that
\* no Rust panic cuts off.
THEOREM ScopesExit == Interpreter => []ExitHooks
<1>1. ExitInv /\ Shape /\ [Run]_<<program, machine>> => ExitInv'
  BY NextStep, StepExits
<1>2. ExitInv => ExitHooks
  BY ExitsHook
<1> QED BY <1>1, <1>2, BootExits, WellFormed, PTL DEF Interpreter

-----------------------------------------------------------------------------
(* The scopes and frames of an interpreter state, counted over its tasks.    *)

\* The live tasks of an interpreter state, their items of certain kinds, and
\* those of all of them but t; ts are the tasks.
Idlers == Over \cup {"handle", "refused"}
LiveOf(ts, i) == {u \in DOMAIN ts : ts[u].in = i /\ ts[u].mode[1] \notin Idlers}
Marks(ts, u, ats) == {<<u, k>> : k \in Places(ts[u].kont, ats)}
ItemsOf(ts, U, ats) == UNION {Marks(ts, u, ats) : u \in U}
Count(ts, i, ats) == Cardinality(ItemsOf(ts, LiveOf(ts, i), ats))
Share(ts, t, i, ats) == IF t \in LiveOf(ts, i) THEN N(ts[t].kont, ats) ELSE 0
Konts(ts) == IsSeq(ts) /\ \A u \in DOMAIN ts : IsSeq(ts[u].kont)

\* The items of one task, as a set, are as many as N counts.
LEMMA MarksCount ==
    ASSUME NEW ts, Konts(ts), NEW u \in DOMAIN ts, NEW ats
    PROVE  IsFiniteSet(Marks(ts, u, ats)) /\ Cardinality(Marks(ts, u, ats)) = N(ts[u].kont, ats)
<1> DEFINE P == Places(ts[u].kont, ats)
<1>1. IsFiniteSet(P) /\ Cardinality(P) \in Nat
  BY PlacesFinite DEF Konts, N
<1>2. Marks(ts, u, ats) = {u} \X P
  BY DEF Marks
<1>3. IsFiniteSet({u}) /\ Cardinality({u}) = 1
  BY FS_Singleton
<1> HIDE DEF P
<1>4. IsFiniteSet({u} \X P) /\ Cardinality({u} \X P) = 1 * Cardinality(P)
  BY <1>1, <1>3, FS_Product
<1> QED BY <1>1, <1>2, <1>4 DEF N, P

\* So are those of several tasks: finitely many.
LEMMA ItemsFinite ==
    ASSUME NEW ts, Konts(ts), NEW U \in SUBSET DOMAIN ts, NEW ats
    PROVE  IsFiniteSet(ItemsOf(ts, U, ats)) /\ Cardinality(ItemsOf(ts, U, ats)) \in Nat
<1> DEFINE F == {Marks(ts, u, ats) : u \in U}
           f == [u \in U |-> Marks(ts, u, ats)]
<1>1. Len(ts) \in Nat /\ DOMAIN ts = 1..Len(ts)
  BY SeqShape DEF Konts
<1>2. IsFiniteSet(1..Len(ts))
  BY <1>1, FS_Interval
<1>3. IsFiniteSet(U)
  BY <1>1, <1>2, FS_Subset
<1>4. f \in Surjection(U, F)
  BY DEF Surjection
<1> HIDE DEF f
<1>5. IsFiniteSet(F)
  <2> HIDE DEF F
  <2> QED BY <1>3, <1>4, FS_Surjection
<1>6. \A G \in F : IsFiniteSet(G)
  BY MarksCount
<1> HIDE DEF F
<1>7. IsFiniteSet(UNION F)
  BY <1>5, <1>6, FS_UNION
<1> QED BY <1>7, FS_CardinalityType DEF ItemsOf, F

\* The items of one task, and those of the others.
LEMMA ItemsSplit ==
    ASSUME NEW ts, Konts(ts), NEW t, NEW i, NEW ats
    PROVE  /\ Count(ts, i, ats) = Cardinality(ItemsOf(ts, LiveOf(ts, i) \ {t}, ats)) + Share(ts, t, i, ats)
           /\ Cardinality(ItemsOf(ts, LiveOf(ts, i) \ {t}, ats)) \in Nat
           /\ Share(ts, t, i, ats) \in Nat
<1> DEFINE L == LiveOf(ts, i)
           A == ItemsOf(ts, L \ {t}, ats)
           B == Marks(ts, t, ats)
<1>1. L \subseteq DOMAIN ts
  BY DEF LiveOf
<1>2. IsFiniteSet(A) /\ Cardinality(A) \in Nat
  <2> HIDE DEF L
  <2>1. L \ {t} \in SUBSET DOMAIN ts
    BY <1>1
  <2> QED BY <2>1, ItemsFinite
<1>3. CASE t \in L
  <2>1. IsFiniteSet(B) /\ Cardinality(B) = N(ts[t].kont, ats) /\ N(ts[t].kont, ats) \in Nat
    BY <1>1, <1>3, MarksCount, PlacesFinite DEF Konts
  <2>2. ItemsOf(ts, L, ats) = A \cup B
    <3> HIDE DEF L
    <3> QED BY <1>3 DEF ItemsOf
  <2>3. A \cap B = {}
    <3>1. ASSUME NEW x \in A, x \in B PROVE FALSE
      <4>1. PICK u \in L \ {t} : x \in Marks(ts, u, ats)
        BY <3>1 DEF ItemsOf
      <4>2. PICK k : x = <<u, k>>
        BY <4>1 DEF Marks
      <4>3. PICK l : x = <<t, l>>
        BY <3>1 DEF Marks
      <4> QED BY <4>1, <4>2, <4>3
    <3> QED BY <3>1
  <2>4. Cardinality(A \cap B) = 0
    BY <2>3, FS_EmptySet
  <2> HIDE DEF A, B
  <2>5. Cardinality(A \cup B) = Cardinality(A) + Cardinality(B) - Cardinality(A \cap B)
    BY <1>2, <2>1, FS_Union
  <2>6. Cardinality(A \cup B) = Cardinality(A) + Cardinality(B)
    BY <1>2, <2>1, <2>4, <2>5
  <2> QED BY <1>2, <1>3, <2>1, <2>2, <2>6 DEF Count, Share, A
<1>4. CASE t \notin L
  <2>1. L \ {t} = L
    BY <1>4
  <2>2. Count(ts, i, ats) = Cardinality(A) /\ Share(ts, t, i, ats) = 0
    BY <1>4, <2>1 DEF Count, Share
  <2> HIDE DEF A
  <2> QED BY <1>2, <2>2 DEF A
<1> QED BY <1>3, <1>4

\* When only task t changes, the count changes with it.
SameRest(ts, tt, t, i) ==
    \A u : u # t => /\ u \in LiveOf(tt, i) <=> u \in LiveOf(ts, i)
                    /\ u \in LiveOf(ts, i) => tt[u].kont = ts[u].kont
\* When one task changes, a count changes by that task's share.
LEMMA Recount ==
    ASSUME NEW ts, NEW tt, Konts(ts), Konts(tt), NEW t, NEW i, SameRest(ts, tt, t, i), NEW ats
    PROVE  /\ Count(tt, i, ats) + Share(ts, t, i, ats) = Count(ts, i, ats) + Share(tt, t, i, ats)
           /\ Count(ts, i, ats) \in Nat /\ Count(tt, i, ats) \in Nat
           /\ Share(ts, t, i, ats) \in Nat /\ Share(tt, t, i, ats) \in Nat
           /\ Count(ts, i, ats) >= Share(ts, t, i, ats)
<1> DEFINE A == ItemsOf(ts, LiveOf(ts, i) \ {t}, ats)
           B == ItemsOf(tt, LiveOf(tt, i) \ {t}, ats)
<1>1. LiveOf(ts, i) \ {t} = LiveOf(tt, i) \ {t}
  BY DEF SameRest
<1>2. A = B
  <2>1. \A u \in LiveOf(ts, i) \ {t} : Marks(ts, u, ats) = Marks(tt, u, ats)
    BY DEF SameRest, Marks
  <2>2. A \subseteq B /\ B \subseteq A
    BY <1>1, <2>1 DEF ItemsOf
  <2> QED BY <2>2
<1>3. /\ Count(ts, i, ats) = Cardinality(A) + Share(ts, t, i, ats)
      /\ Cardinality(A) \in Nat /\ Share(ts, t, i, ats) \in Nat
      /\ Count(tt, i, ats) = Cardinality(B) + Share(tt, t, i, ats)
      /\ Share(tt, t, i, ats) \in Nat
  BY ItemsSplit
<1> HIDE DEF A, B, Count, Share
<1> QED BY <1>2, <1>3

-----------------------------------------------------------------------------
(* The stacks are as high as the tasks that share them have made them.       *)

Staffed(i) == \E t \in Alive : tasks[t].in = i
Heights(i) ==
    LET scopes == 1 + Count(tasks, i, ScopeItems)
        calls == Count(tasks, i, CallItems)
    IN  /\ Len(interps[i].env) >= scopes
        /\ Len(interps[i].frames) >= calls
        /\ Staffed(i) => Len(interps[i].env) = scopes \/ Erred(i)
        /\ Len(interps[i].frames) = calls \/ Panicked(i)

\* Only a body and its handlers share an interpreter state, and each thread has
\* one body.
Alone ==
    \A t, u \in Alive : t # u =>
       /\ tasks[t].in = tasks[u].in => tasks[t].kont[1].at \in {"thread", "handler"}
       /\ tasks[t].kont[1].at = "thread" /\ tasks[u].kont[1].at = "thread" =>
             interps[tasks[t].in].thread # interps[tasks[u].in].thread

\* While its body goes on, a thread is running.
Looping ==
    \A t \in Alive : tasks[t].kont[1].at = "thread" =>
       threads[interps[tasks[t].in].thread].status = "Running"
StackInv == (\A i \in DOMAIN interps : Heights(i)) /\ Alone /\ Looping

\* The shape gives what counting needs.
LEMMA ShapeKonts == ASSUME Shape PROVE Konts(tasks)
BY DEF Shape, Konts, TaskOK, KontOK

\* The invariant implies the property,
LEMMA StacksDisciplined == ASSUME Shape, StackInv PROVE StackDiscipline
<1>1. ASSUME NEW i \in DOMAIN interps, Live(i) # {}
      PROVE  /\ Staffed(i)
             /\ Items(i, ScopeItems) = ItemsOf(tasks, LiveOf(tasks, i), ScopeItems)
             /\ Items(i, CallItems) = ItemsOf(tasks, LiveOf(tasks, i), CallItems)
  <2>1. PICK t \in Live(i) : TRUE
    BY <1>1
  <2>2. t \in DOMAIN tasks /\ tasks[t].in = i /\ tasks[t].mode[1] \notin Over
    BY <2>1 DEF Live
  <2>3. tasks[t].kont # <<>>
    BY <2>2, Here DEF TaskOK
  <2>4. Staffed(i)
    BY <2>2, <2>3 DEF Staffed, Alive
  <2> QED BY <2>4 DEF Items, ItemsOf, Live, LiveOf, Idlers, Marks, Places
<1>2. ASSUME NEW i \in DOMAIN interps, Live(i) # {}
      PROVE  LET scopes == 1 + Cardinality(Items(i, ScopeItems))
                 calls == Cardinality(Items(i, CallItems))
             IN  /\ Len(interps[i].env) >= scopes
                 /\ Len(interps[i].env) = scopes \/ Erred(i)
                 /\ Len(interps[i].frames) = calls \/ Panicked(i)
  BY <1>1, <1>2 DEF StackInv, Heights, Count
<1> QED BY <1>2 DEF StackDiscipline

\* and the type invariant, with the shape.
LEMMA TypesOK == ASSUME Shape, StackInv PROVE TypeOK
<1>1. running # 0 => running \in DOMAIN tasks /\ Kind \notin Over
  BY Runs, Here DEF TaskOK, Kind, Mode, T
<1>2. \A t \in DOMAIN tasks : tasks[t].mode[1] \in Modes /\ tasks[t].in \in DOMAIN interps
  BY Here DEF TaskOK, Modes, Lively
<1>3. ASSUME NEW i \in DOMAIN interps
      PROVE  /\ interps[i].thread \in 0..Len(threads) /\ interps[i].self \in 0..Len(heap)
             /\ Len(interps[i].env) >= 1
  <2>1. Len(interps[i].env) >= 1 + Count(tasks, i, ScopeItems)
    BY DEF StackInv, Heights
  <2>2. Count(tasks, i, ScopeItems) \in Nat
    <3>1. LiveOf(tasks, i) \in SUBSET DOMAIN tasks
      BY DEF LiveOf
    <3> QED BY <3>1, ShapeKonts, ItemsFinite DEF Count
  <2>3. InterpOK(interps[i]) /\ Len(interps[i].env) \in Nat
    BY SeqShape DEF Shape, InterpOK
  <2> HIDE DEF Count
  <2> QED BY <2>1, <2>2, <2>3 DEF InterpOK
<1>4. \A th \in DOMAIN threads : threads[th].status \in {"Running", "Terminated", "Crashed"}
  BY DEF Shape, ThreadOK, Statuses
<1>5. running \in 0..Len(tasks)
  BY DEF Shape
<1> QED BY <1>1, <1>2, <1>3, <1>4, <1>5 DEF TypeOK

\* The tasks other than t are what they were; who is new does nothing yet, or
\* not with interpreter state i.
Steadfast(t) == \A u \in DOMAIN tasks \ {t} : u \in DOMAIN tasks' /\ tasks'[u] = tasks[u]
Newcomers(t, i) ==
    \A u \in DOMAIN tasks' \ DOMAIN tasks :
       u = t \/ tasks'[u].in # i \/ tasks'[u].mode[1] \in Idlers

\* A step of one task leaves the others' shares.
LEMMA RestSame ==
    ASSUME NEW t, NEW i, Steadfast(t), Newcomers(t, i)
    PROVE  SameRest(tasks, tasks', t, i)
BY DEF Steadfast, Newcomers, SameRest, LiveOf

\* Errors and panics are remembered.
CrashesKept ==
    \A th \in DOMAIN threads : threads[th].status = "Crashed" => threads'[th].status = "Crashed"
\* An interpreter that has seen an error or a panic has seen it.
LEMMA ErredKept ==
    ASSUME Shape, World, NEW t, Steadfast(t), CrashesKept, NEW i \in DOMAIN interps,
           interps[i].caught => interps'[i].caught,
           t \in DOMAIN tasks => tasks[t].mode[1] # "panicked",
           t \in DOMAIN tasks /\ tasks[t].in = i /\ ErrIn(tasks[t]) => Erred(i)'
    PROVE  (Erred(i) => Erred(i)') /\ (Panicked(i) => Panicked(i)')
<1>1. ASSUME NEW u \in DOMAIN tasks, tasks[u].in = i,
             ErrIn(tasks[u]) \/ tasks[u].mode[1] = "panicked"
      PROVE  Erred(i)'
  <2>1. CASE u = t
    BY <1>1, <2>1
  <2>2. CASE u # t
    <3>1. u \in DOMAIN tasks' /\ tasks'[u] = tasks[u]
      BY <2>2 DEF Steadfast
    <3> QED BY <1>1, <3>1 DEF Erred, ErrIn, BodyErred
  <2> QED BY <2>1, <2>2
<1>2. interps[i].caught => Erred(i)'
  BY DEF Erred
<1>3. ASSUME interps[i].thread # 0, threads[interps[i].thread].status = "Crashed"
      PROVE  Erred(i)'
  <2>1. interps[i].thread \in DOMAIN threads
    BY <1>3, SeqShape DEF Shape, InterpOK
  <2>2. interps'[i].thread = interps[i].thread
    BY InterpsFit
  <2> QED BY <1>3, <2>1, <2>2 DEF CrashesKept, Erred
<1>4. Erred(i) => Erred(i)'
  BY <1>1, <1>2, <1>3 DEF Erred, ErrIn, BodyErred
<1>5. Panicked(i) => Panicked(i)'
  BY DEF Panicked, Steadfast
<1> QED BY <1>4, <1>5

\* Whoever goes on keeps its part, and its thread keeps running.
LEMMA RolesStay ==
    ASSUME Shape, World, StackInv,
           \A u \in Alive' : u \in Alive /\ Continues(u),
           \A u \in Alive' : tasks[u].kont[1].at = "thread" =>
              threads'[interps[tasks[u].in].thread].status = threads[interps[tasks[u].in].thread].status
    PROVE  Alone' /\ Looping'
<1>1. ASSUME NEW u \in Alive'
      PROVE  /\ u \in Alive /\ tasks'[u].in = tasks[u].in
             /\ tasks'[u].kont[1].at = tasks[u].kont[1].at
             /\ interps'[tasks'[u].in].thread = interps[tasks[u].in].thread
  <2>1. u \in Alive /\ Continues(u) /\ u \in DOMAIN tasks
    BY DEF Alive
  <2>2. tasks[u].in \in DOMAIN interps
    BY <2>1, Here
  <2> QED BY <2>1, <2>2, InterpsFit DEF Continues, Forward
<1>2. Alone'
  <2>1. ASSUME NEW t \in Alive', NEW u \in Alive', t # u
        PROVE  /\ tasks'[t].in = tasks'[u].in => tasks'[t].kont[1].at \in {"thread", "handler"}
               /\ tasks'[t].kont[1].at = "thread" /\ tasks'[u].kont[1].at = "thread" =>
                     interps'[tasks'[t].in].thread # interps'[tasks'[u].in].thread
    BY <1>1, <2>1 DEF StackInv, Alone
  <2> QED BY <2>1 DEF Alone
<1>3. Looping'
  <2>1. ASSUME NEW t \in Alive', tasks'[t].kont[1].at = "thread"
        PROVE  threads'[interps'[tasks'[t].in].thread].status = "Running"
    BY <1>1, <2>1 DEF StackInv, Looping
  <2> QED BY <2>1 DEF Looping
<1> QED BY <1>2, <1>3

\* Counting needs the shape in the next state, too.
LEMMA NextKonts == ASSUME Shape' PROVE Konts(tasks')
BY DEF Shape, Konts, TaskOK, KontOK

\* An interpreter state that the step does not work on.
LEMMA OtherHeights ==
    ASSUME Shape, World, Shape', StackInv, NEW t, Steadfast(t), CrashesKept,
           NEW j \in DOMAIN interps, interps'[j] = interps[j], Newcomers(t, j),
           t \in DOMAIN tasks => tasks[t].mode[1] # "panicked",
           t \in DOMAIN tasks => tasks[t].in # j \/ (t \notin LiveOf(tasks, j) /\ ~ErrIn(tasks[t])),
           t \notin LiveOf(tasks', j), Staffed(j)' => Staffed(j)
    PROVE  Heights(j)'
<1>1. SameRest(tasks, tasks', t, j) /\ Konts(tasks) /\ Konts(tasks')
  BY RestSame, ShapeKonts, NextKonts
<1>2. t \notin LiveOf(tasks, j)
  BY DEF LiveOf
<1>3. \A ats : Share(tasks, t, j, ats) = 0 /\ Share(tasks', t, j, ats) = 0
  BY <1>2 DEF Share
<1>4. \A ats : Count(tasks', j, ats) = Count(tasks, j, ats)
  <2>1. ASSUME NEW ats PROVE Count(tasks', j, ats) = Count(tasks, j, ats)
    <3>1. /\ Count(tasks', j, ats) + Share(tasks, t, j, ats) = Count(tasks, j, ats) + Share(tasks', t, j, ats)
          /\ Count(tasks, j, ats) \in Nat /\ Count(tasks', j, ats) \in Nat
      BY <1>1, Recount
    <3>2. Share(tasks, t, j, ats) = 0 /\ Share(tasks', t, j, ats) = 0
      BY <1>3
    <3> HIDE DEF Count, Share
    <3> QED BY <3>1, <3>2
  <2> QED BY <2>1
<1>5. (Erred(j) => Erred(j)') /\ (Panicked(j) => Panicked(j)')
  BY ErredKept
<1>6. Heights(j)
  BY DEF StackInv
<1> HIDE DEF Count
<1> QED BY <1>4, <1>5, <1>6 DEF Heights

\* The interpreter state that a turn works on.
LEMMA TurnHeights ==
    ASSUME Shape, World, Shape', StackInv, NEW t, Turn(t), CrashesKept,
           NEW i, i = tasks[t].in, Newcomers(t, i)
    PROVE  Heights(i)'
<1> DEFINE k == tasks[t].kont
           kk == tasks'[t].kont
<1>1. /\ t \in DOMAIN tasks /\ t \in DOMAIN tasks' /\ i \in DOMAIN interps /\ Steadfast(t)
      /\ tasks'[t].in = i /\ tasks[t].mode[1] \in Lively /\ tasks'[t].mode[1] \in Lively
      /\ k # <<>> /\ InterpTurn(i) /\ IsSeq(kk)
  <2>1. t \in DOMAIN tasks /\ TaskTurn(t) /\ InterpTurn(i)
    BY DEF Turn
  <2>2. DOMAIN tasks \subseteq DOMAIN tasks'
    BY <2>1, SeqShape DEF Shape, TaskTurn
  <2> QED BY <2>1, <2>2, Here DEF TaskTurn, Steadfast, Forward, KontOK
<1>2. t \in LiveOf(tasks, i) /\ t \in LiveOf(tasks', i) /\ tasks[t].mode[1] # "panicked"
  BY <1>1 DEF LiveOf, Idlers, Lively, Waiting, Over
<1>3. Konts(tasks) /\ Konts(tasks') /\ SameRest(tasks, tasks', t, i)
  BY <1>1, ShapeKonts, NextKonts, RestSame
<1>4. ASSUME NEW ats
      PROVE  /\ Count(tasks', i, ats) + N(k, ats) = Count(tasks, i, ats) + N(kk, ats)
             /\ Count(tasks, i, ats) >= N(k, ats) /\ N(k, ats) \in Nat /\ N(kk, ats) \in Nat
             /\ Count(tasks, i, ats) \in Nat /\ Count(tasks', i, ats) \in Nat
  <2>1. Share(tasks, t, i, ats) = N(k, ats) /\ Share(tasks', t, i, ats) = N(kk, ats)
    BY <1>2 DEF Share
  <2> HIDE DEF k, kk
  <2> QED BY <1>3, <2>1, Recount
<1>5. (Erred(i) => Erred(i)') /\ (Panicked(i) => Panicked(i)')
  <2>1. ErrIn(tasks[t]) => Erred(i)'
    BY <1>1 DEF Turn, ErrTurn, ErrIn, BodyErred, Erred
  <2>2. interps[i].caught => interps'[i].caught
    BY <1>1 DEF InterpTurn
  <2> QED BY <1>1, <1>2, <2>1, <2>2, ErredKept
<1>6. tasks'[t].mode[1] = "err" => Erred(i)'
  BY <1>1 DEF Erred
<1>7. Staffed(i) /\ Heights(i)
  BY <1>1 DEF Staffed, Alive, StackInv
<1> DEFINE c == Count(tasks, i, ScopeItems)
           cc == Count(tasks', i, ScopeItems)
           s == N(k, ScopeItems)
           ss == N(kk, ScopeItems)
           d == Count(tasks, i, CallItems)
           dd == Count(tasks', i, CallItems)
           n == N(k, CallItems)
           nn == N(kk, CallItems)
           e == Len(interps[i].env)
           ee == Len(interps'[i].env)
           f == Len(interps[i].frames)
           ff == Len(interps'[i].frames)
<1>8. /\ cc + s = c + ss /\ c >= s /\ s \in Nat /\ ss \in Nat /\ c \in Nat /\ cc \in Nat
      /\ dd + n = d + nn /\ d >= n /\ n \in Nat /\ nn \in Nat /\ d \in Nat /\ dd \in Nat
  BY <1>4
<1>9. e \in Nat /\ ee \in Nat /\ f \in Nat /\ ff \in Nat
  BY <1>1, Here, SeqShape DEF InterpTurn
<1>10. /\ e >= 1 + c /\ f >= d /\ (e = 1 + c \/ Erred(i)) /\ (f = d \/ Panicked(i))
  BY <1>7 DEF Heights
<1>11. e >= 1 + s /\ f >= n
  <2> HIDE DEF e, f, c, d, s, n
  <2> QED BY <1>8, <1>9, <1>10
<1>12. /\ ee + s = e + ss \/ (tasks'[t].mode[1] = "err" /\ ee + s >= e + ss)
       /\ ff + n = f + nn
  <2>1. Room(t)
    BY <1>11 DEF Room
  <2>2. Balance(t)
    BY <2>1 DEF Turn
  <2> QED BY <2>2 DEF Balance, ScopesGrow, ScopesStay, FramesGrow
<1>13. /\ ee >= 1 + cc /\ ff >= dd /\ (ee = 1 + cc \/ Erred(i)') /\ (ff = dd \/ Panicked(i)')
  <2>1. (Erred(i) => Erred(i)') /\ (Panicked(i) => Panicked(i)')
    BY <1>5
  <2> HIDE DEF e, ee, f, ff, c, cc, d, dd, s, ss, n, nn
  <2>2. ee >= 1 + cc /\ ff >= dd /\ (f = d => ff = dd)
    BY <1>8, <1>9, <1>10, <1>12
  <2>3. e = 1 + c /\ ee + s = e + ss => ee = 1 + cc
    BY <1>8, <1>9
  <2> QED BY <1>6, <1>10, <1>12, <2>1, <2>2, <2>3
<1> HIDE DEF Count
<1> QED BY <1>13 DEF Heights

\* A body has a thread.
LEMMA BodyThread ==
    ASSUME Shape, NEW u \in Alive, tasks[u].kont[1].at = "thread"
    PROVE  interps[tasks[u].in].thread \in DOMAIN threads
<1>1. u \in DOMAIN tasks /\ tasks[u].kont # <<>>
  BY DEF Alive
<1>2. interps[tasks[u].in].thread # 0 /\ InterpOK(interps[tasks[u].in])
  BY <1>1, Here DEF TaskOK
<1>3. DOMAIN threads = 1..Len(threads) /\ Len(threads) \in Nat
  BY SeqShape DEF Shape
<1>4. PICK th : th = interps[tasks[u].in].thread
  OBVIOUS
<1>5. th \in 0..Len(threads) /\ th # 0
  BY <1>2, <1>4 DEF InterpOK
<1> QED BY <1>3, <1>4, <1>5

\* Steps in which nobody begins and no thread changes its status.
NoBirths == \A u \in Alive' : u \in Alive /\ Continues(u)
StatusKept == \A th \in DOMAIN threads : threads'[th].status = threads[th].status

\* An interpreter without tasks gets none unless a task is born.
LEMMA NobodyNew == ASSUME NoBirths, NEW i PROVE Staffed(i)' => Staffed(i)
BY DEF NoBirths, Staffed, Alive, Continues

\* Turns keep the stacks in step;
LEMMA TurnStacks ==
    ASSUME Shape, StackInv, NEW t, ScopeTurn(t) \/ Enters(t) \/ Asks(t)
    PROVE  StackInv'
<1>1. World /\ Shape' /\ Turn(t) /\ NoNew
  BY TurnShape DEF ScopeTurn, Steady, Enters, Asks
<1>2. /\ t \in DOMAIN tasks /\ TaskTurn(t) /\ InterpTurn(tasks[t].in)
      /\ DOMAIN tasks' = DOMAIN tasks /\ DOMAIN interps' = DOMAIN interps
  BY <1>1, SeqShape DEF Turn, TaskTurn, NoNew, Shape
<1>3. NoBirths /\ Steadfast(t)
  <2>1. Persist({})
    BY <1>1, TurnContinues
  <2>2. Alive' \subseteq Alive
    BY <1>2 DEF Alive, TaskTurn, Forward
  <2> QED BY <1>2, <2>1, <2>2 DEF NoBirths, Persist, Steadfast, TaskTurn
<1>4. StatusKept
  <2>1. CASE ThreadsKept \/ ReadyNow
    BY <2>1 DEF StatusKept, ThreadsKept, ThreadKept, ReadyNow
  <2>2. CASE threads' = threads
    BY <2>2 DEF StatusKept
  <2>3. CASE \E th \in DOMAIN threads : \E r : threads' = [threads EXCEPT ![th].queue = Append(@, r)]
    <3>0. PICK th \in DOMAIN threads :
                 \E r : threads' = [threads EXCEPT ![th].queue = Append(@, r)]
      BY <2>3
    <3>1. PICK r : threads' = [threads EXCEPT ![th].queue = Append(@, r)]
      BY <3>0
    <3> DEFINE s == [threads[th] EXCEPT !.queue = Append(threads[th].queue, r)]
    <3>2. threads' = [threads EXCEPT ![th] = s]
      BY <3>1
    <3>3. s.status = threads[th].status
      BY DEF Shape, ThreadOK, ThreadRecord
    <3> HIDE DEF s
    <3> QED BY <3>2, <3>3 DEF StatusKept
  <2> QED BY <2>1, <2>2, <2>3 DEF ScopeTurn, Steady, Enters, Asks, Dispatched
<1>5. CrashesKept
  BY <1>4 DEF StatusKept, CrashesKept
<1>6. \A i \in DOMAIN interps : Newcomers(t, i)
  BY <1>2 DEF Newcomers
<1>7. ASSUME NEW i \in DOMAIN interps' PROVE Heights(i)'
  <2>1. CASE i = tasks[t].in
    BY <1>1, <1>2, <1>5, <1>6, <1>7, <2>1, TurnHeights
  <2>2. CASE i # tasks[t].in
    <3>1. interps'[i] = interps[i]
      BY <1>2, <2>2 DEF InterpTurn
    <3>2. t \notin LiveOf(tasks', i)
      BY <1>2, <2>2 DEF LiveOf, TaskTurn
    <3>3. tasks[t].mode[1] # "panicked"
      BY <1>2 DEF TaskTurn, Lively, Waiting
    <3>4. Staffed(i)' => Staffed(i)
      BY <1>3, NobodyNew
    <3> QED BY <1>1, <1>2, <1>3, <1>5, <1>6, <2>2, <3>1, <3>2, <3>3, <3>4, OtherHeights
  <2> QED BY <2>1, <2>2
<1>8. Alone' /\ Looping'
  BY <1>1, <1>3, <1>4, BodyThread, RolesStay DEF NoBirths, StatusKept
<1> QED BY <1>7, <1>8 DEF StackInv

\* A task with an interpreter state of its own begins with one scope and no
\* frame.
LEMMA ForkStacks ==
    ASSUME Shape, World, Shape', StackInv, NEW t, NEW m, NEW kk, Forks(t, m, kk), StatusKept,
           kk[1].at # "thread" \/
              LET th == interps'[Len(interps) + 1].thread
              IN  th \notin DOMAIN threads /\ threads'[th].status = "Running"
    PROVE  StackInv'
<1>1. PICK ni : ni = Len(interps) + 1
  OBVIOUS
<1>2. PICK nt : nt = Len(tasks) + 1
  OBVIOUS
<1>3. /\ Turn(t) /\ t \in DOMAIN tasks /\ TaskTurn(t) /\ InterpTurn(tasks[t].in)
      /\ Len(tasks') = nt /\ Len(interps') = ni /\ tasks'[nt] = NewTask(ni, m, kk)
      /\ NewState(interps'[ni]) /\ m[1] \in Lively /\ NewKont(kk)
      /\ tasks[t].in \in DOMAIN interps
  BY <1>1, <1>2, Here DEF Forks, Turn
<1>4. /\ DOMAIN tasks' = DOMAIN tasks \cup {nt} /\ nt \notin DOMAIN tasks
      /\ DOMAIN interps' = DOMAIN interps \cup {ni} /\ ni \notin DOMAIN interps
  <2>1. /\ DOMAIN tasks = 1..Len(tasks) /\ Len(tasks) \in Nat
        /\ DOMAIN interps = 1..Len(interps) /\ Len(interps) \in Nat
    BY SeqShape DEF Shape
  <2>2. DOMAIN tasks' = 1..Len(tasks') /\ DOMAIN interps' = 1..Len(interps')
    BY <1>3, SeqShape DEF TaskTurn, InterpTurn
  <2> QED BY <1>1, <1>2, <1>3, <2>1, <2>2
<1>5. tasks'[nt].in = ni /\ tasks'[nt].mode = m /\ tasks'[nt].kont = kk /\ kk # <<>>
  BY <1>3 DEF NewTask, NewKont
<1>6. /\ Steadfast(t) /\ CrashesKept
      /\ \A i \in DOMAIN interps : Newcomers(t, i)
  BY <1>3, <1>4, <1>5 DEF Steadfast, Newcomers, TaskTurn, StatusKept, CrashesKept
<1>7. ASSUME NEW u \in Alive', u # nt
      PROVE  /\ u \in Alive /\ u \in DOMAIN tasks /\ tasks'[u].in = tasks[u].in
             /\ tasks[u].in \in DOMAIN interps
             /\ tasks'[u].kont[1].at = tasks[u].kont[1].at
             /\ interps'[tasks[u].in].thread = interps[tasks[u].in].thread
  <2>1. u \in Alive /\ u \in DOMAIN tasks
    BY <1>3, <1>4, <1>7 DEF Alive, TaskTurn, Forward
  <2>2. Continues(u)
    BY <1>3, <2>1, TurnContinues DEF Persist
  <2>3. tasks[u].in \in DOMAIN interps
    BY <2>1, Here
  <2> QED BY <2>1, <2>2, <2>3, InterpsFit DEF Continues, Forward
<1>8. ASSUME NEW u \in Alive', u # nt, tasks'[u].kont[1].at = "thread"
      PROVE  /\ interps'[tasks'[u].in].thread \in DOMAIN threads
             /\ threads'[interps'[tasks'[u].in].thread].status = "Running"
  BY <1>7, <1>8, BodyThread DEF StackInv, Looping, StatusKept
<1>9. tasks'[nt].kont[1].at = "thread" =>
         /\ interps'[tasks'[nt].in].thread \notin DOMAIN threads
         /\ threads'[interps'[tasks'[nt].in].thread].status = "Running"
  BY <1>1, <1>5
<1>10. Looping'
  BY <1>8, <1>9 DEF Looping
<1>11. Alone'
  <2>1. ASSUME NEW v \in Alive', NEW u \in Alive', v # u
        PROVE  /\ tasks'[v].in = tasks'[u].in => tasks'[v].kont[1].at \in {"thread", "handler"}
               /\ tasks'[v].kont[1].at = "thread" /\ tasks'[u].kont[1].at = "thread" =>
                     interps'[tasks'[v].in].thread # interps'[tasks'[u].in].thread
    <3>1. CASE v # nt /\ u # nt
      BY <1>7, <2>1, <3>1 DEF StackInv, Alone
    <3>2. CASE v = nt \/ u = nt
      <4>1. tasks'[v].in # tasks'[u].in
        BY <1>4, <1>5, <1>7, <2>1, <3>2
      <4>2. tasks'[v].kont[1].at = "thread" /\ tasks'[u].kont[1].at = "thread" =>
               interps'[tasks'[v].in].thread # interps'[tasks'[u].in].thread
        BY <1>8, <1>9, <2>1, <3>2
      <4> QED BY <4>1, <4>2
    <3> QED BY <3>1, <3>2
  <2> QED BY <2>1 DEF Alone
<1>12. Heights(ni)'
  <2>1. LiveOf(tasks', ni) = {nt}
    <3>0. m[1] \notin Idlers
      BY <1>3 DEF Idlers, Lively, Waiting, Over
    <3>1. nt \in LiveOf(tasks', ni)
      BY <1>4, <1>5, <3>0 DEF LiveOf
    <3>2. ASSUME NEW u \in DOMAIN tasks PROVE tasks'[u].in # ni
      <4>1. tasks[u].in \in DOMAIN interps
        BY <3>2, Here
      <4>2. tasks'[u].in = tasks[u].in
        BY <1>3, <3>2 DEF TaskTurn
      <4> QED BY <1>4, <4>1, <4>2
    <3> QED BY <1>4, <3>1, <3>2 DEF LiveOf
  <2>2. ASSUME NEW ats, ats \subseteq ScopeItems PROVE Count(tasks', ni, ats) = 0
    <3>1. Marks(tasks', nt, ats) = {}
      BY <1>3, <1>5, <2>2 DEF Marks, Places, NewKont
    <3>2. ItemsOf(tasks', {nt}, ats) = {}
      BY <3>1 DEF ItemsOf
    <3> QED BY <2>1, <3>2, FS_EmptySet DEF Count
  <2>3. CallItems \subseteq ScopeItems
    BY DEF CallItems, ScopeItems
  <2>4. Count(tasks', ni, ScopeItems) = 0 /\ Count(tasks', ni, CallItems) = 0
    BY <2>2, <2>3
  <2> HIDE DEF Count
  <2> QED BY <1>3, <2>4 DEF Heights, NewState
<1>13. ASSUME NEW i \in DOMAIN interps PROVE Heights(i)'
  <2>1. CASE i = tasks[t].in
    BY <1>3, <1>6, <2>1, TurnHeights
  <2>2. CASE i # tasks[t].in
    <3>1. interps'[i] = interps[i]
      BY <1>3, <2>2 DEF InterpTurn
    <3>2. t \notin LiveOf(tasks', i)
      BY <1>3, <2>2 DEF LiveOf, TaskTurn
    <3>3. tasks[t].mode[1] # "panicked"
      BY <1>3 DEF TaskTurn, Lively, Waiting
    <3>4. Staffed(i)' => Staffed(i)
      BY <1>4, <1>5, <1>7, <1>13 DEF Staffed
    <3>5. Newcomers(t, i)
      BY <1>6
    <3> QED BY <1>3, <1>6, <2>2, <3>1, <3>2, <3>3, <3>4, <3>5, OtherHeights
  <2> QED BY <2>1, <2>2
<1>14. \A i \in DOMAIN interps' : Heights(i)'
  BY <1>4, <1>12, <1>13
<1> QED BY <1>10, <1>11, <1>14 DEF StackInv

\* so do async calls,
LEMMA CallStacks == ASSUME Shape, StackInv, NEW t, Calls(t) PROVE StackInv'
<1>1. PICK m, x : x.at = "mini" /\ Forks(t, m, <<x>>) /\ threads' = threads
  BY DEF Calls
<1> DEFINE kk == <<x>>
<1>2. kk[1].at # "thread" /\ Forks(t, m, kk)
  BY <1>1
<1>3. World /\ Shape' /\ StatusKept
  BY <1>1, CallShape DEF StatusKept
<1> HIDE DEF kk
<1> QED BY <1>2, <1>3, ForkStacks

\* spawns,
LEMMA SpawnStacks == ASSUME Shape, StackInv, NEW t, Spawns(t) PROVE StackInv'
<1>1. PICK m, kk, s :
        /\ Forks(t, m, kk) /\ interps'[Len(interps) + 1].thread = Len(threads) + 1
        /\ s.status = "Running" /\ threads' = Append(threads, s)
  BY DEF Spawns
<1>2. IsSeq(threads) /\ Len(threads) \in Nat /\ DOMAIN threads = 1..Len(threads)
  BY SeqShape DEF Shape
<1>3. /\ \A th \in 1..Len(threads) : threads'[th] = threads[th]
      /\ threads'[Len(threads) + 1] = s
  BY <1>1, <1>2, AppendShape
<1>4. /\ interps'[Len(interps) + 1].thread \notin DOMAIN threads
      /\ threads'[interps'[Len(interps) + 1].thread].status = "Running"
  BY <1>1, <1>2, <1>3
<1>5. World /\ Shape' /\ StatusKept
  BY <1>2, <1>3, SpawnShape DEF StatusKept
<1> QED BY <1>1, <1>4, <1>5, ForkStacks

\* A handler begins on top of the scopes and frames that are there.
LEMMA StartStacks == ASSUME Shape, StackInv, NEW t, Starts(t) PROVE StackInv'
<1> DEFINE k == tasks[t].kont
           kk == tasks'[t].kont
<1>1. PICK i : i = tasks[t].in
  OBVIOUS
<1>2. /\ t \in DOMAIN tasks /\ TaskOK(tasks[t]) /\ i \in DOMAIN interps /\ KontOK(k)
      /\ tasks[t].mode[1] = "handle" /\ DOMAIN tasks' = DOMAIN tasks
      /\ \A u \in DOMAIN tasks \ {t} : tasks'[u] = tasks[u]
      /\ tasks'[t].in = i /\ InterpTurn(i) /\ DOMAIN interps' = DOMAIN interps
      /\ threads' = threads /\ IsSeq(k)
  BY <1>1, Here, SeqShape DEF Starts, InterpTurn, Shape
<1>3. World /\ Shape'
  BY StartShape
<1>4. k # <<>> /\ Len(k) = 1 /\ k[1].at = "handler" /\ DOMAIN k = {1}
  BY <1>2, SeqShape DEF TaskOK, Over
<1>5. kk # <<>> /\ kk[1].at = "handler"
  BY <1>4 DEF Starts, Grows, Forward
<1>6. NoBirths
  <2>1. Persist({})
    BY StartContinues
  <2>2. Alive' \subseteq Alive
    BY <1>2, <1>4 DEF Alive
  <2> QED BY <2>1, <2>2 DEF NoBirths, Persist
<1>7. /\ Steadfast(t) /\ CrashesKept /\ StatusKept
      /\ \A j : Newcomers(t, j)
  BY <1>2 DEF Steadfast, Newcomers, StatusKept, CrashesKept
<1>8. Alone' /\ Looping'
  BY <1>3, <1>6, <1>7, BodyThread, RolesStay DEF NoBirths, StatusKept
<1>9. t \notin LiveOf(tasks, i) /\ ~ErrIn(tasks[t]) /\ tasks[t].mode[1] # "panicked"
  <2>1. ~BodyErred(k)
    BY <1>4 DEF BodyErred
  <2> QED BY <1>2, <2>1 DEF LiveOf, Idlers, ErrIn
<1>10. ASSUME NEW j \in DOMAIN interps', j # i PROVE Heights(j)'
  <2>1. interps'[j] = interps[j] /\ j \in DOMAIN interps
    BY <1>2, <1>10 DEF InterpTurn
  <2>2. t \notin LiveOf(tasks', j)
    BY <1>2, <1>10 DEF LiveOf
  <2>3. Staffed(j)' => Staffed(j)
    BY <1>6, NobodyNew
  <2> QED BY <1>1, <1>3, <1>7, <1>9, <1>10, <2>1, <2>2, <2>3, OtherHeights
<1>11. Heights(i)'
  <2>1. Staffed(i)' => Staffed(i)
    BY <1>6, NobodyNew
  <2>2. CASE tasks'[t].mode[1] = "refused" /\ interps' = interps
    <3>1. t \notin LiveOf(tasks', i) /\ interps'[i] = interps[i]
      BY <2>2 DEF LiveOf, Idlers
    <3> QED BY <1>2, <1>3, <1>7, <1>9, <2>1, <3>1, OtherHeights
  <2>3. CASE tasks'[t].mode[1] = "done" /\ Grows(k, kk, 1, 0) /\ Stacks(t, 2, 1)
    <3>1. N(k, ScopeItems) = 1 /\ N(k, CallItems) = 1
      <4>1. Places(k, ScopeItems) = {1} /\ Places(k, CallItems) = {1}
        BY <1>4 DEF Places, ScopeItems, CallItems
      <4> QED BY <4>1, FS_Singleton DEF N
    <3>2. N(kk, ScopeItems) = 2 /\ N(kk, CallItems) = 1
      BY <2>3, <3>1 DEF Grows
    <3>3. Konts(tasks) /\ Konts(tasks') /\ SameRest(tasks, tasks', t, i)
      BY <1>3, <1>7, ShapeKonts, NextKonts, RestSame
    <3>4. t \in LiveOf(tasks', i)
      BY <1>2, <2>3 DEF LiveOf, Idlers, Over
    <3>5. ASSUME NEW ats
          PROVE  /\ Count(tasks', i, ats) = Count(tasks, i, ats) + N(kk, ats)
                 /\ Count(tasks, i, ats) \in Nat
      <4>1. Share(tasks, t, i, ats) = 0 /\ Share(tasks', t, i, ats) = N(kk, ats)
        BY <1>9, <3>4 DEF Share
      <4> HIDE DEF kk
      <4>2. /\ Count(tasks', i, ats) + Share(tasks, t, i, ats) = Count(tasks, i, ats) + Share(tasks', t, i, ats)
            /\ Count(tasks, i, ats) \in Nat /\ Count(tasks', i, ats) \in Nat
        BY <3>3, Recount
      <4> HIDE DEF Count, Share
      <4> QED BY <4>1, <4>2
    <3>6. /\ Count(tasks', i, ScopeItems) = Count(tasks, i, ScopeItems) + 2
          /\ Count(tasks', i, CallItems) = Count(tasks, i, CallItems) + 1
          /\ Count(tasks, i, ScopeItems) \in Nat /\ Count(tasks, i, CallItems) \in Nat
      <4> HIDE DEF kk, Count
      <4> QED BY <3>2, <3>5
    <3>7. (Erred(i) => Erred(i)') /\ (Panicked(i) => Panicked(i)')
      <4>1. interps[i].caught => interps'[i].caught
        BY <1>2 DEF InterpTurn
      <4> QED BY <1>2, <1>3, <1>7, <1>9, <4>1, ErredKept
    <3>8. /\ Len(interps'[i].env) = Len(interps[i].env) + 2
          /\ Len(interps'[i].frames) = Len(interps[i].frames) + 1
          /\ Len(interps[i].env) \in Nat /\ Len(interps[i].frames) \in Nat
      BY <1>1, <1>2, <2>3, Here DEF Stacks
    <3>9. Heights(i)
      BY <1>2 DEF StackInv
    <3> HIDE DEF Count
    <3> DEFINE c == Count(tasks, i, ScopeItems)
               cc == Count(tasks', i, ScopeItems)
               d == Count(tasks, i, CallItems)
               dd == Count(tasks', i, CallItems)
               e == Len(interps[i].env)
               ee == Len(interps'[i].env)
               f == Len(interps[i].frames)
               ff == Len(interps'[i].frames)
    <3>10. /\ cc = c + 2 /\ dd = d + 1 /\ c \in Nat /\ d \in Nat
           /\ ee = e + 2 /\ ff = f + 1 /\ e \in Nat /\ f \in Nat
           /\ e >= 1 + c /\ f >= d
           /\ Staffed(i) => e = 1 + c \/ Erred(i)
           /\ f = d \/ Panicked(i)
      BY <3>6, <3>8, <3>9 DEF Heights
    <3>11. /\ ee >= 1 + cc /\ ff >= dd
           /\ Staffed(i)' => ee = 1 + cc \/ Erred(i)'
           /\ ff = dd \/ Panicked(i)'
      <4> HIDE DEF c, cc, d, dd, e, ee, f, ff
      <4>1. ee >= 1 + cc /\ ff >= dd /\ (e = 1 + c => ee = 1 + cc) /\ (f = d => ff = dd)
        BY <3>10
      <4> QED BY <2>1, <3>7, <3>10, <4>1
    <3> QED BY <3>11 DEF Heights
  <2> QED BY <1>1, <2>2, <2>3 DEF Starts
<1>12. \A j \in DOMAIN interps' : Heights(j)'
  BY <1>10, <1>11
<1> QED BY <1>8, <1>12 DEF StackInv

\* A request's task shares the interpreter state of the body, and does nothing
\* yet.
LEMMA TakeStacks == ASSUME Shape, StackInv, NEW t, Takes(t) PROVE StackInv'
<1>1. PICK i : i = tasks[t].in
  OBVIOUS
<1>2. PICK th : th = interps[i].thread
  OBVIOUS
<1>3. PICK new : new = Len(tasks) + 1
  OBVIOUS
<1>4. /\ t \in Alive /\ t \in DOMAIN tasks /\ tasks[t].kont[1].at = "thread" /\ i \in DOMAIN interps
      /\ interps' = interps /\ new \notin DOMAIN tasks
      /\ \A o \in DOMAIN threads \ {th} : threads'[o] = threads[o]
      /\ threads'[th].status = threads[th].status
  <2>1. /\ t \in DOMAIN tasks /\ tasks[t].kont # <<>> /\ tasks[t].kont[1].at = "thread"
        /\ interps' = interps
        /\ \A o \in DOMAIN threads \ {th} : threads'[o] = threads[o]
        /\ threads'[th].status = threads[th].status
    BY <1>1, <1>2 DEF Takes
  <2>2. i \in DOMAIN interps
    BY <1>1, <2>1, Here
  <2>3. new \notin DOMAIN tasks
    BY <1>3, SeqShape DEF Shape
  <2> QED BY <2>1, <2>2, <2>3 DEF Alive
<1>5. World /\ Shape' /\ StatusKept
  BY <1>4, TakeShape DEF StatusKept
<1>6. CrashesKept
  BY <1>5 DEF StatusKept, CrashesKept
<1>7. /\ \A u \in DOMAIN tasks : u \in DOMAIN tasks' /\ tasks'[u] = tasks[u]
      /\ DOMAIN tasks' \subseteq DOMAIN tasks \cup {new}
      /\ new \in DOMAIN tasks' =>
            /\ tasks'[new].in = i /\ tasks'[new].mode[1] = "handle"
            /\ tasks'[new].kont[1].at = "handler"
  <2>1. CASE tasks' = tasks
    BY <1>4, <2>1
  <2>2. ASSUME NEW cell, Begins(i, cell)
        PROVE  /\ DOMAIN tasks' = DOMAIN tasks \cup {new}
               /\ \A u \in DOMAIN tasks : tasks'[u] = tasks[u]
               /\ tasks'[new].in = i /\ tasks'[new].mode[1] = "handle"
               /\ tasks'[new].kont[1].at = "handler"
    <3>1. Begun(new, i, cell)
      BY <1>3, <2>2, NewHandler
    <3> QED BY <3>1 DEF Begun
  <2>3. tasks' = tasks \/ \E cell : Begins(i, cell)
    BY <1>1 DEF Takes
  <2> QED BY <2>1, <2>2, <2>3
<1>8. ASSUME NEW u \in Alive', u # new
      PROVE  /\ u \in Alive /\ tasks'[u] = tasks[u] /\ tasks[u].in \in DOMAIN interps
  <2>1. u \in DOMAIN tasks /\ tasks'[u] = tasks[u] /\ u \in Alive
    BY <1>7, <1>8 DEF Alive
  <2> QED BY <2>1, Here
<1>9. Looping'
  <2>1. ASSUME NEW u \in Alive', tasks'[u].kont[1].at = "thread"
        PROVE  threads'[interps'[tasks'[u].in].thread].status = "Running"
    <3>1. u # new
      BY <1>7, <2>1 DEF Alive
    <3> QED BY <1>4, <1>5, <1>8, <2>1, <3>1, BodyThread DEF StackInv, Looping, StatusKept
  <2> QED BY <2>1 DEF Looping
<1>10. Alone'
  <2>1. ASSUME NEW v \in Alive', NEW u \in Alive', v # u
        PROVE  /\ tasks'[v].in = tasks'[u].in => tasks'[v].kont[1].at \in {"thread", "handler"}
               /\ tasks'[v].kont[1].at = "thread" /\ tasks'[u].kont[1].at = "thread" =>
                     interps'[tasks'[v].in].thread # interps'[tasks'[u].in].thread
    <3>1. CASE v # new /\ u # new
      BY <1>4, <1>8, <2>1, <3>1 DEF StackInv, Alone
    <3>2. CASE v = new
      BY <1>7, <3>2 DEF Alive
    <3>3. CASE u = new /\ v # new
      <4>1. u \in DOMAIN tasks'
        BY DEF Alive
      <4>2. tasks'[u].in = i /\ tasks'[u].kont[1].at = "handler"
        BY <1>7, <3>3, <4>1
      <4>3. tasks'[v].in = i => tasks'[v].kont[1].at \in {"thread", "handler"}
        BY <1>1, <1>4, <1>8, <3>3 DEF StackInv, Alone
      <4> QED BY <4>2, <4>3
    <3> QED BY <3>1, <3>2, <3>3
  <2> QED BY <2>1 DEF Alone
<1>11. ASSUME NEW j \in DOMAIN interps' PROVE Heights(j)'
  <2>1. j \in DOMAIN interps /\ interps'[j] = interps[j]
    BY <1>4
  <2>2. Steadfast(new) /\ Newcomers(new, j) /\ new \notin LiveOf(tasks', j)
    BY <1>7 DEF Steadfast, Newcomers, LiveOf, Idlers
  <2>3. Staffed(j)' => Staffed(j)
    <3>1. ASSUME NEW u \in Alive', tasks'[u].in = j PROVE Staffed(j)
      <4>1. CASE u = new
        BY <1>1, <1>4, <1>7, <3>1, <4>1 DEF Staffed, Alive
      <4>2. CASE u # new
        BY <1>8, <3>1, <4>2 DEF Staffed
      <4> QED BY <4>1, <4>2
    <3> QED BY <3>1 DEF Staffed
  <2> QED BY <1>4, <1>5, <1>6, <2>1, <2>2, <2>3, OtherHeights
<1> QED BY <1>9, <1>10, <1>11 DEF StackInv

\* A task that is over leaves the stacks to those that share them.
LEMMA GoneStacks ==
    ASSUME Shape, World, Shape', StackInv, NEW t, NEW how, how \in Over, Gone(t, how),
           NEW i, i = tasks[t].in, CrashesKept, Heights(i)',
           \A j \in DOMAIN interps \ {i} : interps'[j] = interps[j],
           DOMAIN interps' = DOMAIN interps,
           \A u \in Alive \ {t} : tasks[u].kont[1].at = "thread" =>
              threads'[interps[tasks[u].in].thread].status = threads[interps[tasks[u].in].thread].status
    PROVE  StackInv'
<1>1. /\ t \in DOMAIN tasks /\ tasks[t].kont # <<>> /\ DOMAIN tasks' = DOMAIN tasks
      /\ tasks'[t].kont = <<>> /\ tasks'[t].mode = <<how>> /\ tasks'[t].in = i
      /\ \A u \in DOMAIN tasks \ {t} : tasks'[u] = tasks[u]
  BY SeqShape DEF Gone, Shape
<1>2. NoBirths /\ \A u \in Alive' : u # t
  <2>1. \A u \in Alive' : u \in Alive \ {t}
    BY <1>1 DEF Alive
  <2> QED BY <2>1, GoneContinues DEF Persist, NoBirths
<1>3. Alone' /\ Looping'
  BY <1>2, RolesStay DEF NoBirths
<1>4. Steadfast(t) /\ tasks[t].mode[1] # "panicked" /\ \A j : Newcomers(t, j)
  BY <1>1, Here DEF Steadfast, Newcomers, TaskOK, Over
<1>5. ASSUME NEW j \in DOMAIN interps', j # i PROVE Heights(j)'
  <2>1. j \in DOMAIN interps /\ interps'[j] = interps[j]
    BY <1>5
  <2>2. t \notin LiveOf(tasks', j)
    BY <1>1, <1>5 DEF LiveOf
  <2>3. Staffed(j)' => Staffed(j)
    BY <1>2, NobodyNew
  <2> QED BY <1>4, <1>5, <2>1, <2>2, <2>3, OtherHeights
<1>6. \A j \in DOMAIN interps' : Heights(j)'
  BY <1>5
<1> QED BY <1>3, <1>6 DEF StackInv

\* What a task that is over had counts no more.
LEMMA GoneCounts ==
    ASSUME Shape, Shape', NEW t, NEW how, how \in Over, Gone(t, how), NEW i, i = tasks[t].in,
           NEW ats
    PROVE  /\ Count(tasks', i, ats) + Share(tasks, t, i, ats) = Count(tasks, i, ats)
           /\ Count(tasks', i, ats) \in Nat /\ Count(tasks, i, ats) \in Nat
           /\ Share(tasks, t, i, ats) \in Nat
<1>1. /\ DOMAIN tasks' = DOMAIN tasks /\ tasks'[t].mode = <<how>>
      /\ \A u \in DOMAIN tasks \ {t} : tasks'[u] = tasks[u]
  BY SeqShape DEF Gone, Shape
<1>2. SameRest(tasks, tasks', t, i) /\ Konts(tasks) /\ Konts(tasks')
  <2>1. Steadfast(t) /\ Newcomers(t, i)
    BY <1>1 DEF Steadfast, Newcomers
  <2> QED BY <2>1, RestSame, ShapeKonts, NextKonts
<1>3. Share(tasks', t, i, ats) = 0
  BY <1>1 DEF Share, LiveOf, Idlers
<1>4. /\ Count(tasks', i, ats) + Share(tasks, t, i, ats) = Count(tasks, i, ats) + Share(tasks', t, i, ats)
      /\ Count(tasks, i, ats) \in Nat /\ Count(tasks', i, ats) \in Nat
      /\ Share(tasks, t, i, ats) \in Nat
  BY <1>2, Recount
<1> HIDE DEF Count, Share
<1> QED BY <1>3, <1>4

\* A task that has one item left, which is not a handler's, leaves the stacks as
\* they are.
LEMMA LastItem ==
    ASSUME Shape, NEW t \in DOMAIN tasks, Len(tasks[t].kont) = 1, NEW i, i = tasks[t].in
    PROVE  /\ ~BodyErred(tasks[t].kont)
           /\ tasks[t].kont[1].at # "handler" =>
                 Share(tasks, t, i, ScopeItems) = 0 /\ Share(tasks, t, i, CallItems) = 0
           /\ tasks[t].kont[1].at = "handler" /\ tasks[t].mode[1] \in Lively =>
                 Share(tasks, t, i, ScopeItems) = 1 /\ Share(tasks, t, i, CallItems) = 1
           /\ tasks[t].mode[1] = "refused" =>
                 Share(tasks, t, i, ScopeItems) = 0 /\ Share(tasks, t, i, CallItems) = 0
<1> DEFINE k == tasks[t].kont
<1>1. KontOK(k) /\ DOMAIN k = {1} /\ k[1].at \in Bases
  BY Here, SeqShape DEF KontOK
<1>2. ~BodyErred(k)
  BY <1>1 DEF BodyErred, Bases
<1>3. ASSUME k[1].at # "handler"
      PROVE  Share(tasks, t, i, ScopeItems) = 0 /\ Share(tasks, t, i, CallItems) = 0
  <2>1. Places(k, ScopeItems) = {} /\ Places(k, CallItems) = {}
    BY <1>1, <1>3 DEF Places, ScopeItems, CallItems, Bases
  <2> QED BY <2>1, FS_EmptySet DEF N, Share
<1>4. ASSUME k[1].at = "handler", tasks[t].mode[1] \in Lively
      PROVE  Share(tasks, t, i, ScopeItems) = 1 /\ Share(tasks, t, i, CallItems) = 1
  <2>1. Places(k, ScopeItems) = {1} /\ Places(k, CallItems) = {1}
    BY <1>1, <1>4 DEF Places, ScopeItems, CallItems
  <2>2. t \in LiveOf(tasks, i)
    BY <1>4 DEF LiveOf, Idlers, Lively, Waiting, Over
  <2> QED BY <2>1, <2>2, FS_Singleton DEF N, Share
<1>5. ASSUME tasks[t].mode[1] = "refused"
      PROVE  Share(tasks, t, i, ScopeItems) = 0 /\ Share(tasks, t, i, CallItems) = 0
  BY <1>5 DEF Share, LiveOf, Idlers
<1> QED BY <1>2, <1>3, <1>4, <1>5

\* Stacks that stay as they are when a task that has no share in them is over.
LEMMA LeftHeights ==
    ASSUME Shape, World, Shape', StackInv, NEW t, NEW how, how \in Over, Gone(t, how),
           NEW i, i = tasks[t].in, CrashesKept, interps'[i] = interps[i],
           Share(tasks, t, i, ScopeItems) = 0, Share(tasks, t, i, CallItems) = 0,
           Staffed(i)' /\ ErrIn(tasks[t]) => Erred(i)'
    PROVE  Heights(i)'
<1>1. /\ t \in DOMAIN tasks /\ DOMAIN tasks' = DOMAIN tasks /\ tasks'[t].kont = <<>>
      /\ \A u \in DOMAIN tasks \ {t} : tasks'[u] = tasks[u]
  BY SeqShape DEF Gone, Shape
<1>2. tasks[t].mode[1] # "panicked" /\ i \in DOMAIN interps /\ Steadfast(t)
  BY <1>1, Here DEF Gone, TaskOK, Over, Steadfast
<1>3. Staffed(i)' => Staffed(i)
  BY <1>1 DEF Staffed, Alive
<1>4. Staffed(i)' => (Erred(i) => Erred(i)')
  BY <1>1, <1>2, ErredKept
<1>5. Panicked(i) => Panicked(i)'
  BY <1>1, <1>2 DEF Panicked
<1>6. /\ Count(tasks', i, ScopeItems) = Count(tasks, i, ScopeItems)
      /\ Count(tasks', i, CallItems) = Count(tasks, i, CallItems)
  <2>1. \A ats : /\ Count(tasks', i, ats) + Share(tasks, t, i, ats) = Count(tasks, i, ats)
                 /\ Count(tasks', i, ats) \in Nat
    BY GoneCounts
  <2> HIDE DEF Count, Share
  <2> QED BY <2>1
<1>7. Heights(i)
  BY <1>2 DEF StackInv
<1> HIDE DEF Count
<1> QED BY <1>3, <1>4, <1>5, <1>6, <1>7 DEF Heights

\* The body of an async function had its interpreter state for itself.
LEMMA FutureStacks == ASSUME Shape, StackInv, NEW t, FutureOver(t) PROVE StackInv'
<1>1. World /\ Shape'
  BY OverShape
<1>2. /\ Gone(t, "end") /\ "end" \in Over /\ t \in DOMAIN tasks /\ interps' = interps
      /\ threads' = threads /\ tasks[t].kont[1].at = "mini" /\ Len(tasks[t].kont) = 1
      /\ t \in Alive
  BY DEF FutureOver, Gone, Over, Alive
<1>3. PICK i : i = tasks[t].in
  OBVIOUS
<1>4. ~Staffed(i)'
  <2>1. ASSUME NEW u \in Alive', tasks'[u].in = i PROVE FALSE
    <3>1. DOMAIN tasks' = DOMAIN tasks
      BY <1>2, SeqShape DEF Gone, Shape
    <3>2. u # t /\ tasks'[u] = tasks[u] /\ u \in Alive
      BY <1>2, <2>1, <3>1 DEF Gone, Alive
    <3> QED BY <1>2, <1>3, <2>1, <3>2 DEF StackInv, Alone
  <2> QED BY <2>1 DEF Staffed
<1>5. Share(tasks, t, i, ScopeItems) = 0 /\ Share(tasks, t, i, CallItems) = 0
  BY <1>2, <1>3, LastItem
<1>6. CrashesKept
  BY <1>2 DEF CrashesKept
<1>7. Heights(i)'
  BY <1>1, <1>2, <1>3, <1>4, <1>5, <1>6, LeftHeights
<1> QED BY <1>1, <1>2, <1>3, <1>6, <1>7, GoneStacks

\* Where the body of a thread is the one that is over, other threads are other bodies'.
LEMMA OtherBodies ==
    ASSUME Shape, StackInv, NEW t \in Alive, tasks[t].kont[1].at = "thread",
           NEW th, th = interps[tasks[t].in].thread, NEW status, NEW gone, Closed(th, status, gone)
    PROVE  \A u \in Alive \ {t} : tasks[u].kont[1].at = "thread" =>
              threads'[interps[tasks[u].in].thread].status = threads[interps[tasks[u].in].thread].status
<1>1. ASSUME NEW u \in Alive \ {t}, tasks[u].kont[1].at = "thread"
      PROVE  threads'[interps[tasks[u].in].thread].status = threads[interps[tasks[u].in].thread].status
  <2>1. PICK o : o = interps[tasks[u].in].thread
    OBVIOUS
  <2>2. o # th
    BY <1>1, <2>1 DEF StackInv, Alone
  <2>3. o \in DOMAIN threads
    BY <1>1, <2>1, BodyThread
  <2> QED BY <2>1, <2>2, <2>3 DEF Closed
<1> QED BY <1>1

\* The body of a thread is over, and its error is its thread's.
LEMMA BodyStacks ==
    ASSUME Shape, StackInv, NEW t, NEW th, NEW status, BodyOver(t, th, status)
    PROVE  StackInv'
<1>1. World /\ Shape'
  BY OverShape
<1>2. /\ Gone(t, "end") /\ "end" \in Over /\ t \in DOMAIN tasks /\ interps' = interps
      /\ tasks[t].kont[1].at = "thread" /\ Len(tasks[t].kont) = 1
      /\ t \in Alive /\ Closed(th, status, threads[th].gone)
  BY DEF BodyOver, Gone, Over, Alive
<1>3. PICK i : i = tasks[t].in
  OBVIOUS
<1>4. th = interps[i].thread /\ i \in DOMAIN interps
  BY <1>2, <1>3, Here DEF BodyOver
<1>5. CrashesKept
  <2>1. threads[th].status = "Running"
    BY <1>2, <1>3, <1>4 DEF StackInv, Looping
  <2> QED BY <1>2, <2>1 DEF CrashesKept, Closed
<1>6. ~BodyErred(tasks[t].kont) /\ Share(tasks, t, i, ScopeItems) = 0 /\ Share(tasks, t, i, CallItems) = 0
  BY <1>2, <1>3, LastItem
<1>7. ErrIn(tasks[t]) => Erred(i)'
  <2>1. ASSUME ErrIn(tasks[t]) PROVE Erred(i)'
    <3>1. status = "Crashed"
      BY <1>6, <2>1 DEF ErrIn, BodyOver
    <3>2. threads'[th].status = "Crashed" /\ th \in DOMAIN threads
      BY <1>2, <3>1 DEF Closed
    <3>3. th # 0
      BY <3>2, SeqShape DEF Shape
    <3> QED BY <1>2, <1>4, <3>2, <3>3 DEF Erred
  <2> QED BY <2>1
<1>8. Heights(i)'
  BY <1>1, <1>2, <1>3, <1>5, <1>6, <1>7, LeftHeights
<1>9. \A u \in Alive \ {t} : tasks[u].kont[1].at = "thread" =>
         threads'[interps[tasks[u].in].thread].status = threads[interps[tasks[u].in].thread].status
  BY <1>2, <1>3, <1>4, OtherBodies
<1> QED BY <1>1, <1>2, <1>3, <1>5, <1>8, <1>9, GoneStacks

\* A panic drops the task and leaves what it pushed.
LEMMA PanicStacks == ASSUME Shape, StackInv, NEW t, Panics(t) PROVE StackInv'
<1>1. World /\ Shape'
  BY OverShape
<1>2. /\ Gone(t, "panicked") /\ "panicked" \in Over /\ t \in DOMAIN tasks /\ interps' = interps
      /\ t \in Alive /\ DOMAIN tasks' = DOMAIN tasks
  BY SeqShape DEF Panics, Gone, Over, Alive, Shape
<1>3. PICK i : i = tasks[t].in
  OBVIOUS
<1>4. i \in DOMAIN interps
  BY <1>2, <1>3, Here
<1>5. \/ threads' = threads
      \/ /\ tasks[t].kont[1].at = "thread"
         /\ Closed(interps[i].thread, threads[interps[i].thread].status, TRUE)
  BY <1>3 DEF Panics
<1>6. CrashesKept
  BY <1>5 DEF CrashesKept, Closed
<1>7. \A u \in Alive \ {t} : tasks[u].kont[1].at = "thread" =>
         threads'[interps[tasks[u].in].thread].status = threads[interps[tasks[u].in].thread].status
  <2>1. CASE threads' = threads
    BY <2>1
  <2>2. CASE threads' # threads
    BY <1>2, <1>3, <1>5, <2>2, OtherBodies
  <2> QED BY <2>1, <2>2
<1>8. Erred(i)' /\ Panicked(i)'
  <2>1. t \in DOMAIN tasks' /\ tasks'[t].in = i /\ tasks'[t].mode[1] = "panicked"
    BY <1>2, <1>3 DEF Gone
  <2> QED BY <2>1 DEF Erred, Panicked
<1>9. Heights(i)'
  <2>1. \A ats : /\ Count(tasks', i, ats) + Share(tasks, t, i, ats) = Count(tasks, i, ats)
                 /\ Count(tasks', i, ats) \in Nat /\ Count(tasks, i, ats) \in Nat
                 /\ Share(tasks, t, i, ats) \in Nat
    BY <1>1, <1>2, <1>3, GoneCounts
  <2>2. /\ Len(interps[i].env) >= 1 + Count(tasks, i, ScopeItems)
        /\ Len(interps[i].frames) >= Count(tasks, i, CallItems)
    BY <1>4 DEF StackInv, Heights
  <2>3. Len(interps[i].env) \in Nat /\ Len(interps[i].frames) \in Nat
    BY <1>2, <1>3, Here
  <2> HIDE DEF Count, Share
  <2>4. \A ats : Count(tasks', i, ats) <= Count(tasks, i, ats)
    BY <2>1
  <2>5. ASSUME NEW n \in Nat, NEW a \in Nat, NEW b \in Nat, b <= a
        PROVE  /\ n >= 1 + a => n >= 1 + b
               /\ n >= a => n >= b
    BY <2>5
  <2>6. /\ Len(interps[i].env) >= 1 + Count(tasks', i, ScopeItems)
        /\ Len(interps[i].frames) >= Count(tasks', i, CallItems)
    BY <2>1, <2>2, <2>3, <2>4, <2>5
  <2> QED BY <1>2, <1>8, <2>6 DEF Heights
<1> QED BY <1>1, <1>2, <1>3, <1>6, <1>7, <1>9, GoneStacks

\* A handler that is over takes its scope and its frame with it.
LEMMA HandlerStacks == ASSUME Shape, StackInv, NEW t, HandlerOver(t) PROVE StackInv'
<1>1. World /\ Shape'
  BY OverShape
<1>2. /\ Gone(t, "end") /\ "end" \in Over /\ t \in DOMAIN tasks /\ t \in Alive /\ ThreadsKept
      /\ tasks[t].kont[1].at = "handler" /\ Len(tasks[t].kont) = 1
      /\ DOMAIN tasks' = DOMAIN tasks
      /\ \A u \in DOMAIN tasks \ {t} : tasks'[u] = tasks[u]
  BY SeqShape DEF HandlerOver, Gone, Over, Alive, Shape
<1>3. PICK i : i = tasks[t].in
  OBVIOUS
<1>4. /\ i \in DOMAIN interps /\ tasks[t].mode[1] # "panicked" /\ ~BodyErred(tasks[t].kont)
      /\ Steadfast(t)
  BY <1>2, <1>3, Here, LastItem DEF Gone, TaskOK, Over, Steadfast
<1>5. CrashesKept /\ \A th \in DOMAIN threads : threads'[th].status = threads[th].status
  BY <1>2 DEF ThreadsKept, ThreadKept, CrashesKept
<1>6. \A u \in Alive \ {t} : tasks[u].kont[1].at = "thread" =>
         threads'[interps[tasks[u].in].thread].status = threads[interps[tasks[u].in].thread].status
  BY <1>5, BodyThread
<1>7. CASE tasks[t].mode[1] = "refused" /\ interps' = interps
  <2>1. Share(tasks, t, i, ScopeItems) = 0 /\ Share(tasks, t, i, CallItems) = 0
    BY <1>2, <1>3, <1>7, LastItem
  <2>2. ~ErrIn(tasks[t])
    BY <1>4, <1>7 DEF ErrIn
  <2>3. Heights(i)'
    BY <1>1, <1>2, <1>3, <1>5, <1>7, <2>1, <2>2, LeftHeights
  <2> QED BY <1>1, <1>2, <1>3, <1>5, <1>6, <1>7, <2>3, GoneStacks
<1>8. CASE /\ tasks[t].mode[1] \in Lively \ {"unwind"}
           /\ InterpTurn(i) /\ Len(interps') = Len(interps)
           /\ tasks[t].mode[1] = "err" => interps'[i].caught
           /\ interps'[i].env = Pop(interps[i].env)
           /\ interps'[i].frames = Front(interps[i].frames)
  <2>1. /\ DOMAIN interps' = DOMAIN interps
        /\ \A j \in DOMAIN interps \ {i} : interps'[j] = interps[j]
        /\ interps[i].caught => interps'[i].caught
    BY <1>8, SeqShape DEF InterpTurn, Shape
  <2>2. ErrIn(tasks[t]) => Erred(i)'
    BY <1>4, <1>8 DEF ErrIn, Erred
  <2>3. (Erred(i) => Erred(i)') /\ (Panicked(i) => Panicked(i)')
    BY <1>1, <1>4, <1>5, <2>1, <2>2, ErredKept
  <2>4. Staffed(i)' => Staffed(i)
    BY <1>2, <1>3 DEF Staffed, Alive
  <2>5. \A ats : /\ Count(tasks', i, ats) + Share(tasks, t, i, ats) = Count(tasks, i, ats)
                 /\ Count(tasks', i, ats) \in Nat /\ Count(tasks, i, ats) \in Nat
    BY <1>1, <1>2, <1>3, GoneCounts
  <2>6. Share(tasks, t, i, ScopeItems) = 1 /\ Share(tasks, t, i, CallItems) = 1
    BY <1>2, <1>3, <1>8, LastItem
  <2>7. Heights(i)
    BY <1>4 DEF StackInv
  <2>8. PICK e, f, d, g : /\ e = Len(interps[i].env) /\ f = Len(interps[i].frames)
                          /\ d = Len(interps'[i].env) /\ g = Len(interps'[i].frames)
    OBVIOUS
  <2>9. IsSeq(interps[i].env) /\ IsSeq(interps[i].frames) /\ e \in Nat /\ f \in Nat
    BY <1>2, <1>3, <2>8, Here
  <2>10. PICK a, b, u, v : /\ a = Count(tasks, i, ScopeItems) /\ b = Count(tasks, i, CallItems)
                           /\ u = Count(tasks', i, ScopeItems) /\ v = Count(tasks', i, CallItems)
    OBVIOUS
  <2> HIDE DEF Count, Share
  <2>11. u + 1 = a /\ v + 1 = b /\ u \in Nat /\ v \in Nat
    BY <2>5, <2>6, <2>10
  <2>12. /\ e >= 1 + a /\ f >= b
         /\ Staffed(i) => e = 1 + a \/ Erred(i)
         /\ f = b \/ Panicked(i)
    BY <2>7, <2>8, <2>10 DEF Heights
  <2>13. e >= 1 /\ f >= 1
    BY <2>9, <2>11, <2>12
  <2>14. d = e - 1 /\ g = f - 1
    BY <1>8, <2>8, <2>9, <2>13, PopShape
  <2>15. /\ d >= 1 + u /\ g >= v
         /\ e = 1 + a => d = 1 + u
         /\ f = b => g = v
    BY <2>9, <2>11, <2>12, <2>14
  <2>16. /\ Staffed(i)' => d = 1 + u \/ Erred(i)'
         /\ g = v \/ Panicked(i)'
    BY <2>3, <2>4, <2>12, <2>15
  <2>17. Heights(i)'
    BY <2>8, <2>10, <2>15, <2>16 DEF Heights
  <2> QED BY <1>1, <1>2, <1>3, <1>5, <1>6, <2>1, <2>17, GoneStacks
<1> QED BY <1>3, <1>7, <1>8 DEF HandlerOver

\* Nothing but the executor changes.
LEMMA IdleStacks == ASSUME StackInv, Idle PROVE StackInv'
<1>1. ASSUME NEW i PROVE (Heights(i) <=> Heights(i)') /\ Alive' = Alive
  <2>1. /\ Count(tasks, i, ScopeItems)' = Count(tasks, i, ScopeItems)
        /\ Count(tasks, i, CallItems)' = Count(tasks, i, CallItems)
        /\ Staffed(i)' <=> Staffed(i)
        /\ Erred(i)' <=> Erred(i)
        /\ Panicked(i)' <=> Panicked(i)
    BY DEF Idle, Count, LiveOf, ItemsOf, Marks, Staffed, Alive, Erred, Panicked
  <2> HIDE DEF Count
  <2> QED BY <2>1 DEF Idle, Heights, Alive
<1> QED BY <1>1 DEF Idle, StackInv, Alone, Looping, Alive

\* and every step.
LEMMA StepStacks == ASSUME Shape, StackInv, Step PROVE StackInv'
BY IdleStacks, TurnStacks, CallStacks, SpawnStacks, StartStacks, TakeStacks, HandlerStacks,
   FutureStacks, PanicStacks, BodyStacks DEF Step, StepOf

\* The top level starts with the scope of the program and no call.
LEMMA BootStacks == ASSUME Boot PROVE StackInv
<1>1. PICK p \in Programs : Start(p)
  BY DEF Boot
<1> DEFINE x == [at |-> "top", rest |-> p.main]
           k == <<x>>
           s == NewInterp(p.funcs)
<1>2. DOMAIN k = {1} /\ k[1] = x /\ x.at = "top"
  OBVIOUS
<1>3. \A ats : x.at \notin ats => Places(k, ats) = {}
  BY <1>2 DEF Places
<1> HIDE DEF k, x
<1>4. DOMAIN tasks = {1} /\ tasks[1].kont = k /\ tasks[1].in = 1 /\ Alive = {1}
  <2>1. tasks = <<NewTask(1, Done, k)>>
    BY <1>1 DEF Start, k, x
  <2>2. k # <<>>
    BY <1>2
  <2> QED BY <2>1, <2>2 DEF NewTask, Alive
<1>5. DOMAIN interps = {1} /\ interps[1].env = <<EmptyScope>> /\ interps[1].frames = <<>>
  BY <1>1 DEF Start, NewInterp
<1>6. Places(k, ScopeItems) = {} /\ Places(k, CallItems) = {}
  BY <1>2, <1>3 DEF ScopeItems, CallItems
<1>7. Count(tasks, 1, ScopeItems) = 0 /\ Count(tasks, 1, CallItems) = 0
  <2>1. ASSUME NEW ats, Places(k, ats) = {} PROVE Count(tasks, 1, ats) = 0
    <3>1. \A u \in LiveOf(tasks, 1) : Marks(tasks, u, ats) = {}
      BY <1>4, <2>1 DEF LiveOf, Marks
    <3>2. ItemsOf(tasks, LiveOf(tasks, 1), ats) = {}
      BY <3>1 DEF ItemsOf
    <3> QED BY <3>2, FS_EmptySet DEF Count
  <2> QED BY <1>6, <2>1
<1>8. Len(<<EmptyScope>>) = 1 /\ Len(<<>>) = 0
  BY ShortSeqs, EmptyShape
<1> HIDE DEF Count
<1>9. Heights(1)
  BY <1>5, <1>7, <1>8 DEF Heights
<1>10. Alone /\ Looping
  BY <1>2, <1>4 DEF Alone, Looping
<1> QED BY <1>5, <1>9, <1>10 DEF StackInv

\* The scopes and the frames of an interpreter state are those of the blocks and
\* the calls its tasks are in, however a body and its handlers interleave around
\* their waits, in every run of every program; an error may leave scopes behind,
\* and only a panic leaves frames.
THEOREM StacksAgree == Interpreter => []StackDiscipline
<1>1. StackInv /\ Shape /\ [Run]_<<program, machine>> => StackInv'
  BY NextStep, StepStacks
<1>2. Shape /\ StackInv => StackDiscipline
  BY StacksDisciplined
<1> QED BY <1>1, <1>2, BootStacks, WellFormed, PTL DEF Interpreter

\* The machine is typed in every run of every program.
THEOREM MachineTyped == Interpreter => []TypeOK
<1>1. StackInv /\ Shape /\ [Run]_<<program, machine>> => StackInv'
  BY NextStep, StepStacks
<1>2. Shape /\ StackInv => TypeOK
  BY TypesOK
<1> QED BY <1>1, <1>2, BootStacks, WellFormed, PTL DEF Interpreter
====
