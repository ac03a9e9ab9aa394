---------------------------- MODULE PermitProofs ----------------------------
(***************************************************************************)
(* Permit for any number of waits: no permit is made or lost, and none     *)
(* lies free while a task is queued.                                       *)
(***************************************************************************)
EXTENDS Permit, NotifyProofs, FiniteSetTheorems, FunctionTheorems, SequenceTheorems

\* The permit is broken exactly when the semaphore is closed, and a task is
\* queued or granted once, and only while it waits.
Places ==
    /\ closed <=> broken # "none"
    /\ Distinct(queue)
    /\ Waiting(queue) \cap granted = {}
    /\ Waiting(queue) \cup granted \subseteq {t \in Tasks : waiter[t] = "waiting"}

Inv == TypeOK /\ NoPermitIdle /\ Places /\ PermitsConserved

\* The first n tasks of a queue without repetitions are n tasks.
LEMMA PrefixCardinality ==
    ASSUME NEW S, NEW q \in Seq(S), Distinct(q), NEW n \in 0..Len(q)
    PROVE  /\ IsFiniteSet({q[i] : i \in 1..n})
           /\ Cardinality({q[i] : i \in 1..n}) = n
<1> DEFINE T == {q[i] : i \in 1..n}
           f == [i \in 1..n |-> q[i]]
<1>1. f \in Bijection(1..n, T)
  BY DEF Bijection, Injection, Surjection, Distinct, IsInjective
<1>2. ExistsBijection(1..n, T)
  BY <1>1 DEF ExistsBijection
<1>3. IsFiniteSet(1..n)
  BY FS_Interval
<1>4. n \in Nat
  OBVIOUS
<1> HIDE DEF T
<1>5. IsFiniteSet(T)
  BY <1>2, <1>3, FS_Bijection
<1>6. Cardinality(T) = n
  BY <1>2, <1>4, FS_CountingElements
<1> QED BY <1>5, <1>6 DEF T

\* Cardinalities of disjoint sets add up.
LEMMA DisjointUnion ==
    ASSUME NEW S, NEW T, IsFiniteSet(S), IsFiniteSet(T), S \cap T = {}
    PROVE  /\ IsFiniteSet(S \cup T)
           /\ Cardinality(S \cup T) = Cardinality(S) + Cardinality(T)
<1>1. Cardinality(S \cap T) = 0
  BY FS_EmptySet
<1>2. Cardinality(S) \in Nat /\ Cardinality(T) \in Nat
  BY FS_CardinalityType
<1>3. /\ IsFiniteSet(S \cup T)
      /\ Cardinality(S \cup T) = Cardinality(S) + Cardinality(T) - Cardinality(S \cap T)
  BY FS_Union
<1> QED BY <1>1, <1>2, <1>3

\* Permits that come back go to the oldest tasks of the queue, and stay free
\* only when they are more than the tasks.
LEMMA AddPermitsFacts ==
    ASSUME available \in Nat, NEW q \in Seq(Tasks), Distinct(q),
           NEW g \in SUBSET Tasks, Waiting(q) \cap g = {},
           NEW n \in Nat, AddPermits(n, q, g)
    PROVE  /\ available' \in Nat
           /\ queue' \in Seq(Tasks) /\ Distinct(queue')
           /\ granted' \in SUBSET Tasks
           /\ Waiting(queue') \cap granted' = {}
           /\ Waiting(queue') \cup granted' \subseteq Waiting(q) \cup g
           /\ q = <<>> => queue' = <<>>
           /\ (available > 0 => q = <<>>) => (available' > 0 => queue' = <<>>)
           /\ available' + Cardinality(granted') = available + Cardinality(g) + n
<1>1. PICK L \in Nat : L = Len(q) /\ DOMAIN q = 1..L
  OBVIOUS
<1> DEFINE m == IF n < L THEN n ELSE L
<1>0. /\ granted' = g \cup {q[i] : i \in 1..m}
      /\ queue' = SubSeq(q, m + 1, L)
      /\ available' = available + (n - m)
  BY <1>1 DEF AddPermits
<1>2. m \in Nat /\ m <= L /\ m <= n /\ (n < L => m = n) /\ (~(n < L) => m = L)
  OBVIOUS
<1> HIDE DEF m
<1>a. PICK served \in 0..L : served = m
  BY <1>2
<1>b. queue' = SubSeq(q, served + 1, L)
  BY <1>0, <1>a
<1>c. granted' = g \cup {q[i] : i \in 1..served}
  BY <1>0, <1>a
<1>d. available' = available + (n - served) /\ served <= n
  BY <1>0, <1>2, <1>a
<1>e. (n < L => served = n) /\ (~(n < L) => served = L)
  BY <1>2, <1>a
<1> DEFINE first == {q[i] : i \in 1..served}
<1>3. served \in Nat
  OBVIOUS
<1>4. /\ queue' \in Seq(Tasks) /\ Len(queue') = L - served
      /\ DOMAIN queue' = 1..(L - served)
      /\ \A i \in 1..(L - served) :
            queue'[i] = q[served + i] /\ served + i \in DOMAIN q
  <2>1. served + 1 \in Int /\ L \in Int /\ \A i \in (served + 1)..L : q[i] \in Tasks
    BY <1>1
  <2>2. /\ queue' \in Seq(Tasks)
        /\ Len(queue') = IF served + 1 <= L THEN L - (served + 1) + 1 ELSE 0
        /\ \A i \in 1..(L - (served + 1) + 1) : queue'[i] = q[served + 1 + i - 1]
    BY <1>b, <2>1, SubSeqProperties
  <2>a. /\ (IF served + 1 <= L THEN L - (served + 1) + 1 ELSE 0) = L - served
        /\ L - (served + 1) + 1 = L - served
        /\ \A i \in 1..(L - served) : served + 1 + i - 1 = served + i /\ served + i \in 1..L
    OBVIOUS
  <2>3. Len(queue') = L - served
    BY <2>2, <2>a
  <2>4. \A i \in 1..(L - served) :
            queue'[i] = q[served + i] /\ served + i \in DOMAIN q
    BY <1>1, <2>2, <2>a
  <2> QED BY <2>2, <2>3, <2>4
<1>5. Distinct(queue')
  <2> SUFFICES ASSUME NEW i \in 1..(L - served), NEW j \in 1..(L - served),
                      queue'[i] = queue'[j]
               PROVE  i = j
    BY <1>4 DEF Distinct
  <2>1. served + i = served + j
    BY <1>4 DEF Distinct
  <2> QED BY <1>1, <1>3, <2>1
<1>6. \A i \in 1..served : i \in DOMAIN q
  BY <1>1
<1>7. first \subseteq Waiting(q) /\ Waiting(queue') \subseteq Waiting(q)
  BY <1>4, <1>6 DEF Waiting
<1>8. Waiting(queue') \cap first = {}
  <2> SUFFICES ASSUME NEW i \in 1..(L - served), NEW j \in 1..served,
                      queue'[i] = q[j]
               PROVE  FALSE
    BY <1>4 DEF Waiting
  <2>1. served + i = j
    BY <1>4, <1>6 DEF Distinct
  <2> QED BY <1>1, <1>3, <2>1
<1>9. Waiting(q) \subseteq Tasks
  BY WaitingFacts
<1>10. available' \in Nat
  BY <1>3, <1>d
<1>11. q = <<>> => queue' = <<>>
  BY <1>1, <1>4
<1>12. (available > 0 => q = <<>>) => (available' > 0 => queue' = <<>>)
  <2>1. CASE n < L
    <3>1. available' = available
      BY <1>3, <1>d, <1>e, <2>1
    <3> QED BY <1>11, <3>1
  <2>2. CASE ~(n < L)
    BY <1>1, <1>e, <1>4, <2>2
  <2> QED BY <2>1, <2>2
<1>13. IsFiniteSet(first) /\ Cardinality(first) = served
  <2>1. served \in 0..Len(q)
    BY <1>1
  <2> QED BY <2>1, PrefixCardinality
<1>14. IsFiniteSet(g) /\ Cardinality(g) \in Nat
  BY SyncAssumption, FS_Subset, FS_CardinalityType
<1>15. granted' = g \cup first
  BY <1>c
<1> HIDE DEF first
<1>16. g \cap first = {}
  BY <1>7
<1>17. Cardinality(g \cup first) = Cardinality(g) + Cardinality(first)
  BY <1>13, <1>14, <1>16, DisjointUnion
<1>18. available' + Cardinality(granted') = available + Cardinality(g) + n
  BY <1>3, <1>d, <1>13, <1>14, <1>15, <1>17
<1> QED BY <1>4, <1>5, <1>7, <1>8, <1>9, <1>10, <1>11, <1>12, <1>15, <1>18

\* The permits that waits have consumed.
Used == {t \in Tasks : waiter[t] = "ok"}

\* The sets whose sizes PermitsConserved adds up are finite.
LEMMA Finite ==
    ASSUME TypeOK
    PROVE  /\ IsFiniteSet(granted) /\ Cardinality(granted) \in Nat
           /\ IsFiniteSet(Used) /\ Cardinality(Used) \in Nat
BY SyncAssumption, FS_Subset, FS_CardinalityType DEF TypeOK, Used

\* A new permit has all its permits free.
LEMMA InitInv == Init => Inv
<1> SUFFICES ASSUME Init PROVE Inv
  OBVIOUS
<1>0. Initial \in Nat
  BY SyncAssumption
<1>1. TypeOK
  <2>1. queue \in Seq(Tasks) /\ granted \in SUBSET Tasks
    BY DEF Init
  <2>2. waiter \in [Tasks -> Waits]
    BY DEF Init, Waits
  <2> QED BY <1>0, <2>1, <2>2 DEF Init, TypeOK
<1>2. NoPermitIdle
  BY DEF Init, NoPermitIdle
<1>3. Places
  BY DEF Init, Places, Distinct, Waiting
<1>4. {t \in Tasks : waiter[t] = "ok"} = {} /\ granted = {}
  BY DEF Init
<1>5. PermitsConserved
  <2>1. Cardinality(granted) = 0 /\ Cardinality({t \in Tasks : waiter[t] = "ok"}) = 0
    BY <1>4, FS_EmptySet
  <2> QED BY <1>0, <2>1 DEF Init, PermitsConserved
<1> QED BY <1>1, <1>2, <1>3, <1>5 DEF Inv

\* No call and no poll breaks it.
LEMMA StepInv == Inv /\ [Next]_vars => Inv'
<1> SUFFICES ASSUME Inv, [Next]_vars PROVE Inv'
  OBVIOUS
<1>0. /\ available \in Nat /\ queue \in Seq(Tasks) /\ granted \in SUBSET Tasks
      /\ released \in Nat /\ broken \in Reasons \cup {"none"} /\ closed \in BOOLEAN
      /\ waiter \in [Tasks -> Waits]
  BY DEF Inv, TypeOK
<1>a. /\ closed <=> broken # "none"
      /\ Distinct(queue)
      /\ Waiting(queue) \cap granted = {}
      /\ Waiting(queue) \cup granted \subseteq {t \in Tasks : waiter[t] = "waiting"}
  BY DEF Inv, Places
<1>b. (available > 0 => queue = <<>>) /\ (broken # "none" => queue = <<>> /\ closed)
  BY DEF Inv, NoPermitIdle
<1>c. available + Cardinality(granted) + Cardinality(Used) = Initial + released
  BY DEF Inv, PermitsConserved, Used
<1>d. /\ Cardinality(granted) \in Nat /\ IsFiniteSet(granted)
      /\ Cardinality(Used) \in Nat /\ IsFiniteSet(Used)
      /\ Initial \in Nat
  BY Finite, SyncAssumption DEF Inv
\* Permits come back while nothing but a wait that does not succeed changes.
<1>e. ASSUME NEW n \in Nat, NEW q \in Seq(Tasks), Distinct(q), NEW g \in SUBSET Tasks,
             Waiting(q) \cap g = {}, AddPermits(n, q, g), available > 0 => q = <<>>,
             broken # "none" => q = <<>>,
             Waiting(q) \cup g \subseteq {t \in Tasks : waiter'[t] = "waiting"},
             waiter' \in [Tasks -> Waits], Used' = Used,
             released' \in Nat, released' + Cardinality(granted) = released + Cardinality(g) + n,
             UNCHANGED <<broken, closed>>
      PROVE  Inv'
  <2>1. /\ available' \in Nat
        /\ queue' \in Seq(Tasks) /\ Distinct(queue')
        /\ granted' \in SUBSET Tasks
        /\ Waiting(queue') \cap granted' = {}
        /\ Waiting(queue') \cup granted' \subseteq Waiting(q) \cup g
        /\ q = <<>> => queue' = <<>>
        /\ available' > 0 => queue' = <<>>
        /\ available' + Cardinality(granted') = available + Cardinality(g) + n
    BY <1>0, <1>e, AddPermitsFacts
  <2>2. TypeOK'
    BY <1>0, <1>e, <2>1 DEF TypeOK
  <2>3. NoPermitIdle'
    BY <1>b, <1>e, <2>1 DEF NoPermitIdle
  <2>4. Places'
    BY <1>a, <1>e, <2>1 DEF Places
  <2>5. available' + Cardinality(granted') + Cardinality(Used') = Initial + released'
    <3>1. Cardinality(g) \in Nat
      BY SyncAssumption, FS_Subset, FS_CardinalityType
    <3>2. Cardinality(granted') \in Nat
      BY <2>1, SyncAssumption, FS_Subset, FS_CardinalityType
    <3>3. Cardinality(Used') = Cardinality(Used)
      BY <1>e
    <3>4. released' + Cardinality(granted) = released + Cardinality(g) + n
      BY <1>e
    <3>5. available' + Cardinality(granted') = available + Cardinality(g) + n
      BY <2>1
    <3>6. available \in Nat /\ available' \in Nat /\ released \in Nat /\ released' \in Nat
      BY <1>0, <1>e, <2>1
    <3>7. Cardinality(granted) \in Nat /\ Cardinality(Used) \in Nat /\ Initial \in Nat
      BY <1>d
    <3>8. PICK G, G1, H, U, a, a1, r, r1, i \in Nat :
              /\ G = Cardinality(granted) /\ G1 = Cardinality(granted')
              /\ H = Cardinality(g) /\ U = Cardinality(Used)
              /\ a = available /\ a1 = available' /\ r = released /\ r1 = released'
              /\ i = Initial
      BY <3>1, <3>2, <3>6, <3>7
    <3>9. a + G + U = i + r /\ r1 + G = r + H + n /\ a1 + G1 = a + H + n
      BY <1>c, <3>4, <3>5, <3>8
    <3>10. a1 + G1 + U = i + r1
      BY <3>9
    <3> QED BY <3>3, <3>8, <3>10
  <2> QED BY <2>2, <2>3, <2>4, <2>5 DEF Inv, PermitsConserved, Used
<1>1. ASSUME NEW n \in 1..MaxReleased, release_n(n) PROVE Inv'
  <2>1. /\ ~closed /\ released' = released + n /\ AddPermits(n, queue, granted)
        /\ UNCHANGED <<broken, closed, waiter>>
    BY <1>1 DEF release_n
  <2>2. n \in Nat /\ released' \in Nat
    BY <1>0, <2>1, SyncAssumption
  <2>3. released' + Cardinality(granted) = released + Cardinality(granted) + n
    BY <1>0, <1>d, <2>1, <2>2
  <2>4. Used' = Used
    BY <2>1 DEF Used
  <2> QED BY <1>0, <1>a, <1>b, <1>e, <2>1, <2>2, <2>3, <2>4
<1>2. ASSUME NEW r \in Reasons, break_with(r) PROVE Inv'
  <2>1. CASE broken # "none"
    BY <1>2, <2>1 DEF break_with, vars, Inv, TypeOK, NoPermitIdle, Places, PermitsConserved, Distinct, Waiting
  <2>2. CASE broken = "none"
    <3>1. /\ broken' = r /\ closed' = TRUE /\ queue' = <<>>
          /\ UNCHANGED <<available, granted, released, waiter>>
      BY <1>2, <2>2 DEF break_with
    <3>2. r # "none"
      BY DEF Reasons
    <3>3. TypeOK'
      BY <1>0, <3>1 DEF TypeOK
    <3>4. NoPermitIdle'
      BY <3>1 DEF NoPermitIdle
    <3>5. Places'
      BY <1>a, <3>1, <3>2 DEF Places, Distinct, Waiting
    <3>6. PermitsConserved'
      BY <3>1 DEF Inv, PermitsConserved
    <3> QED BY <3>3, <3>4, <3>5, <3>6 DEF Inv
  <2> QED BY <2>1, <2>2
<1>3. ASSUME NEW t \in Tasks, acquire(t) PROVE Inv'
  <2>0. /\ waiter[t] = "idle" /\ UNCHANGED <<granted, released, broken, closed>>
        /\ t \notin Waiting(queue) \cup granted
    BY <1>3, <1>a DEF acquire
  <2>1. CASE closed /\ waiter' = [waiter EXCEPT ![t] = broken] /\ UNCHANGED <<available, queue>>
    <3>1. broken \in Reasons /\ broken # "ok" /\ broken # "waiting"
      BY <1>0, <1>a, <2>1 DEF Reasons
    <3>2. waiter' \in [Tasks -> Waits]
      BY <1>0, <2>1, <3>1 DEF Waits
    <3>3. Used' = Used
      BY <1>0, <2>0, <2>1, <3>1 DEF Used
    <3>4. Places'
      BY <1>0, <1>a, <2>0, <2>1, <3>1 DEF Places
    <3>5. PermitsConserved'
      BY <1>c, <2>0, <2>1, <3>3 DEF PermitsConserved, Used
    <3> QED BY <1>0, <1>b, <2>0, <2>1, <3>2, <3>4, <3>5 DEF Inv, TypeOK, NoPermitIdle
  <2>2. CASE ~closed /\ available > 0 /\ waiter' = [waiter EXCEPT ![t] = "ok"]
             /\ available' = available - 1 /\ UNCHANGED queue
    <3>1. available' \in Nat /\ waiter' \in [Tasks -> Waits]
      BY <1>0, <2>2 DEF Waits
    <3>2. Used' = Used \cup {t} /\ t \notin Used
      BY <1>0, <2>0, <2>2 DEF Used
    <3>3. Cardinality(Used') = Cardinality(Used) + 1
      BY <1>d, <3>2, FS_AddElement
    <3>4. Places'
      BY <1>0, <1>a, <2>0, <2>2 DEF Places
    <3>5. available' + Cardinality(granted') + Cardinality(Used') = Initial + released'
      BY <1>0, <1>c, <1>d, <2>0, <2>2, <3>3
    <3> QED BY <1>0, <1>b, <2>0, <2>2, <3>1, <3>4, <3>5
         DEF Inv, TypeOK, NoPermitIdle, PermitsConserved, Used
  <2>3. CASE ~closed /\ available = 0 /\ waiter' = [waiter EXCEPT ![t] = "waiting"]
             /\ queue' = Append(queue, t) /\ UNCHANGED available
    <3>1. queue' \in Seq(Tasks) /\ waiter' \in [Tasks -> Waits]
      BY <1>0, <2>3 DEF Waits
    <3>2. Waiting(queue') = Waiting(queue) \cup {t}
      BY <1>0, <2>3, WaitingFacts
    <3>3. Distinct(queue')
      BY <1>0, <1>a, <2>0, <2>3, AppendDistinct
    <3>4. Used' = Used
      BY <1>0, <2>0, <2>3 DEF Used
    <3>5. Places'
      BY <1>0, <1>a, <2>0, <2>3, <3>2, <3>3 DEF Places
    <3>6. PermitsConserved'
      BY <1>c, <2>0, <2>3, <3>4 DEF PermitsConserved, Used
    <3>7. NoPermitIdle'
      BY <1>a, <2>0, <2>3 DEF NoPermitIdle
    <3> QED BY <1>0, <2>0, <2>3, <3>1, <3>5, <3>6, <3>7 DEF Inv, TypeOK
  <2> QED BY <1>3, <2>1, <2>2, <2>3 DEF acquire
<1>4. ASSUME NEW t \in Tasks, Resume(t) PROVE Inv'
  <2>1. /\ waiter[t] = "waiting" /\ t \in granted /\ ~closed
        /\ waiter' = [waiter EXCEPT ![t] = "ok"] /\ granted' = granted \ {t}
        /\ UNCHANGED <<available, queue, released, broken, closed>>
    BY <1>4 DEF Resume
  <2>2. Used' = Used \cup {t} /\ t \notin Used
    BY <1>0, <2>1 DEF Used
  <2>3. Cardinality(Used') = Cardinality(Used) + 1 /\ Cardinality(granted') = Cardinality(granted) - 1
    BY <1>d, <2>1, <2>2, FS_AddElement, FS_RemoveElement
  <2>4. available' + Cardinality(granted') + Cardinality(Used') = Initial + released'
    BY <1>0, <1>c, <1>d, <2>1, <2>3
  <2>5. Places'
    BY <1>0, <1>a, <2>1 DEF Places
  <2>6. waiter' \in [Tasks -> Waits] /\ granted' \in SUBSET Tasks
    BY <1>0, <2>1 DEF Waits
  <2> QED BY <1>0, <1>b, <2>1, <2>4, <2>5, <2>6
       DEF Inv, TypeOK, NoPermitIdle, PermitsConserved, Used
\* A task that stops waiting without success.
<1>f. ASSUME NEW t \in Tasks, waiter[t] = "waiting", NEW w \in Waits \ {"ok"},
             waiter' = [waiter EXCEPT ![t] = w]
      PROVE  /\ waiter' \in [Tasks -> Waits] /\ Used' = Used
             /\ {u \in Tasks : waiter[u] = "waiting"} \ {t}
                    \subseteq {u \in Tasks : waiter'[u] = "waiting"}
  BY <1>0, <1>f DEF Used
\* It gives back what it was handed.
<1>g. ASSUME NEW t \in Tasks, t \notin Waiting(queue), waiter[t] = "waiting",
             NEW w \in Waits \ {"ok"}, waiter' = [waiter EXCEPT ![t] = w],
             GiveBack(t), UNCHANGED <<released, broken, closed>>
      PROVE  Inv'
  <2>0. /\ waiter' \in [Tasks -> Waits] /\ Used' = Used
        /\ {u \in Tasks : waiter[u] = "waiting"} \ {t}
                    \subseteq {u \in Tasks : waiter'[u] = "waiting"}
    BY <1>f, <1>g
  <2>1. CASE t \in granted
    <3>1. AddPermits(1, queue, granted \ {t}) /\ granted \ {t} \in SUBSET Tasks
      BY <1>0, <1>g, <2>1 DEF GiveBack
    <3>2. Cardinality(granted) = Cardinality(granted \ {t}) + 1
      <4>1. Cardinality(granted \ {t}) = Cardinality(granted) - 1
        BY <1>d, <2>1, FS_RemoveElement
      <4>2. PICK k \in Nat : k = Cardinality(granted)
        BY <1>d
      <4> QED BY <4>1, <4>2
    <3>3. released' \in Nat /\ Cardinality(granted \ {t}) \in Nat
      BY <1>0, <1>g, <3>1, SyncAssumption, FS_Subset, FS_CardinalityType
    <3>4. released' + Cardinality(granted) = released + Cardinality(granted \ {t}) + 1
      BY <1>0, <1>g, <3>2, <3>3
    <3>5. /\ Waiting(queue) \cap (granted \ {t}) = {}
          /\ Waiting(queue) \cup (granted \ {t}) \subseteq {u \in Tasks : waiter'[u] = "waiting"}
      BY <1>a, <1>g, <2>0
    <3> QED BY <1>0, <1>a, <1>b, <1>e, <1>g, <2>0, <3>1, <3>3, <3>4, <3>5
  <2>2. CASE t \notin granted
    <3>1. UNCHANGED <<available, queue, granted>>
      BY <1>g, <2>2 DEF GiveBack
    <3>2. Places'
      BY <1>a, <1>g, <2>0, <2>2, <3>1 DEF Places
    <3>3. PermitsConserved'
      BY <1>c, <1>g, <2>0, <3>1 DEF PermitsConserved, Used
    <3> QED BY <1>0, <1>b, <1>g, <2>0, <3>1, <3>2, <3>3 DEF Inv, TypeOK, NoPermitIdle
  <2> QED BY <2>1, <2>2
<1>5. ASSUME NEW t \in Tasks, ResumeClosed(t) PROVE Inv'
  <2>1. /\ waiter[t] = "waiting" /\ closed /\ waiter' = [waiter EXCEPT ![t] = broken]
        /\ GiveBack(t) /\ UNCHANGED <<released, broken, closed>>
    BY <1>5 DEF ResumeClosed
  <2>2. broken \in Waits \ {"ok"}
    BY <1>0, <1>a, <2>1 DEF Waits, Reasons
  <2>3. t \notin Waiting(queue)
    BY <1>a, <1>b, <2>1 DEF Waiting
  <2> QED BY <1>g, <2>1, <2>2, <2>3
<1>6. ASSUME NEW t \in Tasks, Drop(t) PROVE Inv'
  <2>1. /\ waiter[t] = "waiting" /\ waiter' = [waiter EXCEPT ![t] = "dropped"]
        /\ UNCHANGED <<released, broken, closed>>
    BY <1>6 DEF Drop
  <2>2. "dropped" \in Waits \ {"ok"}
    BY DEF Waits, Reasons
  <2>3. CASE t \notin Waiting(queue) /\ GiveBack(t)
    BY <1>g, <2>1, <2>2, <2>3
  <2>4. CASE t \in Waiting(queue) /\ queue' = Leave(queue, t) /\ UNCHANGED <<available, granted>>
    <3>0. /\ waiter' \in [Tasks -> Waits] /\ Used' = Used
          /\ {u \in Tasks : waiter[u] = "waiting"} \ {t}
                    \subseteq {u \in Tasks : waiter'[u] = "waiting"}
      BY <1>f, <2>1, <2>2
    <3>1. /\ queue' \in Seq(Tasks) /\ Distinct(queue')
          /\ Waiting(queue') \subseteq Waiting(queue) \ {t}
      BY <1>0, <1>a, <2>4, LeaveFacts
    <3>2. queue # <<>> /\ t \notin granted
      BY <1>a, <2>4 DEF Waiting
    <3>3. Places'
      BY <1>a, <2>1, <2>4, <3>0, <3>1, <3>2 DEF Places
    <3>4. PermitsConserved'
      BY <1>c, <2>1, <2>4, <3>0 DEF PermitsConserved, Used
    <3> QED BY <1>0, <1>b, <2>1, <2>4, <3>0, <3>1, <3>2, <3>3, <3>4 DEF Inv, TypeOK, NoPermitIdle
  <2> QED BY <1>6, <2>3, <2>4 DEF Drop
<1>7. CASE UNCHANGED vars
  BY <1>7 DEF vars, Inv, TypeOK, NoPermitIdle, Places, PermitsConserved, Distinct, Waiting
<1> QED BY <1>1, <1>2, <1>3, <1>4, <1>5, <1>6, <1>7 DEF Next

\* The fields of a TesseraPermit keep their types.
THEOREM PermitTypeCorrect == Spec => []TypeOK
<1>1. Inv => TypeOK
  BY DEF Inv
<1> QED BY <1>1, InitInv, StepInv, PTL DEF Spec

\* For any number of waits, permits that are granted, dropped or returned by the
\* close neither multiply nor vanish.
THEOREM PermitConservation == Spec => []PermitsConserved
<1>1. Inv => PermitsConserved
  BY DEF Inv
<1> QED BY <1>1, InitInv, StepInv, PTL DEF Spec

\* For any number of waits no permit lies free while a task is queued.
THEOREM PermitNeverIdle == Spec => []NoPermitIdle
<1>1. Inv => NoPermitIdle
  BY DEF Inv
<1> QED BY <1>1, InitInv, StepInv, PTL DEF Spec
=============================================================================
