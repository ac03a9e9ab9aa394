---------------------------- MODULE NotifyProofs ----------------------------
(* What the operations on wait queues and on a Notify preserve. *)
EXTENDS Notify, TLAPS

\* Taking a task out of a queue adds none.
LEMMA WithoutFacts ==
    ASSUME NEW S, NEW q \in Seq(S), NEW i
    PROVE  Without(q, i) \in Seq(S) /\ Waiting(Without(q, i)) \subseteq Waiting(q)
<1>1. CASE q = <<>>
  <2>1. Without(q, i) = <<>>
    BY <1>1 DEF Without
  <2> QED BY <1>1, <2>1
<1>2. CASE Len(q) > 0
  <2>1. Len(q) \in Nat /\ Len(q) - 1 \in Nat
    BY <1>2
  <2>2. \A j \in 1..(Len(q) - 1) : j \in DOMAIN q /\ j + 1 \in DOMAIN q /\ q[j] \in S /\ q[j + 1] \in S
    BY <2>1
  <2>3. /\ DOMAIN Without(q, i) = 1..(Len(q) - 1)
        /\ \A j \in 1..(Len(q) - 1) : Without(q, i)[j] \in {q[j], q[j + 1]}
    BY DEF Without
  <2>4. Without(q, i) \in [1..(Len(q) - 1) -> S]
    BY <2>2 DEF Without
  <2>5. Without(q, i) \in Seq(S)
    BY <2>1, <2>4
  <2>6. Waiting(Without(q, i)) \subseteq Waiting(q)
    BY <2>2, <2>3 DEF Waiting
  <2> QED BY <2>5, <2>6
<1> QED BY <1>1, <1>2

\* The tasks of a queue.
LEMMA WaitingFacts ==
    ASSUME NEW S, NEW q \in Seq(S)
    PROVE  /\ Waiting(q) \in SUBSET S
           /\ Waiting(q) = {} <=> q = <<>>
           /\ \A t : Waiting(Append(q, t)) = Waiting(q) \cup {t}
           /\ q # <<>> => /\ Head(q) \in S /\ Tail(q) \in Seq(S)
                          /\ Waiting(q) = {Head(q)} \cup Waiting(Tail(q))
<1>1. Waiting(q) \in SUBSET S
  BY DEF Waiting
<1>2. Waiting(q) = {} <=> q = <<>>
  <2>1. ASSUME q # <<>> PROVE q[1] \in Waiting(q)
    BY <2>1 DEF Waiting
  <2>2. Waiting(<<>>) = {}
    BY DEF Waiting
  <2> QED BY <2>1, <2>2
<1>3. ASSUME NEW t PROVE Waiting(Append(q, t)) = Waiting(q) \cup {t}
  <2>1. DOMAIN Append(q, t) = 1..(Len(q) + 1) /\ DOMAIN q = 1..Len(q) /\ Len(q) \in Nat
    OBVIOUS
  <2>2. \A i \in 1..Len(q) : Append(q, t)[i] = q[i]
    OBVIOUS
  <2>3. Append(q, t)[Len(q) + 1] = t
    OBVIOUS
  <2> QED BY <2>1, <2>2, <2>3 DEF Waiting
<1>4. ASSUME q # <<>>
      PROVE  /\ Head(q) \in S /\ Tail(q) \in Seq(S)
             /\ Waiting(q) = {Head(q)} \cup Waiting(Tail(q))
  <2>1. Len(q) \in Nat /\ Len(q) > 0 /\ DOMAIN q = 1..Len(q) /\ Head(q) = q[1]
    BY <1>4
  <2>2. Tail(q) \in Seq(S) /\ Len(Tail(q)) = Len(q) - 1 /\ DOMAIN Tail(q) = 1..(Len(q) - 1)
    BY <1>4
  <2>3. \A i \in 1..(Len(q) - 1) : Tail(q)[i] = q[i + 1]
    BY <1>4
  <2>4. \A i \in 1..Len(q) : i # 1 => i - 1 \in 1..(Len(q) - 1) /\ q[i] = Tail(q)[i - 1]
    BY <2>1, <2>3
  <2>5. ASSUME NEW i \in 1..Len(q) PROVE q[i] \in {Head(q)} \cup Waiting(Tail(q))
    <3>1. CASE i = 1
      BY <2>1, <3>1
    <3>2. CASE i # 1
      <4>1. i - 1 \in DOMAIN Tail(q) /\ q[i] = Tail(q)[i - 1]
        BY <2>2, <2>4, <3>2
      <4> QED BY <4>1 DEF Waiting
    <3> QED BY <3>1, <3>2
  <2>6. Waiting(Tail(q)) \subseteq Waiting(q)
    BY <2>1, <2>2, <2>3 DEF Waiting
  <2> QED BY <2>1, <2>2, <2>5, <2>6 DEF Waiting
<1> QED BY <1>1, <1>2, <1>3, <1>4

\* No task is in the queue twice.
Distinct(q) == \A i, j \in DOMAIN q : q[i] = q[j] => i = j

\* A task that gives up its place leaves the others in theirs.
LEMMA LeaveFacts ==
    ASSUME NEW S, NEW q \in Seq(S), Distinct(q), NEW t \in Waiting(q)
    PROVE  /\ Leave(q, t) \in Seq(S) /\ Distinct(Leave(q, t))
           /\ Waiting(Leave(q, t)) = Waiting(q) \ {t}
<1> DEFINE k == CHOOSE i \in DOMAIN q : q[i] = t
           r == Without(q, k)
<1>1. k \in DOMAIN q /\ q[k] = t
  BY DEF Waiting
<1> HIDE DEF k
<1>2. r \in Seq(S) /\ Waiting(r) \subseteq Waiting(q)
  BY WithoutFacts
<1>3. /\ k \in 1..Len(q) /\ DOMAIN q = 1..Len(q) /\ Len(q) \in Nat
      /\ DOMAIN r = 1..(Len(q) - 1)
      /\ \A j \in 1..(Len(q) - 1) : r[j] = IF j < k THEN q[j] ELSE q[j + 1]
  BY <1>1 DEF Without
<1>4. Distinct(r)
  <2> SUFFICES ASSUME NEW i \in DOMAIN r, NEW j \in DOMAIN r, r[i] = r[j] PROVE i = j
    BY DEF Distinct
  <2>1. i \in 1..(Len(q) - 1) /\ j \in 1..(Len(q) - 1)
    BY <1>3
  <2>2. PICK a \in DOMAIN q : a = (IF i < k THEN i ELSE i + 1) /\ r[i] = q[a]
    BY <1>3, <2>1
  <2>3. PICK b \in DOMAIN q : b = (IF j < k THEN j ELSE j + 1) /\ r[j] = q[b]
    BY <1>3, <2>1
  <2>4. a = b
    BY <2>2, <2>3 DEF Distinct
  <2> QED BY <1>3, <2>1, <2>2, <2>3, <2>4
<1>5. t \notin Waiting(r)
  <2> SUFFICES ASSUME NEW i \in DOMAIN r, r[i] = t PROVE FALSE
    BY DEF Waiting
  <2>1. i \in 1..(Len(q) - 1)
    BY <1>3
  <2>2. PICK a \in DOMAIN q : a = (IF i < k THEN i ELSE i + 1) /\ r[i] = q[a]
    BY <1>3, <2>1
  <2>3. a = k
    BY <1>1, <2>2 DEF Distinct
  <2> QED BY <1>3, <2>1, <2>2, <2>3
<1>6. ASSUME NEW i \in DOMAIN q, q[i] # t PROVE q[i] \in Waiting(r)
  <2>1. CASE i < k
    <3>1. i \in DOMAIN r /\ r[i] = q[i]
      BY <1>3, <2>1
    <3> QED BY <3>1 DEF Waiting
  <2>2. CASE ~(i < k)
    <3>1. i # k /\ i \in 1..Len(q)
      BY <1>1, <1>3, <1>6
    <3>2. i - 1 \in 1..(Len(q) - 1) /\ ~(i - 1 < k) /\ i - 1 + 1 = i
      BY <1>3, <2>2, <3>1
    <3>3. i - 1 \in DOMAIN r /\ r[i - 1] = q[i]
      BY <1>3, <3>2
    <3> QED BY <3>3 DEF Waiting
  <2> QED BY <2>1, <2>2
<1>7. Waiting(r) = Waiting(q) \ {t}
  BY <1>2, <1>5, <1>6 DEF Waiting
<1> QED BY <1>2, <1>4, <1>7 DEF Leave, k

\* A task that is not queued may join the queue.
LEMMA AppendDistinct ==
    ASSUME NEW S, NEW q \in Seq(S), Distinct(q), NEW t \in S, t \notin Waiting(q)
    PROVE  Distinct(Append(q, t))
<1>1. PICK L \in Nat : L = Len(q) /\ DOMAIN q = 1..L
  OBVIOUS
<1>2. /\ DOMAIN Append(q, t) = 1..(L + 1) /\ Append(q, t)[L + 1] = t
      /\ \A i \in 1..L : Append(q, t)[i] = q[i]
  BY <1>1
<1>3. \A i \in 1..L : q[i] # t
  BY <1>1 DEF Waiting
<1>4. \A i \in 1..(L + 1) : i \in 1..L \/ i = L + 1
  OBVIOUS
<1>5. L + 1 \notin 1..L
  OBVIOUS
<1> QED BY <1>1, <1>2, <1>3, <1>4, <1>5 DEF Distinct

\* The task at the head of a queue is served once.
LEMMA TailDistinct ==
    ASSUME NEW S, NEW q \in Seq(S), Distinct(q), q # <<>>
    PROVE  /\ Tail(q) \in Seq(S) /\ Distinct(Tail(q))
           /\ Waiting(Tail(q)) = Waiting(q) \ {Head(q)} /\ Head(q) \in Waiting(q)
<1>1. PICK L \in Nat : L = Len(q) /\ L > 0 /\ DOMAIN q = 1..L /\ Head(q) = q[1]
  OBVIOUS
<1>2. /\ Tail(q) \in Seq(S) /\ DOMAIN Tail(q) = 1..(L - 1)
      /\ \A i \in 1..(L - 1) : Tail(q)[i] = q[i + 1] /\ i + 1 \in 1..L
  BY <1>1
<1>3. Distinct(Tail(q))
  <2> SUFFICES ASSUME NEW i \in 1..(L - 1), NEW j \in 1..(L - 1), Tail(q)[i] = Tail(q)[j]
               PROVE  i = j
    BY <1>2 DEF Distinct
  <2>1. i + 1 = j + 1
    BY <1>1, <1>2 DEF Distinct
  <2> QED BY <2>1
<1>4. Head(q) \notin Waiting(Tail(q))
  <2> SUFFICES ASSUME NEW i \in 1..(L - 1), Tail(q)[i] = q[1] PROVE FALSE
    BY <1>1, <1>2 DEF Waiting
  <2>1. i + 1 = 1
    BY <1>1, <1>2 DEF Distinct
  <2> QED BY <2>1
<1>5. Waiting(q) = {Head(q)} \cup Waiting(Tail(q))
  BY <1>1, WaitingFacts
<1> QED BY <1>2, <1>3, <1>4, <1>5

\* Every operation on a Notify yields a Notify.
LEMMA NotifyType ==
    ASSUME NEW S, NEW n \in Notifies(S), NEW t \in S
    PROVE  /\ NotifyOne(n) \in Notifies(S)
           /\ NotifyWaiters(n) \in Notifies(S)
           /\ Park(n, t) \in Notifies(S)
           /\ Spend(n, t) \in Notifies(S)
           /\ Forsake(n, t) \in Notifies(S)
<1>1. ASSUME NEW m \in Notifies(S) PROVE NotifyOne(m) \in Notifies(S)
  <2>1. m.queue \in Seq(S) /\ m.one \in SUBSET S /\ m.all \in SUBSET S /\ m.permit \in BOOLEAN
    BY DEF Notifies
  <2>2. m.queue # <<>> => Head(m.queue) \in S /\ Tail(m.queue) \in Seq(S)
    BY <2>1, WaitingFacts
  <2> QED BY <2>1, <2>2 DEF NotifyOne, Notifies
<1>a. n.queue \in Seq(S) /\ n.one \in SUBSET S /\ n.all \in SUBSET S /\ n.permit \in BOOLEAN
  BY DEF Notifies
<1>2. NotifyWaiters(n) \in Notifies(S)
  <2>1. Parked(n) \in SUBSET S
    BY <1>a, WaitingFacts DEF Parked
  <2>2. <<>> \in Seq(S)
    OBVIOUS
  <2> QED BY <1>a, <2>1, <2>2 DEF NotifyWaiters, Notifies
<1>3. Park(n, t) \in Notifies(S)
  <2>1. Append(n.queue, t) \in Seq(S)
    BY <1>a
  <2> QED BY <1>a, <2>1 DEF Park, Notifies
<1>4. Spend(n, t) \in Notifies(S)
  BY DEF Spend, Notifies
<1>5. Leave(n.queue, t) \in Seq(S)
  BY WithoutFacts DEF Leave, Notifies
<1>6. Forsake(n, t) \in Notifies(S)
  BY <1>1, <1>4, <1>5 DEF Forsake, Notifies
<1> QED BY <1>1, <1>2, <1>3, <1>4, <1>6

\* Only Park adds a task to those parked, and notify_waiters leaves none.
LEMMA ParkedFacts ==
    ASSUME NEW S, NEW n \in Notifies(S), NEW t \in S
    PROVE  /\ Parked(NotifyWaiters(n)) = {}
           /\ Parked(Spend(n, t)) = Parked(n)
           /\ Parked(NotifyOne(n)) \subseteq Parked(n)
           /\ Parked(Forsake(n, t)) \subseteq Parked(n)
<1>1. Parked(NotifyWaiters(n)) = {}
  BY DEF NotifyWaiters, Parked, Waiting, Notifies
<1>2. Parked(Spend(n, t)) = Parked(n)
  BY DEF Spend, Parked, Notifies
<1>3. \A m \in Notifies(S) : Parked(NotifyOne(m)) \subseteq Parked(m)
  BY WaitingFacts DEF NotifyOne, Parked, Notifies
<1>4. Waiting(Leave(n.queue, t)) \subseteq Waiting(n.queue)
  BY WithoutFacts DEF Leave, Notifies
<1>5. Parked(Forsake(n, t)) \subseteq Parked(n)
  BY <1>2, <1>3, <1>4, NotifyType DEF Forsake, Parked, Notifies
<1> QED BY <1>1, <1>2, <1>3, <1>5

\* notify_one, and the drop of a task it woke, wake somebody if anybody is
\* parked; no other drop takes a notification of notify_one away.
LEMMA WakesOne ==
    ASSUME NEW S, NEW n \in Notifies(S), NEW t \in S
    PROVE  /\ Parked(n) # {} => NotifyOne(n).one # {}
           /\ n.one # {} => Parked(Forsake(n, t)) = {} \/ Forsake(n, t).one # {}
<1>1. \A m \in Notifies(S) : Parked(m) # {} => NotifyOne(m).one # {}
  BY WaitingFacts DEF NotifyOne, Parked, Notifies
<1>2. CASE t \in n.one
  BY <1>1, <1>2, NotifyType, ParkedFacts DEF Forsake
<1>3. CASE t \notin n.one
  <2>1. Spend(n, t).one = n.one
    BY <1>3 DEF Spend, Notifies
  <2>2. [n EXCEPT !.queue = Leave(@, t)].one = n.one
    BY DEF Notifies
  <2>3. Forsake(n, t).one = n.one
    BY <1>3, <2>1, <2>2 DEF Forsake
  <2> QED BY <1>1, <2>3
<1> QED BY <1>1, <1>2, <1>3

\* notify_waiters leaves nobody parked.
LEMMA NotifyWaitersFacts ==
    ASSUME NEW S, NEW n \in Notifies(S)
    PROVE  NotifyWaiters(n) \in Notifies(S) /\ Parked(NotifyWaiters(n)) = {}
<1>1. n.queue \in Seq(S) /\ n.one \in SUBSET S /\ n.all \in SUBSET S /\ n.permit \in BOOLEAN
  BY DEF Notifies
<1>2. Parked(n) \in SUBSET S /\ <<>> \in Seq(S)
  BY <1>1, WaitingFacts DEF Parked
<1>3. NotifyWaiters(n) \in Notifies(S)
  BY <1>1, <1>2 DEF NotifyWaiters, Notifies
<1>4. Parked(NotifyWaiters(n)) = {}
  BY DEF NotifyWaiters, Parked, Waiting, Notifies
<1> QED BY <1>3, <1>4

\* notify_one wakes somebody if anybody is parked.
LEMMA NotifyOneFacts ==
    ASSUME NEW S, NEW n \in Notifies(S)
    PROVE  /\ NotifyOne(n) \in Notifies(S) /\ Parked(NotifyOne(n)) \subseteq Parked(n)
           /\ Parked(n) # {} => NotifyOne(n).one # {}
<1>1. n.queue \in Seq(S) /\ n.one \in SUBSET S /\ n.all \in SUBSET S /\ n.permit \in BOOLEAN
  BY DEF Notifies
<1>2. n.queue # <<>> => Head(n.queue) \in S /\ Tail(n.queue) \in Seq(S)
  BY <1>1, WaitingFacts
<1>3. NotifyOne(n) \in Notifies(S)
  BY <1>1, <1>2 DEF NotifyOne, Notifies
<1>4. Parked(NotifyOne(n)) \subseteq Parked(n)
  BY WaitingFacts DEF NotifyOne, Parked, Notifies
<1>5. Parked(n) # {} => NotifyOne(n).one # {}
  BY WaitingFacts DEF NotifyOne, Parked, Notifies
<1> QED BY <1>3, <1>4, <1>5
=============================================================================
