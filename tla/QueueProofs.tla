---------------------------- MODULE QueueProofs -----------------------------
(***************************************************************************)
(* Queue for any number of calls and any capacity: nobody stays blocked    *)
(* while there is something for him to do, and a call tells the truth of   *)
(* its element.                                                            *)
(***************************************************************************)
EXTENDS Queue, NotifyProofs, FiniteSetTheorems

Listeners(e) == Waiting(e.queue) \cup e.woken

\* A task listens once, and is woken or not.
Orderly(e) == Distinct(e.queue) /\ Waiting(e.queue) \cap e.woken = {}

\* notify_additional(1) wakes one more while somebody listens.
LEMMA NotifyNextFacts ==
    ASSUME NEW e \in Events(Tasks), Orderly(e)
    PROVE  /\ NotifyNext(e) \in Events(Tasks) /\ Orderly(NotifyNext(e))
           /\ Listeners(NotifyNext(e)) = Listeners(e)
           /\ e.queue = <<>> => NotifyNext(e) = e
           /\ NotifyNext(e).queue # <<>> => e.queue # <<>>
           /\ e.queue # <<>> =>
                Cardinality(NotifyNext(e).woken) = Cardinality(e.woken) + 1
<1>0. e.queue \in Seq(Tasks) /\ e.woken \in SUBSET Tasks /\ IsFiniteSet(e.woken)
  BY TaskAssumption, FS_Subset DEF Events
<1>1. CASE e.queue = <<>>
  BY <1>1 DEF NotifyNext
<1>2. CASE e.queue # <<>>
  <2> DEFINE h == Head(e.queue)
  <2>1. NotifyNext(e) = [queue |-> Tail(e.queue), woken |-> e.woken \cup {h}]
    BY <1>2 DEF NotifyNext
  <2>2. /\ Tail(e.queue) \in Seq(Tasks) /\ Distinct(Tail(e.queue))
        /\ Waiting(Tail(e.queue)) = Waiting(e.queue) \ {h} /\ h \in Waiting(e.queue)
    BY <1>0, <1>2, TailDistinct DEF Orderly
  <2>3. h \in Tasks
    BY <1>0, <1>2, WaitingFacts
  <2>4. h \notin e.woken
    BY <2>2 DEF Orderly
  <2> HIDE DEF h
  <2>5. Cardinality(e.woken \cup {h}) = Cardinality(e.woken) + 1
    BY <1>0, <2>4, FS_AddElement
  <2>6. NotifyNext(e) \in Events(Tasks)
    BY <1>0, <2>1, <2>2, <2>3 DEF Events
  <2>7. Orderly(NotifyNext(e)) /\ Listeners(NotifyNext(e)) = Listeners(e)
    BY <2>1, <2>2 DEF Orderly, Listeners
  <2> QED BY <1>2, <2>1, <2>5, <2>6, <2>7
<1> QED BY <1>1, <1>2

\* close() wakes all.
LEMMA NotifyAllFacts ==
    ASSUME NEW e \in Events(Tasks), Orderly(e)
    PROVE  /\ NotifyAll(e) \in Events(Tasks) /\ Orderly(NotifyAll(e))
           /\ Listeners(NotifyAll(e)) = Listeners(e)
           /\ NotifyAll(e).queue = <<>>
<1>1. e.queue \in Seq(Tasks) /\ e.woken \in SUBSET Tasks /\ Waiting(e.queue) \in SUBSET Tasks
  BY WaitingFacts DEF Events
<1>2. Distinct(<<>>) /\ Waiting(<<>>) = {} /\ <<>> \in Seq(Tasks)
  BY DEF Distinct, Waiting
<1> QED BY <1>1, <1>2 DEF NotifyAll, Events, Orderly, Listeners

\* A woken task is polled.
LEMMA ConsumeFacts ==
    ASSUME NEW e \in Events(Tasks), Orderly(e), NEW t \in e.woken
    PROVE  /\ Consume(e, t) \in Events(Tasks) /\ Orderly(Consume(e, t))
           /\ Listeners(Consume(e, t)) = Listeners(e) \ {t}
           /\ Consume(e, t).queue = e.queue
           /\ Cardinality(Consume(e, t).woken) + 1 = Cardinality(e.woken)
<1>1. e.queue \in Seq(Tasks) /\ e.woken \in SUBSET Tasks /\ IsFiniteSet(e.woken)
  BY TaskAssumption, FS_Subset DEF Events
<1>2. Consume(e, t).queue = e.queue /\ Consume(e, t).woken = e.woken \ {t}
  BY DEF Consume, Events
<1>3. Consume(e, t) \in Events(Tasks)
  BY <1>1 DEF Consume, Events
<1>4. t \notin Waiting(e.queue)
  BY DEF Orderly
<1>5. Cardinality(e.woken \ {t}) = Cardinality(e.woken) - 1 /\ Cardinality(e.woken) \in Nat
  BY <1>1, FS_RemoveElement, FS_CardinalityType
<1>6. Orderly(Consume(e, t)) /\ Listeners(Consume(e, t)) = Listeners(e) \ {t}
  BY <1>2, <1>4 DEF Orderly, Listeners
<1> QED BY <1>2, <1>3, <1>5, <1>6

\* A task that does not listen begins to.
LEMMA ListenFacts ==
    ASSUME NEW e \in Events(Tasks), Orderly(e), NEW t \in Tasks, t \notin Listeners(e)
    PROVE  /\ Listen(e, t) \in Events(Tasks) /\ Orderly(Listen(e, t))
           /\ Listeners(Listen(e, t)) = Listeners(e) \cup {t}
           /\ Listen(e, t).woken = e.woken
<1>1. e.queue \in Seq(Tasks) /\ e.woken \in SUBSET Tasks
  BY DEF Events
<1>2. Listen(e, t).queue = Append(e.queue, t) /\ Listen(e, t).woken = e.woken
  BY DEF Listen, Events
<1>3. Append(e.queue, t) \in Seq(Tasks) /\ Waiting(Append(e.queue, t)) = Waiting(e.queue) \cup {t}
  BY <1>1, WaitingFacts
<1>4. Distinct(Append(e.queue, t))
  BY <1>1, AppendDistinct DEF Orderly, Listeners
<1>5. Listen(e, t) \in Events(Tasks)
  BY <1>1, <1>3 DEF Listen, Events
<1> QED BY <1>2, <1>3, <1>4, <1>5 DEF Orderly, Listeners

\* A listener is dropped: its notification is not lost while others listen.
LEMMA UnlistenFacts ==
    ASSUME NEW e \in Events(Tasks), Orderly(e), NEW t \in Listeners(e)
    PROVE  /\ Unlisten(e, t) \in Events(Tasks) /\ Orderly(Unlisten(e, t))
           /\ Listeners(Unlisten(e, t)) = Listeners(e) \ {t}
           /\ Unlisten(e, t).queue # <<>> =>
                e.queue # <<>> /\ Cardinality(Unlisten(e, t).woken) = Cardinality(e.woken)
<1>1. CASE t \in e.woken
  <2> DEFINE c == Consume(e, t)
  <2>1. /\ c \in Events(Tasks) /\ Orderly(c) /\ Listeners(c) = Listeners(e) \ {t}
        /\ c.queue = e.queue /\ Cardinality(c.woken) + 1 = Cardinality(e.woken)
    BY <1>1, ConsumeFacts
  <2>2. Unlisten(e, t) = NotifyNext(c)
    BY <1>1 DEF Unlisten
  <2> HIDE DEF c
  <2> QED BY <2>1, <2>2, NotifyNextFacts
<1>2. CASE t \notin e.woken
  <2>1. e.queue \in Seq(Tasks) /\ e.woken \in SUBSET Tasks /\ t \in Waiting(e.queue)
    BY <1>2 DEF Events, Listeners
  <2>2. /\ Unlisten(e, t).queue = Leave(e.queue, t) /\ Unlisten(e, t).woken = e.woken
        /\ Unlisten(e, t) = [e EXCEPT !.queue = Leave(e.queue, t)]
    BY <1>2 DEF Unlisten, Events
  <2>3. /\ Leave(e.queue, t) \in Seq(Tasks) /\ Distinct(Leave(e.queue, t))
        /\ Waiting(Leave(e.queue, t)) = Waiting(e.queue) \ {t}
    BY <2>1, LeaveFacts DEF Orderly
  <2>4. Unlisten(e, t) \in Events(Tasks)
    BY <2>1, <2>2, <2>3 DEF Events
  <2>5. e.queue # <<>>
    BY <2>1, WaitingFacts
  <2> QED BY <1>2, <2>2, <2>3, <2>4, <2>5 DEF Orderly, Listeners
<1> QED BY <1>1, <1>2

-----------------------------------------------------------------------------
(* The inductive invariant.                                                  *)

Calling(op) == {t \in Tasks : call[t] = op}

\* The listeners of an event are the calls that wait for it, and a closed queue
\* has none left to wake.
EventsInv ==
    /\ Orderly(room) /\ Listeners(room) = Calling("enqueue")
    /\ Orderly(work) /\ Listeners(work) = Calling("dequeue")
    /\ closed => room.queue = <<>> /\ work.queue = <<>>

\* BlockedOnlyWithoutWork, counted over all that are woken.
WakesInv ==
    /\ work.queue # <<>> => Cardinality(work.woken) >= Len(items)
    /\ room.queue # <<>> => Capacity > 0 /\ Cardinality(room.woken) >= Capacity - Len(items)

Delivered == {call[u] : u \in Tasks}

\* An element is once in the queue or the result of one call, and that call
\* which sent it returned Ok.
ItemsInv ==
    /\ Distinct(items) /\ Waiting(items) \cap Delivered = {}
    /\ \A u, v \in Tasks : call[u] = call[v] /\ call[u] \in Tasks => u = v
    /\ \A t \in Tasks : call[t] = "Ok" <=> t \in Waiting(items) \cup Delivered

Inv == TypeOK /\ EventsInv /\ WakesInv /\ ItemsInv /\ NoneIsTheEnd

\* What a call is in, or returned, when it is not an element.
Words == {"idle", "enqueue", "dequeue", "wait", "dropped"} \cup Results

\* A result that is an element is not taken for anything else.
LEMMA WordsFacts == Words \cap Tasks = {}
BY TaskAssumption DEF Words, Results

\* A call that returns r leaves the calls it was among.
LEMMA ReturnFacts ==
    ASSUME call \in [Tasks -> Words \cup Tasks], NEW t \in Tasks,
           NEW r \in Words \cup Tasks, Return(t, r)
    PROVE  /\ call' \in [Tasks -> Words \cup Tasks]
           /\ call'[t] = r /\ \A u \in Tasks : u # t => call'[u] = call[u]
           /\ Calling("enqueue")' = IF r = "enqueue" THEN Calling("enqueue") \cup {t}
                                    ELSE Calling("enqueue") \ {t}
           /\ Calling("dequeue")' = IF r = "dequeue" THEN Calling("dequeue") \cup {t}
                                    ELSE Calling("dequeue") \ {t}
BY DEF Return, Calling

\* A call that sends and delivers nothing.
LEMMA ItemsKept ==
    ASSUME TypeOK, ItemsInv, NEW t \in Tasks, NEW r \in Words \ {"Ok"}, Return(t, r),
           call[t] \in Words \ {"Ok"}, UNCHANGED items
    PROVE  ItemsInv'
<1>1. call \in [Tasks -> Words \cup Tasks] /\ items \in Seq(Tasks)
  BY DEF TypeOK, Words
<1>2. /\ call'[t] = r /\ \A u \in Tasks : u # t => call'[u] = call[u]
      /\ r \notin Tasks /\ call[t] \notin Tasks
  BY <1>1, ReturnFacts, WordsFacts
<1>3. Waiting(items) \in SUBSET Tasks
  BY <1>1, WaitingFacts
<1>4. \A x \in Tasks : x \in Delivered' <=> x \in Delivered
  BY <1>2 DEF Delivered
<1>5. Waiting(items)' = Waiting(items) /\ Distinct(items)' = Distinct(items)
  BY DEF Waiting, Distinct
<1>6. \A u, v \in Tasks : call'[u] = call'[v] /\ call'[u] \in Tasks => u = v
  BY <1>2 DEF ItemsInv
<1>7. \A u \in Tasks : call'[u] = "Ok" <=> call[u] = "Ok"
  BY <1>2
<1> QED BY <1>3, <1>4, <1>5, <1>6, <1>7 DEF ItemsInv

\* The element of a send is neither in the queue nor delivered before.
LEMMA ItemSent ==
    ASSUME TypeOK, ItemsInv, NEW t \in Tasks, call[t] \in Words \ {"Ok"}, Return(t, "Ok"),
           items' = Append(items, t)
    PROVE  ItemsInv'
<1>1. call \in [Tasks -> Words \cup Tasks] /\ items \in Seq(Tasks) /\ "Ok" \in Words
  BY DEF TypeOK, Words, Results
<1>2. /\ call'[t] = "Ok" /\ \A u \in Tasks : u # t => call'[u] = call[u]
      /\ "Ok" \notin Tasks /\ call[t] \notin Tasks
  BY <1>1, ReturnFacts, WordsFacts
<1>3. t \notin Waiting(items) \cup Delivered
  BY DEF ItemsInv
<1>4. /\ Waiting(items') = Waiting(items) \cup {t} /\ Distinct(items')
      /\ Waiting(items) \in SUBSET Tasks
  BY <1>1, <1>3, WaitingFacts, AppendDistinct DEF ItemsInv
<1>5. \A x \in Tasks : x \in Delivered' <=> x \in Delivered
  BY <1>2 DEF Delivered
<1>6. \A u, v \in Tasks : call'[u] = call'[v] /\ call'[u] \in Tasks => u = v
  BY <1>2 DEF ItemsInv
<1>7. \A u \in Tasks : call'[u] = "Ok" <=> call[u] = "Ok" \/ u = t
  BY <1>2
<1> QED BY <1>3, <1>4, <1>5, <1>6, <1>7 DEF ItemsInv

\* A receiver takes the oldest element with it.
LEMMA ItemReceived ==
    ASSUME TypeOK, ItemsInv, NEW t \in Tasks, call[t] \in Words \ {"Ok"},
           items # <<>>, Return(t, Head(items)), items' = Tail(items)
    PROVE  ItemsInv'
<1> DEFINE h == Head(items)
<1>1. call \in [Tasks -> Words \cup Tasks] /\ items \in Seq(Tasks)
  BY DEF TypeOK, Words
<1>2. h \in Tasks /\ Waiting(items) \in SUBSET Tasks
  BY <1>1, WaitingFacts
<1>3. /\ call'[t] = h /\ \A u \in Tasks : u # t => call'[u] = call[u]
      /\ "Ok" \notin Tasks /\ call[t] \notin Tasks
  BY <1>1, <1>2, ReturnFacts, WordsFacts DEF Words, Results
<1>4. /\ Distinct(items') /\ Waiting(items') = Waiting(items) \ {h} /\ h \in Waiting(items)
  BY <1>1, TailDistinct DEF ItemsInv
<1> HIDE DEF h
<1>5. \A x \in Tasks : x \in Delivered' <=> x \in Delivered \/ x = h
  BY <1>2, <1>3 DEF Delivered
<1>6. \A u, v \in Tasks : call'[u] = call'[v] /\ call'[u] \in Tasks => u = v
  <2>1. \A u \in Tasks : call[u] # h
    BY <1>4 DEF ItemsInv, Delivered
  <2> QED BY <1>3, <2>1 DEF ItemsInv
<1>7. \A u \in Tasks : call'[u] = "Ok" <=> call[u] = "Ok"
  BY <1>2, <1>3
<1>8. h \notin Delivered
  BY <1>4 DEF ItemsInv
<1> QED BY <1>2, <1>4, <1>5, <1>6, <1>7, <1>8 DEF ItemsInv

\* The sizes of the woken sets.
LEMMA Sizes ==
    ASSUME TypeOK
    PROVE  /\ items \in Seq(Tasks) /\ Len(items) \in Nat /\ Capacity \in Nat
           /\ \A e \in Events(Tasks) : Cardinality(e.woken) \in Nat
<1>1. \A e \in Events(Tasks) : e.woken \in SUBSET Tasks
  BY DEF Events
<1>2. \A S \in SUBSET Tasks : Cardinality(S) \in Nat
  BY TaskAssumption, FS_Subset, FS_CardinalityType
<1> QED BY <1>1, <1>2, TaskAssumption DEF TypeOK

\* Sender::try_send of a task that came to it with the listener left.
LEMMA SendStep ==
    ASSUME Inv, NEW t \in Tasks, NEW left \in Events(Tasks), NEW whenFull \in {"Full", "enqueue"},
           call[t] \in {"idle", "enqueue"}, Orderly(left),
           Listeners(left) = Calling("enqueue") \ {t}, left.queue = room.queue,
           Cardinality(left.woken) + 1 >= Cardinality(room.woken),
           Send(t, left, whenFull), UNCHANGED closed
    PROVE  Inv'
<1>0. /\ room \in Events(Tasks) /\ work \in Events(Tasks) /\ closed \in BOOLEAN
      /\ call \in [Tasks -> Words \cup Tasks]
      /\ items \in Seq(Tasks) /\ (Capacity > 0 => Len(items) <= Capacity)
  BY DEF Inv, TypeOK, Words
<1>1. /\ Len(items) \in Nat /\ Capacity \in Nat
      /\ \A e \in Events(Tasks) : Cardinality(e.woken) \in Nat
  BY Sizes DEF Inv
<1>2. /\ Orderly(room) /\ Listeners(room) = Calling("enqueue")
      /\ Orderly(work) /\ Listeners(work) = Calling("dequeue")
      /\ closed => room.queue = <<>> /\ work.queue = <<>>
  BY DEF Inv, EventsInv
<1>3. /\ work.queue # <<>> => Cardinality(work.woken) >= Len(items)
      /\ room.queue # <<>> => Capacity > 0 /\ Cardinality(room.woken) >= Capacity - Len(items)
  BY DEF Inv, WakesInv
<1>4. call[t] \in Words \ {"Ok"} /\ t \notin Calling("dequeue")
  BY DEF Words, Calling
<1>5. ASSUME closed, Return(t, "Closed"), room' = left, UNCHANGED <<items, work>> PROVE Inv'
  <2>1. "Closed" \in Words \ {"Ok"}
    BY DEF Words, Results
  <2>2. /\ call' \in [Tasks -> Words \cup Tasks]
        /\ call'[t] = "Closed" /\ \A u \in Tasks : u # t => call'[u] = call[u]
        /\ Calling("enqueue")' = Calling("enqueue") \ {t}
        /\ Calling("dequeue")' = Calling("dequeue") \ {t}
    BY <1>0, <1>5, <2>1, ReturnFacts
  <2>3. ItemsInv'
    BY <1>4, <1>5, <2>1, ItemsKept DEF Inv
  <2>4. TypeOK'
    BY <1>0, <1>5, <2>2 DEF TypeOK, Words
  <2>5. EventsInv'
    BY <1>2, <1>4, <1>5, <2>2 DEF EventsInv
  <2>6. WakesInv'
    BY <1>2, <1>5 DEF WakesInv
  <2>7. NoneIsTheEnd'
    BY <1>5, <2>2 DEF Inv, NoneIsTheEnd
  <2> QED BY <2>3, <2>4, <2>5, <2>6, <2>7 DEF Inv
<1>6. ASSUME ~closed, ~Full, items' = Append(items, t), work' = NotifyNext(work),
             Return(t, "Ok"), room' = left
      PROVE  Inv'
  <2>1. "Ok" \in Words
    BY DEF Words, Results
  <2>2. /\ call' \in [Tasks -> Words \cup Tasks]
        /\ call'[t] = "Ok" /\ \A u \in Tasks : u # t => call'[u] = call[u]
        /\ Calling("enqueue")' = Calling("enqueue") \ {t}
        /\ Calling("dequeue")' = Calling("dequeue") \ {t}
    BY <1>0, <1>6, <2>1, ReturnFacts
  <2>3. ItemsInv'
    BY <1>4, <1>6, ItemSent DEF Inv
  <2>4. items' \in Seq(Tasks) /\ Len(items') = Len(items) + 1
    BY <1>0, <1>6
  <2>5. Capacity > 0 => Len(items') <= Capacity
    BY <1>1, <1>6, <2>4 DEF Full
  <2>6. /\ work' \in Events(Tasks) /\ Orderly(work') /\ Listeners(work') = Listeners(work)
        /\ work.queue = <<>> => work' = work
        /\ work'.queue # <<>> =>
              work.queue # <<>> /\ Cardinality(work'.woken) = Cardinality(work.woken) + 1
    BY <1>0, <1>2, <1>6, NotifyNextFacts
  <2>7. TypeOK'
    BY <1>0, <1>6, <2>2, <2>4, <2>5, <2>6 DEF TypeOK, Words
  <2>8. EventsInv'
    BY <1>2, <1>4, <1>6, <2>2, <2>6 DEF EventsInv
  <2>9. WakesInv'
    <3>1. work'.queue # <<>> => Cardinality(work'.woken) >= Len(items')
      BY <1>0, <1>1, <1>3, <2>4, <2>6
    <3>2. room'.queue # <<>> => Capacity > 0 /\ Cardinality(room'.woken) >= Capacity - Len(items')
      <4>1. Cardinality(left.woken) \in Nat /\ Cardinality(room.woken) \in Nat
        BY <1>0, <1>1
      <4> QED BY <1>1, <1>3, <1>6, <2>4, <4>1
    <3> QED BY <3>1, <3>2 DEF WakesInv
  <2>10. NoneIsTheEnd'
    BY <1>6, <2>2 DEF Inv, NoneIsTheEnd
  <2> QED BY <2>3, <2>7, <2>8, <2>9, <2>10 DEF Inv
<1>7. ASSUME ~closed, Full, UNCHANGED <<items, work>>, Return(t, whenFull),
             room' = IF whenFull = "enqueue" THEN Listen(left, t) ELSE left
      PROVE  Inv'
  <2>1. whenFull \in Words \ {"Ok"}
    BY DEF Words, Results
  <2>2. /\ call' \in [Tasks -> Words \cup Tasks]
        /\ call'[t] = whenFull /\ \A u \in Tasks : u # t => call'[u] = call[u]
        /\ Calling("enqueue")' = IF whenFull = "enqueue" THEN Calling("enqueue") \cup {t}
                                 ELSE Calling("enqueue") \ {t}
        /\ Calling("dequeue")' = Calling("dequeue") \ {t}
    BY <1>0, <1>7, <2>1, ReturnFacts
  <2>3. ItemsInv'
    BY <1>4, <1>7, <2>1, ItemsKept DEF Inv
  <2>4. /\ room' \in Events(Tasks) /\ Orderly(room')
        /\ Listeners(room') = Calling("enqueue")'
    BY <1>7, <2>2, ListenFacts
  <2>5. TypeOK'
    BY <1>0, <1>7, <2>2, <2>4 DEF TypeOK, Words
  <2>6. EventsInv'
    BY <1>2, <1>4, <1>7, <2>2, <2>4 DEF EventsInv
  <2>7. WakesInv'
    <3>1. Capacity > 0 /\ Capacity - Len(items) <= 0
      BY <1>1, <1>7 DEF Full
    <3>2. Cardinality(room'.woken) \in Nat
      BY <1>1, <2>4
    <3> QED BY <1>1, <1>3, <1>7, <3>1, <3>2 DEF WakesInv
  <2>8. NoneIsTheEnd'
    BY <1>7, <2>2 DEF Inv, NoneIsTheEnd
  <2> QED BY <2>3, <2>5, <2>6, <2>7, <2>8 DEF Inv
<1> QED BY <1>5, <1>6, <1>7 DEF Send

\* Receiver::try_recv, likewise.
LEMMA ReceiveStep ==
    ASSUME Inv, NEW t \in Tasks, NEW left \in Events(Tasks), NEW whenEmpty \in {"None", "dequeue"},
           call[t] \in {"idle", "dequeue"}, Orderly(left),
           Listeners(left) = Calling("dequeue") \ {t}, left.queue = work.queue,
           Cardinality(left.woken) + 1 >= Cardinality(work.woken),
           Receive(t, left, whenEmpty), UNCHANGED closed
    PROVE  Inv'
<1>0. /\ room \in Events(Tasks) /\ work \in Events(Tasks) /\ closed \in BOOLEAN
      /\ call \in [Tasks -> Words \cup Tasks]
      /\ items \in Seq(Tasks) /\ (Capacity > 0 => Len(items) <= Capacity)
  BY DEF Inv, TypeOK, Words
<1>1. /\ Len(items) \in Nat /\ Capacity \in Nat
      /\ \A e \in Events(Tasks) : Cardinality(e.woken) \in Nat
  BY Sizes DEF Inv
<1>2. /\ Orderly(room) /\ Listeners(room) = Calling("enqueue")
      /\ Orderly(work) /\ Listeners(work) = Calling("dequeue")
      /\ closed => room.queue = <<>> /\ work.queue = <<>>
  BY DEF Inv, EventsInv
<1>3. /\ work.queue # <<>> => Cardinality(work.woken) >= Len(items)
      /\ room.queue # <<>> => Capacity > 0 /\ Cardinality(room.woken) >= Capacity - Len(items)
  BY DEF Inv, WakesInv
<1>4. call[t] \in Words \ {"Ok"} /\ t \notin Calling("enqueue")
  BY DEF Words, Calling
\* The queue is empty, and t returns None or blocks.
<1>a. ASSUME items = <<>>, UNCHANGED <<items, room>>,
             NEW r \in {"None", "End", "dequeue"}, r = "End" => closed, r = "dequeue" => ~closed,
             Return(t, r), work' = IF r = "dequeue" THEN Listen(left, t) ELSE left
      PROVE  Inv'
  <2>1. r \in Words \ {"Ok"}
    BY DEF Words, Results
  <2>2. /\ call' \in [Tasks -> Words \cup Tasks]
        /\ call'[t] = r /\ \A u \in Tasks : u # t => call'[u] = call[u]
        /\ Calling("enqueue")' = Calling("enqueue") \ {t}
        /\ Calling("dequeue")' = IF r = "dequeue" THEN Calling("dequeue") \cup {t}
                                 ELSE Calling("dequeue") \ {t}
    BY <1>0, <1>a, <2>1, ReturnFacts
  <2>3. ItemsInv'
    BY <1>4, <1>a, <2>1, ItemsKept DEF Inv
  <2>4. /\ work' \in Events(Tasks) /\ Orderly(work')
        /\ Listeners(work') = Calling("dequeue")'
    BY <1>a, <2>2, ListenFacts
  <2>5. TypeOK'
    BY <1>0, <1>a, <2>2, <2>4 DEF TypeOK, Words
  <2>6. EventsInv'
    BY <1>2, <1>4, <1>a, <2>2, <2>4 DEF EventsInv
  <2>7. WakesInv'
    <3>1. Len(items) = 0
      BY <1>a
    <3>2. Cardinality(work'.woken) \in Nat
      BY <1>1, <2>4
    <3> QED BY <1>1, <1>3, <1>a, <3>1, <3>2 DEF WakesInv
  <2>8. NoneIsTheEnd'
    BY <1>a, <2>2 DEF Inv, NoneIsTheEnd
  <2> QED BY <2>3, <2>5, <2>6, <2>7, <2>8 DEF Inv
<1>5. ASSUME items # <<>>, items' = Tail(items), room' = NotifyNext(room),
             Return(t, Head(items)), work' = left
      PROVE  Inv'
  <2>1. Head(items) \in Tasks /\ Head(items) \notin Words
    BY <1>0, <1>5, WaitingFacts, WordsFacts
  <2>2. /\ call' \in [Tasks -> Words \cup Tasks]
        /\ call'[t] = Head(items) /\ \A u \in Tasks : u # t => call'[u] = call[u]
        /\ Calling("enqueue")' = Calling("enqueue") \ {t}
        /\ Calling("dequeue")' = Calling("dequeue") \ {t}
    BY <1>0, <1>5, <2>1, ReturnFacts DEF Words
  <2>3. ItemsInv'
    BY <1>4, <1>5, ItemReceived DEF Inv
  <2>4. items' \in Seq(Tasks) /\ Len(items') = Len(items) - 1 /\ Len(items') \in Nat
    BY <1>0, <1>5
  <2>5. Capacity > 0 => Len(items') <= Capacity
    BY <1>0, <1>1, <2>4
  <2>6. /\ room' \in Events(Tasks) /\ Orderly(room') /\ Listeners(room') = Listeners(room)
        /\ room.queue = <<>> => room' = room
        /\ room'.queue # <<>> =>
              room.queue # <<>> /\ Cardinality(room'.woken) = Cardinality(room.woken) + 1
    BY <1>0, <1>2, <1>5, NotifyNextFacts
  <2>7. TypeOK'
    BY <1>0, <1>5, <2>2, <2>4, <2>5, <2>6 DEF TypeOK, Words
  <2>8. EventsInv'
    BY <1>2, <1>4, <1>5, <2>2, <2>6 DEF EventsInv
  <2>9. WakesInv'
    <3>1. room'.queue # <<>> => Capacity > 0 /\ Cardinality(room'.woken) >= Capacity - Len(items')
      BY <1>0, <1>1, <1>3, <2>4, <2>6
    <3>2. work'.queue # <<>> => Cardinality(work'.woken) >= Len(items')
      <4>1. Cardinality(left.woken) \in Nat /\ Cardinality(work.woken) \in Nat
        BY <1>0, <1>1
      <4> QED BY <1>1, <1>3, <1>5, <2>4, <4>1
    <3> QED BY <3>1, <3>2 DEF WakesInv
  <2>10. NoneIsTheEnd'
    <3>1. \A u \in Tasks : call[u] # "End"
      BY <1>5 DEF Inv, NoneIsTheEnd
    <3>2. Head(items) # "End"
      BY <2>1 DEF Words, Results
    <3> QED BY <2>2, <3>1, <3>2 DEF NoneIsTheEnd
  <2> QED BY <2>3, <2>7, <2>8, <2>9, <2>10 DEF Inv
<1> QED BY <1>5, <1>a DEF Receive

\* A new queue is empty and nobody has called it.
LEMMA InitInv == Init => Inv
<1> SUFFICES ASSUME Init PROVE Inv
  OBVIOUS
<1>1. /\ items = <<>> /\ closed = FALSE /\ call = [t \in Tasks |-> "idle"]
      /\ room = [queue |-> <<>>, woken |-> {}] /\ work = [queue |-> <<>>, woken |-> {}]
  BY DEF Init, NewEvent
<1>2. <<>> \in Seq(Tasks) /\ Distinct(<<>>) /\ Waiting(<<>>) = {} /\ Len(<<>>) = 0
  BY DEF Distinct, Waiting
<1>3. room \in Events(Tasks) /\ work \in Events(Tasks)
  BY <1>1, <1>2 DEF Events
<1>4. TypeOK
  <2>1. items \in Seq(Tasks) /\ (Capacity > 0 => Len(items) <= Capacity)
    BY <1>1, <1>2, TaskAssumption
  <2>2. call \in [Tasks -> Words \cup Tasks]
    BY <1>1 DEF Words
  <2> QED BY <1>1, <1>3, <2>1, <2>2 DEF TypeOK, Words
<1>5. EventsInv
  BY <1>1, <1>2 DEF EventsInv, Orderly, Listeners, Calling
<1>6. WakesInv
  BY <1>1 DEF WakesInv
<1>7. ItemsInv
  BY <1>1, <1>2, TaskAssumption DEF ItemsInv, Delivered
<1>8. NoneIsTheEnd
  BY <1>1 DEF NoneIsTheEnd
<1> QED BY <1>4, <1>5, <1>6, <1>7, <1>8 DEF Inv

\* No call, poll, close or drop breaks it.
LEMMA StepInv == Inv /\ [Next]_vars => Inv'
<1> SUFFICES ASSUME Inv, [Next]_vars PROVE Inv'
  OBVIOUS
<1>0. /\ room \in Events(Tasks) /\ work \in Events(Tasks) /\ closed \in BOOLEAN
      /\ call \in [Tasks -> Words \cup Tasks]
      /\ items \in Seq(Tasks) /\ (Capacity > 0 => Len(items) <= Capacity)
  BY DEF Inv, TypeOK, Words
<1>1. /\ Len(items) \in Nat /\ Capacity \in Nat
      /\ \A e \in Events(Tasks) : Cardinality(e.woken) \in Nat
  BY Sizes DEF Inv
<1>2. /\ Orderly(room) /\ Listeners(room) = Calling("enqueue")
      /\ Orderly(work) /\ Listeners(work) = Calling("dequeue")
      /\ closed => room.queue = <<>> /\ work.queue = <<>>
  BY DEF Inv, EventsInv
<1>a. Cardinality(room.woken) \in Nat /\ Cardinality(work.woken) \in Nat
  BY <1>0, <1>1
\* Calls on an idle task.
<1>3. ASSUME NEW t \in Tasks, call[t] = "idle"
      PROVE  t \notin Calling("enqueue") \cup Calling("dequeue")
  BY <1>3 DEF Calling
<1>4. ASSUME NEW t \in Tasks, push(t) \/ enqueue(t) PROVE Inv'
  <2>1. call[t] = "idle" /\ UNCHANGED closed
    BY <1>4 DEF push, enqueue
  <2>2. PICK w \in {"Full", "enqueue"} : Send(t, room, w)
    BY <1>4 DEF push, enqueue
  <2>3. Cardinality(room.woken) + 1 >= Cardinality(room.woken)
    BY <1>a
  <2>4. Listeners(room) = Calling("enqueue") \ {t}
    BY <1>2, <1>3, <2>1
  <2> QED BY <1>0, <1>2, <2>1, <2>2, <2>3, <2>4, SendStep
<1>5. ASSUME NEW t \in Tasks, try_pop(t) \/ dequeue(t) PROVE Inv'
  <2>1. call[t] = "idle" /\ UNCHANGED closed
    BY <1>5 DEF try_pop, dequeue
  <2>2. PICK w \in {"None", "dequeue"} : Receive(t, work, w)
    BY <1>5 DEF try_pop, dequeue
  <2>3. Cardinality(work.woken) + 1 >= Cardinality(work.woken)
    BY <1>a
  <2>4. Listeners(work) = Calling("dequeue") \ {t}
    BY <1>2, <1>3, <2>1
  <2> QED BY <1>0, <1>2, <2>1, <2>2, <2>3, <2>4, ReceiveStep
<1>6. ASSUME NEW t \in Tasks, Resume(t) PROVE Inv'
  <2>0. UNCHANGED closed
    BY <1>6 DEF Resume
  <2>1. CASE t \in room.woken /\ Send(t, Consume(room, t), "enqueue")
    <3>1. /\ Consume(room, t) \in Events(Tasks) /\ Orderly(Consume(room, t))
          /\ Listeners(Consume(room, t)) = Listeners(room) \ {t}
          /\ Consume(room, t).queue = room.queue
          /\ Cardinality(Consume(room, t).woken) + 1 = Cardinality(room.woken)
      BY <1>0, <1>2, <2>1, ConsumeFacts
    <3>2. call[t] = "enqueue"
      BY <1>2, <2>1 DEF Listeners, Calling
    <3>3. Cardinality(Consume(room, t).woken) + 1 >= Cardinality(room.woken)
      BY <1>a, <3>1
    <3> QED BY <1>2, <2>0, <2>1, <3>1, <3>2, <3>3, SendStep
  <2>2. CASE t \in work.woken /\ Receive(t, Consume(work, t), "dequeue")
    <3>1. /\ Consume(work, t) \in Events(Tasks) /\ Orderly(Consume(work, t))
          /\ Listeners(Consume(work, t)) = Listeners(work) \ {t}
          /\ Consume(work, t).queue = work.queue
          /\ Cardinality(Consume(work, t).woken) + 1 = Cardinality(work.woken)
      BY <1>0, <1>2, <2>2, ConsumeFacts
    <3>2. call[t] = "dequeue"
      BY <1>2, <2>2 DEF Listeners, Calling
    <3>3. Cardinality(Consume(work, t).woken) + 1 >= Cardinality(work.woken)
      BY <1>a, <3>1
    <3> QED BY <1>2, <2>0, <2>2, <3>1, <3>2, <3>3, ReceiveStep
  <2> QED BY <1>6, <2>1, <2>2 DEF Resume
<1>7. ASSUME NEW t \in Tasks, wait_for_non_empty(t) PROVE Inv'
  <2>1. PICK r \in {"Ready", "wait"} : Return(t, r)
    BY <1>7 DEF wait_for_non_empty
  <2>2. call[t] \in {"idle", "wait"} /\ UNCHANGED <<items, closed, room, work>>
    BY <1>7 DEF wait_for_non_empty
  <2>3. r \in Words \ {"Ok"} /\ call[t] \in Words \ {"Ok"}
    BY <2>2 DEF Words, Results
  <2>4. /\ call' \in [Tasks -> Words \cup Tasks]
        /\ call'[t] = r /\ \A u \in Tasks : u # t => call'[u] = call[u]
        /\ Calling("enqueue")' = Calling("enqueue") /\ Calling("dequeue")' = Calling("dequeue")
    <3>1. t \notin Calling("enqueue") \cup Calling("dequeue")
      BY <2>2 DEF Calling
    <3>2. /\ call' \in [Tasks -> Words \cup Tasks]
          /\ call'[t] = r /\ \A u \in Tasks : u # t => call'[u] = call[u]
          /\ Calling("enqueue")' = Calling("enqueue") \ {t}
          /\ Calling("dequeue")' = Calling("dequeue") \ {t}
      <4>1. r \in Words \cup Tasks /\ r # "enqueue" /\ r # "dequeue"
        BY <2>3
      <4> QED BY <1>0, <2>1, <4>1, ReturnFacts
    <3> QED BY <3>1, <3>2
  <2>5. ItemsInv'
    BY <2>1, <2>2, <2>3, ItemsKept DEF Inv
  <2>6. TypeOK'
    BY <1>0, <2>2, <2>4 DEF TypeOK, Words
  <2>7. EventsInv'
    BY <1>2, <2>2, <2>4 DEF EventsInv
  <2>8. WakesInv' /\ NoneIsTheEnd'
    BY <2>2, <2>4 DEF Inv, WakesInv, NoneIsTheEnd
  <2> QED BY <2>5, <2>6, <2>7, <2>8 DEF Inv
<1>8. ASSUME NEW t \in Tasks, Drop(t) PROVE Inv'
  <2>1. /\ call[t] \in {"enqueue", "dequeue", "wait"} /\ Return(t, "dropped")
        /\ room' = (IF call[t] = "enqueue" THEN Unlisten(room, t) ELSE room)
        /\ work' = (IF call[t] = "dequeue" THEN Unlisten(work, t) ELSE work)
        /\ UNCHANGED <<items, closed>>
    BY <1>8 DEF Drop
  <2>2. "dropped" \in Words \ {"Ok"} /\ call[t] \in Words \ {"Ok"}
    BY <2>1 DEF Words
  <2>3. /\ call' \in [Tasks -> Words \cup Tasks]
        /\ call'[t] = "dropped" /\ \A u \in Tasks : u # t => call'[u] = call[u]
        /\ Calling("enqueue")' = Calling("enqueue") \ {t}
        /\ Calling("dequeue")' = Calling("dequeue") \ {t}
    BY <1>0, <2>1, <2>2, ReturnFacts
  <2>4. /\ room' \in Events(Tasks) /\ Orderly(room') /\ Listeners(room') = Calling("enqueue")'
        /\ room'.queue # <<>> =>
              room.queue # <<>> /\ Cardinality(room'.woken) = Cardinality(room.woken)
    <3>1. CASE call[t] = "enqueue"
      <4>1. t \in Listeners(room)
        BY <1>2, <3>1 DEF Calling
      <4> QED BY <1>0, <1>2, <2>1, <2>3, <3>1, <4>1, UnlistenFacts
    <3>2. CASE call[t] # "enqueue"
      <4>1. t \notin Calling("enqueue")
        BY <3>2 DEF Calling
      <4> QED BY <1>0, <1>2, <2>1, <2>3, <3>2, <4>1
    <3> QED BY <3>1, <3>2
  <2>5. /\ work' \in Events(Tasks) /\ Orderly(work') /\ Listeners(work') = Calling("dequeue")'
        /\ work'.queue # <<>> =>
              work.queue # <<>> /\ Cardinality(work'.woken) = Cardinality(work.woken)
    <3>1. CASE call[t] = "dequeue"
      <4>1. t \in Listeners(work)
        BY <1>2, <3>1 DEF Calling
      <4> QED BY <1>0, <1>2, <2>1, <2>3, <3>1, <4>1, UnlistenFacts
    <3>2. CASE call[t] # "dequeue"
      <4>1. t \notin Calling("dequeue")
        BY <3>2 DEF Calling
      <4> QED BY <1>0, <1>2, <2>1, <2>3, <3>2, <4>1
    <3> QED BY <3>1, <3>2
  <2>6. ItemsInv'
    BY <2>1, <2>2, ItemsKept DEF Inv
  <2>7. TypeOK'
    BY <1>0, <2>1, <2>3, <2>4, <2>5 DEF TypeOK, Words
  <2>8. EventsInv'
    BY <1>2, <2>1, <2>4, <2>5 DEF EventsInv
  <2>9. WakesInv'
    BY <2>1, <2>4, <2>5 DEF Inv, WakesInv
  <2>10. NoneIsTheEnd'
    BY <2>1, <2>3 DEF Inv, NoneIsTheEnd
  <2> QED BY <2>6, <2>7, <2>8, <2>9, <2>10 DEF Inv
<1>9. CASE close
  <2>1. /\ closed' = TRUE /\ room' = NotifyAll(room) /\ work' = NotifyAll(work)
        /\ UNCHANGED <<items, call>>
    BY <1>9 DEF close
  <2>2. /\ room' \in Events(Tasks) /\ Orderly(room') /\ Listeners(room') = Listeners(room)
        /\ work' \in Events(Tasks) /\ Orderly(work') /\ Listeners(work') = Listeners(work)
        /\ room'.queue = <<>> /\ work'.queue = <<>>
    BY <1>0, <1>2, <2>1, NotifyAllFacts
  <2>3. TypeOK'
    BY <1>0, <2>1, <2>2 DEF TypeOK, Words
  <2>4. EventsInv' /\ WakesInv'
    BY <1>2, <2>1, <2>2 DEF EventsInv, WakesInv, Calling
  <2>5. ItemsInv' /\ NoneIsTheEnd'
    BY <2>1 DEF Inv, ItemsInv, NoneIsTheEnd, Waiting, Distinct, Delivered
  <2> QED BY <2>3, <2>4, <2>5 DEF Inv
<1>10. CASE UNCHANGED vars
  BY <1>10 DEF vars, Inv, TypeOK, EventsInv, WakesInv, ItemsInv, NoneIsTheEnd, Orderly, Listeners,
               Calling, Delivered, Waiting, Distinct
<1> QED BY <1>4, <1>5, <1>6, <1>7, <1>8, <1>9, <1>10 DEF Next

-----------------------------------------------------------------------------
(* What the invariant says.                                                  *)

\* The calls woken for an operation are all that are woken.
LEMMA InvBlocked == Inv => BlockedOnlyWithoutWork
<1> SUFFICES ASSUME Inv PROVE BlockedOnlyWithoutWork
  OBVIOUS
<1>1. /\ Listeners(room) = Calling("enqueue") /\ Listeners(work) = Calling("dequeue")
      /\ closed => room.queue = <<>> /\ work.queue = <<>>
  BY DEF Inv, EventsInv
<1>2. {t \in work.woken : call[t] = "dequeue"} = work.woken
  BY <1>1 DEF Listeners, Calling
<1>3. {t \in room.woken : call[t] = "enqueue"} = room.woken
  BY <1>1 DEF Listeners, Calling
<1> QED BY <1>1, <1>2, <1>3 DEF Inv, WakesInv, BlockedOnlyWithoutWork, WokenFor

\* At most one thing is counted, and exactly one if the element was sent.
LEMMA InvOnce == Inv => ExactlyOnce
<1> SUFFICES ASSUME Inv, NEW t \in Tasks
             PROVE  Cardinality({i \in DOMAIN items : items[i] = t})
                       + Cardinality({u \in Tasks : call[u] = t}) = IF call[t] = "Ok" THEN 1 ELSE 0
  BY DEF ExactlyOnce
<1> DEFINE I == {i \in DOMAIN items : items[i] = t}
           U == {u \in Tasks : call[u] = t}
<1>1. /\ Distinct(items) /\ Waiting(items) \cap Delivered = {}
      /\ \A u, v \in Tasks : call[u] = call[v] /\ call[u] \in Tasks => u = v
      /\ call[t] = "Ok" <=> t \in Waiting(items) \cup Delivered
  BY DEF Inv, ItemsInv
<1>2. Cardinality(I) = IF t \in Waiting(items) THEN 1 ELSE 0
  <2>1. CASE t \in Waiting(items)
    <3>1. PICK i \in DOMAIN items : items[i] = t
      BY <2>1 DEF Waiting
    <3>2. I = {i}
      BY <1>1, <3>1 DEF Distinct
    <3> QED BY <2>1, <3>2, FS_Singleton
  <2>2. CASE t \notin Waiting(items)
    <3>1. I = {}
      BY <2>2 DEF Waiting
    <3> QED BY <2>2, <3>1, FS_EmptySet
  <2> QED BY <2>1, <2>2
<1>3. Cardinality(U) = IF t \in Delivered THEN 1 ELSE 0
  <2>1. CASE t \in Delivered
    <3>1. PICK u \in Tasks : call[u] = t
      BY <2>1 DEF Delivered
    <3>2. U = {u}
      BY <1>1, <3>1
    <3> QED BY <2>1, <3>2, FS_Singleton
  <2>2. CASE t \notin Delivered
    <3>1. U = {}
      BY <2>2 DEF Delivered
    <3> QED BY <2>2, <3>1, FS_EmptySet
  <2> QED BY <2>1, <2>2
<1> HIDE DEF I, U
<1>4. Cardinality(I) + Cardinality(U) = IF call[t] = "Ok" THEN 1 ELSE 0
  BY <1>1, <1>2, <1>3
<1> QED BY <1>4 DEF I, U

\* The queue keeps its types and its capacity, for any number of calls.
THEOREM QueueTypeCorrect == Spec => []TypeOK
<1>1. Inv => TypeOK
  BY DEF Inv
<1> QED BY <1>1, InitInv, StepInv, PTL DEF Spec

\* Nobody stays blocked in enqueue() or dequeue() while there is something for
\* him to do that nobody was woken for.
THEOREM BlockedInVain == Spec => []BlockedOnlyWithoutWork
BY InitInv, StepInv, InvBlocked, PTL DEF Spec

\* No element is lost, delivered twice, or delivered although it was refused.
THEOREM DeliveredOnce == Spec => []ExactlyOnce
BY InitInv, StepInv, InvOnce, PTL DEF Spec

\* The None of dequeue() is final.
THEOREM EndIsFinal == Spec => []NoneIsTheEnd
<1>1. Inv => NoneIsTheEnd
  BY DEF Inv
<1> QED BY <1>1, InitInv, StepInv, PTL DEF Spec
=============================================================================
