------------------------------- MODULE Queue --------------------------------
(***************************************************************************)
(* TesseraQueue (tessera-runtime/src/queue.rs) over async_channel.  Each   *)
(* task makes one call; the element a task sends is the task itself.       *)
(***************************************************************************)
EXTENDS DataBase, Event

VARIABLES
    items, closed,
    room, work,    \* the events that blocked senders and receivers listen to
    call           \* per task: "idle", what it waits in, its result, or "dropped"

vars == <<items, closed, room, work, call>>

Full == Capacity > 0 /\ Len(items) >= Capacity

\* What a call returns.  A receiver that gets an element returns that element.
Results == {"Ok", "Full", "Closed", "None", "End", "Ready"}

TypeOK ==
    /\ items \in Seq(Tasks) /\ (Capacity > 0 => Len(items) <= Capacity)
    /\ closed \in BOOLEAN
    /\ room \in Events(Tasks) /\ work \in Events(Tasks)
    /\ call \in [Tasks -> {"idle", "enqueue", "dequeue", "wait", "dropped"} \cup Results \cup Tasks]

Init ==
    /\ items = <<>>
    /\ closed = FALSE
    /\ room = NewEvent /\ work = NewEvent
    /\ call = [t \in Tasks |-> "idle"]

Return(t, r) == call' = [call EXCEPT ![t] = r]

\* Sender::try_send, by a task whose own listener on room is gone: closed is
\* looked at first.  The last alternative is what the caller does when full.
Send(t, roomLeft, whenFull) ==
    \/ closed /\ Return(t, "Closed") /\ room' = roomLeft /\ UNCHANGED <<items, work>>
    \/ /\ ~closed /\ ~Full
       /\ items' = Append(items, t) /\ work' = NotifyNext(work)
       /\ Return(t, "Ok") /\ room' = roomLeft
    \/ /\ ~closed /\ Full /\ UNCHANGED <<items, work>>
       /\ Return(t, whenFull)
       /\ room' = IF whenFull = "enqueue" THEN Listen(roomLeft, t) ELSE roomLeft

\* Receiver::try_recv, likewise: a closed queue is drained first.
Receive(t, workLeft, whenEmpty) ==
    \/ /\ items # <<>>
       /\ items' = Tail(items) /\ room' = NotifyNext(room)
       /\ Return(t, Head(items)) /\ work' = workLeft
    \/ /\ items = <<>> /\ UNCHANGED <<items, room>>
       /\ \/ whenEmpty = "None" /\ Return(t, "None") /\ work' = workLeft
          \/ whenEmpty = "dequeue" /\ closed /\ Return(t, "End") /\ work' = workLeft
          \/ /\ whenEmpty = "dequeue" /\ ~closed
             /\ Return(t, "dequeue") /\ work' = Listen(workLeft, t)

\* Mutant: try_send, whose answer is ignored.
Mut_enqueue(t) == call[t] = "idle" /\ Send(t, room, "Ok") /\ UNCHANGED closed

\* Mutant: try_recv, whose errors all become None.
Mut_dequeue(t) ==
    /\ call[t] = "idle" /\ UNCHANGED closed
    /\ \/ items # <<>> /\ Receive(t, work, "dequeue")
       \/ items = <<>> /\ Return(t, "End") /\ UNCHANGED <<items, room, work>>

\* push() says why it failed, tryPush() does not.
push(t)    == call[t] = "idle" /\ Send(t, room, "Full") /\ UNCHANGED closed
enqueue(t) == call[t] = "idle" /\ Send(t, room, "enqueue") /\ UNCHANGED closed
try_pop(t) == call[t] = "idle" /\ Receive(t, work, "None") /\ UNCHANGED closed
dequeue(t) == call[t] = "idle" /\ Receive(t, work, "dequeue") /\ UNCHANGED closed

\* A loop around yield_now: every poll looks again.
wait_for_non_empty(t) ==
    /\ call[t] \in {"idle", "wait"}
    /\ Return(t, IF items # <<>> \/ closed THEN "Ready" ELSE "wait")
    /\ UNCHANGED <<items, closed, room, work>>

close ==
    /\ ~closed /\ closed' = TRUE
    /\ room' = NotifyAll(room) /\ work' = NotifyAll(work)
    /\ UNCHANGED <<items, call>>

\* A blocked task is polled after a notification.
Resume(t) ==
    /\ UNCHANGED closed
    /\ \/ t \in room.woken /\ Send(t, Consume(room, t), "enqueue")
       \/ t \in work.woken /\ Receive(t, Consume(work, t), "dequeue")

\* Mutant: the body is set aside and not dropped.
Mut_Drop(t) ==
    /\ call[t] \in {"enqueue", "dequeue", "wait"}
    /\ Return(t, "dropped")
    /\ UNCHANGED <<items, closed, room, work>>

\* terminate() drops a body that is blocked on the queue (demo.tss:20).
Drop(t) ==
    /\ call[t] \in {"enqueue", "dequeue", "wait"}
    /\ Return(t, "dropped")
    /\ room' = IF call[t] = "enqueue" THEN Unlisten(room, t) ELSE room
    /\ work' = IF call[t] = "dequeue" THEN Unlisten(work, t) ELSE work
    /\ UNCHANGED <<items, closed>>

Next ==
    \/ close
    \/ \E t \in Tasks :
           \/ push(t) \/ enqueue(t) \/ try_pop(t) \/ dequeue(t)
           \/ wait_for_non_empty(t) \/ Resume(t) \/ Drop(t)

Spec == Init /\ [][Next]_vars

\* While receivers are blocked, as many others were woken, and will run, as there
\* are elements, and while senders are blocked, as many as there are free places,
\* whoever was overtaken or dropped; on a closed queue nobody is blocked.
WokenFor(e, op) == Cardinality({t \in e.woken : call[t] = op})
BlockedOnlyWithoutWork ==
    /\ work.queue # <<>> => ~closed /\ WokenFor(work, "dequeue") >= Len(items)
    /\ room.queue # <<>> => ~closed /\ Capacity > 0
                            /\ WokenFor(room, "enqueue") >= Capacity - Len(items)

\* An element is delivered at most once, and is in the queue or delivered if and
\* only if the call that sent it said so: not when it was refused or dropped.
ExactlyOnce ==
    \A t \in Tasks :
        Cardinality({i \in DOMAIN items : items[i] = t})
            + Cardinality({u \in Tasks : call[u] = t}) = IF call[t] = "Ok" THEN 1 ELSE 0

\* A dequeue() that returned None has seen the end: no element was left, and none
\* comes after it (queue.rs:92).
NoneIsTheEnd == (\E t \in Tasks : call[t] = "End") => closed /\ items = <<>>
=============================================================================
