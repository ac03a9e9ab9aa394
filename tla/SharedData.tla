----------------------------- MODULE SharedData -----------------------------
(***************************************************************************)
(* A locked value, a queue or a future, shared by the tasks of several     *)
(* threads, any of which terminate() may abandon while it waits.           *)
(***************************************************************************)
EXTENDS DataBase, Sequences

VARIABLES
    kind,                             \* "locked", "queue" or "future"
    owner, value, released,           \* Locked
    items, closed, room, work,        \* Queue
    state, sender, guard,             \* Futures
    call                              \* all three

lockedVars == <<owner, value, released>>
queueVars  == <<items, closed, room, work>>
futureVars == <<state, sender, guard>>
vars == <<kind, lockedVars, queueVars, futureVars, call>>

Loc == INSTANCE Locked
Que == INSTANCE Queue
Fut == INSTANCE Futures

TypeOK ==
    \/ kind = "locked" /\ Loc!TypeOK
    \/ kind = "queue"  /\ Que!TypeOK
    \/ kind = "future" /\ Fut!TypeOK

Init ==
    /\ kind \in {"locked", "queue", "future"}
    /\ Loc!Init /\ Que!Init /\ Fut!Init
    /\ kind # "future" => state = "Pending"

LockedCall(t) ==
    /\ kind = "locked"
    /\ \/ Loc!lock(t) \/ Loc!get(t) \/ Loc!set(t)
       \/ Loc!try_lock(t) \/ Loc!unlock(t) \/ Loc!Drop(t)
    /\ UNCHANGED <<kind, queueVars, futureVars>>

QueueCall(t) ==
    /\ kind = "queue"
    /\ \/ Que!push(t) \/ Que!enqueue(t) \/ Que!try_pop(t) \/ Que!dequeue(t)
       \/ call[t] = "idle" /\ Que!wait_for_non_empty(t)
       \/ Que!Drop(t)
    /\ UNCHANGED <<kind, lockedVars, futureVars>>

FutureCall(t) ==
    /\ kind = "future"
    /\ Fut!resolve(t) \/ Fut!Drop(t)
    /\ UNCHANGED <<kind, lockedVars, queueVars>>

\* The executor polls a task that was woken, or that yielded.
Poll(t) ==
    /\ \/ kind = "locked" /\ Loc!Resume(t) /\ UNCHANGED <<queueVars, futureVars>>
       \/ /\ kind = "queue" /\ UNCHANGED <<lockedVars, futureVars>>
          /\ Que!Resume(t) \/ (call[t] = "wait" /\ Que!wait_for_non_empty(t))
       \/ kind = "future" /\ Fut!Resume(t) /\ UNCHANGED <<lockedVars, queueVars>>
    /\ UNCHANGED kind

Close == kind = "queue" /\ Que!close /\ UNCHANGED <<kind, lockedVars, futureVars>>

\* The task of the future ends.
Complete ==
    /\ kind = "future"
    /\ Fut!Complete("Ok") \/ Fut!Complete("Failed")
    /\ UNCHANGED <<kind, lockedVars, queueVars>>

Next ==
    \/ \E t \in Tasks : LockedCall(t) \/ QueueCall(t) \/ FutureCall(t) \/ Poll(t)
    \/ Close \/ Complete

Spec == Init /\ [][Next]_vars

\* The executor polls every task that was woken.
FairSpec == Spec /\ \A t \in Tasks : WF_vars(Poll(t))

-----------------------------------------------------------------------------
\* Locked: no wakeup is lost between the check of the owner and the await.
FreeWakesAll == kind = "locked" => Loc!FreeWakesAll

\* Locked: a lock whose thread waits for it, or has ended, is never passed on.
StrandedForGood == [][kind = "locked" => (Loc!Stranded => Loc!Stranded')]_vars

\* Queue: tasks stay blocked only while there is nothing for them to do.
BlockedOnlyWithoutWork == kind = "queue" => Que!BlockedOnlyWithoutWork

\* Queue: what a call reports of its element is what becomes of it.
ExactlyOnce == kind = "queue" => Que!ExactlyOnce

\* Queue: the None of dequeue() is final.
NoneIsTheEnd == kind = "queue" => Que!NoneIsTheEnd

\* Future: one outcome for all.
ResolversAgree == kind = "future" => Fut!ResolversAgree

\* Future: the code's own assertion, "polled twice", holds unless an await was
\* abandoned.
PanicsAfterDrop == kind = "future" => Fut!PanicsAfterDrop

\* Future: isDone() never goes back.
DoneStaysDone == [][kind = "future" /\ Fut!is_done => Fut!is_done']_vars

\* Nobody waits for ever on a closed queue, or on a future whose task has ended.
Over == (kind = "queue" /\ closed) \/ (kind = "future" /\ sender # "open")
Waiting == {t \in Tasks :
    call[t] \in {"enqueue", "dequeue", "wait", "queued", "granted", "awaiting"}}
WaitsEnd == Over ~> Waiting = {}
=============================================================================
