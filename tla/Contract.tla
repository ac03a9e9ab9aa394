------------------------------ MODULE Contract ------------------------------
(***************************************************************************)
(* TesseraContract (tessera-runtime/src/signal.rs): an auto-reset event    *)
(* whose notification exactly one wait consumes.                           *)
(***************************************************************************)
EXTENDS SyncBase, Notify

VARIABLES pending, broken, changed, waiter

vars == <<pending, broken, changed, waiter>>

TypeOK ==
    /\ pending \in BOOLEAN
    /\ broken \in Reasons \cup {"none"}
    /\ changed \in Notifies(Tasks)
    /\ waiter \in [Tasks -> Waits]

Init ==
    /\ pending = FALSE
    /\ broken = "none"
    /\ changed = NewNotify
    /\ waiter = [t \in Tasks |-> "idle"]

\* Mutant: the notification is left for the next wait() to find.
Mut_fulfill ==
    /\ broken = "none" /\ ~pending
    /\ pending' = TRUE
    /\ UNCHANGED <<changed, broken, waiter>>

fulfill ==
    /\ broken = "none" /\ ~pending
    /\ pending' = TRUE
    /\ changed' = NotifyOne(changed)
    /\ UNCHANGED <<broken, waiter>>

\* Mutant: a later reason replaces the first.
Mut_break_with(r) ==
    /\ broken' = r
    /\ changed' = NotifyWaiters(changed)
    /\ UNCHANGED <<pending, waiter>>

break_with(r) ==
    IF broken # "none"
    THEN UNCHANGED vars
    ELSE /\ broken' = r
         /\ changed' = NotifyWaiters(changed)
         /\ UNCHANGED <<pending, waiter>>

\* One turn of wait()'s loop.  Whoever turns first takes the notification, also
\* from a task that was woken for it, and also on a broken contract.
Turn(t, n) ==
    /\ UNCHANGED broken
    /\ \/ /\ pending /\ pending' = FALSE
          /\ changed' = n /\ waiter' = [waiter EXCEPT ![t] = "ok"]
       \/ /\ ~pending /\ broken # "none"
          /\ changed' = n /\ waiter' = [waiter EXCEPT ![t] = broken]
          /\ UNCHANGED pending
       \/ /\ ~pending /\ broken = "none"
          /\ changed' = Park(n, t) /\ waiter' = [waiter EXCEPT ![t] = "waiting"]
          /\ UNCHANGED pending

wait(t) == waiter[t] = "idle" /\ Turn(t, changed)

Resume(t) == waiter[t] = "waiting" /\ t \in Woken(changed) /\ Turn(t, Spend(changed, t))

Drop(t) ==
    /\ waiter[t] = "waiting"
    /\ waiter' = [waiter EXCEPT ![t] = "dropped"]
    /\ changed' = Forsake(changed, t)
    /\ UNCHANGED <<pending, broken>>

Next ==
    \/ fulfill
    \/ \E r \in Reasons : break_with(r)
    \/ \E t \in Tasks : wait(t) \/ Resume(t) \/ Drop(t)

Spec == Init /\ [][Next]_vars

\* A notification never lies pending while tasks are parked and none has been
\* woken for it: not when the woken task is overtaken by another wait(), not
\* when it is dropped before it runs.  On a broken contract nobody is parked.
NoFulfilmentLost ==
    /\ pending /\ Parked(changed) # {} => changed.one # {}
    /\ broken # "none" => Parked(changed) = {}

\* "FIFO wait queue" (signal.rs:186), of a step: a wait() does not take the notification
\* while others are waiting that called before it.
ServedInOrder ==
    \A t \in Tasks : waiter[t] = "idle" /\ waiter'[t] = "ok"
                     => \A u \in Tasks : waiter[u] # "waiting"
=============================================================================
