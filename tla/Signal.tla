------------------------------- MODULE Signal -------------------------------
(***************************************************************************)
(* TesseraSignal (tessera-runtime/src/signal.rs): a manual-reset event.    *)
(***************************************************************************)
EXTENDS SyncBase, Notify

VARIABLES
    raised,
    broken,    \* "none" or a reason
    changed,   \* the Notify
    waiter     \* per wait: not called yet, pending, its result, or dropped

vars == <<raised, broken, changed, waiter>>

TypeOK ==
    /\ raised \in BOOLEAN
    /\ broken \in Reasons \cup {"none"}
    /\ changed \in Notifies(Tasks)
    /\ waiter \in [Tasks -> Waits]

Init ==
    /\ raised = FALSE
    /\ broken = "none"
    /\ changed = NewNotify
    /\ waiter = [t \in Tasks |-> "idle"]

\* Mutant: notify_one in place of notify_waiters.
Mut_raise ==
    /\ broken = "none"
    /\ raised' = TRUE
    /\ changed' = NotifyOne(changed)
    /\ UNCHANGED <<broken, waiter>>

raise ==
    /\ broken = "none"
    /\ raised' = TRUE
    /\ changed' = NotifyWaiters(changed)
    /\ UNCHANGED <<broken, waiter>>

\* Nobody is woken: a task that is parked waits for the next raise.
reset ==
    /\ broken = "none"
    /\ raised' = FALSE
    /\ UNCHANGED <<broken, changed, waiter>>

\* Mutant: the waiters are left to the next raise.
Mut_break_with(r) ==
    IF broken # "none"
    THEN UNCHANGED <<raised, broken, changed, waiter>>
    ELSE broken' = r /\ UNCHANGED <<raised, changed, waiter>>

\* The first reason stays; everyone parked is woken.
break_with(r) ==
    IF broken # "none"
    THEN UNCHANGED vars
    ELSE /\ broken' = r
         /\ changed' = NotifyWaiters(changed)
         /\ UNCHANGED <<raised, waiter>>

\* One turn of wait()'s loop, on a Notify in which t has nothing pending: raised
\* is looked at before broken.
Turn(t, n) ==
    /\ UNCHANGED <<raised, broken>>
    /\ \/ raised /\ changed' = n /\ waiter' = [waiter EXCEPT ![t] = "ok"]
       \/ /\ ~raised /\ broken # "none"
          /\ changed' = n /\ waiter' = [waiter EXCEPT ![t] = broken]
       \/ /\ ~raised /\ broken = "none"
          /\ changed' = Park(n, t) /\ waiter' = [waiter EXCEPT ![t] = "waiting"]

wait(t) == waiter[t] = "idle" /\ Turn(t, changed)

Resume(t) == waiter[t] = "waiting" /\ t \in Woken(changed) /\ Turn(t, Spend(changed, t))

\* The body that waits is abandoned by terminate().
Drop(t) ==
    /\ waiter[t] = "waiting"
    /\ waiter' = [waiter EXCEPT ![t] = "dropped"]
    /\ changed' = Forsake(changed, t)
    /\ UNCHANGED <<raised, broken>>

Next ==
    \/ raise \/ reset
    \/ \E r \in Reasons : break_with(r)
    \/ \E t \in Tasks : wait(t) \/ Resume(t) \/ Drop(t)

Spec == Init /\ [][Next]_vars

\* No wakeup is lost: nobody stays parked on a signal that is raised or broken,
\* whatever calls fell between its check and its await (signal.rs:157).
NoWaiterMissed == raised \/ broken # "none" => Parked(changed) = {}
=============================================================================
