------------------------------- MODULE Notify -------------------------------
(***************************************************************************)
(* tokio::sync::Notify as tessera-runtime uses it: a value with the queue  *)
(* of tasks parked in notified().await, the tasks woken and not polled     *)
(* yet, by notify_one or by notify_waiters, and the permit that notify_one *)
(* stores when nobody is parked.                                           *)
(***************************************************************************)
EXTENDS WaitQueue

Notifies(S) == [queue : Seq(S), one : SUBSET S, all : SUBSET S, permit : BOOLEAN]

NewNotify == [queue |-> <<>>, one |-> {}, all |-> {}, permit |-> FALSE]

Parked(n) == Waiting(n.queue)
Woken(n)  == n.one \cup n.all

NotifyOne(n) ==
    IF n.queue = <<>>
    THEN [n EXCEPT !.permit = TRUE]
    ELSE [n EXCEPT !.queue = Tail(@), !.one = @ \cup {Head(n.queue)}]

NotifyWaiters(n) == [n EXCEPT !.queue = <<>>, !.all = @ \cup Parked(n)]

\* notified().await of a task that finds no notification left for it: a stored
\* permit sends it once more around its loop, after which it parks.
Park(n, t) == [n EXCEPT !.permit = FALSE, !.queue = Append(@, t)]

\* A woken task is polled: its notification is spent.
Spend(n, t) == [n EXCEPT !.one = @ \ {t}, !.all = @ \ {t}]

\* The await is dropped.  A notification of notify_one passes to the next task.
Forsake(n, t) ==
    IF t \in n.one THEN NotifyOne(Spend(n, t))
    ELSE IF t \in n.all THEN Spend(n, t)
    ELSE [n EXCEPT !.queue = Leave(@, t)]
=============================================================================
