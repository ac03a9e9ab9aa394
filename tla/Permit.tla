------------------------------- MODULE Permit -------------------------------
(***************************************************************************)
(* TesseraPermit (tessera-runtime/src/signal.rs): a counting semaphore on  *)
(* tokio::sync::Semaphore.  A permit is handed to the oldest task of the   *)
(* queue when it is released, before that task runs; close() is how the    *)
(* permit is broken.                                                       *)
(***************************************************************************)
EXTENDS SyncBase, WaitQueue

VARIABLES
    available,    \* permits nobody waits for
    queue,        \* tasks that wait for a permit, oldest first
    granted,      \* tasks that were handed one and have not run since
    released,     \* permits released so far
    broken,       \* "none" or the reason
    closed,       \* the semaphore is closed
    waiter

vars == <<available, queue, granted, released, broken, closed, waiter>>

TypeOK ==
    /\ available \in Nat
    /\ queue \in Seq(Tasks)
    /\ granted \in SUBSET Tasks
    /\ released \in Nat
    /\ broken \in Reasons \cup {"none"}
    /\ closed \in BOOLEAN
    /\ waiter \in [Tasks -> Waits]

Init ==
    /\ available = Initial
    /\ queue = <<>>
    /\ granted = {}
    /\ released = 0
    /\ broken = "none"
    /\ closed = FALSE
    /\ waiter = [t \in Tasks |-> "idle"]

\* n permits come back to a semaphore with the queue q and the grants g: first
\* to the tasks that wait.
AddPermits(n, q, g) ==
    LET served == IF n < Len(q) THEN n ELSE Len(q)
    IN /\ granted' = g \cup {q[i] : i \in 1..served}
       /\ queue' = SubSeq(q, served + 1, Len(q))
       /\ available' = available + (n - served)

release_n(n) ==
    /\ ~closed /\ released + n <= MaxReleased
    /\ released' = released + n
    /\ AddPermits(n, queue, granted)
    /\ UNCHANGED <<broken, closed, waiter>>

\* Mutant: the reason is set and the semaphore stays open.
Mut_break_with(r) ==
    IF broken # "none"
    THEN UNCHANGED <<available, queue, granted, released, broken, closed, waiter>>
    ELSE broken' = r /\ UNCHANGED <<available, queue, granted, released, closed, waiter>>

\* close() empties the queue: its tasks are woken to find it closed.
break_with(r) ==
    IF broken # "none"
    THEN UNCHANGED vars
    ELSE /\ broken' = r
         /\ closed' = TRUE
         /\ queue' = <<>>
         /\ UNCHANGED <<available, granted, released, waiter>>

\* Mutant: a permit is taken without a look at the count.
Mut_acquire(t) ==
    /\ waiter[t] = "idle"
    /\ \/ /\ closed
          /\ waiter' = [waiter EXCEPT ![t] = broken]
          /\ UNCHANGED available
       \/ /\ ~closed
          /\ waiter' = [waiter EXCEPT ![t] = "ok"]
          /\ available' = available - 1
    /\ UNCHANGED <<queue, granted, released, broken, closed>>

\* The first poll of acquire(): closed is looked at before the count.
acquire(t) ==
    /\ waiter[t] = "idle"
    /\ \/ /\ closed
          /\ waiter' = [waiter EXCEPT ![t] = broken]
          /\ UNCHANGED <<available, queue>>
       \/ /\ ~closed /\ available > 0
          /\ waiter' = [waiter EXCEPT ![t] = "ok"]
          /\ available' = available - 1
          /\ UNCHANGED queue
       \/ /\ ~closed /\ available = 0
          /\ waiter' = [waiter EXCEPT ![t] = "waiting"]
          /\ queue' = Append(queue, t)
          /\ UNCHANGED available
    /\ UNCHANGED <<granted, released, broken, closed>>

\* Mutant: without p.forget() the permit goes back when acquire() returns.
Mut_Resume(t) ==
    /\ waiter[t] = "waiting" /\ t \in granted /\ ~closed
    /\ waiter' = [waiter EXCEPT ![t] = "ok"]
    /\ AddPermits(1, queue, granted \ {t})
    /\ UNCHANGED <<released, broken, closed>>

\* A task that was handed a permit runs and keeps it ...
Resume(t) ==
    /\ waiter[t] = "waiting" /\ t \in granted /\ ~closed
    /\ waiter' = [waiter EXCEPT ![t] = "ok"]
    /\ granted' = granted \ {t}
    /\ UNCHANGED <<available, queue, released, broken, closed>>

\* What t was handed and has not kept, if anything, goes back.
GiveBack(t) ==
    IF t \in granted
    THEN AddPermits(1, queue, granted \ {t})
    ELSE UNCHANGED <<available, queue, granted>>

\* ... but on a closed semaphore it fails, and gives it back.
ResumeClosed(t) ==
    /\ waiter[t] = "waiting" /\ closed
    /\ waiter' = [waiter EXCEPT ![t] = broken]
    /\ GiveBack(t)
    /\ UNCHANGED <<released, broken, closed>>

\* The body that waits is abandoned by terminate().
Drop(t) ==
    /\ waiter[t] = "waiting"
    /\ waiter' = [waiter EXCEPT ![t] = "dropped"]
    /\ \/ t \in Waiting(queue) /\ queue' = Leave(queue, t) /\ UNCHANGED <<available, granted>>
       \/ t \notin Waiting(queue) /\ GiveBack(t)
    /\ UNCHANGED <<released, broken, closed>>

Next ==
    \/ \E n \in 1..MaxReleased : release_n(n)
    \/ \E r \in Reasons : break_with(r)
    \/ \E t \in Tasks : acquire(t) \/ Resume(t) \/ ResumeClosed(t) \/ Drop(t)

Spec == Init /\ [][Next]_vars

\* Every permit is somewhere: free, handed to a task, or consumed by a wait that
\* succeeded, across grants that are dropped, or undone by a close.
PermitsConserved ==
    available + Cardinality(granted) + Cardinality({t \in Tasks : waiter[t] = "ok"})
        = Initial + released

\* No permit lies free while a task is queued, and nobody is queued once the
\* permit is broken.
NoPermitIdle ==
    /\ available > 0 => queue = <<>>
    /\ broken # "none" => queue = <<>> /\ closed

\* "A wait whose success condition already holds is NOT retroactively reverted
\* by the primitive being Broken" (exclusive_broken_success_not_reverted.tss:1-3),
\* of a step.
GrantNotReverted ==
    \A t \in Tasks : t \in granted => waiter'[t] \in {"waiting", "ok", "dropped"}
=============================================================================
