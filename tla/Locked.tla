------------------------------- MODULE Locked -------------------------------
(***************************************************************************)
(* TesseraLocked (tessera-runtime/src/locked.rs): a shared value with an   *)
(* explicit lock, which belongs to a thread, and get() and set(), which    *)
(* wait while anybody, the caller included, holds it.                      *)
(***************************************************************************)
EXTENDS DataBase, Notify

VARIABLES
    owner,      \* a thread or "none"
    value,      \* the task that wrote it
    released,   \* the Notify
    call        \* per task: "idle", what it waits in, or "dropped"

vars == <<owner, value, released, call>>

TypeOK ==
    /\ owner \in Threads \cup {"none"}
    /\ value \in Tasks \cup {"initial"}
    /\ released \in Notifies(Tasks)
    /\ call \in [Tasks -> {"idle", "lock", "get", "set", "dropped"}]

Init ==
    /\ owner = "none"
    /\ value = "initial"
    /\ released = NewNotify
    /\ call = [t \in Tasks |-> "idle"]

\* lock() does not wait for its own thread: it fails with ReentrantLock, also when
\* a sibling of t took the lock while t was parked.
MustWait(t, op) == owner # "none" /\ ~(op = "lock" /\ owner = ThreadOf[t])

\* One turn of the loop of operation op, on a Notify in which t has nothing
\* pending.
Turn(t, op, n) ==
    \/ /\ MustWait(t, op)
       /\ released' = Park(n, t)
       /\ call' = [call EXCEPT ![t] = op]
       /\ UNCHANGED <<owner, value>>
    \/ /\ ~MustWait(t, op)
       /\ released' = n
       /\ call' = [call EXCEPT ![t] = "idle"]
       /\ owner' = IF op = "lock" THEN ThreadOf[t] ELSE owner
       /\ value' = IF op = "set" THEN t ELSE value

lock(t) == call[t] = "idle" /\ Turn(t, "lock", released)
get(t)  == call[t] = "idle" /\ Turn(t, "get", released)
set(t)  == call[t] = "idle" /\ Turn(t, "set", released)

\* Mutant: the lock is the task's and not the thread's.
Mut_try_lock(t) ==
    /\ call[t] = "idle" /\ owner = "none"
    /\ owner' = t
    /\ UNCHANGED <<value, released, call>>

\* Never waits; what it returns is seen in owner.
try_lock(t) ==
    /\ call[t] = "idle" /\ owner = "none"
    /\ owner' = ThreadOf[t]
    /\ UNCHANGED <<value, released, call>>

\* Mutant: one waiter is woken.
Mut_unlock(t) ==
    /\ call[t] = "idle" /\ owner = ThreadOf[t]
    /\ owner' = "none"
    /\ released' = NotifyOne(released)
    /\ UNCHANGED <<value, call>>

\* Mutant: anybody may unlock.
Mut_unlock_any(t) ==
    /\ call[t] = "idle" /\ owner # "none"
    /\ owner' = "none"
    /\ released' = NotifyWaiters(released)
    /\ UNCHANGED <<value, call>>

\* By any task of the thread that has the lock; UnlockNotOwned for the others.
unlock(t) ==
    /\ call[t] = "idle" /\ owner = ThreadOf[t]
    /\ owner' = "none"
    /\ released' = NotifyWaiters(released)
    /\ UNCHANGED <<value, call>>

Resume(t) == t \in Woken(released) /\ Turn(t, call[t], Spend(released, t))

\* The task ends or is abandoned by terminate().  A lock it took stays taken.
Drop(t) ==
    /\ call[t] # "dropped"
    /\ call' = [call EXCEPT ![t] = "dropped"]
    /\ released' = IF call[t] = "idle" THEN released ELSE Forsake(released, t)
    /\ UNCHANGED <<owner, value>>

Next ==
    \E t \in Tasks : lock(t) \/ get(t) \/ set(t) \/ try_lock(t) \/ unlock(t)
                        \/ Resume(t) \/ Drop(t)

Spec == Init /\ [][Next]_vars

\* No wakeup is lost: nobody stays parked on a value that is free, whichever of
\* the tasks woken by an unlock ran, waited again or were dropped (locked.rs:61).
FreeWakesAll == owner = "none" => Parked(released) = {}

\* No task that could unlock is left: each task of the thread with the lock
\* waits for that lock to be released, or has ended.
Stranded ==
    /\ owner # "none"
    /\ \A t \in Tasks : ThreadOf[t] = owner => call[t] \in {"get", "set", "dropped"}

\* A holder that calls get() or set() waits for itself, and a thread that ends
\* with the lock keeps it: nobody else can release or pass it (locked.rs:54-83).
StrandedForGood == [][Stranded => Stranded']_vars
=============================================================================
