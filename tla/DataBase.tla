------------------------------ MODULE DataBase ------------------------------
(* What locked values, queues and futures have in common: the tasks that    *)
(* call them.  An operation checks the state and parks without suspending   *)
(* in between, so a step of their specifications is one call, or one poll   *)
(* of a task that was woken.                                                *)
EXTENDS Naturals, FiniteSets

CONSTANTS
    Tasks,       \* bodies, handlers and mini-threads
    Threads,     \* thread ids; top-level code and its mini-threads have id 0
    ThreadOf,    \* the thread as which a task runs
    Capacity     \* of the queue; 0 means unbounded

ASSUME TaskAssumption ==
    /\ IsFiniteSet(Tasks)
    /\ Tasks \cap {"none", "initial", "idle", "enqueue", "dequeue", "wait", "dropped",
                  "Ok", "Full", "Closed", "None", "End", "Ready"} = {}
    /\ ThreadOf \in [Tasks -> Threads] /\ "none" \notin Threads
    /\ Capacity \in Nat
=============================================================================
