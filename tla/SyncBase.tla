------------------------------ MODULE SyncBase ------------------------------
(* What signals, contracts and permits have in common.  A wait() checks the  *)
(* state and parks without suspending in between, so a step of their         *)
(* specifications is one call, or one poll of a task that was woken.         *)
EXTENDS Naturals, FiniteSets

CONSTANTS
    Tasks,         \* the waits made on a primitive, each by a task of its own
    Initial,       \* permits a permit starts with
    MaxReleased    \* bound on the permits released

ASSUME SyncAssumption ==
    IsFiniteSet(Tasks) /\ Initial \in Nat /\ MaxReleased \in Nat

\* BrokenReason
Reasons == {"OwnerGone", "OwnerCrashed", "ScopeGone", "ScopeCrashed"}

\* A wait: not called yet, pending, its result, or dropped with its body.
Waits == {"idle", "waiting", "ok", "dropped"} \cup Reasons
=============================================================================
