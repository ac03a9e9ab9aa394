---------------------------- MODULE SyncPrimitive ---------------------------
(***************************************************************************)
(* A signal, a contract or a permit in its surroundings: the tasks that    *)
(* wait on it, the threads that expose it and of which the first becomes   *)
(* its owner, and a scope block that may have it among its define fields.  *)
(* The owner breaks it when it ends, the scope when it is left.            *)
(***************************************************************************)
EXTENDS SyncBase, Sequences

CONSTANT Threads    \* threads that may expose the primitive

ASSUME ThreadAssumption == "none" \notin Threads

VARIABLES
    kind,                                     \* "signal", "contract" or "permit"
    raised, pending, changed,                 \* Signal, Contract
    available, queue, granted, released, closed,    \* Permit
    broken, waiter,                           \* all three
    owner,                                    \* the thread whose claim won
    ended,                                    \* per thread: "no" or its final status
    scope                                     \* of the scope block

permitVars == <<available, queue, granted, released, closed>>
boundVars  == <<kind, owner, ended, scope>>
vars == <<raised, pending, changed, permitVars, broken, waiter, boundVars>>

Sig == INSTANCE Signal
Con == INSTANCE Contract
Per == INSTANCE Permit

TypeOK ==
    /\ kind \in {"signal", "contract", "permit"}
    /\ Sig!TypeOK /\ Con!TypeOK /\ Per!TypeOK
    /\ owner \in Threads \cup {"none"}
    /\ ended \in [Threads -> {"no", "Terminated", "Crashed"}]
    /\ scope \in {"none", "open", "left", "crashed", "abandoned"}

Init ==
    /\ kind \in {"signal", "contract", "permit"}
    /\ Sig!Init /\ Con!Init /\ Per!Init
    /\ owner = "none"
    /\ ended = [th \in Threads |-> "no"]
    /\ scope \in {"none", "open"}

-----------------------------------------------------------------------------
(* Calls on the primitive.                                                  *)

SignalCall ==
    /\ kind = "signal"
    /\ Sig!raise \/ Sig!reset \/ \E t \in Tasks : Sig!wait(t) \/ Sig!Drop(t)
    /\ UNCHANGED <<pending, permitVars, boundVars>>

ContractCall ==
    /\ kind = "contract"
    /\ Con!fulfill \/ \E t \in Tasks : Con!wait(t) \/ Con!Drop(t)
    /\ UNCHANGED <<raised, permitVars, boundVars>>

PermitCall ==
    /\ kind = "permit"
    /\ \/ \E n \in 1..MaxReleased : Per!release_n(n)
       \/ \E t \in Tasks : Per!acquire(t) \/ Per!Drop(t)
    /\ UNCHANGED <<raised, pending, changed, boundVars>>

\* The executor polls a task that was woken.
Poll(t) ==
    /\ \/ kind = "signal" /\ Sig!Resume(t) /\ UNCHANGED <<pending, permitVars>>
       \/ kind = "contract" /\ Con!Resume(t) /\ UNCHANGED <<raised, permitVars>>
       \/ /\ kind = "permit" /\ (Per!Resume(t) \/ Per!ResumeClosed(t))
          /\ UNCHANGED <<raised, pending, changed>>
    /\ UNCHANGED boundVars

break_with(r) ==
    \/ kind = "signal" /\ Sig!break_with(r) /\ UNCHANGED <<pending, permitVars>>
    \/ kind = "contract" /\ Con!break_with(r) /\ UNCHANGED <<raised, permitVars>>
    \/ kind = "permit" /\ Per!break_with(r) /\ UNCHANGED <<raised, pending, changed>>

primitive == <<raised, pending, changed, permitVars, broken, waiter>>

-----------------------------------------------------------------------------
(* Owners and scopes.                                                       *)

\* Mutant: every thread that exposes the primitive registers it.
Mut_Expose(th) ==
    /\ owner' = th
    /\ UNCHANGED <<primitive, kind, ended, scope>>

\* maybe_sync_expose: the first claim wins.
Expose(th) ==
    /\ owner = "none" /\ owner' = th
    /\ UNCHANGED <<primitive, kind, ended, scope>>

\* set_status with a final status, which breaks what the thread owns.
EndThread(th, status) ==
    /\ ended[th] = "no"
    /\ ended' = [ended EXCEPT ![th] = status]
    /\ IF owner = th
       THEN break_with(IF status = "Terminated" THEN "OwnerGone" ELSE "OwnerCrashed")
       ELSE UNCHANGED primitive
    /\ UNCHANGED <<kind, owner, scope>>

\* exec_scope_block: after __on_exit__, or when __on_enter__ failed.
LeaveScope(crashed) ==
    /\ scope = "open"
    /\ scope' = IF crashed THEN "crashed" ELSE "left"
    /\ break_with(IF crashed THEN "ScopeCrashed" ELSE "ScopeGone")
    /\ UNCHANGED <<kind, owner, ended>>

\* The body that runs the block is dropped by terminate(): nothing is broken.
AbandonScope ==
    /\ scope = "open" /\ scope' = "abandoned"
    /\ UNCHANGED <<primitive, kind, owner, ended>>

Next ==
    \/ SignalCall \/ ContractCall \/ PermitCall
    \/ \E t \in Tasks : Poll(t)
    \/ \E th \in Threads : Expose(th) \/ EndThread(th, "Terminated") \/ EndThread(th, "Crashed")
    \/ LeaveScope(TRUE) \/ LeaveScope(FALSE) \/ AbandonScope

Spec == Init /\ [][Next]_vars

\* The executor polls every task that was woken.
FairSpec == Spec /\ \A t \in Tasks : WF_vars(Poll(t))

-----------------------------------------------------------------------------
\* Signal: no wakeup is lost between the check and the await of wait().
NoWaiterMissed == kind = "signal" => Sig!NoWaiterMissed

\* Contract: a notification finds a task that waits, also when the task woken
\* for it is overtaken or dropped.
NoFulfilmentLost == kind = "contract" => Con!NoFulfilmentLost

\* Permit: no permit is made or lost by grants, drops and the close.
PermitsConserved == kind = "permit" => Per!PermitsConserved

\* Permit: tasks are queued only while there is nothing to hand them.
NoPermitIdle == kind = "permit" => Per!NoPermitIdle

\* Contract: a later wait() does not overtake those that wait (signal.rs:186).
ServedInOrder == [][kind = "contract" => Con!ServedInOrder]_vars

\* Permit: a granted wait is not reverted by the break
\* (exclusive_broken_success_not_reverted.tss:1-3).
GrantNotReverted == [][kind = "permit" => Per!GrantNotReverted]_vars

\* All waits that fail, whenever they were polled, fail for one and the same
\* reason, whichever of the owner and the scope ended first.
WaitersAgreeOnReason ==
    \A t \in Tasks : waiter[t] \in Reasons => waiter[t] = broken

\* The reason is the way in which the owner, or the scope, really ended: a
\* thread that exposed the primitive second breaks nothing.
ReasonExplained ==
    CASE broken = "OwnerGone"    -> owner \in Threads /\ ended[owner] = "Terminated"
      [] broken = "OwnerCrashed" -> owner \in Threads /\ ended[owner] = "Crashed"
      [] broken = "ScopeGone"    -> scope = "left"
      [] broken = "ScopeCrashed" -> scope = "crashed"
      [] OTHER                   -> scope \notin {"left", "crashed"}

\* Nobody waits for ever on a broken primitive.
BreakFreesWaiters ==
    \A t \in Tasks : waiter[t] = "waiting" /\ broken # "none" ~> waiter[t] # "waiting"

\* A notification is consumed while there is somebody to consume it.
FulfilmentDelivered ==
    kind = "contract" /\ pending /\ (\E t \in Tasks : waiter[t] = "waiting")
        ~> ~pending \/ \A t \in Tasks : waiter[t] # "waiting"
=============================================================================
