------------------------ MODULE SyncPrimitiveProofs ------------------------
(***************************************************************************)
(* The guarantees of signals, contracts and permits carry over to their    *)
(* surroundings: for any number of waits and of threads that expose the    *)
(* primitive, with or without a scope.                                     *)
(***************************************************************************)
EXTENDS SyncPrimitive, NotifyProofs

PerP == INSTANCE PermitProofs

-----------------------------------------------------------------------------
(* Signal by itself, for any number of waits: its types, and that no wakeup  *)
(* is lost.                                                                  *)

SigInv == Sig!TypeOK /\ Sig!NoWaiterMissed

\* The Notify of a signal is the one of NotifyProofs.
LEMMA SigNotify ==
    /\ Sig!NewNotify = NewNotify
    /\ \A S : Sig!Notifies(S) = Notifies(S)
    /\ \A n : /\ Sig!Parked(n) = Parked(n) /\ Sig!Woken(n) = Woken(n)
              /\ Sig!NotifyWaiters(n) = NotifyWaiters(n)
    /\ \A n, t : /\ Sig!Park(n, t) = Park(n, t) /\ Sig!Spend(n, t) = Spend(n, t)
                 /\ Sig!Forsake(n, t) = Forsake(n, t)
BY DEF Sig!NewNotify, Sig!Notifies, Sig!Parked, Sig!Woken, Sig!NotifyOne, Sig!NotifyWaiters,
       Sig!Park, Sig!Spend, Sig!Forsake, Sig!Waiting, Sig!Leave, Sig!Without,
       NewNotify, Notifies, Parked, Woken, NotifyOne, NotifyWaiters,
       Park, Spend, Forsake, Waiting, Leave, Without

\* The invariant holds of a new signal.
LEMMA SigInitInv == Sig!Init => SigInv
<1>1. NewNotify \in Notifies(Tasks)
  BY DEF NewNotify, Notifies
<1>2. Parked(NewNotify) = {}
  BY DEF NewNotify, Parked, Waiting
<1> QED BY <1>1, <1>2, SigNotify
       DEF Sig!Init, SigInv, Sig!TypeOK, Sig!NoWaiterMissed, Sig!Waits

\* A turn of wait()'s loop, on any Notify with the tasks still parked.
LEMMA SigTurnInv ==
    ASSUME SigInv, NEW t \in Tasks, NEW n \in Notifies(Tasks),
           Parked(n) \subseteq Parked(changed), Sig!Turn(t, n)
    PROVE  SigInv'
<1>1. Sig!TypeOK'
  <2>1. Park(n, t) \in Notifies(Tasks)
    BY NotifyType
  <2>2. changed' \in Notifies(Tasks)
    BY <2>1, SigNotify DEF Sig!Turn
  <2>3. waiter' \in [Tasks -> Sig!Waits] /\ broken' \in Sig!Reasons \cup {"none"}
    BY DEF SigInv, Sig!TypeOK, Sig!Turn, Sig!Waits
  <2>4. raised' \in BOOLEAN
    BY DEF SigInv, Sig!TypeOK, Sig!Turn
  <2> QED BY <2>2, <2>3, <2>4, SigNotify DEF Sig!TypeOK
<1>2. Sig!NoWaiterMissed'
  BY SigNotify DEF SigInv, Sig!NoWaiterMissed, Sig!Turn
<1> QED BY <1>1, <1>2 DEF SigInv

\* No call and no poll breaks it.
LEMMA SigStepInv == SigInv /\ (Sig!Next \/ UNCHANGED Sig!vars) => SigInv'
<1> SUFFICES ASSUME SigInv, Sig!Next \/ UNCHANGED Sig!vars PROVE SigInv'
  OBVIOUS
<1> USE DEF SigInv
<1>0. changed \in Notifies(Tasks)
  BY SigNotify DEF Sig!TypeOK
<1>1. ASSUME Sig!raise PROVE SigInv'
  <2>1. changed' \in Notifies(Tasks) /\ Parked(changed') = {}
    BY <1>0, <1>1, NotifyWaitersFacts, SigNotify DEF Sig!raise
  <2> QED BY <1>1, <2>1, SigNotify DEF Sig!raise, Sig!TypeOK, Sig!NoWaiterMissed
<1>2. ASSUME Sig!reset PROVE SigInv'
  BY <1>2 DEF Sig!reset, Sig!TypeOK, Sig!NoWaiterMissed
<1>3. ASSUME NEW r \in Sig!Reasons, Sig!break_with(r) PROVE SigInv'
  <2>1. CASE broken # "none"
    BY <1>3, <2>1 DEF Sig!break_with, Sig!vars, Sig!TypeOK, Sig!NoWaiterMissed
  <2>2. CASE broken = "none"
    <3>1. changed' = NotifyWaiters(changed) /\ broken' = r /\ UNCHANGED <<raised, waiter>>
      BY <1>3, <2>2, SigNotify DEF Sig!break_with
    <3>2. changed' \in Notifies(Tasks) /\ Parked(changed') = {}
      BY <1>0, <3>1, NotifyWaitersFacts
    <3> QED BY <3>1, <3>2, SigNotify DEF Sig!TypeOK, Sig!NoWaiterMissed
  <2> QED BY <2>1, <2>2
<1>4. ASSUME NEW t \in Tasks, Sig!wait(t) PROVE SigInv'
  BY <1>0, <1>4, SigTurnInv DEF Sig!wait
<1>5. ASSUME NEW t \in Tasks, Sig!Resume(t) PROVE SigInv'
  <2>1. Spend(changed, t) \in Notifies(Tasks) /\ Parked(Spend(changed, t)) = Parked(changed)
    BY <1>0, NotifyType, ParkedFacts
  <2> QED BY <1>5, <2>1, SigTurnInv, SigNotify DEF Sig!Resume
<1>6. ASSUME NEW t \in Tasks, Sig!Drop(t) PROVE SigInv'
  <2>1. changed' \in Notifies(Tasks) /\ Parked(changed') \subseteq Parked(changed)
    BY <1>0, <1>6, NotifyType, ParkedFacts, SigNotify DEF Sig!Drop
  <2> QED BY <1>6, <2>1, SigNotify DEF Sig!Drop, Sig!TypeOK, Sig!NoWaiterMissed, Sig!Waits
<1>7. CASE UNCHANGED Sig!vars
  BY <1>7 DEF Sig!vars, Sig!TypeOK, Sig!NoWaiterMissed
<1> QED BY <1>1, <1>2, <1>3, <1>4, <1>5, <1>6, <1>7 DEF Sig!Next

\* A signal alone, for any number of waits: its fields keep their types, and
\* nobody stays parked on it while it is raised or broken.
THEOREM SignalWakesAll == Sig!Spec => [](Sig!TypeOK /\ Sig!NoWaiterMissed)
<1>1. SigInv /\ [Sig!Next]_(Sig!vars) => SigInv'
  BY SigStepInv
<1>2. SigInv => Sig!TypeOK /\ Sig!NoWaiterMissed
  BY DEF SigInv
<1> QED BY <1>1, <1>2, SigInitInv, PTL DEF Sig!Spec

-----------------------------------------------------------------------------
(* Contract by itself, likewise.                                             *)

ConInv == Con!TypeOK /\ Con!NoFulfilmentLost

\* The Notify of a contract is the one of NotifyProofs.
LEMMA ConNotify ==
    /\ Con!NewNotify = NewNotify
    /\ \A S : Con!Notifies(S) = Notifies(S)
    /\ \A n : /\ Con!Parked(n) = Parked(n) /\ Con!Woken(n) = Woken(n)
              /\ Con!NotifyOne(n) = NotifyOne(n) /\ Con!NotifyWaiters(n) = NotifyWaiters(n)
    /\ \A n, t : /\ Con!Park(n, t) = Park(n, t) /\ Con!Spend(n, t) = Spend(n, t)
                 /\ Con!Forsake(n, t) = Forsake(n, t)
BY DEF Con!NewNotify, Con!Notifies, Con!Parked, Con!Woken, Con!NotifyOne, Con!NotifyWaiters,
       Con!Park, Con!Spend, Con!Forsake, Con!Waiting, Con!Leave, Con!Without,
       NewNotify, Notifies, Parked, Woken, NotifyOne, NotifyWaiters,
       Park, Spend, Forsake, Waiting, Leave, Without

\* The invariant holds of a new contract.
LEMMA ConInitInv == Con!Init => ConInv
<1>1. NewNotify \in Notifies(Tasks)
  BY DEF NewNotify, Notifies
<1>2. Parked(NewNotify) = {}
  BY DEF NewNotify, Parked, Waiting
<1> QED BY <1>1, <1>2, ConNotify DEF Con!Init, ConInv, Con!TypeOK, Con!NoFulfilmentLost, Con!Waits

\* A turn of wait()'s loop, on any Notify with the tasks still parked.
LEMMA ConTurnInv ==
    ASSUME ConInv, NEW t \in Tasks, NEW n \in Notifies(Tasks),
           Parked(n) \subseteq Parked(changed), Con!Turn(t, n)
    PROVE  ConInv'
<1>1. Con!TypeOK'
  <2>1. Park(n, t) \in Notifies(Tasks)
    BY NotifyType
  <2>2. changed' \in Notifies(Tasks)
    BY <2>1, ConNotify DEF Con!Turn
  <2>3. waiter' \in [Tasks -> Con!Waits] /\ broken' \in Con!Reasons \cup {"none"}
    BY ConNotify DEF ConInv, Con!TypeOK, Con!Turn, Con!Waits
  <2>4. pending' \in BOOLEAN
    BY ConNotify DEF ConInv, Con!TypeOK, Con!Turn
  <2> QED BY <2>2, <2>3, <2>4, ConNotify DEF Con!TypeOK
<1>2. Con!NoFulfilmentLost'
  <2>1. CASE pending \/ broken # "none"
    BY <2>1, ConNotify DEF ConInv, Con!TypeOK, Con!NoFulfilmentLost, Con!Turn
  <2>2. CASE ~pending /\ broken = "none"
    BY <2>2, ConNotify DEF ConInv, Con!TypeOK, Con!NoFulfilmentLost, Con!Turn
  <2> QED BY <2>1, <2>2
<1> QED BY <1>1, <1>2 DEF ConInv

\* No call and no poll breaks it.
LEMMA ConStepInv == ConInv /\ (Con!Next \/ UNCHANGED Con!vars) => ConInv'
<1> SUFFICES ASSUME ConInv, Con!Next \/ UNCHANGED Con!vars PROVE ConInv'
  OBVIOUS
<1> USE DEF ConInv
<1>0. changed \in Notifies(Tasks)
  BY ConNotify DEF Con!TypeOK
<1>1. ASSUME Con!fulfill PROVE ConInv'
  <2>1. /\ changed' \in Notifies(Tasks) /\ Parked(changed') \subseteq Parked(changed)
        /\ Parked(changed) # {} => changed'.one # {}
    BY <1>0, <1>1, NotifyOneFacts, ConNotify DEF Con!fulfill
  <2> QED BY <1>1, <2>1, ConNotify DEF Con!fulfill, Con!TypeOK, Con!NoFulfilmentLost
<1>2. ASSUME NEW r \in Con!Reasons, Con!break_with(r) PROVE ConInv'
  <2>1. CASE broken # "none"
    BY <1>2, <2>1, ConNotify DEF Con!break_with, Con!vars, Con!TypeOK, Con!NoFulfilmentLost
  <2>2. CASE broken = "none"
    <3>1. changed' = NotifyWaiters(changed) /\ broken' = r /\ UNCHANGED <<pending, waiter>>
      BY <1>2, <2>2, ConNotify DEF Con!break_with
    <3>2. changed' \in Notifies(Tasks) /\ Parked(changed') = {}
      BY <1>0, <3>1, NotifyWaitersFacts
    <3> QED BY <3>1, <3>2, ConNotify DEF Con!TypeOK, Con!NoFulfilmentLost
  <2> QED BY <2>1, <2>2
<1>3. ASSUME NEW t \in Tasks, Con!wait(t) PROVE ConInv'
  BY <1>0, <1>3, ConTurnInv DEF Con!wait
<1>4. ASSUME NEW t \in Tasks, Con!Resume(t) PROVE ConInv'
  <2>1. Spend(changed, t) \in Notifies(Tasks) /\ Parked(Spend(changed, t)) = Parked(changed)
    BY <1>0, NotifyType, ParkedFacts
  <2> QED BY <1>4, <2>1, ConTurnInv, ConNotify DEF Con!Resume
<1>5. ASSUME NEW t \in Tasks, Con!Drop(t) PROVE ConInv'
  <2>1. /\ changed' \in Notifies(Tasks) /\ Parked(changed') \subseteq Parked(changed)
        /\ changed.one # {} => Parked(changed') = {} \/ changed'.one # {}
    BY <1>0, <1>5, NotifyType, ParkedFacts, WakesOne, ConNotify DEF Con!Drop
  <2> QED BY <1>5, <2>1, ConNotify DEF Con!Drop, Con!TypeOK, Con!NoFulfilmentLost, Con!Waits
<1>6. CASE UNCHANGED Con!vars
  BY <1>6, ConNotify DEF Con!vars, Con!TypeOK, Con!NoFulfilmentLost
<1> QED BY <1>1, <1>2, <1>3, <1>4, <1>5, <1>6 DEF Con!Next

\* A contract alone, for any number of waits: its fields keep their types, and
\* a pending notification has woken somebody whenever anybody is parked.
THEOREM ContractWakesOne == Con!Spec => [](Con!TypeOK /\ Con!NoFulfilmentLost)
<1>1. ConInv /\ [Con!Next]_(Con!vars) => ConInv'
  BY ConStepInv
<1>2. ConInv => Con!TypeOK /\ Con!NoFulfilmentLost
  BY DEF ConInv
<1> QED BY <1>1, <1>2, ConInitInv, PTL DEF Con!Spec

-----------------------------------------------------------------------------
(* Steps of the composition are steps of the component in use, or leave it   *)
(* alone.                                                                    *)

\* The next-state relation of a permit, as PermitProofs sees it.
LEMMA PerLink == Per!Next => PerP!Next
BY DEF Per!Next, Per!release_n, Per!break_with, Per!acquire, Per!Resume, Per!ResumeClosed,
       Per!Drop, Per!GiveBack, Per!AddPermits, Per!vars, Per!Waiting, Per!Leave, Per!Without,
       Per!Reasons,
       PerP!Next, PerP!release_n, PerP!break_with, PerP!acquire, PerP!Resume, PerP!ResumeClosed,
       PerP!Drop, PerP!GiveBack, PerP!AddPermits, PerP!vars, PerP!Waiting, PerP!Leave,
       PerP!Without, PerP!Reasons

\* A step of the composition is a step of the primitive, whichever it is.
LEMMA StepsOfPrimitive ==
    ASSUME [Next]_vars
    PROVE  /\ kind' = kind
           /\ kind = "signal" => /\ Sig!Next \/ UNCHANGED Sig!vars
                                 /\ UNCHANGED <<pending, permitVars>>
           /\ kind = "contract" => /\ Con!Next \/ UNCHANGED Con!vars
                                   /\ UNCHANGED <<raised, permitVars>>
           /\ kind = "permit" => /\ Per!Next \/ UNCHANGED Per!vars
                                 /\ UNCHANGED <<raised, pending, changed>>
<1> DEFINE Goal == /\ kind' = kind
                   /\ kind = "signal" => /\ Sig!Next \/ UNCHANGED Sig!vars
                                         /\ UNCHANGED <<pending, permitVars>>
                   /\ kind = "contract" => /\ Con!Next \/ UNCHANGED Con!vars
                                           /\ UNCHANGED <<raised, permitVars>>
                   /\ kind = "permit" => /\ Per!Next \/ UNCHANGED Per!vars
                                         /\ UNCHANGED <<raised, pending, changed>>
<1>a. ASSUME UNCHANGED kind, UNCHANGED primitive PROVE Goal
  BY <1>a DEF primitive, permitVars, Sig!vars, Con!vars, Per!vars
<1>b. ASSUME UNCHANGED kind, NEW r \in Sig!Reasons, break_with(r) PROVE Goal
  BY <1>b DEF break_with, Sig!Next, Con!Next, Per!Next, Sig!Reasons, Con!Reasons, Per!Reasons
<1>1. CASE SignalCall
  BY <1>1 DEF SignalCall, boundVars, Sig!Next
<1>2. CASE ContractCall
  BY <1>2 DEF ContractCall, boundVars, Con!Next
<1>3. CASE PermitCall
  BY <1>3 DEF PermitCall, boundVars, Per!Next
<1>4. ASSUME NEW t \in Tasks, Poll(t) PROVE Goal
  BY <1>4 DEF Poll, boundVars, Sig!Next, Con!Next, Per!Next
<1>5. ASSUME NEW th \in Threads, Expose(th) PROVE Goal
  BY <1>5, <1>a DEF Expose
<1>6. ASSUME NEW th \in Threads, NEW s \in {"Terminated", "Crashed"}, EndThread(th, s) PROVE Goal
  BY <1>6, <1>a, <1>b DEF EndThread, Sig!Reasons
<1>7. ASSUME NEW c \in BOOLEAN, LeaveScope(c) PROVE Goal
  BY <1>7, <1>b DEF LeaveScope, Sig!Reasons
<1>8. CASE AbandonScope
  BY <1>8, <1>a DEF AbandonScope
<1>9. CASE UNCHANGED vars
  BY <1>9, <1>a DEF vars, boundVars, primitive
<1> QED BY <1>1, <1>2, <1>3, <1>4, <1>5, <1>6, <1>7, <1>8, <1>9 DEF Next

-----------------------------------------------------------------------------
(* The invariants of the components.                                         *)

PrimitiveInv ==
    /\ kind \in {"signal", "contract", "permit"}
    /\ kind = "signal" => SigInv
    /\ kind = "contract" => ConInv
    /\ kind = "permit" => PerP!Inv

\* They hold of a new primitive.
LEMMA PrimitiveInit == Init => PrimitiveInv
<1> SUFFICES ASSUME Init PROVE PrimitiveInv
  OBVIOUS
<1>1. PerP!Init
  BY DEF Init, Per!Init, PerP!Init
<1>2. SigInv
  BY SigInitInv DEF Init
<1>3. ConInv
  BY ConInitInv DEF Init
<1>4. PerP!Inv
  BY <1>1, SyncAssumption, PerP!InitInv DEF IsFiniteSet, PerP!IsFiniteSet
<1> QED BY <1>2, <1>3, <1>4 DEF Init, PrimitiveInv

\* The steps of the composition preserve the invariant of its component.
LEMMA PrimitiveStep == PrimitiveInv /\ [Next]_vars => PrimitiveInv'
<1> SUFFICES ASSUME PrimitiveInv, [Next]_vars PROVE PrimitiveInv'
  OBVIOUS
<1>1. CASE kind = "signal"
  <2>1. SigInv'
    BY <1>1, StepsOfPrimitive, SigStepInv DEF PrimitiveInv
  <2> QED BY <1>1, <2>1, StepsOfPrimitive DEF PrimitiveInv
<1>2. CASE kind = "contract"
  <2>1. ConInv'
    BY <1>2, StepsOfPrimitive, ConStepInv DEF PrimitiveInv
  <2> QED BY <1>2, <2>1, StepsOfPrimitive DEF PrimitiveInv
<1>3. CASE kind = "permit"
  <2>1. PerP!Next \/ UNCHANGED PerP!vars
    BY <1>3, StepsOfPrimitive, PerLink DEF Per!vars, PerP!vars
  <2>2. PerP!Inv'
    BY <1>3, <2>1, SyncAssumption, PerP!StepInv DEF IsFiniteSet, PerP!IsFiniteSet, PrimitiveInv
  <2> QED BY <1>3, <2>2, StepsOfPrimitive DEF PrimitiveInv
<1> QED BY <1>1, <1>2, <1>3 DEF PrimitiveInv

\* Signal: nobody stays parked on a signal that is raised or broken, for any
\* number of waits, exposing threads and scopes.
THEOREM WaitersWoken == Spec => []NoWaiterMissed
<1>1. PrimitiveInv => NoWaiterMissed
  BY DEF PrimitiveInv, NoWaiterMissed, SigInv
<1> QED BY <1>1, PrimitiveInit, PrimitiveStep, PTL DEF Spec

\* Contract: a notification never lies pending over parked tasks of which none
\* has been woken for it.
THEOREM FulfilmentKept == Spec => []NoFulfilmentLost
<1>1. PrimitiveInv => NoFulfilmentLost
  BY DEF PrimitiveInv, NoFulfilmentLost, ConInv
<1> QED BY <1>1, PrimitiveInit, PrimitiveStep, PTL DEF Spec

\* Permit: none is made or lost by grants, drops and the close.
THEOREM PermitsKept == Spec => []PermitsConserved
<1>1. PrimitiveInv => PermitsConserved
  BY DEF PrimitiveInv, PermitsConserved, PerP!Inv, PerP!PermitsConserved, Per!PermitsConserved,
         PerP!Cardinality, Per!Cardinality
<1> QED BY <1>1, PrimitiveInit, PrimitiveStep, PTL DEF Spec

\* Permit: none lies free while a task is queued.
THEOREM PermitsUsed == Spec => []NoPermitIdle
<1>1. PrimitiveInv => NoPermitIdle
  BY DEF PrimitiveInv, NoPermitIdle, PerP!Inv, PerP!NoPermitIdle, Per!NoPermitIdle
<1> QED BY <1>1, PrimitiveInit, PrimitiveStep, PTL DEF Spec

-----------------------------------------------------------------------------
(* Why a primitive is broken, and what its waiters are told.                 *)

\* What TypeOK says of the variables that are not the primitive's own.
BoundType ==
    /\ owner \in Threads \cup {"none"}
    /\ ended \in [Threads -> {"no", "Terminated", "Crashed"}]
    /\ scope \in {"none", "open", "left", "crashed", "abandoned"}

\* ReasonExplained, reason by reason.
ReasonInv ==
    /\ broken \in Reasons \cup {"none"}
    /\ broken = "OwnerGone" => owner \in Threads /\ ended[owner] = "Terminated"
    /\ broken = "OwnerCrashed" => owner \in Threads /\ ended[owner] = "Crashed"
    /\ broken = "ScopeGone" => scope = "left"
    /\ broken = "ScopeCrashed" => scope = "crashed"
    /\ broken = "none" => scope \notin {"left", "crashed"}

AgreeInv == \A t \in Tasks : waiter[t] \in Reasons => waiter[t] = broken

OwnerInv == BoundType /\ ReasonInv /\ AgreeInv

\* The first reason given to a primitive stays.
LEMMA BreakEffect ==
    ASSUME NEW r \in Reasons, break_with(r),
           kind \in {"signal", "contract", "permit"}
    PROVE  /\ broken' = IF broken = "none" THEN r ELSE broken
           /\ UNCHANGED waiter
BY DEF break_with, Sig!break_with, Con!break_with, Per!break_with, Sig!vars, Con!vars, Per!vars

\* A call or a poll breaks nothing, and a wait that fails is told why.
LEMMA CallEffect ==
    ASSUME waiter \in [Tasks -> Waits],
           SignalCall \/ ContractCall \/ PermitCall \/ \E t \in Tasks : Poll(t)
    PROVE  /\ UNCHANGED <<broken, boundVars>>
           /\ \A u \in Tasks : waiter'[u] \in {waiter[u], "ok", "waiting", "dropped", broken}
<1> DEFINE Goal == /\ UNCHANGED <<broken, boundVars>>
                   /\ \A u \in Tasks : waiter'[u] \in {waiter[u], "ok", "waiting", "dropped", broken}
<1>1. CASE SignalCall
  BY <1>1 DEF SignalCall, Sig!raise, Sig!reset, Sig!wait, Sig!Drop, Sig!Turn
<1>2. CASE ContractCall
  BY <1>2 DEF ContractCall, Con!fulfill, Con!wait, Con!Drop, Con!Turn
<1>3. CASE PermitCall
  BY <1>3 DEF PermitCall, Per!release_n, Per!acquire, Per!Drop
<1>4. ASSUME NEW t \in Tasks, Poll(t) PROVE Goal
  BY <1>4 DEF Poll, Sig!Resume, Sig!Turn, Con!Resume, Con!Turn, Per!Resume, Per!ResumeClosed
<1> QED BY <1>1, <1>2, <1>3, <1>4

\* OwnerInv holds of a new primitive.
LEMMA OwnerInit == Init => OwnerInv
BY DEF Init, OwnerInv, BoundType, ReasonInv, AgreeInv, Sig!Init, Reasons

\* And is preserved: nothing but a thread that owns the primitive, or the scope,
\* breaks it, and neither ends twice.
LEMMA OwnerStep ==
    waiter \in [Tasks -> Waits] /\ kind \in {"signal", "contract", "permit"}
        /\ OwnerInv /\ [Next]_vars => OwnerInv'
<1> SUFFICES ASSUME waiter \in [Tasks -> Waits], kind \in {"signal", "contract", "permit"},
                    OwnerInv, [Next]_vars
             PROVE  OwnerInv'
  OBVIOUS
<1>0. BoundType /\ ReasonInv /\ AgreeInv
  BY DEF OwnerInv
<1>a. "none" \notin Reasons /\ {"ok", "waiting", "dropped"} \cap Reasons = {}
  BY DEF Reasons
\* Whatever the primitive is broken for, its waiters have not been told of
\* another reason.
<1>b. ASSUME NEW r \in Reasons, broken' = IF broken = "none" THEN r ELSE broken,
             UNCHANGED waiter
      PROVE  AgreeInv'
  BY <1>0, <1>a, <1>b DEF AgreeInv, ReasonInv
<1>1. CASE SignalCall \/ ContractCall \/ PermitCall \/ \E t \in Tasks : Poll(t)
  <2>1. /\ UNCHANGED <<broken, boundVars>>
        /\ \A u \in Tasks : waiter'[u] \in {waiter[u], "ok", "waiting", "dropped", broken}
    BY <1>1, CallEffect
  <2>2. AgreeInv'
    BY <1>0, <1>a, <2>1 DEF AgreeInv
  <2> QED BY <1>0, <2>1, <2>2 DEF OwnerInv, BoundType, ReasonInv, boundVars
<1>2. ASSUME NEW th \in Threads, Expose(th) PROVE OwnerInv'
  BY <1>0, <1>2, ThreadAssumption DEF Expose, primitive, OwnerInv, BoundType, ReasonInv, AgreeInv
<1>3. ASSUME NEW th \in Threads, NEW s \in {"Terminated", "Crashed"}, EndThread(th, s)
      PROVE  OwnerInv'
  <2>1. /\ ended[th] = "no" /\ ended' = [ended EXCEPT ![th] = s]
        /\ UNCHANGED <<kind, owner, scope>>
    BY <1>3 DEF EndThread
  <2>2. BoundType'
    BY <1>0, <2>1 DEF BoundType
  <2>3. CASE owner = th
    <3>1. PICK r \in {"OwnerGone", "OwnerCrashed"} :
              /\ r = "OwnerGone" <=> s = "Terminated"
              /\ break_with(r)
      BY <1>3, <2>3 DEF EndThread
    <3>2. r \in Reasons
      BY DEF Reasons
    <3>3. broken' = (IF broken = "none" THEN r ELSE broken) /\ UNCHANGED waiter
      BY <3>1, <3>2, BreakEffect
    <3>4. ended'[th] = s
      BY <1>0, <2>1 DEF BoundType
    <3>5. ReasonInv'
      BY <1>0, <1>a, <2>1, <2>3, <3>1, <3>2, <3>3, <3>4 DEF ReasonInv
    <3> QED BY <1>b, <2>2, <3>2, <3>3, <3>5 DEF OwnerInv
  <2>4. CASE owner # th
    <3>1. UNCHANGED <<broken, waiter>>
      BY <1>3, <2>4 DEF EndThread, primitive
    <3>2. owner \in Threads => ended'[owner] = ended[owner]
      BY <1>0, <2>1, <2>4 DEF BoundType
    <3>3. ReasonInv' /\ AgreeInv'
      BY <1>0, <2>1, <3>1, <3>2 DEF ReasonInv, AgreeInv
    <3> QED BY <2>2, <3>3 DEF OwnerInv
  <2> QED BY <2>3, <2>4
<1>4. ASSUME NEW c \in BOOLEAN, LeaveScope(c) PROVE OwnerInv'
  <2>1. PICK r \in {"ScopeGone", "ScopeCrashed"} :
            /\ r = "ScopeCrashed" <=> c
            /\ break_with(r)
    BY <1>4 DEF LeaveScope
  <2>2. scope = "open" /\ scope' = (IF c THEN "crashed" ELSE "left") /\ UNCHANGED <<kind, owner, ended>>
    BY <1>4 DEF LeaveScope
  <2>3. r \in Reasons
    BY DEF Reasons
  <2>4. broken' = (IF broken = "none" THEN r ELSE broken) /\ UNCHANGED waiter
    BY <2>1, <2>3, BreakEffect
  <2>5. ReasonInv'
    BY <1>0, <1>a, <2>1, <2>2, <2>3, <2>4 DEF ReasonInv
  <2>6. BoundType'
    BY <1>0, <2>2 DEF BoundType
  <2> QED BY <1>b, <2>3, <2>4, <2>5, <2>6 DEF OwnerInv
<1>5. CASE AbandonScope
  BY <1>0, <1>5 DEF AbandonScope, primitive, OwnerInv, BoundType, ReasonInv, AgreeInv
<1>6. CASE UNCHANGED vars
  BY <1>0, <1>6 DEF vars, boundVars, OwnerInv, BoundType, ReasonInv, AgreeInv
<1> QED BY <1>1, <1>2, <1>3, <1>4, <1>5, <1>6 DEF Next

-----------------------------------------------------------------------------
(* All of it.                                                                *)

SyncInv == TypeOK /\ PrimitiveInv /\ OwnerInv

\* What the types of the three components amount to.
Types ==
    /\ kind \in {"signal", "contract", "permit"}
    /\ raised \in BOOLEAN /\ pending \in BOOLEAN
    /\ changed \in Notifies(Tasks)
    /\ available \in Nat /\ queue \in Seq(Tasks) /\ granted \in SUBSET Tasks
    /\ released \in Nat /\ closed \in BOOLEAN
    /\ broken \in Reasons \cup {"none"}
    /\ waiter \in [Tasks -> Waits]
    /\ BoundType

\* The variables that the components share have one type in all of them.
LEMMA TypeParts == (TypeOK <=> Types) /\ (TypeOK' <=> Types')
BY DEF TypeOK, Types, BoundType, Sig!TypeOK, Con!TypeOK, Per!TypeOK, Sig!Notifies, Con!Notifies,
       Notifies, Sig!Reasons, Con!Reasons, Per!Reasons, Reasons, Sig!Waits, Con!Waits,
       Per!Waits, Waits

\* The types are kept too: the variables of the components not in use stay.
LEMMA SyncStep == SyncInv /\ [Next]_vars => SyncInv'
<1> SUFFICES ASSUME SyncInv, [Next]_vars PROVE SyncInv'
  OBVIOUS
<1>1. Types
  BY TypeParts DEF SyncInv
<1>2. PrimitiveInv'
  BY PrimitiveStep DEF SyncInv
<1>3. OwnerInv' /\ BoundType'
  BY <1>1, OwnerStep DEF Types, SyncInv, OwnerInv
<1>4. kind' = kind
  BY StepsOfPrimitive
<1>5. CASE kind = "signal"
  <2>1. Sig!TypeOK' /\ UNCHANGED <<pending, permitVars>>
    BY <1>2, <1>4, <1>5, StepsOfPrimitive DEF PrimitiveInv, SigInv
  <2>2. /\ raised' \in BOOLEAN /\ changed' \in Notifies(Tasks)
        /\ broken' \in Reasons \cup {"none"} /\ waiter' \in [Tasks -> Waits]
    BY <2>1, SigNotify DEF Sig!TypeOK, Sig!Reasons, Reasons, Sig!Waits, Waits
  <2> QED BY <1>1, <1>2, <1>3, <1>4, <2>1, <2>2, TypeParts DEF SyncInv, Types, permitVars
<1>6. CASE kind = "contract"
  <2>1. Con!TypeOK' /\ UNCHANGED <<raised, permitVars>>
    BY <1>2, <1>4, <1>6, StepsOfPrimitive DEF PrimitiveInv, ConInv
  <2>2. /\ pending' \in BOOLEAN /\ changed' \in Notifies(Tasks)
        /\ broken' \in Reasons \cup {"none"} /\ waiter' \in [Tasks -> Waits]
    BY <2>1, ConNotify DEF Con!TypeOK, Con!Reasons, Reasons, Con!Waits, Waits
  <2> QED BY <1>1, <1>2, <1>3, <1>4, <2>1, <2>2, TypeParts DEF SyncInv, Types, permitVars
<1>7. CASE kind = "permit"
  <2>1. PerP!TypeOK' /\ UNCHANGED <<raised, pending, changed>>
    BY <1>2, <1>4, <1>7, StepsOfPrimitive DEF PrimitiveInv, PerP!Inv
  <2>2. /\ available' \in Nat /\ queue' \in Seq(Tasks) /\ granted' \in SUBSET Tasks
        /\ released' \in Nat /\ closed' \in BOOLEAN
        /\ broken' \in Reasons \cup {"none"} /\ waiter' \in [Tasks -> Waits]
    BY <2>1 DEF PerP!TypeOK, PerP!Reasons, Reasons, PerP!Waits, Waits
  <2> QED BY <1>1, <1>2, <1>3, <1>4, <2>1, <2>2, TypeParts DEF SyncInv, Types
<1> QED BY <1>1, <1>5, <1>6, <1>7 DEF Types

\* It holds of a new primitive.
LEMMA SyncInit == Init => SyncInv
<1> SUFFICES ASSUME Init PROVE SyncInv
  OBVIOUS
<1>1. PrimitiveInv /\ OwnerInv
  BY PrimitiveInit, OwnerInit
<1>2. /\ kind \in {"signal", "contract", "permit"} /\ raised = FALSE /\ pending = FALSE
      /\ changed = [queue |-> <<>>, one |-> {}, all |-> {}, permit |-> FALSE]
      /\ available = Initial /\ queue = <<>> /\ granted = {} /\ released = 0 /\ closed = FALSE
      /\ broken = "none" /\ waiter = [t \in Tasks |-> "idle"]
  BY DEF Init, Sig!Init, Con!Init, Per!Init, Sig!NewNotify
<1>3. changed \in Notifies(Tasks)
  BY <1>2 DEF Notifies
<1>4. queue \in Seq(Tasks) /\ granted \in SUBSET Tasks /\ waiter \in [Tasks -> Waits]
  BY <1>2 DEF Waits
<1>5. Initial \in Nat
  BY SyncAssumption
<1> QED BY <1>1, <1>2, <1>3, <1>4, <1>5, TypeParts DEF SyncInv, OwnerInv, Types

\* The primitive, its owner and its scope keep their types.
THEOREM SyncTypeCorrect == Spec => []TypeOK
<1>1. SyncInv => TypeOK
  BY DEF SyncInv
<1> QED BY <1>1, SyncInit, SyncStep, PTL DEF Spec

\* All waits that fail, on a primitive of any number of waits and threads, fail
\* for the one reason it was first broken for.
THEOREM OneReasonForAll == Spec => []WaitersAgreeOnReason
<1>1. SyncInv => WaitersAgreeOnReason
  BY DEF SyncInv, OwnerInv, AgreeInv, WaitersAgreeOnReason
<1> QED BY <1>1, SyncInit, SyncStep, PTL DEF Spec

\* And that is how its owner, the first thread that exposed it, or its scope
\* really ended.
THEOREM ReasonIsTrue == Spec => []ReasonExplained
<1>1. SyncInv => ReasonExplained
  BY DEF SyncInv, OwnerInv, ReasonInv, ReasonExplained, Reasons
<1> QED BY <1>1, SyncInit, SyncStep, PTL DEF Spec
=============================================================================
