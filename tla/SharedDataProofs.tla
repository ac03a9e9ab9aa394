-------------------------- MODULE SharedDataProofs --------------------------
(***************************************************************************)
(* SharedData for any number of tasks and threads and any capacity: what   *)
(* locked values, queues and futures guarantee to those that wait in them. *)
(***************************************************************************)
EXTENDS SharedData, TLAPS

QueP == INSTANCE QueueProofs
NP   == INSTANCE NotifyProofs

-----------------------------------------------------------------------------
(* Steps of the composition are steps of the object in use, or leave it      *)
(* alone.                                                                    *)

\* The next-state relation of a queue, as QueueProofs sees it.
LEMMA QueueLink == Que!Next => QueP!Next
BY DEF Que!Next, Que!push, Que!enqueue, Que!try_pop, Que!dequeue, Que!wait_for_non_empty,
       Que!close, Que!Resume, Que!Drop, Que!Send, Que!Receive, Que!Return, Que!Full,
       Que!Listen, Que!NotifyNext, Que!NotifyAll, Que!Consume, Que!Unlisten, Que!Waiting,
       Que!Leave, Que!Without,
       QueP!Next, QueP!push, QueP!enqueue, QueP!try_pop, QueP!dequeue, QueP!wait_for_non_empty,
       QueP!close, QueP!Resume, QueP!Drop, QueP!Send, QueP!Receive, QueP!Return, QueP!Full,
       QueP!Listen, QueP!NotifyNext, QueP!NotifyAll, QueP!Consume, QueP!Unlisten, QueP!Waiting,
       QueP!Leave, QueP!Without

\* The operations on a Notify, as NotifyProofs sees them.
LEMMA NotifyLink ==
    /\ \A S : Loc!Notifies(S) = NP!Notifies(S)
    /\ \A n : Loc!Parked(n) = NP!Parked(n) /\ Loc!NotifyWaiters(n) = NP!NotifyWaiters(n)
    /\ \A n, t : /\ Loc!Park(n, t) = NP!Park(n, t) /\ Loc!Spend(n, t) = NP!Spend(n, t)
                 /\ Loc!Forsake(n, t) = NP!Forsake(n, t)
BY DEF Loc!Notifies, Loc!Parked, Loc!Waiting, Loc!NotifyWaiters, Loc!NotifyOne, Loc!Park, Loc!Spend,
       Loc!Forsake, Loc!Leave, Loc!Without,
       NP!Notifies, NP!Parked, NP!Waiting, NP!NotifyWaiters, NP!NotifyOne, NP!Park, NP!Spend,
       NP!Forsake, NP!Leave, NP!Without

\* Those on the queue of a Mutex.
LEMMA GuardLink ==
    /\ \A q : Fut!Waiting(q) = NP!Waiting(q)
    /\ \A q, t : Fut!Leave(q, t) = NP!Leave(q, t)
BY DEF Fut!Waiting, Fut!Leave, Fut!Without, NP!Waiting, NP!Leave, NP!Without

\* A step of the composition is a step of the object, whichever it is.
LEMMA StepsOfObject ==
    ASSUME [Next]_vars
    PROVE  /\ kind' = kind
           /\ kind = "locked" => Loc!Next \/ UNCHANGED Loc!vars
           /\ kind = "queue" => Que!Next \/ UNCHANGED Que!vars
           /\ kind = "future" => Fut!Next \/ UNCHANGED Fut!vars
<1> DEFINE Goal == /\ kind' = kind
                   /\ kind = "locked" => Loc!Next \/ UNCHANGED Loc!vars
                   /\ kind = "queue" => Que!Next \/ UNCHANGED Que!vars
                   /\ kind = "future" => Fut!Next \/ UNCHANGED Fut!vars
<1>1. ASSUME NEW t \in Tasks, LockedCall(t) PROVE Goal
  BY <1>1 DEF LockedCall, Loc!Next
<1>2. ASSUME NEW t \in Tasks, QueueCall(t) PROVE Goal
  BY <1>2 DEF QueueCall, Que!Next
<1>3. ASSUME NEW t \in Tasks, FutureCall(t) PROVE Goal
  BY <1>3 DEF FutureCall, Fut!Next
<1>4. ASSUME NEW t \in Tasks, Poll(t) PROVE Goal
  BY <1>4 DEF Poll, Loc!Next, Que!Next, Fut!Next
<1>5. CASE Close
  BY <1>5 DEF Close, Que!Next
<1>6. CASE Complete
  BY <1>6 DEF Complete, Fut!Next
<1>7. CASE UNCHANGED vars
  BY <1>7 DEF vars, lockedVars, queueVars, futureVars, Loc!vars, Que!vars, Fut!vars
<1> QED BY <1>1, <1>2, <1>3, <1>4, <1>5, <1>6, <1>7 DEF Next

-----------------------------------------------------------------------------
(* Locked values.                                                            *)

LockedInv == Loc!TypeOK /\ Loc!FreeWakesAll

\* A turn of the loop, on any Notify with the tasks still parked.
LEMMA LockedTurn ==
    ASSUME LockedInv, NEW t \in Tasks, NEW op \in {"idle", "lock", "get", "set", "dropped"},
           NEW n \in NP!Notifies(Tasks), NP!Parked(n) = NP!Parked(released), Loc!Turn(t, op, n)
    PROVE  LockedInv'
<1>1. CASE Loc!MustWait(t, op)
  <2>1. /\ released' = NP!Park(n, t) /\ call' = [call EXCEPT ![t] = op]
        /\ UNCHANGED <<owner, value>> /\ owner # "none"
    BY <1>1, NotifyLink DEF Loc!Turn, Loc!MustWait
  <2>2. released' \in NP!Notifies(Tasks)
    BY <2>1, NP!NotifyType
  <2> QED BY <2>1, <2>2, NotifyLink DEF LockedInv, Loc!TypeOK, Loc!FreeWakesAll
<1>2. CASE ~Loc!MustWait(t, op)
  <2>1. /\ released' = n /\ call' = [call EXCEPT ![t] = "idle"]
        /\ owner' = (IF op = "lock" THEN ThreadOf[t] ELSE owner)
        /\ value' = (IF op = "set" THEN t ELSE value)
    BY <1>2 DEF Loc!Turn
  <2>2. ThreadOf[t] \in Threads /\ ThreadOf[t] # "none"
    BY TaskAssumption
  <2>3. owner' = "none" => NP!Parked(n) = {}
    BY <1>2, <2>1, <2>2, NotifyLink DEF LockedInv, Loc!MustWait, Loc!FreeWakesAll
  <2> QED BY <2>1, <2>2, <2>3, NotifyLink DEF LockedInv, Loc!TypeOK, Loc!FreeWakesAll
<1> QED BY <1>1, <1>2

\* No call, poll or drop loses a wakeup.
LEMMA LockedStep == LockedInv /\ (Loc!Next \/ UNCHANGED Loc!vars) => LockedInv'
<1> SUFFICES ASSUME LockedInv, Loc!Next \/ UNCHANGED Loc!vars PROVE LockedInv'
  OBVIOUS
<1>0. /\ owner \in Threads \cup {"none"} /\ value \in Tasks \cup {"initial"}
      /\ released \in NP!Notifies(Tasks)
      /\ call \in [Tasks -> {"idle", "lock", "get", "set", "dropped"}]
      /\ owner = "none" => NP!Parked(released) = {}
  BY NotifyLink DEF LockedInv, Loc!TypeOK, Loc!FreeWakesAll
<1>1. ASSUME NEW t \in Tasks, Loc!lock(t) \/ Loc!get(t) \/ Loc!set(t) PROVE LockedInv'
  <2>1. PICK op \in {"lock", "get", "set"} : Loc!Turn(t, op, released)
    BY <1>1 DEF Loc!lock, Loc!get, Loc!set
  <2> QED BY <1>0, <2>1, LockedTurn
<1>2. ASSUME NEW t \in Tasks, Loc!try_lock(t) PROVE LockedInv'
  BY <1>0, <1>2, TaskAssumption DEF Loc!try_lock, LockedInv, Loc!TypeOK, Loc!FreeWakesAll
<1>3. ASSUME NEW t \in Tasks, Loc!unlock(t) PROVE LockedInv'
  <2>1. released' = NP!NotifyWaiters(released) /\ owner' = "none" /\ UNCHANGED <<value, call>>
    BY <1>3, NotifyLink DEF Loc!unlock
  <2>2. released' \in NP!Notifies(Tasks) /\ NP!Parked(released') = {}
    BY <1>0, <2>1, NP!NotifyWaitersFacts
  <2> QED BY <1>0, <2>1, <2>2, NotifyLink DEF LockedInv, Loc!TypeOK, Loc!FreeWakesAll
<1>4. ASSUME NEW t \in Tasks, Loc!Resume(t) PROVE LockedInv'
  <2>1. Loc!Turn(t, call[t], NP!Spend(released, t))
    BY <1>4, NotifyLink DEF Loc!Resume
  <2>2. /\ NP!Spend(released, t) \in NP!Notifies(Tasks)
        /\ NP!Parked(NP!Spend(released, t)) = NP!Parked(released)
    BY <1>0, NP!NotifyType, NP!ParkedFacts
  <2> QED BY <1>0, <2>1, <2>2, LockedTurn
<1>5. ASSUME NEW t \in Tasks, Loc!Drop(t) PROVE LockedInv'
  <2>1. /\ call' = [call EXCEPT ![t] = "dropped"] /\ UNCHANGED <<owner, value>>
        /\ released' \in {released, NP!Forsake(released, t)}
    BY <1>5, NotifyLink DEF Loc!Drop
  <2>2. released' \in NP!Notifies(Tasks) /\ NP!Parked(released') \subseteq NP!Parked(released)
    BY <1>0, <2>1, NP!NotifyType, NP!ParkedFacts
  <2> QED BY <1>0, <2>1, <2>2, NotifyLink DEF LockedInv, Loc!TypeOK, Loc!FreeWakesAll
<1>6. CASE UNCHANGED Loc!vars
  BY <1>6 DEF Loc!vars, LockedInv, Loc!TypeOK, Loc!FreeWakesAll, Loc!Parked, Loc!Waiting
<1> QED BY <1>1, <1>2, <1>3, <1>4, <1>5, <1>6 DEF Loc!Next

\* While every task of the thread with the lock waits for it, or has ended, a
\* step finds nobody who may unlock it and nobody who need not wait.
LEMMA StrandedStep ==
    LockedInv /\ (Loc!Next \/ UNCHANGED Loc!vars) => (Loc!Stranded => Loc!Stranded')
<1> SUFFICES ASSUME LockedInv, Loc!Next \/ UNCHANGED Loc!vars, Loc!Stranded
             PROVE  Loc!Stranded'
  OBVIOUS
<1>0. /\ owner # "none" /\ call \in [Tasks -> {"idle", "lock", "get", "set", "dropped"}]
      /\ \A t \in Tasks : ThreadOf[t] = owner => call[t] \in {"get", "set", "dropped"}
  BY DEF LockedInv, Loc!TypeOK, Loc!Stranded
<1>1. ASSUME NEW t \in Tasks, NEW op, NEW n, Loc!Turn(t, op, n),
             op \in {call[t], "lock", "get", "set"}, call[t] = "idle" \/ op = call[t]
      PROVE  Loc!Stranded'
  <2>1. ThreadOf[t] = owner => op \in {"get", "set", "dropped"}
    BY <1>0, <1>1
  <2>2. Loc!MustWait(t, op)
    BY <1>0, <2>1 DEF Loc!MustWait
  <2>3. call' = [call EXCEPT ![t] = op] /\ owner' = owner
    BY <1>1, <2>2 DEF Loc!Turn
  <2> QED BY <1>0, <2>1, <2>3 DEF Loc!Stranded
<1>2. ASSUME NEW t \in Tasks, Loc!lock(t) \/ Loc!get(t) \/ Loc!set(t) PROVE Loc!Stranded'
  <2>1. PICK op \in {"lock", "get", "set"} : Loc!Turn(t, op, released) /\ call[t] = "idle"
    BY <1>2 DEF Loc!lock, Loc!get, Loc!set
  <2> QED BY <1>1, <2>1
<1>3. ASSUME NEW t \in Tasks, Loc!try_lock(t) \/ Loc!unlock(t) PROVE FALSE
  BY <1>0, <1>3 DEF Loc!try_lock, Loc!unlock
<1>4. ASSUME NEW t \in Tasks, Loc!Resume(t) PROVE Loc!Stranded'
  BY <1>1, <1>4 DEF Loc!Resume
<1>5. ASSUME NEW t \in Tasks, Loc!Drop(t) PROVE Loc!Stranded'
  BY <1>0, <1>5 DEF Loc!Drop, Loc!Stranded
<1>6. CASE UNCHANGED Loc!vars
  BY <1>0, <1>6 DEF Loc!vars, Loc!Stranded
<1> QED BY <1>2, <1>3, <1>4, <1>5, <1>6 DEF Loc!Next

-----------------------------------------------------------------------------
(* Futures.                                                                  *)

SomeDropped == \E t \in Tasks : call[t] = "dropped"

\* Who has the guard and who is queued for it; it is not free while somebody is.
GuardInv ==
    /\ \A t \in Tasks : guard.holder = t <=> call[t] \in {"granted", "awaiting"}
    /\ NP!Distinct(guard.queue)
    /\ \A t \in Tasks : t \in NP!Waiting(guard.queue) <=> call[t] = "queued"
    /\ guard.queue # <<>> => guard.holder # "none"

\* The receiver is out of the state while one task awaits it, or because that
\* task was dropped; an outcome is the one that was sent, and the one returned.
StateInv ==
    /\ \A t \in Tasks : call[t] = "awaiting" => state = "Taken"
    /\ state = "Taken" => SomeDropped \/ \E t \in Tasks : call[t] = "awaiting"
    /\ state \in Fut!Outcomes => sender \in {"open", state}
    /\ \A t \in Tasks : call[t] \in Fut!Outcomes => call[t] = state
    /\ (\E t \in Tasks : call[t] = "panicked") => SomeDropped

FutureInv == Fut!TypeOK /\ GuardInv /\ StateInv

FutureCalls ==
    {"idle", "queued", "granted", "awaiting", "panicked", "dropped"} \cup Fut!Outcomes

\* The task with the guard, or one that finds it free and nobody queued, leaves
\* with a result: the guard goes to the oldest of the queue.
LEMMA LeavesFacts ==
    ASSUME Fut!TypeOK, GuardInv, NEW t \in Tasks, NEW r \in FutureCalls,
           r \notin {"queued", "granted", "awaiting"}, call[t] \in {"idle", "granted", "awaiting"},
           call[t] = "idle" => guard.holder = "none",
           Fut!Leaves(t, r)
    PROVE  /\ guard' \in [holder : Tasks \cup {"none"}, queue : Seq(Tasks)]
           /\ call' \in [Tasks -> FutureCalls]
           /\ GuardInv'
           /\ call'[t] = r
           /\ \A u \in Tasks : u # t => \/ call'[u] = call[u]
                                        \/ call[u] = "queued" /\ call'[u] = "granted"
<1>0. /\ guard.holder \in Tasks \cup {"none"} /\ guard.queue \in Seq(Tasks)
      /\ guard \in [holder : Tasks \cup {"none"}, queue : Seq(Tasks)]
      /\ call \in [Tasks -> FutureCalls]
      /\ "none" \notin Tasks
  BY TaskAssumption DEF Fut!TypeOK, FutureCalls
<1>1. CASE guard.queue = <<>>
  <2>1. guard' = [guard EXCEPT !.holder = "none"] /\ call' = [call EXCEPT ![t] = r]
    BY <1>1 DEF Fut!Leaves, Fut!Release, Fut!Granting
  <2>2. guard'.holder = "none" /\ guard'.queue = <<>>
    BY <1>0, <1>1, <2>1
  <2>3. guard' \in [holder : Tasks \cup {"none"}, queue : Seq(Tasks)]
    BY <1>0, <2>1
  <2>4. /\ call' \in [Tasks -> FutureCalls] /\ call'[t] = r
        /\ \A u \in Tasks : u # t => call'[u] = call[u]
    BY <1>0, <2>1
  <2>5. \A u \in Tasks : u # t => call[u] \notin {"granted", "awaiting"}
    BY <1>0 DEF GuardInv
  <2>6. NP!Distinct(<<>>) /\ NP!Waiting(<<>>) = {}
    BY DEF NP!Distinct, NP!Waiting
  <2>7. \A u \in Tasks : call[u] # "queued"
    BY <1>1, <2>6 DEF GuardInv
  <2>8. GuardInv'
    BY <1>0, <2>2, <2>4, <2>5, <2>6, <2>7 DEF GuardInv
  <2> QED BY <2>3, <2>4, <2>8
<1>2. CASE guard.queue # <<>>
  <2> DEFINE h == Head(guard.queue)
  <2>1. /\ guard' = [holder |-> h, queue |-> Tail(guard.queue)]
        /\ call' = [[call EXCEPT ![t] = r] EXCEPT ![h] = "granted"]
    BY <1>2 DEF Fut!Leaves, Fut!Release, Fut!Granting
  <2>2. /\ Tail(guard.queue) \in Seq(Tasks) /\ NP!Distinct(Tail(guard.queue))
        /\ NP!Waiting(Tail(guard.queue)) = NP!Waiting(guard.queue) \ {h}
        /\ h \in NP!Waiting(guard.queue)
    BY <1>0, <1>2, NP!TailDistinct DEF GuardInv
  <2>3. h \in Tasks
    BY <1>0, <1>2, NP!WaitingFacts
  <2> HIDE DEF h
  <2>4. call[h] = "queued" /\ h # t
    BY <2>2, <2>3 DEF GuardInv
  <2>5. "granted" \in FutureCalls
    BY DEF FutureCalls
  <2>6. /\ call' \in [Tasks -> FutureCalls] /\ call'[t] = r /\ call'[h] = "granted"
        /\ \A u \in Tasks : u # t /\ u # h => call'[u] = call[u]
    BY <1>0, <2>1, <2>3, <2>4, <2>5
  <2>7. guard' \in [holder : Tasks \cup {"none"}, queue : Seq(Tasks)]
    BY <2>1, <2>2, <2>3
  <2>8. guard'.holder = h /\ guard'.queue = Tail(guard.queue)
    BY <2>1
  <2>9. guard.holder = t
    BY <1>2 DEF GuardInv
  <2>10. \A u \in Tasks : u # t => call[u] \notin {"granted", "awaiting"}
    BY <2>9 DEF GuardInv
  <2>11. GuardInv'
    BY <1>0, <2>2, <2>3, <2>4, <2>6, <2>8, <2>10 DEF GuardInv
  <2> QED BY <2>4, <2>6, <2>7, <2>11
<1> QED BY <1>1, <1>2

\* resolve() up to its await.
LEMMA GuardedStep ==
    ASSUME FutureInv, NEW t \in Tasks, call[t] \in {"idle", "granted"},
           call[t] = "idle" => guard.holder = "none", Fut!Guarded(t), UNCHANGED sender
    PROVE  FutureInv'
<1>0. /\ Fut!TypeOK /\ GuardInv /\ StateInv
      /\ state \in {"Pending", "Taken"} \cup Fut!Outcomes
      /\ sender \in {"open", "Ok", "Failed"}
      /\ guard \in [holder : Tasks \cup {"none"}, queue : Seq(Tasks)]
      /\ call \in [Tasks -> FutureCalls]
      /\ "none" \notin Tasks
  BY TaskAssumption DEF FutureInv, Fut!TypeOK, FutureCalls
<1>1. \A u \in Tasks : call[u] # "awaiting"
  BY <1>0 DEF GuardInv
<1>a. ASSUME NEW r \in Fut!Outcomes, Fut!Leaves(t, r), state' = r, state \in {"Pending", r},
             sender \in {"open", r}
      PROVE  FutureInv'
  <2>1. r \in FutureCalls /\ r \notin {"queued", "granted", "awaiting"} /\ r # "dropped" /\ r # "panicked"
    BY DEF FutureCalls, Fut!Outcomes
  <2>2. /\ guard' \in [holder : Tasks \cup {"none"}, queue : Seq(Tasks)]
        /\ call' \in [Tasks -> FutureCalls] /\ GuardInv' /\ call'[t] = r
        /\ \A u \in Tasks : u # t => \/ call'[u] = call[u]
                                     \/ call[u] = "queued" /\ call'[u] = "granted"
    BY <1>0, <1>a, <2>1, LeavesFacts
  <2>3. Fut!TypeOK'
    BY <1>0, <1>a, <2>2 DEF Fut!TypeOK, FutureCalls
  <2>4. "Taken" \notin Fut!Outcomes /\ "Pending" \notin Fut!Outcomes /\ "granted" \notin Fut!Outcomes
    BY DEF Fut!Outcomes
  <2>5. SomeDropped => SomeDropped'
    BY <2>2 DEF SomeDropped
  <2>6. StateInv'
    BY <1>0, <1>1, <1>a, <2>1, <2>2, <2>4, <2>5 DEF StateInv
  <2> QED BY <2>2, <2>3, <2>6 DEF FutureInv
<1>2. ASSUME state \in Fut!Outcomes, Fut!Leaves(t, state), UNCHANGED state PROVE FutureInv'
  BY <1>0, <1>2, <1>a DEF StateInv
<1>3. ASSUME state = "Pending", sender # "open", Fut!Leaves(t, sender), state' = sender
      PROVE  FutureInv'
  <2>1. sender \in Fut!Outcomes
    BY <1>0, <1>3 DEF Fut!Outcomes
  <2> QED BY <1>3, <1>a, <2>1
<1>4. ASSUME state = "Pending", sender = "open", state' = "Taken",
             call' = [call EXCEPT ![t] = "awaiting"], guard' = [guard EXCEPT !.holder = t]
      PROVE  FutureInv'
  <2>1. /\ call' \in [Tasks -> FutureCalls] /\ call'[t] = "awaiting"
        /\ \A u \in Tasks : u # t => call'[u] = call[u]
    BY <1>0, <1>4 DEF FutureCalls
  <2>2. /\ guard' \in [holder : Tasks \cup {"none"}, queue : Seq(Tasks)]
        /\ guard'.holder = t /\ guard'.queue = guard.queue
    BY <1>0, <1>4
  <2>3. Fut!TypeOK'
    BY <1>0, <1>4, <2>1, <2>2 DEF Fut!TypeOK, FutureCalls
  <2>4. \A u \in Tasks : u # t => call[u] \notin {"granted", "awaiting"}
    BY <1>0 DEF GuardInv
  <2>5. GuardInv'
    BY <1>0, <2>1, <2>2, <2>4 DEF GuardInv
  <2>6. \A u \in Tasks : call[u] \notin Fut!Outcomes
    BY <1>0, <1>4 DEF StateInv, Fut!Outcomes
  <2>7. SomeDropped => SomeDropped'
    BY <2>1 DEF SomeDropped
  <2>8. StateInv'
    BY <1>0, <1>4, <2>1, <2>6, <2>7 DEF StateInv, Fut!Outcomes
  <2> QED BY <2>3, <2>5, <2>8 DEF FutureInv
<1>5. ASSUME state = "Taken", Fut!Leaves(t, "panicked"), UNCHANGED state PROVE FutureInv'
  <2>1. "panicked" \in FutureCalls /\ "panicked" \notin Fut!Outcomes /\ "Taken" \notin Fut!Outcomes
    BY DEF FutureCalls, Fut!Outcomes
  <2>2. /\ guard' \in [holder : Tasks \cup {"none"}, queue : Seq(Tasks)]
        /\ call' \in [Tasks -> FutureCalls] /\ GuardInv' /\ call'[t] = "panicked"
        /\ \A u \in Tasks : u # t => \/ call'[u] = call[u]
                                     \/ call[u] = "queued" /\ call'[u] = "granted"
    BY <1>0, <1>5, <2>1, LeavesFacts
  <2>3. Fut!TypeOK'
    BY <1>0, <1>5, <2>2 DEF Fut!TypeOK, FutureCalls
  <2>4. SomeDropped'
    <3>1. PICK u \in Tasks : call[u] = "dropped"
      BY <1>0, <1>1, <1>5 DEF StateInv, SomeDropped
    <3>2. u # t
      BY <3>1
    <3> QED BY <2>2, <3>1, <3>2 DEF SomeDropped
  <2>5. StateInv'
    BY <1>0, <1>1, <1>5, <2>1, <2>2, <2>4 DEF StateInv, Fut!Outcomes
  <2> QED BY <2>2, <2>3, <2>5 DEF FutureInv
<1> QED BY <1>2, <1>3, <1>4, <1>5 DEF Fut!Guarded

\* No call, poll, drop or end of the task breaks it.
LEMMA FutureStep == FutureInv /\ (Fut!Next \/ UNCHANGED Fut!vars) => FutureInv'
<1> SUFFICES ASSUME FutureInv, Fut!Next \/ UNCHANGED Fut!vars PROVE FutureInv'
  OBVIOUS
<1>0. /\ Fut!TypeOK /\ GuardInv /\ StateInv
      /\ state \in {"Pending", "Taken"} \cup Fut!Outcomes
      /\ sender \in {"open", "Ok", "Failed"}
      /\ guard \in [holder : Tasks \cup {"none"}, queue : Seq(Tasks)]
      /\ guard.queue \in Seq(Tasks) /\ guard.holder \in Tasks \cup {"none"}
      /\ call \in [Tasks -> FutureCalls]
      /\ "none" \notin Tasks
  BY TaskAssumption DEF FutureInv, Fut!TypeOK, FutureCalls
<1>1. ASSUME NEW o \in {"Ok", "Failed"}, Fut!Complete(o) PROVE FutureInv'
  <2>1. sender' = o /\ state \notin Fut!Outcomes /\ UNCHANGED <<state, guard, call>>
    BY <1>1 DEF Fut!Complete
  <2>2. Fut!TypeOK' /\ GuardInv'
    BY <1>0, <2>1 DEF Fut!TypeOK, GuardInv
  <2>3. StateInv'
    BY <1>0, <2>1 DEF StateInv, SomeDropped
  <2> QED BY <2>2, <2>3 DEF FutureInv
<1>2. ASSUME NEW t \in Tasks, Fut!resolve(t) PROVE FutureInv'
  <2>1. call[t] = "idle" /\ UNCHANGED sender
    BY <1>2 DEF Fut!resolve
  <2>2. CASE guard.holder = "none" /\ Fut!Guarded(t)
    BY <2>1, <2>2, GuardedStep
  <2>3. CASE /\ guard.holder # "none"
             /\ guard' = [guard EXCEPT !.queue = Append(@, t)]
             /\ call' = [call EXCEPT ![t] = "queued"]
             /\ UNCHANGED state
    <3>1. /\ call' \in [Tasks -> FutureCalls] /\ call'[t] = "queued"
          /\ \A u \in Tasks : u # t => call'[u] = call[u]
      BY <1>0, <2>3 DEF FutureCalls
    <3>2. t \notin NP!Waiting(guard.queue)
      BY <1>0, <2>1 DEF GuardInv
    <3>3. /\ Append(guard.queue, t) \in Seq(Tasks) /\ NP!Distinct(Append(guard.queue, t))
          /\ NP!Waiting(Append(guard.queue, t)) = NP!Waiting(guard.queue) \cup {t}
      BY <1>0, <3>2, NP!AppendDistinct, NP!WaitingFacts DEF GuardInv
    <3>4. /\ guard' \in [holder : Tasks \cup {"none"}, queue : Seq(Tasks)]
          /\ guard'.holder = guard.holder /\ guard'.queue = Append(guard.queue, t)
      BY <1>0, <2>3, <3>3
    <3>5. GuardInv'
      BY <1>0, <2>1, <2>3, <3>1, <3>3, <3>4 DEF GuardInv
    <3>6. Fut!TypeOK'
      BY <1>0, <2>1, <2>3, <3>1, <3>4 DEF Fut!TypeOK, FutureCalls
    <3>7. StateInv'
      BY <1>0, <2>1, <2>3, <3>1 DEF StateInv, SomeDropped, Fut!Outcomes
    <3> QED BY <3>5, <3>6, <3>7 DEF FutureInv
  <2> QED BY <1>2, <2>2, <2>3 DEF Fut!resolve
<1>3. ASSUME NEW t \in Tasks, Fut!Granted(t) PROVE FutureInv'
  BY <1>3, GuardedStep DEF Fut!Granted
<1>4. ASSUME NEW t \in Tasks, Fut!Receive(t) PROVE FutureInv'
  <2>1. /\ call[t] = "awaiting" /\ sender # "open" /\ state' = sender /\ Fut!Leaves(t, sender)
        /\ UNCHANGED sender
    BY <1>4 DEF Fut!Receive
  <2>2. sender \in Fut!Outcomes /\ sender \in FutureCalls /\ state = "Taken"
    BY <1>0, <2>1 DEF Fut!Outcomes, FutureCalls, StateInv
  <2>3. \A u \in Tasks : call[u] \notin Fut!Outcomes /\ (u # t => call[u] # "awaiting")
    BY <1>0, <2>1, <2>2 DEF StateInv, GuardInv, Fut!Outcomes
  <2>4. /\ guard' \in [holder : Tasks \cup {"none"}, queue : Seq(Tasks)]
        /\ call' \in [Tasks -> FutureCalls] /\ GuardInv' /\ call'[t] = sender
        /\ \A u \in Tasks : u # t => \/ call'[u] = call[u]
                                     \/ call[u] = "queued" /\ call'[u] = "granted"
    BY <1>0, <2>1, <2>2, LeavesFacts DEF Fut!Outcomes
  <2>5. Fut!TypeOK'
    BY <1>0, <2>1, <2>2, <2>4 DEF Fut!TypeOK, FutureCalls
  <2>6. SomeDropped => SomeDropped'
    BY <2>1, <2>4 DEF SomeDropped
  <2>7. StateInv'
    BY <1>0, <2>1, <2>2, <2>3, <2>4, <2>6 DEF StateInv, Fut!Outcomes
  <2> QED BY <2>4, <2>5, <2>7 DEF FutureInv
<1>5. ASSUME NEW t \in Tasks, Fut!Drop(t) PROVE FutureInv'
  <2>0. UNCHANGED <<state, sender>> /\ call[t] \in {"queued", "granted", "awaiting"}
    BY <1>5 DEF Fut!Drop
  <2>1. CASE call[t] = "queued"
    <3>1. /\ guard' = [guard EXCEPT !.queue = NP!Leave(guard.queue, t)]
          /\ call' = [call EXCEPT ![t] = "dropped"]
      BY <1>5, <2>1, GuardLink DEF Fut!Drop
    <3>2. /\ NP!Leave(guard.queue, t) \in Seq(Tasks) /\ NP!Distinct(NP!Leave(guard.queue, t))
          /\ NP!Waiting(NP!Leave(guard.queue, t)) = NP!Waiting(guard.queue) \ {t}
          /\ guard.queue # <<>>
      <4>1. t \in NP!Waiting(guard.queue)
        BY <1>0, <2>1 DEF GuardInv
      <4> QED BY <1>0, <4>1, NP!LeaveFacts, NP!WaitingFacts DEF GuardInv
    <3>3. /\ call' \in [Tasks -> FutureCalls] /\ call'[t] = "dropped"
          /\ \A u \in Tasks : u # t => call'[u] = call[u]
      BY <1>0, <3>1 DEF FutureCalls
    <3>4. /\ guard' \in [holder : Tasks \cup {"none"}, queue : Seq(Tasks)]
          /\ guard'.holder = guard.holder /\ guard'.queue = NP!Leave(guard.queue, t)
      BY <1>0, <3>1, <3>2
    <3>5. GuardInv'
      BY <1>0, <2>1, <3>2, <3>3, <3>4 DEF GuardInv
    <3>6. Fut!TypeOK'
      BY <1>0, <2>0, <3>3, <3>4 DEF Fut!TypeOK, FutureCalls
    <3>7. StateInv'
      <4>1. SomeDropped'
        BY <3>3 DEF SomeDropped
      <4> QED BY <1>0, <2>0, <2>1, <3>3, <4>1 DEF StateInv, Fut!Outcomes
    <3> QED BY <3>5, <3>6, <3>7 DEF FutureInv
  <2>2. CASE call[t] # "queued"
    <3>1. Fut!Leaves(t, "dropped") /\ "dropped" \in FutureCalls
      BY <1>5, <2>2 DEF Fut!Drop, FutureCalls
    <3>2. /\ guard' \in [holder : Tasks \cup {"none"}, queue : Seq(Tasks)]
          /\ call' \in [Tasks -> FutureCalls] /\ GuardInv' /\ call'[t] = "dropped"
          /\ \A u \in Tasks : u # t => \/ call'[u] = call[u]
                                       \/ call[u] = "queued" /\ call'[u] = "granted"
      BY <1>0, <2>0, <2>2, <3>1, LeavesFacts
    <3>3. Fut!TypeOK'
      BY <1>0, <2>0, <3>2 DEF Fut!TypeOK, FutureCalls
    <3>4. StateInv'
      <4>1. SomeDropped'
        BY <3>2 DEF SomeDropped
      <4> QED BY <1>0, <2>0, <3>2, <4>1 DEF StateInv, Fut!Outcomes
    <3> QED BY <3>2, <3>3, <3>4 DEF FutureInv
  <2> QED BY <2>1, <2>2
<1>6. CASE UNCHANGED Fut!vars
  BY <1>0, <1>6 DEF Fut!vars, FutureInv, Fut!TypeOK, GuardInv, StateInv, SomeDropped,
                    NP!Distinct, NP!Waiting
<1> QED BY <1>1, <1>2, <1>3, <1>4, <1>5, <1>6 DEF Fut!Next, Fut!Resume

\* Nobody has or wants the guard of a future that is done but those that find
\* the outcome.
LEMMA DoneStep ==
    FutureInv /\ (Fut!Next \/ UNCHANGED Fut!vars) => (Fut!is_done => Fut!is_done')
<1> SUFFICES ASSUME FutureInv, Fut!Next \/ UNCHANGED Fut!vars, Fut!is_done
             PROVE  Fut!is_done'
  OBVIOUS
<1>0. /\ guard.holder = "none" /\ state \in Fut!Outcomes /\ guard.queue = <<>>
      /\ guard \in [holder : Tasks \cup {"none"}, queue : Seq(Tasks)]
  BY DEF FutureInv, Fut!TypeOK, GuardInv, Fut!is_done
<1>1. \A t \in Tasks : call[t] \notin {"queued", "granted", "awaiting"}
  <2>1. NP!Waiting(<<>>) = {} /\ "none" \notin Tasks
    BY TaskAssumption DEF NP!Waiting
  <2> QED BY <1>0, <2>1 DEF FutureInv, GuardInv
<1>2. ASSUME NEW t \in Tasks, Fut!resolve(t) PROVE Fut!is_done'
  <2>1. state' = state /\ Fut!Leaves(t, state)
    BY <1>0, <1>2 DEF Fut!resolve, Fut!Guarded, Fut!Outcomes
  <2>2. guard' = [guard EXCEPT !.holder = "none"]
    BY <1>0, <2>1 DEF Fut!Leaves, Fut!Release
  <2> QED BY <1>0, <2>1, <2>2 DEF Fut!is_done
<1>3. ASSUME NEW t \in Tasks, Fut!Resume(t) \/ Fut!Drop(t) PROVE FALSE
  BY <1>1, <1>3 DEF Fut!Resume, Fut!Granted, Fut!Receive, Fut!Drop
<1>4. ~Fut!Complete("Ok") /\ ~Fut!Complete("Failed")
  BY <1>0 DEF Fut!Complete
<1>5. CASE UNCHANGED Fut!vars
  BY <1>0, <1>5 DEF Fut!vars, Fut!is_done
<1> QED BY <1>2, <1>3, <1>4, <1>5 DEF Fut!Next

-----------------------------------------------------------------------------
(* All three.                                                                *)

DataInv ==
    \/ kind = "locked" /\ LockedInv
    \/ kind = "queue"  /\ QueP!Inv
    \/ kind = "future" /\ FutureInv

\* It holds of new objects.
LEMMA DataInit == Init => DataInv
<1> SUFFICES ASSUME Init PROVE DataInv
  OBVIOUS
<1>0. kind \in {"locked", "queue", "future"} /\ Loc!Init /\ Que!Init /\ Fut!Init
  BY DEF Init
<1>1. CASE kind = "locked"
  <2>1. /\ owner = "none" /\ value = "initial" /\ call = [t \in Tasks |-> "idle"]
        /\ released = [queue |-> <<>>, one |-> {}, all |-> {}, permit |-> FALSE]
    BY <1>0 DEF Loc!Init, Loc!NewNotify
  <2>2. <<>> \in Seq(Tasks) /\ {} \in SUBSET Tasks /\ NP!Waiting(<<>>) = {}
    BY DEF NP!Waiting
  <2>3. released \in NP!Notifies(Tasks)
    BY <2>1, <2>2 DEF NP!Notifies
  <2>4. NP!Parked(released) = {}
    BY <2>1, <2>2 DEF NP!Parked
  <2> QED BY <1>1, <2>1, <2>3, <2>4, NotifyLink DEF DataInv, LockedInv, Loc!TypeOK, Loc!FreeWakesAll
<1>2. CASE kind = "queue"
  <2>1. QueP!Init
    BY <1>0 DEF Que!Init, QueP!Init, Que!NewEvent, QueP!NewEvent
  <2>2. QueP!Inv
    BY <2>1, TaskAssumption, QueP!InitInv DEF IsFiniteSet, QueP!IsFiniteSet
  <2> QED BY <1>2, <2>2 DEF DataInv
<1>3. CASE kind = "future"
  <2>1. /\ state \in {"Pending", "Failed", "DispatchFailed"} /\ sender = "open"
        /\ guard = [holder |-> "none", queue |-> <<>>] /\ call = [t \in Tasks |-> "idle"]
    BY <1>0 DEF Fut!Init
  <2>2. <<>> \in Seq(Tasks) /\ NP!Distinct(<<>>) /\ NP!Waiting(<<>>) = {}
    BY DEF NP!Distinct, NP!Waiting
  <2>3. guard \in [holder : Tasks \cup {"none"}, queue : Seq(Tasks)]
    BY <2>1, <2>2
  <2>4. Fut!TypeOK
    BY <2>1, <2>3 DEF Fut!TypeOK, Fut!Outcomes
  <2>5. GuardInv
    BY <2>1, <2>2, TaskAssumption DEF GuardInv
  <2>6. StateInv
    BY <2>1 DEF StateInv, Fut!Outcomes
  <2> QED BY <1>3, <2>4, <2>5, <2>6 DEF DataInv, FutureInv
<1> QED BY <1>0, <1>1, <1>2, <1>3

\* And is kept by every step.
LEMMA DataStep == DataInv /\ [Next]_vars => DataInv'
<1> SUFFICES ASSUME DataInv, [Next]_vars PROVE DataInv'
  OBVIOUS
<1>0. kind' = kind
  BY StepsOfObject
<1>1. CASE kind = "locked" /\ LockedInv
  BY <1>0, <1>1, StepsOfObject, LockedStep DEF DataInv
<1>2. CASE kind = "queue" /\ QueP!Inv
  <2>1. QueP!Next \/ UNCHANGED QueP!vars
    BY <1>2, StepsOfObject, QueueLink DEF Que!vars, QueP!vars
  <2>2. QueP!Inv'
    BY <1>2, <2>1, TaskAssumption, QueP!StepInv DEF IsFiniteSet, QueP!IsFiniteSet
  <2> QED BY <1>0, <1>2, <2>2 DEF DataInv
<1>3. CASE kind = "future" /\ FutureInv
  BY <1>0, <1>3, StepsOfObject, FutureStep DEF DataInv
<1> QED BY <1>1, <1>2, <1>3 DEF DataInv

\* What the theorems of QueueProofs say of the queue.
LEMMA QueueFacts ==
    ASSUME QueP!Inv
    PROVE  Que!TypeOK /\ Que!BlockedOnlyWithoutWork /\ Que!ExactlyOnce /\ Que!NoneIsTheEnd
<1>1. Que!TypeOK
  BY DEF QueP!Inv, QueP!TypeOK, Que!TypeOK, QueP!Events, Que!Events, QueP!Results, Que!Results
<1>2. QueP!BlockedOnlyWithoutWork /\ QueP!ExactlyOnce
  BY TaskAssumption, QueP!InvBlocked, QueP!InvOnce DEF IsFiniteSet, QueP!IsFiniteSet
<1>3. Que!BlockedOnlyWithoutWork
  BY <1>2 DEF QueP!BlockedOnlyWithoutWork, Que!BlockedOnlyWithoutWork, QueP!WokenFor, Que!WokenFor,
              QueP!Cardinality, Que!Cardinality
<1>4. Que!ExactlyOnce
  BY <1>2 DEF QueP!ExactlyOnce, Que!ExactlyOnce, QueP!Cardinality, Que!Cardinality
<1>5. Que!NoneIsTheEnd
  BY DEF QueP!Inv, QueP!NoneIsTheEnd, Que!NoneIsTheEnd
<1> QED BY <1>1, <1>3, <1>4, <1>5

\* What the invariant of a future says of it.
LEMMA FutureFacts == FutureInv => Fut!TypeOK /\ Fut!ResolversAgree /\ Fut!PanicsAfterDrop
BY DEF FutureInv, StateInv, SomeDropped, Fut!ResolversAgree, Fut!PanicsAfterDrop

\* Locked values, queues and futures keep their types.
THEOREM DataTypeCorrect == Spec => []TypeOK
<1>1. DataInv => TypeOK
  BY QueueFacts DEF DataInv, TypeOK, LockedInv, FutureInv
<1> QED BY <1>1, DataInit, DataStep, PTL DEF Spec

\* Locked: nobody stays parked on a value that is free, for any number of tasks
\* and threads.
THEOREM UnlockWakesAll == Spec => []FreeWakesAll
<1>1. DataInv => FreeWakesAll
  BY DEF DataInv, FreeWakesAll, LockedInv
<1> QED BY <1>1, DataInit, DataStep, PTL DEF Spec

\* Locked: a lock whose thread waits for it, or has ended, is never passed on.
THEOREM StrandedStays == Spec => StrandedForGood
<1>1. DataInv /\ [Next]_vars => (kind = "locked" => (Loc!Stranded => Loc!Stranded'))
  BY StepsOfObject, StrandedStep DEF DataInv
<1> QED BY <1>1, DataInit, DataStep, PTL DEF Spec, StrandedForGood

\* Queue: nobody stays blocked while there is something for him to do, for any
\* capacity and any number of senders and receivers.
THEOREM NobodyBlockedInVain == Spec => []BlockedOnlyWithoutWork
<1>1. DataInv => BlockedOnlyWithoutWork
  BY QueueFacts DEF DataInv, BlockedOnlyWithoutWork
<1> QED BY <1>1, DataInit, DataStep, PTL DEF Spec

\* Queue: what a call reports of its element is what becomes of it.
THEOREM ElementsDeliveredOnce == Spec => []ExactlyOnce
<1>1. DataInv => ExactlyOnce
  BY QueueFacts DEF DataInv, ExactlyOnce
<1> QED BY <1>1, DataInit, DataStep, PTL DEF Spec

\* Queue: the None of dequeue() is final.
THEOREM NoneIsFinal == Spec => []NoneIsTheEnd
<1>1. DataInv => NoneIsTheEnd
  BY QueueFacts DEF DataInv, NoneIsTheEnd
<1> QED BY <1>1, DataInit, DataStep, PTL DEF Spec

\* Future: all that resolve it get one outcome, the one that was sent.
THEOREM OneOutcome == Spec => []ResolversAgree
<1>1. DataInv => ResolversAgree
  BY FutureFacts DEF DataInv, ResolversAgree
<1> QED BY <1>1, DataInit, DataStep, PTL DEF Spec

\* Future: "polled twice" is reached only if an await was abandoned.
THEOREM PolledTwiceAfterDrop == Spec => []PanicsAfterDrop
<1>1. DataInv => PanicsAfterDrop
  BY FutureFacts DEF DataInv, PanicsAfterDrop
<1> QED BY <1>1, DataInit, DataStep, PTL DEF Spec

\* Future: isDone() never goes back from true to false.
THEOREM DoneIsFinal == Spec => DoneStaysDone
<1>1. DataInv /\ [Next]_vars => (kind = "future" /\ Fut!is_done => Fut!is_done')
  BY StepsOfObject, DoneStep DEF DataInv
<1> QED BY <1>1, DataInit, DataStep, PTL DEF Spec, DoneStaysDone
=============================================================================
