------------------------------ MODULE Futures -------------------------------
(***************************************************************************)
(* TesseraFuture and TesseraHandlerFuture (tessera-runtime/src/future.rs): *)
(* the cached outcome of a task, with the task that computes it and those  *)
(* that resolve it.  Both hold a tokio Mutex across the await of a oneshot *)
(* receiver that they take out of the state.                               *)
(***************************************************************************)
EXTENDS DataBase, WaitQueue

VARIABLES
    state,     \* "Pending", "Taken" (its receiver was taken), or an outcome
    sender,    \* of the oneshot: "open", or what its receiver gets
    guard,     \* the Mutex: its holder or "none", then those queued for it
    call       \* per task: "idle", where it is in resolve(), its result, or "dropped"

vars == <<state, sender, guard, call>>

Outcomes == {"Ok", "Failed", "DispatchFailed"}

TypeOK ==
    /\ state \in {"Pending", "Taken"} \cup Outcomes
    /\ sender \in {"open", "Ok", "Failed"}
    /\ guard \in [holder : Tasks \cup {"none"}, queue : Seq(Tasks)]
    /\ call \in [Tasks -> {"idle", "queued", "granted", "awaiting", "panicked", "dropped"} \cup Outcomes]

\* new(), from_future(): pending.  immediate(), rejected(): resolved already.
Init ==
    /\ state \in {"Pending", "Failed", "DispatchFailed"}
    /\ sender = "open"
    /\ guard = [holder |-> "none", queue |-> <<>>]
    /\ call = [t \in Tasks |-> "idle"]

\* The Mutex goes to the task that has waited longest, which has yet to run.
Release(g) ==
    IF g.queue = <<>> THEN [g EXCEPT !.holder = "none"]
    ELSE [holder |-> Head(g.queue), queue |-> Tail(g.queue)]

\* call with the task that the Mutex goes to granted.
Granting(c, g) ==
    IF g.queue = <<>> THEN c ELSE [c EXCEPT ![Head(g.queue)] = "granted"]

Leaves(t, result) ==
    /\ guard' = Release(guard)
    /\ call' = Granting([call EXCEPT ![t] = result], guard)

\* The task sends its outcome, or ends without ("sender dropped").
Complete(outcome) ==
    /\ sender = "open" /\ state \notin Outcomes
    /\ sender' = outcome
    /\ UNCHANGED <<state, guard, call>>

\* Mutant: the receiver is moved out and the guard given up before the await.
Mut_Guarded(t) ==
    \/ state \in Outcomes /\ Leaves(t, state) /\ UNCHANGED state
    \/ state = "Pending" /\ state' = "Taken" /\ Leaves(t, "awaiting")
    \/ state = "Taken" /\ Leaves(t, "panicked") /\ UNCHANGED state

\* Mutant: the first that comes after the end takes the outcome with it.
Mut_Guarded_take(t) ==
    \/ state \in Outcomes /\ Leaves(t, state) /\ state' = "Taken"
    \/ /\ state = "Pending" /\ state' = "Taken"
       /\ call' = [call EXCEPT ![t] = "awaiting"]
       /\ guard' = [guard EXCEPT !.holder = t]
    \/ state = "Taken" /\ Leaves(t, "panicked") /\ UNCHANGED state

\* resolve() of the task that has the guard, up to its await.  A receiver that
\* was taken and not put back is "polled twice": Rust panics.
Guarded(t) ==
    \/ state \in Outcomes /\ Leaves(t, state) /\ UNCHANGED state
    \/ state = "Pending" /\ sender # "open" /\ Leaves(t, sender) /\ state' = sender
    \/ /\ state = "Pending" /\ sender = "open" /\ state' = "Taken"
       /\ call' = [call EXCEPT ![t] = "awaiting"]
       /\ guard' = [guard EXCEPT !.holder = t]
    \/ state = "Taken" /\ Leaves(t, "panicked") /\ UNCHANGED state

resolve(t) ==
    /\ call[t] = "idle"
    /\ \/ guard.holder = "none" /\ Guarded(t)
       \/ /\ guard.holder # "none"
          /\ guard' = [guard EXCEPT !.queue = Append(@, t)]
          /\ call' = [call EXCEPT ![t] = "queued"]
          /\ UNCHANGED state
    /\ UNCHANGED sender

Granted(t) == call[t] = "granted" /\ Guarded(t) /\ UNCHANGED sender

\* Mutant: the outcome is returned and not kept.
Mut_Receive(t) ==
    /\ call[t] = "awaiting" /\ sender # "open"
    /\ state' = "Failed"
    /\ Leaves(t, sender)
    /\ UNCHANGED sender

\* The await returns: the outcome is kept for the others.
Receive(t) ==
    /\ call[t] = "awaiting" /\ sender # "open"
    /\ state' = sender
    /\ Leaves(t, sender)
    /\ UNCHANGED sender

Resume(t) == Granted(t) \/ Receive(t)

\* Mutant: the guard is never released.
Mut_Drop(t) ==
    /\ call[t] \in {"queued", "granted", "awaiting"}
    /\ call' = [call EXCEPT ![t] = "dropped"]
    /\ guard' = [guard EXCEPT !.queue = IF call[t] = "queued" THEN Leave(@, t) ELSE @]
    /\ UNCHANGED <<state, sender>>

\* The body that awaits is dropped by terminate().  Its guard is released, the
\* receiver goes with it.
Drop(t) ==
    /\ call[t] \in {"queued", "granted", "awaiting"}
    /\ IF call[t] = "queued"
       THEN /\ guard' = [guard EXCEPT !.queue = Leave(@, t)]
            /\ call' = [call EXCEPT ![t] = "dropped"]
       ELSE Leaves(t, "dropped")
    /\ UNCHANGED <<state, sender>>

Next ==
    \/ Complete("Ok") \/ Complete("Failed")
    \/ \E t \in Tasks : resolve(t) \/ Resume(t) \/ Drop(t)

Spec == Init /\ [][Next]_vars

\* is_done(): try_lock, and a terminal state.
is_done == guard.holder = "none" /\ state \in Outcomes

\* All that resolve a future, before and after its task has ended, get the one
\* outcome that the task sent, or with which the future was made.
ResolversAgree ==
    \A t \in Tasks : call[t] \in Outcomes =>
        call[t] = state /\ (state # sender => sender = "open")

\* "polled twice" (future.rs:46) is reached only if an await was abandoned.
PanicsAfterDrop ==
    (\E t \in Tasks : call[t] = "panicked") => \E t \in Tasks : call[t] = "dropped"

\* A future that was seen to be done is never again seen to be pending, although
\* is_done() looks through a lock that other tasks take (future.rs:35-37).
DoneStaysDone == [][is_done => is_done']_vars
=============================================================================
