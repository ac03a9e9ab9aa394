--------------------------- MODULE ThreadLifecycle --------------------------
(***************************************************************************)
(* What a thread promises to the holders of its handle, whatever its body, *)
(* hooks and handlers do: a status that only moves forward, one terminate  *)
(* outcome that agrees with it, and for every handler call one answer that *)
(* the status of the thread explains.                                      *)
(***************************************************************************)
CONSTANT Calls

VARIABLES
    status,   \* Running, Terminating, Terminated or Crashed
    outcome,  \* what the future of terminate() resolves to
    dead,     \* the thread's task is gone
    known,    \* the calls that name a declared handler
    answer    \* per call: "none", "Dispatched" or a HandlerDispatchError

vars == <<status, outcome, dead, known, answer>>

Init ==
    /\ status = "Running"
    /\ outcome = "pending"
    /\ dead = FALSE
    /\ known = {}
    /\ answer = [c \in Calls |-> "none"]

\* The answer a is right for call c in the state the step leads to.
\* TargetCrashed is also what a request left behind by a dead task gets.
Explained(c, a) ==
    CASE a = "Dispatched"        -> status' = "Running"
      [] a = "TargetTerminated"  -> status' = "Terminated"
      [] a = "TargetTerminating" -> status' = "Terminating"
      [] a = "TargetCrashed"     -> dead' \/ (c \notin known' /\ status' = "Running")
      [] OTHER                   -> FALSE

\* Answers given in a step are first answers and explained ones.
AnswersGiven ==
    /\ known \subseteq known' /\ known' \subseteq Calls
    /\ DOMAIN answer' = Calls
    /\ \A c \in Calls : \/ answer'[c] = answer[c]
                        \/ answer[c] = "none" /\ Explained(c, answer'[c])

Serve == AnswersGiven /\ UNCHANGED <<status, outcome, dead>>

BeginTerminating ==
    /\ status = "Running" /\ ~dead
    /\ status' = "Terminating"
    /\ AnswersGiven
    /\ UNCHANGED <<outcome, dead>>

End(s, o) ==
    /\ status \in {"Running", "Terminating"} /\ ~dead
    /\ status' = s /\ outcome' = o /\ dead' = TRUE
    /\ AnswersGiven

\* A panic of the interpreter itself: no final status is ever published.
Unwind ==
    /\ ~dead /\ dead' = TRUE
    /\ outcome' \in {outcome, "dropped"}
    /\ AnswersGiven
    /\ UNCHANGED status

Next == Serve \/ BeginTerminating \/ Unwind
        \/ End("Terminated", "Ok") \/ End("Crashed", "Failed")

Spec == Init /\ [][Next]_vars
=============================================================================
