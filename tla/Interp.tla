------------------------------- MODULE Interp -------------------------------
(* The interpreter's runs of any program, and the interpreter's own          *)
(* bookkeeping.  Nothing is assumed of the program: it need not have passed  *)
(* the type checker or the lints.                                            *)
EXTENDS Spawn

CONSTANT Programs   \* the programs that are considered

Boot == \E p \in Programs : Start(p)

\* The phase is left open: before a run it is main's, and a run ends with it.
Interpreter == Boot /\ [][Run]_<<program, machine>>

(* ------------------------------- properties ------------------------------ *)
\* The machine is well formed: the executor has a task that is not over, tasks
\* and interpreter states point at what exists, and however many scopes were
\* popped one is left.
Modes == {"node", "apply", "val", "err", "unwind", "invoke", "done", "ret", "handle", "refused"}
             \cup Waiting \cup Over
TypeOK ==
    /\ running \in 0..Len(tasks)
    /\ running # 0 => Kind \notin Over
    /\ \A t \in DOMAIN tasks : /\ tasks[t].mode[1] \in Modes
                               /\ tasks[t].in \in DOMAIN interps
    /\ \A i \in DOMAIN interps : /\ interps[i].thread \in 0..Len(threads)
                                 /\ interps[i].self \in 0..Len(heap)
                                 /\ Len(interps[i].env) >= 1
    /\ \A th \in DOMAIN threads : threads[th].status \in {"Running", "Terminated", "Crashed"}

Live(i) == {t \in DOMAIN tasks : /\ tasks[t].in = i
                                 /\ tasks[t].mode[1] \notin Over \cup {"handle", "refused"}}
\* The calls of the interpreter's functions that the live tasks are in.
Items(i, ats) ==
    UNION {{<<t, k>> : k \in {n \in DOMAIN tasks[t].kont : tasks[t].kont[n].at \in ats}} :
           t \in Live(i)}
Panicked(i) == \E t \in DOMAIN tasks : tasks[t].in = i /\ tasks[t].mode[1] = "panicked"
Erred(i) ==
    \/ interps[i].caught
    \/ interps[i].thread # 0 /\ threads[interps[i].thread].status = "Crashed"
    \/ \E t \in DOMAIN tasks :
          /\ tasks[t].in = i
          /\ \/ tasks[t].mode[1] \in {"err", "unwind", "panicked"}
             \/ \E k \in DOMAIN tasks[t].kont :
                   tasks[t].kont[k].at = "scope" /\ tasks[t].kont[k].res[1] = "err"

\* The scopes and frames of an interpreter state are those its tasks are in: a
\* body and its handlers push and pop the same two stacks around their waits
\* (eval.rs:355-365, 798-835, 1048-1073), and whoever pops, the numbers agree.
\* An error leaves scopes behind (eval.rs:358, 403, 829), so that from then on
\* there may be too many, but never too few; frames only a Rust panic leaves.
ScopeItems == {"block", "for", "call", "scope", "handler"}
CallItems == {"call", "handler"}
StackDiscipline ==
    \A i \in {j \in DOMAIN interps : Live(j) # {}} :
        LET scopes == 1 + Cardinality(Items(i, ScopeItems))
            calls == Cardinality(Items(i, CallItems))
        IN  /\ Len(interps[i].env) >= scopes
            /\ Len(interps[i].env) = scopes \/ Erred(i)
            /\ Len(interps[i].frames) = calls \/ Panicked(i)

\* A scope block that was entered is left through its exit hook, and then breaks
\* what it holds, once each and in that order, however its body ends
\* (eval.rs:425-462); only a Rust panic skips it.
InScope(obj) ==
    \E t \in DOMAIN tasks : \E k \in DOMAIN tasks[t].kont :
        tasks[t].kont[k].at = "scope" /\ tasks[t].kont[k].obj = obj
ExitHooks ==
    \A obj \in DOMAIN log :
        /\ log[obj] \in {<<"entered">>, <<"entered", "exited">>,
                         <<"entered", "exited", "broken">>}
        /\ \/ Len(log[obj]) = 3 \/ InScope(obj)
           \/ \E t \in DOMAIN tasks : tasks[t].mode[1] = "panicked"

\* Whoever waits for an answer waits for somebody who can still give one: a
\* queued request is in the queue of a thread whose loop goes on, an outcome that
\* is running is computed by a task that is not over, and a thread its spawner
\* waits for has not ended unannounced (builtin.rs:293-299, event_loop.rs:82-142,
\* 432-436, eval.rs:747-753).  A program may make tasks wait for each other; the
\* runtime leaves nobody behind.
Alive == {t \in DOMAIN tasks : tasks[t].kont # <<>>}
Loops(th) == {t \in Alive : tasks[t].kont[1].at = "thread" /\ interps[tasks[t].in].thread = th}
Computes(cell) ==
    {t \in Alive : tasks[t].kont[1].at \in {"handler", "mini"} /\ tasks[t].kont[1].cell = cell}
Queues(cell) ==
    {th \in DOMAIN threads : \E r \in SeqRange(threads[th].queue) : r.cell = cell}
AnswerOwed ==
    /\ \A c \in DOMAIN heap : heap[c].is \in {"Future", "HandlerFuture"} =>
          /\ heap[c].out[1] = "queued" => \E th \in Queues(c) : Loops(th) # {}
          /\ heap[c].out[1] = "running" => Computes(c) # {}
    /\ \A th \in DOMAIN threads : ~threads[th].ready => Loops(th) # {}

\* A signal that several threads expose belongs to the first of them alone, whose
\* end breaks it (eval.rs:1011-1041); whatever else the program stores under the
\* names of exposed fields, nothing but a signal is ever owned.
OneOwner ==
    \A th \in DOMAIN threads : \A h \in threads[th].owned :
        /\ h \in DOMAIN heap /\ heap[h].is = "signal" /\ heap[h].claimed
        /\ \A other \in DOMAIN threads \ {th} : h \notin threads[other].owned

\* A program that fails and has caught nothing fails with the first error that
\* arose, whatever exit hooks fail after it, and its traceback names the whole
\* chain of calls at the point where that was ("Set once per failure",
\* eval.rs:64-65, 440-455, 823-835).
Reports(t, bt) == t.raised # <<>> /\ t.raised[1] = t.mode /\ IsPrefix(t.raised[2], bt)
Fails(t) == t.mode[1] = "err" /\ Len(t.kont) = 1
TracebackComplete ==
    Fails(tasks[1]) /\ ~interps[1].caught => Reports(tasks[1], interps[1].bt)
=============================================================================
