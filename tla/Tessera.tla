------------------------------- MODULE Tessera -------------------------------
(* The program as a whole: a source program is type-checked, linted and run  *)
(* (crates/tessera-cli/src/main.rs), or run unchecked by the library's `run`. *)
(* The properties are about what the checker and the lints promise of the     *)
(* run; those of the interpreter by itself are in Interp, of whose machine     *)
(* every step here is a step or a stutter.                                    *)
EXTENDS Interp, Lints

CONSTANT CheckFirst   \* is a program checked before it is run?

VARIABLE verdict   \* what was said about the program: [errs, holes, env, warns]

vars == <<program, phase, verdict, machine>>

Init ==
    /\ Boot
    /\ phase = IF CheckFirst THEN "check" ELSE "run"
    /\ verdict = [errs |-> {}, holes |-> {}, env |-> <<>>, warns |-> {}]

Check ==
    /\ phase = "check"
    /\ \E r \in {CheckProgram(program)} :
          /\ verdict' = [verdict EXCEPT !.errs = r.errs, !.holes = r.holes, !.env = r.c.vars]
          /\ phase' = IF r.errs = {} THEN "lint" ELSE "rejected"
    /\ UNCHANGED <<program, machine>>

\* Only errors stop it; warnings are printed.
Lint ==
    /\ phase = "lint"
    /\ \E ss \in {Walked(program, verdict.env)} :
          \E all \in {ss \cup FreeFunctions(program, verdict.env)} :
             /\ phase' = IF Errors(program, ss, all) = {} THEN "run" ELSE "rejected"
             /\ verdict' = [verdict EXCEPT !.warns = Warnings(program, ss, all)]
    /\ UNCHANGED <<program, machine>>

Next == Check \/ Lint \/ (Run /\ UNCHANGED verdict)
Spec == Init /\ [][Next]_vars

(* ------------------------------- properties ------------------------------ *)
Accepted == CheckFirst /\ phase \in {"run", "done"}
\* No handler ran while the body of its thread could go on.
Undisturbed(i) ==
    LET ts == {t \in DOMAIN tasks : tasks[t].in = i}
        body == CHOOSE b \in ts : \A t \in ts : b <= t
    IN  Cardinality(ts) = 1 \/ tasks[body].mode[1] = "forever"

\* The failures of a task that has not caught one before.
Failures(kinds) ==
    {t \in DOMAIN tasks : /\ tasks[t].mode[1] = "err" /\ tasks[t].mode[2] \in kinds
                          /\ ~interps[tasks[t].in].caught /\ Undisturbed(tasks[t].in)}

\* An accepted program in which the checker passed over nothing never meets an
\* operand, argument, method, field or variable it has no rule for: what
\* checker/exprs.rs types is what eval.rs computes, through every scope that is
\* entered and left.  Except where a handler and a body that goes on share an
\* environment (OwnEnvironment).
TypesPreserved ==
    Accepted /\ verdict.holes = {} =>
        Failures({"TypeMismatch", "UndefinedVariable"})
        \cup {t \in Failures({"Panic"}) : tasks[t].mode[3] \notin {"user", "future"}} = {}

\* return_not_all_paths.rs and break_continue_outside_loop.rs: in an accepted
\* program no function that owes a value ends without a return, and no break
\* gets out of a loop that is not there.
OwesValue(t) ==
    LET k == tasks[t].kont
    IN  /\ tasks[t].mode = Done /\ k # <<>>
        /\ \/ Last(k).at = "handler" /\ Valued(Last(k).h)
           \/ Last(k).at = "call" /\ Valued(Last(k).f)
Escapes(t) ==
    /\ tasks[t].mode = Ret(Never) /\ tasks[t].kont # <<>>
    /\ Last(tasks[t].kont).at \in {"call", "handler", "thread", "top", "mini"}
LintsSound == Accepted => \A t \in DOMAIN tasks : ~OwesValue(t) /\ ~Escapes(t)

\* <<e, b>> when the condition of assertion e has come to b; a condition that
\* fails does not hold, and a message is evaluated only if it does not.
Outcome(t) ==
    LET m == tasks[t].mode
        k == tasks[t].kont
    IN CASE m[1] = "apply" /\ m[2].k = "Assert" -> <<m[2], Truthy(m[3][1])>>
         [] /\ m[1] # "apply" /\ k # <<>> /\ Last(k).at = "args" /\ Last(k).n.k = "Assert"
            /\ m[1] = "err" \/ Last(k).vals # <<>> -> <<Last(k).n, FALSE>>
         [] OTHER -> <<>>
Misjudged(t) == Outcome(t) # <<>> /\ AssertVerdict(Outcome(t)[1]) = <<~Outcome(t)[2]>>
Reported == Accepted /\ "assert" \in verdict.warns

\* assert_const_condition.rs:5-8: an assertion reported as always true or always
\* false comes out so, even if a side of a comparison or of && is not reached.
\* Except where strings are ordered, which eval.rs has no rule for.
OrdersStrings(e) ==
    \E b \in ExprsIn(e.args[1]) :
        /\ b.k = "BinOp" /\ b.x \in Comparisons
        /\ Fold(b.args[1]) # <<>> /\ Fold(b.args[1])[1][1] = "String"
VerdictsHold ==
    Reported => \A t \in DOMAIN tasks : Misjudged(t) => OrdersStrings(Outcome(t)[1])

\* "The pass only reports provably-constant conditions (zero false positives)"
\* (assert_const_condition.rs:7-8).
NoFalsePositives == Reported => \A t \in DOMAIN tasks : ~Misjudged(t)

\* "A handler cannot read an outer-scope (non-self) variable": it "runs in the
\* template's own environment" (integration.rs:486-490).  So a name a handler
\* looks up is there if and only if it is one of its own.
OwnNames(h) ==
    {h.params[i].x : i \in DOMAIN h.params} \cup {s.x : s \in {r \in StmtsIn(h.body) : r.k = "Let"}}
OwnEnvironment ==
    \A t \in DOMAIN tasks :
        LET k == tasks[t].kont
            m == tasks[t].mode
        IN  /\ k # <<>> /\ k[1].at = "handler" /\ \A i \in DOMAIN k : k[i].at # "call"
            /\ m[1] = "apply" /\ m[2].k = "Ident" /\ m[2].x # "self"
            => (ScopeOf(interps[tasks[t].in].env, m[2].x) # 0) = (m[2].x \in OwnNames(k[1].h))
=============================================================================
