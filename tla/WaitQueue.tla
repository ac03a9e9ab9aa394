----------------------------- MODULE WaitQueue ------------------------------
(* The list of tasks parked in a tokio primitive, oldest first. *)
EXTENDS Naturals, Sequences

Waiting(q) == {q[i] : i \in DOMAIN q}

\* The queue without its i-th element.
Without(q, i) ==
    [j \in 1..(Len(q) - 1) |-> IF j < i THEN q[j] ELSE q[j + 1]]

\* The queue after the task t gave up its place.
Leave(q, t) == Without(q, CHOOSE i \in DOMAIN q : q[i] = t)
=============================================================================
