---------------------------- MODULE MCThreadLoop ----------------------------
(* Instances of ThreadLoop for TLC. *)
EXTENDS ThreadLoop, TLC

CallSymmetry == Permutations(Calls)
=============================================================================
