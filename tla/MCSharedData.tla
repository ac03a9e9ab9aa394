---------------------------- MODULE MCSharedData ----------------------------
(* Instances of SharedData for TLC: two tasks of one thread, two of top-level *)
(* code, whose thread id is 0.                                                *)
EXTENDS SharedData, TLC

CONSTANTS a1, a2, m1, m2, thread, top

MCThreadOf == a1 :> thread @@ a2 :> thread @@ m1 :> top @@ m2 :> top
=============================================================================
