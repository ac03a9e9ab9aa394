--------------------------- MODULE MCSyncPrimitive --------------------------
(* Instances of SyncPrimitive for TLC. *)
EXTENDS SyncPrimitive
=============================================================================
