----------------------------- MODULE MCIpcLimits -----------------------------
(* Two peers and room for one: only one connection has a history at a time. *)
EXTENDS IpcLimits, TLC

CONSTANTS p1, p2

Peers == Permutations({p1, p2})
==============================================================================
