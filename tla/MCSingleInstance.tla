--------------------------- MODULE MCSingleInstance ---------------------------
(* A daemon, a CLI orchestrator, a desktop and a program of somebody       *)
(* else's, with two PIDs between them.                                     *)
EXTENDS SingleInstance, TLC

CONSTANTS d1, d2, g, x

MCKindOf == (d1 :> "daemon") @@ (d2 :> "cli") @@ (g :> "desktop") @@ (x :> "other")
================================================================================
