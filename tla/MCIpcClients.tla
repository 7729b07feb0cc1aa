---------------------------- MODULE MCIpcClients ----------------------------
(* The client programs: up to three requests each, and broken connections. *)
EXTENDS IpcClients
=============================================================================
