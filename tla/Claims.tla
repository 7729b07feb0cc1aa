-------------------------------- MODULE Claims --------------------------------
(***************************************************************************)
(* What comments and documents of the repository say of the orchestrator   *)
(* and the composed specification refutes.  Each has a configuration       *)
(* Claim*.cfg that ends in a counterexample.                               *)
(***************************************************************************)
EXTENDS Orchestrator

(* connection/pool.rs: "If an agent crashes and restarts, it should be     *)
(* able to reconnect without waiting for the old connection to timeout":   *)
(* the event task takes a connection out of the pool only for a disconnect *)
(* notice of that connection, not for a late one of its predecessor.       *)
ReplacementSurvives ==
  [][ \A m \in Machine :
        pool[m] # NoConn /\ ev.pc = "idle" /\ ev'.pc = "collect" /\ pool'[m] = NoConn
          => Head(events).by = pool[m] ]_vars

(* session/cleanup.rs: the task "periodically cleans up orphaned sessions  *)
(* whose grace period has expired"; it never closes one that is Active     *)
(* again.                                                                  *)
OnlyOrphansCleaned ==
  [][ cl.pc = "expired" /\ cl'.pc = "claimed" => state(cl.s) # Active ]_vars

(* ipc/server.rs: orphaning "allows sessions to be reclaimed if the client *)
(* reconnects within the grace period": the cleanup task finds no session  *)
(* expired that a connected client holds as its own.                       *)
ReconnectedKeepsSession ==
  [][ cl.pc = "scan" /\ cl'.pc = "expired" =>
        ~\E k \in IpcConn : ipc[k].pc = "ready" /\ cl'.s \in owned[k] ]_vars

(* ipc/server.rs: "Clean up sessions owned by this client when they        *)
(* disconnect": an Active session has a connection of its owner behind it, *)
(* or one that is about to orphan it.                                      *)
NoAbandonedSession ==
  \A s \in live :
    state(s) = Active =>
      \E k \in IpcConn :
        EffectiveId(k) = meta[s].owner /\ ipc[k].pc \notin {"off", "open", "gone"}

(* docs/ARCHITECTURE.md, Session Cleanup on Disconnect: "IPC clients are   *)
(* notified of session termination": with nothing left to process, a       *)
(* client does not hold a session that was announced while it existed (its *)
(* pid was set) and is gone now.                                           *)
ClientsToldOfTermination ==
  \A k \in IpcConn, s \in Session :
    /\ ipc[k].pc = "ready" /\ s \in owned[k]
    /\ events = <<>> /\ ev.pc = "idle" /\ hm.pc = "scan" /\ cl.pc = "scan"
    /\ s \in pid /\ news[s] = "created"
    => s \in live

(* SECURITY.md: "All sessions are properly cleaned up when a machine       *)
(* disconnects": once every connection of its machine has ended, with its  *)
(* notice in the event channel, a session does leave the table, or its     *)
(* client does and the session waits for the orphan cleanup.               *)
MachineGoneSessionsGone ==
  \A s \in Session :
    (s \in live /\ lost = {} /\ \A c \in Conn : MachineOf[c] = meta[s].machine => ssh[c] = "dropped")
      ~> (s \notin live \/ state(s) = Orphaned)
===============================================================================
