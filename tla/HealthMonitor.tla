---------------------------- MODULE HealthMonitor ----------------------------
(***************************************************************************)
(* connection/health.rs: on every tick the task lists the pool, sends a    *)
(* heartbeat to the healthy connections and, for an unhealthy one, closes  *)
(* and removes the sessions of its machine, cancels it and removes the     *)
(* machine from the pool.                                                  *)
(***************************************************************************)
EXTENDS Registry

HmTask == [pc : {"scan", "sweep", "claimed"}, conn : Conn \cup {NoConn},
           s : 0..MaxSession, conns : SUBSET Conn, todo : SUBSET Session]

HmIdle == [pc |-> "scan", conn |-> NoConn, s |-> 0, conns |-> {}, todo |-> {}]

HmInit == hm = HmIdle

hmOthers == <<nextId, meta, pid, ssh, late, rx, pty, events, ev, cl, ipc, owned,
              now, history>>

(* The tick: connections.list().                                           *)
HmTick ==
  /\ hm.pc = "scan"
  /\ hm.conns = {}
  /\ Pooled # {}
  /\ hm' = [HmIdle EXCEPT !.conns = Pooled]
  /\ UNCHANGED <<pool, live, word, cancelled, cmdq, hmOthers>>

(* A healthy connection is sent a heartbeat, dropped under backpressure.   *)
HmHeartbeat(c) ==
  /\ hm.pc = "scan"
  /\ c \in hm.conns \ late
  /\ try_send(c, Heartbeat)
  /\ hm' = [hm EXCEPT !.conns = @ \ {c}]
  /\ UNCHANGED <<pool, live, word, cancelled, hmOthers>>

(* An unhealthy one: list the sessions of its machine ...                  *)
HmUnhealthy(c) ==
  /\ hm.pc = "scan"
  /\ c \in hm.conns \cap late
  /\ hm' = [hm EXCEPT !.pc = "sweep", !.conn = c, !.todo = SessionsOf(MachineOf[c])]
  /\ UNCHANGED <<pool, live, word, cancelled, cmdq, hmOthers>>

(* ... close each of them ...                                              *)
HmClose(s) ==
  /\ hm.pc = "sweep"
  /\ s \in hm.todo
  /\ try_close(s)
  /\ hm' = [hm EXCEPT !.pc = "claimed", !.s = s]
  /\ UNCHANGED <<pool, live, cancelled, cmdq, hmOthers>>

(* ... remove it ...                                                       *)
HmRemove ==
  /\ hm.pc = "claimed"
  /\ remove(hm.s)
  /\ hm' = [hm EXCEPT !.pc = "sweep", !.todo = @ \ {hm.s}]
  /\ UNCHANGED <<pool, word, cancelled, cmdq, hmOthers>>

(* Mutant: the unhealthy connection is cancelled but left in the pool.     *)
HmEvict_CancelOnly ==
  /\ hm.pc = "sweep"
  /\ hm.todo = {}
  /\ cancelled' = cancelled \cup {hm.conn}
  /\ hm' = [hm EXCEPT !.pc = "scan", !.conn = NoConn, !.conns = @ \ {hm.conn}]
  /\ UNCHANGED <<pool, live, word, cmdq, hmOthers>>

(* ... then disconnect() and connections.remove(machine_id).               *)
HmEvict ==
  /\ hm.pc = "sweep"
  /\ hm.todo = {}
  /\ cancelled' = cancelled \cup {hm.conn}
  /\ remove_conn(MachineOf[hm.conn])
  /\ hm' = [hm EXCEPT !.pc = "scan", !.conn = NoConn, !.conns = @ \ {hm.conn}]
  /\ UNCHANGED <<live, word, cmdq, hmOthers>>

HmNext ==
  \/ HmTick
  \/ \E c \in hm.conns : HmHeartbeat(c) \/ HmUnhealthy(c)
  \/ \E s \in hm.todo : HmClose(s)
  \/ HmRemove
  \/ HmEvict
==============================================================================
