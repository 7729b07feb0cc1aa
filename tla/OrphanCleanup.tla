---------------------------- MODULE OrphanCleanup ----------------------------
(***************************************************************************)
(* session/cleanup.rs: on every tick the task lists all sessions and       *)
(* closes those that have been orphaned for longer than the grace period.  *)
(***************************************************************************)
EXTENDS Registry

ClTask == [pc : {"scan", "expired", "claimed", "told"}, s : 0..MaxSession,
           todo : SUBSET Session, cutoff : Nat]

ClIdle == [pc |-> "scan", s |-> 0, todo |-> {}, cutoff |-> 0]

ClInit == cl = ClIdle

clOthers == <<pool, nextId, meta, pid, ssh, late, cancelled, rx, pty, events, ev,
              hm, ipc, owned, now, history>>

(* Mutant: the cutoff is taken from the uptime, not from the wall clock.   *)
Cutoff_Uptime == IF now - Start >= Grace THEN (now - Start) - Grace ELSE 0

(* now.saturating_sub(grace_period)                                        *)
Cutoff == IF now >= Grace THEN now - Grace ELSE 0

(* orphaned_at() is Some(t) with t < cutoff.                               *)
Expired(s) ==
  LET at == unpack_orphaned_at(word[s])
  IN at # NotOrphaned /\ at < cl.cutoff

(* The tick: the cutoff is computed and sessions.list() taken.             *)
ClTick ==
  /\ cl.pc = "scan"
  /\ cl.todo = {}
  /\ live # {}
  /\ cl' = [ClIdle EXCEPT !.todo = live, !.cutoff = Cutoff]
  /\ UNCHANGED <<live, word, cmdq, clOthers>>

(* Each session is looked at ...                                           *)
ClCheck(s) ==
  /\ cl.pc = "scan"
  /\ s \in cl.todo
  /\ cl' = IF Expired(s) THEN [cl EXCEPT !.pc = "expired", !.s = s]
           ELSE [cl EXCEPT !.todo = @ \ {s}]
  /\ UNCHANGED <<live, word, cmdq, clOthers>>

(* ... closed if it was expired when looked at ...                         *)
ClClose ==
  /\ cl.pc = "expired"
  /\ try_close(cl.s)
  /\ cl' = [cl EXCEPT !.pc = "claimed"]
  /\ UNCHANGED <<live, cmdq, clOthers>>

(* ... the agent told, if its machine is connected and its channel has     *)
(* room ...                                                                *)
ClTell ==
  LET c == pool[meta[cl.s].machine]
  IN /\ cl.pc = "claimed"
     /\ IF c = NoConn THEN UNCHANGED cmdq ELSE try_send(c, Close(cl.s))
     /\ cl' = [cl EXCEPT !.pc = "told"]
     /\ UNCHANGED <<live, word, clOthers>>

(* ... and the entry removed.                                              *)
ClRemove ==
  /\ cl.pc = "told"
  /\ remove(cl.s)
  /\ cl' = [cl EXCEPT !.pc = "scan", !.todo = @ \ {cl.s}]
  /\ UNCHANGED <<word, cmdq, clOthers>>

ClNext ==
  \/ ClTick
  \/ \E s \in cl.todo : ClCheck(s)
  \/ ClClose
  \/ ClTell
  \/ ClRemove
==============================================================================
