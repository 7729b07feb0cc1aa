----------------------------- MODULE EventHandler -----------------------------
(***************************************************************************)
(* handle_connection_event (kt-orchestrator/src/main.rs) and the           *)
(* coordinator's atomic_disconnect: ONE task takes connection events off   *)
(* the channel in order, updates the tables and broadcasts to IPC clients. *)
(***************************************************************************)
EXTENDS Registry

(* pc: between events; the connection is removed and the session ids not   *)
(* yet collected; sessions being removed and announced; a session to close *)
(* looked up; that session moved to Closing.                               *)
EvTask == [pc : {"idle", "collect", "remove", "found", "claimed"},
           m : Machine \cup {NoConn}, s : 0..MaxSession,
           todo : SUBSET Session, removed : SUBSET Session]

EvIdle == [pc |-> "idle", m |-> NoConn, s |-> 0, todo |-> {}, removed |-> {}]

EvInit ==
  /\ ev = EvIdle
  /\ closings = [s \in Session |-> 0]
  /\ news = [s \in Session |-> "none"]

evOthers == <<ssh, cancelled, rx, cmdq, pty, hm, cl, ipc, owned, now, sent, lost>>

Take(kind) ==
  /\ ev.pc = "idle"
  /\ events # <<>>
  /\ Head(events).kind = kind
  /\ events' = Tail(events)

AnnounceClosed(s) ==
  /\ closings' = [closings EXCEPT ![s] = @ + 1]
  /\ news' = [news EXCEPT ![s] = "closed"]

(* MachineConnected: the pool entry is replaced, whatever was there.       *)
(* TunnelConnection::new stamps the heartbeat.                             *)
EvConnected ==
  /\ Take("connected")
  /\ insert(Head(events).by)
  /\ late' = late \ {Head(events).by}
  /\ UNCHANGED <<nextId, live, word, meta, pid, ev, closings, news, evOthers>>

(* MachineDisconnected, atomic_disconnect: the connection goes first.      *)
EvDisconnected ==
  /\ Take("disconnected")
  /\ remove_conn(MachineOf[Head(events).by])
  /\ ev' = [EvIdle EXCEPT !.pc = "collect", !.m = MachineOf[Head(events).by]]
  /\ UNCHANGED <<nextId, live, word, meta, pid, late, closings, news, evOthers>>

(* remove_by_machine collects the ids ...                                  *)
EvCollect ==
  /\ ev.pc = "collect"
  /\ ev' = [ev EXCEPT !.pc = "remove", !.todo = SessionsOf(ev.m)]
  /\ UNCHANGED <<tableVars, late, events, closings, news, evOthers>>

(* Mutant: get() of each collected id instead of remove().                 *)
EvRemove_GetOnly(s) ==
  /\ ev.pc = "remove"
  /\ s \in ev.todo
  /\ ev' = [ev EXCEPT !.todo = @ \ {s}, !.removed = @ \cup {s}]
  /\ UNCHANGED <<tableVars, late, events, closings, news, evOthers>>

(* ... and removes them one at a time, keeping the handles it did remove.  *)
EvRemove(s) ==
  /\ ev.pc = "remove"
  /\ s \in ev.todo
  /\ ev' = [ev EXCEPT !.todo = @ \ {s},
                      !.removed = IF s \in live THEN @ \cup {s} ELSE @]
  /\ remove(s)
  /\ UNCHANGED <<pool, nextId, word, meta, pid, late, events, closings, news, evOthers>>

(* Then each removed handle is closed and its closing broadcast.           *)
EvAnnounce(s) ==
  /\ ev.pc = "remove"
  /\ ev.todo = {}
  /\ s \in ev.removed
  /\ try_close(s)
  /\ AnnounceClosed(s)
  /\ ev' = [ev EXCEPT !.removed = @ \ {s}]
  /\ UNCHANGED <<pool, nextId, live, meta, pid, late, events, evOthers>>

(* Finally MachineDisconnected is broadcast.                               *)
EvDisconnectDone ==
  /\ ev.pc = "remove"
  /\ ev.todo = {}
  /\ ev.removed = {}
  /\ ev' = EvIdle
  /\ UNCHANGED <<tableVars, late, events, closings, news, evOthers>>

(* SessionCreated: set_pid if the session is there; broadcast either way.  *)
EvCreated ==
  /\ Take("created")
  /\ pid' = pid \cup ({Head(events).s} \cap live)
  /\ news' = [news EXCEPT ![Head(events).s] = "created"]
  /\ UNCHANGED <<pool, nextId, live, word, meta, late, ev, closings, evOthers>>

(* SessionClosed: look the session up ...                                  *)
EvClosedFind ==
  /\ Take("closed")
  /\ ev' = IF Head(events).s \in live
           THEN [EvIdle EXCEPT !.pc = "found", !.s = Head(events).s] ELSE EvIdle
  /\ UNCHANGED <<tableVars, late, closings, news, evOthers>>

(* ... try_close it ...                                                    *)
EvClosedClaim ==
  /\ ev.pc = "found"
  /\ try_close(ev.s)
  /\ ev' = [ev EXCEPT !.pc = "claimed"]
  /\ UNCHANGED <<pool, nextId, live, meta, pid, late, events, closings, news, evOthers>>

(* Mutant: the closing is broadcast but the entry stays in the map.        *)
EvClosedRemove_Kept ==
  /\ ev.pc = "claimed"
  /\ AnnounceClosed(ev.s)
  /\ ev' = EvIdle
  /\ UNCHANGED <<tableVars, late, events, evOthers>>

(* ... remove it and broadcast its closing.                                *)
EvClosedRemove ==
  /\ ev.pc = "claimed"
  /\ remove(ev.s)
  /\ AnnounceClosed(ev.s)
  /\ ev' = EvIdle
  /\ UNCHANGED <<pool, nextId, word, meta, pid, late, events, evOthers>>

EvNext ==
  \/ EvConnected
  \/ EvDisconnected
  \/ EvCollect
  \/ \E s \in ev.todo : EvRemove(s)
  \/ \E s \in ev.removed : EvAnnounce(s)
  \/ EvDisconnectDone
  \/ EvCreated
  \/ EvClosedFind
  \/ EvClosedClaim
  \/ EvClosedRemove
===============================================================================
