------------------------------ MODULE IpcServer ------------------------------
(***************************************************************************)
(* ipc/server.rs: one task per client connection (handle_client) that      *)
(* reads requests in order.  The requests that change the tables or send a *)
(* command are modelled: Authenticate, CreateSession, SessionInput,        *)
(* SessionResize, CloseSession, DisconnectMachine, and the ways the task   *)
(* ends.                                                                   *)
(***************************************************************************)
EXTENDS Registry

(* pc: not connected; connected but not authenticated; reclaiming after    *)
(* Authenticate; between requests; the stages of CreateSession,            *)
(* SessionInput (and SessionResize), CloseSession and DisconnectMachine; orphaning after a disconnect; ended.*)
IpcPc == {"off", "open", "reclaim", "ready", "create_insert", "create_send",
          "input_send", "close_claim", "close_lookup", "close_send",
          "close_remove", "disconnect_remove", "orphan", "gone"}

IpcTask == [pc : IpcPc, s : 0..MaxSession, m : Machine \cup {NoConn},
            conn : Conn \cup {NoConn}, todo : SUBSET Session, stamp : Nat]

IpcIdle == [pc |-> "ready", s |-> 0, m |-> NoConn, conn |-> NoConn, todo |-> {}, stamp |-> 0]

IpcInit ==
  /\ ipc = [k \in IpcConn |-> [IpcIdle EXCEPT !.pc = "off"]]
  /\ owned = [k \in IpcConn |-> {}]
  /\ sent = {}

ipcOthers == <<ssh, late, rx, pty, events, ev, hm, cl, now, closings, news, lost>>

At(k, pc) == ipc[k].pc = pc

Goto(k, task) == ipc' = [ipc EXCEPT ![k] = task]

GotoPc(k, pc) == ipc' = [ipc EXCEPT ![k].pc = pc]

(* The connection is accepted.                                             *)
Accept(k) ==
  /\ At(k, "off")
  /\ GotoPc(k, "open")
  /\ UNCHANGED <<tableVars, cancelled, cmdq, owned, sent, ipcOthers>>

(* Authenticate with the right token.  Only a client that gives a logical  *)
(* id reclaims: sessions.list() filtered by owner.  (No client of the      *)
(* repository authenticates twice on one connection.)                      *)
Authenticate(k) ==
  /\ At(k, "open")
  /\ Goto(k, IF ClientOf[k] = NoClient THEN IpcIdle
             ELSE [IpcIdle EXCEPT !.pc = "reclaim", !.todo = OwnedBy(ClientOf[k])])
  /\ UNCHANGED <<tableVars, cancelled, cmdq, owned, sent, ipcOthers>>

(* reclaim_orphaned_sessions, one listed session.                          *)
Reclaim(k, s) ==
  /\ At(k, "reclaim")
  /\ s \in ipc[k].todo
  /\ try_reclaim(s)
  /\ owned' = [owned EXCEPT ![k] = @ \cup {s}]
  /\ ipc' = [ipc EXCEPT ![k].todo = @ \ {s}]
  /\ UNCHANGED <<pool, nextId, live, meta, pid, cancelled, cmdq, sent, ipcOthers>>

ReclaimDone(k) ==
  /\ At(k, "reclaim")
  /\ ipc[k].todo = {}
  /\ Goto(k, IpcIdle)
  /\ UNCHANGED <<tableVars, cancelled, cmdq, owned, sent, ipcOthers>>

------------------------------------------------------------------------------
(* CreateSession: take the connection from the pool (bound: one of the     *)
(* MaxSession ids is left for it) ...                                      *)
CreateLookup(k, m) ==
  /\ At(k, "ready")
  /\ pool[m] # NoConn
  /\ nextId + Cardinality({j \in IpcConn : At(j, "create_insert")}) \in Session
  /\ Goto(k, [IpcIdle EXCEPT !.pc = "create_insert", !.m = m, !.conn = pool[m]])
  /\ UNCHANGED <<tableVars, cancelled, cmdq, owned, sent, ipcOthers>>

(* ... insert the session ...                                              *)
CreateInsert(k) ==
  /\ At(k, "create_insert")
  /\ create_with_owner(ipc[k].m, EffectiveId(k))
  /\ owned' = [owned EXCEPT ![k] = @ \cup {nextId}]
  /\ ipc' = [ipc EXCEPT ![k].pc = "create_send", ![k].s = nextId]
  /\ UNCHANGED <<pool, cancelled, cmdq, sent, ipcOthers>>

(* ... and send the command, waiting for room ...                          *)
CreateSend(k) ==
  /\ At(k, "create_send")
  /\ CanSend(ipc[k].conn)
  /\ cmdq' = [cmdq EXCEPT ![ipc[k].conn] = Append(@, Create(ipc[k].s))]
  /\ sent' = sent \cup {ipc[k].s}
  /\ Goto(k, IpcIdle)
  /\ UNCHANGED <<tableVars, cancelled, owned, ipcOthers>>

(* ... or undo the insertion when the receiver is gone.                    *)
CreateFails(k) ==
  /\ At(k, "create_send")
  /\ ~rx[ipc[k].conn]
  /\ remove(ipc[k].s)
  /\ owned' = [owned EXCEPT ![k] = @ \ {ipc[k].s}]
  /\ Goto(k, IpcIdle)
  /\ UNCHANGED <<pool, nextId, word, meta, pid, cancelled, cmdq, sent, ipcOthers>>

------------------------------------------------------------------------------
(* SessionInput of at most MAX_SESSION_INPUT_SIZE bytes, and SessionResize *)
(* within the limits on rows and columns, make the same checks: the        *)
(* session found, owned by this client, not Closing, its machine connected.*)
(* Only the connection is kept for later, so reading it is the one step    *)
(* that counts.                                                            *)
SessionInput(k, s) ==
  LET c == pool[meta[s].machine]
  IN /\ At(k, "ready")
     /\ s \in live
     /\ meta[s].owner = EffectiveId(k)
     /\ state(s) # Closing
     /\ c # NoConn
     /\ Goto(k, [IpcIdle EXCEPT !.pc = "input_send", !.s = s, !.conn = c])
     /\ UNCHANGED <<tableVars, cancelled, cmdq, owned, sent, ipcOthers>>

(* The command is sent, waiting for room; to a closed channel it is not.   *)
InputSend(k) ==
  LET c == ipc[k].conn
  IN /\ At(k, "input_send")
     /\ rx[c] => CanSend(c)
     /\ try_send(c, Input(ipc[k].s))
     /\ Goto(k, IpcIdle)
     /\ UNCHANGED <<tableVars, cancelled, owned, sent, ipcOthers>>

------------------------------------------------------------------------------
(* CloseSession: found, owned by this client and not Closing yet ...       *)
CloseLookup(k, s) ==
  /\ At(k, "ready")
  /\ s \in live
  /\ meta[s].owner = EffectiveId(k)
  /\ state(s) # Closing
  /\ Goto(k, [IpcIdle EXCEPT !.pc = "close_claim", !.s = s])
  /\ UNCHANGED <<tableVars, cancelled, cmdq, owned, sent, ipcOthers>>

CloseClaim(k) ==
  /\ At(k, "close_claim")
  /\ try_close(ipc[k].s)
  /\ GotoPc(k, "close_lookup")
  /\ UNCHANGED <<pool, nextId, live, meta, pid, cancelled, cmdq, owned, sent, ipcOthers>>

(* ... then the connection of its machine, if any ...                      *)
CloseConn(k) ==
  LET c == pool[meta[ipc[k].s].machine]
  IN /\ At(k, "close_lookup")
     /\ Goto(k, [ipc[k] EXCEPT !.conn = c,
                               !.pc = IF c = NoConn THEN "close_remove" ELSE "close_send"])
     /\ UNCHANGED <<tableVars, cancelled, cmdq, owned, sent, ipcOthers>>

(* ... which is told, waiting for room; a closed channel is only logged ...*)
CloseSend(k) ==
  LET c == ipc[k].conn
  IN /\ At(k, "close_send")
     /\ rx[c] => CanSend(c)
     /\ try_send(c, Close(ipc[k].s))
     /\ GotoPc(k, "close_remove")
     /\ UNCHANGED <<tableVars, cancelled, owned, sent, ipcOthers>>

(* Mutant: the session is only removed when its machine was not connected. *)
CloseRemove_Disconnected(k) ==
  /\ At(k, "close_remove")
  /\ IF ipc[k].conn = NoConn THEN remove(ipc[k].s) ELSE UNCHANGED live
  /\ owned' = [owned EXCEPT ![k] = @ \ {ipc[k].s}]
  /\ Goto(k, IpcIdle)
  /\ UNCHANGED <<pool, nextId, word, meta, pid, cancelled, cmdq, sent, ipcOthers>>

(* ... and the session is removed.                                         *)
CloseRemove(k) ==
  /\ At(k, "close_remove")
  /\ remove(ipc[k].s)
  /\ owned' = [owned EXCEPT ![k] = @ \ {ipc[k].s}]
  /\ Goto(k, IpcIdle)
  /\ UNCHANGED <<pool, nextId, word, meta, pid, cancelled, cmdq, sent, ipcOthers>>

------------------------------------------------------------------------------
(* DisconnectMachine: cancel the connection found in the pool ...          *)
DisconnectMachine(k, m) ==
  /\ At(k, "ready")
  /\ pool[m] # NoConn
  /\ cancelled' = cancelled \cup {pool[m]}
  /\ Goto(k, [IpcIdle EXCEPT !.pc = "disconnect_remove", !.m = m])
  /\ UNCHANGED <<tableVars, cmdq, owned, sent, ipcOthers>>

(* ... and remove the machine's entry.                                     *)
DisconnectRemove(k) ==
  /\ At(k, "disconnect_remove")
  /\ remove_conn(ipc[k].m)
  /\ Goto(k, IpcIdle)
  /\ UNCHANGED <<nextId, live, word, meta, pid, cancelled, cmdq, owned, sent, ipcOthers>>

------------------------------------------------------------------------------
(* EOF, a read error or the end of the broadcast: cleanup_owned_sessions,  *)
(* which returns at once when the connection has no sessions of its own;   *)
(* its own set is not needed after that test.                              *)
ClientLeaves(k) ==
  /\ ipc[k].pc \in {"open", "ready"}
  /\ Goto(k, IF owned[k] = {} THEN [IpcIdle EXCEPT !.pc = "gone"]
             ELSE [IpcIdle EXCEPT !.pc = "orphan", !.stamp = now,
                                  !.todo = OwnedBy(EffectiveId(k))])
  /\ owned' = [owned EXCEPT ![k] = {}]
  /\ UNCHANGED <<tableVars, cancelled, cmdq, sent, ipcOthers>>

(* One listed session of this owner is orphaned.                           *)
Orphan(k, s) ==
  /\ At(k, "orphan")
  /\ s \in ipc[k].todo
  /\ try_orphan(s, ipc[k].stamp)
  /\ ipc' = [ipc EXCEPT ![k].todo = @ \ {s}]
  /\ UNCHANGED <<pool, nextId, live, meta, pid, cancelled, cmdq, owned, sent, ipcOthers>>

OrphanDone(k) ==
  /\ At(k, "orphan")
  /\ ipc[k].todo = {}
  /\ Goto(k, [IpcIdle EXCEPT !.pc = "gone"])
  /\ UNCHANGED <<tableVars, cancelled, cmdq, owned, sent, ipcOthers>>

(* Writing a response or an event fails: "?" returns from handle_client    *)
(* before cleanup_owned_sessions.                                          *)
WriteFails(k) ==
  /\ ipc[k].pc \in {"open", "ready"}
  /\ Goto(k, [IpcIdle EXCEPT !.pc = "gone"])
  /\ owned' = [owned EXCEPT ![k] = {}]
  /\ UNCHANGED <<tableVars, cancelled, cmdq, sent, ipcOthers>>

------------------------------------------------------------------------------
(* What the task does by itself, as opposed to what its client asks for.   *)
IpcProgress(k) ==
  \/ \E s \in ipc[k].todo : Reclaim(k, s) \/ Orphan(k, s)
  \/ ReclaimDone(k)
  \/ CreateInsert(k)
  \/ CreateSend(k)
  \/ CreateFails(k)
  \/ InputSend(k)
  \/ CloseClaim(k)
  \/ CloseConn(k)
  \/ CloseSend(k)
  \/ CloseRemove(k)
  \/ DisconnectRemove(k)
  \/ OrphanDone(k)

IpcNext ==
  \E k \in IpcConn :
    \/ Accept(k)
    \/ Authenticate(k)
    \/ \E m \in Machine : CreateLookup(k, m) \/ DisconnectMachine(k, m)
    \/ \E s \in live : SessionInput(k, s) \/ CloseLookup(k, s)
    \/ ClientLeaves(k)
    \/ WriteFails(k)
    \/ IpcProgress(k)
==============================================================================
