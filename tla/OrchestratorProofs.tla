-------------------------- MODULE OrchestratorProofs --------------------------
(***************************************************************************)
(* Safety of the composed orchestrator for every value of its constants:   *)
(* every task and table keeps its type, the closing of a session is        *)
(* announced at most once and is final, the orchestrator implements the    *)
(* session lifecycle, no started session leaves the table unclosed, and no *)
(* dead connection stays in the pool without a notice on its way.          *)
(***************************************************************************)
EXTENDS Orchestrator, TLAPS

-----------------------------------------------------------------------------
(* Type correctness                                                        *)

(* The packed word decodes to the state it was packed from, whatever the   *)
(* time beside it (pack_state and unpack_state in manager.rs).             *)
LEMMA UnpackState ==
  ASSUME NEW st \in SessionState, NEW time \in Nat
  PROVE  /\ pack_state(st, time) \in Nat
         /\ unpack_state(pack_state(st, time)) = st
<1> DEFINE q == time \div Unit
<1>1. q \in Nat
  BY DEF Unit
<1>2. st \in Nat /\ 0 <= st /\ st < Unit
  BY DEF SessionState, Creating, Active, Orphaned, Closing, Unit
<1> HIDE DEF q
<1>3. (st + Unit * q) \in Nat /\ (st + Unit * q) % Unit = st
  BY <1>1, <1>2 DEF Unit
<1>4. pack_state(st, time) = st + Unit * q
  BY DEF pack_state, q
<1> QED
  BY <1>3, <1>4 DEF unpack_state

(* A session that has been created belongs to a machine.                   *)
Machines == \A s \in 1..(nextId - 1) : meta[s].machine \in Machine

(* A client task in the middle of a request works on a session that has    *)
(* been created, or on a machine.                                          *)
IpcStages ==
  \A k \in IpcConn :
    /\ ipc[k].pc \in {"create_send", "close_claim", "close_lookup", "close_send",
                      "close_remove"} => ipc[k].s \in 1..(nextId - 1)
    /\ ipc[k].pc = "create_insert" => ipc[k].m \in Machine

(* The health monitor sweeps for a connection.                             *)
HmStages == hm.pc # "scan" => hm.conn \in Conn

TypeInv == TypeOK /\ Machines /\ IpcStages /\ HmStages

------------------------------------------------------------------------------
LEMMA InitTypeInv == Init => TypeInv
<1> SUFFICES ASSUME Init PROVE TypeInv
  OBVIOUS
<1> USE RegistryAssumption DEF Init, TableInit, SshInit, EvInit, HmInit, ClInit, IpcInit
<1>1. TypeOK
  BY DEF TypeOK, Handler, EvTask, EvIdle, HmTask, HmIdle, ClTask, ClIdle, IpcTask, IpcPc,
     IpcIdle, Session
<1>2. Machines /\ IpcStages /\ HmStages
  BY DEF Machines, IpcStages, HmStages, IpcIdle, HmIdle
<1> QED
  BY <1>1, <1>2 DEF TypeInv

(* Taking the first element of a channel.                                  *)
LEMMA TakeFirst ==
  ASSUME NEW S, NEW q \in Seq(S), q # <<>>
  PROVE  Head(q) \in S /\ Tail(q) \in Seq(S) /\ Len(Tail(q)) = Len(q) - 1 /\ Len(q) \in Nat
BY SMT

(* Sending a command keeps the command channels typed.                     *)
LEMMA TrySendType ==
  ASSUME cmdq \in [Conn -> Seq(Command)], NEW c, NEW command \in Command,
         try_send(c, command)
  PROVE  cmdq' \in [Conn -> Seq(Command)]
<1>1. CASE c \in Conn
  BY <1>1 DEF try_send
<1>2. CASE c \notin Conn
  BY <1>2 DEF try_send
<1> QED
  BY <1>1, <1>2

(* So does sending an event, which keeps the bound on its channel too.     *)
LEMMA SendEventType ==
  ASSUME events \in Seq(Event), Len(events) <= EventCap, NEW e \in Event,
         SendEvent(e) \/ TrySendEvent(e)
  PROVE  events' \in Seq(Event) /\ Len(events') <= EventCap
BY RegistryAssumption DEF SendEvent, TrySendEvent

(* SSH handlers and agents touch the connection variables only.            *)
LEMMA SshTypeInv == TypeInv /\ SshNext => TypeInv'
<1> SUFFICES ASSUME TypeInv, NEW c \in Conn,
                    \/ SshConnect(c) \/ Register(c) \/ ChannelClose(c) \/ HandlerDrop(c)
                    \/ ProcessorEnds(c) \/ CommandLost(c) \/ AgentNext(c)
                    \/ (\E s \in pty[c] : PtyExits(c, s)) \/ GoesLate(c)
             PROVE  TypeInv'
  BY DEF SshNext
<1>1. UNCHANGED sshOthers
  BY DEF SshConnect, Register, ChannelClose, HandlerDrop, ProcessorEnds, CommandLost, AgentNext,
     AgentCreates, AgentRefuses, AgentCloses, AgentWrites, AgentAcks, PtyExits, GoesLate, TakeCommand
<1>2. ssh' \in [Conn -> Handler] /\ rx' \in [Conn -> BOOLEAN] /\ cancelled' = cancelled
  BY DEF SshConnect, Register, ChannelClose, HandlerDrop, ProcessorEnds, CommandLost, AgentNext,
     AgentCreates, AgentRefuses, AgentCloses, AgentWrites, AgentAcks, PtyExits, GoesLate, TakeCommand,
     TypeInv, TypeOK, Handler
<1>3. cmdq' \in [Conn -> Seq(Command)]
  <2>1. \/ cmdq' = cmdq
        \/ cmdq' = [cmdq EXCEPT ![c] = <<>>]
        \/ cmdq[c] # <<>> /\ cmdq' = [cmdq EXCEPT ![c] = Tail(@)]
    BY DEF SshConnect, Register, ChannelClose, HandlerDrop, ProcessorEnds, CommandLost, AgentNext,
       AgentCreates, AgentRefuses, AgentCloses, AgentWrites, AgentAcks, PtyExits, GoesLate, TakeCommand
  <2>2. cmdq \in [Conn -> Seq(Command)] /\ cmdq[c] \in Seq(Command)
    BY DEF TypeInv, TypeOK
  <2>3. cmdq[c] # <<>> => Tail(cmdq[c]) \in Seq(Command)
    BY <2>2, TakeFirst
  <2>4. \A q \in Seq(Command) : [cmdq EXCEPT ![c] = q] \in [Conn -> Seq(Command)]
    BY <2>2
  <2>5. <<>> \in Seq(Command)
    OBVIOUS
  <2> QED
    BY <2>1, <2>2, <2>3, <2>4, <2>5, Zenon
<1>4. cmdq[c] # <<>> => Head(cmdq[c]).s \in 0..MaxSession
  <2>1. cmdq[c] # <<>> => Head(cmdq[c]) \in Command
    BY TakeFirst DEF TypeInv, TypeOK
  <2> QED
    BY <2>1 DEF Command
<1>5. pty' \in [Conn -> SUBSET (0..MaxSession)]
  BY <1>4 DEF SshConnect, Register, ChannelClose, HandlerDrop, ProcessorEnds, CommandLost, AgentNext,
     AgentCreates, AgentRefuses, AgentCloses, AgentWrites, AgentAcks, PtyExits, GoesLate, TakeCommand,
     TypeInv, TypeOK
<1>6. pty[c] \subseteq 0..MaxSession /\ 0 \in 0..MaxSession
  BY RegistryAssumption DEF TypeInv, TypeOK
<1>7. /\ Connected(c) \in Event /\ Disconnected(c) \in Event
      /\ \A s \in 0..MaxSession : Created(c, s) \in Event /\ Closed(c, s) \in Event
  BY <1>6 DEF Connected, Disconnected, Created, Closed, Event
<1>8. \/ events' = events
      \/ \E e \in Event : SendEvent(e) \/ TrySendEvent(e)
  BY <1>4, <1>6, <1>7 DEF SshConnect, Register, ChannelClose, HandlerDrop, ProcessorEnds,
     CommandLost, AgentNext, AgentCreates, AgentRefuses, AgentCloses, AgentWrites, AgentAcks, PtyExits,
     GoesLate, TakeCommand
<1>9. events' \in Seq(Event) /\ Len(events') <= EventCap
  BY <1>8, SendEventType DEF TypeInv, TypeOK
<1>10. Pooled \subseteq Conn /\ hm.conns \subseteq Conn
  BY DEF TypeInv, TypeOK, Pooled, HmTask
<1>11. late' \subseteq Conn /\ lost' \subseteq Conn
  BY <1>10 DEF SshConnect, Register, ChannelClose, HandlerDrop, ProcessorEnds, CommandLost, AgentNext,
     AgentCreates, AgentRefuses, AgentCloses, AgentWrites, AgentAcks, PtyExits, GoesLate, TakeCommand,
     TypeInv, TypeOK
<1>12. TypeOK'
  BY <1>1, <1>2, <1>3, <1>5, <1>9, <1>11 DEF TypeInv, TypeOK, sshOthers, tableVars
<1>13. Machines' /\ IpcStages' /\ HmStages'
  BY <1>1 DEF sshOthers, tableVars, TypeInv, Machines, IpcStages, HmStages
<1> QED
  BY <1>12, <1>13 DEF TypeInv

------------------------------------------------------------------------------
(* try_close, try_orphan and try_reclaim keep the words typed.             *)
LEMMA WordType ==
  ASSUME word \in [Session -> Nat], NEW s,
         try_close(s) \/ try_reclaim(s) \/ \E time \in Nat : try_orphan(s, time)
  PROVE  word' \in [Session -> Nat]
<1>1. /\ pack_state(Active, 0) \in Nat /\ pack_state(Closing, 0) \in Nat
      /\ \A time \in Nat : pack_state(Orphaned, time) \in Nat
  BY UnpackState DEF SessionState
<1> QED
  BY <1>1 DEF try_close, try_reclaim, try_orphan

(* The event task.                                                         *)
LEMMA EvTypeInv == TypeInv /\ EvNext => TypeInv'
<1> SUFFICES ASSUME TypeInv, EvNext PROVE TypeInv'
  OBVIOUS
<1>1. UNCHANGED evOthers /\ nextId' = nextId /\ meta' = meta /\ live' \subseteq live
  BY DEF EvNext, EvConnected, EvDisconnected, EvCollect, EvRemove, EvAnnounce, EvDisconnectDone,
     EvCreated, EvClosedFind, EvClosedClaim, EvClosedRemove, tableVars, remove
<1>2. events' \in Seq(Event) /\ Len(events') <= EventCap
  <2>1. events' = events \/ (events # <<>> /\ events' = Tail(events))
    BY DEF EvNext, EvConnected, EvDisconnected, EvCollect, EvRemove, EvAnnounce,
       EvDisconnectDone, EvCreated, EvClosedFind, EvClosedClaim, EvClosedRemove, Take
  <2>2. events \in Seq(Event) /\ Len(events) <= EventCap
    BY DEF TypeInv, TypeOK
  <2>3. events # <<>> => Tail(events) \in Seq(Event) /\ Len(Tail(events)) = Len(events) - 1
                         /\ Len(events) \in Nat
    BY <2>2, TakeFirst
  <2> QED
    BY <2>1, <2>2, <2>3, RegistryAssumption
<1>3. events # <<>> => Head(events).by \in Conn /\ Head(events).s \in 0..MaxSession
  <2>1. events # <<>> => Head(events) \in Event
    BY TakeFirst DEF TypeInv, TypeOK
  <2> QED
    BY <2>1 DEF Event
<1>4. live \subseteq Session
  BY RegistryAssumption DEF TypeInv, TypeOK, Session
<1>5. pool' \in [Machine -> Conn \cup {NoConn}]
  BY <1>3 DEF TypeInv, TypeOK, EvNext, EvConnected, EvDisconnected, EvCollect, EvRemove, EvAnnounce,
     EvDisconnectDone, EvCreated, EvClosedFind, EvClosedClaim, EvClosedRemove, Take, tableVars,
     insert, remove_conn
<1>6. \/ word' = word
      \/ \E s : try_close(s)
  BY DEF EvNext, EvConnected, EvDisconnected, EvCollect, EvRemove, EvAnnounce,
     EvDisconnectDone, EvCreated, EvClosedFind, EvClosedClaim, EvClosedRemove, tableVars
<1>7. word' \in [Session -> Nat]
  BY <1>6, WordType DEF TypeInv, TypeOK
<1>8. pid' \subseteq Session /\ late' \subseteq Conn
  BY <1>4 DEF TypeInv, TypeOK, EvNext, EvConnected, EvDisconnected, EvCollect, EvRemove, EvAnnounce,
     EvDisconnectDone, EvCreated, EvClosedFind, EvClosedClaim, EvClosedRemove, tableVars
<1>9. ev' \in EvTask
  <2>1. ev \in EvTask
    BY DEF TypeInv, TypeOK
  <2>2. EvIdle \in EvTask /\ 0 \in 0..MaxSession
    BY RegistryAssumption DEF EvIdle, EvTask
  <2>3. events # <<>> => MachineOf[Head(events).by] \in Machine
    BY <1>3, RegistryAssumption
  <2>4. CASE EvConnected \/ EvCreated
    BY <2>1, <2>4 DEF EvConnected, EvCreated
  <2>5. CASE EvDisconnected
    BY <2>2, <2>3, <2>5 DEF EvDisconnected, Take, EvTask, EvIdle
  <2>6. CASE EvCollect
    <3>1. SessionsOf(ev.m) \in SUBSET Session
      BY <1>4 DEF SessionsOf
    <3> QED
      BY <2>1, <2>6, <3>1 DEF EvCollect, EvTask
  <2>7. ASSUME NEW s \in ev.todo, EvRemove(s) PROVE ev' \in EvTask
    <3> DEFINE kept == IF s \in live THEN ev.removed \cup {s} ELSE ev.removed
    <3>1. kept \in SUBSET Session /\ ev.todo \ {s} \in SUBSET Session
      BY <2>1 DEF EvTask
    <3>2. ev' = [ev EXCEPT !.todo = ev.todo \ {s}, !.removed = kept]
      BY <2>7 DEF EvRemove
    <3> HIDE DEF kept
    <3> QED
      BY <2>1, <3>1, <3>2 DEF EvTask
  <2>8. CASE \E s \in ev.removed : EvAnnounce(s)
    BY <2>1, <2>8 DEF EvAnnounce, EvTask
  <2>9. CASE EvDisconnectDone \/ EvClosedRemove
    BY <2>2, <2>9 DEF EvDisconnectDone, EvClosedRemove
  <2>10. CASE EvClosedFind
    BY <1>3, <2>2, <2>10 DEF EvClosedFind, Take, EvTask, EvIdle
  <2>11. CASE EvClosedClaim
    BY <2>1, <2>11 DEF EvClosedClaim, EvTask
  <2> QED
    BY <2>4, <2>5, <2>6, <2>7, <2>8, <2>9, <2>10, <2>11 DEF EvNext
<1>10. closings' \in [Session -> Nat] /\ news' \in [Session -> {"none", "created", "closed"}]
  <2>1. \/ closings' = closings
        \/ \E s : closings' = [closings EXCEPT ![s] = @ + 1]
    BY DEF EvNext, EvConnected, EvDisconnected, EvCollect, EvRemove, EvAnnounce,
       EvDisconnectDone, EvCreated, EvClosedFind, EvClosedClaim, EvClosedRemove, AnnounceClosed
  <2>2. \/ news' = news
        \/ \E s : news' = [news EXCEPT ![s] = "created"] \/ news' = [news EXCEPT ![s] = "closed"]
    BY DEF EvNext, EvConnected, EvDisconnected, EvCollect, EvRemove, EvAnnounce,
       EvDisconnectDone, EvCreated, EvClosedFind, EvClosedClaim, EvClosedRemove, AnnounceClosed
  <2>3. closings' \in [Session -> Nat]
    <3>1. closings \in [Session -> Nat]
      BY DEF TypeInv, TypeOK
    <3>2. ASSUME NEW s, closings' = [closings EXCEPT ![s] = @ + 1]
          PROVE  closings' \in [Session -> Nat]
      <4>1. CASE s \in Session
        BY <3>1, <3>2, <4>1
      <4>2. CASE s \notin Session
        BY <3>1, <3>2, <4>2
      <4> QED
        BY <4>1, <4>2
    <3> QED
      BY <2>1, <3>1, <3>2
  <2> QED
    BY <2>2, <2>3 DEF TypeInv, TypeOK
<1>11. TypeOK'
  BY <1>1, <1>2, <1>5, <1>7, <1>8, <1>9, <1>10 DEF TypeInv, TypeOK, evOthers
<1>12. Machines' /\ IpcStages' /\ HmStages'
  BY <1>1 DEF evOthers, TypeInv, Machines, IpcStages, HmStages
<1> QED
  BY <1>11, <1>12 DEF TypeInv

------------------------------------------------------------------------------
(* The health monitor.                                                     *)
LEMMA HmTypeInv == TypeInv /\ HmNext => TypeInv'
<1> SUFFICES ASSUME TypeInv, HmNext PROVE TypeInv'
  OBVIOUS
<1>1. UNCHANGED hmOthers /\ live' \subseteq live
  BY DEF HmNext, HmTick, HmHeartbeat, HmUnhealthy, HmClose, HmRemove, HmEvict, remove
<1>2. hm \in HmTask /\ Pooled \subseteq Conn
  BY DEF TypeInv, TypeOK, Pooled
<1>3. live \subseteq Session
  BY RegistryAssumption DEF TypeInv, TypeOK, Session
<1>4. pool' \in [Machine -> Conn \cup {NoConn}]
  BY DEF TypeInv, TypeOK, HmNext, HmTick, HmHeartbeat, HmUnhealthy, HmClose, HmRemove, HmEvict, remove_conn
<1>5. word' = word \/ \E s : try_close(s)
  BY DEF HmNext, HmTick, HmHeartbeat, HmUnhealthy, HmClose, HmRemove, HmEvict
<1>6. word' \in [Session -> Nat]
  BY <1>5, WordType DEF TypeInv, TypeOK
<1>7. cancelled' \subseteq Conn
  BY DEF TypeInv, TypeOK, HmStages, HmNext, HmTick, HmHeartbeat, HmUnhealthy, HmClose, HmRemove, HmEvict
<1>8. Heartbeat \in Command
  BY RegistryAssumption DEF Heartbeat, Command
<1>9. cmdq' = cmdq \/ \E c : try_send(c, Heartbeat)
  BY DEF HmNext, HmTick, HmHeartbeat, HmUnhealthy, HmClose, HmRemove, HmEvict
<1>10. cmdq' \in [Conn -> Seq(Command)]
  BY <1>8, <1>9, TrySendType DEF TypeInv, TypeOK
<1>11. hm' \in HmTask /\ HmStages'
  <2>1. CASE HmTick
    BY <1>2, <2>1, RegistryAssumption DEF HmTick, HmTask, HmIdle, HmStages
  <2>2. ASSUME NEW c \in hm.conns, HmHeartbeat(c) PROVE hm' \in HmTask /\ HmStages'
    BY <1>2, <2>2 DEF HmHeartbeat, HmTask, HmStages, TypeInv
  <2>3. ASSUME NEW c \in hm.conns, HmUnhealthy(c) PROVE hm' \in HmTask /\ HmStages'
    <3>1. SessionsOf(MachineOf[c]) \in SUBSET Session /\ c \in Conn
      BY <1>2, <1>3 DEF SessionsOf, HmTask
    <3>2. hm' = [hm EXCEPT !.pc = "sweep", !.conn = c, !.todo = SessionsOf(MachineOf[c])]
      BY <2>3 DEF HmUnhealthy
    <3> QED
      BY <1>2, <3>1, <3>2 DEF HmTask, HmStages
  <2>4. ASSUME NEW s \in hm.todo, HmClose(s) PROVE hm' \in HmTask /\ HmStages'
    <3>1. s \in 0..MaxSession
      BY <1>2 DEF HmTask, Session
    <3> QED
      BY <1>2, <2>4, <3>1 DEF HmClose, HmTask, HmStages, TypeInv
  <2>5. CASE HmRemove
    BY <1>2, <2>5 DEF HmRemove, HmTask, HmStages, TypeInv
  <2>6. CASE HmEvict
    BY <1>2, <2>6 DEF HmEvict, HmTask, HmStages
  <2> QED
    BY <2>1, <2>2, <2>3, <2>4, <2>5, <2>6 DEF HmNext
<1>12. TypeOK'
  BY <1>1, <1>4, <1>6, <1>7, <1>10, <1>11 DEF TypeInv, TypeOK, hmOthers, history
<1>13. Machines' /\ IpcStages'
  BY <1>1 DEF hmOthers, TypeInv, Machines, IpcStages
<1> QED
  BY <1>11, <1>12, <1>13 DEF TypeInv

(* The orphan cleanup task.                                                *)
LEMMA ClTypeInv == TypeInv /\ ClNext => TypeInv'
<1> SUFFICES ASSUME TypeInv, ClNext PROVE TypeInv'
  OBVIOUS
<1>1. UNCHANGED clOthers /\ live' \subseteq live
  BY DEF ClNext, ClTick, ClCheck, ClClose, ClTell, ClRemove, remove
<1>2. cl \in ClTask
  BY DEF TypeInv, TypeOK
<1>3. live \subseteq Session
  BY RegistryAssumption DEF TypeInv, TypeOK, Session
<1>4. word' = word \/ \E s : try_close(s)
  BY DEF ClNext, ClTick, ClCheck, ClClose, ClTell, ClRemove
<1>5. word' \in [Session -> Nat]
  BY <1>4, WordType DEF TypeInv, TypeOK
<1>6. Close(cl.s) \in Command
  BY <1>2 DEF Close, Command, ClTask
<1>7. cmdq' = cmdq \/ \E c : try_send(c, Close(cl.s))
  BY DEF ClNext, ClTick, ClCheck, ClClose, ClTell, ClRemove
<1>8. cmdq' \in [Conn -> Seq(Command)]
  BY <1>6, <1>7, TrySendType DEF TypeInv, TypeOK
<1>9. cl' \in ClTask
  <2>1. CASE ClTick
    <3>1. Cutoff \in Nat
      BY RegistryAssumption DEF Cutoff, TypeInv, TypeOK
    <3>2. cl' = [pc |-> "scan", s |-> 0, todo |-> live, cutoff |-> Cutoff]
      BY <2>1 DEF ClTick, ClIdle
    <3>3. 0 \in 0..MaxSession /\ live \in SUBSET Session
      BY <1>3, RegistryAssumption
    <3> QED
      BY <3>1, <3>2, <3>3 DEF ClTask
  <2>2. ASSUME NEW s \in cl.todo, ClCheck(s) PROVE cl' \in ClTask
    <3>1. s \in 0..MaxSession
      BY <1>2 DEF ClTask, Session
    <3>2. CASE Expired(s)
      BY <1>2, <2>2, <3>1, <3>2 DEF ClCheck, ClTask
    <3>3. CASE ~Expired(s)
      BY <1>2, <2>2, <3>3 DEF ClCheck, ClTask
    <3> QED
      BY <3>2, <3>3
  <2>3. CASE ClClose \/ ClTell \/ ClRemove
    BY <1>2, <2>3 DEF ClClose, ClTell, ClRemove, ClTask
  <2> QED
    BY <2>1, <2>2, <2>3 DEF ClNext
<1>10. TypeOK'
  BY <1>1, <1>5, <1>8, <1>9 DEF TypeInv, TypeOK, clOthers, history
<1>11. Machines' /\ IpcStages' /\ HmStages'
  BY <1>1 DEF clOthers, TypeInv, Machines, IpcStages, HmStages
<1> QED
  BY <1>10, <1>11 DEF TypeInv

(* The clock.                                                              *)
LEMMA TickTypeInv == TypeInv /\ Tick => TypeInv'
BY RegistryAssumption DEF TypeInv, TypeOK, Machines, IpcStages, HmStages, Tick, tableVars,
   connVars, history

------------------------------------------------------------------------------
(* A client task that goes to another stage, leaving the tables alone.     *)
LEMMA IpcGoto ==
  ASSUME TypeInv, NEW k \in IpcConn, NEW task \in IpcTask,
         ipc' = [ipc EXCEPT ![k] = task],
         task.pc \in {"create_send", "close_claim", "close_lookup", "close_send",
                      "close_remove"} => task.s \in 1..(nextId - 1),
         task.pc = "create_insert" => task.m \in Machine,
         nextId' = nextId
  PROVE  ipc' \in [IpcConn -> IpcTask] /\ IpcStages'
<1>1. ipc \in [IpcConn -> IpcTask] /\ IpcStages
  BY DEF TypeInv, TypeOK
<1>2. ipc' \in [IpcConn -> IpcTask]
  BY <1>1
<1>3. \A j \in IpcConn : ipc'[j] = IF j = k THEN task ELSE ipc[j]
  BY <1>1
<1> QED
  BY <1>1, <1>2, <1>3 DEF IpcStages

(* What the other variables need, for every client task at once.           *)
LEMMA IpcRest ==
  ASSUME TypeInv, NEW k \in IpcConn,
         UNCHANGED <<nextId, meta, pid, ipcOthers>>, live' \subseteq live,
         pool' = pool \/ \E m : remove_conn(m),
         word' = word \/ \E s : try_close(s) \/ try_reclaim(s) \/ \E time \in Nat : try_orphan(s, time),
         cancelled' \subseteq Conn,
         cmdq' = cmdq \/ \E c : \E command \in Command : try_send(c, command),
         ipc' \in [IpcConn -> IpcTask], IpcStages',
         owned' \in [IpcConn -> SUBSET Session],
         sent' \subseteq Session
  PROVE  TypeInv'
<1>1. word' \in [Session -> Nat]
  BY WordType DEF TypeInv, TypeOK
<1>2. cmdq' \in [Conn -> Seq(Command)]
  BY TrySendType DEF TypeInv, TypeOK
<1>3. pool' \in [Machine -> Conn \cup {NoConn}]
  BY DEF TypeInv, TypeOK, remove_conn
<1>4. TypeOK'
  BY <1>1, <1>2, <1>3 DEF TypeInv, TypeOK, ipcOthers
<1>5. Machines' /\ HmStages'
  BY DEF TypeInv, Machines, HmStages, ipcOthers
<1> QED
  BY <1>4, <1>5 DEF TypeInv

(* CreateSession inserts the next session.                                 *)
LEMMA CreateInsertTypeInv ==
  ASSUME TypeInv, NEW k \in IpcConn, CreateInsert(k)
  PROVE  TypeInv'
<1>1. /\ ipc \in [IpcConn -> IpcTask] /\ ipc[k] \in IpcTask /\ ipc[k].m \in Machine
      /\ nextId \in 1..(MaxSession + 1) /\ MaxSession \in Nat
      /\ live \subseteq 1..(nextId - 1) /\ Machines /\ IpcStages
  BY RegistryAssumption DEF CreateInsert, At, TypeInv, TypeOK, IpcStages
<1>2. nextId \in Session /\ nextId' = nextId + 1 /\ nextId' \in 1..(MaxSession + 1)
  BY <1>1 DEF CreateInsert, create_with_owner, Session
<1>3. live' \subseteq 1..(nextId' - 1)
  BY <1>1, <1>2 DEF CreateInsert, create_with_owner
<1>4. word' \in [Session -> Nat]
  <2>1. pack_state(Active, 0) \in Nat
    BY UnpackState DEF SessionState
  <2> QED
    BY <2>1 DEF CreateInsert, create_with_owner, TypeInv, TypeOK
<1>5. /\ meta' \in [Session -> [machine : Machine \cup {NoConn}, owner : Owner \cup {NoClient}]]
      /\ \A s \in Session : meta'[s] =
           IF s = nextId THEN [machine |-> ipc[k].m, owner |-> EffectiveId(k)] ELSE meta[s]
  <2>1. EffectiveId(k) \in Owner
    BY RegistryAssumption DEF EffectiveId, Owner
  <2>2. meta' = [meta EXCEPT ![nextId] = [machine |-> ipc[k].m, owner |-> EffectiveId(k)]]
    BY DEF CreateInsert, create_with_owner
  <2> QED
    BY <1>1, <1>2, <2>1, <2>2 DEF TypeInv, TypeOK
<1>6. pid' \subseteq Session /\ owned' \in [IpcConn -> SUBSET Session]
  BY <1>2 DEF CreateInsert, create_with_owner, TypeInv, TypeOK
<1>7. \A j \in IpcConn : ipc'[j] = IF j = k
        THEN [ipc[k] EXCEPT !.pc = "create_send", !.s = nextId] ELSE ipc[j]
  BY <1>1 DEF CreateInsert
<1>8. /\ ipc'[k] \in IpcTask /\ ipc'[k].pc = "create_send" /\ ipc'[k].s = nextId
      /\ ipc' \in [IpcConn -> IpcTask]
  <2>1. nextId \in 0..MaxSession
    BY <1>2 DEF Session
  <2>2. ipc'[k] \in IpcTask /\ ipc'[k].pc = "create_send" /\ ipc'[k].s = nextId
    BY <1>1, <1>7, <2>1 DEF IpcTask, IpcPc
  <2>3. ipc' = [ipc EXCEPT ![k] = ipc'[k]]
    BY <1>1, <1>7 DEF CreateInsert
  <2> QED
    BY <1>1, <2>2, <2>3
<1>9. IpcStages'
  <2>1. \A x : x \in 1..(nextId - 1) => x \in 1..(nextId' - 1)
    BY <1>1, <1>2
  <2>2. nextId \in 1..(nextId' - 1)
    BY <1>1, <1>2
  <2> QED
    BY <1>1, <1>7, <1>8, <2>1, <2>2 DEF IpcStages
<1>10. Machines'
  <2>1. \A s \in 1..(nextId' - 1) : s \in Session /\ (s = nextId \/ s \in 1..(nextId - 1))
    BY <1>1, <1>2 DEF Session
  <2> QED
    BY <1>1, <1>5, <2>1 DEF Machines
<1>11. UNCHANGED <<pool, cancelled, cmdq, sent, ipcOthers>>
  BY DEF CreateInsert
<1>12. TypeOK'
  BY <1>2, <1>3, <1>4, <1>5, <1>6, <1>8, <1>11 DEF TypeInv, TypeOK, ipcOthers
<1>13. HmStages'
  BY <1>11 DEF ipcOthers, TypeInv, HmStages
<1> QED
  BY <1>9, <1>10, <1>12, <1>13 DEF TypeInv

(* The client tasks.                                                       *)
LEMMA IpcTypeInv == TypeInv /\ IpcNext => TypeInv'
<1> SUFFICES ASSUME TypeInv, NEW k \in IpcConn,
                    \/ Accept(k) \/ Authenticate(k)
                    \/ (\E m \in Machine : CreateLookup(k, m) \/ DisconnectMachine(k, m))
                    \/ (\E s \in live : SessionInput(k, s) \/ CloseLookup(k, s))
                    \/ ClientLeaves(k) \/ WriteFails(k) \/ IpcProgress(k)
             PROVE  TypeInv'
  BY DEF IpcNext
<1>1. ipc \in [IpcConn -> IpcTask] /\ ipc[k] \in IpcTask /\ owned \in [IpcConn -> SUBSET Session]
      /\ cancelled \subseteq Conn /\ sent \subseteq Session
  BY DEF TypeInv, TypeOK
<1>2. IpcIdle \in IpcTask /\ 0 \in 0..MaxSession
  BY RegistryAssumption DEF IpcIdle, IpcTask, IpcPc
<1>3. live \subseteq Session /\ live \subseteq 1..(nextId - 1) /\ now \in Nat
      /\ (\A id : OwnedBy(id) \in SUBSET Session)
      /\ pool \in [Machine -> Conn \cup {NoConn}] /\ Machines /\ IpcStages
      /\ 1..(nextId - 1) \subseteq Session
  <2>1. live \subseteq 1..(nextId - 1) /\ now \in Nat /\ nextId \in 1..(MaxSession + 1)
        /\ pool \in [Machine -> Conn \cup {NoConn}] /\ Machines /\ IpcStages
    BY DEF TypeInv, TypeOK
  <2>2. 1..(nextId - 1) \subseteq Session
    BY <2>1, RegistryAssumption DEF Session
  <2>3. \A id : OwnedBy(id) \subseteq live
    BY DEF OwnedBy
  <2> QED
    BY <2>1, <2>2, <2>3
<1>4. CASE CreateInsert(k)
  BY <1>4, CreateInsertTypeInv
<1> SUFFICES ASSUME ~CreateInsert(k) PROVE TypeInv'
  BY <1>4
<1> DEFINE Old ==
             \/ Accept(k) \/ Authenticate(k)
             \/ (\E m \in Machine : CreateLookup(k, m) \/ DisconnectMachine(k, m))
             \/ (\E s \in live : SessionInput(k, s) \/ CloseLookup(k, s))
             \/ ClientLeaves(k) \/ WriteFails(k)
             \/ (\E s \in ipc[k].todo : Reclaim(k, s) \/ Orphan(k, s))
             \/ ReclaimDone(k) \/ CreateSend(k) \/ CreateFails(k) \/ InputSend(k) \/ CloseClaim(k)
             \/ CloseConn(k) \/ CloseSend(k) \/ CloseRemove(k) \/ DisconnectRemove(k)
             \/ OrphanDone(k)
<1>5. Old
  BY DEF IpcProgress
<1>6. UNCHANGED <<nextId, meta, pid, ipcOthers>> /\ live' \subseteq live
  BY <1>5 DEF Accept, Authenticate, CreateLookup, DisconnectMachine, SessionInput, CloseLookup, ClientLeaves, WriteFails,
     Reclaim, Orphan, ReclaimDone, CreateSend, CreateFails, InputSend, CloseClaim, CloseConn, CloseSend,
     CloseRemove, DisconnectRemove, OrphanDone, tableVars, remove
<1>7. pool' = pool \/ \E m : remove_conn(m)
  BY <1>5 DEF Accept, Authenticate, CreateLookup, DisconnectMachine, SessionInput, CloseLookup, ClientLeaves, WriteFails,
     Reclaim, Orphan, ReclaimDone, CreateSend, CreateFails, InputSend, CloseClaim, CloseConn, CloseSend,
     CloseRemove, DisconnectRemove, OrphanDone, tableVars
<1>8. \/ word' = word
      \/ \E s : try_close(s) \/ try_reclaim(s) \/ \E time \in Nat : try_orphan(s, time)
  <2>1. ipc[k].stamp \in Nat
    BY <1>1 DEF IpcTask
  <2> QED
    BY <1>5, <2>1 DEF Accept, Authenticate, CreateLookup, DisconnectMachine, SessionInput, CloseLookup, ClientLeaves, WriteFails,
     Reclaim, Orphan, ReclaimDone, CreateSend, CreateFails, InputSend, CloseClaim, CloseConn, CloseSend,
     CloseRemove, DisconnectRemove, OrphanDone, tableVars
<1>9. cancelled' \subseteq Conn
  <2>1. \/ cancelled' = cancelled
        \/ \E m \in Machine : pool[m] # NoConn /\ cancelled' = cancelled \cup {pool[m]}
    BY <1>5 DEF Accept, Authenticate, CreateLookup, DisconnectMachine, SessionInput, CloseLookup, ClientLeaves, WriteFails,
     Reclaim, Orphan, ReclaimDone, CreateSend, CreateFails, InputSend, CloseClaim, CloseConn, CloseSend,
     CloseRemove, DisconnectRemove, OrphanDone
  <2> QED
    BY <1>1, <1>3, <2>1
<1>10. sent' \subseteq Session
  <2>1. At(k, "create_send") => ipc[k].s \in Session
    BY <1>3 DEF IpcStages, At
  <2> QED
    BY <1>1, <1>5, <2>1 DEF Accept, Authenticate, CreateLookup, DisconnectMachine, SessionInput, CloseLookup, ClientLeaves, WriteFails,
     Reclaim, Orphan, ReclaimDone, CreateSend, CreateFails, InputSend, CloseClaim, CloseConn, CloseSend,
     CloseRemove, DisconnectRemove, OrphanDone
<1>11. cmdq' = cmdq \/ \E c : \E command \in Command : try_send(c, command)
  <2>1. /\ Create(ipc[k].s) \in Command
        /\ Input(ipc[k].s) \in Command
        /\ Close(ipc[k].s) \in Command
    BY <1>1 DEF IpcTask, Create, Input, Close, Command
  <2>2. CreateSend(k) => try_send(ipc[k].conn, Create(ipc[k].s))
    BY DEF CreateSend, try_send
  <2>3. \/ cmdq' = cmdq
        \/ CreateSend(k)
        \/ try_send(ipc[k].conn, Input(ipc[k].s))
        \/ try_send(ipc[k].conn, Close(ipc[k].s))
    BY <1>5 DEF Accept, Authenticate, CreateLookup, DisconnectMachine, SessionInput, CloseLookup, ClientLeaves, WriteFails,
     Reclaim, Orphan, ReclaimDone, CreateSend, CreateFails, InputSend, CloseClaim, CloseConn, CloseSend,
     CloseRemove, DisconnectRemove, OrphanDone
  <2> QED
    BY <2>1, <2>2, <2>3
<1>12. owned' \in [IpcConn -> SUBSET Session]
  <2>1. \A s \in ipc[k].todo : s \in Session
    BY <1>1 DEF IpcTask
  <2>2. \/ owned' = owned
        \/ \E s \in Session : owned' = [owned EXCEPT ![k] = @ \cup {s}]
        \/ \E s : owned' = [owned EXCEPT ![k] = @ \ {s}]
        \/ owned' = [owned EXCEPT ![k] = {}]
    BY <1>5, <2>1 DEF Accept, Authenticate, CreateLookup, DisconnectMachine, SessionInput, CloseLookup, ClientLeaves, WriteFails,
     Reclaim, Orphan, ReclaimDone, CreateSend, CreateFails, InputSend, CloseClaim, CloseConn, CloseSend,
     CloseRemove, DisconnectRemove, OrphanDone
  <2> QED
    BY <1>1, <2>2
<1>13. ipc' \in [IpcConn -> IpcTask] /\ IpcStages'
  <2> DEFINE Fits(task) ==
               /\ task \in IpcTask
               /\ task.pc \in {"create_send", "close_claim", "close_lookup", "close_send",
                               "close_remove"} => task.s \in 1..(nextId - 1)
               /\ task.pc = "create_insert" => task.m \in Machine
  <2>1. ASSUME NEW task, Fits(task), ipc' = [ipc EXCEPT ![k] = task]
        PROVE  ipc' \in [IpcConn -> IpcTask] /\ IpcStages'
    BY <1>6, <2>1, IpcGoto
  <2>2. /\ \A pc \in {"open", "gone", "ready"} : Fits([IpcIdle EXCEPT !.pc = pc])
        /\ Fits(IpcIdle)
        /\ \A pc \in {"open", "gone", "ready"} : Fits([ipc[k] EXCEPT !.pc = pc])
    BY <1>1, <1>2 DEF IpcTask, IpcPc, IpcIdle
  <2>3. CASE Accept(k)
    BY <1>1, <2>1, <2>2, <2>3 DEF Accept, GotoPc
  <2>4. CASE \/ ReclaimDone(k) \/ CreateSend(k) \/ CreateFails(k) \/ InputSend(k) \/ CloseRemove(k)
             \/ DisconnectRemove(k)
    BY <2>1, <2>2, <2>4 DEF ReclaimDone, CreateSend, CreateFails, InputSend, CloseRemove,
       DisconnectRemove, Goto
  <2>5. CASE OrphanDone(k) \/ WriteFails(k)
    BY <2>1, <2>2, <2>5 DEF OrphanDone, WriteFails, Goto
  <2>6. CASE Authenticate(k)
    <3>1. Fits([IpcIdle EXCEPT !.pc = "reclaim", !.todo = OwnedBy(ClientOf[k])])
      BY <1>2, <1>3 DEF IpcIdle, IpcTask, IpcPc
    <3> QED
      BY <2>1, <2>2, <2>6, <3>1 DEF Authenticate, Goto
  <2>7. CASE ClientLeaves(k)
    <3>1. Fits([IpcIdle EXCEPT !.pc = "orphan", !.stamp = now, !.todo = OwnedBy(EffectiveId(k))])
      BY <1>2, <1>3 DEF IpcIdle, IpcTask, IpcPc
    <3> QED
      BY <2>1, <2>2, <2>7, <3>1 DEF ClientLeaves, Goto
  <2>8. ASSUME NEW m \in Machine, CreateLookup(k, m)
        PROVE  ipc' \in [IpcConn -> IpcTask] /\ IpcStages'
    <3>1. Fits([IpcIdle EXCEPT !.pc = "create_insert", !.m = m, !.conn = pool[m]])
      BY <1>2, <1>3 DEF IpcIdle, IpcTask, IpcPc
    <3> QED
      BY <2>1, <2>8, <3>1 DEF CreateLookup, Goto
  <2>9. ASSUME NEW m \in Machine, DisconnectMachine(k, m)
        PROVE  ipc' \in [IpcConn -> IpcTask] /\ IpcStages'
    <3>1. Fits([IpcIdle EXCEPT !.pc = "disconnect_remove", !.m = m])
      BY <1>2 DEF IpcIdle, IpcTask, IpcPc
    <3> QED
      BY <2>1, <2>9, <3>1 DEF DisconnectMachine, Goto
  <2>10. ASSUME NEW s \in live, CloseLookup(k, s)
         PROVE  ipc' \in [IpcConn -> IpcTask] /\ IpcStages'
    <3>1. s \in 0..MaxSession
      BY <1>3 DEF Session
    <3>2. Fits([IpcIdle EXCEPT !.pc = "close_claim", !.s = s])
      BY <1>2, <1>3, <3>1 DEF IpcIdle, IpcTask, IpcPc
    <3> QED
      BY <2>1, <2>10, <3>2 DEF CloseLookup, Goto
  <2>11. ASSUME NEW s \in ipc[k].todo, Reclaim(k, s) \/ Orphan(k, s)
         PROVE  ipc' \in [IpcConn -> IpcTask] /\ IpcStages'
    <3>1. Fits([ipc[k] EXCEPT !.todo = @ \ {s}])
      BY <1>1, <2>11 DEF Reclaim, Orphan, At, IpcTask
    <3>2. ipc' = [ipc EXCEPT ![k] = [ipc[k] EXCEPT !.todo = @ \ {s}]]
      BY <1>1, <2>11 DEF Reclaim, Orphan
    <3> QED
      BY <2>1, <3>1, <3>2
  <2>12. ipc[k].pc \in {"close_claim", "close_lookup", "close_send"} => ipc[k].s \in 1..(nextId - 1)
    BY <1>3 DEF IpcStages
  <2>13. CASE CloseClaim(k)
    <3>1. Fits([ipc[k] EXCEPT !.pc = "close_lookup"])
      BY <1>1, <2>12, <2>13 DEF CloseClaim, At, IpcTask, IpcPc
    <3>2. ipc' = [ipc EXCEPT ![k] = [ipc[k] EXCEPT !.pc = "close_lookup"]]
      BY <1>1, <2>13 DEF CloseClaim, GotoPc
    <3> QED
      BY <2>1, <3>1, <3>2
  <2>14. CASE CloseSend(k)
    <3>1. Fits([ipc[k] EXCEPT !.pc = "close_remove"])
      BY <1>1, <2>12, <2>14 DEF CloseSend, At, IpcTask, IpcPc
    <3>2. ipc' = [ipc EXCEPT ![k] = [ipc[k] EXCEPT !.pc = "close_remove"]]
      BY <1>1, <2>14 DEF CloseSend, GotoPc
    <3> QED
      BY <2>1, <3>1, <3>2
  <2>15. CASE CloseConn(k)
    <3> DEFINE c == pool[meta[ipc[k].s].machine]
               next == IF c = NoConn THEN "close_remove" ELSE "close_send"
    <3>1. ipc[k].s \in 1..(nextId - 1) /\ c \in Conn \cup {NoConn}
      BY <1>3, <2>12, <2>15 DEF CloseConn, At, Machines
    <3>2. ipc' = [ipc EXCEPT ![k] = [ipc[k] EXCEPT !.conn = c, !.pc = next]]
      BY <2>15 DEF CloseConn, Goto
    <3>3. next \in {"close_remove", "close_send"}
      OBVIOUS
    <3> HIDE DEF c, next
    <3>4. Fits([ipc[k] EXCEPT !.conn = c, !.pc = next])
      BY <1>1, <3>1, <3>3 DEF IpcTask, IpcPc
    <3> QED
      BY <2>1, <3>2, <3>4
  <2>16. ASSUME NEW s \in live, SessionInput(k, s)
         PROVE  ipc' \in [IpcConn -> IpcTask] /\ IpcStages'
    <3> DEFINE c == pool[meta[s].machine]
    <3>1. s \in 0..MaxSession /\ s \in 1..(nextId - 1)
      BY <1>3 DEF Session
    <3>2. c \in Conn \cup {NoConn}
      BY <1>3, <3>1 DEF Machines
    <3>3. ipc' = [ipc EXCEPT ![k] = [IpcIdle EXCEPT !.pc = "input_send", !.s = s, !.conn = c]]
      BY <2>16 DEF SessionInput, Goto
    <3> HIDE DEF c
    <3>4. Fits([IpcIdle EXCEPT !.pc = "input_send", !.s = s, !.conn = c])
      BY <1>2, <3>1, <3>2 DEF IpcIdle, IpcTask, IpcPc
    <3> QED
      BY <2>1, <3>3, <3>4
  <2> QED
    BY <1>5, <2>3, <2>4, <2>5, <2>6, <2>7, <2>8, <2>9, <2>10, <2>11, <2>13, <2>14, <2>15, <2>16
<1> QED
  BY <1>6, <1>7, <1>8, <1>9, <1>10, <1>11, <1>12, <1>13, IpcRest

------------------------------------------------------------------------------
(* TypeInv is inductive.                                                   *)
LEMMA NextTypeInv == TypeInv /\ [Next]_vars => TypeInv'
<1>1. TypeInv /\ UNCHANGED vars => TypeInv'
  BY DEF TypeInv, TypeOK, Machines, IpcStages, HmStages, vars
<1> QED
  BY <1>1, SshTypeInv, EvTypeInv, HmTypeInv, ClTypeInv, IpcTypeInv, TickTypeInv DEF Next

(* The strengthened type invariant holds in every reachable state.         *)
THEOREM TypeInvariance == Spec => []TypeInv
  BY InitTypeInv, NextTypeInv, PTL DEF Spec

(* Type correctness: tables, channels (within their capacity) and the      *)
(* local state of every task of the orchestrator.                          *)
THEOREM TypeCorrect == Spec => []TypeOK
<1>1. TypeInv => TypeOK
  BY DEF TypeInv
<1> QED
  BY <1>1, TypeInvariance, PTL

-----------------------------------------------------------------------------
(* The life of a session                                                   *)

BornIds == 1..(nextId - 1)

(* A closing that was announced was announced once, of a closed session    *)
(* that is off the table.                                                  *)
Announced ==
  \A s \in Session :
    /\ closings[s] <= 1
    /\ closings[s] > 0 => s \in BornIds /\ s \notin live /\ state(s) = Closing

(* The handles the event task has taken out of the table and not announced *)
(* yet are out of everybody's reach.                                       *)
Removing == \A s \in ev.removed : s \in BornIds /\ s \notin live /\ closings[s] = 0

(* A session the event task has looked up has not been announced.          *)
Found ==
  ev.pc \in {"found", "claimed"} =>
    /\ ev.s \in BornIds /\ closings[ev.s] = 0
    /\ ev.pc = "claimed" => state(ev.s) = Closing

(* A created session is in one of the states the program uses.             *)
BornStates == \A s \in BornIds : state(s) \in {Active, Orphaned, Closing}

ClosedInv == TypeInv /\ Announced /\ Removing /\ Found /\ BornStates

------------------------------------------------------------------------------
LEMMA InitClosedInv == Init => ClosedInv
<1> SUFFICES ASSUME Init PROVE ClosedInv
  OBVIOUS
<1>1. BornIds = {}
  BY DEF Init, TableInit, BornIds
<1> QED
  BY <1>1, InitTypeInv DEF Init, EvInit, EvIdle, ClosedInv, Announced, Removing, Found, BornStates

(* What each operation of a handle does to the state it decodes to.        *)
LEMMA Turns ==
  ASSUME word \in [Session -> Nat], NEW s,
         try_close(s) \/ try_reclaim(s) \/ \E time \in Nat : try_orphan(s, time)
  PROVE  /\ \A x \in Session : x # s => state(x)' = state(x)
         /\ s \in Session =>
              \/ state(s)' = state(s)
              \/ state(s) = Active /\ state(s)' = Orphaned
              \/ state(s) = Orphaned /\ state(s)' = Active
              \/ state(s) # Closing /\ state(s)' = Closing
         /\ s \in Session /\ try_close(s) => state(s)' = Closing
<1>1. /\ unpack_state(pack_state(Active, 0)) = Active
      /\ unpack_state(pack_state(Closing, 0)) = Closing
      /\ \A time \in Nat : unpack_state(pack_state(Orphaned, time)) = Orphaned
  BY UnpackState DEF SessionState
<1>2. CASE try_close(s)
  BY <1>1, <1>2 DEF try_close, state
<1>3. CASE try_reclaim(s) /\ ~try_close(s)
  BY <1>1, <1>3 DEF try_reclaim, state
<1>4. ASSUME NEW time \in Nat, try_orphan(s, time), ~try_close(s)
      PROVE  /\ \A x \in Session : x # s => state(x)' = state(x)
             /\ s \in Session =>
                  state(s)' = state(s) \/ (state(s) = Active /\ state(s)' = Orphaned)
  BY <1>1, <1>4 DEF try_orphan, state
<1> QED
  BY <1>2, <1>3, <1>4

(* The states are different numbers.                                       *)
LEMMA Constants == Active # Orphaned /\ Active # Closing /\ Orphaned # Closing
BY DEF Active, Orphaned, Closing

------------------------------------------------------------------------------
(* The ways a step may touch the session table.                            *)
Same == UNCHANGED <<nextId, live, word, closings>>

Turn(s) ==
  /\ UNCHANGED <<nextId, live, closings>>
  /\ try_close(s) \/ try_reclaim(s) \/ \E time \in Nat : try_orphan(s, time)

Dropped(s) == UNCHANGED <<nextId, word, closings>> /\ live' = live \ {s}

Birth ==
  /\ nextId \in Session
  /\ nextId' = nextId + 1
  /\ live' = live \cup {nextId}
  /\ word' = [word EXCEPT ![nextId] = pack_state(Active, 0)]
  /\ closings' = closings

Announcing(s) ==
  /\ s \in BornIds /\ closings[s] = 0
  /\ nextId' = nextId
  /\ try_close(s)
  /\ live' = live \ {s}
  /\ closings' = [closings EXCEPT ![s] = @ + 1]

Shape == Same \/ Birth \/ \E s : Turn(s) \/ Dropped(s) \/ Announcing(s)

(* Every step has one of these shapes, and only the event task announces.  *)
LEMMA StepShape ==
  ASSUME ClosedInv, Next
  PROVE  Shape /\ (~EvNext => ev' = ev /\ closings' = closings)
<1>1. CASE SshNext
  BY <1>1 DEF SshNext, SshConnect, Register, ChannelClose, HandlerDrop, ProcessorEnds, CommandLost,
     AgentNext, AgentCreates, AgentRefuses, AgentCloses, AgentWrites, AgentAcks,
     PtyExits, GoesLate, TakeCommand,
     sshOthers, tableVars, Shape, Same
<1>2. CASE EvNext
  <2> SUFFICES Shape
    BY <1>2
  <2>1. CASE EvConnected \/ EvDisconnected \/ EvCollect \/ EvDisconnectDone \/ EvCreated \/ EvClosedFind
    BY <1>2, <2>1 DEF EvConnected, EvDisconnected, EvCollect, EvDisconnectDone, EvCreated,
       EvClosedFind, tableVars, Shape, Same
  <2>2. ASSUME NEW s, EvRemove(s) PROVE Shape
    BY <2>2 DEF EvRemove, remove, Shape, Dropped
  <2>3. ASSUME NEW s \in ev.removed, EvAnnounce(s) PROVE Shape
    <3>1. s \in BornIds /\ closings[s] = 0 /\ live = live \ {s}
      BY DEF ClosedInv, Removing
    <3> QED
      BY <2>3, <3>1 DEF EvAnnounce, AnnounceClosed, Shape, Announcing
  <2>4. CASE EvClosedClaim
    BY <2>4 DEF EvClosedClaim, Shape, Turn
  <2>5. CASE EvClosedRemove
    <3>1. ev.s \in BornIds /\ closings[ev.s] = 0 /\ state(ev.s) = Closing
      BY <2>5 DEF ClosedInv, Found, EvClosedRemove
    <3>2. try_close(ev.s)
      BY <2>5, <3>1 DEF EvClosedRemove, try_close
    <3> QED
      BY <2>5, <3>1, <3>2 DEF EvClosedRemove, AnnounceClosed, remove, Shape, Announcing
  <2> QED
    BY <1>2, <2>1, <2>2, <2>3, <2>4, <2>5 DEF EvNext
<1>3. CASE HmNext
  BY <1>3 DEF HmNext, HmTick, HmHeartbeat, HmUnhealthy, HmClose, HmRemove, HmEvict, hmOthers, history,
     remove, Shape, Same, Turn, Dropped
<1>4. CASE ClNext
  BY <1>4 DEF ClNext, ClTick, ClCheck, ClClose, ClTell, ClRemove, clOthers, history,
     remove, Shape, Same, Turn, Dropped
<1>5. CASE IpcNext
  <2> PICK k \in IpcConn :
         \/ Accept(k) \/ Authenticate(k)
         \/ (\E m \in Machine : CreateLookup(k, m) \/ DisconnectMachine(k, m))
         \/ (\E s \in live : SessionInput(k, s) \/ CloseLookup(k, s))
         \/ ClientLeaves(k) \/ WriteFails(k) \/ IpcProgress(k)
    BY <1>5 DEF IpcNext
  <2>1. CASE CreateInsert(k)
    BY <2>1 DEF CreateInsert, create_with_owner, Shape, Birth, ipcOthers
  <2>2. CASE CreateFails(k) \/ CloseRemove(k)
    BY <2>2 DEF CreateFails, CloseRemove, remove, Shape, Dropped, ipcOthers
  <2>3. CASE CloseClaim(k) \/ \E s : Reclaim(k, s)
    BY <2>3 DEF CloseClaim, Reclaim, Shape, Turn, ipcOthers
  <2>4. ASSUME NEW s, Orphan(k, s) PROVE Shape /\ ev' = ev /\ closings' = closings
    <3>1. ipc[k].stamp \in Nat
      BY DEF ClosedInv, TypeInv, TypeOK, IpcTask
    <3> QED
      BY <2>4, <3>1 DEF Orphan, Shape, Turn, ipcOthers
  <2>5. CASE \/ Accept(k) \/ Authenticate(k) \/ ClientLeaves(k) \/ WriteFails(k) \/ ReclaimDone(k)
             \/ CreateSend(k) \/ InputSend(k) \/ CloseConn(k) \/ CloseSend(k) \/ DisconnectRemove(k)
             \/ OrphanDone(k)
             \/ (\E m \in Machine : CreateLookup(k, m) \/ DisconnectMachine(k, m))
             \/ (\E s \in live : SessionInput(k, s) \/ CloseLookup(k, s))
    BY <2>5 DEF Accept, Authenticate, ClientLeaves, WriteFails, ReclaimDone, CreateSend, InputSend,
       CloseConn, CloseSend, DisconnectRemove, OrphanDone, CreateLookup, DisconnectMachine,
       SessionInput, CloseLookup,
       tableVars, ipcOthers, Shape, Same
  <2> QED
    BY <2>1, <2>2, <2>3, <2>4, <2>5 DEF IpcProgress
<1>6. CASE Tick
  BY <1>6 DEF Tick, tableVars, history, Shape, Same
<1> QED
  BY <1>1, <1>2, <1>3, <1>4, <1>5, <1>6 DEF Next

(* A step of any shape keeps what was announced, and the states of the     *)
(* created sessions.                                                       *)
LEMMA ShapeKeeps ==
  ASSUME ClosedInv, TypeInv', Shape
  PROVE  /\ Announced' /\ BornStates'
         /\ BornIds \subseteq BornIds'
         /\ \A s \in BornIds : s \notin live => s \notin live'
         /\ \A s \in BornIds : state(s) = Closing => state(s)' = Closing
<1>1. /\ nextId \in 1..(MaxSession + 1) /\ nextId' \in 1..(MaxSession + 1) /\ MaxSession \in Nat
      /\ live \subseteq BornIds /\ word \in [Session -> Nat] /\ closings \in [Session -> Nat]
      /\ Announced /\ BornStates
  BY RegistryAssumption DEF ClosedInv, TypeInv, TypeOK, BornIds
<1>2. BornIds \subseteq Session /\ nextId \notin BornIds
  BY <1>1 DEF BornIds, Session
<1>3. CASE Same
  BY <1>3, <1>1 DEF Same, Announced, BornStates, BornIds, state
<1>4. ASSUME NEW s, Turn(s)
      PROVE  /\ Announced' /\ BornStates'
             /\ BornIds \subseteq BornIds' /\ live' = live
             /\ \A x \in BornIds : state(x) = Closing => state(x)' = Closing
  <2>1. BornIds' = BornIds /\ live' = live /\ closings' = closings
    BY <1>4 DEF Turn, BornIds
  <2>2. \A x \in Session : state(x) = Closing => state(x)' = Closing
    BY <1>1, <1>4, Turns, Constants DEF Turn
  <2>3. \A x \in BornIds : state(x)' \in {Active, Orphaned, Closing}
    BY <1>1, <1>2, <1>4, Turns DEF Turn, BornStates
  <2> QED
    BY <1>1, <1>2, <2>1, <2>2, <2>3 DEF Announced, BornStates
<1>5. ASSUME NEW s, Dropped(s)
      PROVE  /\ Announced' /\ BornStates'
             /\ BornIds \subseteq BornIds' /\ live' \subseteq live
             /\ \A x \in BornIds : state(x) = Closing => state(x)' = Closing
  BY <1>1, <1>5 DEF Dropped, Announced, BornStates, BornIds, state
<1>6. CASE Birth
  <2> PICK n \in Session : n = nextId
    BY <1>6 DEF Birth
  <2>1. BornIds' = BornIds \cup {n} /\ n \notin BornIds
    BY <1>1, <1>2, <1>6 DEF Birth, BornIds
  <2>2. state(n)' = Active
    <3>1. word'[n] = pack_state(Active, 0)
      BY <1>1, <1>6 DEF Birth
    <3>2. unpack_state(pack_state(Active, 0)) = Active
      BY UnpackState DEF SessionState
    <3> QED
      BY <3>1, <3>2 DEF state
  <2>3. \A x \in Session : x # n => state(x)' = state(x)
    BY <1>1, <1>6 DEF Birth, state
  <2>4. closings' = closings /\ live' = live \cup {n}
    BY <1>6 DEF Birth
  <2> QED
    BY <1>1, <1>2, <2>1, <2>2, <2>3, <2>4 DEF Announced, BornStates
<1>7. ASSUME NEW s, Announcing(s)
      PROVE  /\ Announced' /\ BornStates'
             /\ BornIds \subseteq BornIds' /\ live' \subseteq live
             /\ \A x \in BornIds : state(x) = Closing => state(x)' = Closing
  <2>1. s \in BornIds /\ s \in Session /\ BornIds' = BornIds /\ live' = live \ {s} /\ closings[s] = 0
    BY <1>2, <1>7 DEF Announcing, BornIds
  <2>2. state(s)' = Closing /\ \A x \in Session : x # s => state(x)' = state(x)
    BY <1>1, <1>7, <2>1, Turns DEF Announcing
  <2>3. \A x \in Session : closings'[x] = IF x = s THEN 1 ELSE closings[x]
    BY <1>1, <1>7, <2>1 DEF Announcing
  <2> QED
    BY <1>1, <1>2, <2>1, <2>2, <2>3 DEF Announced, BornStates
<1> QED
  BY <1>3, <1>4, <1>5, <1>6, <1>7, <1>1, <1>2 DEF Shape, Same, Birth, BornIds

(* ClosedInv is inductive.                                                 *)
LEMMA NextClosedInv == ClosedInv /\ [Next]_vars => ClosedInv'
<1> SUFFICES ASSUME ClosedInv, [Next]_vars PROVE ClosedInv'
  OBVIOUS
<1>1. TypeInv /\ TypeInv' /\ Announced /\ Removing /\ Found /\ ev \in EvTask /\ ev' \in EvTask
  BY NextTypeInv DEF ClosedInv, TypeInv, TypeOK
<1>2. CASE UNCHANGED vars
  BY <1>1, <1>2 DEF vars, ClosedInv, Announced, Removing, Found, BornStates, BornIds, state
<1> SUFFICES ASSUME Next PROVE ClosedInv'
  BY <1>2
<1>3. Shape /\ (~EvNext => ev' = ev /\ closings' = closings)
  BY StepShape
<1>4. /\ Announced' /\ BornStates' /\ BornIds \subseteq BornIds'
      /\ \A s \in BornIds : s \notin live => s \notin live'
      /\ \A s \in BornIds : state(s) = Closing => state(s)' = Closing
  BY <1>1, <1>3, ShapeKeeps
<1>5. CASE ~EvNext
  BY <1>1, <1>3, <1>4, <1>5 DEF ClosedInv, Removing, Found, state
<1>6. CASE EvNext
  <2>1. live \subseteq BornIds
    BY <1>1 DEF TypeInv, TypeOK, BornIds
  <2>2. \A s \in live : closings[s] = 0
    <3>1. TypeOK
      BY <1>1 DEF TypeInv
    <3>2. live \subseteq Session
      BY <3>1, RegistryAssumption DEF TypeOK, Session
    <3>3. closings \in [Session -> Nat]
      BY <3>1 DEF TypeOK
    <3> QED
      BY <1>1, <3>2, <3>3 DEF Announced
  <2>3. EvIdle.removed = {} /\ EvIdle.pc = "idle"
    BY DEF EvIdle
  <2>4. CASE EvConnected \/ EvCreated
    BY <1>1, <1>4, <2>4 DEF EvConnected, EvCreated, ClosedInv, Removing, Found, state
  <2>5. CASE EvDisconnected
    <3>1. ev'.pc = "collect" /\ ev'.removed = {}
      BY <2>5 DEF EvDisconnected, EvIdle
    <3> QED
      BY <1>1, <1>4, <3>1 DEF ClosedInv, Removing, Found
  <2>6. CASE EvCollect
    <3>1. ev'.pc = "remove" /\ ev'.removed = ev.removed /\ closings' = closings
      BY <1>1, <2>6 DEF EvCollect, EvTask
    <3> QED
      BY <1>1, <1>4, <3>1 DEF ClosedInv, Removing, Found
  <2>7. ASSUME NEW s \in ev.todo, EvRemove(s) PROVE ClosedInv'
    <3>1. /\ ev'.pc = "remove" /\ closings' = closings /\ live' = live \ {s}
          /\ ev'.removed = IF s \in live THEN ev.removed \cup {s} ELSE ev.removed
      BY <1>1, <2>7 DEF EvRemove, EvTask, remove
    <3> QED
      BY <1>1, <1>4, <2>1, <2>2, <3>1 DEF ClosedInv, Removing, Found
  <2>8. ASSUME NEW s \in ev.removed, EvAnnounce(s) PROVE ClosedInv'
    <3>1. ev'.pc = "remove" /\ ev'.removed = ev.removed \ {s}
      BY <1>1, <2>8 DEF EvAnnounce, EvTask
    <3>2. \A x \in ev'.removed : closings'[x] = closings[x]
      <4>1. closings' = [closings EXCEPT ![s] = @ + 1] /\ closings \in [Session -> Nat]
        BY <1>1, <2>8 DEF EvAnnounce, AnnounceClosed, TypeInv, TypeOK
      <4>2. \A x \in ev'.removed : x # s /\ x \in Session
        BY <1>1, <3>1 DEF EvTask
      <4> QED
        BY <4>1, <4>2
    <3> QED
      BY <1>1, <1>4, <3>1, <3>2 DEF ClosedInv, Removing, Found
  <2>9. CASE EvDisconnectDone \/ EvClosedRemove
    <3>1. ev' = EvIdle
      BY <2>9 DEF EvDisconnectDone, EvClosedRemove
    <3> QED
      BY <1>1, <1>4, <2>3, <3>1 DEF ClosedInv, Removing, Found
  <2>10. CASE EvClosedFind
    <3>1. \/ ev' = EvIdle
          \/ ev'.pc = "found" /\ ev'.removed = {} /\ ev'.s \in live
      BY <2>10 DEF EvClosedFind, EvIdle
    <3>2. closings' = closings
      BY <2>10 DEF EvClosedFind
    <3> QED
      BY <1>1, <1>4, <2>1, <2>2, <2>3, <3>1, <3>2 DEF ClosedInv, Removing, Found
  <2>11. CASE EvClosedClaim
    <3>1. /\ ev.pc = "found" /\ ev'.pc = "claimed" /\ ev'.s = ev.s /\ ev'.removed = ev.removed
          /\ closings' = closings /\ try_close(ev.s)
      BY <1>1, <2>11 DEF EvClosedClaim, EvTask
    <3>2. PICK s : s = ev.s
      OBVIOUS
    <3>3. s \in BornIds /\ s \in Session /\ word \in [Session -> Nat] /\ try_close(s)
      <4>1. word \in [Session -> Nat] /\ nextId \in 1..(MaxSession + 1)
        BY <1>1 DEF TypeInv, TypeOK
      <4>2. s \in BornIds
        BY <1>1, <3>1, <3>2 DEF Found
      <4>3. s \in Session
        BY <4>1, <4>2, RegistryAssumption DEF BornIds, Session
      <4> QED
        BY <3>1, <3>2, <4>1, <4>2, <4>3
    <3>4. state(s)' = Closing
      BY <3>3, Turns
    <3> QED
      BY <1>1, <1>4, <3>1, <3>2, <3>3, <3>4 DEF ClosedInv, Removing, Found, state
  <2> QED
    BY <1>6, <2>4, <2>5, <2>6, <2>7, <2>8, <2>9, <2>10, <2>11 DEF EvNext
<1> QED
  BY <1>5, <1>6

(* The inductive invariant holds in every reachable state.                 *)
THEOREM ClosedInvariance == Spec => []ClosedInv
  BY InitClosedInv, NextClosedInv, PTL DEF Spec

(* A closing is broadcast at most once, however many paths race to end the *)
(* session.                                                                *)
THEOREM AtMostOneClosing == Spec => []ClosedOnce
<1>1. ClosedInv => ClosedOnce
  BY DEF ClosedInv, Announced, ClosedOnce
<1> QED
  BY <1>1, ClosedInvariance, PTL

(* A broadcast closing is final: off the table, in the Closing state.      *)
THEOREM ClosingIsFinal == Spec => []ClosedIsGone
<1>1. ClosedInv => ClosedIsGone
  BY DEF ClosedInv, Announced, ClosedIsGone
<1> QED
  BY <1>1, ClosedInvariance, PTL

------------------------------------------------------------------------------
(* The steps of the abstract lifecycle, over the concrete variables.       *)
Creates(s) ==
  /\ St[s] = Unborn /\ St' = [St EXCEPT ![s] = Active]
  /\ live' = live \cup {s} /\ closings' = closings

Moves(s) ==
  /\ \/ St[s] = Active /\ St' = [St EXCEPT ![s] = Orphaned]
     \/ St[s] = Orphaned /\ St' = [St EXCEPT ![s] = Active]
     \/ St[s] \in {Active, Orphaned} /\ St' = [St EXCEPT ![s] = Closing]
  /\ live' = live /\ closings' = closings

Unlists(s) == St' = St /\ s \in live /\ live' = live \ {s} /\ closings' = closings

Announces(s) ==
  /\ closings[s] = 0 /\ St[s] \in {Active, Orphaned, Closing}
  /\ St' = [St EXCEPT ![s] = Closing] /\ live' = live \ {s}
  /\ closings' = [closings EXCEPT ![s] = 1]

LEMMA AbstractSteps ==
  ASSUME NEW s \in Session, Creates(s) \/ Moves(s) \/ Unlists(s) \/ Announces(s)
  PROVE  Lifecycle!Next
<1>1. CASE Creates(s)
  BY <1>1 DEF Creates, Lifecycle!Next, Lifecycle!Create, Lifecycle!Move
<1>2. CASE Moves(s)
  BY <1>2 DEF Moves, Lifecycle!Next, Lifecycle!Transition, Lifecycle!Move
<1>3. CASE Unlists(s)
  BY <1>3 DEF Unlists, Lifecycle!Next, Lifecycle!Unlist
<1>4. CASE Announces(s)
  BY <1>4 DEF Announces, Lifecycle!Next, Lifecycle!Announce, Lifecycle!Move
<1> QED
  BY <1>1, <1>2, <1>3, <1>4

(* A step of any shape is a step of the abstract lifecycle or none.        *)
LEMMA ShapeRefines ==
  ASSUME ClosedInv, TypeInv', Shape
  PROVE  [Lifecycle!Next]_(Lifecycle!lvars)
<1>1. /\ nextId \in 1..(MaxSession + 1) /\ nextId' \in 1..(MaxSession + 1) /\ MaxSession \in Nat
      /\ live \subseteq BornIds /\ word \in [Session -> Nat] /\ closings \in [Session -> Nat]
      /\ Announced /\ BornStates
  BY RegistryAssumption DEF ClosedInv, TypeInv, TypeOK, BornIds
<1>2. /\ BornIds \subseteq Session /\ nextId \notin BornIds
      /\ \A s \in Session : s \in BornIds <=> s < nextId
  BY <1>1 DEF BornIds, Session
<1>3. /\ \A s \in BornIds : St[s] = state(s)
      /\ \A s \in Session \ BornIds : St[s] = Unborn
  BY <1>2 DEF St
<1>4. St' = St /\ live' = live /\ closings' = closings => UNCHANGED Lifecycle!lvars
  BY DEF Lifecycle!lvars
<1>5. ASSUME nextId' = nextId, \A s \in Session : state(s)' = state(s) PROVE St' = St
  BY <1>5 DEF St
<1>6. CASE Same
  BY <1>4, <1>5, <1>6 DEF Same, state
<1>7. ASSUME NEW s, Turn(s) PROVE [Lifecycle!Next]_(Lifecycle!lvars)
  <2>1. nextId' = nextId /\ live' = live /\ closings' = closings
    BY <1>7 DEF Turn
  <2>2. /\ \A x \in Session : x # s => state(x)' = state(x)
        /\ s \in Session =>
             \/ state(s)' = state(s)
             \/ state(s) = Active /\ state(s)' = Orphaned
             \/ state(s) = Orphaned /\ state(s)' = Active
             \/ state(s) # Closing /\ state(s)' = Closing
    BY <1>1, <1>7, Turns DEF Turn
  <2>3. CASE s \in BornIds
    <3>1. St' = [St EXCEPT ![s] = state(s)']
      BY <2>1, <2>2, <2>3, <1>2 DEF St
    <3>2. state(s) \in {Active, Orphaned, Closing}
      BY <2>3, <1>1 DEF BornStates
    <3>3. CASE state(s)' = state(s)
      BY <3>3, <2>1, <2>2, <1>4, <1>5
    <3>4. CASE state(s) = Active /\ state(s)' = Orphaned
      BY <3>1, <3>4, <2>1, <2>3, <1>2, <1>3, AbstractSteps DEF Moves
    <3>5. CASE state(s) = Orphaned /\ state(s)' = Active
      BY <3>1, <3>5, <2>1, <2>3, <1>2, <1>3, AbstractSteps DEF Moves
    <3>6. CASE state(s) # Closing /\ state(s)' = Closing
      BY <3>1, <3>2, <3>6, <2>1, <2>3, <1>2, <1>3, AbstractSteps DEF Moves
    <3> QED
      BY <1>2, <2>2, <2>3, <3>3, <3>4, <3>5, <3>6
  <2>4. CASE s \notin BornIds
    <3>1. St' = St
      BY <2>1, <2>2, <2>4, <1>2 DEF St
    <3> QED
      BY <3>1, <2>1, <1>4
  <2> QED
    BY <2>3, <2>4
<1>8. ASSUME NEW s, Dropped(s) PROVE [Lifecycle!Next]_(Lifecycle!lvars)
  <2>1. St' = St /\ live' = live \ {s} /\ closings' = closings
    BY <1>5, <1>8 DEF Dropped, state
  <2>2. CASE s \in live
    BY <1>1, <1>2, <2>1, <2>2, AbstractSteps DEF Unlists
  <2>3. CASE s \notin live
    BY <1>4, <2>1, <2>3
  <2> QED
    BY <2>2, <2>3
<1>9. CASE Birth
  <2> PICK n \in Session : n = nextId
    BY <1>9 DEF Birth
  <2>1. n \notin BornIds /\ live' = live \cup {n} /\ closings' = closings
    BY <1>2, <1>9 DEF Birth
  <2>2. state(n)' = Active
    <3>1. word'[n] = pack_state(Active, 0)
      BY <1>1, <1>9 DEF Birth
    <3>2. unpack_state(pack_state(Active, 0)) = Active
      BY UnpackState DEF SessionState
    <3> QED
      BY <3>1, <3>2 DEF state
  <2>3. \A x \in Session : x # n => state(x)' = state(x)
    BY <1>1, <1>9 DEF Birth, state
  <2>4. \A x \in Session : x < nextId' <=> x < nextId \/ x = n
    BY <1>1, <1>9 DEF Birth, Session
  <2>5. St' = [St EXCEPT ![n] = Active]
    BY <2>2, <2>3, <2>4 DEF St
  <2> QED
    BY <1>3, <2>1, <2>5, AbstractSteps DEF Creates
<1>10. ASSUME NEW s, Announcing(s) PROVE [Lifecycle!Next]_(Lifecycle!lvars)
  <2>1. s \in BornIds /\ s \in Session /\ closings[s] = 0 /\ nextId' = nextId /\ live' = live \ {s}
    BY <1>2, <1>10 DEF Announcing
  <2>2. state(s)' = Closing /\ \A x \in Session : x # s => state(x)' = state(x)
    BY <1>1, <1>10, <2>1, Turns DEF Announcing
  <2>3. closings' = [closings EXCEPT ![s] = 1]
    BY <1>1, <1>10, <2>1 DEF Announcing
  <2>4. St' = [St EXCEPT ![s] = Closing]
    BY <1>2, <2>1, <2>2 DEF St
  <2>5. St[s] \in {Active, Orphaned, Closing}
    BY <1>1, <1>3, <2>1 DEF BornStates
  <2> QED
    BY <2>1, <2>3, <2>4, <2>5, AbstractSteps DEF Announces
<1> QED
  BY <1>6, <1>7, <1>8, <1>9, <1>10 DEF Shape

(* The orchestrator implements the session lifecycle: every state change,  *)
(* listing and announcement of its tasks is one the lifecycle allows.      *)
THEOREM Refinement == Spec => ImplementsLifecycle
<1>1. Init => Lifecycle!Init
  BY DEF Init, TableInit, EvInit, Lifecycle!Init, St, Unborn, Session
<1>2. ClosedInv /\ [Next]_vars => [Lifecycle!Next]_(Lifecycle!lvars)
  <2> SUFFICES ASSUME ClosedInv, [Next]_vars PROVE [Lifecycle!Next]_(Lifecycle!lvars)
    OBVIOUS
  <2>1. CASE UNCHANGED vars
    BY <2>1 DEF vars, Lifecycle!lvars, St, state
  <2>2. CASE Next
    BY <2>2, StepShape, NextTypeInv, ShapeRefines DEF ClosedInv
  <2> QED
    BY <2>1, <2>2
<1> QED
  BY <1>1, <1>2, ClosedInvariance, PTL DEF Spec, ImplementsLifecycle, Lifecycle!Spec

------------------------------------------------------------------------------
(* The client task k is about to send the command that starts a session.   *)
Starting(k) == ipc[k].pc = "create_send"

(* The sessions an agent was asked to start, or is about to be.            *)
Asked == sent \cup {ipc[k].s : k \in {j \in IpcConn : Starting(j)}}

(* Of these, one that is off the table has been closed, or will be by the  *)
(* event task that took it off.                                            *)
Gone == \A s \in Asked \ live : state(s) = Closing \/ s \in ev.removed

(* A session is started by one client task, once.                          *)
Fresh ==
  /\ sent \subseteq BornIds
  /\ \A k \in IpcConn : Starting(k) => ipc[k].s \notin sent
  /\ \A j, k \in IpcConn : Starting(j) /\ Starting(k) /\ j # k => ipc[j].s # ipc[k].s

ClosedSession(s) == s \in BornIds /\ state(s) = Closing

(* Each task that removes a session has closed it some steps before.       *)
EvClaims == ev.pc # "remove" => ev.removed = {}

HmClaims ==
  /\ hm.todo \subseteq BornIds
  /\ hm.pc = "claimed" => ClosedSession(hm.s)

ClClaims ==
  /\ cl.todo \subseteq BornIds
  /\ cl.pc = "expired" => cl.s \in BornIds
  /\ cl.pc \in {"claimed", "told"} => ClosedSession(cl.s)

IpcClaims ==
  \A k \in IpcConn :
    ipc[k].pc \in {"close_lookup", "close_send", "close_remove"} => ClosedSession(ipc[k].s)

RemovedInv == ClosedInv /\ Gone /\ Fresh /\ EvClaims /\ HmClaims /\ ClClaims /\ IpcClaims

LEMMA InitRemovedInv == Init => RemovedInv
<1> SUFFICES ASSUME Init PROVE RemovedInv
  OBVIOUS
<1>1. ClosedInv
  BY InitClosedInv
<1>2. /\ ev = EvIdle /\ hm = HmIdle /\ cl = ClIdle /\ sent = {}
      /\ \A k \in IpcConn : ipc[k].pc = "off"
  BY DEF Init, EvInit, HmInit, ClInit, IpcInit, IpcIdle
<1>3. Asked = {}
  BY <1>2 DEF Asked, Starting
<1> QED
  BY <1>1, <1>2, <1>3 DEF RemovedInv, Gone, Fresh, Starting, EvClaims, HmClaims, ClClaims, IpcClaims,
     EvIdle, HmIdle, ClIdle

(* What the client tasks leave alone.                                      *)
LEMMA IpcLeaves == ASSUME IpcNext PROVE UNCHANGED ipcOthers
<1> PICK k \in IpcConn :
       \/ Accept(k) \/ Authenticate(k)
       \/ (\E m \in Machine : CreateLookup(k, m) \/ DisconnectMachine(k, m))
       \/ (\E s \in live : SessionInput(k, s) \/ CloseLookup(k, s))
       \/ ClientLeaves(k) \/ WriteFails(k) \/ IpcProgress(k)
  BY DEF IpcNext
<1> QED
  BY DEF IpcProgress, Accept, Authenticate, ClientLeaves, WriteFails, Reclaim, Orphan, ReclaimDone,
     CreateInsert, CreateSend, CreateFails, InputSend, CloseClaim, CloseConn, CloseSend, CloseRemove,
     DisconnectRemove, OrphanDone, CreateLookup, DisconnectMachine, SessionInput, CloseLookup

(* A task's own variable changes by its own steps only.                    *)
LEMMA TaskFrames ==
  ASSUME Next
  PROVE  /\ EvNext \/ ev' = ev
         /\ HmNext \/ hm' = hm
         /\ ClNext \/ cl' = cl
         /\ IpcNext \/ (ipc' = ipc /\ sent' = sent)
<1>1. CASE SshNext
  BY <1>1 DEF SshNext, SshConnect, Register, ChannelClose, HandlerDrop, ProcessorEnds, CommandLost,
     AgentNext, AgentCreates, AgentRefuses, AgentCloses, AgentWrites, AgentAcks,
     PtyExits, GoesLate, TakeCommand, sshOthers
<1>2. CASE EvNext
  BY <1>2 DEF EvNext, EvConnected, EvDisconnected, EvCollect, EvRemove, EvAnnounce, EvDisconnectDone,
     EvCreated, EvClosedFind, EvClosedClaim, EvClosedRemove, evOthers
<1>3. CASE HmNext
  BY <1>3 DEF HmNext, HmTick, HmHeartbeat, HmUnhealthy, HmClose, HmRemove, HmEvict, hmOthers, history
<1>4. CASE ClNext
  BY <1>4 DEF ClNext, ClTick, ClCheck, ClClose, ClTell, ClRemove, clOthers, history
<1>5. CASE IpcNext
  BY <1>5, IpcLeaves DEF ipcOthers
<1>6. CASE Tick
  BY <1>6 DEF Tick, history
<1> QED
  BY <1>1, <1>2, <1>3, <1>4, <1>5, <1>6 DEF Next

(* The client task k moves to a stage that neither starts a session nor    *)
(* has closed one, leaving the table alone.                                *)
Elsewhere(k) ==
  /\ ipc'[k].pc \notin {"create_send", "close_lookup", "close_send", "close_remove"}
  /\ live' = live /\ sent' = sent

(* It goes on with a session it has closed.                                *)
GoesOn(k) ==
  /\ ipc[k].pc \in {"close_lookup", "close_send"}
  /\ ipc'[k].pc \in {"close_send", "close_remove"}
  /\ ipc'[k].s = ipc[k].s
  /\ live' = live /\ sent' = sent

LEMMA IpcMoves ==
  ASSUME ipc \in [IpcConn -> IpcTask], IpcNext
  PROVE  \E k \in IpcConn :
           /\ \A j \in IpcConn \ {k} : ipc'[j] = ipc[j]
           /\ \/ CreateInsert(k) \/ CreateSend(k) \/ CreateFails(k) \/ CloseClaim(k) \/ CloseRemove(k)
              \/ GoesOn(k) \/ Elsewhere(k)
<1> PICK k \in IpcConn :
       \/ Accept(k) \/ Authenticate(k)
       \/ (\E m \in Machine : CreateLookup(k, m) \/ DisconnectMachine(k, m))
       \/ (\E s \in live : SessionInput(k, s) \/ CloseLookup(k, s))
       \/ ClientLeaves(k) \/ WriteFails(k) \/ IpcProgress(k)
  BY DEF IpcNext
<1>1. ipc \in [IpcConn -> IpcTask] /\ ipc[k] \in IpcTask /\ DOMAIN ipc[k] = DOMAIN IpcIdle
  BY DEF IpcTask, IpcIdle
<1>2. \A t : ipc' = [ipc EXCEPT ![k] = t] => ipc'[k] = t /\ \A j \in IpcConn \ {k} : ipc'[j] = ipc[j]
  OBVIOUS
<1>3. CASE CreateInsert(k)
  BY <1>3 DEF CreateInsert
<1>4. CASE CreateSend(k) \/ CreateFails(k) \/ CloseRemove(k)
  BY <1>2, <1>4 DEF CreateSend, CreateFails, CloseRemove, Goto
<1>5. CASE CloseClaim(k)
  BY <1>5 DEF CloseClaim, GotoPc
<1>6. CASE CloseConn(k)
  BY <1>1, <1>6 DEF CloseConn, Goto, GoesOn, At, tableVars, IpcTask
<1>7. CASE CloseSend(k)
  BY <1>1, <1>7 DEF CloseSend, GotoPc, GoesOn, At, tableVars, IpcTask
<1>8. CASE \E s : Reclaim(k, s) \/ Orphan(k, s)
  BY <1>1, <1>8 DEF Reclaim, Orphan, Elsewhere, At, IpcTask
<1>9. CASE Accept(k)
  BY <1>1, <1>9 DEF Accept, GotoPc, Elsewhere, tableVars, IpcTask
<1>10. CASE \/ Authenticate(k) \/ ClientLeaves(k) \/ WriteFails(k) \/ ReclaimDone(k) \/ InputSend(k)
            \/ DisconnectRemove(k) \/ OrphanDone(k)
            \/ (\E m \in Machine : CreateLookup(k, m) \/ DisconnectMachine(k, m))
            \/ (\E s \in live : SessionInput(k, s) \/ CloseLookup(k, s))
  <2>1. live' = live /\ sent' = sent
    BY <1>10 DEF Authenticate, ClientLeaves, WriteFails, ReclaimDone, InputSend, DisconnectRemove,
       OrphanDone, CreateLookup, DisconnectMachine, SessionInput, CloseLookup, tableVars
  <2>2. PICK t : ipc' = [ipc EXCEPT ![k] = t]
    BY <1>10 DEF Authenticate, ClientLeaves, WriteFails, ReclaimDone, InputSend, DisconnectRemove,
       OrphanDone, CreateLookup, DisconnectMachine, SessionInput, CloseLookup, Goto
  <2>3. ipc'[k].pc \notin {"create_send", "close_lookup", "close_send", "close_remove"}
    <3>1. CASE \/ Authenticate(k) \/ ReclaimDone(k) \/ InputSend(k) \/ DisconnectRemove(k)
               \/ ClientLeaves(k) \/ WriteFails(k) \/ OrphanDone(k)
      <4>1. \/ ipc'[k] = IpcIdle
            \/ ipc'[k] = [IpcIdle EXCEPT !.pc = "reclaim", !.todo = OwnedBy(ClientOf[k])]
            \/ ipc'[k] = [IpcIdle EXCEPT !.pc = "orphan", !.stamp = now,
                                        !.todo = OwnedBy(EffectiveId(k))]
            \/ ipc'[k] = [IpcIdle EXCEPT !.pc = "gone"]
        <5>1. CASE ReclaimDone(k) \/ InputSend(k) \/ DisconnectRemove(k) \/ WriteFails(k) \/ OrphanDone(k)
          BY <5>1, <1>2 DEF ReclaimDone, InputSend, DisconnectRemove, WriteFails, OrphanDone, Goto
        <5>2. CASE Authenticate(k)
          BY <5>2, <1>2, Zenon DEF Authenticate, Goto
        <5>3. CASE ClientLeaves(k)
          BY <5>3, <1>2, Zenon DEF ClientLeaves, Goto
        <5> QED
          BY <3>1, <5>1, <5>2, <5>3
      <4>2. ipc'[k].pc \in {"ready", "reclaim", "orphan", "gone"}
        <5>1. CASE ipc'[k] = IpcIdle \/ ipc'[k] = [IpcIdle EXCEPT !.pc = "gone"]
          BY <5>1 DEF IpcIdle
        <5>2. CASE ipc'[k] = [IpcIdle EXCEPT !.pc = "reclaim", !.todo = OwnedBy(ClientOf[k])]
          BY <5>2 DEF IpcIdle
        <5>3. CASE ipc'[k] = [IpcIdle EXCEPT !.pc = "orphan", !.stamp = now,
                                            !.todo = OwnedBy(EffectiveId(k))]
          BY <5>3 DEF IpcIdle
        <5> QED
          BY <4>1, <5>1, <5>2, <5>3
      <4> QED
        BY <4>2
    <3>2. ASSUME NEW m, CreateLookup(k, m) \/ DisconnectMachine(k, m)
          PROVE  ipc'[k].pc \in {"create_insert", "disconnect_remove"}
      <4>1. \/ ipc'[k] = [IpcIdle EXCEPT !.pc = "create_insert", !.m = m, !.conn = pool[m]]
            \/ ipc'[k] = [IpcIdle EXCEPT !.pc = "disconnect_remove", !.m = m]
        BY <3>2, <1>2 DEF CreateLookup, DisconnectMachine, Goto
      <4> QED
        BY <4>1 DEF IpcIdle
    <3>3. ASSUME NEW s, SessionInput(k, s) \/ CloseLookup(k, s)
          PROVE  ipc'[k].pc \in {"input_send", "close_claim"}
      <4>1. \/ ipc'[k] = [IpcIdle EXCEPT !.pc = "input_send", !.s = s, !.conn = pool[meta[s].machine]]
            \/ ipc'[k] = [IpcIdle EXCEPT !.pc = "close_claim", !.s = s]
        BY <3>3, <1>2 DEF SessionInput, CloseLookup, Goto
      <4> QED
        BY <4>1 DEF IpcIdle
    <3> QED
      BY <1>10, <3>1, <3>2, <3>3
  <2> QED
    BY <1>2, <2>1, <2>2, <2>3 DEF Elsewhere
<1> QED
  BY <1>3, <1>4, <1>5, <1>6, <1>7, <1>8, <1>9, <1>10 DEF IpcProgress

(* What a step does to the closed sessions, for all of the tasks at once.  *)
LEMMA ClosedStays ==
  ASSUME ClosedInv, Next
  PROVE  /\ ClosedInv' /\ BornIds \subseteq BornIds'
         /\ \A s \in BornIds : s \notin live => s \notin live'
         /\ \A s : ClosedSession(s) => ClosedSession(s)'
BY StepShape, ShapeKeeps, NextClosedInv DEF ClosedInv, ClosedSession, state

(* A session that is claimed by try_close is closed.                       *)
LEMMA ClaimCloses ==
  ASSUME TypeInv, NEW s \in BornIds, try_close(s), nextId' = nextId
  PROVE  ClosedSession(s)'
<1>1. word \in [Session -> Nat] /\ nextId \in 1..(MaxSession + 1)
  BY DEF TypeInv, TypeOK
<1>2. s \in Session
  BY <1>1, RegistryAssumption DEF BornIds, Session
<1>3. state(s)' = Closing
  BY <1>1, <1>2, Turns
<1> QED
  BY <1>3 DEF ClosedSession, BornIds, state

LEMMA EvClaimsStep == ASSUME RemovedInv, Next PROVE EvClaims'
<1>1. ev \in EvTask /\ EvClaims
  BY DEF RemovedInv, ClosedInv, TypeInv, TypeOK
<1>2. CASE ev' = ev
  BY <1>1, <1>2 DEF EvClaims
<1>3. CASE EvConnected \/ EvCreated
  BY <1>2, <1>3 DEF EvConnected, EvCreated
<1>4. CASE EvDisconnectDone \/ EvClosedRemove
  BY <1>4 DEF EvDisconnectDone, EvClosedRemove, EvClaims, EvIdle
<1>5. CASE EvDisconnected
  BY <1>5 DEF EvDisconnected, EvClaims, EvIdle
<1>6. CASE EvClosedFind
  BY <1>6 DEF EvClosedFind, EvClaims, EvIdle
<1>7. CASE EvCollect \/ (\E s \in ev.todo : EvRemove(s)) \/ (\E s \in ev.removed : EvAnnounce(s))
  BY <1>1, <1>7 DEF EvCollect, EvRemove, EvAnnounce, EvClaims, EvTask
<1>8. CASE EvClosedClaim
  BY <1>1, <1>8 DEF EvClosedClaim, EvClaims, EvTask
<1> QED
  BY <1>2, <1>3, <1>4, <1>5, <1>6, <1>7, <1>8, TaskFrames DEF EvNext

LEMMA HmClaimsStep == ASSUME RemovedInv, Next PROVE HmClaims'
<1>1. hm \in HmTask /\ HmClaims /\ TypeInv /\ live \subseteq BornIds
  BY DEF RemovedInv, ClosedInv, TypeInv, TypeOK, BornIds
<1>2. BornIds \subseteq BornIds' /\ \A s : ClosedSession(s) => ClosedSession(s)'
  BY ClosedStays DEF RemovedInv
<1>3. CASE hm' = hm
  BY <1>1, <1>2, <1>3 DEF HmClaims, ClosedSession, state
<1>4. CASE HmTick
  BY <1>2, <1>4 DEF HmTick, HmIdle, HmClaims
<1>5. ASSUME NEW c, HmHeartbeat(c) \/ HmUnhealthy(c) PROVE HmClaims'
  <2>1. SessionsOf(MachineOf[c]) \subseteq BornIds
    BY <1>1 DEF SessionsOf
  <2>2. hm'.pc \in {"scan", "sweep"} /\ (hm'.todo = hm.todo \/ hm'.todo = SessionsOf(MachineOf[c]))
    BY <1>1, <1>5 DEF HmHeartbeat, HmUnhealthy, HmTask
  <2> QED
    BY <1>1, <1>2, <2>1, <2>2 DEF HmClaims
<1>6. ASSUME NEW s \in hm.todo, HmClose(s) PROVE HmClaims'
  <2>1. hm'.pc = "claimed" /\ hm'.s = s /\ hm'.todo = hm.todo /\ try_close(s) /\ nextId' = nextId
    BY <1>1, <1>6 DEF HmClose, HmTask, hmOthers
  <2>2. s \in BornIds
    BY <1>1 DEF HmClaims
  <2>3. ClosedSession(s)'
    BY <1>1, <2>1, <2>2, ClaimCloses
  <2> QED
    BY <1>1, <1>2, <2>1, <2>3 DEF HmClaims, ClosedSession, state
<1>7. CASE HmRemove \/ HmEvict
  BY <1>1, <1>2, <1>7 DEF HmRemove, HmEvict, HmClaims, HmTask
<1> QED
  BY <1>3, <1>4, <1>5, <1>6, <1>7, TaskFrames DEF HmNext

LEMMA ClClaimsStep == ASSUME RemovedInv, Next PROVE ClClaims'
<1>1. cl \in ClTask /\ ClClaims /\ TypeInv /\ live \subseteq BornIds
  BY DEF RemovedInv, ClosedInv, TypeInv, TypeOK, BornIds
<1>2. BornIds \subseteq BornIds' /\ \A s : ClosedSession(s) => ClosedSession(s)'
  BY ClosedStays DEF RemovedInv
<1>3. CASE cl' = cl
  BY <1>1, <1>2, <1>3 DEF ClClaims, ClosedSession, state
<1>4. CASE ClTick
  BY <1>1, <1>2, <1>4 DEF ClTick, ClIdle, ClClaims
<1>5. CASE \E s \in cl.todo : ClCheck(s)
  BY <1>1, <1>2, <1>5 DEF ClCheck, ClClaims, ClTask
<1>6. CASE ClClose
  <2>1. PICK s : s = cl.s
    OBVIOUS
  <2>2. /\ cl'.pc = "claimed" /\ cl'.s = s /\ cl'.todo = cl.todo /\ try_close(s) /\ nextId' = nextId
        /\ cl.pc = "expired"
    BY <1>1, <1>6, <2>1 DEF ClClose, ClTask, clOthers
  <2>3. s \in BornIds
    BY <1>1, <2>1, <2>2 DEF ClClaims
  <2>4. ClosedSession(s)'
    BY <1>1, <2>2, <2>3, ClaimCloses
  <2> QED
    BY <1>1, <1>2, <2>2, <2>4 DEF ClClaims, ClosedSession, state
<1>7. CASE ClTell
  <2>1. PICK s : s = cl.s
    OBVIOUS
  <2>2. cl'.pc = "told" /\ cl'.s = s /\ cl'.todo = cl.todo /\ cl.pc = "claimed"
    BY <1>1, <1>7, <2>1 DEF ClTell, ClTask
  <2>3. ClosedSession(s)'
    BY <1>1, <1>2, <2>1, <2>2 DEF ClClaims
  <2> QED
    BY <1>1, <1>2, <2>2, <2>3 DEF ClClaims, ClosedSession, state
<1>8. CASE ClRemove
  BY <1>1, <1>2, <1>8 DEF ClRemove, ClClaims, ClTask
<1> QED
  BY <1>3, <1>4, <1>5, <1>6, <1>7, <1>8, TaskFrames DEF ClNext

LEMMA IpcClaimsStep == ASSUME RemovedInv, Next PROVE IpcClaims'
<1>1. ipc \in [IpcConn -> IpcTask] /\ IpcClaims /\ TypeInv
  BY DEF RemovedInv, ClosedInv, TypeInv, TypeOK
<1>2. \A s : ClosedSession(s) => ClosedSession(s)'
  BY ClosedStays DEF RemovedInv
<1> SUFFICES ASSUME NEW j \in IpcConn, NEW s, s = ipc'[j].s,
                    ipc'[j].pc \in {"close_lookup", "close_send", "close_remove"}
             PROVE  ClosedSession(s)'
  BY DEF IpcClaims, ClosedSession, state
<1>3. CASE ipc'[j] = ipc[j]
  BY <1>1, <1>2, <1>3 DEF IpcClaims
<1>4. CASE IpcNext /\ ipc'[j] # ipc[j]
  <2>1. \/ CreateInsert(j) \/ CreateSend(j) \/ CreateFails(j) \/ CloseClaim(j) \/ CloseRemove(j)
        \/ GoesOn(j) \/ Elsewhere(j)
    BY <1>1, <1>4, IpcMoves
  <2>2. CASE CreateInsert(j)
    BY <1>1, <2>2 DEF CreateInsert, IpcTask
  <2>3. CASE CreateSend(j) \/ CreateFails(j) \/ CloseRemove(j)
    BY <1>1, <2>3 DEF CreateSend, CreateFails, CloseRemove, Goto, IpcIdle
  <2>4. CASE CloseClaim(j)
    <3>1. s = ipc[j].s /\ ipc[j].pc = "close_claim" /\ try_close(s) /\ nextId' = nextId
      BY <1>1, <2>4 DEF CloseClaim, GotoPc, At, IpcTask
    <3>2. s \in BornIds
      BY <1>1, <3>1 DEF TypeInv, IpcStages, BornIds
    <3> QED
      BY <1>1, <3>1, <3>2, ClaimCloses
  <2>5. CASE GoesOn(j)
    BY <1>1, <1>2, <2>5 DEF GoesOn, IpcClaims
  <2> QED
    BY <2>1, <2>2, <2>3, <2>4, <2>5 DEF Elsewhere
<1> QED
  BY <1>3, <1>4, TaskFrames

LEMMA FreshStep == ASSUME RemovedInv, Next PROVE Fresh'
<1>1. /\ ipc \in [IpcConn -> IpcTask] /\ nextId \in 1..(MaxSession + 1) /\ Fresh /\ MaxSession \in Nat
      /\ \A k \in IpcConn : Starting(k) => ipc[k].s \in BornIds
  BY RegistryAssumption DEF RemovedInv, ClosedInv, TypeInv, TypeOK, IpcStages, Starting, BornIds
<1>2. BornIds \subseteq BornIds'
  BY ClosedStays DEF RemovedInv
<1>3. CASE ipc' = ipc /\ sent' = sent
  BY <1>1, <1>2, <1>3 DEF Fresh, Starting
<1>4. CASE IpcNext
  <2> PICK k \in IpcConn :
         /\ \A j \in IpcConn \ {k} : ipc'[j] = ipc[j]
         /\ \/ CreateInsert(k) \/ CreateSend(k) \/ CreateFails(k) \/ CloseClaim(k) \/ CloseRemove(k)
            \/ GoesOn(k) \/ Elsewhere(k)
    BY <1>1, <1>4, IpcMoves
  <2>1. CASE CreateInsert(k)
    <3>1. ipc'[k].s = nextId /\ sent' = sent
      BY <1>1, <2>1 DEF CreateInsert, IpcTask
    <3>2. nextId \notin BornIds
      BY <1>1 DEF BornIds
    <3>3. \A j \in IpcConn \ {k} : Starting(j)' => Starting(j) /\ ipc'[j].s = ipc[j].s
      BY DEF Starting
    <3> QED
      BY <1>1, <1>2, <3>1, <3>2, <3>3 DEF Fresh
  <2>2. CASE CreateSend(k)
    <3>1. ~Starting(k)' /\ Starting(k) /\ sent' = sent \cup {ipc[k].s}
      BY <1>1, <2>2 DEF CreateSend, Goto, IpcIdle, Starting, At
    <3>2. \A j \in IpcConn \ {k} : Starting(j)' => Starting(j) /\ ipc'[j].s = ipc[j].s
      BY DEF Starting
    <3> QED
      BY <1>1, <1>2, <3>1, <3>2 DEF Fresh
  <2>3. CASE CreateFails(k) \/ CloseRemove(k) \/ CloseClaim(k) \/ GoesOn(k) \/ Elsewhere(k)
    <3>1. sent' = sent
      BY <2>3 DEF CreateFails, CloseRemove, CloseClaim, GoesOn, Elsewhere
    <3>2. ~Starting(k)'
      <4>1. CASE CreateFails(k) \/ CloseRemove(k)
        BY <1>1, <4>1 DEF CreateFails, CloseRemove, Goto, IpcIdle, Starting
      <4>2. CASE CloseClaim(k)
        BY <1>1, <4>2 DEF CloseClaim, GotoPc, IpcTask, Starting
      <4> QED
        BY <2>3, <4>1, <4>2 DEF GoesOn, Elsewhere, Starting
    <3>3. \A j \in IpcConn \ {k} : Starting(j)' => Starting(j) /\ ipc'[j].s = ipc[j].s
      BY DEF Starting
    <3> QED
      BY <1>1, <1>2, <3>1, <3>2, <3>3 DEF Fresh
  <2> QED
    BY <2>1, <2>2, <2>3
<1> QED
  BY <1>3, <1>4, TaskFrames

(* A step takes a session off the table that is closed, or that the event  *)
(* task is about to close, or whose start command could not be sent.       *)
LEMMA LeavesTable ==
  ASSUME RemovedInv, Next, NEW x \in live, x \notin live'
  PROVE  \/ ClosedSession(x)'
         \/ x \in ev'.removed
         \/ \E k \in IpcConn : CreateFails(k) /\ x = ipc[k].s
<1>1. /\ \A s : ClosedSession(s) => ClosedSession(s)'
      /\ EvClaims /\ HmClaims /\ ClClaims /\ IpcClaims /\ Found
      /\ ev \in EvTask /\ ipc \in [IpcConn -> IpcTask]
  BY ClosedStays DEF RemovedInv, ClosedInv, TypeInv, TypeOK
<1>2. CASE SshNext \/ Tick
  BY <1>2 DEF Tick, SshNext, SshConnect, Register, ChannelClose, HandlerDrop, ProcessorEnds,
     CommandLost, AgentNext, AgentCreates, AgentRefuses, AgentCloses, AgentWrites, AgentAcks,
     PtyExits, GoesLate, TakeCommand, sshOthers, tableVars
<1>3. CASE EvNext
  <2>1. CASE EvConnected \/ EvDisconnected \/ EvCollect \/ EvDisconnectDone \/ EvCreated \/ EvClosedFind
             \/ EvClosedClaim \/ \E s \in ev.removed : EvAnnounce(s)
    BY <2>1 DEF EvConnected, EvDisconnected, EvCollect, EvDisconnectDone, EvCreated,
       EvClosedFind, EvClosedClaim, EvAnnounce, tableVars
  <2>2. ASSUME NEW s \in ev.todo, EvRemove(s) PROVE x \in ev'.removed
    BY <1>1, <2>2 DEF EvRemove, remove, EvTask
  <2>3. CASE EvClosedRemove
    BY <1>1, <2>3 DEF EvClosedRemove, remove, Found, ClosedSession
  <2> QED
    BY <1>3, <2>1, <2>2, <2>3 DEF EvNext
<1>4. CASE HmNext
  <2>1. hm.pc = "claimed" /\ x = hm.s
    BY <1>4 DEF HmNext, HmTick, HmHeartbeat, HmUnhealthy, HmClose, HmRemove, HmEvict, remove
  <2> QED
    BY <1>1, <2>1 DEF HmClaims
<1>5. CASE ClNext
  <2>1. cl.pc = "told" /\ x = cl.s
    BY <1>5 DEF ClNext, ClTick, ClCheck, ClClose, ClTell, ClRemove, remove
  <2> QED
    BY <1>1, <2>1 DEF ClClaims
<1>6. CASE IpcNext
  <2> PICK k \in IpcConn :
         \/ CreateInsert(k) \/ CreateSend(k) \/ CreateFails(k) \/ CloseClaim(k) \/ CloseRemove(k)
         \/ GoesOn(k) \/ Elsewhere(k)
    BY <1>1, <1>6, IpcMoves
  <2>1. CASE CreateFails(k)
    BY <2>1 DEF CreateFails, remove
  <2>2. CASE CloseRemove(k)
    BY <1>1, <2>2 DEF CloseRemove, remove, IpcClaims, At
  <2>3. CASE CreateInsert(k) \/ CreateSend(k) \/ CloseClaim(k) \/ GoesOn(k) \/ Elsewhere(k)
    BY <2>3 DEF CreateInsert, create_with_owner, CreateSend, CloseClaim, GoesOn, Elsewhere, tableVars
  <2> QED
    BY <2>1, <2>2, <2>3
<1> QED
  BY <1>2, <1>3, <1>4, <1>5, <1>6 DEF Next

(* A handle the event task has taken off the table stays with it until it  *)
(* has closed it.                                                          *)
LEMMA RemovedUntilClosed ==
  ASSUME RemovedInv, Next, NEW x \in ev.removed
  PROVE  x \in ev'.removed \/ ClosedSession(x)'
<1>1. /\ EvClaims /\ Removing /\ TypeInv /\ ev \in EvTask
  BY DEF RemovedInv, ClosedInv, TypeInv, TypeOK
<1>2. ev.pc = "remove"
  BY <1>1 DEF EvClaims
<1>3. CASE ev' = ev
  BY <1>3
<1>4. CASE EvNext
  <2>1. CASE EvConnected \/ EvDisconnected \/ EvCollect \/ EvDisconnectDone \/ EvCreated \/ EvClosedFind
             \/ EvClosedClaim \/ EvClosedRemove
    BY <1>2, <2>1 DEF EvConnected, EvDisconnected, EvCollect, EvDisconnectDone, EvCreated,
       EvClosedFind, EvClosedClaim, EvClosedRemove, Take
  <2>2. ASSUME NEW s \in ev.todo, EvRemove(s) PROVE x \in ev'.removed
    BY <1>1, <2>2 DEF EvRemove, EvTask
  <2>3. ASSUME NEW s \in ev.removed, EvAnnounce(s) PROVE x \in ev'.removed \/ ClosedSession(x)'
    <3>1. ev'.removed = ev.removed \ {s} /\ try_close(s) /\ nextId' = nextId
      BY <1>1, <2>3 DEF EvAnnounce, EvTask
    <3>2. s \in BornIds
      BY <1>1 DEF Removing
    <3>3. ClosedSession(s)'
      BY <1>1, <3>1, <3>2, ClaimCloses
    <3> QED
      BY <3>1, <3>3 DEF ClosedSession, state
  <2> QED
    BY <1>4, <2>1, <2>2, <2>3 DEF EvNext
<1> QED
  BY <1>3, <1>4, TaskFrames

LEMMA GoneStep == ASSUME RemovedInv, Next PROVE Gone'
<1>1. /\ Gone /\ Fresh /\ Fresh' /\ ipc \in [IpcConn -> IpcTask]
      /\ \A k \in IpcConn : Starting(k) => ipc[k].s \in BornIds
      /\ \A s : ClosedSession(s) => ClosedSession(s)'
  BY ClosedStays, FreshStep DEF RemovedInv, ClosedInv, TypeInv, TypeOK, IpcStages, Starting, BornIds
<1> SUFFICES ASSUME NEW x \in Asked', x \notin live'
             PROVE  ClosedSession(x)' \/ x \in ev'.removed
  BY DEF Gone, ClosedSession, state
<1>2. x \in Asked /\ \A k \in IpcConn : CreateFails(k) => x # ipc[k].s
  <2>1. CASE ipc' = ipc /\ sent' = sent
    <3>1. Asked' = Asked
      BY <2>1 DEF Asked, Starting
    <3>2. \A k \in IpcConn : ~CreateFails(k)
      BY <1>1, <2>1 DEF CreateFails, Goto, At, IpcIdle
    <3> QED
      BY <3>1, <3>2
  <2>2. CASE IpcNext
    <3> PICK k \in IpcConn :
           /\ \A j \in IpcConn \ {k} : ipc'[j] = ipc[j]
           /\ \/ CreateInsert(k) \/ CreateSend(k) \/ CreateFails(k) \/ CloseClaim(k) \/ CloseRemove(k)
              \/ GoesOn(k) \/ Elsewhere(k)
      BY <1>1, <2>2, IpcMoves
    <3>1. \A j \in IpcConn : j # k => ~CreateFails(j)
      BY <1>1 DEF CreateFails, Goto, At, IpcIdle
    <3>2. \/ x \in sent'
          \/ \E j \in IpcConn : j # k /\ Starting(j)' /\ Starting(j) /\ x = ipc[j].s /\ x = ipc'[j].s
          \/ Starting(k)' /\ x = ipc'[k].s
      BY DEF Asked, Starting
    <3>3. CASE CreateInsert(k)
      <4>1. ipc'[k].s \in live' /\ sent' = sent /\ ~CreateFails(k)
        BY <1>1, <3>3 DEF CreateInsert, create_with_owner, IpcTask, CreateFails, At
      <4> QED
        BY <3>1, <3>2, <4>1 DEF Asked
    <3>4. CASE CreateSend(k)
      <4>1. Starting(k) /\ ~Starting(k)' /\ sent' = sent \cup {ipc[k].s}
        BY <1>1, <3>4 DEF CreateSend, Goto, IpcIdle, Starting, At
      <4>2. ~CreateFails(k)
        BY <3>4 DEF CreateSend, CreateFails, CanSend
      <4> QED
        BY <3>1, <3>2, <4>1, <4>2 DEF Asked
    <3>5. CASE CreateFails(k)
      <4>1. Starting(k) /\ ~Starting(k)' /\ sent' = sent
        BY <1>1, <3>5 DEF CreateFails, Goto, IpcIdle, Starting, At
      <4>2. x \in Asked
        BY <3>2, <4>1 DEF Asked
      <4>3. x # ipc[k].s
        BY <1>1, <3>2, <4>1 DEF Fresh
      <4> QED
        BY <3>1, <4>2, <4>3
    <3>6. CASE CloseClaim(k) \/ CloseRemove(k) \/ GoesOn(k) \/ (Elsewhere(k) /\ ~CreateFails(k))
      <4>1. sent' = sent
        BY <3>6 DEF CloseClaim, CloseRemove, GoesOn, Elsewhere
      <4>2. ~Starting(k)' /\ ~CreateFails(k)
        <5>1. CASE CloseRemove(k)
          BY <1>1, <5>1 DEF CloseRemove, CreateFails, At, Goto, IpcIdle, Starting
        <5>2. CASE CloseClaim(k)
          BY <1>1, <5>2 DEF CloseClaim, CreateFails, At, GotoPc, IpcTask, Starting
        <5> QED
          BY <3>6, <5>1, <5>2 DEF GoesOn, Elsewhere, Starting, CreateFails, At
      <4> QED
        BY <3>1, <3>2, <4>1, <4>2 DEF Asked
    <3> QED
      BY <3>3, <3>4, <3>5, <3>6
  <2> QED
    BY <2>1, <2>2, TaskFrames
<1>3. CASE x \in live
  BY <1>2, <1>3, LeavesTable
<1>4. CASE x \notin live
  <2>1. x \in BornIds
    BY <1>1, <1>2 DEF Asked, Fresh
  <2>2. ClosedSession(x) \/ x \in ev.removed
    BY <1>1, <1>2, <1>4, <2>1 DEF Gone, ClosedSession
  <2> QED
    BY <1>1, <2>2, RemovedUntilClosed
<1> QED
  BY <1>3, <1>4

(* RemovedInv is inductive.                                                *)
LEMMA NextRemovedInv == RemovedInv /\ [Next]_vars => RemovedInv'
<1> SUFFICES ASSUME RemovedInv, [Next]_vars PROVE RemovedInv'
  OBVIOUS
<1>1. CASE UNCHANGED vars
  <2>1. ClosedInv'
    BY NextClosedInv DEF RemovedInv
  <2>2. BornIds' = BornIds /\ Asked' = Asked /\ \A s : ClosedSession(s)' <=> ClosedSession(s)
    BY <1>1 DEF vars, BornIds, Asked, Starting, ClosedSession, state
  <2>3. Gone' /\ Fresh'
    BY <1>1, <2>2 DEF vars, RemovedInv, Gone, Fresh, Starting, state
  <2>4. EvClaims' /\ HmClaims' /\ ClClaims' /\ IpcClaims'
    BY <1>1, <2>2 DEF vars, RemovedInv, EvClaims, HmClaims, ClClaims, IpcClaims, ClosedSession, state
  <2> QED
    BY <2>1, <2>3, <2>4 DEF RemovedInv
<1>2. CASE Next
  BY <1>2, ClosedStays, GoneStep, FreshStep, EvClaimsStep, HmClaimsStep, ClClaimsStep, IpcClaimsStep
     DEF RemovedInv
<1> QED
  BY <1>1, <1>2

(* No session that an agent was asked to start leaves the table unclosed,  *)
(* whichever of the five paths that end a session takes it off, and        *)
(* however their steps interleave.                                         *)
THEOREM RemovalCloses == Spec => []RemovedIsClosed
<1>1. RemovedInv => RemovedIsClosed
  BY DEF RemovedInv, Gone, Asked, RemovedIsClosed
<1> QED
  BY <1>1, InitRemovedInv, NextRemovedInv, PTL DEF Spec

------------------------------------------------------------------------------
(* A connection is registered under its own machine.                       *)
PoolOwn == \A m \in Machine : pool[m] \in Conn => MachineOf[pool[m]] = m

(* Behind place i of the channel waits the notice that c is gone.          *)
Notice(q, c, i) == \E j \in 1..Len(q) : j > i /\ q[j] = Disconnected(c)

(* An event that will register c in the pool.                              *)
Registers(e, c) == e.kind = "connected" /\ e.by = c

(* No registration of c is the last word about c in the channel.           *)
Revoked(q, c) == \A i \in 1..Len(q) : Registers(q[i], c) => Notice(q, c, i)

(* The handler of c is gone and the last notice it sent was not dropped.   *)
Dead(c) == c \notin lost /\ ssh[c] \in {"channel_closed", "dropped"}

(* Every registration of a dead connection, in the channel or already in   *)
(* the pool, has a notice behind it.                                       *)
Noticed ==
  \A c \in Conn : Dead(c) =>
    /\ Revoked(events, c)
    /\ pool[MachineOf[c]] = c => Notice(events, c, 0)

NoticeInv == TypeInv /\ PoolOwn /\ Noticed

(* What sending an event does to the notices in the channel, ...           *)
LEMMA NoticeSent ==
  ASSUME NEW q \in Seq(Event), NEW e, NEW c
  PROVE  /\ Revoked(q, c) /\ ~Registers(e, c) => Revoked(Append(q, e), c)
         /\ Notice(q, c, 0) => Notice(Append(q, e), c, 0)
         /\ e = Disconnected(c) => Revoked(Append(q, e), c) /\ Notice(Append(q, e), c, 0)
<1>1. /\ Len(q) \in Nat /\ Len(Append(q, e)) = Len(q) + 1
      /\ \A i \in 1..Len(q) : Append(q, e)[i] = q[i]
      /\ Append(q, e)[Len(q) + 1] = e
  OBVIOUS
<1>2. \A i \in 1..Len(q) : Notice(q, c, i) => Notice(Append(q, e), c, i)
  BY <1>1 DEF Notice
<1>3. ~Registers(Disconnected(c), c)
  BY DEF Disconnected, Registers
<1>4. \A i \in 1..(Len(q) + 1) : i \in 1..Len(q) \/ i = Len(q) + 1
  BY <1>1
<1>5. Revoked(q, c) /\ ~Registers(e, c) => Revoked(Append(q, e), c)
  BY <1>1, <1>2, <1>4 DEF Revoked
<1>6. Notice(q, c, 0) => Notice(Append(q, e), c, 0)
  BY <1>1 DEF Notice
<1>7. e = Disconnected(c) => \A i \in 0..Len(q) : Notice(Append(q, e), c, i)
  BY <1>1 DEF Notice
<1>8. e = Disconnected(c) => Revoked(Append(q, e), c)
  BY <1>1, <1>3, <1>4, <1>7 DEF Revoked
<1> QED
  BY <1>1, <1>5, <1>6, <1>7, <1>8

(* ... and what taking the first one does.                                 *)
LEMMA NoticeTaken ==
  ASSUME NEW q \in Seq(Event), q # <<>>, NEW c
  PROVE  /\ Revoked(q, c) => Revoked(Tail(q), c)
         /\ Notice(q, c, 0) /\ Head(q) # Disconnected(c) => Notice(Tail(q), c, 0)
         /\ Revoked(q, c) /\ Registers(Head(q), c) => Notice(Tail(q), c, 0)
<1>1. /\ Len(q) \in Nat /\ Len(q) > 0 /\ Len(Tail(q)) = Len(q) - 1 /\ Head(q) = q[1]
      /\ \A i \in 1..(Len(q) - 1) : Tail(q)[i] = q[i + 1]
  OBVIOUS
<1>2. \A i \in 1..Len(q) : Notice(q, c, i) => Notice(Tail(q), c, i - 1)
  <2> SUFFICES ASSUME NEW i \in 1..Len(q), Notice(q, c, i) PROVE Notice(Tail(q), c, i - 1)
    OBVIOUS
  <2> PICK j \in 1..Len(q) : j > i /\ q[j] = Disconnected(c)
    BY DEF Notice
  <2>1. j - 1 \in 1..(Len(q) - 1) /\ j - 1 > i - 1 /\ Tail(q)[j - 1] = q[j]
    BY <1>1
  <2> QED
    BY <1>1, <2>1 DEF Notice
<1>3. Revoked(q, c) => Revoked(Tail(q), c)
  <2> SUFFICES ASSUME Revoked(q, c), NEW i \in 1..Len(Tail(q)), Registers(Tail(q)[i], c)
               PROVE  Notice(Tail(q), c, i)
    BY DEF Revoked
  <2>1. i + 1 \in 1..Len(q) /\ Registers(q[i + 1], c) /\ (i + 1) - 1 = i
    BY <1>1
  <2> QED
    BY <1>2, <2>1 DEF Revoked
<1>4. Notice(q, c, 0) /\ q[1] # Disconnected(c) => Notice(Tail(q), c, 0)
  <2> SUFFICES ASSUME Notice(q, c, 0), q[1] # Disconnected(c) PROVE Notice(Tail(q), c, 0)
    OBVIOUS
  <2> PICK j \in 1..Len(q) : q[j] = Disconnected(c)
    BY DEF Notice
  <2>1. j # 1
    OBVIOUS
  <2>2. PICK i \in 1..(Len(q) - 1) : i > 0 /\ i + 1 = j
    BY <1>1, <2>1
  <2>3. Tail(q)[i] = Disconnected(c)
    BY <1>1, <2>2
  <2> QED
    BY <1>1, <2>2, <2>3 DEF Notice
<1>5. Revoked(q, c) /\ Registers(q[1], c) => Notice(Tail(q), c, 0)
  BY <1>1, <1>2 DEF Revoked
<1> QED
  BY <1>1, <1>3, <1>4, <1>5

LEMMA InitNoticeInv == Init => NoticeInv
<1> SUFFICES ASSUME Init PROVE NoticeInv
  OBVIOUS
<1>1. PoolOwn
  BY RegistryAssumption DEF Init, TableInit, PoolOwn
<1>2. Noticed
  BY DEF Init, SshInit, Noticed, Dead
<1> QED
  BY <1>1, <1>2, InitTypeInv DEF NoticeInv

(* A step that leaves the channel and the handlers alone, and at most      *)
(* takes an entry out of the pool.                                         *)
Quiet ==
  /\ UNCHANGED <<events, ssh, lost>>
  /\ pool' = pool \/ \E m : remove_conn(m)

LEMMA QuietSteps ==
  ASSUME Next, ~SshNext, ~EvConnected, ~EvDisconnected, ~EvCreated, ~EvClosedFind
  PROVE  Quiet
<1>1. CASE EvNext
  BY <1>1 DEF EvNext, EvCollect, EvRemove, EvAnnounce, EvDisconnectDone,
     EvClosedClaim, EvClosedRemove, evOthers, tableVars, Quiet
<1>2. CASE HmNext
  BY <1>2 DEF HmNext, HmTick, HmHeartbeat, HmUnhealthy, HmClose, HmRemove, HmEvict, hmOthers, history,
     Quiet
<1>3. CASE ClNext
  BY <1>3 DEF ClNext, ClTick, ClCheck, ClClose, ClTell, ClRemove, clOthers, history, Quiet
<1>4. CASE IpcNext
  <2> PICK k \in IpcConn :
         \/ Accept(k) \/ Authenticate(k)
         \/ (\E m \in Machine : CreateLookup(k, m) \/ DisconnectMachine(k, m))
         \/ (\E s \in live : SessionInput(k, s) \/ CloseLookup(k, s))
         \/ ClientLeaves(k) \/ WriteFails(k) \/ IpcProgress(k)
    BY <1>4 DEF IpcNext
  <2>1. UNCHANGED ipcOthers
    BY <1>4, IpcLeaves
  <2>2. pool' = pool \/ \E m : remove_conn(m)
    BY DEF IpcProgress, Accept, Authenticate, ClientLeaves, WriteFails, Reclaim, Orphan, ReclaimDone,
       CreateInsert, CreateSend, CreateFails, InputSend, CloseClaim, CloseConn, CloseSend, CloseRemove,
       DisconnectRemove, OrphanDone, CreateLookup, DisconnectMachine, SessionInput, CloseLookup,
       tableVars
  <2> QED
    BY <2>1, <2>2 DEF ipcOthers, Quiet
<1>5. CASE Tick
  BY <1>5 DEF Tick, tableVars, connVars, history, Quiet
<1> QED
  BY <1>1, <1>2, <1>3, <1>4, <1>5 DEF Next

(* Every send of an SSH handler keeps the registrations of the dead        *)
(* revoked.                                                                *)
LEMMA SshNoticed == ASSUME NoticeInv, SshNext PROVE PoolOwn' /\ Noticed'
<1>1. /\ events \in Seq(Event) /\ ssh \in [Conn -> Handler] /\ Noticed /\ PoolOwn
  BY DEF NoticeInv, TypeInv, TypeOK
<1> PICK c \in Conn :
       \/ SshConnect(c) \/ Register(c) \/ ChannelClose(c) \/ HandlerDrop(c)
       \/ ProcessorEnds(c) \/ CommandLost(c) \/ AgentNext(c)
       \/ (\E s \in pty[c] : PtyExits(c, s)) \/ GoesLate(c)
  BY DEF SshNext
<1>2. pool' = pool /\ PoolOwn'
  <2>1. pool' = pool
    BY DEF SshConnect, Register, ChannelClose, HandlerDrop, ProcessorEnds, CommandLost, AgentNext,
       AgentCreates, AgentRefuses, AgentCloses, AgentWrites, AgentAcks, PtyExits, GoesLate,
       TakeCommand, sshOthers, tableVars
  <2> QED
    BY <1>1, <2>1 DEF PoolOwn
<1>3. ASSUME NEW e, events' = events \/ events' = Append(events, e), \A x \in Conn : ~Registers(e, x),
             UNCHANGED <<ssh, lost>>
      PROVE  Noticed'
  <2>1. \A x \in Conn : Dead(x)' <=> Dead(x)
    BY <1>3 DEF Dead
  <2>2. CASE events' = events
    BY <1>1, <1>2, <2>1, <2>2 DEF Noticed
  <2>3. CASE events' = Append(events, e)
    BY <1>1, <1>2, <1>3, <2>1, <2>3, NoticeSent DEF Noticed
  <2> QED
    BY <1>3, <2>2, <2>3
<1>4. CASE SshConnect(c)
  <2>1. \A x \in Conn : Dead(x)' => Dead(x)
    BY <1>1, <1>4 DEF SshConnect, Dead
  <2> QED
    BY <1>1, <1>2, <1>4, <2>1 DEF SshConnect, Noticed
<1>5. CASE Register(c)
  <2>1. \A x \in Conn : Dead(x)' => Dead(x) /\ x # c
    BY <1>1, <1>5 DEF Register, Dead
  <2>2. events' = Append(events, Connected(c)) /\ \A x : x # c => ~Registers(Connected(c), x)
    BY <1>5 DEF Register, SendEvent, Connected, Registers
  <2> QED
    BY <1>1, <1>2, <2>1, <2>2, NoticeSent DEF Noticed
<1>6. CASE ChannelClose(c) \/ (HandlerDrop(c) /\ Len(events) < EventCap)
  <2>1. \A x \in Conn : Dead(x)' => Dead(x) \/ x = c
    BY <1>1, <1>6 DEF ChannelClose, HandlerDrop, Dead
  <2>2. events' = Append(events, Disconnected(c)) /\ \A x : ~Registers(Disconnected(c), x)
    BY <1>6 DEF ChannelClose, HandlerDrop, SendEvent, TrySendEvent, Disconnected, Registers
  <2> QED
    BY <1>1, <1>2, <2>1, <2>2, NoticeSent DEF Noticed
<1>7. CASE HandlerDrop(c) /\ ~(Len(events) < EventCap)
  <2>1. events' = events /\ \A x \in Conn : Dead(x)' => Dead(x)
    BY <1>1, <1>7 DEF HandlerDrop, TrySendEvent, Dead
  <2> QED
    BY <1>1, <1>2, <2>1 DEF Noticed
<1>8. CASE ProcessorEnds(c) \/ CommandLost(c) \/ AgentRefuses(c) \/ AgentWrites(c) \/ AgentAcks(c)
           \/ GoesLate(c)
  <2>1. UNCHANGED <<events, ssh, lost>>
    BY <1>8 DEF ProcessorEnds, CommandLost, AgentRefuses, AgentWrites, AgentAcks, GoesLate
  <2> QED
    BY <1>1, <1>2, <2>1 DEF Noticed, Dead
<1>9. CASE AgentCreates(c) \/ AgentCloses(c) \/ \E s \in pty[c] : PtyExits(c, s)
  <2>1. \E s : events' = Append(events, Created(c, s)) \/ events' = Append(events, Closed(c, s))
    BY <1>9, Zenon DEF AgentCreates, AgentCloses, PtyExits, SendEvent
  <2>2. \A s, x : ~Registers(Created(c, s), x) /\ ~Registers(Closed(c, s), x)
    BY DEF Created, Closed, Registers
  <2>3. UNCHANGED <<ssh, lost>>
    BY <1>9 DEF AgentCreates, AgentCloses, PtyExits
  <2> QED
    BY <1>2, <1>3, <2>1, <2>2, <2>3
<1> QED
  BY <1>2, <1>4, <1>5, <1>6, <1>7, <1>8, <1>9 DEF AgentNext

(* NoticeInv is inductive.                                                 *)
LEMMA NextNoticeInv == NoticeInv /\ [Next]_vars => NoticeInv'
<1> SUFFICES ASSUME NoticeInv, [Next]_vars PROVE PoolOwn' /\ Noticed'
  BY NextTypeInv DEF NoticeInv
<1>1. /\ events \in Seq(Event) /\ pool \in [Machine -> Conn \cup {NoConn}] /\ Noticed /\ PoolOwn
      /\ MachineOf \in [Conn -> Machine] /\ NoConn \notin Conn
  BY RegistryAssumption DEF NoticeInv, TypeInv, TypeOK
<1>2. CASE UNCHANGED vars
  BY <1>1, <1>2 DEF vars, PoolOwn, Noticed, Dead
<1>3. CASE Quiet
  <2>1. \A m \in Machine : pool'[m] = pool[m] \/ pool'[m] = NoConn
    BY <1>1, <1>3 DEF Quiet, remove_conn
  <2> QED
    BY <1>1, <1>3, <2>1 DEF Quiet, PoolOwn, Noticed, Dead
<1>4. CASE SshNext
  BY <1>4, SshNoticed
<1>5. CASE EvConnected \/ EvDisconnected \/ EvCreated \/ EvClosedFind
  <2>1. events # <<>> /\ events' = Tail(events) /\ UNCHANGED <<ssh, lost>>
    BY <1>5 DEF EvConnected, EvDisconnected, EvCreated, EvClosedFind, Take, evOthers
  <2>2. Head(events) \in Event
    BY <1>1, <2>1, TakeFirst
  <2>3. \A x : Head(events) = Disconnected(x) =>
                 Head(events).kind = "disconnected" /\ Head(events).by = x
    BY DEF Disconnected
  <2>4. CASE EvConnected
    <3> PICK c \in Conn : c = Head(events).by
      BY <2>2 DEF Event
    <3>1. Registers(Head(events), c) /\ pool' = [pool EXCEPT ![MachineOf[c]] = c]
      BY <2>4 DEF EvConnected, Take, insert, Registers
    <3>2. \A m \in Machine : pool'[m] = IF m = MachineOf[c] THEN c ELSE pool[m]
      BY <1>1, <3>1
    <3>3. PoolOwn'
      BY <1>1, <3>2 DEF PoolOwn
    <3>4. \A x : Head(events) # Disconnected(x)
      BY <2>3, <3>1 DEF Registers
    <3>5. ASSUME NEW x \in Conn, Dead(x)'
          PROVE  Revoked(events, x)' /\ (pool'[MachineOf[x]] = x => Notice(events, x, 0)')
      <4>1. Revoked(events, x) /\ (pool[MachineOf[x]] = x => Notice(events, x, 0))
        BY <1>1, <2>1, <3>5 DEF Noticed, Dead
      <4>2. Revoked(Tail(events), x)
        BY <1>1, <2>1, <4>1, NoticeTaken
      <4>3. pool'[MachineOf[x]] = x => x = c \/ pool[MachineOf[x]] = x
        BY <1>1, <3>2
      <4>4. x = c => Notice(Tail(events), x, 0)
        BY <1>1, <2>1, <3>1, <4>1, NoticeTaken
      <4>5. pool[MachineOf[x]] = x => Notice(Tail(events), x, 0)
        BY <1>1, <2>1, <3>4, <4>1, NoticeTaken
      <4> QED
        BY <2>1, <4>2, <4>3, <4>4, <4>5
    <3> QED
      BY <3>3, <3>5 DEF Noticed
  <2>5. CASE EvDisconnected
    <3> PICK c \in Conn : c = Head(events).by
      BY <2>2 DEF Event
    <3>1. Head(events).kind = "disconnected" /\ pool' = [pool EXCEPT ![MachineOf[c]] = NoConn]
      BY <2>5 DEF EvDisconnected, Take, remove_conn
    <3>2. \A m \in Machine : pool'[m] = IF m = MachineOf[c] THEN NoConn ELSE pool[m]
      BY <1>1, <3>1
    <3>3. PoolOwn'
      BY <1>1, <3>2 DEF PoolOwn
    <3>4. ASSUME NEW x \in Conn, Dead(x)'
          PROVE  Revoked(events, x)' /\ (pool'[MachineOf[x]] = x => Notice(events, x, 0)')
      <4>1. Revoked(events, x) /\ (pool[MachineOf[x]] = x => Notice(events, x, 0))
        BY <1>1, <2>1, <3>4 DEF Noticed, Dead
      <4>2. Revoked(Tail(events), x)
        BY <1>1, <2>1, <4>1, NoticeTaken
      <4>3. pool'[MachineOf[x]] = x => x # c /\ pool[MachineOf[x]] = x
        BY <1>1, <3>2
      <4>4. x # c /\ pool[MachineOf[x]] = x => Notice(Tail(events), x, 0)
        BY <1>1, <2>1, <2>3, <4>1, NoticeTaken
      <4> QED
        BY <2>1, <4>2, <4>3, <4>4
    <3> QED
      BY <3>3, <3>4 DEF Noticed
  <2>6. CASE EvCreated \/ EvClosedFind
    <3>1. pool' = pool /\ \A x : Head(events) # Disconnected(x)
      BY <2>3, <2>6 DEF EvCreated, EvClosedFind, Take, tableVars
    <3>2. \A x \in Conn : Dead(x)' <=> Dead(x)
      BY <2>1 DEF Dead
    <3> QED
      BY <1>1, <2>1, <3>1, <3>2, NoticeTaken DEF PoolOwn, Noticed
  <2> QED
    BY <1>5, <2>4, <2>5, <2>6
<1> QED
  BY <1>2, <1>3, <1>4, <1>5, QuietSteps

(* A dead connection that is still in the pool has its notice waiting in   *)
(* the channel, unless that notice met a full channel: whatever the order  *)
(* in which its registration, its loss and a replacement were handled.     *)
THEOREM DeadEntriesNoticed == Spec => []DeadEntryHasNotice
<1>1. NoticeInv => DeadEntryHasNotice
  <2> SUFFICES ASSUME NoticeInv, NEW m \in Machine, NEW c, c = pool[m], c \in Conn \ lost,
                      ssh[c] \in {"channel_closed", "dropped"}
               PROVE  \E i \in 1..Len(events) : events[i] = Disconnected(c)
    BY DEF DeadEntryHasNotice
  <2>1. MachineOf[c] = m /\ Dead(c)
    BY DEF NoticeInv, PoolOwn, Dead
  <2>2. Notice(events, c, 0)
    BY <2>1 DEF NoticeInv, Noticed
  <2> QED
    BY <2>2 DEF Notice
<1> QED
  BY <1>1, InitNoticeInv, NextNoticeInv, PTL DEF Spec
===============================================================================
