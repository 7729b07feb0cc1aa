----------------------------- MODULE Orchestrator -----------------------------
(***************************************************************************)
(* The orchestrator daemon: the SSH handlers, the connection event task,   *)
(* the health monitor, the orphan cleanup task and the IPC client tasks,   *)
(* interleaved step by step over the shared tables of module Registry.     *)
(***************************************************************************)
EXTENDS SshServer, EventHandler, HealthMonitor, OrphanCleanup, IpcServer

TableInit ==
  /\ pool = [m \in Machine |-> NoConn]
  /\ nextId = 1
  /\ live = {}
  /\ word = [s \in Session |-> 0]
  /\ meta = [s \in Session |-> [machine |-> NoConn, owner |-> NoClient]]
  /\ pid = {}

Init ==
  /\ TableInit
  /\ SshInit
  /\ EvInit
  /\ HmInit
  /\ ClInit
  /\ IpcInit
  /\ now = Start

(* The wall clock advances.                                                *)
Tick ==
  /\ now + TickMillis <= MaxNow
  /\ now' = now + TickMillis
  /\ UNCHANGED <<tableVars, connVars, events, ev, hm, cl, ipc, owned, history>>

Next == SshNext \/ EvNext \/ HmNext \/ ClNext \/ IpcNext \/ Tick

Spec == Init /\ [][Next]_vars

(* Every task of the runtime keeps running, and a cancelled or aborted     *)
(* task goes away.  Clients, networks, machines and agents owe nothing: an *)
(* agent may stop taking its commands for good.  It then acknowledges no   *)
(* heartbeat either, so time makes its pool entry late (AcksOrLate).  A    *)
(* bounded tokio channel gives freed slots to the senders that wait, in    *)
(* order, before try_send can take them: strong fairness for the awaited   *)
(* sends.                                                                  *)
AcksOrLate(c) == c \in Pooled \ late /\ (AgentNext(c) \/ GoesLate(c))

Fairness ==
  /\ WF_vars(EvNext)
  /\ WF_vars(HmNext)
  /\ WF_vars(ClNext)
  /\ WF_vars(Tick)
  /\ \A k \in IpcConn :
       /\ WF_vars(IpcProgress(k))
       /\ SF_vars(CreateSend(k) \/ InputSend(k) \/ CloseSend(k))
  /\ \A c \in Conn :
       /\ WF_vars(AcksOrLate(c))
       /\ WF_vars(ProcessorEnds(c))
       /\ WF_vars(c \in cancelled /\ HandlerDrop(c))

FairSpec == Spec /\ Fairness

------------------------------------------------------------------------------
TypeOK ==
  /\ pool \in [Machine -> Conn \cup {NoConn}]
  /\ nextId \in 1..(MaxSession + 1)
  /\ live \subseteq 1..(nextId - 1)
  /\ word \in [Session -> Nat]
  /\ meta \in [Session -> [machine : Machine \cup {NoConn}, owner : Owner \cup {NoClient}]]
  /\ pid \subseteq Session
  /\ ssh \in [Conn -> Handler]
  /\ late \subseteq Conn
  /\ cancelled \subseteq Conn
  /\ rx \in [Conn -> BOOLEAN]
  /\ cmdq \in [Conn -> Seq(Command)]
  /\ pty \in [Conn -> SUBSET (0..MaxSession)]
  /\ events \in Seq(Event) /\ Len(events) <= EventCap
  /\ ev \in EvTask
  /\ hm \in HmTask
  /\ cl \in ClTask
  /\ ipc \in [IpcConn -> IpcTask]
  /\ owned \in [IpcConn -> SUBSET Session]
  /\ now \in Nat
  /\ closings \in [Session -> Nat]
  /\ news \in [Session -> {"none", "created", "closed"}]
  /\ sent \subseteq Session
  /\ lost \subseteq Conn

(* The closing of a session is broadcast at most once, although the agent's *)
(* report, the loss of its machine, the health monitor, the cleanup task    *)
(* and the client's own CloseSession all race to end it, and try_close      *)
(* tells each of them that it succeeded.                                    *)
ClosedOnce == \A s \in Session : closings[s] <= 1

(* A broadcast closing is true for good: the session is off the table and   *)
(* its handle is Closing, so nobody who still holds the handle revives it.  *)
ClosedIsGone == \A s \in Session : closings[s] > 0 => s \notin live /\ state(s) = Closing

(* No session that an agent was asked to start leaves the table unclosed:   *)
(* its handle is Closing by then, or the event task is about to close it.   *)
RemovedIsClosed ==
  \A s \in sent \ live : state(s) = Closing \/ s \in ev.removed

(* While the event channel has not overflowed, a dead connection that is    *)
(* still in the pool has its disconnect notice waiting in the channel: the  *)
(* entry will be taken out without the health monitor.                      *)
DeadEntryHasNotice ==
  \A m \in Machine :
    LET c == pool[m]
    IN c \in Conn \ lost /\ ssh[c] \in {"channel_closed", "dropped"}
         => \E i \in 1..Len(events) : events[i] = Disconnected(c)

(* The detailed specification implements the lifecycle contract.            *)
Unborn == 4   \* no session state

St == [s \in Session |-> IF s < nextId THEN state(s) ELSE Unborn]

Lifecycle ==
  INSTANCE SessionLifecycle WITH st <- St, listed <- live, announced <- closings

ImplementsLifecycle == Lifecycle!Spec

(* A session moved to Closing does leave the table, whoever moved it, even  *)
(* when its agent has stopped taking commands and CloseSession waits for    *)
(* room in a full command channel (server.rs sets no timeout there): the    *)
(* health monitor then evicts the agent and removes the session.            *)
ClosingIsRemoved ==
  \A s \in Session : (s \in live /\ state(s) = Closing) ~> (s \notin live)

(* A connection whose handler is gone does leave the pool, even when the    *)
(* notice sent by Drop was lost (handler.rs: "if channel is full, the       *)
(* health monitor will eventually clean up the stale connection").          *)
DeadConnectionEvicted ==
  \A c \in Conn : (ssh[c] = "dropped" /\ pool[MachineOf[c]] = c)
                    ~> (pool[MachineOf[c]] # c)

(* An orphaned session that can expire within the bound on the clock is     *)
(* reclaimed or removed: the table does not fill up with orphans.           *)
OrphanResolved ==
  \A s \in Session :
    (s \in live /\ state(s) = Orphaned /\ unpack_orphaned_at(word[s]) + Grace < MaxNow)
      ~> (s \notin live \/ state(s) # Orphaned)
===============================================================================
