------------------------------- MODULE Registry -------------------------------
(***************************************************************************)
(* The shared state of the orchestrator and the operations its tasks apply *)
(* to it: the connection pool (connection/pool.rs), the session manager    *)
(* (session/manager.rs), the per-connection command channels and the       *)
(* connection event channel.                                               *)
(*                                                                         *)
(* Both collections are DashMaps: every operation on one of them is atomic *)
(* and nothing holds across two operations.  The coordinator's RwLock is   *)
(* taken by atomic_disconnect and by nobody else, so it excludes no step   *)
(* of another task and has no variable here.  The session word moves by    *)
(* the transitions of module SessionHandle, each taken here as one step.   *)
(***************************************************************************)
EXTENDS SessionWord, Sequences, FiniteSets

CONSTANTS
  Machine,      \* machine ids
  Conn,         \* SSH connections, one element per TCP connection ever made
  MachineOf,    \* the machine id a connection authenticates as
  NoConn,       \* "the pool has no entry"
  IpcConn,      \* IPC connections of CLI and desktop clients
  Client,       \* logical client ids given in Authenticate
  ClientOf,     \* the logical id an IPC connection presents, or NoClient
  NoClient,
  MaxSession,   \* bound: session ids 1..MaxSession are handed out
  EventCap,     \* capacity of the connection event channel (256)
  CmdCap,       \* capacity of a command channel (256)
  Start,        \* the clock when the orchestrator starts (milliseconds)
  TickMillis,   \* how far one step of the clock goes
  MaxNow,       \* bound on the clock
  Grace         \* ORPHAN_GRACE_PERIOD in milliseconds

ASSUME RegistryAssumption ==
  /\ MachineOf \in [Conn -> Machine]
  /\ NoConn \notin Conn
  /\ ClientOf \in [IpcConn -> Client \cup {NoClient}]
  /\ NoClient \notin Client
  /\ MaxSession \in Nat
  /\ EventCap \in Nat \ {0} /\ CmdCap \in Nat \ {0}
  /\ Start \in Nat /\ TickMillis \in Nat \ {0} /\ MaxNow \in Nat /\ Grace \in Nat

VARIABLES
  pool,       \* ConnectionPool: the connection registered for each machine
  nextId,     \* SessionManager::next_session_id
  live,       \* the keys of SessionManager::sessions
  word,       \* the packed state word of every handle created
  meta,       \* its immutable fields machine_id and owner_client_id
  pid,        \* the handles whose pid has been set
  ssh,        \* where the handler of each SSH connection is
  late,       \* connections whose last heartbeat is older than the timeout
  cancelled,  \* connections whose CancellationToken has been cancelled
  rx,         \* connections whose command receiver still exists
  cmdq,       \* the command channels
  pty,        \* PTYs open on the agent behind each connection
  events,     \* the connection event channel
  ev,         \* the task that consumes it
  hm,         \* the health monitor task
  cl,         \* the orphan cleanup task
  ipc,        \* the task of each IPC connection
  owned,      \* its ClientState::owned_sessions
  now,        \* the wall clock
  closings,   \* history: SessionClosed broadcasts per session
  news,       \* history: the last broadcast about each session
  sent,       \* history: sessions whose creation reached a command channel
  lost        \* history: connections whose last disconnect notice was dropped

connVars  == <<ssh, late, cancelled, rx, cmdq, pty>>
tableVars == <<pool, nextId, live, word, meta, pid>>
history   == <<closings, news, sent, lost>>
vars == <<pool, nextId, live, word, meta, pid, ssh, late, cancelled, rx, cmdq,
          pty, events, ev, hm, cl, ipc, owned, now, closings, news, sent,
          lost>>

Session == 1..MaxSession

(* ClientState::effective_client_id.                                       *)
EffectiveId(k) == IF ClientOf[k] # NoClient THEN ClientOf[k] ELSE k

Owner == Client \cup IpcConn

------------------------------------------------------------------------------
(* Session manager *)

state(s) == unpack_state(word[s])

(* list_for_machine, and the ids remove_by_machine collects.               *)
SessionsOf(m) == {s \in live : meta[s].machine = m}

(* The sessions list() yields that a client id owns.                       *)
OwnedBy(id) == {s \in live : meta[s].owner = id}

(* create_with_owner: allocate the next id and insert an Active handle.    *)
create_with_owner(m, owner) ==
  /\ nextId \in Session
  /\ nextId' = nextId + 1
  /\ live' = live \cup {nextId}
  /\ word' = [word EXCEPT ![nextId] = pack_state(Active, 0)]
  /\ meta' = [meta EXCEPT ![nextId] = [machine |-> m, owner |-> owner]]
  /\ pid' = pid \ {nextId}

(* Mutant: try_close only moves a session out of Active.                   *)
try_close_ActiveOnly(s) ==
  word' = IF state(s) = Active THEN [word EXCEPT ![s] = pack_state(Closing, 0)] ELSE word

(* try_close as one step: from any state, and a no-op once Closing.        *)
try_close(s) ==
  word' = IF state(s) = Closing THEN word
          ELSE [word EXCEPT ![s] = pack_state(Closing, 0)]

(* Mutant: try_orphan does not look at the current state.                  *)
try_orphan_Forced(s, time) == word' = [word EXCEPT ![s] = pack_state(Orphaned, time)]

try_orphan(s, time) ==
  word' = IF state(s) = Active THEN [word EXCEPT ![s] = pack_state(Orphaned, time)]
          ELSE word

try_reclaim(s) ==
  word' = IF state(s) = Orphaned THEN [word EXCEPT ![s] = pack_state(Active, 0)]
          ELSE word

remove(s) == live' = live \ {s}

------------------------------------------------------------------------------
(* Connection pool *)

Pooled == {pool[m] : m \in Machine} \ {NoConn}

insert(c) == pool' = [pool EXCEPT ![MachineOf[c]] = c]

(* ConnectionPool::remove takes whatever is registered for the machine.    *)
remove_conn(m) == pool' = [pool EXCEPT ![m] = NoConn]

------------------------------------------------------------------------------
(* Channels *)

Create(s) == [cmd |-> "create", s |-> s]
Close(s)  == [cmd |-> "close", s |-> s]
Input(s)  == [cmd |-> "input", s |-> s]   \* SessionInput, SessionResize
Heartbeat == [cmd |-> "heartbeat", s |-> 0]

Command == [cmd : {"create", "close", "input", "heartbeat"}, s : 0..MaxSession]

CanSend(c) == rx[c] /\ Len(cmdq[c]) < CmdCap

(* command_tx.try_send: dropped when the channel is full or closed.        *)
try_send(c, command) ==
  cmdq' = IF CanSend(c) THEN [cmdq EXCEPT ![c] = Append(@, command)] ELSE cmdq

(* The event records carry the connection that raised them: MachineId is   *)
(* all the code sends with MachineDisconnected; "by" is history.           *)
Connected(c)    == [kind |-> "connected", by |-> c, s |-> 0]
Disconnected(c) == [kind |-> "disconnected", by |-> c, s |-> 0]
Created(c, s)   == [kind |-> "created", by |-> c, s |-> s]
Closed(c, s)    == [kind |-> "closed", by |-> c, s |-> s]

Event == [kind : {"connected", "disconnected", "created", "closed"},
          by : Conn, s : 0..MaxSession]

(* Mutant: an unbounded channel.                                           *)
SendEvent_Unbounded(e) == events' = Append(events, e)

(* event_tx.send().await: the sender waits while the channel is full.      *)
SendEvent(e) ==
  /\ Len(events) < EventCap
  /\ events' = Append(events, e)

(* event_tx.try_send: the event is lost when the channel is full.          *)
TrySendEvent(e) ==
  events' = IF Len(events) < EventCap THEN Append(events, e) ELSE events
===============================================================================
