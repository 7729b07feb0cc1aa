# Verification of k-Terminus

k-Terminus lets a user open terminals on remote machines: an *agent* on every
machine keeps an SSH connection to the *orchestrator*, CLI and desktop clients
talk to the orchestrator over a local *IPC* socket, and the orchestrator routes
sessions between them. This directory holds TLA+ specifications of the
orchestrator, its event stream, its limits, the agent, the clients, the start of
a process and the wire format, the TLC configurations that check them and TLAPS
proofs. Paths below are relative to `src/`; `O/` stands for
`crates/kt-orchestrator/src/`.

## Inventory

| Part | State | Operations | Talks to |
| --- | --- | --- | --- |
| Session handle (`O/session/manager.rs`) | one `AtomicU64`: state and orphan time | `try_orphan`, `try_reclaim`, `try_close` | every task below holds an `Arc` of it |
| Session manager (`O/session/manager.rs`) | `DashMap` of handles, id counter | create, get, list, remove, remove by machine | shared table |
| Connection pool (`O/connection/pool.rs`) | `DashMap` machine id to connection | insert (replaces), get, list, remove | shared table |
| State coordinator (`O/coordinator.rs`) | an `RwLock<()>` around both | `atomic_disconnect` | event task |
| SSH server (`O/server/`) | one `ClientHandler` per connection: machine id, channels, command channel | register, frames to events, channel close, `Drop`; command processor task | event channel (256), command channel (256) |
| Event task (`O/main.rs`) | none of its own | the five `ConnectionEvent`s | event channel in, tables, IPC broadcast out |
| Health monitor (`O/connection/health.rs`) | none | heartbeat or eviction per connection and tick | tables, command channels |
| Orphan cleanup (`O/session/cleanup.rs`) | none | closes sessions orphaned for 30 s | tables, command channels |
| IPC server (`O/ipc/server.rs`) | per connection: authenticated, client id, owned sessions, subscriptions, rate limits | requests, event forwarding, orphaning at the end | tables, command channels, broadcast (lagging) |
| Event stream (`crates/kt-core/src/ipc.rs`) | epoch id, sequence number | wrap event, snapshot, events since | IPC server, desktop client |
| Agent (`crates/kt-agent/src/`) | PTYs, reader tasks, tunnel, backoff | create, write, resize, close, heartbeat ack, reconnect | SSH server |
| Wire protocol (`crates/kt-protocol/src/`) | decoder buffer | encode, decode | agent, SSH handler |
| Token and PID file (`crates/kt-core/src/ipc_auth.rs`, `pidfile.rs`) | two files | acquire, validate, remove | orchestrators starting and stopping |
| Tailscale verification (`crates/kt-core/src/tailscale.rs`) | cached status | verify peer | SSH authentication |
| Desktop (`apps/kt-desktop/`) | IPC client, embedded orchestrator, stores, pane layout | reconnect, gap recovery, start, stop | IPC server |
| CLI (`crates/kt-cli/src/`) | none | request and response | IPC server |

What is hard: the tables are shared by all tasks with nothing held across two
table operations; six paths may end the same session; a machine is identified
by its id in notices and removals, so an old notice may hit a new connection;
an IPC connection may end after its client is already back on another one; both
channels are bounded and some sends wait while others drop; a session's state
word is changed by lock-free compare-exchange. A slow client loses events and
must find out from sequence numbers that filters also leave gaps in. The agent
serves the tunnel and the output of its shells from one task and calls blocking
functions in it. Three programs can be the orchestrator, and agree on one of
them through two files.

What makes the parts correct:

* handle: one winner per transition, Closing is final, the grace period dates
  from the orphaning in force, a call goes round its loop only because another
  one got on;
* tables: a session id is listed once, changes state along the diagram, is
  announced closed at most once and only when it is, and never leaves the table
  unclosed;
* connections: a dead entry leaves the pool, by its notice or by the health
  monitor;
* sessions of clients: an orphan is reclaimed or removed;
* event stream: what was lost is noticed, output keeps its order, recovery ends;
* agent: the orchestrator is told of every shell that starts and ends, shells and
  output stay with their connection, delays follow the formula;
* limits: the counter is the number of connections, rates and guesses are bounded
  across the ends of windows, nobody is locked out without a reason;
* clients: an answer reaches its own request, a request acts at most once, nobody
  waits for ever;
* start: starts one after the other find each other, a crash stops nobody for good;
* wire: what was sent is what is decoded, however it was cut.

## Modules

| Module | Models | Notes |
| --- | --- | --- |
| `SessionWord` | packing of state and time | operators only |
| `SessionHandle` | one handle, any number of tasks | load and compare-exchange are separate steps |
| `Registry` | both tables, both kinds of channel | constants, variables, table operations |
| `SshServer` | handlers, command processors, agents | agent is environment |
| `EventHandler` | event task and `atomic_disconnect` | one step per table operation |
| `HealthMonitor`, `OrphanCleanup`, `IpcServer` | the other tasks | one step per table operation or send |
| `Orchestrator` | their composition, properties, fairness | `Spec`, `FairSpec` |
| `SessionLifecycle` | abstract specification of the session table | implemented by `Orchestrator` |
| `Claims` | statements of comments and docs that do not hold | see Findings |
| `EventStream` | numbering, broadcast ring, IPC connection, desktop subscriber, machines store | composes event task, IPC server and desktop |
| `Agent` | reconnect loop, backoff, event loop, PTY manager, reader threads | orchestrator and programs are environment |
| `IpcLimits` | connection limit, request rate, authentication lockout | per connection, with a clock |
| `IpcClients` | desktop's `PersistentIpcClient`, CLI requests, interactive terminal | one program against the server, chosen at the start |
| `SingleInstance` | token file, PID file, ports; daemon, CLI, desktop | one step per file operation |
| `FrameCodec` | frames over a stream, `FrameCodec::decode`, payloads | digits of radix `Radix` instead of bytes |
| `MC*` | instances for TLC | |
| `SessionHandleProofs`, `OrchestratorProofs`, `EventStreamProofs`, `AgentProofs`, `IpcLimitsProofs`, `IpcClientsProofs`, `SingleInstanceProofs`, `FrameCodecProofs` | TLAPS proofs | see Proofs |

### From the code to the model

*Granularity.* An `Arc<SessionHandle>` is shared and both tables are `DashMap`s,
so a step of a task is one table operation, one operation on a handle, or one
channel send, and anything may happen between two of them. `SessionHandle`
splits an operation on the handle further; `Orchestrator` takes each as one
step, which `WinsAlternate`, `FailureJustified` and `ClosedStaysClosed` justify:
a call takes effect at its compare-exchange or fails for a state it really
overlapped. `list()` and the collection in `remove_by_machine` are taken as
snapshots although a `DashMap` iterates shard by shard; an entry inserted or
removed during the iteration is seen or not, which the model covers by the
order of the steps, for each entry on its own.

*Channels.* The event channel and the command channels are sequences with the
capacities `EventCap` and `CmdCap`; `send().await` is a step that is not
enabled while the channel is full, `try_send` drops. A command channel whose
receiver is gone refuses (`rx`).

*Wire and agent.* The command processor, the network and the agent's loop are
one step: a command leaves the channel and has its effect, with its answer in
the event channel. A create may be refused, as when the PTY cannot be
allocated. An agent whose connection ends closes its PTYs. A handler may be
dropped at any time after authentication: russh, the network and the
cancellation of the token decide. A command written to a channel that was
closed is lost without an error (`CommandLost`).

*Time.* `now` is the wall clock in milliseconds, advancing by `TickMillis`.
Heartbeat age is the set `late`: a connection becomes late at any time, and
a recorded heartbeat takes it out.

*History variables.* `closings`, `news`, `sent`, `lost` (and `ended`, `orphans`,
`reclaims`, `since`, `seen`, `tries` in `SessionHandle`, and the field `by` of an event)
record what happened; no guard reads them.

*Event stream.* The event task changes the pool, takes a number and broadcasts in
three steps, because a snapshot may be taken in between. The ring of
`tokio::sync::broadcast` is the queue `conn.q` of the connection with `Cap`
places: a push into a full one drops the oldest and counts it in `missed`, and
the next receive tells the client `EventsDropped` with a fresh number. `read_line`
is a branch of `select!` on both sides and not cancel-safe: when another branch
wins, the first line of the socket, whatever it is, may lose its beginning
(`Tears`). What is left of a request is refused by the server or, when it is only
the end of the line, passed over (`RefuseTorn`). Machines stand for
the state that is mirrored; terminal output stands for every other event. A
restart of the orchestrator begins a new epoch with numbers from 0.
`watched` and `used` are history: `watched` tells what a machine did last while
the desktop watched, and of one that joined that it did so between the two halves
of a snapshot (`raced`), and that it is lost without a gap (`lost`): the ring then
dropped its event, or its own line was torn when `last_seen_seq` already covered
its number.

*Agent.* The main task is one process (`loop.pc`), each reader thread another
(`rd`, one per session and connection, as a reader may outlive both). A PTY has
room for `InBuf` chunks of input and `OutBuf` of output; a program that answers
reads a chunk of input as soon as its output has room. A blocking call is a
state of `loop` that waits for room. Delays are small numbers; the jitter is any
value up to its bound.

*Limits.* `Instant` is `now`; a `SYMMETRY` over peers is sound because no
temporal property is checked. `granted` and `tried` are history: running totals,
so that what a stretch of time let through is a difference. `LockoutAssumption`
says that a lockout is no shorter than the window its failures are counted in; in
the code both are 60 s.

*Clients.* `who` says which program runs: the desktop's task behind its request
channel, `kill` with several sessions, `connect` (create, subscribe, terminal)
or `attach`. The server is the loop of `handle_client`: it answers in order and
writes events between answers, and a full socket stops it. A connection breaks
anywhere, `MaxBreaks` times. `read_line` tears lines here too: a request when the
server receives an event (`TearRequest`, counted with the breaks), any line when a
key reaches the terminal (`Key`), and the line behind an answer when the CLI drops
its reader (`ReadLine`).

*Files.* A step is one operation on a file: `fs::write` truncates and then writes,
`remove_token` reads the owner and then unlinks, the PID file is read and then
removed, and a process may be killed in between. A file that is unlinked between
the two halves of a write stays gone, and the start fails at `set_permissions`;
that a third process has made a new file of the same name by then is not told apart.
A PID is alive when some process has it, whichever program that is. A server whose
token is cancelled leaves its port at once.

*Codec.* The header keeps its layout (session id, type, length) and the limit
checks; `Radix` 2 makes the 24-bit length 3 digits, so that the largest frame has
7 payload digits and the limits are met with small payloads.

*Left out.* `try_activate`, `set_orphaned_at`, `clear_orphaned`,
`try_create_with_owner` and `try_insert` have no caller in the program. An
incompatible `Register`, a second `Register` and requests that are refused
(unknown machine or session, foreign session, session already Closing) change no table.
The loopback rename of a machine, aliases, a second `Authenticate` on one
connection and the IPC request `Shutdown` (outside `SingleInstance`) are not
modelled. Nor is the panic of the log line that slices a wrong token at byte 8
(`O/ipc/server.rs:584`) when that is inside a character: the release build aborts,
and a build that unwinds would leave the connection counter raised. The session id
counter is 32 bits wide and is taken not to wrap.

## Runs

| Run | Instance | Shows |
| --- | --- | --- |
| `handle` | 2 tasks, 3 calls each, times 5, 300, 700 | safety of the handle. Three calls allow orphan, reclaim and orphan again under a slow call; the times fall into units 0, 1 and 2 |
| `orchestrator` | all tasks; 1 machine, 1 connection, 1 client connection, 1 session, channels of 1, time stands still with grace 0 | safety, refinement, and under fairness of the orchestrator's tasks removal of closing sessions, also of an agent that has stopped reading, and eviction of dead connections with notices lost |
| `churn` | 2 connections of the machine, event channel 2, no time | unclosed removals and dead entries across a reconnection |
| `clients` | 2 connections of one logical client, clock 40 and 80 s | orphaning, reclaim and expiry: no unclosed removal, orphans are resolved |
| `event_stream` | 1 machine, ring 1, socket 1, 8 numbers (a restart, a connection and a request take two each), 1 restart, 2 connections, 1 request | no silent loss, order of output, end of recovery |
| `agent` | 1 session id, 2 connections, event channel 2, output channel and PTY buffers 1, 4 failures | telling, cleanup, output, backoff; exits are reported |
| `ipc_limits` | 2 peers, room for 1, 2 requests per 2 ticks, 2 failures per 3 ticks, lockout 3, 7 ticks | counter, rate, guesses, lockout |
| `ipc_clients` | 3 requests, queue 2, sockets of 4 lines, 3 breaks | answers, at most once, termination but for torn lines and full sockets |
| `instance` | daemon, CLI, desktop, another program; 2 PIDs, 1 stop | agreement of starts that overlap neither a start nor a removal of the token, start after a crash |
| `codec` | radix 2, session ids 0 and 13, 3 frames, payloads up to the limit and beyond | decoding |
| `claim_*` | smallest instance that shows it | see Findings |

One session is enough for these properties: each speaks of one session, and
sessions interact only through the channels, whose fullness heartbeats and
notices of the other connection already provide. Capacity 1 and 2 stand for 256:
full, empty and in between all occur. In `clients` the clock starts at 40 s,
beyond the grace period of 30 s, and one step of 40 s makes an orphan expire. In
`orchestrator` every orphan has expired, since its time is rounded down, and the
cleanup task takes part without the clock. In `event_stream` a ring of 1 overruns with
the second event, and 8 numbers allow a gap, a snapshot whose two halves an event
falls between, the loss of that event, its notice and a later event; restarts,
connections and requests share the bound with the events, so that a behaviour has
many of one or some of each. One machine is enough, as a loss is noticed by numbers
alone. In `agent` one session id comes
again on the second connection while the reader of the first still runs. In
`ipc_limits` 7 ticks hold two windows and a lockout that ends. In `ipc_clients` a
socket of 4 lines can be full both ways. In `instance` two PIDs for four
processes make reuse the rule; a start that falls wholly between the read and the
unlink of a removal needs three, which is too large an instance here and covered by
the proof. Deadlock is not checked: the bounds on ids,
connections and time end every behaviour. `ChurnSpec` and `ClientSpec` restrict
which tasks run, never what a task does. `TypeOK` of `EventStream`, `IpcClients`,
`SingleInstance` and `FrameCodec` documents the types of their variables; it
holds on the same instances.

### Fairness

Every tokio task that can run does (weak fairness of the event task, the health
monitor, the cleanup task and every IPC task that is not waiting for its
client). tokio's bounded channel hands freed slots to waiting senders in order,
ahead of `try_send`: strong fairness of the two sends that wait. A cancelled
handler is dropped and an aborted processor goes away. An agent owes nothing: it
may stop taking its commands for good, as the finding about the agent's loop shows.
It then acknowledges no heartbeat, and neither does a connection whose handler is
gone, so that time makes its pool entry late (`AcksOrLate`) and the health monitor
evicts it, which is what ends the wait of a `CloseSession` for its channel. Time advances up to its bound. Nothing is assumed
of clients, of the network or of shells.

`EventStream`: the event task, the connection's task and the subscriber go on
while they can. Changes of the pool, requests, breaks and restarts owe nothing.
`Agent`: the main task goes on, and `select!`, which polls its branches in random
order, neglects neither; readers run; the health monitor's heartbeats arrive as
long as there is a connection; a program that can print goes on to read its
input. `IpcClients`: both ends run, `select!` as above, and the desktop dials
again after its pause; breaks are bounded in number. `SingleInstance`: a process
that started goes on, one that quits too.

### Findings

Statements of the repository that the code does not keep. Two are runs, and
PROJECT.json quotes the statements:

* A late disconnect notice of an agent's previous connection removes the new
  connection and its sessions (`claim_replacement`).
* Input for a shell that is blocked on its own output stops the agent's event loop
  in a blocking write. The reader of the shell waits for room in the output
  channel, only the loop makes room, and the loop does not see that the tunnel is
  gone: the agent does not reconnect (`claim_reconnects`).

The others are kept as configurations to be run by hand, each ending in its
counterexample (`tlc -config <cfg> <module>`):

| Configuration | Module | Statement | What happens |
| --- | --- | --- | --- |
| `ClaimCleanup.cfg` | `MCOrchestrator` | `O/session/cleanup.rs:3` "periodically cleans up orphaned sessions whose grace period has expired" | the task may close a session that was reclaimed after it looked |
| `ClaimReconnected.cfg` | `MCOrchestrator` | `O/ipc/server.rs:688` "This allows sessions to be reclaimed if the client reconnects within the grace period." | the late end of an old IPC connection orphans the sessions of a client that is back |
| `ClaimAbandoned.cfg` | `MCOrchestrator` | `O/ipc/server.rs:671` "Clean up sessions owned by this client when they disconnect" | a failed write leaves them Active with nobody behind them |
| `ClaimTold.cfg` | `MCOrchestrator` | `docs/ARCHITECTURE.md:352` "IPC clients are notified of session termination" | sessions of an unresponsive machine vanish without `SessionClosed` |
| `ClaimMachineGone.cfg` | `MCOrchestrator` | `SECURITY.md:122` "All sessions are properly cleaned up when a machine disconnects" | a session created across a disconnect stays: only `atomic_disconnect` takes the coordinator's lock |
| `ClaimGaps.cfg` | `MCEventStream` | `crates/kt-core/src/ipc.rs:11` "Gap detection (clients can detect missing events)" | `GetStateSnapshot` reads the number after the list: a machine that joins in between, and whose event the ring drops, or whose line is torn behind an answer with that number, makes no gap |
| `ClaimRecovery.cfg` | `MCEventStream` | `ipc_client.rs`, the client "will request a state snapshot to recover" | recovery adds what the snapshot holds and removes nothing |
| `ClaimSingleInstance.cfg` | `MCSingleInstance` | `crates/kt-core/src/pidfile.rs:3` "detect and prevent multiple orchestrator instances" | two that start together share the ports between them |
| `ClaimTokenRemoval.cfg` | `MCSingleInstance` | `crates/kt-core/src/ipc_auth.rs:264` "Only removes if we are the current owner (prevents removing another orchestrator's token)" | the owner is read first and the file unlinked afterwards: an orchestrator that writes its token in between loses it |
| `ClaimVersion.cfg` | `MCFrameCodec` | `crates/kt-protocol/src/message.rs:186` "If absent, orchestrator assumes protocol version 1.0" | a `Register` without version is encoded without the field and cannot be decoded |

`try_close` returns true to every caller, not to one winner as its doc comment
says. `ClosedOnce` shows that the removal from the table, not `try_close`, keeps
announcements single. `NotSilentlyBehind` excludes a subscriber that has stood at
number 0, which the code takes for a client that has seen nothing and looks for no
gap, and the machines of `ClaimGaps.cfg`. `ExitReported` and `TerminalEnds` name the
states in which the agent or the terminal may be stuck in a write; `TerminalEnds`
also leaves out a terminal whose `SessionClosed` was torn by a key or dropped with
the answer to Subscribe, and `DesktopAnswered` a request of which the server read all
but the end of the line before an event came. `SerialStartsAgree` leaves out starts
that overlap another start or a removal of the token. `StartsAfterCrash` names the one leftover that
does block a start: a token whose owner's PID is in use again.

## Proofs

Every safety property of the passing runs is proved for all values of the
constants; only the liveness properties are not. Each module has one inductive
invariant, or a few for properties of their own; the properties follow from it.

`SessionHandleProofs`: for every set of tasks, every set of times and every number
of calls, type correctness and the six other safety properties of the handle. The
inductive invariant `IInv` adds to them what a running call knows: it runs one of
the three operations and has seen the present state (`Started`), the word it loaded
decoded to a state the operation admits (`Loaded`), and if the word has changed
since, the call has seen a state that does not admit the operation (`Justified`).
Without the last part `FailureJustified` is not inductive: the word of a later
orphaning may differ from the loaded one although the state is the same.
`RetriesPaid` needs in addition that a call whose loaded word is out of date has one
more success to its credit than failures. `UnpackState` and `UnpackTime` say what packing and unpacking give, and the rest
follows without arithmetic.

`OrchestratorProofs`: type correctness, `ClosedOnce`, `ClosedIsGone`, the refinement
of `SessionLifecycle`, `RemovedIsClosed` and `DeadEntryHasNotice`, for every number
of machines, connections, clients and sessions and every capacity, from
`RegistryAssumption` alone.

* `TypeInv` adds to the types in which stages a task holds a machine or a connection
  (`Machines`, `IpcStages`, `HmStages`).
* `ClosedInv` adds to the first two that what the event task has removed and not
  announced is in nobody's reach (`Removing`), that a session it has looked up was
  not announced (`Found`), and that created sessions are in a state the program
  uses. The argument goes through the shapes a step may have for the session table
  (`Same`, `Turn`, `Dropped`, `Birth`, `Announcing`): `StepShape` shows that every
  action has one, `ShapeKeeps` and `ShapeRefines` reason about the shapes only.
* `RemovedInv` says of each of the tasks that whoever is about to remove a session
  has closed it (`EvClaims`, `HmClaims`, `ClClaims`, `IpcClaims`), and of the
  sessions that an agent was asked to start, or is about to be, that one off the
  table is Closing or in the hands of the event task that will close it (`Gone`);
  each is started by one client task, once (`Fresh`).
* `NoticeInv` says that behind the last registration of a dead connection in the
  event channel comes its notice, unless it was dropped, and that the pool holds a
  connection under its own machine.

`IpcLimitsProofs`: type correctness, `CounterIsConnections`, `RateHolds`,
`GuessesBounded` and `RefusedOnlyWhileLocked` for any number of peers, any limits,
windows and length of time. `CountInv` relates the counter to the stages of the
connections and bounds what the accept loop has let through. `RateInv` and
`AuthInv` are two uses of one statement about a running total and a window: nothing
was counted after the window's end, what was counted inside it is the count, and a
stretch that its start cuts holds no more than a full window in front of it
(`WindowBound`). For the guesses that is where `LockoutAssumption` is needed.

`AgentProofs`: type correctness, `NoShellLeftBehind`, `ToldWhatThereIs`,
`OutputBelongs` and `BackoffFollowsFormula` for any number of sessions and
connections, any capacities and any configuration of the backoff.
`ToldInv` is `ToldWhatThereIs` at every step of the loop, with the shells that are
gone and not yet reported set apart. It depends on the queue of events:
`CreateSession` comes at most once for a session and ahead of everything else about
it (`QueueInv`). `ChannelInv` ties the output channel and the readers of the
current connection to what was announced on it. `BackoffFollowsFormula` is inductive
by itself: capping the product of a capped delay and the multiplier caps the product
of the delay and the multiplier (`CapTwice`), which needs a multiplier that is not 0.
`PowerIs` shows that the recursive function `Power` is what its equation says; the
induction is one over least counterexamples (`LeastNat`).

`SingleInstanceProofs`: `SerialStartsAgree` for any processes, PIDs and stops.
`Alone` holds whatever races, in particular that a token whose owner lives carries
its PID; `Serial` says what it adds that no start overlaps another one or a removal:
a token about to be unlinked is the remover's own or does not parse, a process that
has steps left owns the token, nobody listens while a token is replaced, and whoever serves SSH
serves IPC or is about to.

`IpcClientsProofs`: `AnswersMatch` and `AtMostOnce` for any number of requests,
socket sizes and broken connections. `MatchInv` is the heart: a client that may
still read an answer has nothing under way but the request in its hands, except
`kill` after a failed read. `UnsentInv` and `WireInv` follow a request from the
queue to the wire and back. `DeskInv` counts the words the desktop waits for (an
answer, a refusal of what is left of a request): there is one at most, so that a
torn line is never taken for the answer to a later request.

`EventStreamProofs`: `OutputInOrder` and `NotSilentlyBehind` for any number of
machines, events, restarts, connections and requests and any sizes of ring and
socket.

* `StreamInv`: the lines that came out of the ring, the ring, the envelope in the
  hands of the event task and the next number follow each other (`Ordered`).
  `OutputInOrder` follows.
* `SideInv` has what else the second property rests on: the number of an
  EventsDropped notice is given to nothing else (`Lags`); a snapshot, the answer to
  Authenticate and last_seen_seq are never ahead of the next number; what is watched
  is in the pool and not about to be reported lost (`WatchInv`); the subscriber
  authenticates once (`UpInv`); and once past number 0 it stays past it
  (`AwakeInv`).
* `EvidenceInv` follows a machine that joined while the desktop watched. Its event
  is in the hands of the event task (`InTask`), in the ring (`InRing`) or on the
  wire (`OnWire`); or the machine is shown and no removal of it is on its way
  (`Visible`); or the ring dropped the event and the connection has still to say so
  (`LossPending`), or has said so in a line the subscriber will take for a gap
  (`LossTold`); or there is a number that the subscriber has not reached and that
  will not come any more (`GapLeft`). Each part also says that no answer on the wire
  moves the subscriber past the number in question without showing the machine.
  That needs the numbers of the notices: a notice may move last_seen_seq by one, and
  `Small` says that it then still stands before every envelope behind the lost one.
  The parts are the ways one event can go: `BroadcastEvidence`, `ForwardEvidence`,
  `TakenEvidence` and `WrittenEvidence` show how a step leads from one to the next.
  A torn line leaves `GapLeft` when its number is beyond last_seen_seq
  (`TornLeavesGap`), which is where the third exception of the property comes from.
  At rest only `Visible` and `GapLeft` are possible.

`FrameCodecProofs`: `DecodedIsSent` and type correctness for every radix from 2 on
(the code's is 256), any session ids of four digits, any messages and any number of
frames cut into any pieces.

* The operators first: four digits give back a session id and three a length up to
  `MAX_PAYLOAD_SIZE` (`SessionDigits`, `LengthDigits`), different message types have
  different codes (`CodeIs`), a header reads back as written (`HeaderReadsBack`), and
  a payload reads back as its message unless it is a `Register` without version
  (`ReadsBack`). From these, what `decode` gives for the first p bytes of a frame:
  nothing and the same bytes, nothing and the header, or the frame (`HeaderPart`,
  `PayloadPart`, `PayloadWhole`).
* `CodecInv` says where the receiver is: all frames that arrived are decoded and it
  holds exactly the part of the next one that is no longer under way, with the
  header read or not (`Waiting`), or it is in its loop and one whole frame is left
  (`Complete`). So clearing the buffer after an error never discards bytes of another
  frame. This rests on SSH never putting two frames in one piece, which the model
  takes from how both sides write.

Only model-checked are the liveness properties `ClosingIsRemoved`,
`DeadConnectionEvicted`, `OrphanResolved`, `Settles`, `ExitReported`,
`DesktopAnswered`, `TerminalEnds` and `StartsAfterCrash`: fairness and `ENABLED` are
out of the prover's reach.

The library's induction theorems take an operator as a parameter, which the installed
provers cannot instantiate; the well-foundedness of the naturals does not, and
`LeastNat` is drawn from it. No module has a `RECURSIVE` operator. `FrameCodec` writes
the places of the header's digits as products (`Place`) because the provers know
nothing of `^`, and `Agent` defines `Power` by its equation for the same reason.

## Plan

The modules above are complete for what they model, and every safety property of the
passing runs is proved. What may still be added: the refinement of further abstract
specifications, and theorems about the parts listed below once they are modelled.

## Not modelled

* The event tasks inside `k-terminus start` and the desktop beside the other tasks:
  they are shorter copies of `handle_connection_event` that remove sessions without
  `try_close`; the desktop's leaves the sessions of a lost machine. Both programs
  run no orphan cleanup. Their broadcasts are in `EventStream`, their starts in
  `SingleInstance`.
* The agent inside `k-terminus join`: a smaller copy of the agent's loop without
  reader tasks.
* Tailscale verification, pairing codes and discovery: external commands and
  answers from the network, with a short cache.
* Pane layout, tabs, themes and the other React stores and components: one thread,
  rendering.
* Configuration, setup, installation of services, output formatting, Tauri plumbing,
  host keys and SSH itself: file and process I/O, and libraries.
