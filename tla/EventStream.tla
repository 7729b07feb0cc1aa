------------------------------ MODULE EventStream ------------------------------
(***************************************************************************)
(* The event stream of the orchestrator and the desktop application that   *)
(* mirrors it.  The event task numbers events and broadcasts them; the     *)
(* IPC connection of the desktop's event subscriber forwards them through  *)
(* a bounded ring, a filter and a socket; the subscriber looks for gaps in *)
(* the numbers and asks for a snapshot; the frontend keeps the set of      *)
(* machines.  The orchestrator may restart and the connection may break.   *)
(* Sessions are not tracked here: their events are numbered, and terminal  *)
(* output stands for every event that changes no machine.                  *)
(***************************************************************************)
EXTENDS Naturals, Sequences, FiniteSets

CONSTANTS Machine,    \* machine ids
          NoMachine,  \* no machine id: events about none
          Cap,        \* IPC_EVENT_CHANNEL_CAPACITY
          WireCap,    \* lines the socket holds before the server's write waits
          MaxSeq,     \* bound: numbers given out
          MaxEpoch,   \* bound: restarts of the orchestrator
          MaxConns,   \* bound: connections of the subscriber
          MaxReqs     \* bound: Subscribe and Unsubscribe requests of the panes

ASSUME EventStreamAssumption ==
  /\ NoMachine \notin Machine
  /\ {Cap, WireCap} \subseteq Nat \ {0}
  /\ {MaxSeq, MaxEpoch, MaxConns, MaxReqs} \subseteq Nat

VARIABLES
  epoch,   \* StateEpoch::epoch_id, counting restarts
  seq,     \* StateEpoch::sequence
  live,    \* the machines in the connection pool
  task,    \* the event task: its pc and the event in its hands
  conn,    \* the server's side of the subscriber's connection
  up,      \* lines on their way to the server
  down,    \* lines on their way to the subscriber
  sub,     \* EventSubscriber: pc, last_seen_seq, needs_recovery
  ui,      \* the frontend: machines store, initial fetch, last output shown
  watched, \* history: what each machine did last while the desktop was watching;
           \* raced: it joined between the two halves of a snapshot, lost: and then
           \* the ring dropped its envelope, or its line was torn and left no gap
  used     \* history: connections and requests used up; blind: last_seen_seq was 0

vars == <<epoch, seq, live, task, conn, up, down, sub, ui, watched, used>>

Kind == {"connected", "disconnected", "output", "dropped"}
Envelope == [seq : Nat, kind : Kind, m : Machine \cup {NoMachine}]
Idle == [pc |-> "idle", kind |-> "output", m |-> NoMachine, seq |-> 0]
NotWatched == [m \in Machine |-> "no"]
NoConnection == [st |-> "none", q |-> <<>>, missed |-> 0, subscribed |-> FALSE, listing |-> FALSE, listed |-> {}]

Init ==
  /\ epoch = 0 /\ seq = 0 /\ live = {} /\ task = Idle
  /\ conn = NoConnection /\ up = <<>> /\ down = <<>>
  /\ sub = [pc |-> "off", last |-> 0, need |-> FALSE]
  /\ ui = [machines |-> {}, fetch |-> "no", list |-> {}, out |-> 0]
  /\ watched = NotWatched /\ used = [conns |-> 0, reqs |-> 0, blind |-> FALSE]

(* read_line is a branch of select! on either side: when another branch    *)
(* wins, the part of the line that it had read is lost, and the rest of    *)
(* that line is no message.                                                *)
Tears(lines, rest) == {lines} \cup {<<rest>> \o Tail(ls) : ls \in {lines} \ {<<>>}}

-----------------------------------------------------------------------------
(* The event task: change the pool, wrap the event, broadcast it.          *)

(* Bound: a restart, a connection and a request each use up two of the     *)
(* MaxSeq numbers.                                                         *)
Spent == seq + 2 * (epoch + used.conns + used.reqs)
MoreEvents == Spent < MaxSeq

(* The pool changes first; the frontend, if it is up, should follow.       *)
PoolChange(kind, m, pool, news) ==
  /\ task.pc = "idle" /\ MoreEvents
  /\ live' = pool
  /\ task' = [Idle EXCEPT !.pc = "wrap", !.m = m, !.kind = kind]
  /\ watched' = [watched EXCEPT ![m] = IF conn.st = "auth" /\ ui.fetch = "done" THEN news ELSE "no"]
  /\ UNCHANGED <<epoch, seq, conn, up, down, sub, ui, used>>

(* MachineConnected, also of a machine that was connected ...              *)
MachineConnected(m) ==
  PoolChange("connected", m, live \cup {m}, IF conn.listing THEN "raced" ELSE "joined")

(* ... and MachineDisconnected, also of one that was not: channel_close    *)
(* and the drop of the handler both report it.                             *)
MachineDisconnected(m) == PoolChange("disconnected", m, live \ {m}, "left")

(* SessionData: an event without a change of the pool.                     *)
SessionData ==
  /\ task.pc = "idle" /\ MoreEvents
  /\ task' = [Idle EXCEPT !.pc = "wrap"]
  /\ UNCHANGED <<epoch, seq, live, conn, up, down, sub, ui, watched, used>>

(* StateEpoch::wrap_event: fetch_add of the sequence.                      *)
wrap_event ==
  /\ task.pc = "wrap"
  /\ task' = [task EXCEPT !.pc = "send", !.seq = seq]
  /\ seq' = seq + 1
  /\ UNCHANGED <<epoch, live, conn, up, down, sub, ui, watched, used>>

(* broadcast::Sender::send: a receiver that is a whole ring behind loses   *)
(* its oldest envelope, and will be told how many it lost.                 *)
Push(c, e) ==
  IF Len(c.q) < Cap THEN [c EXCEPT !.q = Append(@, e)]
  ELSE [c EXCEPT !.q = Append(Tail(@), e), !.missed = @ + 1]

(* History: the ring drops the envelope of a machine that connected while  *)
(* a snapshot was being put together.                                      *)
Overrun(m) ==
  /\ conn.st \in {"open", "auth"} /\ Len(conn.q) = Cap
  /\ Head(conn.q).m = m /\ Head(conn.q).kind = "connected" /\ watched[m] = "raced"

Broadcast ==
  /\ task.pc = "send"
  /\ conn' = IF conn.st \in {"open", "auth"}
             THEN Push(conn, [seq |-> task.seq, kind |-> task.kind, m |-> task.m]) ELSE conn
  /\ task' = Idle
  /\ watched' = [m \in Machine |-> IF Overrun(m) THEN "lost" ELSE watched[m]]
  /\ UNCHANGED <<epoch, seq, live, up, down, sub, ui, used>>

-----------------------------------------------------------------------------
(* The server's side of the connection: handle_client.                     *)

(* A write waits while the socket is full.                                 *)
Writable == Len(down) < WireCap

(* Authenticate answers with the number to be given out next (and with the *)
(* epoch).  The receiver was subscribed when the connection was accepted.  *)
Authenticate ==
  /\ conn.st \in {"open", "auth"} /\ ~conn.listing
  /\ up # <<>> /\ Head(up) = "authenticate" /\ Writable
  /\ conn' = [conn EXCEPT !.st = "auth"]
  /\ up' = Tail(up)
  /\ down' = Append(down, [t |-> "authenticated", seq |-> seq])
  /\ UNCHANGED <<epoch, seq, live, task, sub, ui, watched, used>>

(* Subscribe and Unsubscribe; Subscribe fails when the session is not in   *)
(* the table or belongs to another client.                                 *)
Subscription ==
  /\ conn.st = "auth" /\ ~conn.listing
  /\ up # <<>> /\ Head(up) \in {"subscribe", "unsubscribe"} /\ Writable
  /\ \E found \in BOOLEAN :
       conn' = [conn EXCEPT !.subscribed =
                  IF Head(up) = "unsubscribe" THEN FALSE ELSE found \/ @]
  /\ up' = Tail(up)
  /\ down' = Append(down, [t |-> "response"])
  /\ UNCHANGED <<epoch, seq, live, task, sub, ui, watched, used>>

(* What is left of a torn request is refused, or passed over when it is    *)
(* only the end of the line.                                               *)
RefuseTorn ==
  /\ conn.st \in {"open", "auth"} /\ ~conn.listing
  /\ up # <<>> /\ Head(up) = "torn"
  /\ up' = Tail(up)
  /\ UNCHANGED down \/ (Writable /\ down' = Append(down, [t |-> "response"]))
  /\ UNCHANGED <<epoch, seq, live, task, conn, sub, ui, watched, used>>

(* GetStateSnapshot lists the pool first and reads the sequence later;     *)
(* the event task may run in between.                                      *)
SnapshotList ==
  /\ conn.st = "auth" /\ ~conn.listing
  /\ up # <<>> /\ Head(up) = "snapshot"
  /\ conn' = [conn EXCEPT !.listing = TRUE, !.listed = live]
  /\ up' = Tail(up)
  /\ UNCHANGED <<epoch, seq, live, task, down, sub, ui, watched, used>>

SnapshotReply ==
  /\ conn.st = "auth" /\ conn.listing /\ Writable
  /\ down' = Append(down, [t |-> "snapshot", seq |-> seq, machines |-> conn.listed])
  /\ conn' = [conn EXCEPT !.listing = FALSE, !.listed = {}]
  /\ UNCHANGED <<epoch, seq, live, task, up, sub, ui, watched, used>>

(* ClientState::should_receive_event: output only to subscribers.          *)
should_receive_event(e) == e.kind = "output" => conn.subscribed

(* Mutant: the envelope stays in the ring.                                 *)
ForwardEvent_Again ==
  /\ conn.st = "auth" /\ ~conn.listing
  /\ conn.missed = 0 /\ conn.q # <<>> /\ Writable
  /\ LET e == Head(conn.q)
     IN down' = Append(down, [t |-> "event", seq |-> e.seq, kind |-> e.kind, m |-> e.m])
  /\ UNCHANGED <<epoch, seq, live, task, conn, up, sub, ui, watched, used>>

(* event_rx.recv: an envelope is forwarded to an authenticated client that *)
(* should receive it; otherwise it is consumed in silence.  A request half *)
(* read is torn.                                                           *)
ForwardEvent ==
  /\ conn.st \in {"open", "auth"} /\ ~conn.listing
  /\ conn.missed = 0 /\ conn.q # <<>>
  /\ LET e == Head(conn.q)
         wanted == conn.st = "auth" /\ should_receive_event(e)
     IN /\ wanted => Writable
        /\ down' = IF wanted
                   THEN Append(down, [t |-> "event", seq |-> e.seq, kind |-> e.kind, m |-> e.m])
                   ELSE down
  /\ conn' = [conn EXCEPT !.q = Tail(@)]
  /\ up' \in Tears(up, "torn")
  /\ UNCHANGED <<epoch, seq, live, task, sub, ui, watched, used>>

(* RecvError::Lagged: EventsDropped takes a number of its own and goes to  *)
(* this client only, ahead of what is left in the ring.                    *)
Lagged ==
  /\ conn.st \in {"open", "auth"} /\ ~conn.listing
  /\ conn.missed > 0
  /\ conn.st = "auth" => Writable
  /\ IF conn.st = "auth"
     THEN /\ down' = Append(down, [t |-> "event", seq |-> seq, kind |-> "dropped", m |-> NoMachine])
          /\ seq' = seq + 1
     ELSE UNCHANGED <<down, seq>>
  /\ conn' = [conn EXCEPT !.missed = 0]
  /\ up' \in Tears(up, "torn")
  /\ UNCHANGED <<epoch, live, task, sub, ui, watched, used>>

(* The connection breaks; what was written may still be read.              *)
Break ==
  /\ conn.st \in {"open", "auth"}
  /\ conn' = [NoConnection EXCEPT !.st = "closed"]
  /\ up' = <<>> /\ watched' = NotWatched
  /\ UNCHANGED <<epoch, seq, live, task, down, sub, ui, used>>

(* The orchestrator restarts: a new epoch, numbers from 0, an empty pool.  *)
Restart ==
  /\ epoch < MaxEpoch /\ Spent + 2 <= MaxSeq
  /\ epoch' = epoch + 1 /\ seq' = 0 /\ live' = {} /\ task' = Idle
  /\ conn' = [NoConnection EXCEPT !.st = IF conn.st = "none" THEN "none" ELSE "closed"]
  /\ up' = <<>> /\ watched' = NotWatched
  /\ UNCHANGED <<down, sub, ui, used>>

-----------------------------------------------------------------------------
(* The desktop's EventSubscriber: event_loop.                              *)

Connect ==
  /\ sub.pc = "off" /\ conn.st = "none"
  /\ used.conns < MaxConns /\ Spent + 2 <= MaxSeq
  /\ conn' = [NoConnection EXCEPT !.st = "open"]
  /\ up' = <<"authenticate">> /\ down' = <<>>
  /\ sub' = [sub EXCEPT !.pc = "authing", !.need = FALSE]
  /\ used' = [used EXCEPT !.conns = @ + 1, !.blind = FALSE]
  /\ ui' = [ui EXCEPT !.out = 0]
  /\ UNCHANGED <<epoch, seq, live, task, watched>>

Received(t) == down # <<>> /\ Head(down).t = t /\ down' = Tail(down)

(* The first line: a new epoch_id resets last_seen_seq, and the number of  *)
(* the answer overwrites it in either case, so that the subscriber's       *)
(* epoch_id decides nothing and is left out.                               *)
ReadAuthenticated ==
  /\ sub.pc = "authing" /\ Received("authenticated")
  /\ sub' = [sub EXCEPT !.pc = "ready", !.last = Head(down).seq]
  /\ used' = [used EXCEPT !.blind = sub'.last = 0]
  /\ UNCHANGED <<epoch, seq, live, task, conn, up, ui, watched>>

(* Any other answer, here the refusal of a torn Authenticate: back to the  *)
(* outer loop, which drops the connection.                                 *)
AuthenticationFailed ==
  /\ sub.pc = "authing" /\ Received("response")
  /\ sub' = [sub EXCEPT !.pc = "off"]
  /\ conn' = NoConnection
  /\ up' = <<>>
  /\ watched' = NotWatched
  /\ UNCHANGED <<epoch, seq, live, task, ui, used>>

(* Mutant: one missing number is tolerated.                                *)
IsGap_OffByOne(n) == n > sub.last + 2 /\ sub.last > 0

(* process_envelope: a gap unless the number is at most the next one, or   *)
(* nothing was seen yet.                                                   *)
IsGap(n) == n > sub.last + 1 /\ sub.last > 0

(* The machines store: addMachine ignores a machine it has, removeMachine  *)
(* one it has not.                                                         *)
addMachine(u, m) == [u EXCEPT !.machines = @ \cup {m}]
removeMachine(u, m) == [u EXCEPT !.machines = @ \ {m}]

(* forward_events hands each event to the frontend under its own name;     *)
(* nothing in the frontend listens for EventsDropped.                      *)
forward_events(u, e) ==
  CASE e.kind = "connected"    -> addMachine(u, e.m)
    [] e.kind = "disconnected" -> removeMachine(u, e.m)
    [] e.kind = "output"       -> [u EXCEPT !.out = e.seq + 1]
    [] OTHER                   -> u

(* An event line, passed on through forward_events to the frontend.  The   *)
(* line that reveals a gap is not passed on.                               *)
ReadEvent ==
  /\ sub.pc = "ready" /\ ~sub.need /\ Received("event")
  /\ LET e == Head(down) IN
       IF IsGap(e.seq)
       THEN sub' = [sub EXCEPT !.need = TRUE] /\ UNCHANGED ui
       ELSE sub' = [sub EXCEPT !.last = e.seq] /\ ui' = forward_events(ui, e)
  /\ used' = [used EXCEPT !.blind = @ \/ sub'.last = 0]
  /\ UNCHANGED <<epoch, seq, live, task, conn, up, watched>>

(* Mutant: needs_recovery stays set.                                       *)
RequestSnapshot_Forever ==
  /\ sub.pc = "ready" /\ sub.need
  /\ up' = IF conn.st = "auth" /\ up = <<>> THEN <<"snapshot">> ELSE up
  /\ UNCHANGED <<epoch, seq, live, task, conn, down, sub, ui, watched, used>>

(* needs_recovery, at the head of the loop: ask for a snapshot.  Requests  *)
(* are shorter than the events that cause them: the socket takes them.     *)
RequestSnapshot ==
  /\ sub.pc = "ready" /\ sub.need
  /\ sub' = [sub EXCEPT !.need = FALSE]
  /\ up' = IF conn.st = "auth" THEN Append(up, "snapshot") ELSE up
  /\ UNCHANGED <<epoch, seq, live, task, conn, down, ui, watched, used>>

(* StateSnapshot: MachineConnected is raised for each machine of it;       *)
(* nothing is taken away.                                                  *)
ReadSnapshot ==
  /\ sub.pc = "ready" /\ ~sub.need /\ Received("snapshot")
  /\ sub' = [sub EXCEPT !.last = Head(down).seq]
  /\ ui' = [ui EXCEPT !.machines = @ \cup Head(down).machines]
  /\ UNCHANGED <<epoch, seq, live, task, conn, up, watched, used>>

ReadOther ==
  /\ sub.pc = "ready" /\ ~sub.need /\ (Received("response") \/ Received("torn"))
  /\ UNCHANGED <<epoch, seq, live, task, conn, up, sub, ui, watched, used>>

(* History: the line of a machine that connected is torn, and its number   *)
(* is not beyond the last one seen, so that its loss leaves no gap.        *)
Swallowed(l, m) ==
  /\ l.t = "event" /\ l.kind = "connected" /\ l.m = m
  /\ l.seq <= sub.last /\ watched[m] \in {"joined", "raced"}

(* A pane mounts or unmounts and its request is sent: select! drops the    *)
(* read_line in progress.                                                  *)
SendRequest ==
  /\ sub.pc = "ready" /\ ~sub.need /\ used.reqs < MaxReqs /\ Spent + 2 <= MaxSeq
  /\ \E r \in {"subscribe", "unsubscribe"} :
       up' = IF conn.st = "auth" THEN Append(up, r) ELSE up
  /\ down' \in Tears(down, [t |-> "torn"])
  /\ watched' = [m \in Machine |-> IF down' # down /\ Swallowed(Head(down), m) THEN "lost"
                                   ELSE watched[m]]
  /\ used' = [used EXCEPT !.reqs = @ + 1]
  /\ UNCHANGED <<epoch, seq, live, task, conn, sub, ui>>

(* End of file after the last line: back to the outer loop.                *)
Disconnected ==
  /\ sub.pc \in {"authing", "ready"} /\ conn.st = "closed" /\ down = <<>>
  /\ sub' = [sub EXCEPT !.pc = "off", !.need = FALSE]
  /\ conn' = NoConnection
  /\ UNCHANGED <<epoch, seq, live, task, up, down, ui, watched, used>>

-----------------------------------------------------------------------------
(* The frontend's fetchInitialData, over the other connection: the list is *)
(* taken by the server, and replaces the store when the answer arrives.    *)
FetchTaken ==
  /\ ui.fetch = "no"
  /\ ui' = [ui EXCEPT !.fetch = "taken", !.list = live]
  /\ UNCHANGED <<epoch, seq, live, task, conn, up, down, sub, watched, used>>

setMachines ==
  /\ ui.fetch = "taken"
  /\ ui' = [ui EXCEPT !.fetch = "done", !.list = {}, !.machines = ui.list]
  /\ UNCHANGED <<epoch, seq, live, task, conn, up, down, sub, watched, used>>

-----------------------------------------------------------------------------
ServerStep ==
  Authenticate \/ Subscription \/ RefuseTorn \/ SnapshotList \/ SnapshotReply \/ ForwardEvent \/ Lagged
SubscriberStep ==
  Connect \/ ReadAuthenticated \/ AuthenticationFailed \/ ReadEvent \/ RequestSnapshot \/ ReadSnapshot \/ ReadOther
    \/ Disconnected

Next ==
  \/ \E m \in Machine : MachineConnected(m) \/ MachineDisconnected(m)
  \/ SessionData \/ wrap_event \/ Broadcast
  \/ ServerStep \/ Break \/ Restart
  \/ SubscriberStep \/ SendRequest
  \/ FetchTaken \/ setMachines

(* The runtime polls ready tasks: as long as the event task, the           *)
(* connection, the subscriber or the frontend's promise can take a step,   *)
(* one of them does.  New events, faults and the user's requests are left  *)
(* to chance.                                                              *)
Fairness ==
  WF_vars(wrap_event \/ Broadcast \/ ServerStep \/ SubscriberStep \/ FetchTaken \/ setMachines)

Spec == Init /\ [][Next]_vars /\ Fairness

-----------------------------------------------------------------------------
(* Every variable has its type; the ring and the socket keep their bounds. *)
TypeOK ==
  /\ epoch \in 0..MaxEpoch /\ seq \in Nat /\ live \subseteq Machine
  /\ task \in [pc : {"idle", "wrap", "send"}, kind : Kind, m : Machine \cup {NoMachine}, seq : Nat]
  /\ conn.st \in {"none", "open", "auth", "closed"}
  /\ conn.q \in Seq(Envelope) /\ Len(conn.q) <= Cap /\ conn.missed \in Nat
  /\ conn.listed \subseteq Machine
  /\ up \in Seq({"authenticate", "subscribe", "unsubscribe", "snapshot", "torn"}) /\ Len(down) <= WireCap
  /\ sub.pc \in {"off", "authing", "ready"} /\ sub.last \in Nat
  /\ ui.machines \subseteq Machine /\ watched \in [Machine -> {"no", "joined", "raced", "lost", "left"}]

(* Nothing is on its way from the event task to the frontend.              *)
AtRest ==
  /\ task.pc = "idle" /\ conn.st = "auth" /\ ~conn.listing
  /\ conn.q = <<>> /\ conn.missed = 0 /\ up = <<>> /\ down = <<>>
  /\ sub.pc = "ready" /\ ~sub.need /\ ui.fetch = "done"

Joined == {m \in Machine : watched[m] \in {"joined", "raced"}}
Left == {m \in Machine : watched[m] = "left"}

(* kt-core/src/ipc.rs: "Gap detection (clients can detect missing events)" *)
(* and state recovery: whatever the ring dropped, the filter left out or a *)
(* torn line swallowed, a machine that connected while the desktop was     *)
(* watching is shown once everything has been delivered, or the subscriber *)
(* is so far behind that the next number will look like a gap.             *)
MissingIsNoticed ==
  AtRest => Joined \subseteq ui.machines \/ sub.last + 1 < seq

(* The same, of a subscriber that has never stood at number 0, which      *)
(* process_envelope takes for "nothing seen yet".  Two machines are left   *)
(* out, see GapsDetected: one that joined between the two halves of        *)
(* GetStateSnapshot and whose envelope the ring then dropped, and one      *)
(* whose own line was torn when its number was not beyond last_seen_seq.   *)
NotSilentlyBehind ==
  ~used.blind => MissingIsNoticed

(* kt-core/src/ipc.rs: "Gap detection (clients can detect missing events)" *)
(* of every envelope: GetStateSnapshot reads the number after the list,    *)
(* and what the ring drops of the numbers in between makes no gap; the     *)
(* number of the answer overwrites last_seen_seq, and a line behind it     *)
(* whose number it covers can be torn without a gap.                       *)
GapsDetected ==
  AtRest /\ ~used.blind =>
    (\A m \in Machine : watched[m] = "lost" => m \in ui.machines) \/ sub.last + 1 < seq

(* ipc_client.rs: "If a gap is detected, the client will request a state   *)
(* snapshot to recover": a machine that left while the desktop was         *)
(* watching is not shown any more once everything has been delivered, or   *)
(* the next number will look like a gap.                                   *)
RecoveryPrunes ==
  AtRest /\ ~used.blind => Left \cap ui.machines = {} \/ sub.last + 1 < seq

(* process_envelope accepts numbers it has passed, so nothing in the       *)
(* subscriber rejects a repeated or late envelope: within a connection     *)
(* terminal output is shown in the order it was produced, none twice.      *)
OutputInOrder ==
  [][ReadEvent /\ ~sub'.need /\ Head(down).kind = "output" => Head(down).seq >= ui.out]_vars

(* Recovery ends: filtered events and EventsDropped notices of others make *)
(* gaps of their own and every gap asks for a snapshot, but once events,   *)
(* faults and requests stop, so does the exchange.                         *)
Settles == <>[](sub.pc = "off" \/ (~sub.need /\ up = <<>> /\ down = <<>>))
===============================================================================
