--------------------------------- MODULE Agent ---------------------------------
(***************************************************************************)
(* kt-agent: the reconnect loop with its backoff, the event loop that      *)
(* serves the orchestrator's tunnel and the output of the shells, the PTY  *)
(* manager and one blocking reader thread per PTY.  The orchestrator and   *)
(* the programs in the shells are the environment.  A PTY is two bounded   *)
(* buffers: the input the program has not read and the output the reader   *)
(* has not read; what is in them is counted, not kept.                     *)
(***************************************************************************)
EXTENDS Naturals, Sequences, FiniteSets, FiniteSetsExt

CONSTANTS Session,                        \* session ids of one orchestrator
          Initial, MaxDelay, Multiplier,  \* BackoffConfig: initial, max, multiplier
          Jitter,                         \* BackoffConfig: jitter, as 1 in Jitter of the delay
          EventCap,                       \* TUNNEL_EVENT_CHANNEL_CAPACITY
          OutputCap,                      \* capacity of the PTY output channel
          InBuf, OutBuf,                  \* what a PTY buffers in each direction
          MaxConns,                       \* bound: connections established
          MaxFails                        \* bound: failed attempts in a row

ASSUME AgentAssumption ==
  /\ {EventCap, OutputCap, InBuf, OutBuf, Initial, Multiplier, Jitter} \subseteq Nat \ {0}
  /\ {MaxConns, MaxFails} \subseteq Nat
  /\ MaxDelay \in Nat /\ Initial <= MaxDelay

VARIABLES
  loop,     \* the main task: its pc, the session in hand, those to finish
  backoff,  \* ExponentialBackoff of the current connect_with_retry
  tun,      \* the tunnel: still up, registered, the events not yet received
  pty,      \* PtyManager::sessions: the shell of each session and its input
  rd,       \* the reader thread of each session of each connection
  chan,     \* the PTY output channel of the current connection
  wire,     \* history: what was sent on the current connection
  told      \* history: the last thing the orchestrator was told of a session

vars == <<loop, backoff, tun, pty, rd, chan, wire, told>>

Gen == 0..MaxConns
NoReader == [st |-> "none", out |-> 0, cancelled |-> FALSE]
NoPty == [st |-> "none", inb |-> 0]
NoTunnel == [up |-> FALSE, reg |-> FALSE, q |-> <<>>]
NotTold == [s \in Session |-> "nothing"]
Kind == {"accepted", "rejected", "create", "data", "resize", "close", "heartbeat", "disconnected"}
Event == [t : Kind, s : SUBSET Session]

(* ExponentialBackoff::from_config                                         *)
from_config == [current |-> Initial, delay |-> 0, fails |-> 0]

Init ==
  /\ loop = [pc |-> "connect", gen |-> 0, todo |-> {}]
  /\ backoff = from_config
  /\ tun = NoTunnel
  /\ pty = [s \in Session |-> NoPty]
  /\ rd = [s \in Session |-> [g \in Gen |-> NoReader]]
  /\ chan = <<>> /\ wire = {} /\ told = NotTold

-----------------------------------------------------------------------------
(* PtyManager                                                              *)

(* create_session when everything succeeds: the shell runs.                *)
create_session(s) == pty' = [pty EXCEPT ![s] = [st |-> "alive", inb |-> 0]]

(* try_wait: the sessions whose shell has exited.                          *)
Exited == {s \in Session : pty[s].st = "exited"}

(* close, of each of some sessions: the shell is killed, awaited and       *)
(* forgotten; a session that is not there is ignored.                      *)
close(sessions) == pty' = [s \in Session |-> IF s \in sessions THEN NoPty ELSE pty[s]]

-----------------------------------------------------------------------------
(* connect_with_retry and the outer loop of run_foreground.                *)

(* Mutant: the multiplied delay is returned before the cap is applied.     *)
next_delay_Uncapped(b) ==
  {[current |-> b.current * Multiplier, delay |-> b.current + j, fails |-> b.fails + 1] :
     j \in 0..(b.current \div Jitter)}

(* ExponentialBackoff::next_delay: the delay is the current one plus       *)
(* jitter; the next one is multiplied and capped.                          *)
next_delay(b) ==
  {[current |-> Min({b.current * Multiplier, MaxDelay}), delay |-> b.current + j,
    fails |-> b.fails + 1] : j \in 0..(b.current \div Jitter)}

(* try_connect fails for want of a network: wait and try again.            *)
Retry ==
  /\ loop.pc = "connect" /\ backoff.fails < MaxFails
  /\ backoff' \in next_delay(backoff)
  /\ UNCHANGED <<loop, tun, pty, rd, chan, wire, told>>

(* The host key was refused: connect_with_retry gives up, the outer loop   *)
(* waits five seconds and starts over with a fresh backoff.                *)
HostKeyRejected ==
  /\ loop.pc = "connect"
  /\ backoff' = from_config
  /\ UNCHANGED <<loop, tun, pty, rd, chan, wire, told>>

(* Authentication was refused: the agent ends.                             *)
AuthRejected ==
  /\ loop.pc = "connect"
  /\ loop' = [loop EXCEPT !.pc = "exited"]
  /\ backoff' = from_config
  /\ UNCHANGED <<tun, pty, rd, chan, wire, told>>

(* Mutant: the output channel outlives the connection.                     *)
Connected_OldChannel ==
  /\ loop.pc = "connect" /\ loop.gen < MaxConns
  /\ loop' = [loop EXCEPT !.pc = "select", !.gen = @ + 1]
  /\ backoff' = from_config
  /\ tun' = [NoTunnel EXCEPT !.up = TRUE]
  /\ wire' = {} /\ told' = NotTold
  /\ UNCHANGED <<pty, rd, chan>>

(* try_connect succeeds: a channel is open, Register is sent, and the      *)
(* event loop starts with a new output channel and no readers.             *)
Connected ==
  /\ loop.pc = "connect" /\ loop.gen < MaxConns
  /\ loop' = [loop EXCEPT !.pc = "select", !.gen = @ + 1]
  /\ backoff' = from_config
  /\ tun' = [NoTunnel EXCEPT !.up = TRUE]
  /\ chan' = <<>> /\ wire' = {} /\ told' = NotTold
  /\ UNCHANGED <<pty, rd>>

(* Mutant: the shells of the lost connection are left running.             *)
Disconnected_KeepShells ==
  /\ loop.pc = "ended"
  /\ loop' = [loop EXCEPT !.pc = "connect", !.todo = {}]
  /\ tun' = NoTunnel
  /\ UNCHANGED <<backoff, pty, rd, chan, wire, told>>

(* run_event_loop returned: close every PTY, drop the tunnel, reconnect.   *)
(* The receiver of the output channel is gone from here on.                *)
Disconnected ==
  /\ loop.pc = "ended"
  /\ loop' = [loop EXCEPT !.pc = "connect", !.todo = {}]
  /\ close(Session)
  /\ tun' = NoTunnel
  /\ UNCHANGED <<backoff, rd, chan, wire, told>>

-----------------------------------------------------------------------------
(* ClientHandler: frames from the orchestrator become events.  The russh   *)
(* task waits while the channel is full.                                   *)

Announced(s) == told[s] # "nothing" \/ \E i \in 1..Len(tun.q) : tun.q[i] = [t |-> "create", s |-> {s}]

(* Mutant: the handler does not wait for room in the channel.              *)
Deliver_NoWait(e) ==
  /\ tun.up /\ Len(tun.q) <= EventCap
  /\ tun' = [tun EXCEPT !.q = Append(@, e), !.reg = @ \/ e.t = "accepted"]
  /\ UNCHANGED <<loop, backoff, pty, rd, chan, wire, told>>

(* handle_frame: the event is sent to the event loop.                      *)
Deliver(e) ==
  /\ tun.up /\ Len(tun.q) < EventCap
  /\ tun' = [tun EXCEPT !.q = Append(@, e), !.reg = @ \/ e.t = "accepted"]
  /\ UNCHANGED <<loop, backoff, pty, rd, chan, wire, told>>

(* RegisterAck, once; a rejected agent is sent nothing else.               *)
DeliverAck ==
  /\ ~tun.reg /\ tun.q = <<>> /\ loop.pc = "select"
  /\ \E t \in {"accepted", "rejected"} : Deliver([t |-> t, s |-> {}])

(* The orchestrator creates a session id once per connection.              *)
DeliverCommand(s) ==
  /\ tun.reg
  /\ \/ ~Announced(s) /\ Deliver([t |-> "create", s |-> {s}])
     \/ Announced(s) /\ \E t \in {"data", "resize", "close"} : Deliver([t |-> t, s |-> {s}])

DeliverHeartbeat == tun.reg /\ Deliver([t |-> "heartbeat", s |-> {}])

(* The connection ends: channel_close is delivered first when the peer     *)
(* closed the channel; then the sender of the events is dropped.           *)
ConnectionEnds ==
  /\ tun.up
  /\ \E told_so \in BOOLEAN :
       /\ told_so => Len(tun.q) < EventCap
       /\ tun' = [tun EXCEPT !.up = FALSE,
                    !.q = IF told_so THEN Append(@, [t |-> "disconnected", s |-> {}]) ELSE @]
  /\ UNCHANGED <<loop, backoff, pty, rd, chan, wire, told>>

-----------------------------------------------------------------------------
(* run_event_loop                                                          *)

(* ActiveTunnel::send_message; a failure is logged and changes nothing.    *)
Sent(t, s) == wire \cup {[t |-> t, s |-> s, gen |-> loop.gen]}

Next_event(t) ==
  /\ loop.pc = "select" /\ tun.q # <<>> /\ Head(tun.q).t = t
  /\ tun' = [tun EXCEPT !.q = Tail(@)]

EventSession == CHOOSE s \in Session : s \in Head(tun.q).s

(* recv_event returns None: return at once.                                *)
ChannelClosed ==
  /\ loop.pc = "select" /\ ~tun.up /\ tun.q = <<>>
  /\ loop' = [loop EXCEPT !.pc = "ended"]
  /\ UNCHANGED <<backoff, tun, pty, rd, chan, wire, told>>

Registered ==
  /\ Next_event("accepted")
  /\ loop' = [loop EXCEPT !.pc = "check"]
  /\ UNCHANGED <<backoff, pty, rd, chan, wire, told>>

(* Rejected, or disconnected by the orchestrator: cancel every reader, and *)
(* wait for each at most half a second.                                    *)
Drain ==
  /\ Next_event("rejected") \/ Next_event("disconnected")
  /\ rd' = [s \in Session |-> [rd[s] EXCEPT ![loop.gen].cancelled = TRUE]]
  /\ loop' = [loop EXCEPT !.pc = "ended"]
  /\ UNCHANGED <<backoff, pty, chan, wire, told>>

(* CreateSession: the shell is validated and spawned, SessionReady sent,   *)
(* and a reader started unless the PTY's reader cannot be cloned.          *)
CreateSession ==
  /\ Next_event("create")
  /\ \E reader \in BOOLEAN :
       LET s == EventSession IN
       /\ create_session(s)
       /\ rd' = [rd EXCEPT ![s][loop.gen] = [NoReader EXCEPT !.st = IF reader THEN "read" ELSE "none"]]
       /\ wire' = Sent("ready", s)
       /\ told' = [told EXCEPT ![s] = "ready"]
  /\ loop' = [loop EXCEPT !.pc = "check"]
  /\ UNCHANGED <<backoff, chan>>

(* validate_shell_path, openpty or spawn_command failed: Error is sent.    *)
CreateFails ==
  /\ Next_event("create")
  /\ wire' = Sent("error", EventSession)
  /\ told' = [told EXCEPT ![EventSession] = "error"]
  /\ loop' = [loop EXCEPT !.pc = "check"]
  /\ UNCHANGED <<backoff, pty, rd, chan>>

(* SessionData and SessionResize.  PtyManager::write blocks the task, with *)
(* the manager locked, until the PTY takes the input.                      *)
SessionData ==
  /\ Next_event("data")
  /\ loop' = [loop EXCEPT !.pc = IF pty[EventSession].st = "none" THEN "check" ELSE "write",
                          !.todo = IF pty[EventSession].st = "none" THEN {} ELSE {EventSession}]
  /\ UNCHANGED <<backoff, pty, rd, chan, wire, told>>

SessionResize ==
  /\ Next_event("resize")
  /\ loop' = [loop EXCEPT !.pc = "check"]
  /\ UNCHANGED <<backoff, pty, rd, chan, wire, told>>

Write(s) ==
  /\ loop.pc = "write" /\ s \in loop.todo
  /\ pty[s].st = "exited" \/ pty[s].inb < InBuf
  /\ pty' = IF pty[s].st = "alive" THEN [pty EXCEPT ![s].inb = @ + 1] ELSE pty
  /\ loop' = [loop EXCEPT !.pc = "check", !.todo = {}]
  /\ UNCHANGED <<backoff, tun, rd, chan, wire, told>>

(* Mutant: the orchestrator's SessionClose is not answered.                *)
SessionClose_Unanswered ==
  /\ Next_event("close")
  /\ close({EventSession})
  /\ loop' = [loop EXCEPT !.pc = "check"]
  /\ UNCHANGED <<backoff, rd, chan, wire, told>>

(* SessionClose: kill the shell and forget the PTY; then the reader.       *)
SessionClose ==
  /\ Next_event("close")
  /\ close({EventSession})
  /\ loop' = [loop EXCEPT !.pc = "close", !.todo = {EventSession}]
  /\ UNCHANGED <<backoff, rd, chan, wire, told>>

Heartbeat ==
  /\ Next_event("heartbeat")
  /\ loop' = [loop EXCEPT !.pc = "check"]
  /\ UNCHANGED <<backoff, pty, rd, chan, wire, told>>

(* Mutant: the reader is awaited without the timeout.                      *)
Finish_NoTimeout(s) ==
  /\ loop.pc \in {"close", "exit"} /\ s \in loop.todo
  /\ rd[s][loop.gen].st = "send" => Len(chan) < OutputCap
  /\ rd' = [rd EXCEPT ![s][loop.gen].cancelled = TRUE]
  /\ wire' = Sent("close", s)
  /\ told' = [told EXCEPT ![s] = "close"]
  /\ loop' = [loop EXCEPT !.todo = @ \ {s},
                !.pc = IF @ = "close" THEN "check" ELSE IF loop.todo = {s} THEN "select" ELSE @]
  /\ UNCHANGED <<backoff, tun, pty, chan>>

(* Cancel the reader, wait until it ends or half a second is over, and     *)
(* send SessionClose.                                                      *)
Finish(s) ==
  /\ loop.pc \in {"close", "exit"} /\ s \in loop.todo
  /\ rd' = [rd EXCEPT ![s][loop.gen].cancelled = TRUE]
  /\ wire' = Sent("close", s)
  /\ told' = [told EXCEPT ![s] = "close"]
  /\ loop' = [loop EXCEPT !.todo = @ \ {s},
                !.pc = IF @ = "close" THEN "check" ELSE IF loop.todo = {s} THEN "select" ELSE @]
  /\ UNCHANGED <<backoff, tun, pty, chan>>

(* After every event, and only then: close the PTYs whose shell exited.    *)
CheckExited ==
  /\ loop.pc = "check"
  /\ close(Exited)
  /\ loop' = [loop EXCEPT !.pc = IF Exited = {} THEN "select" ELSE "exit", !.todo = Exited]
  /\ UNCHANGED <<backoff, tun, rd, chan, wire, told>>

(* The other branch of the select: output of a shell is sent.              *)
SendOutput ==
  /\ loop.pc = "select" /\ chan # <<>>
  /\ wire' = wire \cup {[t |-> "data", s |-> Head(chan).s, gen |-> Head(chan).gen]}
  /\ chan' = Tail(chan)
  /\ UNCHANGED <<loop, backoff, tun, pty, rd, told>>

-----------------------------------------------------------------------------
(* spawn_pty_reader: one thread per PTY.                                   *)

(* The channel a reader writes to: that of its own connection.             *)
Open(g) == g = loop.gen /\ loop.pc \notin {"connect", "exited"}

(* The program holds the terminal no longer: reads return what is left.    *)
HungUp(s, g) == g # loop.gen \/ pty[s].st # "alive"

ReaderReads(s, g) ==
  /\ rd[s][g].st = "read" /\ rd[s][g].out > 0
  /\ rd' = [rd EXCEPT ![s][g].st = "send", ![s][g].out = @ - 1]
  /\ UNCHANGED <<loop, backoff, tun, pty, chan, wire, told>>

ReaderEof(s, g) ==
  /\ rd[s][g].st = "read" /\ rd[s][g].out = 0 /\ HungUp(s, g)
  /\ rd' = [rd EXCEPT ![s][g].st = "done"]
  /\ UNCHANGED <<loop, backoff, tun, pty, chan, wire, told>>

(* blocking_send waits for room, or fails when the receiver is gone; the   *)
(* token is looked at only before the next read.                           *)
ReaderSends(s, g) ==
  /\ rd[s][g].st = "send"
  /\ Open(g) => Len(chan) < OutputCap
  /\ chan' = IF Open(g) THEN Append(chan, [s |-> s, gen |-> g]) ELSE chan
  /\ rd' = [rd EXCEPT ![s][g].st = IF Open(g) /\ ~rd[s][g].cancelled THEN "read" ELSE "done"]
  /\ UNCHANGED <<loop, backoff, tun, pty, wire, told>>

-----------------------------------------------------------------------------
(* The program in a shell.                                                 *)

CanPrint(s) == pty[s].st = "alive" /\ rd[s][loop.gen].out < OutBuf

Prints(s) ==
  /\ CanPrint(s)
  /\ rd' = [rd EXCEPT ![s][loop.gen].out = @ + 1]
  /\ UNCHANGED <<loop, backoff, tun, pty, chan, wire, told>>

(* It reads input and answers it, as cat does.                             *)
Answers(s) ==
  /\ CanPrint(s) /\ pty[s].inb > 0
  /\ pty' = [pty EXCEPT ![s].inb = @ - 1]
  /\ rd' = [rd EXCEPT ![s][loop.gen].out = @ + 1]
  /\ UNCHANGED <<loop, backoff, tun, chan, wire, told>>

Exits(s) ==
  /\ pty[s].st = "alive"
  /\ pty' = [pty EXCEPT ![s].st = "exited"]
  /\ UNCHANGED <<loop, backoff, tun, rd, chan, wire, told>>

-----------------------------------------------------------------------------
(* The steps of the main task.                                             *)
EventLoop ==
  \/ ChannelClosed \/ Registered \/ Drain \/ CreateSession \/ CreateFails
  \/ SessionData \/ SessionResize \/ SessionClose \/ Heartbeat
  \/ \E s \in loop.todo : Write(s) \/ Finish(s)
  \/ CheckExited \/ Disconnected

Connecting == Retry \/ HostKeyRejected \/ AuthRejected \/ Connected

Reader(s, g) == ReaderReads(s, g) \/ ReaderEof(s, g) \/ ReaderSends(s, g)

Next ==
  \/ Connecting \/ EventLoop \/ SendOutput
  \/ DeliverAck \/ DeliverHeartbeat \/ ConnectionEnds
  \/ \E s \in Session :
       \/ DeliverCommand(s) \/ Prints(s) \/ Answers(s) \/ Exits(s)
       \/ \E g \in Gen : Reader(s, g)

(* The runtime keeps polling the main task, and its select picks neither   *)
(* branch for ever; reader threads run; the health monitor keeps sending   *)
(* heartbeats; a program reads its input as long as it can print.          *)
Fairness ==
  /\ WF_vars(EventLoop)
  /\ SF_vars(SendOutput)
  /\ SF_vars(\E e \in {"accepted", "create", "data", "resize", "close", "heartbeat"} :
               Next_event(e) /\ EventLoop)
  /\ SF_vars(DeliverHeartbeat)
  /\ \A s \in Session :
       /\ WF_vars(Answers(s))
       /\ \A g \in Gen : WF_vars(Reader(s, g))

Spec == Init /\ [][Next]_vars /\ Fairness

-----------------------------------------------------------------------------
(* Every variable has its type.                                            *)
TypeOK ==
  /\ loop \in [pc : {"connect", "select", "check", "write", "close", "exit", "ended", "exited"},
               gen : Gen, todo : SUBSET Session]
  /\ backoff \in [current : Nat, delay : Nat, fails : 0..MaxFails]
  /\ tun.up \in BOOLEAN /\ tun.reg \in BOOLEAN
  /\ tun.q \in Seq(Event) /\ Len(tun.q) <= EventCap
  /\ pty \in [Session -> [st : {"none", "alive", "exited"}, inb : 0..InBuf]]
  /\ rd \in [Session -> [Gen -> [st : {"none", "read", "send", "done"}, out : 0..OutBuf,
                                  cancelled : BOOLEAN]]]
  /\ chan \in Seq([s : Session, gen : Gen]) /\ Len(chan) <= OutputCap
  /\ told \in [Session -> {"nothing", "ready", "error", "close"}]

(* Multiplier to the power of n.                                           *)
Power[n \in 0..MaxFails] == IF n = 0 THEN 1 ELSE Multiplier * Power[n - 1]

(* After any number of failures in a row the next delay is the initial one *)
(* multiplied that often and capped, and no delay slept exceeds the cap by *)
(* more than its jitter (reconnect.rs next_delay against the formula).     *)
BackoffFollowsFormula ==
  /\ backoff.current = Min({Initial * Power[backoff.fails], MaxDelay})
  /\ backoff.delay <= MaxDelay + MaxDelay \div Jitter

(* No shell outlives the connection it was created on: once the agent is   *)
(* connecting again its PTY table is empty, whatever way the event loop    *)
(* ended (main.rs: the table is shared by all connections).                *)
NoShellLeftBehind == loop.pc \in {"connect", "exited"} => \A s \in Session : pty[s] = NoPty

(* Whenever the event loop is back in its select, the orchestrator has     *)
(* been told SessionReady and not yet SessionClose of exactly the sessions *)
(* in the PTY table: creating, closing and the exit check keep the two in  *)
(* step, also when a close races the exit of the shell.                    *)
ToldWhatThereIs ==
  loop.pc = "select" => \A s \in Session : told[s] = "ready" <=> pty[s].st # "none"

(* Output sent on a connection was read from a shell created on that       *)
(* connection and announced on it: a reader that outlives its connection,  *)
(* or a session id that comes again, never puts old output on a new one.   *)
OutputBelongs ==
  \A w \in wire : w.t = "data" =>
    w.gen = loop.gen /\ [t |-> "ready", s |-> w.s, gen |-> loop.gen] \in wire

(* A shell that exits is reported by SessionClose, thanks to the heartbeat *)
(* that triggers the exit check, unless the connection ends first or the   *)
(* main task is stuck writing into a PTY whose program does not read; in   *)
(* particular a full output channel cannot hold up the close (main.rs:     *)
(* the wait for the reader has a timeout).                                 *)
ExitReported ==
  \A s \in Session :
    pty[s].st = "exited" ~> told[s] = "close" \/ loop.pc \in {"write", "connect", "exited"}

(* "The machine will stay connected and auto-reconnect if the network      *)
(* drops" (docs/FAQ.md): a main task whose tunnel has ended gets back to   *)
(* connecting, even when every shell has its reader (main.rs:              *)
(* run_event_loop).                                                        *)
ReconnectsAfterLoss ==
  /\ loop.pc \notin {"connect", "exited"} /\ ~tun.up
  /\ \A s \in Session : pty[s].st = "alive" => rd[s][loop.gen].st # "none"
  ~> loop.pc = "connect"
================================================================================
