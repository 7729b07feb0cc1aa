------------------------------ MODULE SshServer ------------------------------
(***************************************************************************)
(* The SSH side (server/listener.rs, server/handler.rs) and, as its        *)
(* environment, the agents: one ClientHandler per connection, which turns  *)
(* frames into connection events, and a command processor that drains the  *)
(* command channel.  The wire and the agent's loop are collapsed: a        *)
(* command is taken from the channel and answered in one step, and the     *)
(* delay is in the channels on either side of it.                          *)
(***************************************************************************)
EXTENDS Registry

Handler == {"none", "auth", "registered", "channel_closed", "dropped"}

SshInit ==
  /\ ssh = [c \in Conn |-> "none"]
  /\ late = {}
  /\ cancelled = {}
  /\ rx = [c \in Conn |-> FALSE]
  /\ cmdq = [c \in Conn |-> <<>>]
  /\ pty = [c \in Conn |-> {}]
  /\ events = <<>>
  /\ lost = {}

sshOthers == <<tableVars, ev, hm, cl, ipc, owned, now, closings, news, sent>>

(* ClientHandler::new, auth_publickey accepted, channel opened: from here  *)
(* on the handler knows its machine id.                                    *)
SshConnect(c) ==
  /\ ssh[c] = "none"
  /\ ssh' = [ssh EXCEPT ![c] = "auth"]
  /\ rx' = [rx EXCEPT ![c] = TRUE]
  /\ UNCHANGED <<late, cancelled, cmdq, pty, events, lost, sshOthers>>

(* A compatible Register: acknowledged, announced, command processor       *)
(* started.  (A second Register finds command_tx taken and changes         *)
(* nothing; an incompatible one is refused and changes nothing.)           *)
Register(c) ==
  /\ ssh[c] = "auth"
  /\ SendEvent(Connected(c))
  /\ ssh' = [ssh EXCEPT ![c] = "registered"]
  /\ UNCHANGED <<late, cancelled, rx, cmdq, pty, lost, sshOthers>>

(* channel_close of the only channel: the machine is reported gone while   *)
(* the handler lives on.                                                   *)
ChannelClose(c) ==
  /\ ssh[c] \in {"auth", "registered"}
  /\ SendEvent(Disconnected(c))
  /\ ssh' = [ssh EXCEPT ![c] = "channel_closed"]
  /\ UNCHANGED <<late, cancelled, rx, cmdq, pty, lost, sshOthers>>

(* Mutant: Drop reports nothing, as if machine_id had been taken before.   *)
HandlerDrop_Silent(c) ==
  /\ ssh[c] \in {"auth", "registered", "channel_closed"}
  /\ ssh' = [ssh EXCEPT ![c] = "dropped"]
  /\ pty' = [pty EXCEPT ![c] = {}]
  /\ UNCHANGED <<late, cancelled, rx, cmdq, events, lost, sshOthers>>

(* Drop of the handler: the connection ended or its token was cancelled.   *)
(* The machine is reported gone (again), but only if the channel has room. *)
(* The agent closes its PTYs when its connection ends.                     *)
HandlerDrop(c) ==
  /\ ssh[c] \in {"auth", "registered", "channel_closed"}
  /\ TrySendEvent(Disconnected(c))
  /\ ssh' = [ssh EXCEPT ![c] = "dropped"]
  /\ pty' = [pty EXCEPT ![c] = {}]
  /\ lost' = IF Len(events) < EventCap THEN lost ELSE lost \cup {c}
  /\ UNCHANGED <<late, cancelled, rx, cmdq, sshOthers>>

(* The command processor was aborted in Drop; its receiver goes away when  *)
(* the runtime gets to it, and what was queued is lost.                    *)
ProcessorEnds(c) ==
  /\ ssh[c] = "dropped"
  /\ rx[c]
  /\ rx' = [rx EXCEPT ![c] = FALSE]
  /\ cmdq' = [cmdq EXCEPT ![c] = <<>>]
  /\ UNCHANGED <<ssh, late, cancelled, pty, events, lost, sshOthers>>

TakeCommand(c, cmd) ==
  /\ ssh[c] = "registered"
  /\ cmdq[c] # <<>>
  /\ Head(cmdq[c]).cmd = cmd
  /\ cmdq' = [cmdq EXCEPT ![c] = Tail(@)]

(* handle.data on a channel that was closed: the command goes nowhere.     *)
CommandLost(c) ==
  /\ ssh[c] = "channel_closed"
  /\ cmdq[c] # <<>>
  /\ cmdq' = [cmdq EXCEPT ![c] = Tail(@)]
  /\ UNCHANGED <<ssh, late, cancelled, rx, pty, events, lost, sshOthers>>

(* The agent spawned the PTY: SessionReady.                                *)
AgentCreates(c) ==
  /\ TakeCommand(c, "create")
  /\ SendEvent(Created(c, Head(cmdq[c]).s))
  /\ pty' = [pty EXCEPT ![c] = @ \cup {Head(cmdq[c]).s}]
  /\ UNCHANGED <<ssh, late, cancelled, rx, lost, sshOthers>>

(* The agent could not: it sends Error, which handle_frame only logs.      *)
AgentRefuses(c) ==
  /\ TakeCommand(c, "create")
  /\ UNCHANGED <<ssh, late, cancelled, rx, pty, events, lost, sshOthers>>

(* The agent closes the PTY, and reports SessionClose even if it had none. *)
AgentCloses(c) ==
  /\ TakeCommand(c, "close")
  /\ SendEvent(Closed(c, Head(cmdq[c]).s))
  /\ pty' = [pty EXCEPT ![c] = @ \ {Head(cmdq[c]).s}]
  /\ UNCHANGED <<ssh, late, cancelled, rx, lost, sshOthers>>

(* SessionData or SessionResize for a PTY, if there is one.                *)
AgentWrites(c) ==
  /\ TakeCommand(c, "input")
  /\ UNCHANGED <<ssh, late, cancelled, rx, pty, events, lost, sshOthers>>

(* HeartbeatAck refreshes whatever connection the pool has for the machine. *)
AgentAcks(c) ==
  /\ TakeCommand(c, "heartbeat")
  /\ late' = late \ {pool[MachineOf[c]]}
  /\ UNCHANGED <<ssh, cancelled, rx, pty, events, lost, sshOthers>>

(* The shell exits by itself: SessionClose.                                *)
PtyExits(c, s) ==
  /\ ssh[c] = "registered"
  /\ s \in pty[c]
  /\ SendEvent(Closed(c, s))
  /\ pty' = [pty EXCEPT ![c] = @ \ {s}]
  /\ UNCHANGED <<ssh, late, cancelled, rx, cmdq, lost, sshOthers>>

(* No heartbeat has been recorded on the connection for the timeout.       *)
GoesLate(c) ==
  /\ c \in (Pooled \cup hm.conns) \ late
  /\ late' = late \cup {c}
  /\ UNCHANGED <<ssh, cancelled, rx, cmdq, pty, events, lost, sshOthers>>

(* What the agent behind a connection and the network do.                  *)
AgentNext(c) ==
  \/ AgentCreates(c)
  \/ AgentRefuses(c)
  \/ AgentCloses(c)
  \/ AgentWrites(c)
  \/ AgentAcks(c)

SshNext ==
  \E c \in Conn :
    \/ SshConnect(c)
    \/ Register(c)
    \/ ChannelClose(c)
    \/ HandlerDrop(c)
    \/ ProcessorEnds(c)
    \/ CommandLost(c)
    \/ AgentNext(c)
    \/ \E s \in pty[c] : PtyExits(c, s)
    \/ GoesLate(c)
==============================================================================
