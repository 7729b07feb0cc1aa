---------------------------- MODULE SingleInstance ----------------------------
(***************************************************************************)
(* How an orchestrator makes sure that it is the only one: the PID file,   *)
(* the token file with its owner's PID, and the two ports.  An             *)
(* orchestrator is started by kt-orchestrator ("daemon"), by k-terminus    *)
(* start ("cli") or inside the desktop application ("desktop"), which can  *)
(* also stop and start it again.  Processes may be killed at any point,    *)
(* and the system may give a dead process's PID to another one, be it a    *)
(* program that has nothing to do with k-Terminus ("other").               *)
(***************************************************************************)
EXTENDS Naturals, FiniteSets

CONSTANTS Process,     \* places for processes: one that ended may be started again
          KindOf,      \* KindOf[p]: "daemon", "cli", "desktop" or "other"
          NoProcess,   \* nobody
          Pid,         \* process ids
          NoPid,       \* no PID file
          BadPid,      \* a PID file that is not a number
          MaxStops     \* bound: stop_orchestrator and IPC Shutdown in the desktop

ASSUME InstanceAssumption ==
  /\ NoProcess \notin Process /\ {NoPid, BadPid} \cap Pid = {} /\ NoPid # BadPid
  /\ KindOf \in [Process -> {"daemon", "cli", "desktop", "other"}]
  /\ MaxStops \in Nat

VARIABLES
  proc,    \* each process: pc, PID, startup steps left, token cancelled, running
  token,   \* the token file: absent, half written, or a token with its owner's PID
  pidfile, \* the PID file
  ipc,     \* who listens on the IPC port
  ssh,     \* who listens on the SSH port
  stops,   \* history: stops used up
  raced    \* history: a startup overlapped another, or a token's removal

vars == <<proc, token, pidfile, ipc, ssh, stops, raced>>

NoToken == [st |-> "absent", pid |-> NoPid, of |-> NoProcess]
NotRunning == [pc |-> "dead", pid |-> NoPid, todo |-> {}, cancelled |-> FALSE, running |-> FALSE]

Init ==
  /\ proc = [p \in Process |-> NotRunning]
  /\ token = NoToken /\ pidfile = NoPid
  /\ ipc = NoProcess /\ ssh = NoProcess
  /\ stops = 0 /\ raced = FALSE

Alive == {p \in Process : proc[p].pc \notin {"refused", "dead"}}

(* is_process_alive                                                        *)
is_process_alive(pid) == \E p \in Alive : proc[p].pid = pid

(* read_token_info: the PID in the token file, if it can be read.          *)
read_token_info == IF token.st = "valid" THEN {token.pid} ELSE {}
LiveOwner == \E pid \in read_token_info : is_process_alive(pid)

(* try_ipc_ping: Pong if somebody listens and answers in time.             *)
try_ipc_ping == IF ipc # NoProcess THEN BOOLEAN ELSE {FALSE}

(* Between its first look at a file and the last step of its startup.      *)
Starting(p) ==
  \/ proc[p].pc \in {"check", "decide", "stale", "init", "token", "truncate", "write"}
  \/ proc[p].todo # {}

(* A desktop that ends, until it has removed the token or let it be.       *)
Removing(p) == proc[p].pc \in {"quit", "unlink"}

Overlap(p) == raced \/ \E q \in Process \ {p} : Starting(q) \/ Removing(q)

Goto(p, pc) == proc' = [proc EXCEPT ![p].pc = pc]

(* A process starts, with any PID that is free.  A token of an earlier     *)
(* process in p's place is not its own.                                    *)
Started(p, kind, pc) ==
  /\ p \notin Alive /\ KindOf[p] = kind
  /\ \E pid \in Pid :
       /\ ~is_process_alive(pid)
       /\ proc' = [proc EXCEPT ![p].pid = pid, ![p].pc = pc]
  /\ token' = [token EXCEPT !.of = IF @ = p THEN NoProcess ELSE @]
  /\ raced' = IF kind = "other" THEN raced ELSE Overlap(p)
  /\ UNCHANGED <<pidfile, ipc, ssh, stops>>

(* kt-orchestrator looks for a running instance first ...                  *)
StartDaemon(p) == Started(p, "daemon", "check")

(* ... k-terminus start goes straight to IpcServer::new ...                *)
StartCli(p) == Started(p, "cli", "token")

(* ... the desktop application to initialize_orchestrator.                 *)
StartDesktop(p) == Started(p, "desktop", "init")

(* A program of somebody else's.                                           *)
StartOther(p) == Started(p, "other", "idle")

Start(p) == StartDaemon(p) \/ StartCli(p) \/ StartDesktop(p) \/ StartOther(p)

-----------------------------------------------------------------------------
(* check_existing_instance: only the daemon looks at the PID file.         *)

(* It has the PID of a live process, or is stale, or cannot be read.       *)
CheckPidFile(p) ==
  /\ proc[p].pc = "check"
  /\ Goto(p, IF pidfile = NoPid THEN "token"
             ELSE IF is_process_alive(pidfile) THEN "decide" ELSE "stale")
  /\ UNCHANGED <<token, pidfile, ipc, ssh, stops, raced>>

(* Mutant: a PID that is alive is taken for an orchestrator.               *)
PingExisting_NoPing(p) ==
  /\ proc[p].pc = "decide"
  /\ Goto(p, "refused")
  /\ UNCHANGED <<token, pidfile, ipc, ssh, stops, raced>>

(* The PID is alive: try_ipc_ping decides whether it is an orchestrator;   *)
(* if nobody answers in time, the PID file counts as stale.                *)
PingExisting(p) ==
  /\ proc[p].pc = "decide"
  /\ \E pong \in try_ipc_ping : Goto(p, IF pong THEN "refused" ELSE "stale")
  /\ UNCHANGED <<token, pidfile, ipc, ssh, stops, raced>>

(* remove_pid_file, whatever the file holds by now.                        *)
RemovePidFile(p) ==
  /\ proc[p].pc = "stale"
  /\ pidfile' = NoPid
  /\ Goto(p, "token")
  /\ UNCHANGED <<token, ipc, ssh, stops, raced>>

(* initialize_orchestrator of the desktop: a live owner of the token means *)
(* external mode, answering or not.                                        *)
Initialize(p) ==
  /\ proc[p].pc = "init"
  /\ Goto(p, IF LiveOwner THEN "external" ELSE "token")
  /\ UNCHANGED <<token, pidfile, ipc, ssh, stops, raced>>

-----------------------------------------------------------------------------
(* acquire_token_ownership, called by IpcServer::new.                      *)

(* Mutant: the owner's PID is not looked up.                               *)
ReadToken_NoOwnerCheck(p) ==
  /\ proc[p].pc = "token"
  /\ Goto(p, "truncate")
  /\ UNCHANGED <<token, pidfile, ipc, ssh, stops, raced>>

(* When the start fails, the desktop goes on without an orchestrator.      *)
GiveUp(p) == Goto(p, IF KindOf[p] = "desktop" THEN "external" ELSE "refused")

(* A live owner, be it this very process: External, and the start fails.   *)
(* A file that does not parse counts as no file.                           *)
ReadToken(p) ==
  /\ proc[p].pc = "token"
  /\ IF LiveOwner THEN GiveUp(p) ELSE Goto(p, "truncate")
  /\ UNCHANGED <<token, pidfile, ipc, ssh, stops, raced>>

(* write_token_info: fs::write truncates the file, then writes it.         *)
TruncateToken(p) ==
  /\ proc[p].pc = "truncate"
  /\ token' = [NoToken EXCEPT !.st = "garbled"]
  /\ Goto(p, "write")
  /\ UNCHANGED <<pidfile, ipc, ssh, stops, raced>>

(* What a process does once it has its IpcServer: serve IPC in a task of   *)
(* its own, write the PID file (the daemon only), serve SSH.               *)
StartupSteps(p) == {"ipc", "ssh"} \cup (IF KindOf[p] = "daemon" THEN {"pid"} ELSE {})

WriteToken(p) ==
  /\ proc[p].pc = "write" /\ token.st # "absent"
  /\ token' = [st |-> "valid", pid |-> proc[p].pid, of |-> p]
  /\ proc' = [proc EXCEPT ![p].pc = "up", ![p].running = TRUE, ![p].todo = StartupSteps(p)]
  /\ UNCHANGED <<pidfile, ipc, ssh, stops, raced>>

(* The file was removed since: set_permissions fails, and so does the      *)
(* start.                                                                  *)
WriteLost(p) ==
  /\ proc[p].pc = "write" /\ token.st = "absent"
  /\ GiveUp(p)
  /\ UNCHANGED <<token, pidfile, ipc, ssh, stops, raced>>

-----------------------------------------------------------------------------
(* The rest of the startup.  The IPC server binds in a task of its own.    *)

StepDone(p, step) == proc' = [proc EXCEPT ![p].todo = @ \ {step}]

(* IpcServer::run: a failed bind is logged and the process goes on.  Under *)
(* a token that is already cancelled the task ends at once.                *)
BindIpc(p) ==
  /\ "ipc" \in proc[p].todo
  /\ ipc' = IF ipc = NoProcess /\ ~proc[p].cancelled THEN p ELSE ipc
  /\ StepDone(p, "ipc")
  /\ UNCHANGED <<token, pidfile, ssh, stops, raced>>

(* PidFileGuard::new, write_pid_file: the file is created, then written;   *)
(* if it was removed in between, it stays so.                              *)
CreatePidFile(p) ==
  /\ "pid" \in proc[p].todo
  /\ pidfile' = BadPid
  /\ proc' = [proc EXCEPT ![p].todo = (@ \ {"pid"}) \cup {"number"}]
  /\ UNCHANGED <<token, ipc, ssh, stops, raced>>

WritePidFile(p) ==
  /\ "number" \in proc[p].todo
  /\ pidfile' = IF pidfile = NoPid THEN NoPid ELSE proc[p].pid
  /\ StepDone(p, "number")
  /\ UNCHANGED <<token, ipc, ssh, stops, raced>>

(* Whatever the end of p is, the system closes its two ports.              *)
Closed(p) ==
  /\ ipc' = IF ipc = p THEN NoProcess ELSE ipc
  /\ ssh' = IF ssh = p THEN NoProcess ELSE ssh

Ends(p, how) ==
  /\ proc' = [proc EXCEPT ![p] = [NotRunning EXCEPT !.pc = how]]
  /\ Closed(p)

(* The guard's drop removes the PID file, whoever wrote it.                *)
PidFileGuard_drop(p) == pidfile' = IF KindOf[p] = "daemon" THEN NoPid ELSE pidfile

(* SshServer::run binds, after the PID file has been written.              *)
MayBindSsh(p) == "ssh" \in proc[p].todo /\ {"pid", "number"} \cap proc[p].todo = {}

(* When it cannot, the daemon and the CLI end, the PID file guard with     *)
(* them.                                                                   *)
BindSsh(p) ==
  /\ MayBindSsh(p) /\ KindOf[p] # "desktop"
  /\ IF ssh = NoProcess
     THEN /\ ssh' = IF proc[p].cancelled THEN ssh ELSE p
          /\ StepDone(p, "ssh")
          /\ UNCHANGED <<ipc, pidfile>>
     ELSE Ends(p, "refused") /\ PidFileGuard_drop(p)
  /\ UNCHANGED <<token, stops, raced>>

(* The desktop serves SSH in a task of its own, which only logs a failure. *)
BindSshEmbedded(p) ==
  /\ MayBindSsh(p) /\ KindOf[p] = "desktop"
  /\ ssh' = IF ssh = NoProcess /\ ~proc[p].cancelled THEN p ELSE ssh
  /\ StepDone(p, "ssh")
  /\ UNCHANGED <<token, pidfile, ipc, stops, raced>>

-----------------------------------------------------------------------------
(* The end of an orchestrator.                                             *)

(* A signal or IPC Shutdown cancels the token: both servers stop, the ones *)
(* still to come too ...                                                   *)
Shutdown(p) ==
  /\ proc[p].pc = "up" /\ KindOf[p] \in {"daemon", "cli"} /\ ~proc[p].cancelled
  /\ proc' = [proc EXCEPT ![p].cancelled = TRUE]
  /\ Closed(p)
  /\ UNCHANGED <<token, pidfile, stops, raced>>

(* ... and main returns.  The token file stays.                            *)
Exit(p) ==
  /\ proc[p].pc = "up" /\ KindOf[p] \in {"daemon", "cli"}
  /\ proc[p].cancelled /\ proc[p].todo = {}
  /\ Ends(p, "dead")
  /\ PidFileGuard_drop(p)
  /\ UNCHANGED <<token, stops, raced>>

(* Killed, or a program that has nothing to do with it ends: the files     *)
(* stay as they are.                                                       *)
Killed(p) ==
  /\ p \in Alive
  /\ Ends(p, "dead")
  /\ UNCHANGED <<token, pidfile, stops, raced>>

(* The desktop ends: drop of EmbeddedOrchestrator, which stops it ...      *)
Quit(p) ==
  /\ KindOf[p] = "desktop" /\ proc[p].pc \in {"up", "external"} /\ proc[p].todo = {}
  /\ proc' = [proc EXCEPT ![p].pc = "quit", ![p].cancelled = TRUE, ![p].running = FALSE]
  /\ Closed(p)
  /\ raced' = (raced \/ \E q \in Process \ {p} : Starting(q))
  /\ UNCHANGED <<token, pidfile, stops>>

(* ... and calls remove_token.  It reads the owner first and spares the    *)
(* token of another PID ...                                                *)
remove_token(p) ==
  /\ proc[p].pc = "quit"
  /\ IF read_token_info \subseteq {proc[p].pid}
     THEN Goto(p, "unlink") /\ UNCHANGED <<ipc, ssh>>
     ELSE Ends(p, "dead")
  /\ UNCHANGED <<token, pidfile, stops, raced>>

(* ... then removes the file, whosever it is by now; the process is over.  *)
UnlinkToken(p) ==
  /\ proc[p].pc = "unlink"
  /\ token' = NoToken
  /\ Ends(p, "dead")
  /\ UNCHANGED <<pidfile, stops, raced>>

(* stop_orchestrator and IPC Shutdown of the embedded orchestrator; the    *)
(* latter leaves running set.  The desktop lives on, and so does the       *)
(* token file.                                                             *)
StopEmbedded(p) ==
  /\ KindOf[p] = "desktop" /\ proc[p].pc = "up" /\ proc[p].todo = {} /\ proc[p].running
  /\ stops < MaxStops /\ stops' = stops + 1
  /\ \E by_ipc \in BOOLEAN :
       proc' = [proc EXCEPT ![p].cancelled = TRUE, ![p].running = by_ipc,
                            ![p].pc = IF by_ipc THEN @ ELSE "external"]
  /\ Closed(p)
  /\ UNCHANGED <<token, pidfile, raced>>

(* start_orchestrator: nothing when it is believed to run; else start(),   *)
(* with the cancellation token of the first start.                         *)
StartEmbedded(p) ==
  /\ KindOf[p] = "desktop" /\ proc[p].pc = "external" /\ ~proc[p].running
  /\ Goto(p, "token")
  /\ raced' = Overlap(p)
  /\ UNCHANGED <<token, pidfile, ipc, ssh, stops>>

-----------------------------------------------------------------------------
Startup(p) ==
  \/ CheckPidFile(p) \/ PingExisting(p) \/ RemovePidFile(p) \/ Initialize(p)
  \/ ReadToken(p) \/ TruncateToken(p) \/ WriteToken(p) \/ WriteLost(p)
  \/ BindIpc(p) \/ CreatePidFile(p) \/ WritePidFile(p)
  \/ BindSsh(p) \/ BindSshEmbedded(p)

Next ==
  \E p \in Process :
    \/ Start(p) \/ Startup(p) \/ Shutdown(p) \/ Exit(p) \/ Killed(p)
    \/ Quit(p) \/ remove_token(p) \/ UnlinkToken(p)
    \/ StopEmbedded(p) \/ StartEmbedded(p)

(* A process that has started runs on; nobody has to start, stop or kill.  *)
Fairness == \A p \in Process : WF_vars(Startup(p) \/ Exit(p) \/ remove_token(p) \/ UnlinkToken(p))

Spec == Init /\ [][Next]_vars /\ Fairness

-----------------------------------------------------------------------------
(* Every variable has its type.                                            *)
TypeOK ==
  /\ \A p \in Process :
       /\ proc[p].pc \in {"check", "decide", "stale", "init", "token", "truncate", "write",
                          "up", "external", "quit", "unlink", "idle", "refused", "dead"}
       /\ proc[p].pid \in Pid \cup {NoPid}
       /\ proc[p].todo \subseteq {"ipc", "pid", "number", "ssh"}
       /\ proc[p].pc # "up" => proc[p].todo = {}
  /\ token.st \in {"absent", "garbled", "valid"} /\ token.of \in Process \cup {NoProcess}
  /\ pidfile \in Pid \cup {NoPid, BadPid}
  /\ {ipc, ssh} \subseteq Process \cup {NoProcess}
  /\ stops \in 0..MaxStops /\ raced \in BOOLEAN

(* As long as no startup has overlapped another one, or the removal of the *)
(* token by a desktop that quits, the token file holds the token of        *)
(* whoever serves IPC, so that clients can authenticate, and the two ports *)
(* are never split between two orchestrators: through crashes at any step, *)
(* PIDs that come again, and stops and starts in the desktop (ipc_auth.rs, *)
(* IpcServer::new).                                                        *)
SerialStartsAgree ==
  ~raced =>
    /\ ipc # NoProcess => token.st = "valid" /\ token.of = ipc
    /\ (ipc # NoProcess /\ ssh # NoProcess) => ipc = ssh

(* Nothing a dead orchestrator left behind keeps a new daemon from         *)
(* starting: a token or a PID file half written, or a PID file whose PID   *)
(* was given to another program.  Alone, it comes to hold both ports, if   *)
(* nobody stops it and no other orchestrator is started.  The one thing    *)
(* that does keep it is a token whose owner's PID is in use again.         *)
StartsAfterCrash ==
  \A p \in Process :
    LET Others == {q \in Alive \ {p} : KindOf[q] # "other"}
    IN (proc[p].pc = "check" /\ Others = {} /\ ~is_process_alive(token.pid))
         ~> \/ ipc = p /\ ssh = p
            \/ Others # {} \/ is_process_alive(token.pid)
            \/ proc[p].pc = "dead" \/ proc[p].cancelled

(* ipc_auth.rs, on remove_token: "Only removes if we are the current owner *)
(* (prevents removing another orchestrator's token)" - no removal takes    *)
(* the token of another live orchestrator.                                 *)
OwnerRemoves ==
  [][\A p \in Process : UnlinkToken(p) => token.of \notin Alive \ {p}]_vars

(* pidfile.rs: "detect and prevent multiple orchestrator instances from    *)
(* running simultaneously" - no two processes that have finished starting  *)
(* serve a port each.                                                      *)
OneOrchestrator ==
  \A p, q \in {ipc, ssh} \ {NoProcess} : proc[p].todo = {} /\ proc[q].todo = {} => p = q
================================================================================
