------------------------------ MODULE IpcClients ------------------------------
(***************************************************************************)
(* The programs at the other end of an IPC connection: the desktop's       *)
(* PersistentIpcClient, which serves concurrent callers over one           *)
(* connection and reconnects; the CLI's OrchestratorClient, one request    *)
(* after the other (k-terminus kill with several sessions); and the CLI's  *)
(* TerminalSession (connect, attach).  The server answers requests in      *)
(* order and writes events onto the same connection; the socket holds a    *)
(* bounded number of lines each way; the connection may break anywhere.    *)
(***************************************************************************)
EXTENDS Naturals, Sequences, FiniteSets, SequencesExt

CONSTANTS MaxReq,     \* bound: requests of the program
          QueueCap,   \* capacity of the desktop's request channel
          WireCap,    \* lines a socket holds in one direction
          MaxBreaks   \* bound: connections that break, and requests that are torn

ASSUME IpcClientsAssumption ==
  /\ {MaxReq, QueueCap, WireCap} \subseteq Nat \ {0} /\ MaxReq > 1
  /\ MaxBreaks \in Nat

VARIABLES
  who,     \* which program runs
  client,  \* its pc, the request in flight, its queue or list, what it has called
  ans,     \* what each request's caller was told: the request answered, or an error
  srv,     \* handle_client: open and authenticated
  up,      \* lines on their way to the server
  down,    \* lines on their way to the client
  done,    \* history: how often the orchestrator carried out each request
  breaks,  \* history: broken connections and torn requests
  note     \* history: SessionClosed was written to this connection, was dropped, was torn;
           \* mute: the server passed over what was left of a request of the desktop

vars == <<who, client, ans, srv, up, down, done, breaks, note>>

Req == 1..MaxReq
Auth == 0
Waiting == MaxReq + 1
Failed == MaxReq + 2
Event == MaxReq + 3       \* an event envelope
Closed == MaxReq + 4      \* the envelope of SessionClosed for the attached session
Torn == MaxReq + 5        \* what is left of a torn line, and the error it is answered with

Init ==
  /\ who \in {"desktop", "kill", "connect", "attach"}
  /\ client = [pc |-> IF who = "desktop" THEN "off" ELSE "dial", cur |-> 1, queue |-> <<>>,
               called |-> {}]
  /\ ans = [r \in Req |-> Waiting]
  /\ srv = [open |-> FALSE, auth |-> FALSE]
  /\ up = <<>> /\ down = <<>>
  /\ done = [r \in Req |-> 0] /\ breaks = 0 /\ note = "none"

Eof == ~srv.open /\ down = <<>>
(* read_line is a branch of select! in handle_client and in the terminal:  *)
(* when another branch wins, the part of the line that was read is lost.   *)
Tears(lines) == {lines} \cup {<<Torn>> \o Tail(ls) : ls \in {lines} \ {<<>>}}

UpRoom == Len(up) < WireCap
DownRoom == Len(down) < WireCap

-----------------------------------------------------------------------------
(* The server.                                                             *)

(* handle_client takes a line, carries the request out and writes the      *)
(* answer before it looks at anything else.  What is left of a torn        *)
(* request is refused, or passed over when it is only the end of the line. *)
Serve ==
  /\ srv.open /\ up # <<>>
  /\ up' = Tail(up)
  /\ \/ DownRoom /\ down' = Append(down, Head(up)) /\ UNCHANGED note
     \/ Head(up) = Torn /\ UNCHANGED down /\ note' = IF who = "desktop" THEN "mute" ELSE note
  /\ srv' = [srv EXCEPT !.auth = @ \/ Head(up) = Auth]
  /\ done' = IF Head(up) \in Req THEN [done EXCEPT ![Head(up)] = @ + 1] ELSE done
  /\ UNCHANGED <<who, client, ans, breaks>>

(* An event is received: a request half read may be torn.                  *)
TearRequest ==
  /\ up' \in Tears(up)
  /\ breaks' = IF up' = up THEN breaks ELSE breaks + 1
  /\ breaks' <= MaxBreaks

(* It is forwarded to an authenticated client that should receive it.      *)
Forward ==
  /\ srv.open /\ TearRequest
  /\ UNCHANGED down \/ (srv.auth /\ DownRoom /\ down' = Append(down, Event))
  /\ UNCHANGED <<who, client, ans, srv, done, note>>

(* The session of the terminal ends and its SessionClosed is forwarded;    *)
(* connect has to create it first.                                         *)
ForwardClosed ==
  /\ srv.open /\ srv.auth /\ DownRoom /\ TearRequest
  /\ who = "attach" \/ (who = "connect" /\ done[1] = 1)
  /\ note = "none"
  /\ note' = "sent"
  /\ down' = Append(down, Closed)
  /\ UNCHANGED <<who, client, ans, srv, done>>

(* The connection breaks; what is on its way to the client may be lost.    *)
Break ==
  /\ srv.open /\ breaks < MaxBreaks
  /\ breaks' = breaks + 1
  /\ srv' = [open |-> FALSE, auth |-> FALSE]
  /\ up' = <<>>
  /\ down' \in {down, <<>>}
  /\ note' = IF note = "mute" THEN "none" ELSE note
  /\ UNCHANGED <<who, client, ans, done>>

-----------------------------------------------------------------------------
(* The desktop: PersistentIpcClient.                                       *)

(* request(): start the connection task on first use and queue the request *)
(* with the caller's oneshot; fails once the task has ended.               *)
Call(r) ==
  /\ who = "desktop" /\ r \notin client.called
  /\ Len(client.queue) < QueueCap
  /\ client' = [client EXCEPT !.called = @ \cup {r},
                  !.queue = IF client.pc = "stopped" THEN @ ELSE Append(@, r),
                  !.pc = IF @ = "off" THEN "dial" ELSE @]
  /\ ans' = IF client.pc = "stopped" THEN [ans EXCEPT ![r] = Failed] ELSE ans
  /\ UNCHANGED <<who, srv, up, down, done, breaks, note>>

(* connect_and_authenticate: connect, read the token, send Authenticate.   *)
(* A refused connection is tried again after two seconds.                  *)
Dial ==
  /\ client.pc = "dial" /\ ~srv.open
  /\ srv' = [open |-> TRUE, auth |-> FALSE]
  /\ up' = <<Auth>> /\ down' = <<>>
  /\ client' = [client EXCEPT !.pc = "auth"]
  /\ UNCHANGED <<who, ans, done, breaks, note>>

(* The first line of a connection is the answer to Authenticate.           *)
DesktopAuthenticated ==
  /\ who = "desktop" /\ client.pc = "auth"
  /\ down # <<>> /\ Head(down) = Auth
  /\ down' = Tail(down)
  /\ client' = [client EXCEPT !.pc = "idle"]
  /\ UNCHANGED <<who, ans, srv, up, done, breaks, note>>

(* EOF or another answer: the connection is dropped and made anew.         *)
DesktopRefused ==
  /\ who = "desktop" /\ client.pc = "auth"
  /\ Eof \/ (down # <<>> /\ Head(down) # Auth)
  /\ client' = [client EXCEPT !.pc = "dial"]
  /\ srv' = [open |-> FALSE, auth |-> FALSE] /\ up' = <<>> /\ down' = <<>>
  /\ UNCHANGED <<who, ans, done, breaks, note>>

(* handle_requests takes the next request; process_request writes it.      *)
Take ==
  /\ who = "desktop" /\ client.pc = "idle" /\ client.queue # <<>>
  /\ client' = [client EXCEPT !.pc = "send", !.cur = Head(client.queue), !.queue = Tail(@)]
  /\ UNCHANGED <<who, ans, srv, up, down, done, breaks, note>>

DesktopSend ==
  /\ who = "desktop" /\ client.pc = "send"
  /\ srv.open => UpRoom
  /\ up' = IF srv.open THEN Append(up, client.cur) ELSE up
  /\ client' = [client EXCEPT !.pc = "wait"]
  /\ UNCHANGED <<who, ans, srv, down, done, breaks, note>>

(* Mutant: the first line that comes is taken for the answer.              *)
DesktopRead_AnyLine ==
  /\ who = "desktop" /\ client.pc = "wait" /\ down # <<>>
  /\ down' = Tail(down)
  /\ ans' = [ans EXCEPT ![client.cur] = IF Head(down) \in Req THEN Head(down) ELSE Failed]
  /\ client' = [client EXCEPT !.pc = "idle"]
  /\ UNCHANGED <<who, srv, up, done, breaks, note>>

(* process_request reads until a line is not an event envelope.            *)
DesktopRead ==
  /\ who = "desktop" /\ client.pc = "wait" /\ down # <<>>
  /\ down' = Tail(down)
  /\ LET answer == Head(down) \notin {Event, Closed} IN
     /\ ans' = IF answer THEN [ans EXCEPT ![client.cur] = IF Head(down) \in Req THEN Head(down) ELSE Failed]
               ELSE ans
     /\ client' = IF answer THEN [client EXCEPT !.pc = "idle"] ELSE client
  /\ UNCHANGED <<who, srv, up, done, breaks, note>>

(* Mutant: the request of a lost connection is sent again on the next.     *)
DesktopLost_Resend ==
  /\ who = "desktop" /\ client.pc = "wait" /\ Eof
  /\ client' = [client EXCEPT !.pc = "dial", !.queue = <<client.cur>> \o @]
  /\ UNCHANGED <<who, ans, srv, up, down, done, breaks, note>>

(* Mutant: the caller is not told that the connection was lost.            *)
DesktopLost_Silent ==
  /\ who = "desktop" /\ client.pc = "wait" /\ Eof
  /\ client' = [client EXCEPT !.pc = "dial"]
  /\ UNCHANGED <<who, ans, srv, up, down, done, breaks, note>>

(* EOF in place of an answer: the caller is given an error and the task    *)
(* reconnects after half a second.                                         *)
DesktopLost ==
  /\ who = "desktop" /\ client.pc = "wait" /\ Eof
  /\ ans' = [ans EXCEPT ![client.cur] = Failed]
  /\ client' = [client EXCEPT !.pc = "dial"]
  /\ UNCHANGED <<who, srv, up, down, done, breaks, note>>

(* shutdown() or drop: the task ends, and every oneshot it holds with it.  *)
Cancel ==
  /\ who = "desktop" /\ client.pc \in {"dial", "idle"}
  /\ client' = [client EXCEPT !.pc = "stopped", !.queue = <<>>]
  /\ ans' = [r \in Req |-> IF r \in ToSet(client.queue) THEN Failed ELSE ans[r]]
  /\ srv' = [open |-> FALSE, auth |-> FALSE] /\ up' = <<>> /\ down' = <<>>
  /\ UNCHANGED <<who, done, breaks, note>>

-----------------------------------------------------------------------------
(* The CLI: OrchestratorClient.                                            *)

Command == who # "desktop"

(* send_request_raw reads through a buffer of its own: it uses the first   *)
(* line and drops whatever else had arrived, which may end within a line.  *)
ReadLine(n) ==
  /\ n \in 1..Len(down)
  /\ down' \in Tears(SubSeq(down, n + 1, Len(down)))
  /\ note' = IF Closed \in ToSet(down) \ ToSet(down') THEN "dropped" ELSE note

(* connect(): Authenticate; a CLI that cannot authenticate gives up.       *)
CliAuthenticated ==
  /\ Command /\ client.pc = "auth"
  /\ \/ /\ \E n \in 1..WireCap : ReadLine(n)
        /\ client' = [client EXCEPT !.pc = IF Head(down) = Auth THEN "idle" ELSE "stopped"]
     \/ /\ Eof
        /\ client' = [client EXCEPT !.pc = "stopped"]
        /\ UNCHANGED <<down, note>>
  /\ UNCHANGED <<who, ans, srv, up, done, breaks>>

(* The next request: kill_session of the list; CreateSession; Subscribe.   *)
CliSend ==
  /\ Command /\ client.pc = "idle"
  /\ srv.open => UpRoom
  /\ up' = IF srv.open THEN Append(up, client.cur) ELSE up
  /\ client' = [client EXCEPT !.pc = "wait", !.called = @ \cup {client.cur}]
  /\ UNCHANGED <<who, ans, srv, down, done, breaks, note>>

(* kill_command goes on to its next session, also after an error.          *)
kill_command ==
  client' = IF client.cur = MaxReq THEN [client EXCEPT !.pc = "stopped"]
            ELSE [client EXCEPT !.pc = "idle", !.cur = @ + 1]

(* connect_command creates a session and, unless that failed, goes on as   *)
(* attach_command: Subscribe, and the stream is taken for the terminal.    *)
connect_command(ok) ==
  client' = IF ~ok THEN [client EXCEPT !.pc = "stopped"]
            ELSE IF who = "connect" /\ client.cur = 1 THEN [client EXCEPT !.pc = "idle", !.cur = 2]
            ELSE [client EXCEPT !.pc = "terminal"]

AfterAnswer(ok) == IF who = "kill" THEN kill_command ELSE connect_command(ok)

(* The line must parse as a response: an event envelope does not.          *)
CliRead ==
  /\ Command /\ client.pc = "wait"
  /\ \E n \in 1..WireCap : ReadLine(n)
  /\ LET ok == Head(down) \in Req IN
     /\ ans' = [ans EXCEPT ![client.cur] = IF ok THEN Head(down) ELSE Failed]
     /\ AfterAnswer(ok)
  /\ UNCHANGED <<who, srv, up, done, breaks>>

CliLost ==
  /\ Command /\ client.pc = "wait" /\ Eof
  /\ ans' = [ans EXCEPT ![client.cur] = Failed]
  /\ AfterAnswer(FALSE)
  /\ UNCHANGED <<who, srv, up, down, done, breaks, note>>

-----------------------------------------------------------------------------
(* The CLI: TerminalSession::run.                                          *)

(* A key or a resize: the request is written there and then, and no answer *)
(* is awaited.  Its answer is a line like an event: read and passed over.  *)
(* Other input is ignored.  In each case the select! has dropped the       *)
(* read_line in progress.                                                  *)
Key ==
  /\ client.pc = "terminal"
  /\ \E p \in {"typing", "terminal"} : client' = [client EXCEPT !.pc = p]
  /\ down' \in Tears(down)
  /\ note' = IF down' # down /\ Head(down) = Closed THEN "torn" ELSE note
  /\ UNCHANGED <<who, ans, srv, up, done, breaks>>

TerminalWrite ==
  /\ client.pc = "typing"
  /\ srv.open => UpRoom
  /\ up' = IF srv.open THEN Append(up, Event) ELSE up
  /\ client' = [client EXCEPT !.pc = IF srv.open THEN "terminal" ELSE "stopped"]
  /\ UNCHANGED <<who, ans, srv, down, done, breaks, note>>

(* Mutant: SessionClosed is treated like the other events.                 *)
TerminalRead_Ignore ==
  /\ client.pc = "terminal" /\ (down # <<>> \/ Eof)
  /\ client' = [client EXCEPT !.pc = IF Eof THEN "stopped" ELSE @]
  /\ down' = IF Eof THEN <<>> ELSE Tail(down)
  /\ UNCHANGED <<who, ans, srv, up, done, breaks, note>>

(* A line: output is shown, answers are skipped, and SessionClosed of this *)
(* session, EOF or an error ends the terminal.                             *)
TerminalRead ==
  /\ client.pc = "terminal" /\ (down # <<>> \/ Eof)
  /\ client' = [client EXCEPT !.pc = IF Eof \/ Head(down) = Closed THEN "stopped" ELSE @]
  /\ down' = IF Eof THEN <<>> ELSE Tail(down)
  /\ UNCHANGED <<who, ans, srv, up, done, breaks, note>>

(* Ctrl+]                                                                  *)
Detach ==
  /\ client.pc = "terminal"
  /\ client' = [client EXCEPT !.pc = "stopped"]
  /\ UNCHANGED <<who, ans, srv, up, down, done, breaks, note>>

-----------------------------------------------------------------------------
ServerStep == Serve \/ Forward \/ ForwardClosed \/ Break
DesktopStep == DesktopAuthenticated \/ DesktopRefused \/ Take \/ DesktopSend \/ DesktopRead \/ DesktopLost
CliStep == CliAuthenticated \/ CliSend \/ CliRead \/ CliLost \/ TerminalWrite \/ TerminalRead

Next ==
  \/ ServerStep \/ Dial \/ DesktopStep \/ Cancel \/ CliStep \/ Key \/ Detach
  \/ \E r \in Req : Call(r)

(* The server polls its connection and its select takes requests, too; an  *)
(* orchestrator comes back; the tasks of the clients run, and the select   *)
(* of the terminal does not leave its socket unread for ever.              *)
Fairness ==
  /\ SF_vars(Serve)
  /\ WF_vars(Dial)
  /\ WF_vars(DesktopStep)
  /\ WF_vars(CliStep)
  /\ SF_vars(TerminalRead)

Spec == Init /\ [][Next]_vars /\ Fairness

-----------------------------------------------------------------------------
(* Every variable has its type.                                            *)
TypeOK ==
  /\ who \in {"desktop", "kill", "connect", "attach"}
  /\ client.pc \in {"off", "dial", "auth", "idle", "send", "wait", "terminal", "typing", "stopped"}
  /\ client.cur \in Req /\ client.queue \in Seq(Req) /\ client.called \subseteq Req
  /\ ans \in [Req -> Req \cup {Waiting, Failed}]
  /\ srv \in [open : BOOLEAN, auth : BOOLEAN]
  /\ Len(up) <= WireCap /\ Len(down) <= WireCap
  /\ done \in [Req -> Nat] /\ breaks \in 0..MaxBreaks
  /\ note \in {"none", "sent", "dropped", "torn", "mute"}

(* The desktop's callers get the answer to their own request, whatever     *)
(* events and broken connections come between; the CLI does as long as no  *)
(* earlier read of the same connection failed (client.rs:                  *)
(* send_request_raw takes any line for the answer and leaves the real one  *)
(* in the socket).                                                         *)
AnswersMatch ==
  \A r \in Req : ans[r] \in Req =>
    ans[r] = r \/ (who = "kill" /\ \E q \in Req : q < r /\ ans[q] = Failed)

(* A request is carried out at most once: no client repeats one whose      *)
(* answer was lost, and one that was answered has been carried out.        *)
AtMostOnce ==
  \A r \in Req : done[r] <= 1 /\ (ans[r] = r => done[r] = 1)

(* While an orchestrator can be reached again and again, every request of  *)
(* the desktop is answered, if only with an error: the connection's two    *)
(* ends never wait for each other for ever, although the desktop reads its *)
(* socket only while a request is in flight.  One exception: an event came *)
(* when all of a request but the end of its line had been read, and the    *)
(* server passed it over; process_request waits without a timeout.         *)
DesktopAnswered ==
  \A r \in Req : (who = "desktop" /\ r \in client.called) ~> (ans[r] # Waiting \/ note = "mute")

(* An attached terminal ends once its session has, with three exceptions:  *)
(* SessionClosed was thrown away with the answer to Subscribe; a key came  *)
(* when half of it had been read, and tore it; or both ends are stuck      *)
(* writing into full sockets (client.rs: TerminalSession::run writes and   *)
(* does not read meanwhile).                                               *)
TerminalEnds ==
  (client.pc \in {"terminal", "typing"} /\ note = "sent")
    ~> (client.pc = "stopped" \/ note = "torn" \/ (client.pc = "typing" /\ ~UpRoom /\ ~DownRoom))
================================================================================
