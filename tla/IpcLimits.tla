------------------------------- MODULE IpcLimits -------------------------------
(***************************************************************************)
(* The IPC server's front: the accept loop with its connection limit, and  *)
(* what handle_client checks before a request is served: the request rate, *)
(* the limit on failed authentication, and authentication itself.  The     *)
(* peer may be any program that speaks the protocol.  Time is in ticks;    *)
(* the windows and the lockout are numbers of ticks.                       *)
(***************************************************************************)
EXTENDS Integers, FiniteSets

CONSTANTS Peer,            \* the programs that connect
          MaxConnections,  \* MAX_IPC_CONNECTIONS
          RateLimit,       \* RATE_LIMIT_REQUESTS_PER_SECOND
          RateWindow,      \* one second
          AuthFailures,    \* AUTH_RATE_LIMIT_FAILURES_PER_MINUTE
          AuthWindow,      \* one minute
          Lockout,         \* AUTH_LOCKOUT_DURATION_SECS
          NoTime,          \* None of Option<Instant>
          MaxNow           \* bound: ticks

ASSUME LimitsAssumption ==
  /\ {MaxConnections, RateLimit, RateWindow, AuthFailures, AuthWindow, Lockout} \subseteq Nat \ {0}
  /\ MaxNow \in Nat /\ NoTime \notin Nat

(* Both are sixty seconds in the code; a lockout shorter than the window   *)
(* would let a second series of failures into it.                          *)
ASSUME LockoutAssumption == AuthWindow <= Lockout

VARIABLES
  now,     \* Instant::now
  active,  \* IpcServer::active_connections
  accept,  \* the accept loop: the connection it has seen below the limit
  conn     \* the connection of each peer, with its ClientState

vars == <<now, active, accept, conn>>

Time == 0..MaxNow

(* History as running totals: how many requests of a connection were let   *)
(* through, or wrong tokens tried, before each tick and before the end.    *)
End == MaxNow + 1
Never == [u \in 0..End |-> 0]
OneMore(f) == [u \in 0..End |-> IF u > now THEN f[u] + 1 ELSE f[u]]

(* ClientState::new, and the history of the connection.                    *)
NewState(st, t) ==
  [st |-> st, authenticated |-> FALSE,
   request_count |-> 0, rate_window_start |-> t,
   auth_failure_count |-> 0, auth_window_start |-> t, auth_lockout_until |-> NoTime,
   granted |-> Never, tried |-> Never]

Init ==
  /\ now = 0 /\ active = 0 /\ accept = {}
  /\ conn = [p \in Peer |-> NewState("none", 0)]

-----------------------------------------------------------------------------
(* IpcServer::run                                                          *)

Dial(p) ==
  /\ conn[p].st = "none"
  /\ conn' = [conn EXCEPT ![p] = NewState("dialled", 0)]
  /\ UNCHANGED <<now, active, accept>>

(* Mutant: one connection more than the limit is let in.                   *)
Accept_OneMore(p) ==
  /\ accept = {} /\ conn[p].st = "dialled"
  /\ IF active > MaxConnections
     THEN accept' = {} /\ conn' = [conn EXCEPT ![p] = NewState("none", 0)]
     ELSE accept' = {p} /\ UNCHANGED conn
  /\ UNCHANGED <<now, active>>

(* accept, then the load of the counter: at the limit the stream is        *)
(* dropped and the loop goes on.                                           *)
Accept(p) ==
  /\ accept = {} /\ conn[p].st = "dialled"
  /\ IF active >= MaxConnections
     THEN accept' = {} /\ conn' = [conn EXCEPT ![p] = NewState("none", 0)]
     ELSE accept' = {p} /\ UNCHANGED conn
  /\ UNCHANGED <<now, active>>

(* fetch_add and the spawn of handle_client; the only task that adds.      *)
Spawn(p) ==
  /\ p \in accept
  /\ active' = active + 1
  /\ accept' = {}
  /\ conn' = [conn EXCEPT ![p] = NewState("open", now)]
  /\ UNCHANGED now

(* EOF, or an error of the socket: handle_client returns ...               *)
Hangup(p) ==
  /\ conn[p].st = "open"
  /\ conn' = [conn EXCEPT ![p].st = "returned"]
  /\ UNCHANGED <<now, active, accept>>

(* Mutant: the counter is decremented on a clean return only.              *)
Release_CleanOnly(p) ==
  /\ conn[p].st = "returned"
  /\ active' \in {active, active - 1}
  /\ conn' = [conn EXCEPT ![p] = NewState("none", 0)]
  /\ UNCHANGED <<now, accept>>

(* ... with either result, and the spawned task decrements the counter.    *)
Release(p) ==
  /\ conn[p].st = "returned"
  /\ active' = active - 1
  /\ conn' = [conn EXCEPT ![p] = NewState("none", 0)]
  /\ UNCHANGED <<now, accept>>

-----------------------------------------------------------------------------
(* ClientState's limiters, on a connection record.                         *)

(* Mutant: the count is reset but the window does not move.                *)
rate_window_Stuck(c) == IF now - c.rate_window_start >= RateWindow THEN [c EXCEPT !.request_count = 0] ELSE c

(* check_rate_limit, first half: a window that is over is replaced.        *)
rate_window(c) ==
  IF now - c.rate_window_start >= RateWindow
  THEN [c EXCEPT !.request_count = 0, !.rate_window_start = now] ELSE c

(* check_rate_limit, second half: under the limit the request counts.      *)
check_rate_limit(c) == rate_window(c).request_count < RateLimit
counted(c) ==
  LET w == rate_window(c) IN [w EXCEPT !.request_count = @ + 1, !.granted = OneMore(@)]

auth_window(c) ==
  IF now - c.auth_window_start >= AuthWindow
  THEN [c EXCEPT !.auth_failure_count = 0, !.auth_window_start = now] ELSE c

locked(c) == c.auth_lockout_until # NoTime /\ now < c.auth_lockout_until

(* Mutant: every check opens a new window.                                 *)
auth_checked_Fresh(c) ==
  IF locked(c) THEN c
  ELSE [c EXCEPT !.auth_lockout_until = NoTime, !.auth_failure_count = 0, !.auth_window_start = now]

(* check_auth_rate_limit: its effect, unless the peer is locked out ...    *)
auth_checked(c) ==
  IF locked(c) THEN c
  ELSE IF c.auth_lockout_until = NoTime THEN auth_window(c)
  ELSE [c EXCEPT !.auth_lockout_until = NoTime, !.auth_failure_count = 0, !.auth_window_start = now]

(* ... and its answer.                                                     *)
check_auth_rate_limit(c) == ~locked(c) /\ auth_checked(c).auth_failure_count < AuthFailures

(* Mutant: the lockout starts one failure late.                            *)
record_auth_failure_Late(c) ==
  LET w == auth_window(c)
      n == w.auth_failure_count + 1
  IN [w EXCEPT !.auth_failure_count = n, !.tried = OneMore(@),
               !.auth_lockout_until = IF n > AuthFailures THEN now + Lockout ELSE @]

record_auth_failure(c) ==
  LET w == auth_window(c)
      n == w.auth_failure_count + 1
  IN [w EXCEPT !.auth_failure_count = n, !.tried = OneMore(@),
               !.auth_lockout_until = IF n >= AuthFailures THEN now + Lockout ELSE @]

-----------------------------------------------------------------------------
(* handle_client: one line of a peer.                                      *)

(* Over the rate: an error, whatever the line says.                        *)
RateLimited(p) ==
  /\ conn[p].st = "open" /\ ~check_rate_limit(conn[p])
  /\ conn' = [conn EXCEPT ![p] = rate_window(@)]
  /\ UNCHANGED <<now, active, accept>>

(* Authenticate: locked out, the right token or a wrong one.               *)
Authenticate(p) ==
  /\ conn[p].st = "open" /\ check_rate_limit(conn[p])
  /\ LET c == auth_checked(counted(conn[p])) IN
     conn' = [conn EXCEPT ![p] = IF check_auth_rate_limit(counted(conn[p]))
                                 THEN [c EXCEPT !.authenticated = TRUE] ELSE c]
  /\ UNCHANGED <<now, active, accept>>

(* A wrong token is counted.  (The log line slices it at byte 8: inside a  *)
(* character that panics and, in the release build, aborts the program,    *)
(* which ends the behaviour here.)                                         *)
AuthenticateWrong(p) ==
  /\ conn[p].st = "open" /\ check_rate_limit(conn[p])
  /\ LET c == auth_checked(counted(conn[p])) IN
     conn' = [conn EXCEPT ![p] = IF check_auth_rate_limit(counted(conn[p]))
                                 THEN record_auth_failure(c) ELSE c]
  /\ UNCHANGED <<now, active, accept>>

(* Ping, VerifyPairingCode, a line that is not a request, and every other  *)
(* request, which is served or answered AuthenticationRequired.            *)
OtherRequest(p) ==
  /\ conn[p].st = "open" /\ check_rate_limit(conn[p])
  /\ conn' = [conn EXCEPT ![p] = counted(@)]
  /\ UNCHANGED <<now, active, accept>>

Tick ==
  /\ now < MaxNow
  /\ now' = now + 1
  /\ UNCHANGED <<active, accept, conn>>

Line(p) == RateLimited(p) \/ Authenticate(p) \/ AuthenticateWrong(p) \/ OtherRequest(p)

Next ==
  \/ Tick
  \/ \E p \in Peer : Dial(p) \/ Accept(p) \/ Spawn(p) \/ Hangup(p) \/ Release(p) \/ Line(p)

Spec == Init /\ [][Next]_vars

-----------------------------------------------------------------------------
(* Every variable has its type.                                            *)
TypeOK ==
  /\ now \in Time /\ active \in 0..MaxConnections /\ accept \subseteq Peer
  /\ \A p \in Peer :
       /\ conn[p].st \in {"none", "dialled", "open", "returned"}
       /\ conn[p].authenticated \in BOOLEAN
       /\ conn[p].request_count \in 0..RateLimit
       /\ conn[p].auth_failure_count \in 0..AuthFailures

(* The counter of the accept loop is the number of connections being       *)
(* handled, and never above the limit: nothing leaks on an error of a      *)
(* client, and the load and the fetch_add, two steps, do not let one more  *)
(* in (server.rs: IpcServer::run).                                         *)
CounterIsConnections ==
  LET handled == {p \in Peer : conn[p].st \in {"open", "returned"}}
  IN active = Cardinality(handled) /\ active <= MaxConnections

(* How many of them fell on the ticks t .. t + window - 1.                 *)
Within(f, t, window) == f[IF t + window <= End THEN t + window ELSE End] - f[t]

(* Windows that start anew at a request let at most twice the limit        *)
(* through in any stretch of one window, wherever it starts.               *)
RateHolds ==
  \A p \in Peer : \A t \in Time : Within(conn[p].granted, t, RateWindow) <= 2 * RateLimit

(* However failures straddle a window's end and a lockout's, fewer than    *)
(* twice the allowed failures are tried in any stretch of one window.      *)
GuessesBounded ==
  \A p \in Peer : \A t \in Time : Within(conn[p].tried, t, AuthWindow) < 2 * AuthFailures

(* A connection that may not authenticate has a lockout that will expire:  *)
(* the failure counter alone never refuses, so no peer is shut out for     *)
(* longer than the lockout it was told.                                    *)
RefusedOnlyWhileLocked ==
  \A p \in Peer : conn[p].st = "open" /\ ~check_auth_rate_limit(conn[p]) =>
    locked(conn[p]) /\ conn[p].auth_lockout_until <= now + Lockout
================================================================================
