------------------------------ MODULE AgentProofs ------------------------------
(***************************************************************************)
(* Proofs about the agent, for any number of sessions and connections and  *)
(* any capacity of its channels and terminals.                             *)
(***************************************************************************)
EXTENDS Agent, WellFoundedInduction, TLAPS

-----------------------------------------------------------------------------
(* The inductive invariant                                                 *)

(* The type of the tunnel as a record.                                     *)
TunnelRec == [up : BOOLEAN, reg : BOOLEAN, q : Seq(Event)]
TunnelType == tun \in TunnelRec

IsCreate(e, s) == e.t = "create" /\ e.s = {s}
IsCommand(e) == e.t \in {"create", "data", "resize", "close"}

(* The events the orchestrator sends about a session name that session.    *)
Commands(q) ==
  \A i \in 1..Len(q) : IsCommand(q[i]) => \E s \in Session : q[i].s = {s}

(* CreateSession is queued at most once for a session, and not after it    *)
(* was answered.                                                           *)
CreateOnce(q, t) ==
  \A i \in 1..Len(q) : \A s \in Session :
    IsCreate(q[i], s) =>
      /\ t[s] = "nothing"
      /\ \A j \in 1..Len(q) : IsCreate(q[j], s) => j = i

(* Everything else about a session comes behind its CreateSession.         *)
AfterCreate(q, t) ==
  \A i \in 1..Len(q) : \A s \in Session :
    q[i].s = {s} /\ q[i].t # "create" =>
      t[s] # "nothing" \/ \E j \in 1..Len(q) : j < i /\ IsCreate(q[j], s)

Queue(q, t) == Commands(q) /\ CreateOnce(q, t) /\ AfterCreate(q, t)

(* The events not yet received, against what was said of their sessions.   *)
QueueInv == Queue(tun.q, told)

(* The sessions whose PTY is gone and whose SessionClose is still to be    *)
(* sent.                                                                   *)
Closing == IF loop.pc \in {"close", "exit"} THEN loop.todo ELSE {}

Serving == loop.pc \notin {"connect", "exited", "ended"}

(* ToldWhatThereIs at every step of the event loop.                        *)
ToldInv ==
  /\ Serving =>
       \A s \in Session :
         IF s \in Closing
         THEN pty[s].st = "none" /\ told[s] # "nothing"
         ELSE told[s] = "ready" <=> pty[s].st # "none"
  /\ loop.pc = "close" => \E s \in Session : loop.todo = {s}

Ready(s, g) == [t |-> "ready", s |-> s, gen |-> g]

(* What is in the output channel, and what a reader of this connection     *)
(* holds, comes from a session announced on this connection; there are no  *)
(* readers of connections to come.                                         *)
ChannelInv ==
  /\ \A i \in 1..Len(chan) : chan[i].gen = loop.gen /\ Ready(chan[i].s, loop.gen) \in wire
  /\ \A s \in Session :
       /\ rd[s][loop.gen].st # "none" => Ready(s, loop.gen) \in wire
       /\ \A g \in Gen : g > loop.gen => rd[s][g].st = "none"

AgentInv ==
  /\ TypeOK /\ TunnelType
  /\ QueueInv
  /\ NoShellLeftBehind /\ ToldInv
  /\ ChannelInv /\ OutputBelongs

-----------------------------------------------------------------------------
(* Lemmas about the operators                                              *)

LEMMA Numbers ==
  /\ Gen \subseteq Nat /\ MaxConns \in Nat /\ MaxFails \in Nat
  /\ EventCap \in Nat \ {0} /\ OutputCap \in Nat \ {0}
  /\ InBuf \in Nat \ {0} /\ OutBuf \in Nat \ {0}
  /\ Initial \in Nat /\ MaxDelay \in Nat /\ Multiplier \in Nat /\ Jitter \in Nat \ {0}
BY AgentAssumption DEF AgentAssumption, Gen

(* The least of two numbers is one of them.                                *)
LEMMA MinOfTwo ==
  ASSUME NEW a \in Nat, NEW b \in Nat
  PROVE  Min({a, b}) \in {a, b}
<1>1. \E x \in {a, b} : \A y \in {a, b} : x <= y
  OBVIOUS
<1> QED
  BY <1>1 DEF Min

(* The backoff keeps its type.                                             *)
LEMMA NextDelay ==
  ASSUME NEW b \in [current : Nat, delay : Nat, fails : 0..MaxFails], b.fails < MaxFails,
         NEW c \in next_delay(b)
  PROVE  c \in [current : Nat, delay : Nat, fails : 0..MaxFails]
<1> DEFINE jit == b.current \div Jitter
           top == b.current * Multiplier
<1>1. jit \in Nat /\ b.current \in Nat /\ b.fails \in Nat /\ b.fails + 1 \in 0..MaxFails
  BY Numbers
<1>2. top \in Nat
  BY <1>1, Numbers
<1>3. Min({top, MaxDelay}) \in Nat
  BY <1>2, MinOfTwo, Numbers
<1>4. PICK j \in 0..jit : c = [current |-> Min({top, MaxDelay}), delay |-> b.current + j,
                               fails |-> b.fails + 1]
  BY DEF next_delay
<1>5. b.current + j \in Nat
  BY <1>1
<1> HIDE DEF top, jit
<1> QED
  BY <1>1, <1>3, <1>4, <1>5

(* An event joins the queue.                                               *)
LEMMA Appended ==
  ASSUME NEW q \in Seq(Event), NEW t, NEW e \in Event, Queue(q, t),
         IsCommand(e) => \E s \in Session : e.s = {s},
         \A s \in Session : IsCreate(e, s) =>
           t[s] = "nothing" /\ \A j \in 1..Len(q) : ~IsCreate(q[j], s),
         \A s \in Session : e.s = {s} /\ e.t # "create" =>
           t[s] # "nothing" \/ \E j \in 1..Len(q) : IsCreate(q[j], s)
  PROVE  Queue(Append(q, e), t)
<1> DEFINE r == Append(q, e)
<1>1. /\ Len(q) \in Nat /\ Len(r) = Len(q) + 1
      /\ \A i \in 1..Len(q) : i \in 1..Len(r) /\ r[i] = q[i]
      /\ r[Len(q) + 1] = e
  OBVIOUS
<1> HIDE DEF r
<1>2. \A i \in 1..Len(r) : \/ i \in 1..Len(q) /\ r[i] = q[i]
                           \/ i = Len(q) + 1 /\ r[i] = e
  BY <1>1
<1>3. Commands(r)
  BY <1>2 DEF Commands, Queue
<1>4. CreateOnce(r, t)
  BY <1>2 DEF CreateOnce, Queue
<1>5. AfterCreate(r, t)
  <2> SUFFICES ASSUME NEW i \in 1..Len(r), NEW s \in Session,
                      r[i].s = {s}, r[i].t # "create", t[s] = "nothing"
               PROVE  \E j \in 1..Len(r) : j < i /\ IsCreate(r[j], s)
    BY DEF AfterCreate
  <2>1. \E j \in 1..Len(q) : j < i /\ IsCreate(q[j], s)
    BY <1>1, <1>2 DEF AfterCreate, Queue
  <2> QED
    BY <2>1, <1>1
<1> QED
  BY <1>3, <1>4, <1>5 DEF Queue, r

(* The first event is taken, and its session told something if it is a     *)
(* CreateSession.                                                          *)
LEMMA Popped ==
  ASSUME NEW q \in Seq(Event), q # <<>>, NEW t, NEW u, Queue(q, t),
         \A s \in Session :
           /\ u[s] # t[s] => u[s] # "nothing" /\ IsCreate(Head(q), s)
           /\ IsCreate(Head(q), s) => u[s] # "nothing"
  PROVE  Queue(Tail(q), u)
<1> DEFINE r == Tail(q)
<1>1. /\ Len(q) \in Nat /\ Len(r) = Len(q) - 1 /\ Head(q) = q[1] /\ 1 \in 1..Len(q)
      /\ \A i \in 1..Len(r) : i \in Nat /\ i + 1 \in 1..Len(q) /\ r[i] = q[i + 1]
      /\ \A j \in 1..Len(q) : j = 1 \/ (j - 1 \in 1..Len(r) /\ r[j - 1] = q[j])
  OBVIOUS
<1> HIDE DEF r
<1>2. Commands(r)
  BY <1>1 DEF Commands, Queue
<1>3. CreateOnce(r, u)
  <2> SUFFICES ASSUME NEW i \in 1..Len(r), NEW s \in Session, IsCreate(r[i], s)
               PROVE  u[s] = "nothing" /\ \A j \in 1..Len(r) : IsCreate(r[j], s) => j = i
    BY DEF CreateOnce
  <2>1. /\ t[s] = "nothing"
        /\ \A j \in 1..Len(q) : IsCreate(q[j], s) => j = i + 1
    BY <1>1 DEF CreateOnce, Queue
  <2>2. ~IsCreate(Head(q), s)
    BY <2>1, <1>1
  <2> QED
    BY <2>1, <2>2, <1>1
<1>4. AfterCreate(r, u)
  <2> SUFFICES ASSUME NEW i \in 1..Len(r), NEW s \in Session,
                      r[i].s = {s}, r[i].t # "create", u[s] = "nothing"
               PROVE  \E j \in 1..Len(r) : j < i /\ IsCreate(r[j], s)
    BY DEF AfterCreate
  <2>1. t[s] = "nothing" /\ ~IsCreate(q[1], s)
    BY <1>1
  <2>2. PICK j \in 1..Len(q) : j < i + 1 /\ IsCreate(q[j], s)
    BY <2>1, <1>1 DEF AfterCreate, Queue
  <2>3. j - 1 \in 1..Len(r) /\ j - 1 < i /\ IsCreate(r[j - 1], s)
    BY <2>1, <2>2, <1>1
  <2> QED
    BY <2>3
<1> QED
  BY <1>2, <1>3, <1>4 DEF Queue, r

(* Something more is said of a session.                                    *)
LEMMA Retold ==
  ASSUME NEW q, NEW t, NEW u, Queue(q, t),
         \A s \in Session : u[s] # t[s] => t[s] # "nothing" /\ u[s] # "nothing"
  PROVE  Queue(q, u)
BY DEF Queue, CreateOnce, AfterCreate

LEMMA EmptyQueue == ASSUME NEW t PROVE Queue(<<>>, t)
BY DEF Queue, Commands, CreateOnce, AfterCreate

-----------------------------------------------------------------------------
(* Types                                                                   *)

Pc == {"connect", "select", "check", "write", "close", "exit", "ended", "exited"}
ReaderType == [st : {"none", "read", "send", "done"}, out : 0..OutBuf, cancelled : BOOLEAN]
PtyType == [st : {"none", "alive", "exited"}, inb : 0..InBuf]
BackoffType == [current : Nat, delay : Nat, fails : 0..MaxFails]

Types ==
  /\ loop \in [pc : Pc, gen : Gen, todo : SUBSET Session]
  /\ backoff \in BackoffType
  /\ tun \in TunnelRec /\ Len(tun.q) <= EventCap
  /\ pty \in [Session -> PtyType]
  /\ rd \in [Session -> [Gen -> ReaderType]]
  /\ chan \in Seq([s : Session, gen : Gen]) /\ Len(chan) <= OutputCap
  /\ told \in [Session -> {"nothing", "ready", "error", "close"}]

LEMMA TypesTyped == Types <=> TypeOK /\ TunnelType
BY DEF Types, TypeOK, TunnelType, TunnelRec, Pc, ReaderType, PtyType, BackoffType

LEMMA InitTypes == Init => Types
<1> SUFFICES ASSUME Init PROVE Types
  OBVIOUS
<1>1. backoff \in BackoffType
  BY Numbers DEF Init, from_config, BackoffType
<1>2. NoReader \in ReaderType /\ NoPty \in PtyType
  BY Numbers DEF NoReader, ReaderType, NoPty, PtyType
<1>3. 0 \in Gen
  BY Numbers DEF Gen
<1>4. tun \in TunnelRec /\ Len(tun.q) <= EventCap
  BY Numbers DEF Init, NoTunnel, TunnelRec
<1>5. loop \in [pc : Pc, gen : Gen, todo : SUBSET Session]
  BY <1>3 DEF Init, Pc
<1>6. chan \in Seq([s : Session, gen : Gen]) /\ Len(chan) <= OutputCap
  BY Numbers DEF Init
<1> QED
  BY <1>1, <1>2, <1>4, <1>5, <1>6 DEF Init, Types, NotTold

LEMMA TunnelFields ==
  ASSUME NEW x \in TunnelRec
  PROVE  x.q \in Seq(Event) /\ x.reg \in BOOLEAN /\ x.up \in BOOLEAN
BY DEF TunnelRec

(* The tunnel with another queue.                                          *)
LEMMA TunnelUpdated ==
  ASSUME NEW x \in TunnelRec, NEW q \in Seq(Event)
  PROVE  [x EXCEPT !.q = q] \in TunnelRec /\ [x EXCEPT !.q = q].q = q
BY DEF TunnelRec

LEMMA TunnelAnswered ==
  ASSUME NEW x \in TunnelRec, NEW q \in Seq(Event), NEW reg \in BOOLEAN
  PROVE  [x EXCEPT !.q = q, !.reg = reg] \in TunnelRec /\ [x EXCEPT !.q = q, !.reg = reg].q = q
BY DEF TunnelRec

LEMMA TunnelEnded ==
  ASSUME NEW x \in TunnelRec, NEW q \in Seq(Event)
  PROVE  [x EXCEPT !.up = FALSE, !.q = q] \in TunnelRec /\ [x EXCEPT !.up = FALSE, !.q = q].q = q
BY DEF TunnelRec

(* Taking the first event off the queue leaves a session of the constant   *)
(* set in hand if it is about one.                                         *)
LEMMA EventTaken ==
  ASSUME Types, QueueInv, NEW t, Next_event(t)
  PROVE  /\ tun.q \in Seq(Event) /\ tun.q # <<>> /\ loop.pc = "select"
         /\ Head(tun.q) = tun.q[1] /\ 1 \in 1..Len(tun.q) /\ Head(tun.q).t = t
         /\ tun' \in TunnelRec
         /\ Len(tun'.q) <= EventCap
         /\ tun'.q = Tail(tun.q)
         /\ t \in {"create", "data", "resize", "close"} =>
              EventSession \in Session /\ Head(tun.q).s = {EventSession}
<1>1. /\ tun.q \in Seq(Event) /\ tun.q # <<>> /\ loop.pc = "select"
      /\ tun' = [tun EXCEPT !.q = Tail(@)] /\ Head(tun.q).t = t
  BY TunnelFields DEF Next_event, Types
<1>2. /\ Tail(tun.q) \in Seq(Event) /\ Len(Tail(tun.q)) = Len(tun.q) - 1
      /\ Head(tun.q) = tun.q[1] /\ 1 \in 1..Len(tun.q) /\ Len(tun.q) \in Nat
  BY <1>1
<1>3. /\ tun' \in TunnelRec
      /\ Len(tun'.q) <= EventCap
      /\ tun'.q = Tail(tun.q)
  <2>1. tun' \in TunnelRec /\ tun'.q = Tail(tun.q)
    BY <1>1, <1>2, TunnelUpdated DEF Types
  <2> QED
    BY <2>1, <1>2, Numbers DEF Types
<1>4. ASSUME t \in {"create", "data", "resize", "close"}
      PROVE  EventSession \in Session /\ Head(tun.q).s = {EventSession}
  <2>1. PICK s \in Session : Head(tun.q).s = {s}
    BY <1>1, <1>2, <1>4 DEF QueueInv, Queue, Commands, IsCommand
  <2>2. EventSession = s
    BY <2>1 DEF EventSession
  <2> QED
    BY <2>1, <2>2
<1> QED
  BY <1>1, <1>2, <1>3, <1>4

(* An event is delivered.                                                  *)
LEMMA EventDelivered ==
  ASSUME Types, NEW e \in Event, Deliver(e)
  PROVE  /\ tun' \in TunnelRec
         /\ Len(tun'.q) <= EventCap
         /\ tun'.q = Append(tun.q, e)
         /\ UNCHANGED <<loop, backoff, pty, rd, chan, wire, told>>
<1>1. /\ tun.q \in Seq(Event) /\ Len(tun.q) < EventCap
      /\ tun' = [tun EXCEPT !.q = Append(@, e), !.reg = @ \/ e.t = "accepted"]
      /\ UNCHANGED <<loop, backoff, pty, rd, chan, wire, told>>
  BY TunnelFields DEF Deliver, Types
<1>2. /\ Append(tun.q, e) \in Seq(Event) /\ Len(Append(tun.q, e)) = Len(tun.q) + 1
      /\ Len(tun.q) \in Nat
  BY <1>1
<1>3. PICK reg \in BOOLEAN : reg = (tun.reg \/ e.t = "accepted")
  BY TunnelFields DEF Types
<1>4. tun' = [tun EXCEPT !.q = Append(tun.q, e), !.reg = reg]
  BY <1>1, <1>3
<1>5. tun' \in TunnelRec /\ tun'.q = Append(tun.q, e)
  BY <1>2, <1>4, TunnelAnswered DEF Types
<1> QED
  BY <1>1, <1>2, <1>5, Numbers DEF Types

(* The events there are.                                                   *)
LEMMA Events ==
  /\ \A t \in {"accepted", "rejected", "heartbeat", "disconnected"} : [t |-> t, s |-> {}] \in Event
  /\ \A t \in {"create", "data", "resize", "close"} : \A s \in Session :
       [t |-> t, s |-> {s}] \in Event
BY DEF Event, Kind

(* The tunnel brings an event, or ends.                                    *)
Arrival ==
  DeliverAck \/ DeliverHeartbeat \/ ConnectionEnds \/ \E s \in Session : DeliverCommand(s)

LEMMA Arrives ==
  ASSUME Types, QueueInv, Arrival
  PROVE  /\ tun' \in TunnelRec /\ Len(tun'.q) <= EventCap
         /\ Queue(tun'.q, told)
         /\ UNCHANGED <<loop, backoff, pty, rd, chan, wire, told>>
<1>q. tun \in TunnelRec /\ tun.q \in Seq(Event) /\ Queue(tun.q, told)
  BY TunnelFields DEF Types, QueueInv
<1>b. ASSUME NEW t \in {"accepted", "rejected", "heartbeat", "disconnected"}
      PROVE  Queue(Append(tun.q, [t |-> t, s |-> {}]), told)
  <2> DEFINE e == [t |-> t, s |-> {}]
  <2>1. e \in Event /\ e.t = t /\ e.s = {}
    BY Events
  <2> HIDE DEF e
  <2>2. ~IsCommand(e) /\ \A s \in Session : ~IsCreate(e, s) /\ e.s # {s}
    BY <2>1 DEF IsCommand, IsCreate
  <2>3. Queue(Append(tun.q, e), told)
    BY <2>1, <2>2, <1>q, Appended
  <2> QED
    BY <2>3 DEF e
<1>c. ASSUME NEW t \in {"accepted", "rejected", "heartbeat"}, Deliver([t |-> t, s |-> {}])
      PROVE  /\ tun' \in TunnelRec /\ Len(tun'.q) <= EventCap
             /\ Queue(tun'.q, told)
             /\ UNCHANGED <<loop, backoff, pty, rd, chan, wire, told>>
  BY <1>b, <1>c, Events, EventDelivered
<1>1. CASE DeliverAck
  BY <1>1, <1>c DEF DeliverAck
<1>2. CASE DeliverHeartbeat
  BY <1>2, <1>c DEF DeliverHeartbeat
<1>3. CASE ConnectionEnds
  <2>1. PICK told_so \in BOOLEAN :
          /\ told_so => Len(tun.q) < EventCap
          /\ tun' = [tun EXCEPT !.up = FALSE,
                       !.q = IF told_so THEN Append(@, [t |-> "disconnected", s |-> {}]) ELSE @]
    BY <1>3 DEF ConnectionEnds
  <2>2. UNCHANGED <<loop, backoff, pty, rd, chan, wire, told>>
    BY <1>3 DEF ConnectionEnds
  <2>3. CASE ~told_so
    <3>1. tun' = [tun EXCEPT !.up = FALSE, !.q = tun.q]
      BY <2>1, <2>3
    <3>2. tun' \in TunnelRec /\ tun'.q = tun.q
      BY <3>1, <1>q, TunnelEnded
    <3> QED
      BY <3>2, <2>2, <1>q DEF Types
  <2>4. CASE told_so
    <3> DEFINE r == Append(tun.q, [t |-> "disconnected", s |-> {}])
    <3>1. tun' = [tun EXCEPT !.up = FALSE, !.q = r]
      BY <2>1, <2>4
    <3>2. r \in Seq(Event) /\ Len(r) = Len(tun.q) + 1 /\ Len(tun.q) \in Nat
      BY <1>q, Events
    <3>3. Queue(r, told)
      BY <1>b
    <3> HIDE DEF r
    <3>4. tun' \in TunnelRec /\ tun'.q = r
      BY <3>1, <3>2, <1>q, TunnelEnded
    <3>5. Len(tun'.q) <= EventCap
      BY <3>2, <3>4, <2>1, <2>4, Numbers
    <3> QED
      BY <3>3, <3>4, <3>5, <2>2
  <2> QED
    BY <2>3, <2>4
<1>4. ASSUME NEW s \in Session, DeliverCommand(s)
      PROVE  /\ tun' \in TunnelRec /\ Len(tun'.q) <= EventCap
             /\ Queue(tun'.q, told)
             /\ UNCHANGED <<loop, backoff, pty, rd, chan, wire, told>>
  <2>1. PICK e \in Event :
          /\ Deliver(e) /\ e.s = {s} /\ IsCommand(e)
          /\ e.t = "create" <=> ~Announced(s)
    BY <1>4, Events DEF DeliverCommand, IsCommand
  <2>2. Announced(s) <=> told[s] # "nothing" \/ \E j \in 1..Len(tun.q) : IsCreate(tun.q[j], s)
    <3>1. \A j \in 1..Len(tun.q) : tun.q[j] \in Event
      BY <1>q
    <3>2. \A f \in Event : f = [t |-> "create", s |-> {s}] <=> IsCreate(f, s)
      BY DEF Event, IsCreate
    <3> QED
      BY <3>1, <3>2 DEF Announced
  <2>3. \A v \in Session : e.s = {v} <=> v = s
    BY <2>1
  <2>4. Queue(Append(tun.q, e), told)
    <3>1. \A v \in Session : IsCreate(e, v) =>
            told[v] = "nothing" /\ \A j \in 1..Len(tun.q) : ~IsCreate(tun.q[j], v)
      BY <2>1, <2>2, <2>3 DEF IsCreate
    <3>2. \A v \in Session : e.s = {v} /\ e.t # "create" =>
            told[v] # "nothing" \/ \E j \in 1..Len(tun.q) : IsCreate(tun.q[j], v)
      BY <2>1, <2>2, <2>3
    <3> QED
      BY <3>1, <3>2, <2>1, <1>q, Appended
  <2> QED
    BY <2>1, <2>4, EventDelivered
<1> QED
  BY <1>1, <1>2, <1>3, <1>4 DEF Arrival

(* Where the main task is.                                                 *)
Loops == [pc : Pc, gen : Gen, todo : SUBSET Session]

LEMMA LoopMoves ==
  ASSUME NEW l \in Loops
  PROVE  /\ l.pc \in Pc /\ l.gen \in Gen /\ l.gen \in Nat /\ l.todo \subseteq Session
         /\ \A pc \in Pc :
              /\ [l EXCEPT !.pc = pc] \in Loops
              /\ \A todo \in SUBSET Session : [l EXCEPT !.pc = pc, !.todo = todo] \in Loops
         /\ \A pc \in Pc : \A gen \in Gen : [l EXCEPT !.pc = pc, !.gen = gen] \in Loops
BY Numbers DEF Loops

(* What a reader's record, and the table of readers, may become.           *)
LEMMA ReaderFields ==
  ASSUME NEW r \in ReaderType
  PROVE  r.st \in {"none", "read", "send", "done"} /\ r.out \in Nat /\ r.out <= OutBuf
<1>1. r.out \in 0..OutBuf
  BY DEF ReaderType
<1> QED
  BY <1>1, Numbers DEF ReaderType

LEMMA ReaderCancelled ==
  ASSUME NEW r \in ReaderType
  PROVE  [r EXCEPT !.cancelled = TRUE] \in ReaderType /\ [r EXCEPT !.cancelled = TRUE].st = r.st
BY DEF ReaderType

LEMMA ReaderGoes ==
  ASSUME NEW r \in ReaderType, NEW st \in {"none", "read", "send", "done"}
  PROVE  [r EXCEPT !.st = st] \in ReaderType /\ [r EXCEPT !.st = st].st = st
BY DEF ReaderType

LEMMA ReaderFills ==
  ASSUME NEW r \in ReaderType, NEW n \in 0..OutBuf
  PROVE  [r EXCEPT !.out = n] \in ReaderType /\ [r EXCEPT !.out = n].st = r.st
BY DEF ReaderType

Readers == [Session -> [Gen -> ReaderType]]

LEMMA ReaderSet ==
  ASSUME NEW f \in Readers, NEW s \in Session, NEW g \in Gen, NEW r \in ReaderType
  PROVE  /\ f[s][g] \in ReaderType
         /\ [f EXCEPT ![s][g] = r] \in Readers
         /\ [f EXCEPT ![s][g] = r][s][g] = r
         /\ \A v \in Session : \A h \in Gen :
              v # s \/ h # g => [f EXCEPT ![s][g] = r][v][h] = f[v][h]
BY DEF Readers

LEMMA NextTypes ==
  ASSUME Types, QueueInv, Next
  PROVE  Types'
<1> USE DEF Loops
<1>l. loop \in Loops
  BY DEF Types
<1>r. /\ NoReader \in ReaderType /\ NoPty \in PtyType
      /\ [st |-> "alive", inb |-> 0] \in PtyType
      /\ from_config \in BackoffType
  BY Numbers DEF NoReader, NoPty, ReaderType, PtyType, from_config, BackoffType
<1> HIDE DEF Loops
<1>1. CASE Retry
  <2>1. backoff' \in BackoffType
    BY <1>1, NextDelay DEF Retry, Types, BackoffType
  <2> QED
    BY <1>1, <2>1 DEF Retry, Types
<1>2. CASE HostKeyRejected
  BY <1>2, <1>r DEF HostKeyRejected, Types
<1>3. CASE AuthRejected
  <2>1. loop' \in Loops
    BY <1>3, <1>l, LoopMoves DEF AuthRejected, Pc
  <2> QED
    BY <1>3, <2>1, <1>r DEF AuthRejected, Types, Loops
<1>4. CASE Connected
  <2>1. loop.gen + 1 \in Gen
    <3>1. loop.gen \in Nat /\ loop.gen < MaxConns /\ MaxConns \in Nat
      BY <1>4, <1>l, LoopMoves, Numbers DEF Connected
    <3> QED
      BY <3>1 DEF Gen
  <2>2. loop' \in Loops
    BY <1>4, <2>1, <1>l, LoopMoves DEF Connected, Pc
  <2>3. tun' \in TunnelRec /\ Len(tun'.q) <= EventCap
    <3>1. tun' = [up |-> TRUE, reg |-> FALSE, q |-> <<>>]
      BY <1>4 DEF Connected, NoTunnel
    <3> QED
      BY <3>1, Numbers DEF TunnelRec
  <2>4. chan' \in Seq([s : Session, gen : Gen]) /\ Len(chan') <= OutputCap
    BY <1>4, Numbers DEF Connected
  <2>5. told' \in [Session -> {"nothing", "ready", "error", "close"}]
    BY <1>4 DEF Connected, NotTold
  <2> QED
    BY <1>4, <2>2, <2>3, <2>4, <2>5, <1>r DEF Connected, Types, Loops
<1>5. CASE ChannelClosed
  <2>1. loop' \in Loops
    BY <1>5, <1>l, LoopMoves DEF ChannelClosed, Pc
  <2> QED
    BY <1>5, <2>1 DEF ChannelClosed, Types, Loops
<1>6. CASE Registered
  <2>1. loop' \in Loops
    BY <1>6, <1>l, LoopMoves DEF Registered, Pc
  <2>2. tun' \in TunnelRec /\ Len(tun'.q) <= EventCap
    BY <1>6, EventTaken DEF Registered
  <2> QED
    BY <1>6, <2>1, <2>2 DEF Registered, Types, Loops
<1>7. CASE SessionResize
  <2>1. loop' \in Loops
    BY <1>7, <1>l, LoopMoves DEF SessionResize, Pc
  <2>2. tun' \in TunnelRec /\ Len(tun'.q) <= EventCap
    BY <1>7, EventTaken DEF SessionResize
  <2> QED
    BY <1>7, <2>1, <2>2 DEF SessionResize, Types, Loops
<1>8. CASE Heartbeat
  <2>1. loop' \in Loops
    BY <1>8, <1>l, LoopMoves DEF Heartbeat, Pc
  <2>2. tun' \in TunnelRec /\ Len(tun'.q) <= EventCap
    BY <1>8, EventTaken DEF Heartbeat
  <2> QED
    BY <1>8, <2>1, <2>2 DEF Heartbeat, Types, Loops
<1>9. CASE Drain
  <2>1. loop' \in Loops
    BY <1>9, <1>l, LoopMoves DEF Drain, Pc
  <2>2. tun' \in TunnelRec /\ Len(tun'.q) <= EventCap
    BY <1>9, EventTaken DEF Drain
  <2>3. rd' \in [Session -> [Gen -> ReaderType]]
    <3>1. rd' = [s \in Session |-> [rd[s] EXCEPT ![loop.gen] = [rd[s][loop.gen] EXCEPT !.cancelled = TRUE]]]
      BY <1>9 DEF Drain
    <3>2. \A s \in Session : [rd[s][loop.gen] EXCEPT !.cancelled = TRUE] \in ReaderType
      <4>1. \A s \in Session : rd[s][loop.gen] \in ReaderType
        BY <1>l, LoopMoves DEF Types
      <4> QED
        BY <4>1, ReaderCancelled
    <3> QED
      BY <3>1, <3>2, <1>l, LoopMoves DEF Types
  <2> QED
    BY <1>9, <2>1, <2>2, <2>3 DEF Drain, Types, Loops
<1>10. CASE CreateSession
  <2>1. loop' \in Loops
    BY <1>10, <1>l, LoopMoves DEF CreateSession, Pc
  <2>2. tun' \in TunnelRec /\ Len(tun'.q) <= EventCap /\ EventSession \in Session
    BY <1>10, EventTaken DEF CreateSession
  <2>3. PICK reader \in BOOLEAN :
          /\ create_session(EventSession)
          /\ rd' = [rd EXCEPT ![EventSession][loop.gen] =
                      [NoReader EXCEPT !.st = IF reader THEN "read" ELSE "none"]]
          /\ told' = [told EXCEPT ![EventSession] = "ready"]
    BY <1>10 DEF CreateSession
  <2>4. [NoReader EXCEPT !.st = IF reader THEN "read" ELSE "none"] \in ReaderType
    BY <1>r DEF ReaderType
  <2>5. rd' \in [Session -> [Gen -> ReaderType]]
    BY <2>2, <2>3, <2>4, <1>l, LoopMoves DEF Types
  <2>6. pty' \in [Session -> PtyType]
    BY <2>2, <2>3, <1>r DEF create_session, Types
  <2>7. told' \in [Session -> {"nothing", "ready", "error", "close"}]
    BY <2>2, <2>3 DEF Types
  <2> QED
    BY <1>10, <2>1, <2>2, <2>5, <2>6, <2>7 DEF CreateSession, Types, Loops
<1>11. CASE CreateFails
  <2>1. loop' \in Loops
    BY <1>11, <1>l, LoopMoves DEF CreateFails, Pc
  <2>2. tun' \in TunnelRec /\ Len(tun'.q) <= EventCap /\ EventSession \in Session
    BY <1>11, EventTaken DEF CreateFails
  <2>3. told' \in [Session -> {"nothing", "ready", "error", "close"}]
    BY <1>11, <2>2 DEF CreateFails, Types
  <2> QED
    BY <1>11, <2>1, <2>2, <2>3 DEF CreateFails, Types, Loops
<1>12. CASE SessionData
  <2>1. tun' \in TunnelRec /\ Len(tun'.q) <= EventCap /\ EventSession \in Session
    BY <1>12, EventTaken DEF SessionData
  <2>2. loop' \in Loops
    BY <1>12, <2>1, <1>l, LoopMoves DEF SessionData, Pc
  <2> QED
    BY <1>12, <2>1, <2>2 DEF SessionData, Types, Loops
<1>13. CASE SessionClose
  <2>1. tun' \in TunnelRec /\ Len(tun'.q) <= EventCap /\ EventSession \in Session
    BY <1>13, EventTaken DEF SessionClose
  <2>2. loop' \in Loops
    BY <1>13, <2>1, <1>l, LoopMoves DEF SessionClose, Pc
  <2>3. pty' \in [Session -> PtyType]
    BY <1>13, <1>r DEF SessionClose, close, Types
  <2> QED
    BY <1>13, <2>1, <2>2, <2>3 DEF SessionClose, Types, Loops
<1>14. ASSUME NEW s \in loop.todo, Write(s)
       PROVE  Types'
  <2>1. s \in Session /\ loop' \in Loops
    BY <1>14, <1>l, LoopMoves DEF Write, Pc
  <2>2. pty' \in [Session -> PtyType]
    BY <1>14, <2>1, Numbers DEF Write, Types, PtyType
  <2> QED
    BY <1>14, <2>1, <2>2 DEF Write, Types, Loops
<1>15. ASSUME NEW s \in loop.todo, Finish(s)
       PROVE  Types'
  <2>1. s \in Session /\ loop.gen \in Gen
    BY <1>l, LoopMoves
  <2>2. loop' \in Loops
    <3>1. PICK pc \in Pc : loop' = [loop EXCEPT !.todo = @ \ {s}, !.pc = pc]
      <4>1. CASE loop.pc = "close"
        BY <1>15, <4>1 DEF Finish, Pc
      <4>2. CASE loop.pc = "exit" /\ loop.todo = {s}
        BY <1>15, <4>2 DEF Finish, Pc
      <4>3. CASE loop.pc = "exit" /\ loop.todo # {s}
        BY <1>15, <4>3 DEF Finish, Pc
      <4> QED
        BY <1>15, <4>1, <4>2, <4>3 DEF Finish
    <3> QED
      BY <3>1, <1>l DEF Loops
  <2>3. rd' \in [Session -> [Gen -> ReaderType]]
    <3>1. rd' = [rd EXCEPT ![s][loop.gen] = [rd[s][loop.gen] EXCEPT !.cancelled = TRUE]]
      BY <1>15 DEF Finish
    <3> QED
      <4>1. rd[s][loop.gen] \in ReaderType
        BY <2>1 DEF Types
      <4>2. [rd[s][loop.gen] EXCEPT !.cancelled = TRUE] \in ReaderType
        BY <4>1, ReaderCancelled
      <4> QED
        BY <3>1, <4>2, <2>1, ReaderSet DEF Types, Readers
  <2>4. told' \in [Session -> {"nothing", "ready", "error", "close"}]
    BY <1>15, <2>1 DEF Finish, Types
  <2> QED
    BY <1>15, <2>2, <2>3, <2>4 DEF Finish, Types, Loops
<1>16. CASE CheckExited
  <2>1. loop' \in Loops
    BY <1>16, <1>l, LoopMoves DEF CheckExited, Exited, Pc
  <2>2. pty' \in [Session -> PtyType]
    BY <1>16, <1>r DEF CheckExited, close, Types
  <2> QED
    BY <1>16, <2>1, <2>2 DEF CheckExited, Types, Loops
<1>17. CASE Disconnected
  <2>1. loop' \in Loops
    BY <1>17, <1>l, LoopMoves DEF Disconnected, Pc
  <2>2. pty' \in [Session -> PtyType]
    BY <1>17, <1>r DEF Disconnected, close, Types
  <2>3. tun' \in TunnelRec /\ Len(tun'.q) <= EventCap
    BY <1>17, Numbers DEF Disconnected, NoTunnel, TunnelRec
  <2> QED
    BY <1>17, <2>1, <2>2, <2>3 DEF Disconnected, Types, Loops
<1>18. CASE SendOutput
  <2>1. chan' \in Seq([s : Session, gen : Gen]) /\ Len(chan') <= OutputCap
    BY <1>18, Numbers DEF SendOutput, Types
  <2> QED
    BY <1>18, <2>1 DEF SendOutput, Types
<1>19. CASE Arrival
  BY <1>19, Arrives DEF Types
<1>20. ASSUME NEW s \in Session, Prints(s) \/ Answers(s)
       PROVE  Types'
  <2>1. /\ CanPrint(s) /\ loop.gen \in Gen
        /\ rd' = [rd EXCEPT ![s][loop.gen].out = @ + 1]
        /\ UNCHANGED <<loop, backoff, tun, chan, wire, told>>
    BY <1>20, <1>l, LoopMoves DEF Prints, Answers
  <2>2. rd' \in [Session -> [Gen -> ReaderType]]
    <3>1. rd[s][loop.gen] \in ReaderType
      BY <2>1 DEF Types
    <3>2. rd[s][loop.gen].out + 1 \in 0..OutBuf
      BY <2>1, <3>1, ReaderFields, Numbers DEF CanPrint
    <3>3. rd' = [rd EXCEPT ![s][loop.gen] = [rd[s][loop.gen] EXCEPT !.out = rd[s][loop.gen].out + 1]]
      BY <2>1
    <3> QED
      <4>1. [rd[s][loop.gen] EXCEPT !.out = rd[s][loop.gen].out + 1] \in ReaderType
        BY <3>1, <3>2, ReaderFills
      <4> QED
        BY <3>3, <4>1, <2>1, ReaderSet DEF Types, Readers
  <2>3. pty' \in [Session -> PtyType]
    <3>1. CASE Prints(s)
      BY <3>1 DEF Prints, Types
    <3>2. CASE Answers(s)
      <4>1. pty[s] \in PtyType /\ pty[s].inb > 0 /\ pty' = [pty EXCEPT ![s].inb = @ - 1]
        BY <3>2 DEF Answers, Types
      <4>2. pty[s].inb - 1 \in 0..InBuf
        BY <4>1, Numbers DEF PtyType
      <4>3. [pty[s] EXCEPT !.inb = pty[s].inb - 1] \in PtyType
        BY <4>1, <4>2 DEF PtyType
      <4> QED
        BY <4>1, <4>3 DEF Types
    <3> QED
      BY <1>20, <3>1, <3>2
  <2> QED
    BY <2>1, <2>2, <2>3 DEF Types
<1>21. ASSUME NEW s \in Session, Exits(s)
       PROVE  Types'
  <2>1. pty' \in [Session -> PtyType]
    BY <1>21 DEF Exits, Types, PtyType
  <2> QED
    BY <1>21, <2>1 DEF Exits, Types
<1>22. ASSUME NEW s \in Session, NEW g \in Gen, ReaderReads(s, g) \/ ReaderEof(s, g)
       PROVE  Types'
  <2>1. rd' \in [Session -> [Gen -> ReaderType]]
    <3>0. rd[s][g] \in ReaderType
      BY DEF Types
    <3>1. CASE ReaderReads(s, g)
      <4>1. rd[s][g].out - 1 \in 0..OutBuf
        BY <3>0, <3>1, ReaderFields, Numbers DEF ReaderReads
      <4>2. rd' = [rd EXCEPT ![s][g] = [rd[s][g] EXCEPT !.st = "send", !.out = rd[s][g].out - 1]]
        BY <3>0, <3>1 DEF ReaderReads, Types
      <4>3. [rd[s][g] EXCEPT !.st = "send", !.out = rd[s][g].out - 1] \in ReaderType
        BY <3>0, <4>1 DEF ReaderType
      <4> QED
        BY <4>2, <4>3, ReaderSet DEF Types, Readers
    <3>2. CASE ReaderEof(s, g)
      <4>1. rd' = [rd EXCEPT ![s][g] = [rd[s][g] EXCEPT !.st = "done"]]
        BY <3>2 DEF ReaderEof
      <4> QED
        BY <3>0, <4>1, ReaderGoes, ReaderSet DEF Types, Readers
    <3> QED
      BY <1>22, <3>1, <3>2
  <2> QED
    BY <1>22, <2>1 DEF ReaderReads, ReaderEof, Types
<1>23. ASSUME NEW s \in Session, NEW g \in Gen, ReaderSends(s, g)
       PROVE  Types'
  <2>1. rd' \in [Session -> [Gen -> ReaderType]]
    <3>1. PICK st \in {"read", "done"} :
            rd' = [rd EXCEPT ![s][g] = [rd[s][g] EXCEPT !.st = st]]
      BY <1>23 DEF ReaderSends
    <3>2. rd[s][g] \in ReaderType
      BY DEF Types
    <3> QED
      BY <3>1, <3>2, ReaderGoes, ReaderSet DEF Types, Readers
  <2>2. chan' \in Seq([s : Session, gen : Gen]) /\ Len(chan') <= OutputCap
    <3>1. CASE Open(g)
      <4>1. /\ chan' = Append(chan, [s |-> s, gen |-> g]) /\ Len(chan) < OutputCap
            /\ chan \in Seq([s : Session, gen : Gen]) /\ [s |-> s, gen |-> g] \in [s : Session, gen : Gen]
        BY <1>23, <3>1 DEF ReaderSends, Types
      <4>2. chan' \in Seq([s : Session, gen : Gen]) /\ Len(chan') = Len(chan) + 1 /\ Len(chan) \in Nat
        BY <4>1
      <4> QED
        BY <4>1, <4>2, Numbers
    <3>2. CASE ~Open(g)
      BY <1>23, <3>2 DEF ReaderSends, Types
    <3> QED
      BY <3>1, <3>2
  <2> QED
    BY <1>23, <2>1, <2>2 DEF ReaderSends, Types
<1> QED
  BY <1>1, <1>2, <1>3, <1>4, <1>5, <1>6, <1>7, <1>8, <1>9, <1>10, <1>11, <1>12, <1>13, <1>14,
     <1>15, <1>16, <1>17, <1>18, <1>19, <1>20, <1>21, <1>22, <1>23
  DEF Next, Connecting, EventLoop, Arrival, Reader

-----------------------------------------------------------------------------
(* The queue of events                                                     *)

LEMMA NextQueue ==
  ASSUME Types, QueueInv, ToldInv, Next
  PROVE  QueueInv'
<1>q. Queue(tun.q, told) /\ told \in [Session -> {"nothing", "ready", "error", "close"}]
  BY DEF QueueInv, Types
<1>u. ASSUME UNCHANGED <<tun, told>>
      PROVE  QueueInv'
  BY <1>u DEF QueueInv
<1>e. ASSUME tun'.q = <<>>
      PROVE  QueueInv'
  BY <1>e, EmptyQueue DEF QueueInv
<1>p. ASSUME NEW t, t # "create", Next_event(t), UNCHANGED told
      PROVE  QueueInv'
  <2>1. /\ tun.q \in Seq(Event) /\ tun.q # <<>> /\ tun'.q = Tail(tun.q)
        /\ Head(tun.q).t = t
    BY <1>p, EventTaken
  <2>2. \A s \in Session : ~IsCreate(Head(tun.q), s)
    BY <2>1, <1>p DEF IsCreate
  <2>3. Queue(Tail(tun.q), told)
    BY <2>1, <2>2, <1>q, Popped
  <2> QED
    BY <2>1, <2>3, <1>p DEF QueueInv
<1>c. ASSUME NEW what \in {"ready", "error"}, Next_event("create"),
             told' = [told EXCEPT ![EventSession] = what]
      PROVE  QueueInv'
  <2>1. /\ tun.q \in Seq(Event) /\ tun.q # <<>> /\ tun'.q = Tail(tun.q)
        /\ Head(tun.q).t = "create"
        /\ EventSession \in Session /\ Head(tun.q).s = {EventSession}
    BY <1>c, EventTaken
  <2>2. \A s \in Session : IsCreate(Head(tun.q), s) <=> s = EventSession
    BY <2>1 DEF IsCreate
  <2>3. PICK u : u = [told EXCEPT ![EventSession] = what]
    OBVIOUS
  <2>4. \A s \in Session : u[s] = IF s = EventSession THEN what ELSE told[s]
    BY <2>1, <2>3, <1>q
  <2>5. Queue(Tail(tun.q), u)
    BY <2>1, <2>2, <2>4, <1>q, Popped
  <2> QED
    BY <2>1, <2>3, <2>5, <1>c DEF QueueInv
<1>1. CASE Connecting
  <2>1. CASE Connected
    BY <2>1, <1>e DEF Connected, NoTunnel
  <2>2. CASE Retry \/ HostKeyRejected \/ AuthRejected
    BY <2>2, <1>u DEF Retry, HostKeyRejected, AuthRejected
  <2> QED
    BY <1>1, <2>1, <2>2 DEF Connecting
<1>2. CASE Registered \/ Drain \/ SessionData \/ SessionResize \/ SessionClose \/ Heartbeat
  BY <1>2, <1>p DEF Registered, Drain, SessionData, SessionResize, SessionClose, Heartbeat
<1>3. CASE CreateSession
  <2>1. Next_event("create") /\ told' = [told EXCEPT ![EventSession] = "ready"]
    BY <1>3 DEF CreateSession
  <2> QED
    BY <2>1, <1>c
<1>4. CASE CreateFails
  <2>1. Next_event("create") /\ told' = [told EXCEPT ![EventSession] = "error"]
    BY <1>4 DEF CreateFails
  <2> QED
    BY <2>1, <1>c
<1>5. CASE ChannelClosed \/ CheckExited \/ SendOutput
  BY <1>5, <1>u DEF ChannelClosed, CheckExited, SendOutput
<1>6. ASSUME NEW s \in loop.todo, Write(s)
      PROVE  QueueInv'
  BY <1>6, <1>u DEF Write
<1>7. ASSUME NEW s \in loop.todo, Finish(s)
      PROVE  QueueInv'
  <2>1. s \in Session /\ told[s] # "nothing"
    BY <1>7 DEF Finish, Types, ToldInv, Serving, Closing
  <2>2. PICK u : u = [told EXCEPT ![s] = "close"]
    OBVIOUS
  <2>3. \A v \in Session : u[v] = IF v = s THEN "close" ELSE told[v]
    BY <2>1, <2>2, <1>q
  <2>4. Queue(tun.q, u)
    BY <2>1, <2>3, <1>q, Retold
  <2>5. tun' = tun /\ told' = u
    BY <1>7, <2>2 DEF Finish
  <2> QED
    BY <2>4, <2>5 DEF QueueInv
<1>8. CASE Disconnected
  BY <1>8, <1>e DEF Disconnected, NoTunnel
<1>9. CASE Arrival
  <2>1. Queue(tun'.q, told) /\ told' = told
    BY <1>9, Arrives
  <2> QED
    BY <2>1 DEF QueueInv
<1>10. ASSUME NEW s \in Session, Prints(s) \/ Answers(s) \/ Exits(s)
       PROVE  QueueInv'
  BY <1>10, <1>u DEF Prints, Answers, Exits
<1>11. ASSUME NEW s \in Session, NEW g \in Gen, Reader(s, g)
       PROVE  QueueInv'
  BY <1>11, <1>u DEF Reader, ReaderReads, ReaderEof, ReaderSends
<1> QED
  BY <1>1, <1>2, <1>3, <1>4, <1>5, <1>6, <1>7, <1>8, <1>9, <1>10, <1>11
  DEF Next, EventLoop, Arrival

-----------------------------------------------------------------------------
(* Shells, and what is said of them                                        *)

ShellInv == NoShellLeftBehind /\ ToldInv

(* The shells keep running or not, and nobody is told anything: what was   *)
(* true of a place without sessions to close is true of the next one.      *)
LEMMA ShellsKept ==
  ASSUME Types, ShellInv, loop.pc \in {"select", "check", "write"},
         loop'.pc \in {"select", "check", "write", "ended"},
         \A s \in Session : pty'[s].st = pty[s].st, UNCHANGED told
  PROVE  ShellInv'
BY DEF ShellInv, NoShellLeftBehind, ToldInv, Serving, Closing

LEMMA NextShells ==
  ASSUME Types, QueueInv, ShellInv, Next
  PROVE  ShellInv'
<1>l. loop \in Loops
  BY DEF Types, Loops
<1>u. ASSUME UNCHANGED <<loop, pty, told>>
      PROVE  ShellInv'
  BY <1>u DEF ShellInv, NoShellLeftBehind, ToldInv, Serving, Closing
<1>1. CASE Retry \/ HostKeyRejected \/ SendOutput
  BY <1>1, <1>u DEF Retry, HostKeyRejected, SendOutput
<1>2. CASE AuthRejected
  <2>1. loop.pc = "connect" /\ loop'.pc = "exited" /\ pty' = pty
    BY <1>2, <1>l DEF AuthRejected, Loops
  <2> QED
    BY <2>1 DEF ShellInv, NoShellLeftBehind, ToldInv, Serving
<1>3. CASE Connected
  <2>1. loop.pc = "connect" /\ loop'.pc = "select" /\ pty' = pty /\ told' = NotTold
    BY <1>3, <1>l DEF Connected, Loops
  <2>2. \A s \in Session : pty'[s].st = "none" /\ told'[s] = "nothing"
    BY <2>1 DEF ShellInv, NoShellLeftBehind, NoPty, NotTold
  <2> QED
    BY <2>1, <2>2 DEF ShellInv, NoShellLeftBehind, ToldInv, Serving, Closing
<1>4. CASE ChannelClosed \/ Registered \/ SessionResize \/ Heartbeat \/ Drain
  <2>1. loop.pc = "select" /\ loop'.pc \in {"check", "ended"} /\ pty' = pty /\ told' = told
    BY <1>4, <1>l DEF ChannelClosed, Registered, SessionResize, Heartbeat, Drain, Next_event, Loops
  <2> QED
    BY <2>1, ShellsKept
<1>5. CASE SessionData
  <2>1. loop.pc = "select" /\ loop'.pc \in {"check", "write"} /\ pty' = pty /\ told' = told
    BY <1>5, <1>l DEF SessionData, Next_event, Loops
  <2> QED
    BY <2>1, ShellsKept
<1>6. ASSUME NEW s \in loop.todo, Write(s)
      PROVE  ShellInv'
  <2>1. loop.pc = "write" /\ loop'.pc = "check" /\ told' = told /\ s \in Session
    BY <1>6, <1>l DEF Write, Loops
  <2>2. \A v \in Session : pty'[v].st = pty[v].st
    <3>1. CASE pty[s].st = "alive"
      <4>1. pty' = [pty EXCEPT ![s] = [pty[s] EXCEPT !.inb = @ + 1]]
        BY <1>6, <3>1 DEF Write
      <4> QED
        BY <4>1, <2>1 DEF Types, PtyType
    <3>2. CASE pty[s].st # "alive"
      BY <1>6, <3>2 DEF Write
    <3> QED
      BY <3>1, <3>2
  <2> QED
    BY <2>1, <2>2, ShellsKept
<1>7. CASE CreateSession
  <2>1. loop.pc = "select" /\ loop'.pc = "check" /\ EventSession \in Session
    BY <1>7, <1>l, EventTaken DEF CreateSession, Loops
  <2>2. PICK x : x = EventSession
    OBVIOUS
  <2>3. /\ pty' = [pty EXCEPT ![x] = [st |-> "alive", inb |-> 0]]
        /\ told' = [told EXCEPT ![x] = "ready"]
    BY <1>7, <2>2 DEF CreateSession, create_session
  <2>4. \A s \in Session : told'[s] = "ready" <=> pty'[s].st # "none"
    BY <2>1, <2>2, <2>3 DEF ShellInv, ToldInv, Serving, Closing, Types
  <2> QED
    BY <2>1, <2>4 DEF ShellInv, NoShellLeftBehind, ToldInv, Serving, Closing
<1>8. CASE CreateFails
  <2>1. /\ loop.pc = "select" /\ loop'.pc = "check" /\ EventSession \in Session
        /\ 1 \in 1..Len(tun.q) /\ IsCreate(tun.q[1], EventSession)
    BY <1>8, <1>l, EventTaken DEF CreateFails, Loops, IsCreate
  <2>2. PICK x \in Session : x = EventSession
    BY <2>1
  <2>3. told[x] = "nothing"
    BY <2>1, <2>2 DEF QueueInv, Queue, CreateOnce
  <2>4. pty' = pty /\ told' = [told EXCEPT ![x] = "error"]
    BY <1>8, <2>2 DEF CreateFails
  <2>5. \A s \in Session : told'[s] = "ready" <=> pty'[s].st # "none"
    BY <2>1, <2>3, <2>4 DEF ShellInv, ToldInv, Serving, Closing, Types
  <2> QED
    BY <2>1, <2>5 DEF ShellInv, NoShellLeftBehind, ToldInv, Serving, Closing
<1>9. CASE SessionClose
  <2>1. /\ loop.pc = "select" /\ loop' = [loop EXCEPT !.pc = "close", !.todo = {EventSession}]
        /\ EventSession \in Session
        /\ 1 \in 1..Len(tun.q) /\ tun.q[1].s = {EventSession} /\ tun.q[1].t = "close"
    BY <1>9, EventTaken DEF SessionClose
  <2>2. PICK x \in Session : x = EventSession
    BY <2>1
  <2>3. told[x] # "nothing"
    <3>1. ~ \E j \in 1..Len(tun.q) : j < 1
      BY DEF Types
    <3> QED
      BY <2>1, <2>2, <3>1 DEF QueueInv, Queue, AfterCreate
  <2>4. loop'.pc = "close" /\ loop'.todo = {x}
    BY <2>1, <2>2, <1>l DEF Loops
  <2>5. told' = told /\ \A s \in Session : pty'[s] = IF s = x THEN NoPty ELSE pty[s]
    BY <1>9, <2>2 DEF SessionClose, close
  <2>6. \A s \in Session :
          IF s \in {x} THEN pty'[s].st = "none" /\ told'[s] # "nothing"
                       ELSE told'[s] = "ready" <=> pty'[s].st # "none"
    BY <2>1, <2>3, <2>5 DEF ShellInv, ToldInv, Serving, Closing, NoPty
  <2> QED
    BY <2>4, <2>6 DEF ShellInv, NoShellLeftBehind, ToldInv, Serving, Closing
<1>10. CASE CheckExited
  <2>1. PICK ex : ex = Exited
    OBVIOUS
  <2>2. /\ loop.pc = "check"
        /\ loop'.pc = (IF ex = {} THEN "select" ELSE "exit") /\ loop'.todo = ex
    BY <1>10, <2>1, <1>l DEF CheckExited, Loops
  <2>3. told' = told /\ \A s \in Session : pty'[s] = IF s \in ex THEN NoPty ELSE pty[s]
    BY <1>10, <2>1 DEF CheckExited, close
  <2>4. \A s \in Session : told[s] = "ready" <=> pty[s].st # "none"
    BY <2>2 DEF ShellInv, ToldInv, Serving, Closing
  <2>5. \A s \in ex : s \in Session /\ pty[s].st = "exited"
    BY <2>1 DEF Exited
  <2>6. \A s \in Session :
          IF s \in ex THEN pty'[s].st = "none" /\ told'[s] # "nothing"
                      ELSE told'[s] = "ready" <=> pty'[s].st # "none"
    BY <2>3, <2>4, <2>5 DEF NoPty
  <2> QED
    BY <2>2, <2>6 DEF ShellInv, NoShellLeftBehind, ToldInv, Serving, Closing
<1>11. ASSUME NEW s \in loop.todo, Finish(s)
       PROVE  ShellInv'
  <2>1. /\ s \in Session /\ loop.pc \in {"close", "exit"} /\ pty' = pty
        /\ told' = [told EXCEPT ![s] = "close"] /\ loop'.todo = loop.todo \ {s}
    BY <1>11, <1>l DEF Finish, Loops
  <2>2. \A v \in Session :
          IF v \in loop'.todo THEN pty'[v].st = "none" /\ told'[v] # "nothing"
                              ELSE told'[v] = "ready" <=> pty'[v].st # "none"
    BY <2>1 DEF ShellInv, ToldInv, Serving, Closing, Types
  <2>3. CASE loop.pc = "close"
    <3>1. loop'.pc = "check"
      BY <1>11, <2>3, <1>l DEF Finish, Loops
    <3>2. loop.todo = {s}
      BY <2>1, <2>3 DEF ShellInv, ToldInv
    <3> QED
      BY <2>1, <2>2, <3>1, <3>2 DEF ShellInv, NoShellLeftBehind, ToldInv, Serving, Closing
  <2>4. CASE loop.pc = "exit" /\ loop.todo = {s}
    <3>1. loop'.pc = "select"
      BY <1>11, <2>4, <1>l DEF Finish, Loops
    <3> QED
      BY <2>1, <2>2, <2>4, <3>1 DEF ShellInv, NoShellLeftBehind, ToldInv, Serving, Closing
  <2>5. CASE loop.pc = "exit" /\ loop.todo # {s}
    <3>1. loop'.pc = "exit"
      BY <1>11, <2>5, <1>l DEF Finish, Loops
    <3> QED
      BY <2>1, <2>2, <3>1 DEF ShellInv, NoShellLeftBehind, ToldInv, Serving, Closing
  <2> QED
    BY <2>1, <2>3, <2>4, <2>5
<1>12. CASE Disconnected
  <2>1. loop'.pc = "connect" /\ \A s \in Session : pty'[s] = NoPty
    BY <1>12, <1>l DEF Disconnected, close, Loops
  <2> QED
    BY <2>1 DEF ShellInv, NoShellLeftBehind, ToldInv, Serving
<1>13. CASE Arrival
  BY <1>13, <1>u, Arrives
<1>14. ASSUME NEW s \in Session, Prints(s)
       PROVE  ShellInv'
  BY <1>14, <1>u DEF Prints
<1>15. ASSUME NEW s \in Session, Answers(s) \/ Exits(s)
       PROVE  ShellInv'
  <2>1. pty[s].st = "alive" /\ loop' = loop /\ told' = told
    BY <1>15 DEF Answers, Exits, CanPrint
  <2>2. /\ pty'[s].st # "none"
        /\ \A v \in Session \ {s} : pty'[v] = pty[v]
    <3>1. CASE Answers(s)
      <4>1. pty' = [pty EXCEPT ![s] = [pty[s] EXCEPT !.inb = @ - 1]]
        BY <3>1 DEF Answers
      <4>2. [pty[s] EXCEPT !.inb = @ - 1].st = "alive"
        BY <2>1 DEF Types, PtyType
      <4> QED
        BY <4>1, <4>2 DEF Types
    <3>2. CASE Exits(s)
      <4>1. pty' = [pty EXCEPT ![s] = [pty[s] EXCEPT !.st = "exited"]]
        BY <3>2 DEF Exits
      <4>2. [pty[s] EXCEPT !.st = "exited"].st = "exited"
        BY DEF Types, PtyType
      <4> QED
        BY <4>1, <4>2 DEF Types
    <3> QED
      BY <1>15, <3>1, <3>2
  <2>3. loop.pc \notin {"connect", "exited"}
    BY <2>1 DEF ShellInv, NoShellLeftBehind, NoPty
  <2> QED
    BY <2>1, <2>2, <2>3 DEF ShellInv, NoShellLeftBehind, ToldInv, Serving, Closing
<1>16. ASSUME NEW s \in Session, NEW g \in Gen, Reader(s, g)
       PROVE  ShellInv'
  BY <1>16, <1>u DEF Reader, ReaderReads, ReaderEof, ReaderSends
<1> QED
  BY <1>1, <1>2, <1>3, <1>4, <1>5, <1>6, <1>7, <1>8, <1>9, <1>10, <1>11, <1>12, <1>13, <1>14,
     <1>15, <1>16
  DEF Next, Connecting, EventLoop, Arrival

-----------------------------------------------------------------------------
(* Output, and the connection it is sent on                                *)

OutputInv == ChannelInv /\ OutputBelongs

(* Nothing new in the channel, and no reader starts.                       *)
LEMMA OutputKept ==
  ASSUME Types, OutputInv, loop'.gen = loop.gen, wire \subseteq wire',
         \A w \in wire' : w.t = "data" => w \in wire,
         \A i \in 1..Len(chan') : \E j \in 1..Len(chan) : chan'[i] = chan[j],
         \A s \in Session : \A g \in Gen : rd'[s][g].st # "none" => rd[s][g].st # "none"
  PROVE  OutputInv'
<1>1. loop.gen \in Gen
  BY DEF Types
<1>3. \A i \in 1..Len(chan') : chan'[i].gen = loop'.gen /\ Ready(chan'[i].s, loop'.gen) \in wire'
  BY DEF OutputInv, ChannelInv
<1>4. \A s \in Session :
        /\ rd'[s][loop'.gen].st # "none" => Ready(s, loop'.gen) \in wire'
        /\ \A g \in Gen : g > loop'.gen => rd'[s][g].st = "none"
  BY <1>1 DEF OutputInv, ChannelInv
<1>5. OutputBelongs'
  BY DEF OutputInv, OutputBelongs
<1> QED
  BY <1>3, <1>4, <1>5 DEF OutputInv, ChannelInv

LEMMA NextOutput ==
  ASSUME Types, QueueInv, OutputInv, Next
  PROVE  OutputInv'
<1>l. loop \in Loops /\ loop.gen \in Gen
  BY DEF Types, Loops
<1>r. \A s \in Session : \A g \in Gen : rd[s][g] \in ReaderType
  BY DEF Types
<1>k. ASSUME loop'.gen = loop.gen, UNCHANGED <<chan, wire>>,
             \A s \in Session : \A g \in Gen : rd'[s][g].st # "none" => rd[s][g].st # "none"
      PROVE  OutputInv'
  <2>1. wire \subseteq wire' /\ \A w \in wire' : w.t = "data" => w \in wire
    BY <1>k
  <2>2. \A i \in 1..Len(chan') : \E j \in 1..Len(chan) : chan'[i] = chan[j]
    BY <1>k
  <2> QED
    BY <1>k, <2>1, <2>2, OutputKept
<1>1. CASE Retry \/ HostKeyRejected \/ AuthRejected
  <2>1. loop'.gen = loop.gen /\ UNCHANGED <<chan, wire, rd>>
    BY <1>1, <1>l DEF Retry, HostKeyRejected, AuthRejected, Loops
  <2> QED
    BY <2>1, <1>k
<1>2. CASE Connected
  <2>1. /\ loop'.gen = loop.gen + 1 /\ loop.gen \in Nat /\ loop'.gen \in Gen
        /\ chan' = <<>> /\ wire' = {} /\ rd' = rd
    <3>1. loop.gen \in Nat /\ loop.gen < MaxConns /\ MaxConns \in Nat
      BY <1>2, <1>l, LoopMoves, Numbers DEF Connected
    <3> QED
      BY <3>1, <1>2, <1>l DEF Connected, Loops, Gen
  <2>2. \A s \in Session : \A g \in Gen : g > loop.gen => rd[s][g].st = "none"
    BY DEF OutputInv, ChannelInv
  <2>3. \A s \in Session : rd'[s][loop'.gen].st = "none" /\
          \A g \in Gen : g > loop'.gen => rd'[s][g].st = "none"
    <3>1. loop'.gen > loop.gen /\ \A g \in Gen : g > loop'.gen => g > loop.gen
      BY <2>1, Numbers
    <3> QED
      BY <2>1, <2>2, <3>1
  <2> QED
    BY <2>1, <2>3 DEF OutputInv, ChannelInv, OutputBelongs
<1>3. CASE ChannelClosed \/ Registered \/ SessionData \/ SessionResize \/ SessionClose \/ Heartbeat
           \/ CheckExited \/ Disconnected
  <2>1. loop'.gen = loop.gen /\ UNCHANGED <<chan, wire, rd>>
    BY <1>3, <1>l DEF ChannelClosed, Registered, SessionData, SessionResize, SessionClose, Heartbeat,
                     CheckExited, Disconnected, Loops
  <2> QED
    BY <2>1, <1>k
<1>4. CASE Drain
  <2>1. loop'.gen = loop.gen /\ UNCHANGED <<chan, wire>>
    BY <1>4, <1>l DEF Drain, Loops
  <2>2. rd' = [s \in Session |-> [rd[s] EXCEPT ![loop.gen] = [rd[s][loop.gen] EXCEPT !.cancelled = TRUE]]]
    BY <1>4 DEF Drain
  <2>3. \A s \in Session : [rd[s][loop.gen] EXCEPT !.cancelled = TRUE].st = rd[s][loop.gen].st
    BY <1>l, <1>r, ReaderCancelled
  <2>4. \A s \in Session : \A g \in Gen : rd'[s][g].st = rd[s][g].st
    BY <2>2, <2>3, <1>l DEF Types
  <2> QED
    BY <2>1, <2>4, <1>k
<1>5. CASE CreateSession
  <2>1. EventSession \in Session /\ loop'.gen = loop.gen /\ chan' = chan
    BY <1>5, <1>l, EventTaken DEF CreateSession, Loops
  <2>2. PICK x \in Session : x = EventSession
    BY <2>1
  <2>3. PICK r \in ReaderType : rd' = [rd EXCEPT ![x][loop.gen] = r]
    <3>1. PICK reader \in BOOLEAN :
            rd' = [rd EXCEPT ![x][loop.gen] = [NoReader EXCEPT !.st = IF reader THEN "read" ELSE "none"]]
      BY <1>5, <2>2 DEF CreateSession
    <3>2. [NoReader EXCEPT !.st = IF reader THEN "read" ELSE "none"] \in ReaderType
      <4>1. NoReader \in ReaderType
        BY Numbers DEF NoReader, ReaderType
      <4> QED
        BY <4>1, ReaderGoes
    <3> QED
      BY <3>1, <3>2
  <2>4. wire' = wire \cup {Ready(x, loop.gen)}
    BY <1>5, <2>2 DEF CreateSession, Sent, Ready
    <2>6. \A s \in Session : \A g \in Gen : s # x \/ g # loop.gen => rd'[s][g] = rd[s][g]
    BY <2>3, <1>l DEF Types
  <2>7. \A i \in 1..Len(chan') : chan'[i].gen = loop'.gen /\ Ready(chan'[i].s, loop'.gen) \in wire'
    BY <2>1, <2>4 DEF OutputInv, ChannelInv
  <2>8. ASSUME NEW s \in Session
        PROVE  rd'[s][loop'.gen].st # "none" => Ready(s, loop'.gen) \in wire'
    <3>1. CASE s = x
      BY <3>1, <2>1, <2>4
    <3>2. CASE s # x
      BY <3>2, <2>1, <2>4, <2>6, <1>l DEF OutputInv, ChannelInv
    <3> QED
      BY <3>1, <3>2
  <2>9. \A s \in Session : \A g \in Gen : g > loop'.gen => rd'[s][g].st = "none"
    <3>1. \A g \in Gen : g > loop.gen => g # loop.gen
      BY <1>l, Numbers
    <3> QED
      BY <3>1, <2>1, <2>6 DEF OutputInv, ChannelInv
  <2>10. OutputBelongs'
    <3>1. Ready(x, loop.gen).t # "data"
      BY DEF Ready
    <3> QED
      BY <3>1, <2>1, <2>4 DEF OutputInv, OutputBelongs
  <2> QED
    BY <2>7, <2>8, <2>9, <2>10 DEF OutputInv, ChannelInv
<1>6. CASE CreateFails
  <2>1. loop'.gen = loop.gen /\ UNCHANGED <<chan, rd>>
    BY <1>6, <1>l DEF CreateFails, Loops
  <2>2. wire' = wire \cup {[t |-> "error", s |-> EventSession, gen |-> loop.gen]}
    BY <1>6 DEF CreateFails, Sent
  <2>3. wire \subseteq wire' /\ \A w \in wire' : w.t = "data" => w \in wire
    BY <2>2
  <2> QED
    BY <2>1, <2>3, OutputKept
<1>7. ASSUME NEW s \in loop.todo, Write(s)
      PROVE  OutputInv'
  <2>1. loop'.gen = loop.gen /\ UNCHANGED <<chan, wire, rd>>
    BY <1>7, <1>l DEF Write, Loops
  <2> QED
    BY <2>1, <1>k
<1>8. ASSUME NEW s \in loop.todo, Finish(s)
      PROVE  OutputInv'
  <2>1. loop'.gen = loop.gen /\ UNCHANGED chan /\ s \in Session
    BY <1>8, <1>l DEF Finish, Loops
  <2>2. wire' = wire \cup {[t |-> "close", s |-> s, gen |-> loop.gen]}
    BY <1>8 DEF Finish, Sent
  <2>3. wire \subseteq wire' /\ \A w \in wire' : w.t = "data" => w \in wire
    BY <2>2
  <2>4. rd' = [rd EXCEPT ![s][loop.gen] = [rd[s][loop.gen] EXCEPT !.cancelled = TRUE]]
    BY <1>8 DEF Finish
  <2>5. [rd[s][loop.gen] EXCEPT !.cancelled = TRUE].st = rd[s][loop.gen].st
    BY <2>1, <1>l, <1>r, ReaderCancelled
  <2>6. \A v \in Session : \A g \in Gen : rd'[v][g].st = rd[v][g].st
    BY <2>4, <2>5, <2>1, <1>l DEF Types
  <2> QED
    BY <2>1, <2>3, <2>6, OutputKept
<1>9. CASE SendOutput
  <2>1. /\ chan # <<>> /\ chan' = Tail(chan) /\ UNCHANGED <<loop, rd>>
        /\ wire' = wire \cup {[t |-> "data", s |-> Head(chan).s, gen |-> Head(chan).gen]}
        /\ chan \in Seq([s : Session, gen : Gen])
    BY <1>9 DEF SendOutput, Types
  <2>2. /\ Head(chan) = chan[1] /\ 1 \in 1..Len(chan)
        /\ \A i \in 1..Len(chan') : i + 1 \in 1..Len(chan) /\ chan'[i] = chan[i + 1]
    BY <2>1
  <2>3. Head(chan).gen = loop.gen /\ Ready(Head(chan).s, loop.gen) \in wire
    BY <2>2 DEF OutputInv, ChannelInv
    <2>5. ChannelInv'
    BY <2>1, <2>2 DEF OutputInv, ChannelInv
  <2>6. OutputBelongs'
    BY <2>1, <2>3 DEF OutputInv, OutputBelongs, Ready
  <2> QED
    BY <2>5, <2>6 DEF OutputInv
<1>10. CASE Arrival
  BY <1>10, <1>k, Arrives
<1>11. ASSUME NEW s \in Session, Exits(s)
       PROVE  OutputInv'
  BY <1>11, <1>k DEF Exits
<1>12. ASSUME NEW s \in Session, Prints(s) \/ Answers(s)
       PROVE  OutputInv'
  <2>1. /\ UNCHANGED <<loop, chan, wire>> /\ CanPrint(s)
        /\ rd' = [rd EXCEPT ![s][loop.gen] = [rd[s][loop.gen] EXCEPT !.out = rd[s][loop.gen].out + 1]]
    BY <1>12 DEF Prints, Answers
  <2>2. rd[s][loop.gen].out + 1 \in 0..OutBuf
    BY <2>1, <1>l, <1>r, ReaderFields, Numbers DEF CanPrint
  <2>3. [rd[s][loop.gen] EXCEPT !.out = rd[s][loop.gen].out + 1].st = rd[s][loop.gen].st
    BY <2>2, <1>l, <1>r, ReaderFills
  <2>4. \A v \in Session : \A g \in Gen : rd'[v][g].st = rd[v][g].st
    BY <2>1, <2>3, <1>l DEF Types
  <2> QED
    BY <2>1, <2>4, <1>k
<1>13. ASSUME NEW s \in Session, NEW g \in Gen, ReaderReads(s, g) \/ ReaderEof(s, g)
       PROVE  OutputInv'
  <2>1. UNCHANGED <<loop, chan, wire>> /\ rd[s][g].st # "none"
    BY <1>13 DEF ReaderReads, ReaderEof
  <2>2. \A v \in Session : \A h \in Gen : v # s \/ h # g => rd'[v][h] = rd[v][h]
    BY <1>13 DEF ReaderReads, ReaderEof, Types
  <2>3. \A v \in Session : \A h \in Gen : rd'[v][h].st # "none" => rd[v][h].st # "none"
    BY <2>1, <2>2
  <2> QED
    BY <2>1, <2>3, <1>k
<1>14. ASSUME NEW s \in Session, NEW g \in Gen, ReaderSends(s, g)
       PROVE  OutputInv'
  <2>1. UNCHANGED <<loop, wire>> /\ rd[s][g].st # "none"
    BY <1>14 DEF ReaderSends
  <2>2. \A v \in Session : \A h \in Gen : v # s \/ h # g => rd'[v][h] = rd[v][h]
    BY <1>14 DEF ReaderSends, Types
  <2>3. \A v \in Session : \A h \in Gen : rd'[v][h].st # "none" => rd[v][h].st # "none"
    BY <2>1, <2>2
  <2>4. CASE ~Open(g)
    BY <2>1, <2>3, <2>4, <1>14, <1>k DEF ReaderSends
  <2>5. CASE Open(g)
    <3>1. /\ chan' = Append(chan, [s |-> s, gen |-> g]) /\ g = loop.gen
          /\ chan \in Seq([s : Session, gen : Gen])
      BY <1>14, <2>5 DEF ReaderSends, Open, Types
    <3>2. \A i \in 1..Len(chan') :
            \/ i \in 1..Len(chan) /\ chan'[i] = chan[i]
            \/ chan'[i] = [s |-> s, gen |-> g]
      BY <3>1
    <3>3. Ready(s, loop.gen) \in wire
      BY <2>1, <3>1 DEF OutputInv, ChannelInv
        <3>5. \A i \in 1..Len(chan') : chan'[i].gen = loop'.gen /\ Ready(chan'[i].s, loop'.gen) \in wire'
      BY <2>1, <3>1, <3>2, <3>3 DEF OutputInv, ChannelInv
    <3>6. \A v \in Session :
            /\ rd'[v][loop'.gen].st # "none" => Ready(v, loop'.gen) \in wire'
            /\ \A h \in Gen : h > loop'.gen => rd'[v][h].st = "none"
      BY <2>1, <2>3, <1>l DEF OutputInv, ChannelInv
    <3>7. OutputBelongs'
      BY <2>1 DEF OutputInv, OutputBelongs
    <3> QED
      BY <3>5, <3>6, <3>7 DEF OutputInv, ChannelInv
  <2> QED
    BY <2>4, <2>5
<1> QED
  BY <1>1, <1>2, <1>3, <1>4, <1>5, <1>6, <1>7, <1>8, <1>9, <1>10, <1>11, <1>12, <1>13, <1>14
  DEF Next, Connecting, EventLoop, Arrival, Reader

-----------------------------------------------------------------------------
(* The backoff against its formula                                         *)

(* A non-empty set of natural numbers has a least element; the induction   *)
(* on natural numbers below argues by least counterexamples.               *)
LEMMA LeastNat ==
  ASSUME NEW T, T \subseteq Nat, T # {}
  PROVE  \E x \in T : \A y \in T : x <= y
<1> DEFINE R == OpToRel(<, Nat)
<1>1. R = {ss \in Nat \X Nat : ss[1] < ss[2]}
  BY Zenon DEF OpToRel
<1>2. IsWellFoundedOn(R, Nat)
  BY NatLessThanWellFounded, Zenon
<1> HIDE DEF R
<1>3. PICK x \in T : \A y \in T : ~(<<y, x>> \in R)
  BY <1>2, WFMin
<1>4. \A y \in T : x <= y
  <2> TAKE y \in T
  <2>1. x \in Nat /\ y \in Nat
    OBVIOUS
  <2>2. <<y, x>> \in Nat \X Nat /\ <<y, x>>[1] = y /\ <<y, x>>[2] = x
    BY <2>1
  <2>3. y < x => <<y, x>> \in R
    BY <2>2, <1>1
  <2> QED
    BY <2>1, <2>3, <1>3
<1> QED
  BY <1>4

(* g is Multiplier to the power of 0 up to n.                              *)
Powers(g, n) == g[0] = 1 /\ \A i \in 1..n : g[i] = Multiplier * g[i - 1]

LEMMA PowersExist ==
  ASSUME NEW n \in Nat
  PROVE  \E g \in [0..n -> Nat] : Powers(g, n)
<1> DEFINE T == {k \in Nat : ~ \E g \in [0..k -> Nat] : Powers(g, k)}
<1>1. SUFFICES ASSUME T # {} PROVE FALSE
  OBVIOUS
<1>2. T \subseteq Nat
  OBVIOUS
<1>3. PICK k \in T : \A y \in T : k <= y
  <2> HIDE DEF T
  <2> QED
    BY <1>1, <1>2, LeastNat
<1>4. k # 0
  <2>1. [i \in 0..0 |-> 1] \in [0..0 -> Nat]
    OBVIOUS
  <2>2. Powers([i \in 0..0 |-> 1], 0)
    BY DEF Powers
  <2> QED
    BY <2>1, <2>2
<1>5. k - 1 \in Nat /\ k - 1 \notin T
  <2> HIDE DEF T
  <2> QED
    BY <1>2, <1>3, <1>4
<1>6. PICK g \in [0..(k - 1) -> Nat] : Powers(g, k - 1)
  BY <1>5
<1> DEFINE h == [i \in 0..k |-> IF i = k THEN Multiplier * g[k - 1] ELSE g[i]]
<1>7. h \in [0..k -> Nat]
  BY <1>4, Numbers
<1>8. Powers(h, k)
  BY <1>4, <1>6 DEF Powers
<1> QED
  BY <1>7, <1>8

(* The recursive definition defines the powers.                            *)
LEMMA PowerIs == Power \in [0..MaxFails -> Nat] /\ Powers(Power, MaxFails)
<1>1. PICK g \in [0..MaxFails -> Nat] : Powers(g, MaxFails)
  BY Numbers, PowersExist
<1>2. g = [n \in 0..MaxFails |-> IF n = 0 THEN 1 ELSE Multiplier * g[n - 1]]
  BY <1>1, Numbers DEF Powers
<1>3. Power = [n \in 0..MaxFails |-> IF n = 0 THEN 1 ELSE Multiplier * Power[n - 1]]
  BY <1>2 DEF Power
<1>4. Power[0] = 1 /\ \A i \in 1..MaxFails : Power[i] = Multiplier * Power[i - 1]
  BY <1>3, Numbers
<1> DEFINE T == {n \in 0..MaxFails : Power[n] \notin Nat}
<1>5. SUFFICES ASSUME T # {} PROVE FALSE
  BY <1>3, <1>4 DEF Powers
<1>6. PICK k \in T : \A y \in T : k <= y
  <2>1. T \subseteq Nat
    OBVIOUS
  <2> HIDE DEF T
  <2> QED
    BY <1>5, <2>1, LeastNat
<1>7. k \in 1..MaxFails
  BY <1>4, Numbers
<1>8. k - 1 \in 0..MaxFails /\ k - 1 \notin T
  <2> HIDE DEF T
  <2> QED
    BY <1>6, <1>7, Numbers
<1> QED
  BY <1>4, <1>7, <1>8, Numbers

LEMMA MinIs ==
  ASSUME NEW a \in Nat, NEW b \in Nat
  PROVE  Min({a, b}) = IF a <= b THEN a ELSE b
<1>1. \E x \in {a, b} : \A y \in {a, b} : x <= y
  OBVIOUS
<1>2. Min({a, b}) \in {a, b} /\ \A y \in {a, b} : Min({a, b}) <= y
  BY <1>1 DEF Min
<1> QED
  BY <1>2

(* Capping the product of a capped number and a factor caps the product of *)
(* the number and the factor.                                              *)
LEMMA CapTwice ==
  ASSUME NEW a \in Nat, NEW c \in Nat, NEW k \in Nat \ {0}
  PROVE  Min({Min({a, c}) * k, c}) = Min({k * a, c})
<1>1. k * a \in Nat /\ c * k \in Nat /\ a * k = k * a
  OBVIOUS
<1>2. CASE a <= c
  BY <1>1, <1>2, MinIs
<1>3. CASE c < a
  <2>1. c * k >= c /\ k * a >= c
    <3>1. k * a >= a /\ c * k >= c
      OBVIOUS
    <3> QED
      BY <3>1, <1>1, <1>3
  <2>2. Min({a, c}) = c
    BY <1>3, MinIs
  <2>3. Min({c * k, c}) = c /\ Min({k * a, c}) = c
    BY <1>1, <2>1, MinIs
  <2> QED
    BY <2>2, <2>3
<1> QED
  BY <1>2, <1>3

(* A larger number gives a larger quotient.                                *)
LEMMA JitterBound ==
  ASSUME NEW a \in Nat, NEW b \in Nat, a <= b, NEW d \in Nat \ {0}
  PROVE  /\ a \div d \in Nat /\ b \div d \in Nat
         /\ a \div d <= b \div d
OBVIOUS

(* One delay takes the formula from a number of failures to the next.      *)
Formula(b) ==
  /\ b.current = Min({Initial * Power[b.fails], MaxDelay})
  /\ b.delay <= MaxDelay + MaxDelay \div Jitter

LEMMA FormulaStart == Formula(from_config)
<1>1. Initial <= MaxDelay /\ Initial \in Nat /\ MaxDelay \in Nat
  BY AgentAssumption, Numbers DEF AgentAssumption
<1>2. Initial * Power[0] = Initial
  BY <1>1, PowerIs DEF Powers
<1>3. MaxDelay \div Jitter \in Nat
  BY Numbers
<1> QED
  BY <1>1, <1>2, <1>3, MinIs DEF Formula, from_config

LEMMA FormulaStep ==
  ASSUME NEW b \in [current : Nat, delay : Nat, fails : 0..MaxFails], b.fails < MaxFails,
         Formula(b), NEW c \in next_delay(b)
  PROVE  Formula(c)
<1> DEFINE p == Power[b.fails]
           a == Initial * p
<1>1. /\ b.fails \in 0..MaxFails /\ b.fails + 1 \in 1..MaxFails
      /\ (b.fails + 1) - 1 = b.fails
  BY Numbers
<1>2. p \in Nat /\ Power[b.fails + 1] = Multiplier * p
  BY <1>1, PowerIs DEF Powers
<1>3. a \in Nat /\ Initial * (Multiplier * p) = Multiplier * a
  BY <1>2, Numbers
<1>4. PICK j \in 0..(b.current \div Jitter) :
        c = [current |-> Min({b.current * Multiplier, MaxDelay}), delay |-> b.current + j,
             fails |-> b.fails + 1]
  BY DEF next_delay
<1>5. c.current = Min({Initial * Power[c.fails], MaxDelay})
  <2>1. b.current = Min({a, MaxDelay})
    BY DEF Formula
  <2>2. Multiplier \in Nat \ {0}
    BY AgentAssumption DEF AgentAssumption
  <2>3. Min({b.current * Multiplier, MaxDelay}) = Min({Multiplier * a, MaxDelay})
    <3> HIDE DEF a, p
    <3> QED
      BY <2>1, <2>2, <1>3, CapTwice, Numbers
  <2>4. c.current = Min({b.current * Multiplier, MaxDelay}) /\ c.fails = b.fails + 1
    BY <1>4
  <2> QED
    BY <2>3, <2>4, <1>2, <1>3
<1>6. c.delay <= MaxDelay + MaxDelay \div Jitter
  <2> DEFINE q == b.current \div Jitter
             r == MaxDelay \div Jitter
  <2>1. b.current \in Nat /\ b.current <= MaxDelay
    <3> HIDE DEF a, p
    <3>1. b.current = Min({a, MaxDelay})
      BY DEF Formula, a, p
    <3> QED
      BY <3>1, <1>3, MinIs, Numbers
  <2>2. q \in Nat /\ r \in Nat /\ q <= r
    BY <2>1, JitterBound, Numbers
  <2>3. c.delay = b.current + j /\ j \in 0..q
    BY <1>4
  <2>4. c.delay <= MaxDelay + r
    <3> HIDE DEF q, r
    <3> QED
      BY <2>1, <2>2, <2>3, Numbers
  <2> QED
    BY <2>4
<1> QED
  BY <1>5, <1>6 DEF Formula

(* Every step leaves the backoff alone, starts it afresh or asks it for    *)
(* the next delay.                                                         *)
LEMMA NextBackoff ==
  ASSUME Next
  PROVE  \/ backoff' = backoff
         \/ backoff' = from_config
         \/ backoff.fails < MaxFails /\ backoff' \in next_delay(backoff)
<1>1. CASE Connecting
  BY <1>1 DEF Connecting, Retry, HostKeyRejected, AuthRejected, Connected
<1>2. CASE EventLoop
  BY <1>2 DEF EventLoop, ChannelClosed, Registered, Drain, CreateSession, CreateFails,
              SessionData, SessionResize, SessionClose, Heartbeat, Write, Finish,
              CheckExited, Disconnected
<1>3. CASE SendOutput \/ DeliverAck \/ DeliverHeartbeat \/ ConnectionEnds
  BY <1>3 DEF SendOutput, DeliverAck, DeliverHeartbeat, ConnectionEnds, Deliver
<1>4. ASSUME NEW s \in Session,
             \/ DeliverCommand(s) \/ Prints(s) \/ Answers(s) \/ Exits(s)
             \/ \E g \in Gen : Reader(s, g)
      PROVE  backoff' = backoff
  BY <1>4 DEF DeliverCommand, Deliver, Prints, Answers, Exits, Reader, ReaderReads, ReaderEof,
              ReaderSends
<1> QED
  BY <1>1, <1>2, <1>3, <1>4 DEF Next

-----------------------------------------------------------------------------
(* The invariant and what follows from it                                  *)

(* Along every execution of the agent the shells, their readers, the output *)
(* channel and what the orchestrator was told fit together.                *)
THEOREM AgentInvariance == Spec => []AgentInv
<1>1. Init => AgentInv
  <2> SUFFICES ASSUME Init PROVE AgentInv
    OBVIOUS
  <2>1. Types
    BY InitTypes
  <2>2. QueueInv
    BY EmptyQueue DEF Init, QueueInv, NoTunnel
  <2>3. NoShellLeftBehind /\ ToldInv
    BY DEF Init, NoShellLeftBehind, ToldInv, Serving
  <2>4. ChannelInv /\ OutputBelongs
    <3>1. /\ chan = <<>> /\ wire = {} /\ loop.gen \in Gen
          /\ \A s \in Session : \A g \in Gen : rd[s][g].st = "none"
      BY <2>1 DEF Init, NoReader, Types
    <3> QED
      BY <3>1 DEF ChannelInv, OutputBelongs
  <2> QED
    BY <2>1, <2>2, <2>3, <2>4, TypesTyped DEF AgentInv
<1>2. AgentInv /\ [Next]_vars => AgentInv'
  <2> SUFFICES ASSUME AgentInv, [Next]_vars PROVE AgentInv'
    OBVIOUS
  <2>0. Types /\ QueueInv /\ ShellInv /\ OutputInv /\ ToldInv
    BY TypesTyped DEF AgentInv, ShellInv, OutputInv
  <2>1. CASE Next
    <3>1. Types' /\ QueueInv' /\ ShellInv' /\ OutputInv'
      BY <2>0, <2>1, NextTypes, NextQueue, NextShells, NextOutput
    <3>2. TypeOK' /\ TunnelType'
      BY <3>1, TypesTyped, PTL
    <3> QED
      BY <3>1, <3>2 DEF AgentInv, ShellInv, OutputInv
  <2>2. CASE UNCHANGED vars
    BY <2>2 DEF vars, AgentInv, TypeOK, TunnelType, QueueInv, NoShellLeftBehind, ToldInv, Serving,
                Closing, ChannelInv, Ready, OutputBelongs
  <2> QED
    BY <2>1, <2>2
<1> QED
  BY <1>1, <1>2, PTL DEF Spec

(* Every variable keeps its type: in particular the queue of events and    *)
(* the output channel stay within their capacities.                        *)
THEOREM AgentTypeCorrect == Spec => []TypeOK
<1>1. AgentInv => TypeOK
  BY DEF AgentInv
<1> QED
  BY <1>1, AgentInvariance, PTL

(* However the event loop of a connection ended, no shell of it is left    *)
(* when the agent connects again (main.rs, run_foreground).                *)
THEOREM NoShellSurvives == Spec => []NoShellLeftBehind
<1>1. AgentInv => NoShellLeftBehind
  BY DEF AgentInv
<1> QED
  BY <1>1, AgentInvariance, PTL

(* In its select, the agent has told the orchestrator SessionReady, and    *)
(* not SessionClose, of exactly the shells it has (main.rs,                *)
(* run_event_loop).                                                        *)
THEOREM ToldCorrectly == Spec => []ToldWhatThereIs
<1>1. AgentInv => ToldWhatThereIs
  BY DEF AgentInv, ToldInv, ToldWhatThereIs, Serving, Closing
<1> QED
  BY <1>1, AgentInvariance, PTL

(* Terminal output goes to the connection its shell was announced on       *)
(* (main.rs, spawn_pty_reader: readers may outlive their connection).      *)
THEOREM OutputStaysHome == Spec => []OutputBelongs
<1>1. AgentInv => OutputBelongs
  BY DEF AgentInv
<1> QED
  BY <1>1, AgentInvariance, PTL

(* After any number of failed attempts the delay is the initial one times  *)
(* the multiplier that often, capped, and no sleep is longer than the cap  *)
(* and its jitter (reconnect.rs, next_delay).                              *)
THEOREM BackoffCorrect == Spec => []BackoffFollowsFormula
<1>1. Init => BackoffFollowsFormula
  BY FormulaStart DEF Init, Formula, BackoffFollowsFormula
<1>2. AgentInv /\ BackoffFollowsFormula /\ [Next]_vars => BackoffFollowsFormula'
  <2> SUFFICES ASSUME AgentInv, BackoffFollowsFormula, [Next]_vars
               PROVE  BackoffFollowsFormula'
    OBVIOUS
  <2>1. Formula(backoff)
    BY DEF Formula, BackoffFollowsFormula
  <2>2. backoff \in [current : Nat, delay : Nat, fails : 0..MaxFails]
    BY DEF AgentInv, TypeOK
  <2>3. \/ backoff' = backoff
        \/ backoff' = from_config
        \/ backoff.fails < MaxFails /\ backoff' \in next_delay(backoff)
    BY NextBackoff DEF vars
  <2>4. PICK c : c = backoff'
    OBVIOUS
  <2>5. Formula(c)
    BY <2>1, <2>2, <2>3, <2>4, FormulaStart, FormulaStep
  <2> QED
    BY <2>4, <2>5 DEF Formula, BackoffFollowsFormula
<1> QED
  BY <1>1, <1>2, AgentInvariance, PTL DEF Spec
================================================================================
