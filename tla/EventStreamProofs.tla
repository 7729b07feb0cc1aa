-------------------------- MODULE EventStreamProofs --------------------------
(***************************************************************************)
(* Proofs about the event stream, for any number of machines, events,      *)
(* restarts, connections and requests, and any capacity of the ring and of *)
(* the socket.                                                             *)
(***************************************************************************)
EXTENDS EventStream, TLAPS

-----------------------------------------------------------------------------
(* The inductive invariant                                                 *)

AnyMachine == Machine \cup {NoMachine}
Line ==
  [t : {"authenticated"}, seq : Nat] \cup [t : {"response", "torn"}]
  \cup [t : {"snapshot"}, seq : Nat, machines : SUBSET AnyMachine]
  \cup [t : {"event"}, seq : Nat, kind : Kind, m : AnyMachine]
TaskType == [pc : {"idle", "wrap", "send"}, kind : Kind, m : AnyMachine, seq : Nat]
ConnType ==
  [st : {"none", "open", "auth", "closed"}, q : Seq(Envelope), missed : Nat,
   subscribed : BOOLEAN, listing : BOOLEAN, listed : SUBSET AnyMachine]
SubType == [pc : {"off", "authing", "ready"}, last : Nat, need : BOOLEAN]
UiType ==
  [machines : SUBSET AnyMachine, fetch : {"no", "taken", "done"}, list : SUBSET AnyMachine, out : Nat]

Types ==
  /\ seq \in Nat /\ live \in SUBSET AnyMachine /\ task \in TaskType /\ conn \in ConnType
  /\ down \in Seq(Line) /\ sub \in SubType /\ ui \in UiType

(* A line that came out of the ring.                                       *)
Sent(l) == l.t = "event" /\ l.kind # "dropped"

(* The lines d on the wire, the ring q, the event k in the hands of the    *)
(* event task and the next number n follow each other, and all of them     *)
(* come after the number o that the frontend expects next.  Once the       *)
(* connection is gone only what is on the wire can still be read.          *)
Shown(d, o) == \A i \in 1..Len(d) : Sent(d[i]) => o <= d[i].seq
Rising(d) ==
  \A i, j \in 1..Len(d) : i < j /\ Sent(d[i]) /\ Sent(d[j]) => d[i].seq < d[j].seq
Below(d, q, n, o) ==
  /\ o <= n
  /\ \A i \in 1..Len(d) : Sent(d[i]) => d[i].seq < n
  /\ \A i \in 1..Len(q) : q[i].seq < n
Ring(d, q, o) ==
  /\ \A i \in 1..Len(q) : o <= q[i].seq
  /\ \A i, j \in 1..Len(q) : i < j => q[i].seq < q[j].seq
  /\ \A i \in 1..Len(d), j \in 1..Len(q) : Sent(d[i]) => d[i].seq < q[j].seq

Ordered(open, d, q, k, n, o) ==
  /\ Shown(d, o) /\ Rising(d)
  /\ open => /\ Below(d, q, n, o) /\ Ring(d, q, o)
             /\ k.pc = "send" => Below(d, q, k.seq, o)

Open == conn.st \in {"open", "auth"}

(* The number in the hands of the event task has been given out.           *)
Numbered == task.pc = "send" => task.seq < seq

StreamInv == Types /\ Numbered /\ Ordered(Open, down, conn.q, task, seq, ui.out)

-----------------------------------------------------------------------------
(* Lemmas about the operators                                              *)

LEMMA AppendIs ==
  ASSUME NEW S, NEW q \in Seq(S), NEW e \in S
  PROVE  /\ Append(q, e) \in Seq(S)
         /\ \A i \in 1..Len(Append(q, e)) :
              i \in Nat /\ (\/ i \in 1..Len(q) /\ Append(q, e)[i] = q[i]
                            \/ (\A j \in 1..Len(q) : j < i) /\ i \notin 1..Len(q) /\ Append(q, e)[i] = e)
<1>1. Len(q) \in Nat /\ Len(Append(q, e)) = Len(q) + 1 /\ Append(q, e) \in Seq(S)
  OBVIOUS
<1>2. \A i \in 1..Len(q) : Append(q, e)[i] = q[i]
  OBVIOUS
<1>3. Append(q, e)[Len(q) + 1] = e
  OBVIOUS
<1> QED
  BY <1>1, <1>2, <1>3

LEMMA TailIs ==
  ASSUME NEW S, NEW q \in Seq(S), q # <<>>
  PROVE  /\ Tail(q) \in Seq(S) /\ Head(q) = q[1] /\ 1 \in 1..Len(q) /\ Head(q) \in S
         /\ \A i \in 1..Len(Tail(q)) :
              i \in Nat /\ i + 1 \in 1..Len(q) /\ 1 < i + 1 /\ Tail(q)[i] = q[i + 1]
<1>1. Len(q) \in Nat /\ Len(Tail(q)) = Len(q) - 1 /\ Tail(q) \in Seq(S) /\ 1 <= Len(q)
  OBVIOUS
<1>2. \A i \in 1..(Len(q) - 1) : Tail(q)[i] = q[i + 1]
  OBVIOUS
<1> QED
  BY <1>1, <1>2

(* A line from the ring has a number, and so has an envelope.              *)
LEMMA Numbers ==
  /\ \A l \in Line : Sent(l) => l.seq \in Nat
  /\ \A e \in Envelope : e.seq \in Nat
BY DEF Line, Sent, Envelope

(* What is not from the ring may come and go.                              *)
LEMMA FewerLines ==
  ASSUME NEW d, NEW r, NEW q, NEW n, NEW o,
         \A i \in 1..Len(r) : Sent(r[i]) => i \in 1..Len(d) /\ r[i] = d[i]
  PROVE  /\ Shown(d, o) => Shown(r, o)
         /\ Rising(d) => Rising(r)
         /\ Below(d, q, n, o) => Below(r, q, n, o)
         /\ Ring(d, q, o) => Ring(r, q, o)
<1>1. Shown(d, o) => Shown(r, o)
  BY DEF Shown
<1>2. Rising(d) => Rising(r)
  BY DEF Rising
<1>3. Below(d, q, n, o) => Below(r, q, n, o)
  BY DEF Below
<1>4. Ring(d, q, o) => Ring(r, q, o)
  BY DEF Ring
<1> QED
  BY <1>1, <1>2, <1>3, <1>4

(* A line that is not from the ring is written.                            *)
LEMMA WriteOther ==
  ASSUME NEW d \in Seq(Line), NEW l \in Line, ~Sent(l)
  PROVE  /\ Append(d, l) \in Seq(Line)
         /\ \A i \in 1..Len(Append(d, l)) :
              Sent(Append(d, l)[i]) => i \in 1..Len(d) /\ Append(d, l)[i] = d[i]
BY AppendIs

(* What Tears allows: nothing, or the first line replaced.                 *)
LEMMA TearsAre ==
  ASSUME NEW d, NEW l, NEW r \in Tears(d, l)
  PROVE  r = d \/ (d # <<>> /\ r = <<l>> \o Tail(d))
BY DEF Tears

(* A line is torn.                                                         *)
LEMMA TearLine ==
  ASSUME NEW d \in Seq(Line), d # <<>>, NEW l \in Line, ~Sent(l), NEW r, r = <<l>> \o Tail(d)
  PROVE  /\ r \in Seq(Line)
         /\ \A i \in 1..Len(r) : Sent(r[i]) => i \in 1..Len(d) /\ r[i] = d[i]
<1>1. Tail(d) \in Seq(Line) /\ <<l>> \in Seq(Line) /\ Len(<<l>>) = 1 /\ Len(d) \in Nat
      /\ Len(Tail(d)) = Len(d) - 1
  OBVIOUS
<1>2. r \in Seq(Line) /\ Len(r) = Len(d)
  BY <1>1
<1>3. ASSUME NEW i \in 1..Len(r), i # 1 PROVE r[i] = d[i]
  <2>1. i \in Nat /\ i > 1 /\ i - 1 \in 1..Len(Tail(d)) /\ i <= Len(d)
    BY <1>1, <1>2, <1>3
  <2>2. r[i] = Tail(d)[i - 1]
    BY <1>1, <2>1
  <2>3. Tail(d)[i - 1] = d[(i - 1) + 1]
    BY <1>1, <2>1
  <2> QED
    BY <2>1, <2>2, <2>3
<1>4. r[1] = l
  BY <1>1
<1> QED
  BY <1>2, <1>3, <1>4

(* A line is read, ...                                                     *)
LEMMA ReadTail ==
  ASSUME NEW d \in Seq(Line), d # <<>>, NEW q, NEW n, NEW o \in Nat
  PROVE  /\ Tail(d) \in Seq(Line) /\ Head(d) \in Line
         /\ Shown(d, o) => Shown(Tail(d), o)
         /\ Rising(d) => Rising(Tail(d))
         /\ Below(d, q, n, o) => Below(Tail(d), q, n, o)
         /\ Ring(d, q, o) => Ring(Tail(d), q, o)
<1>1. PICK r : r = Tail(d)
  OBVIOUS
<1>2. /\ r \in Seq(Line) /\ Head(d) \in Line
      /\ \A i \in 1..Len(r) : i \in Nat /\ i + 1 \in 1..Len(d) /\ r[i] = d[i + 1]
  BY <1>1, TailIs
<1>3. Shown(d, o) => Shown(r, o)
  BY <1>2 DEF Shown
<1>4. Rising(d) => Rising(r)
  <2>1. \A i, j \in 1..Len(r) : i < j => i + 1 < j + 1
    BY <1>2
  <2> QED
    BY <2>1, <1>2 DEF Rising
<1>5. Below(d, q, n, o) => Below(r, q, n, o)
  BY <1>2 DEF Below
<1>6. Ring(d, q, o) => Ring(r, q, o)
  BY <1>2 DEF Ring
<1> QED
  BY <1>1, <1>2, <1>3, <1>4, <1>5, <1>6

(* ... and its number remembered.                                          *)
LEMMA ReadSent ==
  ASSUME NEW d \in Seq(Line), d # <<>>, Sent(Head(d)), NEW o \in Nat, Shown(d, o), Rising(d)
  PROVE  /\ Head(d).seq \in Nat /\ o <= Head(d).seq
         /\ Shown(Tail(d), Head(d).seq + 1)
         /\ \A q \in Seq(Envelope), n \in Nat :
              Below(d, q, n, o) => Below(Tail(d), q, n, Head(d).seq + 1)
         /\ \A q \in Seq(Envelope) : Ring(d, q, o) => Ring(Tail(d), q, Head(d).seq + 1)
<1>1. PICK r, h : r = Tail(d) /\ h = Head(d)
  OBVIOUS
<1>2. /\ r \in Seq(Line) /\ h \in Line /\ h = d[1] /\ 1 \in 1..Len(d) /\ Sent(h)
      /\ \A i \in 1..Len(r) :
           i \in Nat /\ i + 1 \in 1..Len(d) /\ 1 < i + 1 /\ r[i] = d[i + 1] /\ r[i] \in Line
  BY <1>1, TailIs
<1>3. h.seq \in Nat /\ o <= h.seq
  BY <1>2, Numbers DEF Shown
<1>4. \A i \in 1..Len(r) : Sent(r[i]) => h.seq < r[i].seq /\ r[i].seq \in Nat
  BY <1>2, Numbers DEF Rising
<1>5. Shown(r, h.seq + 1)
  BY <1>3, <1>4 DEF Shown
<1>6. ASSUME NEW q \in Seq(Envelope), NEW n \in Nat, Below(d, q, n, o)
      PROVE  Below(r, q, n, h.seq + 1)
  <2>1. h.seq < n
    BY <1>2, <1>6 DEF Below
  <2>2. h.seq + 1 <= n
    BY <2>1, <1>3
  <2> QED
    BY <2>2, <1>2, <1>6 DEF Below
<1>7. ASSUME NEW q \in Seq(Envelope), Ring(d, q, o)
      PROVE  Ring(r, q, h.seq + 1)
  <2>1. \A i \in 1..Len(q) : q[i] \in Envelope /\ q[i].seq \in Nat
    BY Numbers
  <2>2. \A i \in 1..Len(q) : h.seq < q[i].seq
    BY <1>2, <1>7 DEF Ring
  <2>3. \A i \in 1..Len(q) : h.seq + 1 <= q[i].seq
    BY <2>1, <2>2, <1>3
  <2> QED
    BY <2>3, <1>2, <1>7 DEF Ring
<1> QED
  BY <1>1, <1>3, <1>5, <1>6, <1>7

(* The next number is taken.                                               *)
LEMMA NextNumber ==
  ASSUME NEW d \in Seq(Line), NEW q \in Seq(Envelope), NEW n \in Nat, NEW o \in Nat, Below(d, q, n, o)
  PROVE  Below(d, q, n + 1, o)
<1>1. \A i \in 1..Len(d) : d[i] \in Line /\ (Sent(d[i]) => d[i].seq \in Nat)
  BY Numbers
<1>2. \A i \in 1..Len(q) : q[i] \in Envelope /\ q[i].seq \in Nat
  BY Numbers
<1> QED
  BY <1>1, <1>2 DEF Below

(* The oldest envelope leaves the ring.                                    *)
LEMMA RingTail ==
  ASSUME NEW q \in Seq(Envelope), q # <<>>, NEW d, NEW n, NEW o
  PROVE  /\ Tail(q) \in Seq(Envelope) /\ Head(q) \in Envelope
         /\ Below(d, q, n, o) => Below(d, Tail(q), n, o)
         /\ Ring(d, q, o) => Ring(d, Tail(q), o)
<1>1. PICK r : r = Tail(q)
  OBVIOUS
<1>2. /\ r \in Seq(Envelope) /\ Head(q) \in Envelope
      /\ \A i \in 1..Len(r) : i \in Nat /\ i + 1 \in 1..Len(q) /\ r[i] = q[i + 1]
  BY <1>1, TailIs
<1>3. Below(d, q, n, o) => Below(d, r, n, o)
  BY <1>2 DEF Below
<1>4. Ring(d, q, o) => Ring(d, r, o)
  <2>1. \A i, j \in 1..Len(r) : i < j => i + 1 < j + 1
    BY <1>2
  <2> QED
    BY <2>1, <1>2 DEF Ring
<1> QED
  BY <1>1, <1>2, <1>3, <1>4

(* It is written to the socket.                                            *)
LEMMA RingForward ==
  ASSUME NEW d \in Seq(Line), NEW q \in Seq(Envelope), q # <<>>, NEW n \in Nat, NEW o \in Nat,
         Shown(d, o), Rising(d), Below(d, q, n, o), Ring(d, q, o),
         NEW l \in Line, l.seq = Head(q).seq
  PROVE  /\ Append(d, l) \in Seq(Line)
         /\ Shown(Append(d, l), o) /\ Rising(Append(d, l))
         /\ Below(Append(d, l), Tail(q), n, o) /\ Ring(Append(d, l), Tail(q), o)
         /\ \A k \in Nat : Below(d, q, k, o) => Below(Append(d, l), Tail(q), k, o)
<1>1. PICK r, t, h : r = Append(d, l) /\ t = Tail(q) /\ h = Head(q)
  OBVIOUS
<1>2. /\ r \in Seq(Line)
      /\ \A i \in 1..Len(r) :
           i \in Nat /\ (\/ i \in 1..Len(d) /\ r[i] = d[i]
                         \/ (\A j \in 1..Len(d) : j < i) /\ i \notin 1..Len(d) /\ r[i] = l)
  BY <1>1, AppendIs
<1>3. /\ t \in Seq(Envelope) /\ h \in Envelope /\ h = q[1] /\ 1 \in 1..Len(q)
      /\ \A i \in 1..Len(t) : i \in Nat /\ i + 1 \in 1..Len(q) /\ 1 < i + 1 /\ t[i] = q[i + 1]
  BY <1>1, TailIs
<1>4. l.seq = h.seq /\ h.seq \in Nat /\ o <= l.seq
  BY <1>1, <1>3, Numbers DEF Ring
<1>5. \A i \in 1..Len(d) : Sent(d[i]) => d[i].seq < l.seq
  BY <1>3, <1>4 DEF Ring
<1>6. \A i \in 1..Len(t) : l.seq < t[i].seq
  BY <1>3, <1>4 DEF Ring
<1>7. Shown(r, o)
  BY <1>2, <1>4 DEF Shown
<1>8. Rising(r)
  <2>1. ASSUME NEW i \in 1..Len(r), NEW j \in 1..Len(r), i < j, Sent(r[i]), Sent(r[j])
        PROVE  r[i].seq < r[j].seq
    <3>1. CASE j \in 1..Len(d) /\ r[j] = d[j]
      <4>1. i \in 1..Len(d) /\ r[i] = d[i]
        <5>1. i \notin 1..Len(d) => j < i
          BY <3>1, <1>2
        <5>2. i \in Nat /\ j \in Nat
          BY <1>2
        <5> QED
          BY <2>1, <5>1, <5>2, <1>2
      <4> QED
        BY <2>1, <3>1, <4>1 DEF Rising
    <3>2. CASE j \notin 1..Len(d) /\ r[j] = l
      <4>1. i \in 1..Len(d) /\ r[i] = d[i]
        <5>1. Len(d) \in Nat /\ Len(r) = Len(d) + 1
          BY <1>1
        <5>2. j = Len(d) + 1 /\ i \in 1..Len(d)
          BY <2>1, <3>2, <5>1
        <5> QED
          BY <5>2, <1>2
      <4> QED
        BY <2>1, <3>2, <4>1, <1>5
    <3> QED
      BY <3>1, <3>2, <1>2
  <2> QED
    BY <2>1 DEF Rising
<1>9. ASSUME NEW k \in Nat, Below(d, q, k, o) PROVE Below(r, t, k, o)
  <2>1. l.seq < k
    BY <1>3, <1>4, <1>9 DEF Below
  <2> QED
    BY <2>1, <1>2, <1>3, <1>9 DEF Below
<1>10. Ring(r, t, o)
  <2>1. \A i, j \in 1..Len(t) : i < j => i + 1 < j + 1
    BY <1>3
  <2> QED
    BY <2>1, <1>2, <1>3, <1>6 DEF Ring
<1> QED
  BY <1>1, <1>2, <1>7, <1>8, <1>9, <1>10

(* A new envelope enters the ring.                                         *)
LEMMA RingPush ==
  ASSUME NEW d, NEW q \in Seq(Envelope), NEW e \in Envelope, NEW n \in Nat, NEW o \in Nat,
         e.seq < n, Below(d, q, e.seq, o), Below(d, q, n, o), Ring(d, q, o)
  PROVE  /\ Append(q, e) \in Seq(Envelope)
         /\ Below(d, Append(q, e), n, o) /\ Ring(d, Append(q, e), o)
<1>1. PICK r : r = Append(q, e)
  OBVIOUS
<1>2. /\ r \in Seq(Envelope)
      /\ \A i \in 1..Len(r) :
           i \in Nat /\ (\/ i \in 1..Len(q) /\ r[i] = q[i]
                         \/ (\A j \in 1..Len(q) : j < i) /\ i \notin 1..Len(q) /\ r[i] = e)
  BY <1>1, AppendIs
<1>3. Below(d, r, n, o)
  BY <1>2 DEF Below
<1>4. ASSUME NEW i \in 1..Len(r), NEW j \in 1..Len(r), i < j
      PROVE  r[i].seq < r[j].seq
  <2>1. Len(q) \in Nat /\ Len(r) = Len(q) + 1 /\ i \in 1..Len(q)
    <3>1. Len(q) \in Nat /\ Len(r) = Len(q) + 1
      BY <1>1
    <3> QED
      BY <3>1, <1>4
  <2>2. r[i] = q[i]
    BY <2>1, <1>2
  <2>3. CASE j \in 1..Len(q) /\ r[j] = q[j]
    BY <2>1, <2>2, <2>3, <1>4 DEF Ring
  <2>4. CASE r[j] = e
    BY <2>1, <2>2, <2>4 DEF Below
  <2> QED
    BY <2>3, <2>4, <1>2
<1>5. Ring(d, r, o)
  BY <1>2, <1>4 DEF Ring, Below
<1> QED
  BY <1>1, <1>2, <1>3, <1>5

-----------------------------------------------------------------------------
(* The invariant is kept                                                   *)

LEMMA InitStream == Init => StreamInv
<1> SUFFICES ASSUME Init PROVE StreamInv
  OBVIOUS
<1>1. Types
  <2>1. conn \in ConnType
    BY DEF Init, NoConnection, ConnType
  <2>2. task \in TaskType /\ sub \in SubType /\ ui \in UiType
    BY DEF Init, Idle, TaskType, Kind, AnyMachine, SubType, UiType
  <2> QED
    BY <2>1, <2>2 DEF Init, Types
<1>2. down = <<>> /\ ~Open /\ Numbered
  BY DEF Init, NoConnection, Open, Idle, Numbered
<1> QED
  BY <1>1, <1>2 DEF StreamInv, Ordered, Shown, Rising

(* A step that neither shows output nor sends or forwards an event.        *)
LEMMA SameStream ==
  ASSUME StreamInv, Types', Numbered', ui'.out = ui.out,
         \A i \in 1..Len(down') : Sent(down'[i]) => i \in 1..Len(down) /\ down'[i] = down[i],
         Open' => /\ Open /\ conn'.q = conn.q /\ seq' \in {seq, seq + 1}
                  /\ task' = task \/ task'.pc # "send"
  PROVE  StreamInv'
<1>1. PICK o, q, d, k : o = ui.out /\ q = conn.q /\ d = down' /\ k = task.seq
  OBVIOUS
<1>2. o \in Nat /\ q \in Seq(Envelope) /\ seq \in Nat /\ d \in Seq(Line)
  BY <1>1 DEF StreamInv, Types, UiType, ConnType
<1>3. Shown(d, o) /\ Rising(d)
  BY <1>1, FewerLines DEF StreamInv, Ordered
<1>4. ASSUME Open'
      PROVE  Below(d, q, seq', o) /\ Ring(d, q, o)
  <2>1. Below(d, q, seq, o) /\ Ring(d, q, o)
    BY <1>1, <1>4, FewerLines DEF StreamInv, Ordered
  <2> QED
    BY <2>1, <1>2, <1>4, NextNumber
<1>5. ASSUME Open', task'.pc = "send"
      PROVE  Below(d, q, task'.seq, o)
  <2>1. task' = task /\ Below(down, q, k, o)
    BY <1>1, <1>5 DEF StreamInv, Ordered
  <2>2. Below(d, q, k, o)
    BY <2>1, <1>1, FewerLines
  <2> QED
    BY <2>1, <2>2, <1>1
<1>6. Open' => conn'.q = q
  BY <1>1
<1>7. Ordered(Open', d, conn'.q, task', seq', o)
  BY <1>3, <1>4, <1>5, <1>6 DEF Ordered
<1> QED
  BY <1>1, <1>7 DEF StreamInv

(* The event task before it sends, and the frontend's first list.          *)
LEMMA TaskKeeps ==
  ASSUME StreamInv,
         \/ \E m \in Machine : MachineConnected(m) \/ MachineDisconnected(m)
         \/ SessionData \/ FetchTaken \/ setMachines \/ RequestSnapshot \/ UNCHANGED vars
  PROVE  StreamInv'
<1>1. Types
  BY DEF StreamInv
<1>2. UNCHANGED <<seq, conn, down>>
  BY DEF MachineConnected, MachineDisconnected, PoolChange, SessionData, FetchTaken, setMachines,
         RequestSnapshot, vars
<1>3. task' \in TaskType /\ (task' = task \/ task'.pc # "send")
  <2>1. CASE task' = task
    BY <1>1, <2>1 DEF Types
  <2>2. CASE \E m \in Machine : MachineConnected(m) \/ MachineDisconnected(m)
    <3>1. PICK m \in Machine, c \in {"connected", "disconnected"} :
            task' = [Idle EXCEPT !.pc = "wrap", !.m = m, !.kind = c]
      BY <2>2 DEF MachineConnected, MachineDisconnected, PoolChange
    <3>2. task' = [pc |-> "wrap", kind |-> c, m |-> m, seq |-> 0]
      BY <3>1 DEF Idle
    <3> QED
      BY <3>2 DEF TaskType, Kind, AnyMachine
  <2>3. CASE SessionData
    BY <2>3 DEF SessionData, Idle, TaskType, Kind, AnyMachine
  <2> QED
    BY <2>1, <2>2, <2>3 DEF FetchTaken, setMachines, RequestSnapshot, vars
<1>4. live' \in SUBSET AnyMachine
  <2>1. CASE live' = live
    BY <1>1, <2>1 DEF Types
  <2>2. CASE \E m \in Machine : MachineConnected(m) \/ MachineDisconnected(m)
    BY <1>1, <2>2 DEF MachineConnected, MachineDisconnected, PoolChange, AnyMachine, Types
  <2> QED
    BY <2>1, <2>2 DEF SessionData, FetchTaken, setMachines, RequestSnapshot, vars
<1>5. ui' \in UiType /\ ui'.out = ui.out
  <2>1. CASE ui' = ui
    BY <1>1, <2>1 DEF Types
  <2>2. CASE FetchTaken
    BY <1>1, <2>2 DEF FetchTaken, Types, UiType
  <2>3. CASE setMachines
    BY <1>1, <2>3 DEF setMachines, Types, UiType
  <2> QED
    BY <2>1, <2>2, <2>3
    DEF MachineConnected, MachineDisconnected, PoolChange, SessionData, RequestSnapshot, vars
<1>6. sub' \in SubType
  <2>1. CASE sub' = sub
    BY <1>1, <2>1 DEF Types
  <2>2. CASE RequestSnapshot
    BY <1>1, <2>2 DEF RequestSnapshot, Types, SubType
  <2> QED
    BY <2>1, <2>2
    DEF MachineConnected, MachineDisconnected, PoolChange, SessionData, FetchTaken, setMachines, vars
<1>7. Types'
  BY <1>1, <1>2, <1>3, <1>4, <1>5, <1>6 DEF Types
<1>8. Numbered'
  BY <1>2, <1>3 DEF StreamInv, Numbered
<1> QED
  BY <1>2, <1>3, <1>5, <1>7, <1>8, SameStream DEF Open

(* The server answers, or tells of dropped events.                         *)
LEMMA AnswerKeeps ==
  ASSUME StreamInv, Authenticate \/ Subscription \/ RefuseTorn \/ SnapshotList \/ SnapshotReply \/ Lagged
  PROVE  StreamInv'
<1>1. Types /\ UNCHANGED <<live, task, sub, ui>>
  BY DEF StreamInv, Authenticate, Subscription, RefuseTorn, SnapshotList, SnapshotReply, Lagged
<1>2. conn \in ConnType /\ seq \in Nat /\ down \in Seq(Line) /\ live \in SUBSET AnyMachine
  BY <1>1 DEF Types
<1>3. conn' \in ConnType /\ conn'.q = conn.q /\ Open
  <2>1. CASE Authenticate
    BY <1>2, <2>1 DEF Authenticate, ConnType, Open
  <2>2. CASE Subscription
    <3>1. PICK b \in BOOLEAN : conn' = [conn EXCEPT !.subscribed = b]
      BY <1>2, <2>2 DEF Subscription, ConnType
    <3> QED
      BY <1>2, <2>2, <3>1 DEF Subscription, ConnType, Open
  <2>3. CASE SnapshotList
    BY <1>2, <2>3 DEF SnapshotList, ConnType, Open
  <2>4. CASE SnapshotReply
    BY <1>2, <2>4 DEF SnapshotReply, ConnType, Open
  <2>5. CASE Lagged
    BY <1>2, <2>5 DEF Lagged, ConnType, Open
  <2>6. CASE RefuseTorn
    BY <1>2, <2>6 DEF RefuseTorn, Open
  <2> QED
    BY <2>1, <2>2, <2>3, <2>4, <2>5, <2>6
<1>4. /\ seq' \in {seq, seq + 1}
      /\ down' = down \/ \E l \in Line : ~Sent(l) /\ down' = Append(down, l)
  <2>1. CASE Authenticate
    <3>1. [t |-> "authenticated", seq |-> seq] \in Line /\ ~Sent([t |-> "authenticated", seq |-> seq])
      BY <1>2 DEF Line, Sent
    <3> QED
      BY <2>1, <3>1 DEF Authenticate
  <2>2. CASE Subscription \/ RefuseTorn
    <3>1. [t |-> "response"] \in Line /\ ~Sent([t |-> "response"])
      BY DEF Line, Sent
    <3> QED
      BY <2>2, <3>1 DEF Subscription, RefuseTorn
  <2>3. CASE SnapshotList
    BY <2>3 DEF SnapshotList
  <2>4. CASE SnapshotReply
    <3>1. PICK l : l = [t |-> "snapshot", seq |-> seq, machines |-> conn.listed]
      OBVIOUS
    <3>2. l \in Line /\ ~Sent(l)
      BY <3>1, <1>2 DEF Line, Sent, ConnType
    <3> QED
      BY <2>4, <3>1, <3>2 DEF SnapshotReply
  <2>5. CASE Lagged
    <3>1. PICK l : l = [t |-> "event", seq |-> seq, kind |-> "dropped", m |-> NoMachine]
      OBVIOUS
    <3>2. l \in Line /\ ~Sent(l)
      BY <3>1, <1>2 DEF Line, Sent, Kind, AnyMachine
    <3> QED
      BY <2>5, <3>1, <3>2 DEF Lagged
  <2> QED
    BY <2>1, <2>2, <2>3, <2>4, <2>5
<1>5. /\ down' \in Seq(Line)
      /\ \A i \in 1..Len(down') : Sent(down'[i]) => i \in 1..Len(down) /\ down'[i] = down[i]
  BY <1>2, <1>4, WriteOther
<1>6. Types'
  BY <1>1, <1>2, <1>3, <1>4, <1>5 DEF Types
<1>7. Numbered'
  <2>1. task.seq \in Nat
    BY <1>1 DEF Types, TaskType
  <2> QED
    BY <2>1, <1>1, <1>2, <1>4 DEF StreamInv, Numbered
<1> QED
  BY <1>1, <1>3, <1>4, <1>5, <1>6, <1>7, SameStream

(* The connection breaks, the orchestrator restarts, the subscriber leaves.*)
LEMMA ClosingKeeps ==
  ASSUME StreamInv, Break \/ Restart \/ Disconnected
  PROVE  StreamInv'
<1>1. Types /\ UNCHANGED <<down, ui>>
  BY DEF StreamInv, Break, Restart, Disconnected
<1>2. PICK p \in {"none", "closed"} : conn' = [NoConnection EXCEPT !.st = p]
  <2>1. NoConnection = [NoConnection EXCEPT !.st = "none"]
    BY DEF NoConnection
  <2> QED
    BY <2>1 DEF Break, Restart, Disconnected
<1>3. conn' = [st |-> p, q |-> <<>>, missed |-> 0, subscribed |-> FALSE, listing |-> FALSE, listed |-> {}]
  BY <1>2 DEF NoConnection
<1>4. conn' \in ConnType /\ ~Open'
  BY <1>3 DEF ConnType, Open
<1>5. seq' \in Nat /\ live' \in SUBSET AnyMachine
  BY <1>1 DEF Break, Restart, Disconnected, Types
<1>6. task' \in TaskType
  BY <1>1 DEF Break, Restart, Disconnected, Types, Idle, TaskType, Kind, AnyMachine
<1>7. sub' \in SubType
  BY <1>1 DEF Break, Restart, Disconnected, Types, SubType
<1>8. Types'
  BY <1>1, <1>4, <1>5, <1>6, <1>7 DEF Types
<1>9. Numbered'
  BY DEF StreamInv, Numbered, Break, Restart, Disconnected, Idle
<1> QED
  BY <1>1, <1>4, <1>8, <1>9, SameStream

(* The subscriber is refused, and leaves.                                  *)
LEMMA RefusedKeeps == StreamInv /\ AuthenticationFailed => StreamInv'
<1> SUFFICES ASSUME StreamInv, AuthenticationFailed PROVE StreamInv'
  OBVIOUS
<1>1. /\ Types /\ UNCHANGED <<seq, live, task, ui>> /\ down # <<>> /\ down' = Tail(down)
      /\ down \in Seq(Line) /\ ui.out \in Nat /\ sub \in SubType
  BY DEF StreamInv, AuthenticationFailed, Received, Types, UiType
<1>2. conn' \in ConnType /\ ~Open'
  BY DEF AuthenticationFailed, NoConnection, ConnType, Open
<1>3. sub' \in SubType
  BY <1>1 DEF AuthenticationFailed, SubType
<1>4. Tail(down) \in Seq(Line) /\ Shown(Tail(down), ui.out) /\ Rising(Tail(down))
  BY <1>1, ReadTail DEF StreamInv, Ordered
<1>5. Types' /\ Numbered'
  BY <1>1, <1>2, <1>3, <1>4 DEF Types, StreamInv, Numbered
<1> QED
  BY <1>1, <1>2, <1>4, <1>5 DEF StreamInv, Ordered

(* A new connection begins with nothing on the wire and nothing shown.     *)
LEMMA ConnectKeeps == StreamInv /\ Connect => StreamInv'
<1> SUFFICES ASSUME StreamInv, Connect PROVE StreamInv'
  OBVIOUS
<1>1. Types /\ UNCHANGED <<seq, live, task>> /\ down' = <<>>
  BY DEF StreamInv, Connect
<1>2. conn' = [st |-> "open", q |-> <<>>, missed |-> 0, subscribed |-> FALSE, listing |-> FALSE,
               listed |-> {}]
  BY DEF Connect, NoConnection
<1>3. conn' \in ConnType /\ conn'.q = <<>>
  BY <1>2 DEF ConnType
<1>4. sub' \in SubType
  BY <1>1 DEF Connect, Types, SubType
<1>5. ui' \in UiType /\ ui'.out = 0
  BY <1>1 DEF Connect, Types, UiType
<1>6. Types'
  BY <1>1, <1>3, <1>4, <1>5 DEF Types
<1>7. seq \in Nat /\ task.seq \in Nat
  BY <1>1 DEF Types, TaskType
<1>8. Ordered(Open', <<>>, <<>>, task, seq, 0)
  BY <1>7 DEF Ordered, Shown, Rising, Below, Ring
<1> QED
  BY <1>1, <1>3, <1>5, <1>6, <1>8 DEF StreamInv, Numbered

(* The event task takes a number.                                          *)
LEMMA WrapKeeps == StreamInv /\ wrap_event => StreamInv'
<1> SUFFICES ASSUME StreamInv, wrap_event PROVE StreamInv'
  OBVIOUS
<1>1. Types /\ UNCHANGED <<live, conn, down, sub, ui>> /\ seq' = seq + 1
  BY DEF StreamInv, wrap_event
<1>2. /\ seq \in Nat /\ down \in Seq(Line) /\ conn.q \in Seq(Envelope) /\ ui.out \in Nat
  BY <1>1 DEF Types, ConnType, UiType
<1>3. task' \in TaskType /\ task'.seq = seq
  BY <1>1, <1>2 DEF wrap_event, Types, TaskType
<1>4. Types'
  BY <1>1, <1>2, <1>3 DEF Types
<1>5. Numbered'
  BY <1>1, <1>2, <1>3 DEF Numbered
<1>6. Ordered(Open, down, conn.q, task', seq + 1, ui.out)
  BY <1>2, <1>3, NextNumber DEF StreamInv, Ordered
<1> QED
  BY <1>1, <1>4, <1>5, <1>6 DEF StreamInv, Open

(* The event is broadcast: a full ring loses its oldest envelope.          *)
LEMMA BroadcastKeeps == StreamInv /\ Broadcast => StreamInv'
<1> SUFFICES ASSUME StreamInv, Broadcast PROVE StreamInv'
  OBVIOUS
<1>1. Types /\ task.pc = "send" /\ UNCHANGED <<seq, live, down, sub, ui>> /\ task' = Idle
  BY DEF StreamInv, Broadcast
<1>2. /\ seq \in Nat /\ down \in Seq(Line) /\ conn \in ConnType /\ conn.q \in Seq(Envelope)
      /\ ui.out \in Nat /\ task \in TaskType
  BY <1>1 DEF Types, ConnType, UiType
<1>3. task' \in TaskType /\ task'.pc = "idle" /\ Numbered'
  BY <1>1 DEF Idle, TaskType, Kind, AnyMachine, Numbered
<1>4. CASE ~Open
  <2>1. conn' = conn
    BY <1>4 DEF Broadcast, Open
  <2>2. Types'
    BY <2>1, <1>1, <1>2, <1>3 DEF Types
  <2> QED
    BY <2>1, <2>2, <1>1, <1>3, <1>4, SameStream DEF Open
<1>5. CASE Open
  <2>1. PICK e : e = [seq |-> task.seq, kind |-> task.kind, m |-> task.m]
    OBVIOUS
  <2>2. e \in Envelope /\ e.seq = task.seq /\ e.seq < seq
    BY <2>1, <1>1, <1>2 DEF TaskType, Envelope, AnyMachine, StreamInv, Numbered
  <2>3. conn' = Push(conn, e)
    BY <2>1, <1>5 DEF Broadcast, Open
  <2>4. PICK q : q = IF Len(conn.q) < Cap THEN conn.q ELSE Tail(conn.q)
    OBVIOUS
  <2>5. Len(conn.q) < Cap \/ conn.q # <<>>
    BY <1>2, EventStreamAssumption DEF EventStreamAssumption
  <2>6. /\ q \in Seq(Envelope) /\ Ring(down, q, ui.out) /\ Below(down, q, seq, ui.out)
        /\ Below(down, q, e.seq, ui.out)
    BY <2>2, <2>4, <2>5, <1>1, <1>2, <1>5, RingTail DEF StreamInv, Ordered
  <2>7. /\ Append(q, e) \in Seq(Envelope) /\ Below(down, Append(q, e), seq, ui.out)
        /\ Ring(down, Append(q, e), ui.out)
    BY <2>2, <2>6, <1>2, RingPush
  <2>8. conn' \in ConnType /\ conn'.q = Append(q, e) /\ conn'.st = conn.st
    <3>1. CASE Len(conn.q) < Cap
      <4>1. conn' = [conn EXCEPT !.q = Append(q, e)]
        BY <2>3, <2>4, <3>1 DEF Push
      <4> QED
        BY <4>1, <2>7, <1>2 DEF ConnType
    <3>2. CASE ~(Len(conn.q) < Cap)
      <4>1. conn' = [conn EXCEPT !.q = Append(q, e), !.missed = conn.missed + 1]
        BY <2>3, <2>4, <3>2 DEF Push
      <4>2. PICK k \in Nat : k = conn.missed + 1
        BY <1>2 DEF ConnType
      <4> QED
        BY <4>1, <4>2, <2>7, <1>2 DEF ConnType
    <3> QED
      BY <3>1, <3>2
  <2>9. Types'
    BY <2>8, <1>1, <1>2, <1>3 DEF Types
  <2>10. Ordered(TRUE, down, Append(q, e), task', seq, ui.out)
    BY <2>7, <1>3 DEF StreamInv, Ordered
  <2> QED
    BY <2>8, <2>9, <2>10, <1>1, <1>3, <1>5 DEF StreamInv, Open, Ordered
<1> QED
  BY <1>4, <1>5

(* An envelope leaves the ring, written to the socket or in silence.       *)
LEMMA ForwardKeeps == StreamInv /\ ForwardEvent => StreamInv'
<1> SUFFICES ASSUME StreamInv, ForwardEvent PROVE StreamInv'
  OBVIOUS
<1>1. Types /\ Open /\ conn.q # <<>> /\ UNCHANGED <<seq, live, task, sub, ui>>
  BY DEF StreamInv, ForwardEvent, Open
<1>2. /\ seq \in Nat /\ down \in Seq(Line) /\ conn \in ConnType /\ conn.q \in Seq(Envelope)
      /\ ui.out \in Nat /\ task.seq \in Nat
  BY <1>1 DEF Types, ConnType, UiType, TaskType
<1>3. conn' = [conn EXCEPT !.q = Tail(conn.q)]
  BY DEF ForwardEvent
<1>4. Tail(conn.q) \in Seq(Envelope) /\ Head(conn.q) \in Envelope
  BY <1>1, <1>2, RingTail
<1>5. conn' \in ConnType /\ conn'.q = Tail(conn.q) /\ conn'.st = conn.st
  BY <1>2, <1>3, <1>4 DEF ConnType
<1>6. PICK l : l = [t |-> "event", seq |-> Head(conn.q).seq, kind |-> Head(conn.q).kind,
                    m |-> Head(conn.q).m]
  OBVIOUS
<1>7. l \in Line /\ l.seq = Head(conn.q).seq
  BY <1>4, <1>6 DEF Line, Envelope, AnyMachine
<1>8. down' \in {down, Append(down, l)}
  BY <1>6 DEF ForwardEvent
<1>9. /\ Shown(down, ui.out) /\ Rising(down) /\ Below(down, conn.q, seq, ui.out)
      /\ Ring(down, conn.q, ui.out)
      /\ task.pc = "send" => Below(down, conn.q, task.seq, ui.out)
  BY <1>1 DEF StreamInv, Ordered
<1>10. down' \in Seq(Line) /\ Ordered(TRUE, down', Tail(conn.q), task, seq, ui.out)
  <2>1. CASE down' = down
    BY <2>1, <1>1, <1>2, <1>9, RingTail DEF Ordered
  <2>2. CASE down' = Append(down, l)
    BY <2>2, <1>1, <1>2, <1>7, <1>9, RingForward DEF Ordered
  <2> QED
    BY <2>1, <2>2, <1>8
<1>11. Types' /\ Numbered'
  BY <1>1, <1>5, <1>10 DEF Types, StreamInv, Numbered
<1> QED
  BY <1>1, <1>5, <1>10, <1>11 DEF StreamInv, Open, Ordered

(* The subscriber reads a line that shows no output, or sends a request.   *)
LEMMA ReadKeeps ==
  ASSUME StreamInv, ReadAuthenticated \/ ReadSnapshot \/ ReadOther \/ SendRequest
  PROVE  StreamInv'
<1>1. Types /\ UNCHANGED <<seq, live, task, conn>>
  BY DEF StreamInv, ReadAuthenticated, ReadSnapshot, ReadOther, SendRequest
<1>2. /\ down \in Seq(Line) /\ sub \in SubType /\ ui \in UiType /\ ui.out \in Nat
      /\ Numbered'
  BY <1>1 DEF Types, UiType, StreamInv, Numbered
<1>3. CASE SendRequest
  <2>1. sub' = sub /\ ui' = ui
    BY <1>3 DEF SendRequest
  <2>2. /\ down' \in Seq(Line)
        /\ \A i \in 1..Len(down') : Sent(down'[i]) => i \in 1..Len(down) /\ down'[i] = down[i]
    <3>1. PICK l : l = [t |-> "torn"]
      OBVIOUS
    <3>2. l \in Line /\ ~Sent(l)
      BY <3>1 DEF Line, Sent
    <3>3. down' = down \/ (down # <<>> /\ down' = <<l>> \o Tail(down))
      <4>1. down' \in Tears(down, l)
        BY <3>1, <1>3 DEF SendRequest
      <4> QED
        BY <4>1, TearsAre
    <3> QED
      BY <3>2, <3>3, <1>2, TearLine
  <2>3. Types'
    BY <2>1, <2>2, <1>1 DEF Types
  <2> QED
    BY <2>1, <2>2, <2>3, <1>1, <1>2, SameStream DEF Open
<1>4. CASE ReadAuthenticated \/ ReadSnapshot \/ ReadOther
  <2>1. down # <<>> /\ down' = Tail(down)
    BY <1>4 DEF ReadAuthenticated, ReadSnapshot, ReadOther, Received
  <2>2. Head(down) \in Line /\ Tail(down) \in Seq(Line)
    BY <2>1, <1>2, TailIs
  <2>3. /\ sub' \in SubType /\ ui' \in UiType /\ ui'.out = ui.out
    <3>1. CASE ReadAuthenticated
      <4>1. Head(down).seq \in Nat
        BY <2>2, <3>1 DEF ReadAuthenticated, Received, Line
      <4> QED
        BY <3>1, <4>1, <1>2 DEF ReadAuthenticated, SubType
    <3>2. CASE ReadSnapshot
      <4>1. Head(down).seq \in Nat /\ Head(down).machines \in SUBSET AnyMachine
        BY <2>2, <3>2 DEF ReadSnapshot, Received, Line
      <4>2. sub' \in SubType
        BY <3>2, <4>1, <1>2 DEF ReadSnapshot, SubType
      <4>3. ui' \in UiType /\ ui'.out = ui.out
        BY <3>2, <4>1, <1>2 DEF ReadSnapshot, UiType
      <4> QED
        BY <4>2, <4>3
    <3>3. CASE ReadOther
      BY <3>3, <1>2 DEF ReadOther
    <3> QED
      BY <3>1, <3>2, <3>3, <1>4
  <2>4. Types'
    BY <2>1, <2>2, <2>3, <1>1 DEF Types
  <2>5. Ordered(Open, Tail(down), conn.q, task, seq, ui.out)
    BY <2>1, <1>2, ReadTail DEF StreamInv, Ordered
  <2> QED
    BY <2>1, <2>3, <2>4, <2>5, <1>1, <1>2 DEF StreamInv, Open
<1> QED
  BY <1>3, <1>4

(* The subscriber reads an event and passes it on, unless it reveals a     *)
(* gap.                                                                    *)
LEMMA ReadEventKeeps == StreamInv /\ ReadEvent => StreamInv'
<1> SUFFICES ASSUME StreamInv, ReadEvent PROVE StreamInv'
  OBVIOUS
<1>1. /\ Types /\ UNCHANGED <<seq, live, task, conn>> /\ down # <<>> /\ down' = Tail(down)
      /\ Head(down).t = "event"
  BY DEF StreamInv, ReadEvent, Received
<1>2. /\ down \in Seq(Line) /\ sub \in SubType /\ ui \in UiType /\ ui.out \in Nat /\ seq \in Nat
      /\ conn.q \in Seq(Envelope) /\ task.seq \in Nat /\ Numbered'
  BY <1>1 DEF Types, UiType, ConnType, TaskType, StreamInv, Numbered
<1>3. PICK e : e = Head(down)
  OBVIOUS
<1>4. Tail(down) \in Seq(Line) /\ e \in Line
  BY <1>1, <1>2, <1>3, TailIs
<1>5. e.seq \in Nat /\ e.kind \in Kind /\ e.m \in AnyMachine
  BY <1>1, <1>3, <1>4 DEF Line
<1>6. sub' \in SubType
  <2>1. sub' = [sub EXCEPT !.need = TRUE] \/ sub' = [sub EXCEPT !.last = e.seq]
    BY <1>3 DEF ReadEvent
  <2> QED
    BY <2>1, <1>2, <1>5 DEF SubType
<1>7. ui' = ui \/ ui' = forward_events(ui, e)
  BY <1>3 DEF ReadEvent
<1>8. CASE ui' = ui \/ e.kind # "output"
  <2>1. ui' \in UiType /\ ui'.out = ui.out
    <3>1. CASE ui' = ui
      BY <3>1, <1>2
    <3>2. CASE ui' = forward_events(ui, e) /\ e.kind # "output"
      <4>1. ui' \in {addMachine(ui, e.m), removeMachine(ui, e.m), ui}
        BY <3>2, <1>5 DEF forward_events, Kind
      <4>2. addMachine(ui, e.m) \in UiType /\ addMachine(ui, e.m).out = ui.out
        BY <1>2, <1>5 DEF addMachine, UiType
      <4>3. removeMachine(ui, e.m) \in UiType /\ removeMachine(ui, e.m).out = ui.out
        BY <1>2, <1>5 DEF removeMachine, UiType
      <4> QED
        BY <4>1, <4>2, <4>3, <1>2
    <3> QED
      BY <3>1, <3>2, <1>7, <1>8
  <2>2. Types'
    BY <2>1, <1>1, <1>4, <1>6 DEF Types
  <2>3. Ordered(Open, Tail(down), conn.q, task, seq, ui.out)
    BY <1>1, <1>2, ReadTail DEF StreamInv, Ordered
  <2> QED
    BY <2>1, <2>2, <2>3, <1>1, <1>2 DEF StreamInv, Open
<1>9. CASE ui' = forward_events(ui, e) /\ e.kind = "output"
  <2>1. ui' = [ui EXCEPT !.out = e.seq + 1]
    BY <1>9 DEF forward_events
  <2>2. PICK o \in Nat : o = e.seq + 1
    BY <1>5
  <2>3. ui' \in UiType /\ ui'.out = o
    BY <2>1, <2>2, <1>2 DEF UiType
  <2>4. Types'
    BY <2>3, <1>1, <1>4, <1>6 DEF Types
  <2>5. Sent(Head(down)) /\ Shown(down, ui.out) /\ Rising(down)
    BY <1>1, <1>3, <1>9 DEF Sent, StreamInv, Ordered
  <2>6. /\ Shown(Tail(down), o)
        /\ \A q \in Seq(Envelope), n \in Nat :
             Below(down, q, n, ui.out) => Below(Tail(down), q, n, o)
        /\ \A q \in Seq(Envelope) : Ring(down, q, ui.out) => Ring(Tail(down), q, o)
    BY <2>2, <2>5, <1>1, <1>2, <1>3, ReadSent
  <2>7. Rising(Tail(down))
    BY <2>5, <1>1, <1>2, ReadTail
  <2>8. Ordered(Open, Tail(down), conn.q, task, seq, o)
    BY <2>6, <2>7, <1>2 DEF StreamInv, Ordered
  <2> QED
    BY <2>3, <2>4, <2>8, <1>1, <1>2 DEF StreamInv, Open
<1> QED
  BY <1>7, <1>8, <1>9

-----------------------------------------------------------------------------
(* The theorems                                                            *)

LEMMA StepStream == StreamInv /\ [Next]_vars => StreamInv'
<1> SUFFICES ASSUME StreamInv, [Next]_vars PROVE StreamInv'
  OBVIOUS
<1>1. CASE ServerStep
  BY <1>1, AnswerKeeps, ForwardKeeps DEF ServerStep
<1>2. CASE SubscriberStep
  BY <1>2, ConnectKeeps, ReadKeeps, ReadEventKeeps, TaskKeeps, ClosingKeeps, RefusedKeeps DEF SubscriberStep
<1>3. CASE \/ \E m \in Machine : MachineConnected(m) \/ MachineDisconnected(m)
           \/ SessionData \/ FetchTaken \/ setMachines \/ UNCHANGED vars
  BY <1>3, TaskKeeps
<1>4. CASE wrap_event \/ Broadcast \/ Break \/ Restart \/ SendRequest
  BY <1>4, WrapKeeps, BroadcastKeeps, ClosingKeeps, ReadKeeps
<1> QED
  BY <1>1, <1>2, <1>3, <1>4 DEF Next

(* Along every execution what the event task holds, the ring of the        *)
(* broadcast, the socket and the frontend's position are in the order of   *)
(* the numbers that wrap_event gave out.                                   *)
THEOREM StreamInvariance == Spec => []StreamInv
BY InitStream, StepStream, PTL DEF Spec

(* Terminal output is shown in the order in which it was produced and none *)
(* twice, whatever the ring dropped, whichever lines were torn and however *)
(* often the connection broke, although process_envelope (ipc_client.rs)   *)
(* lets numbers pass that it has passed before.                            *)
THEOREM OutputKeepsOrder == Spec => OutputInOrder
<1>1. StreamInv /\ [Next]_vars =>
        [ReadEvent /\ ~sub'.need /\ Head(down).kind = "output" => Head(down).seq >= ui.out]_vars
  <2> SUFFICES ASSUME StreamInv, ReadEvent, Head(down).kind = "output"
               PROVE  Head(down).seq >= ui.out
    OBVIOUS
  <2>1. /\ down \in Seq(Line) /\ ui.out \in Nat /\ down # <<>> /\ Sent(Head(down))
        /\ Shown(down, ui.out) /\ Rising(down)
    BY DEF StreamInv, Types, UiType, ReadEvent, Received, Sent, Ordered
  <2>2. Head(down).seq \in Nat /\ ui.out <= Head(down).seq
    BY <2>1, ReadSent
  <2> QED
    BY <2>1, <2>2
<1> QED
  BY <1>1, StreamInvariance, PTL DEF Spec, OutputInOrder

-----------------------------------------------------------------------------
(* Numbers of notices and of marks                                         *)

Lag(l) == l.t = "event" /\ l.kind = "dropped"
Mark(l) == l.t \in {"snapshot", "authenticated"}

(* The number of an EventsDropped notice is given out to nothing else.     *)
Lags(d, q, k, n) ==
  \A i \in 1..Len(d) : Lag(d[i]) =>
    /\ d[i].seq < n
    /\ \A j \in 1..Len(d) : j # i /\ d[j].t = "event" => d[j].seq # d[i].seq
    /\ \A j \in 1..Len(q) : q[j].seq # d[i].seq
    /\ k.pc = "send" => k.seq # d[i].seq

(* Snapshots and the answer to Authenticate carry a number that was still  *)
(* to be given out.                                                        *)
Marks(d, n) == \A i \in 1..Len(d) : Mark(d[i]) => d[i].seq <= n

NotedInv ==
  Open => Lags(down, conn.q, task, seq) /\ Marks(down, seq)
          /\ (sub.pc = "ready" => sub.last <= seq)

News == {"no", "joined", "raced", "lost", "left"}
Request == {"authenticate", "subscribe", "unsubscribe", "snapshot", "torn"}
MoreTypes ==
  /\ watched \in [Machine -> News] /\ up \in Seq(Request)
  /\ used \in [conns : Nat, reqs : Nat, blind : BOOLEAN]
  /\ task.kind # "dropped" /\ \A i \in 1..Len(conn.q) : conn.q[i].kind # "dropped"
  /\ Len(conn.q) <= Cap

LEMMA LineNumbers ==
  \A l \in Line : (l.t = "event" \/ Mark(l)) => l.seq \in Nat
BY DEF Line, Mark

(* No event is written, read or sent.                                      *)
LEMMA LagsSame ==
  ASSUME NEW d \in Seq(Line), NEW r \in Seq(Line), NEW q \in Seq(Envelope), NEW k \in TaskType, NEW j \in TaskType,
         NEW n \in Nat, NEW p \in Nat, n <= p, Lags(d, q, k, n),
         j.pc = "send" => (k.pc = "send" /\ j.seq = k.seq) \/ j.seq >= n,
         \A i \in 1..Len(r) : r[i].t = "event" => i \in 1..Len(d) /\ r[i] = d[i]
  PROVE  Lags(r, q, j, p)
<1> SUFFICES ASSUME NEW i \in 1..Len(r), Lag(r[i])
             PROVE  /\ r[i].seq < p
                    /\ \A x \in 1..Len(r) : x # i /\ r[x].t = "event" => r[x].seq # r[i].seq
                    /\ \A x \in 1..Len(q) : q[x].seq # r[i].seq
                    /\ j.pc = "send" => j.seq # r[i].seq
  BY DEF Lags
<1>1. i \in 1..Len(d) /\ r[i] = d[i] /\ d[i] \in Line /\ Lag(d[i]) /\ d[i].seq \in Nat /\ j.seq \in Nat
  BY LineNumbers DEF Lag, TaskType
<1>2. /\ d[i].seq < n
      /\ \A x \in 1..Len(d) : x # i /\ d[x].t = "event" => d[x].seq # d[i].seq
      /\ \A x \in 1..Len(q) : q[x].seq # d[i].seq
      /\ k.pc = "send" => k.seq # d[i].seq
  BY <1>1 DEF Lags
<1>3. r[i].seq < p
  BY <1>1, <1>2
<1>4. \A x \in 1..Len(r) : x # i /\ r[x].t = "event" => r[x].seq # r[i].seq
  BY <1>1, <1>2
<1>5. j.pc = "send" => j.seq # r[i].seq
  BY <1>1, <1>2
<1> QED
  BY <1>1, <1>2, <1>3, <1>4, <1>5

(* A notice with the next number is written.                               *)
LEMMA LagsNotice ==
  ASSUME NEW d \in Seq(Line), NEW q \in Seq(Envelope), NEW k \in TaskType, NEW n \in Nat, NEW o,
         Lags(d, q, k, n), Below(d, q, n, o), k.pc = "send" => k.seq < n,
         NEW l \in Line, Lag(l), l.seq = n
  PROVE  Lags(Append(d, l), q, k, n + 1)
<1>1. PICK r : r = Append(d, l)
  OBVIOUS
<1>2. /\ r \in Seq(Line)
      /\ \A i \in 1..Len(r) :
              i \in Nat /\ (\/ i \in 1..Len(d) /\ r[i] = d[i]
                            \/ (\A j \in 1..Len(d) : j < i) /\ i \notin 1..Len(d) /\ r[i] = l)
  BY <1>1, AppendIs
<1>3. \A i \in 1..Len(d) : d[i] \in Line /\ (d[i].t = "event" => d[i].seq \in Nat /\ d[i].seq < n)
  BY LineNumbers DEF Lags, Below, Sent, Lag
<1>4. \A i \in 1..Len(q) : q[i].seq \in Nat /\ q[i].seq < n
  BY Numbers DEF Below
<1>5. \A i, j \in 1..Len(r) : i \notin 1..Len(d) /\ j \notin 1..Len(d) => i = j
  <2>1. Len(r) = Len(d) + 1 /\ Len(d) \in Nat
    BY <1>1
  <2> QED
    BY <2>1
<1> QED
  BY <1>1, <1>2, <1>3, <1>4, <1>5 DEF Lags, TaskType, Lag

(* A line is read.                                                         *)
LEMMA LagsTail ==
  ASSUME NEW d \in Seq(Line), d # <<>>, NEW q, NEW k, NEW n, Lags(d, q, k, n)
  PROVE  Lags(Tail(d), q, k, n)
<1>1. PICK r : r = Tail(d)
  OBVIOUS
<1>2. \A i \in 1..Len(r) : i \in Nat /\ i + 1 \in 1..Len(d) /\ 1 < i + 1 /\ r[i] = d[i + 1]
  BY <1>1, TailIs
<1>3. \A i, j \in 1..Len(r) : i # j => i + 1 # j + 1
  BY <1>2
<1> QED
  BY <1>1, <1>2, <1>3 DEF Lags

(* The event in the hands of the event task is sent.                       *)
LEMMA LagsPush ==
  ASSUME NEW d, NEW q, NEW p, NEW k, NEW j, NEW n, Lags(d, q, k, n), k.pc = "send", j.pc # "send",
         \A i \in 1..Len(p) : p[i].seq = k.seq \/ \E x \in 1..Len(q) : p[i] = q[x]
  PROVE  Lags(d, p, j, n)
BY DEF Lags

(* The first envelope of the ring is written or left out.                  *)
LEMMA LagsForward ==
  ASSUME NEW d \in Seq(Line), NEW q \in Seq(Envelope), q # <<>>, NEW k, NEW n, Lags(d, q, k, n)
  PROVE  /\ Lags(d, Tail(q), k, n)
         /\ \A l \in Line : Sent(l) /\ l.seq = Head(q).seq => Lags(Append(d, l), Tail(q), k, n)
<1>1. PICK t : t = Tail(q)
  OBVIOUS
<1>2. /\ Head(q) = q[1] /\ 1 \in 1..Len(q)
      /\ \A i \in 1..Len(t) : i + 1 \in 1..Len(q) /\ t[i] = q[i + 1]
  BY <1>1, TailIs
<1>3. Lags(d, t, k, n)
  BY <1>2 DEF Lags
<1>4. ASSUME NEW l \in Line, Sent(l), l.seq = Head(q).seq
      PROVE  Lags(Append(d, l), t, k, n)
  <2>1. PICK r : r = Append(d, l)
    OBVIOUS
  <2>2. \A i \in 1..Len(r) :
              i \in Nat /\ (\/ i \in 1..Len(d) /\ r[i] = d[i]
                            \/ (\A j \in 1..Len(d) : j < i) /\ i \notin 1..Len(d) /\ r[i] = l)
    BY <2>1, AppendIs
  <2>3. \A i \in 1..Len(r) : Lag(r[i]) => i \in 1..Len(d) /\ r[i] = d[i]
    BY <2>2, <1>4 DEF Lag, Sent
  <2> QED
    BY <2>1, <2>2, <2>3, <1>2, <1>3, <1>4 DEF Lags
<1> QED
  BY <1>1, <1>3, <1>4

(* A line is torn: the others are where they were.                         *)
LEMMA TearIs ==
  ASSUME NEW S, NEW d \in Seq(S), d # <<>>, NEW l, NEW r, r = <<l>> \o Tail(d)
  PROVE  /\ Len(r) = Len(d) /\ 1 \in 1..Len(d) /\ r[1] = l
         /\ \A i \in 1..Len(r) : i \in 1..Len(d) /\ ((i # 1 /\ r[i] = d[i]) \/ (i = 1 /\ r[i] = l))
<1>1. Tail(d) \in Seq(S) /\ <<l>> \in Seq({l}) /\ Len(<<l>>) = 1 /\ Len(d) \in Nat
      /\ Len(Tail(d)) = Len(d) - 1 /\ <<l>>[1] = l
  OBVIOUS
<1>2. Len(r) = Len(d) /\ r[1] = l /\ 1 \in 1..Len(d)
  BY <1>1
<1>3. ASSUME NEW i \in 1..Len(r), i # 1 PROVE r[i] = d[i]
  <2>1. i \in Nat /\ i > 1 /\ i - 1 \in 1..Len(Tail(d)) /\ i <= Len(d)
    BY <1>1, <1>2, <1>3
  <2>2. r[i] = Tail(d)[i - 1]
    BY <1>1, <2>1
  <2>3. Tail(d)[i - 1] = d[(i - 1) + 1]
    BY <1>1, <2>1
  <2> QED
    BY <2>1, <2>2, <2>3
<1> QED
  BY <1>2, <1>3

(* A step that writes, reads and sends no event.                           *)
Calm ==
  /\ Open' => Open /\ conn'.q = conn.q
  /\ seq <= seq'
  /\ task'.pc = "send" => (task.pc = "send" /\ task'.seq = task.seq) \/ task'.seq >= seq
  /\ \A i \in 1..Len(down') : down'[i].t = "event" => i \in 1..Len(down) /\ down'[i] = down[i]
  /\ \A i \in 1..Len(down') :
       Mark(down'[i]) => (i \in 1..Len(down) /\ down'[i] = down[i]) \/ down'[i].seq = seq'
  /\ sub'.pc = sub.pc /\ sub'.last = sub.last

(* Such a step keeps what is said of notices and marks.                    *)
LEMMA CalmKeeps == ASSUME StreamInv, Types', NotedInv, Calm PROVE NotedInv'
<1> SUFFICES ASSUME Open'
             PROVE  Lags(down, conn.q, task, seq)' /\ Marks(down, seq)'
                    /\ (sub'.pc = "ready" => sub'.last <= seq')
  BY DEF NotedInv
<1>1. /\ down \in Seq(Line) /\ down' \in Seq(Line) /\ task \in TaskType /\ task' \in TaskType
      /\ seq \in Nat /\ seq' \in Nat /\ sub.last \in Nat /\ conn.q \in Seq(Envelope)
  BY DEF StreamInv, Types, ConnType, SubType
<1>2. /\ Lags(down, conn.q, task, seq) /\ Marks(down, seq) /\ (sub.pc = "ready" => sub.last <= seq)
      /\ conn'.q = conn.q
  BY DEF NotedInv, Calm
<1>3. Lags(down', conn.q, task', seq')
  BY <1>1, <1>2, LagsSame DEF Calm
<1>4. Marks(down', seq')
  <2> SUFFICES ASSUME NEW i \in 1..Len(down'), Mark(down'[i]) PROVE down'[i].seq <= seq'
    BY DEF Marks
  <2>1. down'[i] \in Line /\ down'[i].seq \in Nat
    BY <1>1, LineNumbers
  <2> QED
    BY <2>1, <1>1, <1>2 DEF Calm, Marks
<1> QED
  BY <1>1, <1>2, <1>3, <1>4 DEF Calm

(* A line that is no event is written.                                     *)
LEMMA WriteCalm ==
  ASSUME NEW l \in Line, l.t # "event", Types, down' = Append(down, l), Mark(l) => l.seq = seq'
  PROVE  /\ \A i \in 1..Len(down') : down'[i].t = "event" => i \in 1..Len(down) /\ down'[i] = down[i]
         /\ \A i \in 1..Len(down') :
              Mark(down'[i]) => (i \in 1..Len(down) /\ down'[i] = down[i]) \/ down'[i].seq = seq'
<1>1. down \in Seq(Line)
  BY DEF Types
<1> QED
  BY <1>1, AppendIs

(* The steps of this kind.                                                 *)
LEMMA CalmSteps ==
  ASSUME StreamInv,
         \/ \E m \in Machine : MachineConnected(m) \/ MachineDisconnected(m)
         \/ SessionData \/ FetchTaken \/ setMachines \/ UNCHANGED vars \/ RequestSnapshot
         \/ wrap_event \/ SnapshotList \/ Authenticate \/ Subscription \/ RefuseTorn \/ SnapshotReply
         \/ SendRequest
  PROVE  Calm
<1>1. /\ Types /\ down \in Seq(Line) /\ seq \in Nat /\ task \in TaskType /\ conn \in ConnType
      /\ sub \in SubType /\ seq <= seq
  BY DEF StreamInv, Types
<1>2. CASE \/ \E m \in Machine : MachineConnected(m) \/ MachineDisconnected(m)
           \/ SessionData \/ FetchTaken \/ setMachines \/ UNCHANGED vars \/ RequestSnapshot
  <2>1. UNCHANGED <<seq, conn, down>>
    BY <1>2 DEF MachineConnected, MachineDisconnected, PoolChange, SessionData, FetchTaken, setMachines,
       vars, RequestSnapshot
  <2>2. task' = task \/ task'.pc = "wrap"
    BY <1>2 DEF MachineConnected, MachineDisconnected, PoolChange, SessionData, FetchTaken, setMachines,
       vars, RequestSnapshot, Idle
  <2>3. sub' = sub \/ sub' = [sub EXCEPT !.need = FALSE]
    BY <1>2 DEF MachineConnected, MachineDisconnected, PoolChange, SessionData, FetchTaken, setMachines,
       vars, RequestSnapshot
  <2>4. sub'.pc = sub.pc /\ sub'.last = sub.last
    BY <2>3, <1>1 DEF SubType
  <2> QED
    BY <2>1, <2>2, <2>4, <1>1 DEF Calm, Open
<1>3. CASE wrap_event
  <2>1. UNCHANGED <<conn, down, sub>> /\ seq' = seq + 1 /\ task'.seq = seq
    BY <1>1, <1>3 DEF wrap_event, TaskType
  <2> QED
    BY <2>1, <1>1 DEF Calm, Open
<1>4. CASE SnapshotList
  <2>1. UNCHANGED <<seq, task, down, sub>> /\ conn'.q = conn.q /\ conn'.st = conn.st
    BY <1>1, <1>4 DEF SnapshotList, ConnType
  <2> QED
    BY <2>1, <1>1 DEF Calm, Open
<1>5. CASE Authenticate \/ Subscription \/ SnapshotReply
  <2>1. UNCHANGED <<seq, task, sub>>
    BY <1>5 DEF Authenticate, Subscription, SnapshotReply
  <2>2. conn'.q = conn.q /\ Open
    BY <1>1, <1>5 DEF Authenticate, Subscription, SnapshotReply, ConnType, Open
  <2>3. PICK l : /\ down' = Append(down, l)
                 /\ \/ l = [t |-> "authenticated", seq |-> seq] \/ l = [t |-> "response"]
                    \/ l = [t |-> "snapshot", seq |-> seq, machines |-> conn.listed]
    BY <1>5 DEF Authenticate, Subscription, SnapshotReply
  <2>4. l \in Line /\ l.t # "event" /\ (Mark(l) => l.seq = seq')
    BY <1>1, <2>1, <2>3 DEF Line, Mark, ConnType
  <2> QED
    BY <1>1, <2>1, <2>2, <2>3, <2>4, WriteCalm DEF Calm
<1>6. CASE SendRequest
  <2>1. UNCHANGED <<seq, task, sub, conn>>
    BY <1>6 DEF SendRequest
  <2>2. \A i \in 1..Len(down') :
          down'[i].t = "event" \/ Mark(down'[i]) => i \in 1..Len(down) /\ down'[i] = down[i]
    <3>1. CASE down' = down
      BY <3>1
    <3>2. CASE down # <<>> /\ down' = <<[t |-> "torn"]>> \o Tail(down)
      <4>1. PICK l : l = [t |-> "torn"]
        OBVIOUS
      <4>2. \A i \in 1..Len(down') : (i \in 1..Len(down) /\ down'[i] = down[i]) \/ down'[i] = l
        BY <1>1, <3>2, <4>1, TearIs
      <4> QED
        BY <4>1, <4>2 DEF Mark
    <3> QED
      BY <1>6, <3>1, <3>2, TearsAre DEF SendRequest
  <2> QED
    BY <2>1, <2>2, <1>1 DEF Calm, Open
<1>7. CASE RefuseTorn
  <2>1. UNCHANGED <<seq, task, sub, conn>> /\ Open
    BY <1>7 DEF RefuseTorn, Open
  <2>2. PICK l : l = [t |-> "response"]
    OBVIOUS
  <2>3. down' = down \/ down' = Append(down, l)
    BY <1>7, <2>2 DEF RefuseTorn
  <2>4. l \in Line /\ l.t # "event" /\ ~Mark(l)
    BY <2>2 DEF Line, Mark
  <2>5. CASE down' = down
    BY <1>1, <2>1, <2>5 DEF Calm
  <2>6. CASE down' = Append(down, l)
    BY <1>1, <2>1, <2>4, <2>6, WriteCalm DEF Calm
  <2> QED
    BY <2>3, <2>5, <2>6
<1> QED
  BY <1>2, <1>3, <1>4, <1>5, <1>6, <1>7

(* What a step of the event stream does to notices and marks.              *)
LEMMA LaggedNoted == ASSUME StreamInv, NotedInv, Lagged PROVE NotedInv'
<1>1. /\ Types /\ down \in Seq(Line) /\ seq \in Nat /\ task \in TaskType /\ conn \in ConnType
      /\ sub \in SubType /\ sub.last \in Nat /\ conn.q \in Seq(Envelope) /\ Open
      /\ Lags(down, conn.q, task, seq) /\ Marks(down, seq) /\ (sub.pc = "ready" => sub.last <= seq)
      /\ Below(down, conn.q, seq, ui.out) /\ (task.pc = "send" => task.seq < seq)
  BY DEF StreamInv, Types, Lagged, Open, NotedInv, ConnType, SubType, Ordered, Numbered
<1>2. UNCHANGED <<task, sub>> /\ conn'.q = conn.q
  BY <1>1 DEF Lagged, ConnType
<1>3. CASE conn.st = "auth"
  <2>1. PICK l : l = [t |-> "event", seq |-> seq, kind |-> "dropped", m |-> NoMachine]
    OBVIOUS
  <2>2. l \in Line /\ Lag(l) /\ l.seq = seq /\ ~Mark(l)
    BY <1>1, <2>1 DEF Line, Lag, Kind, AnyMachine, Mark
  <2>3. down' = Append(down, l) /\ seq' = seq + 1
    BY <1>3, <2>1 DEF Lagged
  <2>4. Lags(down', conn.q, task, seq')
    BY <1>1, <2>2, <2>3, LagsNotice
  <2>5. Marks(down', seq')
    <3> SUFFICES ASSUME NEW i \in 1..Len(down'), Mark(down'[i]) PROVE down'[i].seq <= seq'
      BY DEF Marks
    <3>1. i \in 1..Len(down) /\ down'[i] = down[i]
      BY <1>1, <2>2, <2>3, AppendIs
    <3>2. down[i].seq \in Nat /\ down[i].seq <= seq
      BY <3>1, <1>1, LineNumbers DEF Marks
    <3> QED
      BY <3>1, <3>2, <2>3, <1>1
  <2> QED
    BY <1>1, <1>2, <2>3, <2>4, <2>5 DEF NotedInv
<1>4. CASE conn.st # "auth"
  BY <1>1, <1>2, <1>4 DEF Lagged, NotedInv
<1> QED
  BY <1>3, <1>4

LEMMA BroadcastNoted == ASSUME StreamInv, NotedInv, Broadcast PROVE NotedInv'
<1> SUFFICES ASSUME Open' PROVE NotedInv'
  BY DEF NotedInv
<1>1. /\ Types /\ task \in TaskType /\ conn \in ConnType /\ conn.q \in Seq(Envelope)
      /\ UNCHANGED <<seq, down, sub>> /\ task.pc = "send" /\ task'.pc = "idle"
  BY DEF StreamInv, Types, ConnType, Broadcast, Idle
<1>2. PICK e : e = [seq |-> task.seq, kind |-> task.kind, m |-> task.m]
  OBVIOUS
<1>3. Open /\ conn' = Push(conn, e)
  BY <1>1, <1>2 DEF Broadcast, Open
<1>4. e \in Envelope /\ e.seq = task.seq
  BY <1>1, <1>2 DEF TaskType, Envelope, AnyMachine
<1>5. \A i \in 1..Len(conn'.q) : conn'.q[i].seq = task.seq \/ \E x \in 1..Len(conn.q) : conn'.q[i] = conn.q[x]
  <2>1. CASE Len(conn.q) < Cap
    <3>1. conn'.q = Append(conn.q, e)
      BY <1>1, <1>3, <2>1 DEF Push, ConnType
    <3> QED
      BY <3>1, <1>1, <1>4, AppendIs
  <2>2. CASE ~(Len(conn.q) < Cap)
    <3>1. conn'.q = Append(Tail(conn.q), e)
      BY <1>1, <1>3, <2>2 DEF Push, ConnType
    <3>2. conn.q # <<>>
      BY <1>1, <2>2, EventStreamAssumption
    <3>3. PICK p : p = Tail(conn.q)
      OBVIOUS
    <3>4. p \in Seq(Envelope) /\ \A i \in 1..Len(p) : i + 1 \in 1..Len(conn.q) /\ p[i] = conn.q[i + 1]
      BY <3>2, <3>3, <1>1, TailIs
    <3> QED
      BY <3>1, <3>3, <3>4, <1>4, AppendIs
  <2> QED
    BY <2>1, <2>2
<1>6. Lags(down, conn'.q, task', seq)
  BY <1>1, <1>3, <1>5, LagsPush DEF NotedInv
<1> QED
  BY <1>1, <1>3, <1>6 DEF NotedInv

LEMMA ForwardNoted == ASSUME StreamInv, MoreTypes, NotedInv, ForwardEvent PROVE NotedInv'
<1>1. /\ Types /\ down \in Seq(Line) /\ conn \in ConnType /\ conn.q \in Seq(Envelope) /\ conn.q # <<>>
      /\ UNCHANGED <<seq, task, sub>> /\ Open
      /\ Lags(down, conn.q, task, seq) /\ Marks(down, seq) /\ (sub.pc = "ready" => sub.last <= seq)
  BY DEF StreamInv, Types, ConnType, ForwardEvent, Open, NotedInv
<1>2. conn'.q = Tail(conn.q)
  BY <1>1 DEF ForwardEvent, ConnType
<1>3. PICK e : e = Head(conn.q)
  OBVIOUS
<1>4. PICK l : l = [t |-> "event", seq |-> e.seq, kind |-> e.kind, m |-> e.m]
  OBVIOUS
<1>5. e \in Envelope
  BY <1>1, <1>3, TailIs
<1>6. l \in Line /\ l.seq = e.seq /\ ~Mark(l) /\ l.t = "event"
  BY <1>4, <1>5 DEF Line, Envelope, Mark, AnyMachine
<1>7. down' = down \/ down' = Append(down, l)
  BY <1>3, <1>4 DEF ForwardEvent
<1>8. CASE down' = down
  BY <1>1, <1>2, <1>8, LagsForward DEF NotedInv
<1>9. CASE down' = Append(down, l)
  <2>1. Sent(l)
    <3>1. e.kind # "dropped"
      BY <1>1, <1>3, TailIs DEF MoreTypes
    <3> QED
      BY <1>4, <3>1 DEF Sent
  <2>2. Lags(down', conn'.q, task, seq)
    BY <1>1, <1>2, <1>3, <1>6, <1>9, <2>1, LagsForward
  <2>3. Marks(down', seq)
    BY <1>1, <1>6, <1>9, AppendIs DEF Marks
  <2> QED
    BY <1>1, <2>2, <2>3 DEF NotedInv
<1> QED
  BY <1>7, <1>8, <1>9

(* A line is read: a mark, an event of this epoch, or neither.             *)
LEMMA ReadNoted ==
  ASSUME StreamInv, NotedInv, ReadAuthenticated \/ ReadEvent \/ ReadSnapshot \/ ReadOther
  PROVE  NotedInv'
<1> SUFFICES ASSUME Open PROVE NotedInv'
  BY DEF NotedInv, ReadAuthenticated, ReadEvent, ReadSnapshot, ReadOther, Open
<1>1. /\ Types /\ down \in Seq(Line) /\ seq \in Nat /\ sub \in SubType /\ down # <<>> /\ down' = Tail(down)
      /\ UNCHANGED <<seq, task, conn>>
      /\ Lags(down, conn.q, task, seq) /\ Marks(down, seq) /\ (sub.pc = "ready" => sub.last <= seq)
      /\ Below(down, conn.q, seq, ui.out)
  BY DEF StreamInv, Types, ReadAuthenticated, ReadEvent, ReadSnapshot, ReadOther, Received, NotedInv, Ordered
<1>2. PICK e : e = Head(down)
  OBVIOUS
<1>3. e = down[1] /\ 1 \in 1..Len(down) /\ e \in Line
  BY <1>1, <1>2, TailIs
<1>4. Lags(down', conn.q, task, seq)
  BY <1>1, LagsTail
<1>5. Marks(down', seq)
  BY <1>1, TailIs DEF Marks
<1>6. sub'.pc = "ready" => sub'.last <= seq
  <2>1. CASE ReadAuthenticated \/ ReadSnapshot
    <3>1. Mark(e) /\ sub'.last = e.seq
      BY <1>1, <1>2, <2>1 DEF ReadAuthenticated, ReadSnapshot, Received, Mark, SubType
    <3> QED
      BY <3>1, <1>1, <1>3 DEF Marks
  <2>2. CASE ReadOther
    BY <1>1, <2>2 DEF ReadOther
  <2>3. CASE ReadEvent
    <3>1. e.t = "event" /\ (\/ sub' = [sub EXCEPT !.need = TRUE]
                            \/ sub' = [sub EXCEPT !.last = e.seq])
      BY <1>2, <2>3 DEF ReadEvent, Received
    <3>2. e.seq \in Nat /\ e.seq < seq
      BY <3>1, <1>1, <1>3, LineNumbers DEF Lags, Below, Sent, Lag
    <3>3. sub.pc = "ready"
      BY <2>3 DEF ReadEvent
    <3> QED
      BY <3>1, <3>2, <3>3, <1>1 DEF SubType
  <2> QED
    BY <2>1, <2>2, <2>3
<1> QED
  BY <1>1, <1>4, <1>5, <1>6 DEF NotedInv, Open

LEMMA StepNoted == ASSUME StreamInv, MoreTypes, NotedInv, [Next]_vars PROVE NotedInv'
<1>1. Types'
  BY StepStream DEF StreamInv
<1>2. CASE Break \/ Restart \/ Disconnected \/ AuthenticationFailed
  <2>1. conn'.st \in {"none", "closed"}
    BY <1>2 DEF Break, Restart, Disconnected, AuthenticationFailed, NoConnection
  <2> QED
    BY <2>1 DEF NotedInv, Open
<1>3. CASE Connect
  <2>1. /\ conn'.q = <<>> /\ down' = <<>> /\ sub' = [sub EXCEPT !.pc = "authing", !.need = FALSE]
        /\ sub \in SubType
    BY <1>3 DEF Connect, NoConnection, StreamInv, Types
  <2>2. sub'.pc = "authing" /\ Len(down') = 0
    BY <2>1 DEF SubType
  <2> QED
    BY <2>1, <2>2 DEF NotedInv, Lags, Marks
<1>4. CASE Lagged \/ Broadcast \/ ForwardEvent
  BY <1>4, LaggedNoted, BroadcastNoted, ForwardNoted
<1>5. CASE ReadAuthenticated \/ ReadEvent \/ ReadSnapshot \/ ReadOther
  BY <1>5, ReadNoted
<1>6. CASE \/ \E m \in Machine : MachineConnected(m) \/ MachineDisconnected(m)
           \/ SessionData \/ FetchTaken \/ setMachines \/ UNCHANGED vars \/ RequestSnapshot
           \/ wrap_event \/ SnapshotList \/ Authenticate \/ Subscription \/ RefuseTorn \/ SnapshotReply
           \/ SendRequest
  BY <1>1, <1>6, CalmSteps, CalmKeeps
<1> QED
  BY <1>2, <1>3, <1>4, <1>5, <1>6 DEF Next, ServerStep, SubscriberStep

-----------------------------------------------------------------------------
(* Who watches, and what the subscriber has asked for                      *)

Leaves(e, m) == e.kind = "disconnected" /\ e.m = m

(* A machine that joined while the desktop watched is in the pool, the     *)
(* event task is not about to report its loss, and a snapshot in the       *)
(* making holds it unless it joined meanwhile.                             *)
WatchInv ==
  \A m \in Joined :
    /\ conn.st = "auth" /\ ui.fetch = "done" /\ m \in live
    /\ task.pc # "idle" => ~Leaves(task, m)
    /\ watched[m] = "joined" /\ conn.listing => m \in conn.listed

(* The subscriber authenticates once per connection.                       *)
UpInv ==
  /\ conn.st = "open" => Len(up) <= 1
  /\ \A i \in 1..Len(up) : up[i] = "authenticate" => conn.st = "open"

(* A subscriber that has not stood at 0 does not: a snapshot is asked for  *)
(* after a gap, when numbers have been given out.                          *)
Asking == sub.need \/ conn.listing \/ \E i \in 1..Len(up) : up[i] = "snapshot"
AwakeInv ==
  /\ sub.pc = "ready" /\ ~used.blind => sub.last > 0
  /\ sub.pc = "authing" => ~used.blind
  /\ \A i \in 1..Len(down) : down[i].t = "snapshot" => down[i].seq > 0
  /\ Open /\ Asking => seq > 0

SideInv == MoreTypes /\ NotedInv /\ WatchInv /\ UpInv /\ AwakeInv

(* The first state.                                                        *)
LEMMA InitSide == Init => SideInv
<1> SUFFICES ASSUME Init PROVE SideInv
  OBVIOUS
<1>1. /\ watched = NotWatched /\ up = <<>> /\ down = <<>> /\ conn = NoConnection /\ task = Idle
      /\ sub.pc = "off" /\ used = [conns |-> 0, reqs |-> 0, blind |-> FALSE]
  BY DEF Init
<1>2. /\ Len(up) = 0 /\ Len(down) = 0 /\ conn.q = <<>> /\ conn.st = "none" /\ Len(conn.q) = 0
      /\ task.kind = "output"
  BY <1>1 DEF NoConnection, Idle
<1>3. MoreTypes
  BY <1>1, <1>2, EventStreamAssumption DEF MoreTypes, NotWatched, News
<1>4. Joined = {}
  BY <1>1 DEF Joined, NotWatched
<1> QED
  BY <1>1, <1>2, <1>3, <1>4 DEF SideInv, NotedInv, Open, WatchInv, UpInv, AwakeInv

(* What each step does to the requests, the counters and the ring.         *)
LEMMA StepTypes == ASSUME StreamInv, MoreTypes, [Next]_vars PROVE MoreTypes'
<1>1. /\ Types /\ conn \in ConnType /\ conn.q \in Seq(Envelope) /\ task \in TaskType
      /\ watched \in [Machine -> News] /\ up \in Seq(Request)
      /\ used \in [conns : Nat, reqs : Nat, blind : BOOLEAN]
      /\ task.kind # "dropped" /\ \A i \in 1..Len(conn.q) : conn.q[i].kind # "dropped"
  BY DEF StreamInv, Types, ConnType, MoreTypes
<1>2. watched' \in [Machine -> News]
  <2>1. CASE \E m \in Machine : MachineConnected(m) \/ MachineDisconnected(m)
    <3>1. PICK m \in Machine, v \in News : watched' = [watched EXCEPT ![m] = v]
      BY <2>1 DEF MachineConnected, MachineDisconnected, PoolChange, News
    <3> QED
      BY <3>1, <1>1
  <2>2. CASE Broadcast
    BY <2>2, <1>1 DEF Broadcast, News
  <2>3. CASE Break \/ Restart \/ AuthenticationFailed
    BY <2>3 DEF Break, Restart, AuthenticationFailed, NotWatched, News
  <2>4. CASE UNCHANGED watched
    BY <2>4, <1>1
  <2>5. CASE SendRequest
    BY <2>5, <1>1 DEF SendRequest, News
  <2> QED
    BY <2>1, <2>2, <2>3, <2>4, <2>5 DEF Next, ServerStep, SubscriberStep, vars, SessionData, wrap_event, Authenticate,
       Subscription, RefuseTorn, SnapshotList, SnapshotReply, ForwardEvent, Lagged, Connect, ReadAuthenticated,
       ReadEvent, RequestSnapshot, ReadSnapshot, ReadOther, Disconnected, FetchTaken, setMachines
<1>3. up' \in Seq(Request)
  <2>1. CASE Authenticate \/ Subscription \/ RefuseTorn \/ SnapshotList
    <3>1. up # <<>> /\ up' = Tail(up)
      BY <2>1 DEF Authenticate, Subscription, RefuseTorn, SnapshotList
    <3> QED
      BY <3>1, <1>1
  <2>2. CASE RequestSnapshot \/ SendRequest
    <3>1. PICK r \in Request : up' = up \/ up' = Append(up, r)
      BY <2>2 DEF RequestSnapshot, SendRequest, Request
    <3> QED
      BY <3>1, <1>1
  <2>3. CASE Break \/ Restart \/ AuthenticationFailed \/ Connect
    <3>1. PICK r \in Request : up' = <<>> \/ up' = <<r>>
      BY <2>3 DEF Break, Restart, AuthenticationFailed, Connect, Request
    <3>2. <<>> \in Seq(Request) /\ <<r>> \in Seq(Request)
      OBVIOUS
    <3> QED
      BY <3>1, <3>2
  <2>4. CASE UNCHANGED up
    BY <2>4, <1>1
  <2>5. CASE ForwardEvent \/ Lagged
    <3>1. up' \in Tears(up, "torn")
      BY <2>5 DEF ForwardEvent, Lagged
    <3>2. up' = up \/ (up # <<>> /\ up' = <<"torn">> \o Tail(up))
      BY <3>1, TearsAre
    <3>3. "torn" \in Request /\ (up # <<>> => Tail(up) \in Seq(Request))
      BY <1>1 DEF Request
    <3>4. <<"torn">> \in Seq(Request)
      BY <3>3
    <3>5. up # <<>> => <<"torn">> \o Tail(up) \in Seq(Request)
      BY <3>3, <3>4
    <3> QED
      BY <1>1, <3>2, <3>5
  <2> QED
    BY <2>1, <2>2, <2>3, <2>4, <2>5 DEF Next, ServerStep, SubscriberStep, vars, SessionData, wrap_event, Broadcast,
       MachineConnected, MachineDisconnected, PoolChange, SnapshotReply,
       ReadAuthenticated, ReadEvent, ReadSnapshot, ReadOther, Disconnected, FetchTaken, setMachines
<1>4. used' \in [conns : Nat, reqs : Nat, blind : BOOLEAN]
  <2>1. CASE Connect \/ SendRequest
    <3>1. CASE Connect
      <4>1. used' = [used EXCEPT !.conns = used.conns + 1, !.blind = FALSE]
        BY <3>1 DEF Connect
      <4>2. used \in [conns : Nat, reqs : Nat, blind : BOOLEAN]
        BY <1>1
      <4>3. used.conns + 1 \in Nat
        BY <4>2
      <4>4. PICK u : u = [used EXCEPT !.conns = used.conns + 1]
        OBVIOUS
      <4>5. u \in [conns : Nat, reqs : Nat, blind : BOOLEAN]
        BY <4>2, <4>3, <4>4
      <4>6. used' = [u EXCEPT !.blind = FALSE]
        BY <4>1, <4>4
      <4> QED
        BY <4>5, <4>6
    <3>2. CASE SendRequest
      <4>1. used' = [used EXCEPT !.reqs = used.reqs + 1]
        BY <3>2 DEF SendRequest
      <4>2. used \in [conns : Nat, reqs : Nat, blind : BOOLEAN]
        BY <1>1
      <4>3. used.reqs + 1 \in Nat
        BY <4>2
      <4> QED
        BY <4>1, <4>2, <4>3
    <3> QED
      BY <2>1, <3>1, <3>2
  <2>2. CASE ReadAuthenticated \/ ReadEvent
    <3>1. PICK b \in BOOLEAN : used' = [used EXCEPT !.blind = b]
      <4>1. used.blind \in BOOLEAN
        BY <1>1
      <4>2. CASE ReadAuthenticated
        BY <4>2 DEF ReadAuthenticated
      <4>3. CASE ReadEvent
        <5>1. used' = [used EXCEPT !.blind = used.blind \/ sub'.last = 0]
          BY <4>3 DEF ReadEvent
        <5> QED
          BY <5>1
      <4> QED
        BY <4>2, <4>3, <2>2
    <3> QED
      BY <3>1, <1>1
  <2>4. CASE UNCHANGED used
    BY <2>4, <1>1
  <2> QED
    BY <2>1, <2>2, <2>4 DEF Next, ServerStep, SubscriberStep, vars, SessionData, wrap_event, Broadcast,
       MachineConnected, MachineDisconnected, PoolChange, Authenticate, Subscription, RefuseTorn, SnapshotList,
       SnapshotReply, ForwardEvent, Lagged, Break, Restart, AuthenticationFailed, RequestSnapshot, ReadSnapshot,
       ReadOther, Disconnected, FetchTaken, setMachines
<1>5. task'.kind # "dropped"
  <2>1. CASE \E m \in Machine : MachineConnected(m) \/ MachineDisconnected(m)
    BY <2>1 DEF MachineConnected, MachineDisconnected, PoolChange, Idle
  <2>2. CASE SessionData \/ Broadcast \/ Restart
    BY <2>2 DEF SessionData, Broadcast, Restart, Idle
  <2>3. CASE wrap_event
    BY <2>3, <1>1 DEF wrap_event, TaskType
  <2>4. CASE UNCHANGED task
    BY <2>4, <1>1
  <2> QED
    BY <2>1, <2>2, <2>3, <2>4 DEF Next, ServerStep, SubscriberStep, vars, Authenticate, Subscription, RefuseTorn,
       SnapshotList, SnapshotReply, ForwardEvent, Lagged, Break, Connect, ReadAuthenticated, AuthenticationFailed,  ReadEvent, SendRequest,
       RequestSnapshot, ReadSnapshot, ReadOther, Disconnected, FetchTaken, setMachines
<1>6. \A i \in 1..Len(conn'.q) : conn'.q[i].kind # "dropped"
  <2>1. CASE Broadcast /\ Open
    <3>1. PICK e : e = [seq |-> task.seq, kind |-> task.kind, m |-> task.m]
      OBVIOUS
    <3>2. e \in Envelope /\ e.kind # "dropped"
      BY <3>1, <1>1 DEF TaskType, Envelope, AnyMachine
    <3>3. conn' = Push(conn, e)
      BY <2>1, <3>1 DEF Broadcast, Open
    <3>4. CASE Len(conn.q) < Cap
      <4>1. conn'.q = Append(conn.q, e)
        BY <1>1, <3>3, <3>4 DEF Push, ConnType
      <4> QED
        BY <4>1, <1>1, <3>2, AppendIs
    <3>5. CASE ~(Len(conn.q) < Cap)
      <4>1. conn'.q = Append(Tail(conn.q), e) /\ conn.q # <<>>
        BY <1>1, <3>3, <3>5, EventStreamAssumption DEF Push, ConnType
      <4>2. PICK p : p = Tail(conn.q)
        OBVIOUS
      <4>3. p \in Seq(Envelope) /\ \A i \in 1..Len(p) : i + 1 \in 1..Len(conn.q) /\ p[i] = conn.q[i + 1]
        BY <4>1, <4>2, <1>1, TailIs
      <4> QED
        BY <4>1, <4>2, <4>3, <1>1, <3>2, AppendIs
    <3> QED
      BY <3>4, <3>5
  <2>2. CASE ForwardEvent
    <3>1. conn'.q = Tail(conn.q) /\ conn.q # <<>>
      BY <2>2, <1>1 DEF ForwardEvent, ConnType
    <3> QED
      BY <3>1, <1>1, TailIs
  <2>3. CASE Break \/ Restart \/ Connect \/ Disconnected \/ AuthenticationFailed
    <3>1. conn'.q = <<>>
      BY <2>3 DEF Break, Restart, Connect, Disconnected, AuthenticationFailed, NoConnection
    <3> QED
      BY <3>1
  <2>4. CASE Authenticate \/ Subscription \/ RefuseTorn \/ SnapshotList \/ SnapshotReply \/ Lagged
    <3>1. conn'.q = conn.q
      BY <2>4, <1>1 DEF Authenticate, Subscription, RefuseTorn, SnapshotList, SnapshotReply, Lagged, ConnType
    <3> QED
      BY <3>1, <1>1
  <2>5. CASE UNCHANGED conn
    BY <2>5, <1>1
  <2>6. Broadcast => Open \/ UNCHANGED conn
    BY DEF Broadcast, Open
  <2> QED
    BY <2>1, <2>2, <2>3, <2>4, <2>5, <2>6 DEF Next, ServerStep, SubscriberStep, vars, SessionData, wrap_event,
       MachineConnected, MachineDisconnected, PoolChange, ReadAuthenticated, ReadEvent, SendRequest,
       RequestSnapshot, ReadSnapshot, ReadOther, FetchTaken, setMachines
<1>7. Len(conn'.q) <= Cap
  <2>1. Len(conn.q) \in Nat /\ Cap \in Nat /\ Cap > 0 /\ Len(conn.q) <= Cap /\ conn.q \in Seq(Envelope)
    BY <1>1, EventStreamAssumption DEF ConnType, MoreTypes
  <2>2. CASE Broadcast /\ Open
    <3>1. PICK e : e = [seq |-> task.seq, kind |-> task.kind, m |-> task.m]
      OBVIOUS
    <3>2. conn' = Push(conn, e) /\ e \in Envelope
      BY <2>2, <3>1, <1>1 DEF Broadcast, Open, TaskType, Envelope, AnyMachine
    <3>3. CASE Len(conn.q) < Cap
      <4>1. conn'.q = Append(conn.q, e)
        BY <1>1, <3>2, <3>3 DEF Push, ConnType
      <4> QED
        BY <4>1, <2>1, <3>2, <3>3
    <3>4. CASE ~(Len(conn.q) < Cap)
      <4>1. conn'.q = Append(Tail(conn.q), e) /\ conn.q # <<>>
        BY <1>1, <3>2, <3>4, <2>1 DEF Push, ConnType
      <4>2. PICK p : p = Tail(conn.q)
        OBVIOUS
      <4>3. p \in Seq(Envelope) /\ Len(p) = Len(conn.q) - 1
        BY <4>1, <4>2, <2>1
      <4>4. Len(Append(p, e)) = Len(p) + 1
        BY <3>2, <4>3
      <4> QED
        BY <4>1, <4>2, <4>3, <4>4, <2>1
    <3> QED
      BY <3>3, <3>4
  <2>3. CASE ForwardEvent
    <3>1. conn'.q = Tail(conn.q) /\ conn.q # <<>>
      BY <2>3, <1>1 DEF ForwardEvent, ConnType
    <3> QED
      BY <3>1, <2>1
  <2>4. CASE Break \/ Restart \/ Connect \/ Disconnected \/ AuthenticationFailed
    <3>1. conn'.q = <<>>
      BY <2>4 DEF Break, Restart, Connect, Disconnected, AuthenticationFailed, NoConnection
    <3> QED
      BY <3>1, <2>1
  <2>5. CASE Authenticate \/ Subscription \/ RefuseTorn \/ SnapshotList \/ SnapshotReply \/ Lagged
    <3>1. conn'.q = conn.q
      BY <2>5, <1>1 DEF Authenticate, Subscription, RefuseTorn, SnapshotList, SnapshotReply, Lagged, ConnType
    <3> QED
      BY <3>1, <2>1
  <2>6. CASE UNCHANGED conn
    BY <2>6, <2>1
  <2>7. Broadcast => Open \/ UNCHANGED conn
    BY DEF Broadcast, Open
  <2> QED
    BY <2>2, <2>3, <2>4, <2>5, <2>6, <2>7 DEF Next, ServerStep, SubscriberStep, vars, SessionData, wrap_event,
       MachineConnected, MachineDisconnected, PoolChange, ReadAuthenticated, ReadEvent, SendRequest,
       RequestSnapshot, ReadSnapshot, ReadOther, FetchTaken, setMachines
<1> QED
  BY <1>2, <1>3, <1>4, <1>5, <1>6, <1>7 DEF MoreTypes

(* Nobody stops watching without forgetting what was watched.              *)
LEMMA StepWatch == ASSUME StreamInv, SideInv, [Next]_vars PROVE WatchInv'
<1>1. /\ Types /\ conn \in ConnType /\ task \in TaskType /\ ui \in UiType /\ WatchInv
      /\ watched \in [Machine -> News] /\ watched' \in [Machine -> News]
  BY StepTypes DEF StreamInv, Types, SideInv, MoreTypes
<1>2. ASSUME NEW m \in Machine, watched'[m] = watched[m], conn'.st = conn.st, ui'.fetch = ui.fetch,
             live' = live, task'.pc = "idle" \/ (task'.kind = task.kind /\ task'.m = task.m /\ task.pc # "idle"),
             conn'.listing = conn.listing /\ conn'.listed = conn.listed, m \in Joined'
      PROVE  /\ conn'.st = "auth" /\ ui'.fetch = "done" /\ m \in live'
             /\ task'.pc # "idle" => ~Leaves(task', m)
             /\ watched'[m] = "joined" /\ conn'.listing => m \in conn'.listed
  <2>1. m \in Joined
    BY <1>2 DEF Joined
  <2> QED
    BY <1>1, <1>2, <2>1 DEF WatchInv, Leaves
<1>3. CASE conn.st # "auth" \/ ui.fetch # "done"
  <2>1. \A m \in Machine : watched[m] \notin {"joined", "raced"}
    BY <1>1, <1>3 DEF WatchInv, Joined
  <2>2. \A m \in Machine : watched'[m] \notin {"joined", "raced"}
    <3>1. CASE \E m \in Machine : MachineConnected(m) \/ MachineDisconnected(m)
      <4>1. PICK m \in Machine : watched' = [watched EXCEPT ![m] = "no"]
        BY <1>3, <3>1 DEF MachineConnected, MachineDisconnected, PoolChange
      <4> QED
        BY <4>1, <2>1, <1>1
    <3>2. CASE Broadcast
      BY <3>2, <2>1 DEF Broadcast
    <3>3. CASE Break \/ Restart \/ AuthenticationFailed
      BY <3>3 DEF Break, Restart, AuthenticationFailed, NotWatched
    <3>4. CASE UNCHANGED watched
      BY <3>4, <2>1
    <3>5. CASE SendRequest
      BY <3>5, <2>1 DEF SendRequest
    <3> QED
      BY <3>1, <3>2, <3>3, <3>4, <3>5 DEF Next, ServerStep, SubscriberStep, vars, SessionData, wrap_event,
         Authenticate, Subscription, RefuseTorn, SnapshotList, SnapshotReply, ForwardEvent, Lagged, Connect,
         ReadAuthenticated, ReadEvent, RequestSnapshot, ReadSnapshot, ReadOther, Disconnected, FetchTaken, setMachines
  <2> QED
    BY <2>2 DEF WatchInv, Joined
<1>4. CASE conn.st = "auth" /\ ui.fetch = "done"
  <2>1. CASE \E m \in Machine : MachineConnected(m) \/ MachineDisconnected(m)
    <3>1. PICK k \in Machine : MachineConnected(k) \/ MachineDisconnected(k)
      BY <2>1
    <3>2. UNCHANGED <<conn, ui>>
      BY <3>1 DEF MachineConnected, MachineDisconnected, PoolChange
    <3>3. ASSUME NEW m \in Machine, m # k, m \in Joined'
          PROVE  /\ conn'.st = "auth" /\ ui'.fetch = "done" /\ m \in live'
                 /\ task'.pc # "idle" => ~Leaves(task', m)
                 /\ watched'[m] = "joined" /\ conn'.listing => m \in conn'.listed
      <4>1. watched'[m] = watched[m] /\ task'.m = k
        BY <3>1, <3>3, <1>1 DEF MachineConnected, MachineDisconnected, PoolChange, Idle
      <4>2. m \in Joined
        BY <3>3, <4>1 DEF Joined
      <4>3. m \in live'
        BY <3>1, <3>3, <4>2, <1>1 DEF MachineConnected, MachineDisconnected, PoolChange, WatchInv
      <4> QED
        BY <3>2, <3>3, <4>1, <4>2, <4>3, <1>1, <1>4 DEF WatchInv, Leaves
    <3>4. ASSUME k \in Joined'
          PROVE  /\ conn'.st = "auth" /\ ui'.fetch = "done" /\ k \in live'
                 /\ task'.pc # "idle" => ~Leaves(task', k)
                 /\ watched'[k] = "joined" /\ conn'.listing => k \in conn'.listed
      <4>1. CASE MachineDisconnected(k)
        <5>1. watched'[k] = "left"
          BY <4>1, <1>1, <1>4 DEF MachineDisconnected, PoolChange
        <5> QED
          BY <5>1, <3>4 DEF Joined
      <4>2. CASE MachineConnected(k)
        <5>1. k \in live' /\ task'.kind = "connected" /\ (watched'[k] = "joined" => ~conn.listing)
          BY <4>2, <1>1, <1>4 DEF MachineConnected, PoolChange, Idle
        <5> QED
          BY <5>1, <3>2, <1>4 DEF Leaves
      <4> QED
        BY <3>1, <4>1, <4>2
    <3> QED
      <4> SUFFICES ASSUME NEW m \in Machine, m \in Joined'
                   PROVE  /\ conn'.st = "auth" /\ ui'.fetch = "done" /\ m \in live'
                          /\ task'.pc # "idle" => ~Leaves(task', m)
                          /\ watched'[m] = "joined" /\ conn'.listing => m \in conn'.listed
        BY DEF WatchInv, Joined, Leaves
      <4>1. CASE m = k
        BY <3>4, <4>1 DEF Joined, Leaves
      <4>2. CASE m # k
        BY <3>3, <4>2
      <4> QED
        BY <4>1, <4>2
  <2>2. CASE Broadcast
    <3>1. UNCHANGED <<live, ui>> /\ task'.pc = "idle"
      BY <2>2 DEF Broadcast, Idle
    <3>2. conn'.st = conn.st /\ conn'.listing = conn.listing /\ conn'.listed = conn.listed
      BY <2>2, <1>1 DEF Broadcast, Push, ConnType
    <3>3. \A m \in Machine : m \in Joined' => watched'[m] = watched[m]
      BY <2>2 DEF Broadcast, Joined
    <3> QED
      BY <3>1, <3>2, <3>3, <1>2 DEF WatchInv, Joined
  <2>3. CASE Break \/ Restart \/ AuthenticationFailed
    BY <2>3 DEF Break, Restart, AuthenticationFailed, NotWatched, WatchInv, Joined
  <2>4. CASE SnapshotList \/ SnapshotReply
    <3>1. UNCHANGED <<live, ui, task, watched>> /\ conn'.st = conn.st
      BY <2>4, <1>1 DEF SnapshotList, SnapshotReply, ConnType
    <3>2. conn'.listing => conn'.listed = live
      BY <2>4, <1>1 DEF SnapshotList, SnapshotReply, ConnType
    <3> QED
      BY <3>1, <3>2, <1>1 DEF WatchInv, Joined, Leaves
  <2>5. CASE wrap_event \/ SessionData
    <3>1. UNCHANGED <<live, ui, watched, conn>>
      BY <2>5 DEF wrap_event, SessionData
    <3>2. \/ task'.kind = task.kind /\ task'.m = task.m /\ task.pc # "idle"
          \/ task'.kind = "output"
      BY <2>5, <1>1 DEF wrap_event, SessionData, TaskType, Idle
    <3> QED
      BY <3>1, <3>2, <1>1 DEF WatchInv, Joined, Leaves
  <2>6. CASE Authenticate \/ Subscription \/ RefuseTorn \/ ForwardEvent \/ Lagged
    <3>1. UNCHANGED <<live, ui, watched, task>>
      BY <2>6 DEF Authenticate, Subscription, RefuseTorn, ForwardEvent, Lagged
    <3>2. conn'.st = conn.st /\ conn'.listing = conn.listing /\ conn'.listed = conn.listed
      BY <2>6, <1>1, <1>4 DEF Authenticate, Subscription, RefuseTorn, ForwardEvent, Lagged, ConnType
    <3> QED
      BY <3>1, <3>2, <1>1 DEF WatchInv, Joined, Leaves
  <2>7. CASE ReadAuthenticated \/ ReadEvent \/ ReadSnapshot \/ ReadOther \/ RequestSnapshot \/ UNCHANGED vars
    <3>1. UNCHANGED <<live, watched, task, conn>>
      BY <2>7 DEF ReadAuthenticated, ReadEvent, ReadSnapshot, ReadOther, RequestSnapshot, vars
    <3>2. ui'.fetch = ui.fetch
      <4>1. CASE ReadEvent
        <5>1. PICK e : e = Head(down)
          OBVIOUS
        <5>2. ui' = ui \/ ui' = forward_events(ui, e)
          BY <4>1, <5>1 DEF ReadEvent
        <5>3. ui' \in {ui, addMachine(ui, e.m), removeMachine(ui, e.m), [ui EXCEPT !.out = e.seq + 1]}
          BY <5>2 DEF forward_events
        <5> QED
          BY <5>3, <1>1 DEF addMachine, removeMachine, UiType
      <4>2. CASE ReadSnapshot
        BY <4>2, <1>1 DEF ReadSnapshot, UiType
      <4> QED
        BY <2>7, <4>1, <4>2 DEF ReadAuthenticated, ReadOther, RequestSnapshot, vars
    <3> QED
      BY <3>1, <3>2, <1>1 DEF WatchInv, Joined, Leaves
  <2>9. CASE SendRequest
    <3>1. UNCHANGED <<live, task, conn, ui>>
      BY <2>9 DEF SendRequest
    <3>2. \A m \in Machine : watched'[m] = "lost" \/ watched'[m] = watched[m]
      BY <2>9 DEF SendRequest
    <3> QED
      BY <3>1, <3>2, <1>1 DEF WatchInv, Joined, Leaves
  <2>8. ~Connect /\ ~Disconnected /\ ~FetchTaken /\ ~setMachines
    BY <1>4 DEF Connect, Disconnected, FetchTaken, setMachines
  <2> QED
    BY <2>1, <2>2, <2>3, <2>4, <2>5, <2>6, <2>7, <2>8, <2>9 DEF Next, ServerStep, SubscriberStep
<1> QED
  BY <1>3, <1>4

(* No step asks for a second authentication.                               *)
LEMMA StepUp == ASSUME StreamInv, SideInv, [Next]_vars PROVE UpInv'
<1>1. Types /\ conn \in ConnType /\ up \in Seq(Request) /\ UpInv /\ Len(up) \in Nat
  BY DEF StreamInv, Types, SideInv, MoreTypes
<1>2. CASE Authenticate \/ Subscription \/ RefuseTorn \/ SnapshotList
  <2>1. up # <<>> /\ up' = Tail(up)
    BY <1>2 DEF Authenticate, Subscription, RefuseTorn, SnapshotList
  <2>2. \A i \in 1..Len(up') : i + 1 \in 1..Len(up) /\ up'[i] = up[i + 1]
    BY <2>1, <1>1, TailIs
  <2>3. Len(up') = Len(up) - 1
    BY <2>1, <1>1
  <2>4. CASE conn.st = "open"
    BY <1>1, <2>3, <2>4 DEF UpInv
  <2>5. CASE conn.st # "open"
    <3>1. conn'.st # "open"
      BY <1>1, <1>2, <2>5 DEF Authenticate, Subscription, RefuseTorn, SnapshotList, ConnType
    <3> QED
      BY <1>1, <2>2, <2>5, <3>1 DEF UpInv
  <2> QED
    BY <2>4, <2>5
<1>3. CASE RequestSnapshot \/ SendRequest
  <2>1. conn' = conn
    BY <1>3 DEF RequestSnapshot, SendRequest
  <2>2. PICK r \in Request : r # "authenticate" /\ (up' = up \/ (conn.st = "auth" /\ up' = Append(up, r)))
    BY <1>3 DEF RequestSnapshot, SendRequest, Request
  <2> QED
    BY <1>1, <2>1, <2>2, AppendIs DEF UpInv
<1>4. CASE Break \/ Restart \/ AuthenticationFailed
  <2>1. up' = <<>> /\ conn'.st # "open"
    BY <1>4 DEF Break, Restart, AuthenticationFailed, NoConnection
  <2> QED
    BY <2>1 DEF UpInv
<1>5. CASE Connect
  <2>1. up' = <<"authenticate">> /\ conn'.st = "open"
    BY <1>5 DEF Connect, NoConnection
  <2> QED
    BY <2>1 DEF UpInv
<1>6. CASE Disconnected
  <2>1. up' = up /\ conn.st # "open" /\ conn'.st # "open"
    BY <1>6 DEF Disconnected, NoConnection
  <2> QED
    BY <2>1, <1>1 DEF UpInv
<1>7. CASE UNCHANGED up /\ conn'.st = conn.st
  BY <1>7, <1>1 DEF UpInv
<1>8. Broadcast => UNCHANGED up /\ conn'.st = conn.st
  BY <1>1 DEF Broadcast, Push, ConnType
<1>9. SnapshotReply => UNCHANGED up /\ conn'.st = conn.st
  BY <1>1 DEF SnapshotReply, ConnType
<1>11. CASE ForwardEvent \/ Lagged
  <2>1. conn'.st = conn.st /\ up' \in Tears(up, "torn")
    BY <1>1, <1>11 DEF ForwardEvent, Lagged, ConnType
  <2>2. CASE up' = up
    BY <1>1, <2>1, <2>2 DEF UpInv
  <2>3. CASE up # <<>> /\ up' = <<"torn">> \o Tail(up)
    <3>1. /\ Len(up') = Len(up)
          /\ \A i \in 1..Len(up') : i \in 1..Len(up) /\ (up'[i] = up[i] \/ up'[i] = "torn")
      BY <1>1, <2>3, TearIs
    <3> QED
      BY <1>1, <2>1, <3>1 DEF UpInv
  <2> QED
    BY <2>1, <2>2, <2>3, TearsAre
<1>10. \/ \E m \in Machine : MachineConnected(m) \/ MachineDisconnected(m)
       \/ SessionData \/ wrap_event \/ FetchTaken \/ setMachines \/ UNCHANGED vars
       \/ ReadAuthenticated \/ ReadEvent \/ ReadSnapshot \/ ReadOther
       => UNCHANGED <<up, conn>>
  BY DEF MachineConnected, MachineDisconnected, PoolChange, SessionData, wrap_event, FetchTaken, setMachines, vars,
     ReadAuthenticated, ReadEvent, ReadSnapshot, ReadOther
<1> QED
  BY <1>2, <1>3, <1>4, <1>5, <1>6, <1>7, <1>8, <1>9, <1>10, <1>11 DEF Next, ServerStep, SubscriberStep

(* A snapshot never brings the subscriber back to number 0.                *)
LEMMA StepAwake == ASSUME StreamInv, SideInv, [Next]_vars PROVE AwakeInv'
<1>1. /\ Types /\ conn \in ConnType /\ up \in Seq(Request) /\ AwakeInv /\ NotedInv /\ down \in Seq(Line)
      /\ sub \in SubType /\ seq \in Nat /\ used \in [conns : Nat, reqs : Nat, blind : BOOLEAN]
  BY DEF StreamInv, Types, SideInv, MoreTypes
<1>12. CASE AuthenticationFailed
  <2>1. /\ down # <<>> /\ down' = Tail(down) /\ conn'.st = "none" /\ sub'.pc = "off"
    BY <1>1, <1>12 DEF AuthenticationFailed, Received, NoConnection, SubType
  <2>2. \A i \in 1..Len(down') : down'[i].t = "snapshot" => down'[i].seq > 0
    BY <1>1, <2>1, TailIs DEF AwakeInv
  <2> QED
    BY <2>1, <2>2 DEF AwakeInv, Open
<1>2. CASE Break \/ Restart \/ Disconnected
  <2>1. /\ conn'.st \in {"none", "closed"} /\ UNCHANGED <<down, used>>
        /\ sub' = sub \/ sub' = [sub EXCEPT !.pc = "off", !.need = FALSE]
    BY <1>2 DEF Break, Restart, Disconnected, NoConnection
  <2>2. sub' = sub \/ sub'.pc = "off"
    BY <2>1, <1>1 DEF SubType
  <2> QED
    BY <2>1, <2>2, <1>1 DEF AwakeInv, Open
<1>3. CASE Connect
  <2>1. /\ down' = <<>> /\ up' = <<"authenticate">> /\ conn'.listing = FALSE
        /\ sub' = [sub EXCEPT !.pc = "authing", !.need = FALSE]
        /\ used' = [used EXCEPT !.conns = used.conns + 1, !.blind = FALSE]
    BY <1>3 DEF Connect, NoConnection
  <2>2. sub'.pc = "authing" /\ sub'.need = FALSE /\ used'.blind = FALSE /\ Len(down') = 0
    BY <2>1, <1>1 DEF SubType
  <2>3. \A i \in 1..Len(up') : up'[i] # "snapshot"
    BY <2>1
  <2> QED
    BY <2>1, <2>2, <2>3 DEF AwakeInv, Asking
<1>4. CASE ReadAuthenticated \/ ReadEvent \/ ReadSnapshot \/ ReadOther
  <2>1. /\ down # <<>> /\ down' = Tail(down) /\ UNCHANGED <<seq, conn, up>>
        /\ used' = used \/ used' = [used EXCEPT !.blind = sub'.last = 0]
           \/ used' = [used EXCEPT !.blind = used.blind \/ sub'.last = 0]
    BY <1>4 DEF ReadAuthenticated, ReadEvent, ReadSnapshot, ReadOther, Received
  <2>2. PICK e : e = Head(down)
    OBVIOUS
  <2>3. e = down[1] /\ 1 \in 1..Len(down) /\ e \in Line
    BY <1>1, <2>1, <2>2, TailIs
  <2>4. \A i \in 1..Len(down') : down'[i].t = "snapshot" => down'[i].seq > 0
    BY <1>1, <2>1, TailIs DEF AwakeInv
  <2>5. sub'.pc = "ready"
    BY <1>1, <1>4 DEF ReadAuthenticated, ReadEvent, ReadSnapshot, ReadOther, SubType
  <2>6. ~used'.blind => sub'.last > 0
    <3>1. CASE ReadAuthenticated \/ ReadEvent
      <4>1. \/ used' = [used EXCEPT !.blind = (sub'.last = 0)]
            \/ used' = [used EXCEPT !.blind = (used.blind \/ sub'.last = 0)]
        BY <3>1 DEF ReadAuthenticated, ReadEvent
      <4>2. sub'.last \in Nat
        BY StepStream DEF StreamInv, Types, SubType
      <4>3. sub'.last = 0 => used'.blind
        BY <4>1, <1>1
      <4> QED
        BY <4>2, <4>3
    <3>2. CASE ReadSnapshot
      <4>1. sub'.last = e.seq /\ e.t = "snapshot" 
        BY <3>2, <2>2, <1>1 DEF ReadSnapshot, Received, SubType
      <4> QED
        BY <4>1, <2>3, <1>1 DEF AwakeInv
    <3>3. CASE ReadOther
      BY <3>3, <1>1 DEF ReadOther, AwakeInv
    <3> QED
      BY <1>4, <3>1, <3>2, <3>3
  <2>7. Open /\ sub'.need => sub.need \/ seq > 0
    <3>1. CASE ReadEvent
      <4>1. e.t = "event"
        BY <3>1, <2>2 DEF ReadEvent, Received
      <4>2. Open => e.seq \in Nat /\ e.seq < seq
        BY <4>1, <2>3, <1>1, LineNumbers DEF NotedInv, Lags, Lag, Sent, StreamInv, Ordered, Below
      <4> QED
        BY <4>2, <1>1
    <3>2. CASE ReadAuthenticated \/ ReadSnapshot \/ ReadOther
      BY <3>2, <1>1 DEF ReadAuthenticated, ReadSnapshot, ReadOther, SubType
    <3> QED
      BY <1>4, <3>1, <3>2
  <2> QED
    BY <2>1, <2>4, <2>5, <2>6, <2>7, <1>1 DEF AwakeInv, Open, Asking
<1>5. CASE Authenticate \/ Subscription \/ RefuseTorn \/ SnapshotList
  <2>1. /\ up # <<>> /\ up' = Tail(up) /\ UNCHANGED <<seq, sub, used>>
        /\ conn.st \in {"open", "auth"}
    BY <1>5 DEF Authenticate, Subscription, RefuseTorn, SnapshotList
  <2>2. \A i \in 1..Len(up') : i + 1 \in 1..Len(up) /\ up'[i] = up[i + 1]
    BY <2>1, <1>1, TailIs
  <2>3. conn'.listing => conn.listing \/ (up[1] = "snapshot" /\ 1 \in 1..Len(up))
    BY <1>1, <1>5, <2>1, TailIs DEF Authenticate, Subscription, RefuseTorn, SnapshotList, ConnType
  <2>4. \A i \in 1..Len(down') : down'[i].t = "snapshot" => i \in 1..Len(down) /\ down'[i] = down[i]
    <3>1. CASE down' = down
      BY <3>1
    <3>2. CASE down' # down
      <4>1. PICK l : /\ down' = Append(down, l)
                     /\ l = [t |-> "authenticated", seq |-> seq] \/ l = [t |-> "response"]
        BY <1>5, <3>2 DEF Authenticate, Subscription, RefuseTorn, SnapshotList
      <4>2. l \in Line /\ l.t # "snapshot"
        BY <4>1, <1>1 DEF Line
      <4> QED
        BY <4>1, <4>2, <1>1, AppendIs
    <3> QED
      BY <3>1, <3>2
  <2> QED
    BY <2>1, <2>2, <2>3, <2>4, <1>1 DEF AwakeInv, Open, Asking
<1>6. CASE SnapshotReply
  <2>1. PICK l : l = [t |-> "snapshot", seq |-> seq, machines |-> conn.listed]
    OBVIOUS
  <2>2. /\ down' = Append(down, l) /\ UNCHANGED <<seq, up, sub, used>> /\ conn.listing /\ Open
        /\ conn'.listing = FALSE
    BY <1>6, <1>1, <2>1 DEF SnapshotReply, ConnType, Open
  <2>3. l \in Line /\ l.seq = seq /\ seq > 0
    BY <2>1, <2>2, <1>1 DEF Line, ConnType, AwakeInv, Asking
  <2>4. \A i \in 1..Len(down') : down'[i].t = "snapshot" => down'[i].seq > 0
    BY <2>2, <2>3, <1>1, AppendIs DEF AwakeInv
  <2> QED
    BY <2>2, <2>3, <2>4, <1>1 DEF AwakeInv
<1>7. CASE Lagged \/ ForwardEvent
  <2>1. /\ UNCHANGED <<sub, used>> /\ Open /\ conn'.listing = conn.listing
        /\ seq' \in {seq, seq + 1} /\ up' \in Tears(up, "torn")
    BY <1>7, <1>1 DEF Lagged, ForwardEvent, ConnType, Open
  <2>3. \A i \in 1..Len(up') : up'[i] = "snapshot" => i \in 1..Len(up) /\ up[i] = "snapshot"
    <3>1. CASE up' = up
      BY <3>1
    <3>2. CASE up # <<>> /\ up' = <<"torn">> \o Tail(up)
      BY <1>1, <3>2, TearIs
    <3> QED
      BY <2>1, <3>1, <3>2, TearsAre
  <2>2. \A i \in 1..Len(down') : down'[i].t = "snapshot" => i \in 1..Len(down) /\ down'[i] = down[i]
    <3>1. CASE down' = down
      BY <3>1
    <3>2. CASE down' # down
      <4>1. PICK l : down' = Append(down, l) /\ l.t = "event"
        <5>1. CASE Lagged
          BY <3>2, <5>1 DEF Lagged
        <5>2. CASE ForwardEvent
          BY <3>2, <5>2 DEF ForwardEvent
        <5> QED
          BY <1>7, <5>1, <5>2
      <4>2. \A i \in 1..Len(down') : (i \in 1..Len(down) /\ down'[i] = down[i]) \/ down'[i] = l
        BY <4>1, <1>1
      <4> QED
        BY <4>1, <4>2
    <3> QED
      BY <3>1, <3>2
  <2> QED
    BY <2>1, <2>2, <2>3, <1>1 DEF AwakeInv, Open, Asking
<1>8. CASE RequestSnapshot \/ SendRequest
  <2>1. /\ UNCHANGED <<seq, conn>>
        /\ sub' = sub \/ (sub.need /\ sub' = [sub EXCEPT !.need = FALSE])
        /\ used' = used \/ used' = [used EXCEPT !.reqs = used.reqs + 1]
    BY <1>8 DEF RequestSnapshot, SendRequest
  <2>2. sub'.pc = sub.pc /\ sub'.last = sub.last /\ used'.blind = used.blind /\ (sub'.need => sub.need)
    BY <2>1, <1>1 DEF SubType
  <2>3. \A i \in 1..Len(up') : up'[i] = "snapshot" => sub.need \/ (i \in 1..Len(up) /\ up[i] = "snapshot")
    <3>1. PICK r \in Request : /\ up' = up \/ up' = Append(up, r)
                               /\ r = "snapshot" => sub.need
      BY <1>8 DEF RequestSnapshot, SendRequest, Request
    <3>2. CASE up' = Append(up, r)
      <4>1. \A i \in 1..Len(up') : (i \in 1..Len(up) /\ up'[i] = up[i]) \/ up'[i] = r
        BY <3>2, <1>1, AppendIs
      <4> QED
        BY <3>1, <4>1
    <3> QED
      BY <3>1, <3>2
  <2>4. \A i \in 1..Len(down') : down'[i].t = "snapshot" => i \in 1..Len(down) /\ down'[i] = down[i]
    <3>1. CASE down' = down
      BY <3>1
    <3>2. CASE down # <<>> /\ down' = <<[t |-> "torn"]>> \o Tail(down)
      <4>1. PICK l : l = [t |-> "torn"]
        OBVIOUS
      <4>2. \A i \in 1..Len(down') : (i \in 1..Len(down) /\ down'[i] = down[i]) \/ down'[i] = l
        BY <1>1, <3>2, <4>1, TearIs
      <4> QED
        BY <4>1, <4>2
    <3> QED
      BY <1>8, <3>1, <3>2, TearsAre DEF SendRequest, RequestSnapshot
  <2> QED
    BY <2>1, <2>2, <2>3, <2>4, <1>1 DEF AwakeInv, Open, Asking
<1>9. CASE /\ UNCHANGED <<down, sub, used, up>> /\ seq' >= seq
           /\ conn'.st = conn.st /\ conn'.listing = conn.listing
  BY <1>1, <1>9, StepStream DEF AwakeInv, Open, Asking, StreamInv, Types
<1>10. Broadcast => /\ UNCHANGED <<down, sub, used, up>> /\ seq' >= seq
                    /\ conn'.st = conn.st /\ conn'.listing = conn.listing
  BY <1>1 DEF Broadcast, Push, ConnType
<1>11. \/ \E m \in Machine : MachineConnected(m) \/ MachineDisconnected(m)
       \/ SessionData \/ wrap_event \/ FetchTaken \/ setMachines \/ UNCHANGED vars
       => UNCHANGED <<down, sub, used, up, conn>> /\ (seq' = seq \/ seq' = seq + 1)
  BY DEF MachineConnected, MachineDisconnected, PoolChange, SessionData, wrap_event, FetchTaken, setMachines, vars
<1> QED
  <2>1. UNCHANGED <<down, sub, used, up, conn>> /\ (seq' = seq \/ seq' = seq + 1) => AwakeInv'
    BY <1>1, <1>9
  <2> QED
    BY <2>1, <1>2, <1>3, <1>4, <1>5, <1>6, <1>7, <1>8, <1>9, <1>10, <1>11, <1>12
       DEF Next, ServerStep, SubscriberStep

(* All of it together.                                                     *)
LEMMA StepSide == ASSUME StreamInv, SideInv, [Next]_vars PROVE SideInv'
BY StepTypes, StepNoted, StepWatch, StepUp, StepAwake DEF SideInv

-----------------------------------------------------------------------------
(* Why a machine that joined will be shown, or its absence noticed         *)

Joins(e, m) == e.kind = "connected" /\ e.m = m

(* A line that moves last_seen_seq without showing machine m.              *)
Plain(l, m) == l.t = "authenticated" \/ (l.t = "snapshot" /\ m \notin l.machines)
Marked(d, m, b) == \A j \in 1..Len(d) : Plain(d[j], m) => d[j].seq < b

(* Behind line i nothing takes machine m off the screen.                   *)
Stay(d, q, m, i) ==
  /\ \A j \in 1..Len(d) : j > i /\ d[j].t = "event" => ~Leaves(d[j], m)
  /\ \A j \in 1..Len(q) : ~Leaves(q[j], m)

(* A snapshot in the making holds m.                                       *)
Listed(m) == conn.listing => m \in conn.listed

(* A subscriber at number x has not passed an envelope of the ring or of   *)
(* the event task that comes behind number n.                              *)
Small(q, k, s, n, x) ==
  \/ x <= n
  \/ /\ x < s
     /\ \A i \in 1..Len(q) : q[i].seq > n => q[i].seq > x
     /\ k.pc = "send" /\ k.seq > n => k.seq > x

(* The subscriber shows m, or has not passed what comes behind the number  *)
(* n of m's envelope, and nothing moves it there without showing m.        *)
Behind(m, n) ==
  watched[m] = "joined" =>
    /\ sub.pc = "ready" => m \in ui.machines \/ Small(conn.q, task, seq, n, sub.last)
    /\ Marked(down, m, n + 1)

(* The subscriber shows m or has not reached number h, and nothing moves   *)
(* it there without showing m.                                             *)
Before(m, h) ==
  /\ sub.pc = "ready" => m \in ui.machines \/ sub.last < h
  /\ Marked(down, m, h)

(* The envelope of m is in the hands of the event task, ...                *)
InTask(m) ==
  /\ task.pc # "idle" /\ Joins(task, m)
  /\ task.pc = "send" => Behind(m, task.seq)

(* ... in the ring, ...                                                    *)
InRing(m) ==
  \E k \in 1..Len(conn.q) :
    /\ Joins(conn.q[k], m) /\ Behind(m, conn.q[k].seq)
    /\ \A j \in 1..Len(conn.q) : j > k => ~Leaves(conn.q[j], m)

(* ... or on the wire, with nothing behind it that hides its loss.         *)
OnWire(m) ==
  \E k \in 1..Len(down) :
    /\ down[k].t = "event" /\ Joins(down[k], m) /\ Stay(down, conn.q, m, k) /\ Listed(m)
    /\ \A j \in 1..Len(down) : j > k => ~Plain(down[j], m)

(* The machine is shown and stays.                                         *)
Visible(m) == m \in ui.machines /\ Stay(down, conn.q, m, 0)

(* The ring has dropped it, and the connection has still to say so, ...    *)
LossPending(m) ==
  /\ conn.missed > 0 /\ conn.q # <<>> /\ Listed(m) /\ Before(m, conn.q[1].seq)
  /\ \A j \in 1..Len(conn.q) : ~Leaves(conn.q[j], m)

(* ... or has said so in a line that the subscriber will take for a gap.   *)
Notice(m, j, h) ==
  /\ Lag(down[j]) /\ h < down[j].seq /\ Before(m, h) /\ Stay(down, conn.q, m, j) /\ Listed(m)
  /\ \A i \in 1..Len(down) : Sent(down[i]) /\ i < j => down[i].seq < h
  /\ \A i \in 1..Len(down) : Lag(down[i]) => down[i].seq # h
LossTold(m) == \E j \in 1..Len(down), h \in Nat : Notice(m, j, h)

(* A number g that the subscriber has not reached will not come any more.  *)
Missing(m, g) ==
  /\ sub.last < g /\ g < seq /\ Marked(down, m, g)
  /\ \A i \in 1..Len(down) : down[i].t = "event" => down[i].seq # g
  /\ \A i \in 1..Len(conn.q) : conn.q[i].seq # g
  /\ task.pc = "send" => task.seq # g
GapLeft(m) ==
  /\ sub.pc = "ready" /\ Stay(down, conn.q, m, 0) /\ Listed(m)
  /\ \E g \in Nat : Missing(m, g)

Evidence(m) ==
  InTask(m) \/ InRing(m) \/ OnWire(m) \/ Visible(m) \/ LossPending(m) \/ LossTold(m) \/ GapLeft(m)

EvidenceInv == ~used.blind => \A m \in Joined : Evidence(m)

(* A step that at most tears the first line, and leaves the ring as it is. *)
Still(m) ==
  /\ Len(down') = Len(down)
  /\ \A i \in 1..Len(down) : down'[i] = down[i] \/ (i = 1 /\ down'[i].t = "torn")
  /\ conn'.q = conn.q /\ conn'.missed = conn.missed
  /\ sub'.pc = sub.pc /\ sub'.last = sub.last /\ ui'.machines = ui.machines
  /\ watched'[m] = watched[m]
  /\ Listed(m) => Listed(m)'
  /\ seq <= seq'
  /\ task'.pc = "send" => (task.pc = "send" /\ task'.seq = task.seq) \/ task'.seq >= seq

(* The first line was the evidence, and it is torn.                        *)
Torn == 1 \in 1..Len(down) /\ down'[1] # down[1]
LineTorn(m) ==
  /\ Torn /\ down[1].t = "event" /\ Joins(down[1], m) /\ Stay(down, conn.q, m, 1) /\ Listed(m)
  /\ \A j \in 1..Len(down) : j > 1 => ~Plain(down[j], m)
NoticeTorn(m) == Torn /\ \E h \in Nat : Notice(m, 1, h)

(* Otherwise such a step leaves the evidence where it is.                  *)
LEMMA StillKeeps ==
  ASSUME NEW m \in Machine, StreamInv, Types', Still(m)
  PROVE  /\ InTask(m) /\ task' = task => InTask(m)'
         /\ InRing(m) => InRing(m)'
         /\ OnWire(m) => OnWire(m)' \/ LineTorn(m)
         /\ Visible(m) => Visible(m)'
         /\ LossPending(m) => LossPending(m)'
         /\ LossTold(m) => LossTold(m)' \/ NoticeTorn(m)
         /\ GapLeft(m) => GapLeft(m)'
<1>1. /\ down \in Seq(Line) /\ down' \in Seq(Line) /\ seq \in Nat /\ seq' \in Nat /\ conn.q \in Seq(Envelope)
      /\ task.seq \in Nat /\ task'.seq \in Nat /\ sub.last \in Nat
  BY DEF StreamInv, Types, TaskType, ConnType, SubType
<1>2. \A i \in 1..Len(down') : i \in 1..Len(down) /\ (down'[i].t # "torn" => down'[i] = down[i])
  BY DEF Still
<1>3. \A i \in 1..Len(down) : i \in 1..Len(down') /\ (down'[i] # down[i] => i = 1)
  BY DEF Still
<1>4. \A i \in 1..Len(conn.q) : conn.q[i].seq \in Nat
  BY <1>1, Numbers
<1>5. \A b : Marked(down, m, b) => Marked(down', m, b)
  BY <1>2 DEF Marked, Plain
<1>6. \A i : Stay(down, conn.q, m, i) => Stay(down', conn.q, m, i)
  BY <1>2 DEF Stay
<1>7. \A n \in Nat : Small(conn.q, task, seq, n, sub.last) => Small(conn.q, task', seq', n, sub.last)
  BY <1>1, <1>4 DEF Small, Still
<1>8. \A n \in Nat : Behind(m, n) => Behind(m, n)'
  BY <1>5, <1>7 DEF Behind, Still
<1>9. \A h : Before(m, h) => Before(m, h)'
  BY <1>5 DEF Before, Still
<1>10. InTask(m) /\ task' = task => InTask(m)'
  BY <1>1, <1>8 DEF InTask
<1>11. InRing(m) => InRing(m)'
  <2> SUFFICES ASSUME NEW k \in 1..Len(conn.q), Joins(conn.q[k], m), Behind(m, conn.q[k].seq),
                      \A j \in 1..Len(conn.q) : j > k => ~Leaves(conn.q[j], m)
               PROVE  InRing(m)'
    BY DEF InRing
  <2>1. Behind(m, conn.q[k].seq)'
    BY <1>4, <1>8 DEF Still
  <2> QED
    BY <2>1 DEF InRing, Still
<1>12. OnWire(m) => OnWire(m)' \/ LineTorn(m)
  <2> SUFFICES ASSUME NEW k \in 1..Len(down), down[k].t = "event", Joins(down[k], m),
                      Stay(down, conn.q, m, k), Listed(m), \A j \in 1..Len(down) : j > k => ~Plain(down[j], m)
               PROVE  OnWire(m)' \/ LineTorn(m)
    BY DEF OnWire
  <2>1. CASE down'[k] # down[k]
    BY <2>1, <1>3 DEF LineTorn, Torn
  <2>3. k \in 1..Len(down')
    BY <1>3
  <2>2. \A j \in 1..Len(down') : j > k => ~Plain(down'[j], m)
    BY <1>2 DEF Plain
  <2> QED
    BY <2>1, <2>2, <2>3, <1>6 DEF OnWire, Still
<1>13. Visible(m) => Visible(m)'
  BY <1>6 DEF Visible, Still
<1>14. LossPending(m) => LossPending(m)'
  BY <1>9 DEF LossPending, Still
<1>15. LossTold(m) => LossTold(m)' \/ NoticeTorn(m)
  <2> SUFFICES ASSUME NEW j \in 1..Len(down), NEW h \in Nat, Notice(m, j, h)
               PROVE  LossTold(m)' \/ NoticeTorn(m)
    BY DEF LossTold
  <2>4. CASE down'[j] # down[j]
    BY <2>4, <1>3 DEF NoticeTorn, Torn
  <2> SUFFICES ASSUME down'[j] = down[j] PROVE LossTold(m)'
    BY <2>4
  <2>1. j \in 1..Len(down')
    BY <1>3
  <2>2. \A i \in 1..Len(down') : Sent(down'[i]) \/ Lag(down'[i]) => i \in 1..Len(down) /\ down'[i] = down[i]
    BY <1>2 DEF Sent, Lag
  <2>3. Notice(m, j, h)'
    BY <2>1, <2>2, <1>6, <1>9 DEF Notice, Still
  <2> QED
    BY <2>1, <2>3 DEF LossTold
<1>16. GapLeft(m) => GapLeft(m)'
  <2> SUFFICES ASSUME sub.pc = "ready", Stay(down, conn.q, m, 0), Listed(m), NEW g \in Nat, Missing(m, g)
               PROVE  GapLeft(m)'
    BY DEF GapLeft
  <2>1. \A i \in 1..Len(down') : down'[i].t = "event" => down'[i].seq # g
    BY <1>2 DEF Missing
  <2>2. Missing(m, g)'
    BY <2>1, <1>1, <1>5 DEF Missing, Still
  <2> QED
    BY <2>2, <1>6 DEF GapLeft, Still
<1> QED
  BY <1>10, <1>11, <1>12, <1>13, <1>14, <1>15, <1>16

(* What is torn leaves a gap, unless the machine is shown already or the   *)
(* number of the line is not beyond the last one seen.                     *)
LEMMA TornLeavesGap ==
  ASSUME NEW m \in Machine, StreamInv, NotedInv, Types', Still(m), Open, sub.pc = "ready", UNCHANGED <<seq, task>>,
         LineTorn(m) => sub.last < down[1].seq, LineTorn(m) \/ NoticeTorn(m)
  PROVE  Visible(m)' \/ GapLeft(m)'
<1>1. /\ down \in Seq(Line) /\ seq \in Nat /\ conn.q \in Seq(Envelope) /\ task.seq \in Nat /\ sub.last \in Nat
      /\ Rising(down) /\ Below(down, conn.q, seq, ui.out) /\ Ring(down, conn.q, ui.out)
      /\ (task.pc = "send" => Below(down, conn.q, task.seq, ui.out)) /\ Lags(down, conn.q, task, seq)
  BY DEF StreamInv, Types, TaskType, ConnType, SubType, Ordered, NotedInv
<1>2. 1 \in 1..Len(down) /\ down'[1].t = "torn" /\ Len(down') = Len(down)
      /\ \A i \in 1..Len(down) : i # 1 => down'[i] = down[i]
  BY DEF LineTorn, NoticeTorn, Torn, Still
<1>3. PICK g : g = down[1].seq
  OBVIOUS
<1>4. down[1].t = "event" /\ down[1] \in Line /\ g \in Nat
  BY <1>1, <1>2, <1>3, LineNumbers DEF LineTorn, NoticeTorn, Notice, Lag
<1>6. Stay(down', conn.q, m, 0) /\ Listed(m)'
  <2>1. Stay(down, conn.q, m, 1) /\ Listed(m)
    BY DEF LineTorn, NoticeTorn, Notice
  <2> QED
    BY <2>1, <1>2 DEF Stay, Still
<1>7. g < seq
  BY <1>1, <1>2, <1>3, <1>4 DEF Lags, Below, Sent, Lag
<1>8. ASSUME NEW i \in 1..Len(down'), down'[i].t = "event" PROVE down'[i].seq # g
  <2>1. i \in 1..Len(down) /\ i # 1 /\ 1 < i /\ down'[i] = down[i] /\ down[i] \in Line /\ down[i].seq \in Nat
    BY <1>1, <1>2, <1>8, LineNumbers
  <2>2. CASE Lag(down[1]) \/ Lag(down[i])
    BY <1>1, <1>2, <1>3, <1>4, <1>8, <2>1, <2>2 DEF Lags
  <2>3. CASE Sent(down[1]) /\ Sent(down[i])
    BY <1>1, <1>2, <1>3, <1>4, <2>1, <2>3 DEF Rising
  <2> QED
    BY <1>4, <1>8, <2>1, <2>2, <2>3 DEF Lag, Sent
<1>9. \A i \in 1..Len(conn.q) : conn.q[i].seq # g
  <2> TAKE i \in 1..Len(conn.q)
  <2>1. conn.q[i].seq \in Nat
    BY <1>1, Numbers
  <2>2. CASE Lag(down[1])
    BY <1>1, <1>2, <1>3, <2>2 DEF Lags
  <2>3. CASE Sent(down[1])
    BY <1>1, <1>2, <1>3, <1>4, <2>1, <2>3 DEF Ring
  <2> QED
    BY <1>4, <2>2, <2>3 DEF Lag, Sent
<1>10. task.pc = "send" => task.seq # g
  BY <1>1, <1>2, <1>3, <1>4 DEF Lags, Below, Sent, Lag
<1>11. CASE LineTorn(m)
  <2>1. Marked(down', m, g)
    BY <1>2, <1>11 DEF Marked, Plain, LineTorn
  <2>2. Missing(m, g)'
    BY <1>3, <1>7, <1>8, <1>9, <1>10, <1>11, <2>1 DEF Missing, Still
  <2> QED
    BY <1>4, <1>6, <2>2 DEF GapLeft, Still
<1>12. CASE NoticeTorn(m)
  <2>1. PICK h \in Nat : Notice(m, 1, h)
    BY <1>12 DEF NoticeTorn
  <2>2. CASE m \in ui.machines
    BY <1>6, <2>2 DEF Visible, Still
  <2>3. CASE m \notin ui.machines
    <3>1. h < g /\ sub.last < h /\ sub.last < g
      BY <1>1, <1>3, <1>4, <2>1, <2>3 DEF Notice, Before
    <3>2. Marked(down', m, g)
      <4> SUFFICES ASSUME NEW j \in 1..Len(down'), Plain(down'[j], m) PROVE down'[j].seq < g
        BY DEF Marked
      <4>1. j \in 1..Len(down) /\ down'[j] = down[j] /\ down[j].seq \in Nat
        BY <1>1, <1>2, LineNumbers DEF Plain, Mark
      <4>2. down[j].seq < h
        BY <4>1, <2>1 DEF Notice, Before, Marked
      <4> QED
        BY <4>1, <4>2, <3>1, <1>4
    <3>3. Missing(m, g)'
      BY <1>3, <1>7, <1>8, <1>9, <1>10, <3>1, <3>2 DEF Missing, Still
    <3> QED
      BY <1>4, <1>6, <3>3 DEF GapLeft, Still
  <2> QED
    BY <2>2, <2>3
<1> QED
  BY <1>11, <1>12

(* A line is written that is not from the ring.                            *)
Written(m, l) ==
  /\ down' = Append(down, l) /\ l \in Line
  /\ l.t = "event" => Lag(l) /\ l.seq = seq
  /\ conn'.q = conn.q
  /\ sub'.pc = sub.pc /\ sub'.last = sub.last /\ ui'.machines = ui.machines
  /\ watched'[m] = watched[m] /\ task' = task
  /\ seq <= seq'

(* So does a line that does not move the subscriber past machine m unseen. *)
LEMMA WrittenKeeps ==
  ASSUME NEW m \in Machine, StreamInv, Types', NotedInv, Open, NEW l, Written(m, l)
  PROVE  /\ Visible(m) => Visible(m)'
         /\ ~Plain(l, m) \/ watched[m] # "joined" => /\ InTask(m) => InTask(m)'
                                                     /\ InRing(m) => InRing(m)'
         /\ ~Plain(l, m) /\ (Listed(m) => Listed(m)') =>
              /\ OnWire(m) => OnWire(m)'
              /\ LossTold(m) => LossTold(m)'
              /\ GapLeft(m) => GapLeft(m)'
              /\ LossPending(m) /\ conn'.missed = conn.missed => LossPending(m)'
<1>1. /\ down \in Seq(Line) /\ down' \in Seq(Line) /\ seq \in Nat /\ seq' \in Nat /\ conn.q \in Seq(Envelope)
      /\ task.seq \in Nat /\ sub.last \in Nat /\ l \in Line
  BY DEF StreamInv, Types, TaskType, ConnType, SubType, Written
<1>2. \A i \in 1..Len(down') : i \in Nat /\ (\/ i \in 1..Len(down) /\ down'[i] = down[i]
                                             \/ (\A j \in 1..Len(down) : j < i) /\ i \notin 1..Len(down) /\ down'[i] = l)
  BY <1>1, AppendIs DEF Written
<1>3. \A i \in 1..Len(down) : i \in 1..Len(down') /\ down'[i] = down[i]
  <2>1. Len(down) \in Nat /\ Len(down') = Len(down) + 1
    BY <1>1 DEF Written
  <2>2. \A i \in 1..Len(down) : i \in 1..Len(down')
    BY <2>1
  <2> QED
    BY <2>1, <2>2, <1>2
<1>4. \A i \in 1..Len(conn.q) : conn.q[i].seq \in Nat
  BY <1>1, Numbers
<1>5. ~Leaves(l, m) \/ l.t # "event"
  BY DEF Written, Lag, Leaves
<1>6. \A i : Stay(down, conn.q, m, i) => Stay(down', conn.q, m, i)
  BY <1>2, <1>5 DEF Stay
<1>7. ~Plain(l, m) => \A b : Marked(down, m, b) => Marked(down', m, b)
  BY <1>2 DEF Marked
<1>8. \A n \in Nat : Small(conn.q, task, seq, n, sub.last) => Small(conn.q, task', seq', n, sub.last)
  BY <1>1, <1>4 DEF Small, Written
<1>9. Visible(m) => Visible(m)'
  BY <1>6 DEF Visible, Written
<1>10. ASSUME ~Plain(l, m) \/ watched[m] # "joined"
       PROVE  (InTask(m) => InTask(m)') /\ (InRing(m) => InRing(m)')
  <2>1. \A n \in Nat : Behind(m, n) => Behind(m, n)'
    BY <1>7, <1>8, <1>10 DEF Behind, Written
  <2>2. InTask(m) => InTask(m)'
    BY <1>1, <2>1 DEF InTask, Written
  <2>3. ASSUME NEW k \in 1..Len(conn.q), Joins(conn.q[k], m), Behind(m, conn.q[k].seq),
               \A j \in 1..Len(conn.q) : j > k => ~Leaves(conn.q[j], m)
        PROVE  InRing(m)'
    <3>1. Behind(m, conn.q[k].seq)'
      BY <1>4, <2>1, <2>3 DEF Written
    <3> QED
      BY <3>1, <2>3 DEF InRing, Written
  <2> QED
    BY <2>2, <2>3 DEF InRing
<1>11. ASSUME ~Plain(l, m), Listed(m) => Listed(m)'
       PROVE  /\ OnWire(m) => OnWire(m)'
              /\ LossTold(m) => LossTold(m)'
              /\ GapLeft(m) => GapLeft(m)'
              /\ LossPending(m) /\ conn'.missed = conn.missed => LossPending(m)'
  <2>1. \A h : Before(m, h) => Before(m, h)'
    BY <1>7, <1>11 DEF Before, Written
  <2>2. ASSUME NEW k \in 1..Len(down), down[k].t = "event", Joins(down[k], m),
               Stay(down, conn.q, m, k), Listed(m), \A j \in 1..Len(down) : j > k => ~Plain(down[j], m)
        PROVE  OnWire(m)'
    <3>1. k \in 1..Len(down') /\ down'[k] = down[k]
      BY <1>3
    <3>2. \A j \in 1..Len(down') : j > k => ~Plain(down'[j], m)
      BY <1>2, <1>11, <2>2
    <3> QED
      BY <3>1, <3>2, <1>6, <1>11, <2>2 DEF OnWire, Written
  <2>3. ASSUME NEW j \in 1..Len(down), NEW h \in Nat, Notice(m, j, h)
        PROVE  LossTold(m)'
    <3>1. j \in 1..Len(down') /\ down'[j] = down[j]
      BY <1>3
    <3>2. Lag(down[j]) /\ h < down[j].seq /\ down[j].seq \in Nat /\ down[j].seq < seq
      BY <1>1, <2>3, LineNumbers DEF Notice, NotedInv, Lags, Lag
    <3>3. \A i \in 1..Len(down') : Sent(down'[i]) /\ i < j => down'[i].seq < h
      BY <1>2, <2>3 DEF Sent, Lag, Written, Notice
    <3>4. \A i \in 1..Len(down') : Lag(down'[i]) => down'[i].seq # h
      <4>1. h # seq
        BY <1>1, <3>2
      <4>2. Lag(l) => l.seq = seq
        BY DEF Lag, Written
      <4>3. \A i \in 1..Len(down) : Lag(down[i]) => down[i].seq # h
        BY <2>3 DEF Notice
      <4> QED
        BY <4>1, <4>2, <4>3, <1>2
    <3>5. Notice(m, j, h)'
      BY <3>1, <3>2, <3>3, <3>4, <1>6, <2>1, <1>11, <2>3 DEF Notice, Written
    <3> QED
      BY <3>1, <3>5 DEF LossTold
  <2>4. ASSUME sub.pc = "ready", Stay(down, conn.q, m, 0), Listed(m), NEW g \in Nat, Missing(m, g)
        PROVE  GapLeft(m)'
    <3>1. \A i \in 1..Len(down') : down'[i].t = "event" => down'[i].seq # g
      BY <1>1, <1>2, <2>4 DEF Missing, Written
    <3>2. Missing(m, g)'
      BY <3>1, <1>1, <1>7, <1>11, <2>4 DEF Missing, Written
    <3> QED
      BY <3>2, <1>6, <1>11, <2>4 DEF GapLeft, Written
  <2>5. LossPending(m) /\ conn'.missed = conn.missed => LossPending(m)'
    BY <2>1, <1>11 DEF LossPending, Written
  <2> QED
    BY <2>2, <2>3, <2>4, <2>5 DEF OnWire, LossTold, GapLeft
<1> QED
  BY <1>9, <1>10, <1>11

(* The notice of a loss is written.                                        *)
LEMMA LossIsTold ==
  ASSUME NEW m \in Machine, StreamInv, Types', NotedInv, Open, NEW l, Written(m, l), Lag(l),
         LossPending(m), Listed(m)'
  PROVE  LossTold(m)'
<1>1. /\ down \in Seq(Line) /\ down' \in Seq(Line) /\ seq \in Nat /\ conn.q \in Seq(Envelope)
      /\ sub.last \in Nat /\ l \in Line
  BY DEF StreamInv, Types, ConnType, SubType, Written
<1>2. /\ \A i \in 1..Len(down') : i \in Nat /\ (\/ i \in 1..Len(down) /\ down'[i] = down[i]
                                                \/ (\A j \in 1..Len(down) : j < i) /\ i \notin 1..Len(down) /\ down'[i] = l)
      /\ Len(down') = Len(down) + 1 /\ Len(down) \in Nat
  <2>1. Len(down) \in Nat /\ Len(down') = Len(down) + 1
    BY <1>1 DEF Written
  <2> QED
    BY <2>1, <1>1, AppendIs DEF Written
<1>3. PICK j : j = Len(down) + 1
  OBVIOUS
<1>4. j \in 1..Len(down') /\ down'[j] = l /\ \A i \in 1..Len(down') : ~(i > j) /\ (i < j => i \in 1..Len(down))
  BY <1>2, <1>3
<1>5. PICK h : h = conn.q[1].seq
  OBVIOUS
<1>6. 1 \in 1..Len(conn.q) /\ h \in Nat /\ h < seq
  <2>1. 1 \in 1..Len(conn.q) /\ conn.q[1] \in Envelope
    BY <1>1, TailIs DEF LossPending
  <2> QED
    BY <2>1, <1>5, Numbers DEF StreamInv, Ordered, Below
<1>7. Lag(l) /\ l.seq = seq /\ ~Plain(l, m)
  BY DEF Written, Lag, Plain
<1>8. \A i \in 1..Len(down) : Sent(down[i]) => down[i].seq < h
  BY <1>5, <1>6 DEF StreamInv, Ordered, Ring
<1>9. \A i \in 1..Len(down) : Lag(down[i]) => down[i].seq # h
  BY <1>5, <1>6 DEF NotedInv, Lags
<1>10. Before(m, h)'
  <2>1. Before(m, h)
    BY <1>5 DEF LossPending
  <2>2. Marked(down', m, h)
    BY <2>1, <1>2, <1>7 DEF Before, Marked
  <2> QED
    BY <2>1, <2>2 DEF Before, Written
<1>11. Stay(down', conn.q, m, j)
  BY <1>4 DEF Stay, LossPending
<1>12. Notice(m, j, h)'
  <2>1. \A i \in 1..Len(down') : Sent(down'[i]) /\ i < j => down'[i].seq < h
    BY <1>2, <1>4, <1>8
  <2>2. \A i \in 1..Len(down') : Lag(down'[i]) => down'[i].seq # h
    BY <1>1, <1>2, <1>6, <1>7, <1>9
  <2> QED
    BY <2>1, <2>2, <1>4, <1>6, <1>7, <1>10, <1>11 DEF Notice, Written
<1> QED
  BY <1>4, <1>6, <1>12 DEF LossTold

(* What a broadcast does to the ring: s is 1 if it drops the oldest        *)
(* envelope and 0 otherwise, e is the new one.                             *)
Pushed(s, e) ==
  /\ e.seq = task.seq /\ e.kind = task.kind /\ e.m = task.m
  /\ s = 0 => conn'.missed = conn.missed
  /\ s = 1 => conn'.missed = conn.missed + 1 /\ Len(conn.q) = Cap
  /\ conn'.q # <<>>
  /\ Len(conn'.q) \in 1..Len(conn'.q) /\ conn'.q[Len(conn'.q)] = e
  /\ \A i \in 1..Len(conn'.q) :
       i \in Nat /\ (\/ i + s \in 1..Len(conn.q) /\ conn'.q[i] = conn.q[i + s]
                     \/ i = Len(conn'.q) /\ conn'.q[i] = e)
  /\ \A k \in 1..Len(conn.q) : k > s => k - s \in 1..Len(conn'.q) /\ conn'.q[k - s] = conn.q[k]

(* Broadcast is such a push.                                               *)
LEMMA PushIs ==
  ASSUME Types, MoreTypes, Broadcast, Open
  PROVE  \E s \in {0, 1}, e \in Envelope : Pushed(s, e)
<1>1. /\ conn \in ConnType /\ conn.q \in Seq(Envelope) /\ task \in TaskType /\ conn.missed \in Nat
      /\ Len(conn.q) \in Nat /\ Cap \in Nat /\ Cap > 0 /\ Len(conn.q) <= Cap
  BY EventStreamAssumption DEF Types, ConnType, MoreTypes
<1>2. PICK e : e = [seq |-> task.seq, kind |-> task.kind, m |-> task.m]
  OBVIOUS
<1>3. e \in Envelope /\ e.seq = task.seq /\ e.kind = task.kind /\ e.m = task.m
  BY <1>1, <1>2 DEF TaskType, Envelope, AnyMachine
<1>4. conn' = Push(conn, e)
  BY <1>2 DEF Broadcast, Open
<1>5. CASE Len(conn.q) < Cap
  <2>1. conn'.q = Append(conn.q, e) /\ conn'.missed = conn.missed
    BY <1>1, <1>4, <1>5 DEF Push, ConnType
  <2>2. Len(conn'.q) = Len(conn.q) + 1
    BY <2>1, <1>1, <1>3
  <2>3. \A i \in 1..Len(conn.q) : conn'.q[i] = conn.q[i]
    BY <2>1, <1>1, <1>3
  <2>4. conn'.q[Len(conn.q) + 1] = e
    BY <2>1, <1>1, <1>3
  <2>5. conn'.q # <<>>
    BY <2>2, <1>1
  <2>6. \A i \in 1..Len(conn'.q) : i \in Nat /\ i + 0 = i /\ (i \in 1..Len(conn.q) \/ i = Len(conn'.q))
    BY <2>2, <1>1
  <2>7. \A k \in 1..Len(conn.q) : k - 0 = k /\ k \in 1..Len(conn'.q)
    BY <2>2, <1>1
  <2>8. Len(conn'.q) \in 1..Len(conn'.q)
    BY <2>2, <1>1
  <2>9. Pushed(0, e)
    BY <1>3, <2>1, <2>2, <2>3, <2>4, <2>5, <2>6, <2>7, <2>8 DEF Pushed
  <2> QED
    BY <2>9, <1>3
<1>6. CASE ~(Len(conn.q) < Cap)
  <2>1. /\ conn'.q = Append(Tail(conn.q), e) /\ conn'.missed = conn.missed + 1
        /\ conn.q # <<>> /\ Len(conn.q) = Cap
    <3>1. conn' = [conn EXCEPT !.q = Append(Tail(conn.q), e), !.missed = conn.missed + 1]
      BY <1>4, <1>6 DEF Push
    <3>2. conn.q # <<>> /\ Len(conn.q) = Cap
      BY <1>1, <1>6
    <3> QED
      BY <3>1, <3>2, <1>1 DEF ConnType
  <2>2. PICK p : p = Tail(conn.q)
    OBVIOUS
  <2>3. p \in Seq(Envelope) /\ Len(p) = Len(conn.q) - 1 /\ \A i \in 1..Len(p) : p[i] = conn.q[i + 1]
    BY <2>1, <2>2, <1>1
  <2>4. Len(conn'.q) = Len(p) + 1 /\ conn'.q[Len(p) + 1] = e
    BY <2>1, <2>2, <2>3, <1>3
  <2>5. \A i \in 1..Len(p) : conn'.q[i] = p[i]
    BY <2>1, <2>2, <2>3, <1>3
  <2>6. Len(conn'.q) = Len(conn.q) /\ conn'.q # <<>> /\ Len(conn'.q) \in 1..Len(conn'.q)
    BY <2>1, <2>3, <2>4, <1>1
  <2>7. \A i \in 1..Len(conn'.q) :
          i \in Nat /\ ((i + 1 \in 1..Len(conn.q) /\ i \in 1..Len(p)) \/ i = Len(conn'.q))
    BY <2>3, <2>4, <2>6, <1>1
  <2>8. \A k \in 1..Len(conn.q) :
          k > 1 => k - 1 \in 1..Len(conn'.q) /\ k - 1 \in 1..Len(p) /\ (k - 1) + 1 = k
    BY <2>3, <2>6, <1>1
  <2>9. Pushed(1, e)
    <3>1. \A i \in 1..Len(conn'.q) :
            i \in Nat /\ (\/ i + 1 \in 1..Len(conn.q) /\ conn'.q[i] = conn.q[i + 1]
                          \/ i = Len(conn'.q) /\ conn'.q[i] = e)
      BY <2>3, <2>4, <2>5, <2>7
    <3>2. \A k \in 1..Len(conn.q) : k > 1 => k - 1 \in 1..Len(conn'.q) /\ conn'.q[k - 1] = conn.q[k]
      <4> SUFFICES ASSUME NEW k \in 1..Len(conn.q), k > 1
                   PROVE  k - 1 \in 1..Len(conn'.q) /\ conn'.q[k - 1] = conn.q[k]
        OBVIOUS
      <4>1. conn'.q[k - 1] = p[k - 1] /\ p[k - 1] = conn.q[(k - 1) + 1]
        BY <2>3, <2>5, <2>8
      <4> QED
        BY <4>1, <2>8
    <3> QED
      BY <1>3, <2>1, <2>4, <2>6, <3>1, <3>2 DEF Pushed
  <2> QED
    BY <2>9, <1>3
<1> QED
  BY <1>5, <1>6

(* The event task hands the envelope of m to the ring, or the ring drops   *)
(* it and the loss is pending, or the drop is one that GapsDetected is     *)
(* about and m no longer counts as joined.                                 *)
LEMMA BroadcastEvidence ==
  ASSUME StreamInv, SideInv, Broadcast, NEW m \in Joined, m \in Joined', Evidence(m)
  PROVE  Evidence(m)'
<1>1. /\ Types /\ MoreTypes /\ WatchInv /\ conn \in ConnType /\ conn.q \in Seq(Envelope) /\ task \in TaskType
      /\ down \in Seq(Line) /\ seq \in Nat /\ sub.last \in Nat /\ task.seq \in Nat /\ conn.missed \in Nat
      /\ m \in Machine /\ Ordered(Open, down, conn.q, task, seq, ui.out)
  BY DEF StreamInv, Types, SideInv, ConnType, TaskType, SubType, Joined
<1>2. conn.st = "auth" /\ Open /\ task.pc = "send" /\ ~Leaves(task, m)
  BY <1>1 DEF WatchInv, Open, Broadcast
<1>3. /\ UNCHANGED <<seq, down, sub, ui>> /\ task'.pc = "idle"
      /\ conn'.listing = conn.listing /\ conn'.listed = conn.listed
  BY <1>1 DEF Broadcast, Idle, Push, ConnType
<1>4. watched'[m] = watched[m] /\ ~Overrun(m)
  BY <1>1 DEF Broadcast, Joined
<1>5. PICK s \in {0, 1}, e \in Envelope : Pushed(s, e)
  BY <1>1, <1>2, PushIs
<1>6. e.seq = task.seq /\ ~Leaves(e, m) /\ (Joins(task, m) => Joins(e, m))
  BY <1>2, <1>5 DEF Pushed, Leaves, Joins
<1>7. /\ \A i \in 1..Len(conn'.q) :
           i \in Nat /\ (\/ i + s \in 1..Len(conn.q) /\ conn'.q[i] = conn.q[i + s]
                         \/ i = Len(conn'.q) /\ conn'.q[i] = e)
      /\ \A k \in 1..Len(conn.q) : k > s => k - s \in 1..Len(conn'.q) /\ conn'.q[k - s] = conn.q[k]
      /\ Len(conn'.q) \in 1..Len(conn'.q) /\ conn'.q[Len(conn'.q)] = e
  BY <1>5 DEF Pushed
<1>8. \A i \in 1..Len(conn.q) : conn.q[i].seq \in Nat /\ conn.q[i].seq < task.seq /\ i \in Nat
  BY <1>1, <1>2, Numbers DEF Ordered, Below
<1>9. \A i : Stay(down, conn.q, m, i) => Stay(down, conn.q, m, i)'
  BY <1>3, <1>6, <1>7 DEF Stay
<1>10. Listed(m) => Listed(m)'
  BY <1>3 DEF Listed
<1>11. \A n, x \in Nat : Small(conn.q, task, seq, n, x) => Small(conn'.q, task', seq, n, x)
  BY <1>2, <1>3, <1>6, <1>7 DEF Small
<1>12. \A n \in Nat : Behind(m, n) => Behind(m, n)'
  BY <1>1, <1>3, <1>4, <1>11 DEF Behind
<1>13. CASE InTask(m)
  <2>1. Joins(e, m) /\ Behind(m, e.seq)'
    BY <1>1, <1>2, <1>6, <1>12, <1>13 DEF InTask
  <2>2. \A j \in 1..Len(conn'.q) : ~(j > Len(conn'.q))
    BY <1>7
  <2>3. InRing(m)'
    BY <2>1, <2>2, <1>7 DEF InRing
  <2> QED
    BY <2>3 DEF Evidence
<1>14. CASE InRing(m)
  <2>1. PICK k \in 1..Len(conn.q) : /\ Joins(conn.q[k], m) /\ Behind(m, conn.q[k].seq)
                                    /\ \A j \in 1..Len(conn.q) : j > k => ~Leaves(conn.q[j], m)
    BY <1>14 DEF InRing
  <2>2. CASE k > s
    <3>1. k - s \in 1..Len(conn'.q) /\ conn'.q[k - s] = conn.q[k]
      BY <1>7, <2>2
    <3>2. \A j \in 1..Len(conn'.q) : j > k - s => ~Leaves(conn'.q[j], m)
      <4> SUFFICES ASSUME NEW j \in 1..Len(conn'.q), j > k - s PROVE ~Leaves(conn'.q[j], m)
        OBVIOUS
      <4>1. CASE conn'.q[j] = e
        BY <4>1, <1>6
      <4>2. CASE j + s \in 1..Len(conn.q) /\ conn'.q[j] = conn.q[j + s]
        <5>1. j + s > k
          BY <1>7, <1>8
        <5> QED
          BY <4>2, <5>1, <2>1
      <4> QED
        BY <4>1, <4>2, <1>7
    <3>3. PICK n \in Nat : n = conn.q[k].seq
      BY <1>8
    <3>4. Behind(m, n)'
      BY <3>3, <2>1, <1>12
    <3>5. InRing(m)'
      BY <3>1, <3>2, <3>3, <3>4, <2>1 DEF InRing
    <3> QED
      BY <3>5 DEF Evidence
  <2>3. CASE ~(k > s)
    <3>1. s = 1 /\ k = 1 /\ Len(conn.q) = Cap /\ conn'.missed = conn.missed + 1 /\ conn'.q # <<>>
      BY <2>3, <1>5, <1>8 DEF Pushed
    <3>2. PICK n \in Nat : n = conn.q[1].seq
      BY <3>1, <2>1, <1>8
    <3>3. watched[m] = "joined"
      <4>1. conn.q # <<>> /\ Head(conn.q) = conn.q[1]
        BY <3>1, <2>1, <1>1
      <4>2. watched[m] # "raced"
        BY <4>1, <3>1, <2>1, <1>4, <1>2 DEF Overrun, Joins
      <4> QED
        BY <4>2, <1>1 DEF Joined
    <3>4. Listed(m)'
      BY <3>3, <1>1, <1>10 DEF WatchInv, Listed
    <3>5. /\ 1 \in 1..Len(conn'.q)
          /\ \/ 2 \in 1..Len(conn.q) /\ conn'.q[1] = conn.q[2]
             \/ conn'.q[1] = e
      <4>1. 1 \in 1..Len(conn'.q)
        BY <1>7
      <4>2. 1 + s = 2
        BY <3>1
      <4> QED
        BY <4>1, <4>2, <1>7
    <3>6. PICK h : h = conn'.q[1].seq
      OBVIOUS
    <3>7. h \in Nat /\ h > n
      <4>1. CASE conn'.q[1] = e
        BY <4>1, <3>1, <3>2, <3>6, <2>1, <1>6, <1>8, <1>1
      <4>2. CASE 2 \in 1..Len(conn.q) /\ conn'.q[1] = conn.q[2]
        <5>1. 1 \in 1..Len(conn.q) /\ 1 < 2
          BY <3>1, <2>1
        <5>2. conn.q[1].seq < conn.q[2].seq
          BY <1>1, <1>2, <4>2, <5>1 DEF Ordered, Ring
        <5> QED
          BY <4>2, <5>2, <3>2, <3>6, <1>8
      <4> QED
        BY <4>1, <4>2, <3>5
    <3>8. /\ sub.pc = "ready" => m \in ui.machines \/ Small(conn.q, task, seq, n, sub.last)
          /\ Marked(down, m, n + 1)
      BY <2>1, <3>1, <3>2, <3>3 DEF Behind
    <3>9. Small(conn.q, task, seq, n, sub.last) => sub.last < h
      <4>1. CASE sub.last <= n
        BY <4>1, <1>1, <3>7
      <4>2. CASE /\ \A i \in 1..Len(conn.q) : conn.q[i].seq > n => conn.q[i].seq > sub.last
                 /\ task.pc = "send" /\ task.seq > n => task.seq > sub.last
        BY <4>2, <3>5, <3>6, <3>7, <1>2, <1>6, <1>1
      <4> QED
        BY <4>1, <4>2 DEF Small
    <3>10. Marked(down, m, h)
      <4> SUFFICES ASSUME NEW j \in 1..Len(down), Plain(down[j], m) PROVE down[j].seq < h
        BY DEF Marked
      <4>1. down[j].seq \in Nat /\ down[j].seq < n + 1
        BY <3>8, <1>1, LineNumbers DEF Marked, Plain, Mark
      <4> QED
        BY <4>1, <3>7
    <3>11. Before(m, h)'
      BY <3>8, <3>9, <3>10, <1>3 DEF Before
    <3>12. \A j \in 1..Len(conn'.q) : ~Leaves(conn'.q[j], m)
      <4> SUFFICES ASSUME NEW j \in 1..Len(conn'.q) PROVE ~Leaves(conn'.q[j], m)
        OBVIOUS
      <4>1. j + s > k
        BY <1>7, <3>1
      <4> QED
        BY <4>1, <1>6, <1>7, <2>1
    <3>13. conn'.missed > 0
      BY <3>1, <1>1
    <3>14. LossPending(m)'
      BY <3>1, <3>4, <3>6, <3>11, <3>12, <3>13 DEF LossPending
    <3> QED
      BY <3>14 DEF Evidence
  <2> QED
    BY <2>2, <2>3
<1>15. CASE OnWire(m)
  <2>1. OnWire(m)'
    BY <1>15, <1>3, <1>9, <1>10 DEF OnWire
  <2> QED
    BY <2>1 DEF Evidence
<1>16. CASE Visible(m)
  <2>1. Visible(m)'
    BY <1>16, <1>3, <1>9 DEF Visible
  <2> QED
    BY <2>1 DEF Evidence
<1>17. CASE LossPending(m)
  <2>1. 1 \in 1..Len(conn.q) /\ 1 \in 1..Len(conn'.q)
    BY <1>1, <1>7, <1>17, TailIs DEF LossPending
  <2> PICK h : h = conn'.q[1].seq
    OBVIOUS
  <2>2. h >= conn.q[1].seq /\ h \in Nat
    <3>1. CASE conn'.q[1] = e
      BY <3>1, <2>1, <1>1, <1>6, <1>8
    <3>2. CASE 1 + s \in 1..Len(conn.q) /\ conn'.q[1] = conn.q[1 + s]
      <4>1. CASE s = 0
        BY <4>1, <3>2, <2>1, <1>8
      <4>2. CASE s = 1
        <5>1. 1 < 1 + s
          BY <4>2
        <5>2. conn.q[1].seq < conn.q[1 + s].seq
          BY <5>1, <1>1, <1>2, <3>2, <2>1 DEF Ordered, Ring
        <5> QED
          BY <3>2, <5>2, <1>8, <2>1
      <4> QED
        BY <4>1, <4>2
    <3> QED
      BY <3>1, <3>2, <2>1, <1>7
  <2>3. Marked(down, m, h)
    <3> SUFFICES ASSUME NEW j \in 1..Len(down), Plain(down[j], m) PROVE down[j].seq < h
      BY DEF Marked
    <3>1. down[j].seq \in Nat /\ down[j].seq < conn.q[1].seq
      BY <1>1, <1>17, LineNumbers DEF Marked, Plain, Mark, LossPending, Before
    <3> QED
      BY <3>1, <2>2, <2>1, <1>8
  <2>4. Before(m, h)'
    BY <2>1, <2>2, <2>3, <1>1, <1>3, <1>8, <1>17 DEF Before, LossPending
  <2>5. conn'.missed > 0 /\ conn'.q # <<>>
    BY <1>1, <1>5, <1>17 DEF Pushed, LossPending
  <2>6. \A j \in 1..Len(conn'.q) : ~Leaves(conn'.q[j], m)
    BY <1>6, <1>7, <1>17 DEF LossPending
  <2>7. LossPending(m)'
    BY <2>4, <2>5, <2>6, <1>10, <1>17 DEF LossPending
  <2> QED
    BY <2>7 DEF Evidence
<1>18. CASE LossTold(m)
  <2>1. PICK j \in 1..Len(down), h \in Nat : Notice(m, j, h)
    BY <1>18 DEF LossTold
  <2>2. Notice(m, j, h)'
    BY <2>1, <1>3, <1>9, <1>10 DEF Notice, Before
  <2>3. LossTold(m)'
    BY <2>2, <1>3 DEF LossTold
  <2> QED
    BY <2>3 DEF Evidence
<1>19. CASE GapLeft(m)
  <2>1. PICK g \in Nat : Missing(m, g)
    BY <1>19 DEF GapLeft
  <2>2. Missing(m, g)'
    BY <2>1, <1>2, <1>3, <1>6, <1>7 DEF Missing
  <2>3. GapLeft(m)'
    BY <2>2, <1>3, <1>9, <1>10, <1>19 DEF GapLeft
  <2> QED
    BY <2>3 DEF Evidence
<1> QED
  BY <1>13, <1>14, <1>15, <1>16, <1>17, <1>18, <1>19 DEF Evidence

(* The connection writes the envelope of m, or another one.                *)
LEMMA ForwardEvidence ==
  ASSUME StreamInv, SideInv, ForwardEvent, NEW m \in Joined, Evidence(m)
  PROVE  Evidence(m)'
<1>1. /\ Types /\ MoreTypes /\ WatchInv /\ conn \in ConnType /\ conn.q \in Seq(Envelope) /\ conn.q # <<>>
      /\ down \in Seq(Line) /\ seq \in Nat /\ sub.last \in Nat /\ task.seq \in Nat
      /\ m \in Machine /\ conn.missed = 0 /\ ~conn.listing /\ conn.st = "auth"
  BY DEF StreamInv, Types, SideInv, ConnType, TaskType, SubType, Joined, ForwardEvent, WatchInv
<1>2. UNCHANGED <<seq, task, sub, ui, watched>> /\ conn'.q = Tail(conn.q) /\ conn'.listing = conn.listing
  BY <1>1 DEF ForwardEvent, ConnType
<1>3. PICK e : e = Head(conn.q)
  OBVIOUS
<1>4. PICK l : l = [t |-> "event", seq |-> e.seq, kind |-> e.kind, m |-> e.m]
  OBVIOUS
<1>5. /\ 1 \in 1..Len(conn.q) /\ e = conn.q[1] /\ e \in Envelope /\ e.kind # "dropped"
      /\ \A i \in 1..Len(conn'.q) : i \in Nat /\ i + 1 \in 1..Len(conn.q) /\ 1 < i + 1 /\ conn'.q[i] = conn.q[i + 1]
  BY <1>1, <1>2, <1>3, TailIs DEF MoreTypes
<1>6. \A k \in 1..Len(conn.q) : k > 1 => k - 1 \in 1..Len(conn'.q) /\ conn'.q[k - 1] = conn.q[k]
  <2>1. Len(conn.q) \in Nat /\ Len(conn'.q) = Len(conn.q) - 1
    BY <1>1, <1>2
  <2> SUFFICES ASSUME NEW k \in 1..Len(conn.q), k > 1
               PROVE  k - 1 \in 1..Len(conn'.q) /\ conn'.q[k - 1] = conn.q[k]
    OBVIOUS
  <2>2. k - 1 \in 1..Len(conn'.q) /\ (k - 1) + 1 = k
    BY <2>1
  <2>3. conn'.q[k - 1] = conn.q[(k - 1) + 1]
    BY <2>2, <1>5
  <2> QED
    BY <2>2, <2>3
<1>7. l \in Line /\ l.t = "event" /\ l.seq = e.seq /\ ~Lag(l) /\ ~Plain(l, m)
      /\ (Leaves(l, m) => Leaves(e, m)) /\ (Joins(e, m) => Joins(l, m))
  BY <1>4, <1>5 DEF Line, Envelope, AnyMachine, Lag, Plain, Leaves, Joins
<1>8. down' = Append(down, l) \/ (down' = down /\ ~Joins(e, m))
  BY <1>1, <1>3, <1>4 DEF ForwardEvent, should_receive_event, Joins
<1>9. \A i \in 1..Len(down') :
        i \in Nat /\ (\/ i \in 1..Len(down) /\ down'[i] = down[i]
                      \/ (\A j \in 1..Len(down) : j < i) /\ i \notin 1..Len(down) /\ down'[i] = l)
  <2>1. \A i \in 1..Len(down) : i \in Nat
    OBVIOUS
  <2> QED
    BY <2>1, <1>1, <1>7, <1>8, AppendIs
<1>10. \A i \in 1..Len(down) : i \in 1..Len(down') /\ down'[i] = down[i] /\ i \in Nat
  <2>1. CASE down' = Append(down, l)
    <3>1. Len(down) \in Nat /\ Len(down') = Len(down) + 1
      BY <1>1, <1>7, <2>1
    <3>2. \A i \in 1..Len(down) : i \in 1..Len(down') /\ i \in Nat
      BY <3>1
    <3> QED
      BY <3>2, <1>9
  <2> QED
    BY <2>1, <1>8
<1>11. \A i : Stay(down, conn.q, m, i) => Stay(down, conn.q, m, i)'
  BY <1>5, <1>7, <1>9 DEF Stay
<1>12. \A b : Marked(down, m, b) => Marked(down', m, b)
  BY <1>7, <1>9 DEF Marked
<1>13. \A n \in Nat : Behind(m, n) => Behind(m, n)'
  <2>1. \A n \in Nat : Small(conn.q, task, seq, n, sub.last) => Small(conn'.q, task, seq, n, sub.last)
    BY <1>5 DEF Small
  <2> QED
    BY <2>1, <1>2, <1>12 DEF Behind
<1>14. Listed(m)'
  BY <1>1, <1>2 DEF Listed
<1>15. CASE InTask(m)
  <2>1. InTask(m)'
    BY <1>1, <1>2, <1>13, <1>15 DEF InTask
  <2> QED
    BY <2>1 DEF Evidence
<1>16. CASE InRing(m)
  <2>1. PICK k \in 1..Len(conn.q) : /\ Joins(conn.q[k], m) /\ Behind(m, conn.q[k].seq)
                                    /\ \A j \in 1..Len(conn.q) : j > k => ~Leaves(conn.q[j], m)
    BY <1>16 DEF InRing
  <2>2. CASE k > 1
    <3>1. k - 1 \in 1..Len(conn'.q) /\ conn'.q[k - 1] = conn.q[k]
      BY <1>6, <2>2
    <3>2. PICK n \in Nat : n = conn.q[k].seq
      BY <1>1, Numbers
    <3>3. Behind(m, n)'
      BY <2>1, <3>2, <1>13
    <3>4. \A j \in 1..Len(conn'.q) : j > k - 1 => ~Leaves(conn'.q[j], m)
      <4> SUFFICES ASSUME NEW j \in 1..Len(conn'.q), j > k - 1 PROVE ~Leaves(conn'.q[j], m)
        OBVIOUS
      <4>1. j + 1 > k
        BY <1>5
      <4> QED
        BY <4>1, <1>5, <2>1
    <3>5. InRing(m)'
      BY <3>1, <3>2, <3>3, <3>4, <2>1 DEF InRing
    <3> QED
      BY <3>5 DEF Evidence
  <2>3. CASE ~(k > 1)
    <3>1. k = 1 /\ Joins(e, m)
      BY <2>1, <2>3, <1>5
    <3>2. down' = Append(down, l)
      BY <3>1, <1>8
    <3>3. PICK j : j = Len(down')
      OBVIOUS
    <3>4. j \in 1..Len(down') /\ down'[j] = l /\ \A i \in 1..Len(down') : ~(i > j)
      <4>1. Len(down) \in Nat /\ Len(down') = Len(down) + 1 /\ down'[Len(down) + 1] = l
        BY <1>1, <1>7, <3>2
      <4> QED
        BY <4>1, <3>3
    <3>5. \A i \in 1..Len(conn'.q) : ~Leaves(conn'.q[i], m)
      BY <1>5, <2>1, <3>1
    <3>6. OnWire(m)'
      BY <3>1, <3>4, <3>5, <1>7, <1>14 DEF OnWire, Stay
    <3> QED
      BY <3>6 DEF Evidence
  <2> QED
    BY <2>2, <2>3
<1>17. CASE OnWire(m)
  <2>1. PICK k \in 1..Len(down) : /\ down[k].t = "event" /\ Joins(down[k], m) /\ Stay(down, conn.q, m, k)
                                  /\ \A j \in 1..Len(down) : j > k => ~Plain(down[j], m)
    BY <1>17 DEF OnWire
  <2>2. \A j \in 1..Len(down') : j > k => ~Plain(down'[j], m)
    BY <2>1, <1>7, <1>9
  <2>3. OnWire(m)'
    BY <2>1, <2>2, <1>10, <1>11, <1>14 DEF OnWire
  <2> QED
    BY <2>3 DEF Evidence
<1>18. CASE Visible(m)
  <2>1. Visible(m)'
    BY <1>18, <1>2, <1>11 DEF Visible
  <2> QED
    BY <2>1 DEF Evidence
<1>19. ~LossPending(m)
  BY <1>1 DEF LossPending
<1>20. CASE LossTold(m)
  <2>1. PICK j \in 1..Len(down), h \in Nat : Notice(m, j, h)
    BY <1>20 DEF LossTold
  <2>2. \A i \in 1..Len(down') : Sent(down'[i]) /\ i < j => down'[i].seq < h
    <3> SUFFICES ASSUME NEW i \in 1..Len(down'), Sent(down'[i]), i < j PROVE down'[i].seq < h
      OBVIOUS
    <3>1. i \in 1..Len(down) /\ down'[i] = down[i]
      BY <1>9, <1>10
    <3> QED
      BY <3>1, <2>1 DEF Notice
  <2>3. \A i \in 1..Len(down') : Lag(down'[i]) => down'[i].seq # h
    BY <1>7, <1>9, <2>1 DEF Notice
  <2>4. Before(m, h)'
    BY <1>2, <1>12, <2>1 DEF Before, Notice
  <2>5. Notice(m, j, h)'
    BY <2>1, <2>2, <2>3, <2>4, <1>10, <1>11, <1>14 DEF Notice
  <2>6. LossTold(m)'
    BY <2>5, <1>10 DEF LossTold
  <2> QED
    BY <2>6 DEF Evidence
<1>21. CASE GapLeft(m)
  <2>1. PICK g \in Nat : Missing(m, g)
    BY <1>21 DEF GapLeft
  <2>2. \A i \in 1..Len(down') : down'[i].t = "event" => down'[i].seq # g
    BY <2>1, <1>5, <1>7, <1>9 DEF Missing
  <2>3. Missing(m, g)'
    BY <2>1, <2>2, <1>2, <1>5, <1>12 DEF Missing
  <2>4. GapLeft(m)'
    BY <2>3, <1>2, <1>11, <1>14, <1>21 DEF GapLeft
  <2> QED
    BY <2>4 DEF Evidence
<1> QED
  BY <1>15, <1>16, <1>17, <1>18, <1>19, <1>20, <1>21 DEF Evidence

(* What the subscriber does with line x: it leaves it out, it shows an     *)
(* event, or it takes over the number of an answer.                        *)
Skips(x) ==
  /\ sub.pc = "ready" /\ sub'.last = sub.last /\ ui'.machines = ui.machines
  /\ ~Mark(x) /\ (x.t = "event" => x.seq > sub.last + 1)
Shows(m, x) ==
  /\ sub.pc = "ready" /\ x.t = "event" /\ x.seq <= sub.last + 1 /\ sub'.last = x.seq
  /\ m \in ui.machines /\ ~Leaves(x, m) => m \in ui'.machines
  /\ Joins(x, m) => m \in ui'.machines
Answers(m, x) ==
  /\ Mark(x) /\ sub'.last = x.seq
  /\ m \in ui.machines \/ ~Plain(x, m) => m \in ui'.machines
Taken(m, x) ==
  /\ down # <<>> /\ x = down[1] /\ down' = Tail(down) /\ UNCHANGED <<conn, task, seq, watched>>
  /\ sub'.pc = "ready"
  /\ Skips(x) \/ Shows(m, x) \/ Answers(m, x)

(* What each of the reads does with the line.                              *)
LEMMA ReadIs ==
  ASSUME StreamInv, AwakeInv, ~used.blind, NEW m \in Machine,
         ReadAuthenticated \/ ReadEvent \/ ReadSnapshot \/ ReadOther
  PROVE  Taken(m, down[1])
<1>1. /\ down \in Seq(Line) /\ sub \in SubType /\ ui \in UiType /\ down # <<>> /\ down' = Tail(down)
      /\ UNCHANGED <<conn, task, seq, watched>> /\ sub.last \in Nat
  BY DEF StreamInv, Types, SubType, ReadAuthenticated, ReadEvent, ReadSnapshot, ReadOther, Received
<1>2. PICK x : x = Head(down)
  OBVIOUS
<1>3. x = down[1] /\ x \in Line
  BY <1>1, <1>2, TailIs
<1>4. CASE ReadAuthenticated
  <2>1. x.t = "authenticated" /\ sub'.pc = "ready" /\ sub'.last = x.seq /\ ui' = ui
    BY <1>1, <1>2, <1>4 DEF ReadAuthenticated, Received, SubType
  <2> QED
    BY <2>1, <1>1, <1>3 DEF Taken, Answers, Mark, Plain
<1>5. CASE ReadSnapshot
  <2>1. x.t = "snapshot" /\ sub'.pc = "ready" /\ sub'.last = x.seq
    BY <1>1, <1>2, <1>5 DEF ReadSnapshot, Received, SubType
  <2>2. ui'.machines = ui.machines \cup x.machines
    BY <1>1, <1>2, <1>5 DEF ReadSnapshot, UiType
  <2> QED
    BY <2>1, <2>2, <1>1, <1>3 DEF Taken, Answers, Mark, Plain
<1>6. CASE ReadOther
  <2>1. x.t \in {"response", "torn"} /\ sub' = sub /\ ui' = ui /\ sub.pc = "ready"
    BY <1>2, <1>6 DEF ReadOther, Received
  <2> QED
    BY <2>1, <1>1, <1>3 DEF Taken, Skips, Mark
<1>7. CASE ReadEvent
  <2>1. x.t = "event" /\ sub.pc = "ready" /\ x.seq \in Nat
    BY <1>2, <1>3, <1>7, LineNumbers DEF ReadEvent, Received
  <2>2. sub.last > 0
    BY <2>1 DEF AwakeInv
  <2>3. CASE IsGap(x.seq)
    <3>1. sub' = [sub EXCEPT !.need = TRUE] /\ ui' = ui
      BY <1>2, <1>7, <2>3 DEF ReadEvent
    <3>2. sub'.pc = "ready" /\ sub'.last = sub.last
      BY <3>1, <2>1, <1>1 DEF SubType
    <3> QED
      BY <3>1, <3>2, <2>1, <2>3, <1>1, <1>3 DEF Taken, Skips, Mark, IsGap
  <2>4. CASE ~IsGap(x.seq)
    <3>1. sub' = [sub EXCEPT !.last = x.seq] /\ ui' = forward_events(ui, x)
      BY <1>2, <1>7, <2>4 DEF ReadEvent
    <3>2. sub'.pc = "ready" /\ sub'.last = x.seq
      BY <3>1, <2>1, <1>1 DEF SubType
    <3>3. x.seq <= sub.last + 1
      BY <2>1, <2>2, <2>4, <1>1 DEF IsGap
    <3>4. /\ x.kind = "connected" => ui' = addMachine(ui, x.m)
          /\ x.kind = "disconnected" => ui' = removeMachine(ui, x.m)
          /\ x.kind = "output" => ui' = [ui EXCEPT !.out = x.seq + 1]
          /\ x.kind = "dropped" => ui' = ui
      BY <3>1 DEF forward_events
    <3>5. x.kind \in Kind
      BY <2>1, <1>3 DEF Line
    <3>6. /\ x.kind = "connected" => ui'.machines = ui.machines \cup {x.m}
          /\ x.kind = "disconnected" => ui'.machines = ui.machines \ {x.m}
          /\ x.kind \in {"output", "dropped"} => ui'.machines = ui.machines
      BY <3>4, <1>1 DEF addMachine, removeMachine, UiType
    <3>7. /\ m \in ui.machines /\ ~Leaves(x, m) => m \in ui'.machines
          /\ Joins(x, m) => m \in ui'.machines
      BY <3>5, <3>6 DEF Leaves, Joins, Kind
    <3> QED
      BY <3>2, <3>3, <3>7, <2>1, <1>1, <1>3 DEF Taken, Shows
  <2> QED
    BY <2>3, <2>4
<1> QED
  BY <1>4, <1>5, <1>6, <1>7

(* Reading a line keeps the subscriber behind what comes later.            *)
LEMMA TakenBehind ==
  ASSUME StreamInv, NotedInv, Open, NEW m \in Machine, NEW x, Taken(m, x)
  PROVE  /\ \A n \in Nat : Behind(m, n) /\ (Sent(x) => x.seq < n) => Behind(m, n)'
         /\ \A h \in Nat : Before(m, h) /\ (Sent(x) => x.seq < h) /\ (Lag(x) => x.seq # h) => Before(m, h)'
<1>1. /\ down \in Seq(Line) /\ down # <<>> /\ sub.last \in Nat /\ seq \in Nat /\ conn.q \in Seq(Envelope)
      /\ task.seq \in Nat /\ 1 \in 1..Len(down) /\ x = down[1] /\ x \in Line /\ down' = Tail(down)
      /\ UNCHANGED <<conn, task, seq, watched>>
  <2>1. down \in Seq(Line) /\ down # <<>> /\ x = down[1]
    BY DEF StreamInv, Types, Taken
  <2> QED
    BY <2>1, TailIs DEF StreamInv, Types, SubType, ConnType, TaskType, Taken
<1>2. \A b : Marked(down, m, b) => Marked(down', m, b)
  BY <1>1, TailIs DEF Marked
<1>3. (x.t = "event" \/ Mark(x) => x.seq \in Nat) /\ \A i \in 1..Len(conn.q) : conn.q[i].seq \in Nat
  BY <1>1, LineNumbers, Numbers
<1>4. Lag(x) => /\ x.seq < seq /\ \A i \in 1..Len(conn.q) : conn.q[i].seq # x.seq
                /\ task.pc = "send" => task.seq # x.seq
  BY <1>1 DEF NotedInv, Lags
<1>5. x.t = "event" => Sent(x) \/ Lag(x)
  BY DEF Sent, Lag
<1>6. Lag(x) => ~Leaves(x, m)
  BY DEF Lag, Leaves
<1>7. ASSUME NEW n \in Nat, Behind(m, n), Sent(x) => x.seq < n, watched[m] = "joined"
      PROVE  m \in ui'.machines \/ Small(conn.q, task, seq, n, sub'.last)
  <2>1. Marked(down, m, n + 1) /\ (sub.pc = "ready" => m \in ui.machines \/ Small(conn.q, task, seq, n, sub.last))
    BY <1>7 DEF Behind
  <2>2. CASE Skips(x)
    BY <2>1, <2>2 DEF Skips
  <2>3. CASE Answers(m, x)
    <3>1. CASE Plain(x, m)
      <4>1. x.seq < n + 1 /\ sub'.last = x.seq /\ x.seq \in Nat
        BY <3>1, <2>1, <2>3, <1>1, <1>3 DEF Marked, Answers
      <4> QED
        BY <4>1 DEF Small
    <3>2. CASE ~Plain(x, m)
      BY <3>2, <2>3 DEF Answers
    <3> QED
      BY <3>1, <3>2
  <2>4. CASE Shows(m, x)
    <3>1. x.t = "event" /\ x.seq <= sub.last + 1 /\ sub'.last = x.seq /\ x.seq \in Nat
      BY <2>4, <1>3 DEF Shows
    <3>2. CASE Sent(x)
      BY <3>1, <3>2, <1>7 DEF Small
    <3>3. CASE Lag(x) /\ m \in ui.machines
      BY <3>3, <2>4, <1>6 DEF Shows
    <3>4. CASE Lag(x) /\ Small(conn.q, task, seq, n, sub.last)
      <4>1. CASE sub.last <= n
        <5>1. x.seq <= n + 1
          BY <3>1, <4>1, <1>1
        <5> QED
          BY <5>1, <3>1, <3>4, <1>1, <1>3, <1>4 DEF Small
      <4>2. CASE /\ \A i \in 1..Len(conn.q) : conn.q[i].seq > n => conn.q[i].seq > sub.last
                 /\ task.pc = "send" /\ task.seq > n => task.seq > sub.last
        <5>1. ASSUME NEW i \in 1..Len(conn.q), conn.q[i].seq > n PROVE conn.q[i].seq > x.seq
          <6>1. conn.q[i].seq > sub.last /\ conn.q[i].seq \in Nat /\ conn.q[i].seq # x.seq
            BY <5>1, <4>2, <3>4, <1>3, <1>4
          <6> QED
            BY <6>1, <3>1, <1>1
        <5>2. ASSUME task.pc = "send", task.seq > n PROVE task.seq > x.seq
          <6>1. task.seq > sub.last /\ task.seq # x.seq
            BY <5>2, <4>2, <3>4, <1>4
          <6> QED
            BY <6>1, <3>1, <1>1
        <5> QED
          BY <5>1, <5>2, <3>1, <3>4, <1>4 DEF Small
      <4> QED
        BY <3>4, <4>1, <4>2 DEF Small
    <3> QED
      BY <3>1, <3>2, <3>3, <3>4, <2>1, <2>4, <1>5 DEF Shows
  <2> QED
    BY <2>2, <2>3, <2>4 DEF Taken
<1>8. ASSUME NEW n \in Nat, Behind(m, n), Sent(x) => x.seq < n
      PROVE  Behind(m, n)'
  BY <1>1, <1>2, <1>7, <1>8 DEF Behind
<1>9. ASSUME NEW h \in Nat, Before(m, h), Sent(x) => x.seq < h, Lag(x) => x.seq # h
      PROVE  m \in ui'.machines \/ sub'.last < h
  <2>1. Marked(down, m, h) /\ (sub.pc = "ready" => m \in ui.machines \/ sub.last < h)
    BY <1>9 DEF Before
  <2>2. CASE Skips(x)
    BY <2>1, <2>2 DEF Skips
  <2>3. CASE Answers(m, x)
    BY <2>1, <2>3, <1>1 DEF Answers, Marked
  <2>4. CASE Shows(m, x)
    <3>1. x.t = "event" /\ x.seq <= sub.last + 1 /\ sub'.last = x.seq /\ x.seq \in Nat
      BY <2>4, <1>3 DEF Shows
    <3>2. CASE Sent(x)
      BY <3>1, <3>2, <1>9
    <3>3. CASE Lag(x) /\ m \in ui.machines
      BY <3>3, <2>4, <1>6 DEF Shows
    <3>4. CASE Lag(x) /\ sub.last < h
      BY <3>1, <3>4, <1>1, <1>9
    <3> QED
      BY <3>1, <3>2, <3>3, <3>4, <2>1, <2>4, <1>5 DEF Shows
  <2> QED
    BY <2>2, <2>3, <2>4 DEF Taken
<1>10. ASSUME NEW h \in Nat, Before(m, h), Sent(x) => x.seq < h, Lag(x) => x.seq # h
       PROVE  Before(m, h)'
  BY <1>1, <1>2, <1>9, <1>10 DEF Before
<1> QED
  BY <1>8, <1>10

(* A read shows m or leaves a number behind that will not come any more; a *)
(* gap already left stays open until a snapshot shows m.                   *)
LEMMA TakenEvidence ==
  ASSUME StreamInv, NotedInv, AwakeInv, Open, NEW m \in Machine, NEW x, Taken(m, x), Evidence(m)
  PROVE  Evidence(m)'
<1>1. /\ down \in Seq(Line) /\ down # <<>> /\ sub.last \in Nat /\ seq \in Nat /\ conn.q \in Seq(Envelope)
      /\ task.seq \in Nat /\ 1 \in 1..Len(down) /\ x = down[1] /\ x \in Line /\ down' = Tail(down)
      /\ UNCHANGED <<conn, task, seq, watched>> /\ sub'.pc = "ready"
  <2>1. down \in Seq(Line) /\ down # <<>> /\ x = down[1]
    BY DEF StreamInv, Types, Taken
  <2> QED
    BY <2>1, TailIs DEF StreamInv, Types, SubType, ConnType, TaskType, Taken
<1>2. \A i \in 1..Len(down') : i \in Nat /\ i + 1 \in 1..Len(down) /\ 1 < i + 1 /\ down'[i] = down[i + 1]
  BY <1>1, TailIs
<1>3. \A k \in 1..Len(down) : k > 1 => k - 1 \in 1..Len(down') /\ down'[k - 1] = down[k]
  <2>1. Len(down) \in Nat /\ Len(down') = Len(down) - 1
    BY <1>1
  <2> SUFFICES ASSUME NEW k \in 1..Len(down), k > 1
               PROVE  k - 1 \in 1..Len(down') /\ down'[k - 1] = down[k]
    OBVIOUS
  <2>2. k - 1 \in 1..Len(down') /\ (k - 1) + 1 = k
    BY <2>1
  <2>3. down'[k - 1] = down[(k - 1) + 1]
    BY <2>2, <1>2
  <2> QED
    BY <2>2, <2>3
<1>4. (x.t = "event" \/ Mark(x) => x.seq \in Nat) /\ \A i \in 1..Len(conn.q) : conn.q[i].seq \in Nat
  BY <1>1, LineNumbers, Numbers
<1>5. \A b : Marked(down, m, b) => Marked(down', m, b)
  BY <1>2 DEF Marked
<1>6. \A k \in 1..Len(down) : Stay(down, conn.q, m, k) => Stay(down', conn.q, m, k - 1)
  <2> SUFFICES ASSUME NEW k \in 1..Len(down), Stay(down, conn.q, m, k)
               PROVE  Stay(down', conn.q, m, k - 1)
    OBVIOUS
  <2>1. \A j \in 1..Len(down') : j > k - 1 => j + 1 > k
    BY <1>2
  <2> QED
    BY <2>1, <1>2 DEF Stay
<1>7. Stay(down, conn.q, m, 0) => Stay(down', conn.q, m, 0) /\ (x.t = "event" => ~Leaves(x, m))
  <2>1. 1 > 0 /\ \A j \in 1..Len(down') : j + 1 > 0
    BY <1>2
  <2> QED
    BY <2>1, <1>1, <1>2 DEF Stay
<1>8. Listed(m) => Listed(m)'
  BY <1>1 DEF Listed
<1>9. /\ Sent(x) => /\ \A i \in 1..Len(conn.q) : x.seq < conn.q[i].seq
                    /\ \A i \in 1..Len(down) : 1 < i /\ Sent(down[i]) => x.seq < down[i].seq
                    /\ task.pc = "send" => x.seq < task.seq
                    /\ x.seq < seq
      /\ Lag(x) => /\ \A i \in 1..Len(conn.q) : conn.q[i].seq # x.seq
                   /\ \A i \in 1..Len(down) : i # 1 /\ down[i].t = "event" => down[i].seq # x.seq
                   /\ task.pc = "send" => task.seq # x.seq
                   /\ x.seq < seq
  <2>1. Ordered(Open, down, conn.q, task, seq, ui.out) /\ Lags(down, conn.q, task, seq)
    BY DEF StreamInv, NotedInv
  <2>2. ASSUME Sent(x)
        PROVE  /\ \A i \in 1..Len(conn.q) : x.seq < conn.q[i].seq
               /\ \A i \in 1..Len(down) : 1 < i /\ Sent(down[i]) => x.seq < down[i].seq
               /\ task.pc = "send" => x.seq < task.seq
               /\ x.seq < seq
    BY <2>1, <2>2, <1>1 DEF Ordered, Ring, Rising, Below
  <2>3. ASSUME Lag(x)
        PROVE  /\ \A i \in 1..Len(conn.q) : conn.q[i].seq # x.seq
               /\ \A i \in 1..Len(down) : i # 1 /\ down[i].t = "event" => down[i].seq # x.seq
               /\ task.pc = "send" => task.seq # x.seq
               /\ x.seq < seq
    BY <2>1, <2>3, <1>1 DEF Lags
  <2> QED
    BY <2>2, <2>3
<1>10. ASSUME x.t = "event"
       PROVE  /\ \A i \in 1..Len(down') : down'[i].t = "event" => down'[i].seq # x.seq
              /\ \A i \in 1..Len(conn.q) : conn.q[i].seq # x.seq
              /\ task.pc = "send" => task.seq # x.seq
              /\ x.seq < seq
  <2>1. CASE Lag(x)
    BY <2>1, <1>2, <1>9
  <2>2. CASE Sent(x)
    <3>1. \A i \in 1..Len(down) : 1 < i /\ down[i].t = "event" => down[i].seq # x.seq
      <4> SUFFICES ASSUME NEW i \in 1..Len(down), 1 < i, down[i].t = "event" PROVE down[i].seq # x.seq
        OBVIOUS
      <4>1. CASE Sent(down[i])
        <5>1. x.seq < down[i].seq /\ down[i].seq \in Nat /\ x.seq \in Nat
          BY <4>1, <2>2, <1>1, <1>9, Numbers
        <5> QED
          BY <5>1
      <4>2. CASE Lag(down[i])
        BY <4>2, <1>1, <1>10 DEF NotedInv, Lags
      <4> QED
        BY <4>1, <4>2 DEF Sent, Lag
    <3>2. x.seq \in Nat
      BY <1>4, <1>10
    <3> QED
      BY <2>2, <3>1, <3>2, <1>1, <1>2, <1>4, <1>9
  <2> QED
    BY <2>1, <2>2, <1>10 DEF Sent, Lag
<1>11. \A h \in Nat : Before(m, h) /\ (Sent(x) => x.seq < h) /\ (Lag(x) => x.seq # h) => Before(m, h)'
  BY TakenBehind
<1>12. \A n \in Nat : Behind(m, n) /\ (Sent(x) => x.seq < n) => Behind(m, n)'
  BY TakenBehind
<1>13. CASE InTask(m)
  <2>1. InTask(m)'
    BY <1>1, <1>9, <1>12, <1>13 DEF InTask
  <2> QED
    BY <2>1 DEF Evidence
<1>14. CASE InRing(m)
  <2>1. PICK k \in 1..Len(conn.q) : /\ Joins(conn.q[k], m) /\ Behind(m, conn.q[k].seq)
                                    /\ \A j \in 1..Len(conn.q) : j > k => ~Leaves(conn.q[j], m)
    BY <1>14 DEF InRing
  <2>2. PICK n \in Nat : n = conn.q[k].seq
    BY <1>4
  <2>3. Behind(m, n)'
    BY <2>1, <2>2, <1>9, <1>12
  <2>4. InRing(m)'
    BY <2>1, <2>2, <2>3, <1>1 DEF InRing
  <2> QED
    BY <2>4 DEF Evidence
<1>15. CASE OnWire(m)
  <2>1. PICK k \in 1..Len(down) : /\ down[k].t = "event" /\ Joins(down[k], m) /\ Stay(down, conn.q, m, k)
                                  /\ Listed(m) /\ \A j \in 1..Len(down) : j > k => ~Plain(down[j], m)
    BY <1>15 DEF OnWire
  <2>2. CASE k > 1
    <3>1. \A j \in 1..Len(down') : j > k - 1 => ~Plain(down'[j], m)
      <4> SUFFICES ASSUME NEW j \in 1..Len(down'), j > k - 1 PROVE ~Plain(down'[j], m)
        OBVIOUS
      <4>1. j + 1 > k
        BY <1>2
      <4> QED
        BY <4>1, <1>2, <2>1
    <3>2. OnWire(m)'
      BY <2>1, <2>2, <3>1, <1>1, <1>3, <1>6, <1>8 DEF OnWire
    <3> QED
      BY <3>2 DEF Evidence
  <2>3. CASE ~(k > 1)
    <3>1. k = 1 /\ x.t = "event" /\ Joins(x, m)
      BY <2>1, <2>3, <1>1
    <3>2. Stay(down', conn.q, m, 0)
      <4>1. Stay(down', conn.q, m, k - 1) /\ k - 1 = 0
        BY <2>1, <3>1, <1>6
      <4> QED
        BY <4>1
    <3>3. CASE Shows(m, x)
      <4>1. Visible(m)'
        BY <3>1, <3>2, <3>3, <1>1 DEF Visible, Shows
      <4> QED
        BY <4>1 DEF Evidence
    <3>4. CASE Skips(x)
      <4>1. sub'.last < x.seq /\ x.seq \in Nat
        BY <3>1, <3>4, <1>1, <1>4 DEF Skips
      <4>2. \A j \in 1..Len(down') : ~Plain(down'[j], m)
        BY <1>2, <2>1, <3>1
      <4>3. Missing(m, x.seq)'
        BY <4>1, <4>2, <3>1, <1>1, <1>10 DEF Missing, Marked
      <4>4. GapLeft(m)'
        BY <4>1, <4>3, <3>2, <2>1, <1>1, <1>8 DEF GapLeft
      <4> QED
        BY <4>4 DEF Evidence
    <3> QED
      BY <3>1, <3>3, <3>4 DEF Taken, Answers, Mark
  <2> QED
    BY <2>2, <2>3
<1>16. CASE Visible(m)
  <2>1. m \in ui'.machines
    <3>1. CASE Skips(x)
      BY <3>1, <1>16 DEF Skips, Visible
    <3>2. CASE Shows(m, x)
      BY <3>2, <1>7, <1>16 DEF Shows, Visible
    <3>3. CASE Answers(m, x)
      BY <3>3, <1>16 DEF Answers, Visible
    <3> QED
      BY <3>1, <3>2, <3>3 DEF Taken
  <2>2. Visible(m)'
    BY <2>1, <1>1, <1>7, <1>16 DEF Visible
  <2> QED
    BY <2>2 DEF Evidence
<1>17. CASE LossPending(m)
  <2>1. 1 \in 1..Len(conn.q)
    BY <1>1, <1>17, TailIs DEF LossPending
  <2>2. PICK h \in Nat : h = conn.q[1].seq
    BY <2>1, <1>4
  <2>3. Before(m, h)'
    BY <2>1, <2>2, <1>9, <1>11, <1>17 DEF LossPending
  <2>4. LossPending(m)'
    BY <2>2, <2>3, <1>1, <1>8, <1>17 DEF LossPending
  <2> QED
    BY <2>4 DEF Evidence
<1>18. CASE LossTold(m)
  <2>1. PICK j \in 1..Len(down), h \in Nat : Notice(m, j, h)
    BY <1>18 DEF LossTold
  <2>2. /\ Lag(down[j]) /\ h < down[j].seq /\ Before(m, h) /\ Stay(down, conn.q, m, j) /\ Listed(m)
        /\ \A i \in 1..Len(down) : Sent(down[i]) /\ i < j => down[i].seq < h
        /\ \A i \in 1..Len(down) : Lag(down[i]) => down[i].seq # h
    BY <2>1 DEF Notice
  <2>3. CASE j > 1
    <3>1. Before(m, h)'
      BY <2>2, <2>3, <1>1, <1>11
    <3>2. \A i \in 1..Len(down') : Sent(down'[i]) /\ i < j - 1 => down'[i].seq < h
      <4> SUFFICES ASSUME NEW i \in 1..Len(down'), Sent(down'[i]), i < j - 1 PROVE down'[i].seq < h
        OBVIOUS
      <4>1. i + 1 < j
        BY <1>2
      <4> QED
        BY <4>1, <1>2, <2>2
    <3>3. PICK k : k = j - 1
      OBVIOUS
    <3>4. k \in 1..Len(down') /\ down'[k] = down[j] /\ Stay(down', conn.q, m, k)
      BY <2>2, <2>3, <3>3, <1>3, <1>6
    <3>5. Notice(m, k, h)'
      BY <2>2, <3>1, <3>2, <3>3, <3>4, <1>1, <1>2, <1>8 DEF Notice
    <3>6. LossTold(m)'
      BY <3>4, <3>5 DEF LossTold
    <3> QED
      BY <3>6 DEF Evidence
  <2>4. CASE ~(j > 1)
    <3>1. j = 1 /\ Lag(x) /\ x.t = "event" /\ x.seq \in Nat /\ h < x.seq
      BY <2>2, <2>4, <1>1, <1>4 DEF Lag
    <3>2. Stay(down', conn.q, m, 0)
      <4>1. Stay(down', conn.q, m, j - 1) /\ j - 1 = 0
        BY <2>2, <3>1, <1>6
      <4> QED
        BY <4>1
    <3>3. Skips(x) \/ Shows(m, x)
      BY <3>1 DEF Taken, Answers, Mark
    <3>4. sub.pc = "ready" /\ (m \in ui.machines \/ sub.last < h)
      BY <3>3, <2>2 DEF Skips, Shows, Before
    <3>5. CASE m \in ui.machines
      <4>1. m \in ui'.machines
        BY <3>1, <3>3, <3>5 DEF Skips, Shows, Lag, Leaves
      <4>2. Visible(m)'
        BY <4>1, <3>2, <1>1 DEF Visible
      <4> QED
        BY <4>2 DEF Evidence
    <3>6. CASE sub.last < h
      <4>1. ~Shows(m, x)
        BY <3>1, <3>6, <1>1 DEF Shows
      <4>2. sub'.last < x.seq
        BY <4>1, <3>1, <3>3, <3>6, <1>1 DEF Skips
      <4>3. Marked(down', m, x.seq)
        <5> SUFFICES ASSUME NEW i \in 1..Len(down'), Plain(down'[i], m) PROVE down'[i].seq < x.seq
          BY DEF Marked
        <5>1. down'[i].seq < h /\ down'[i] \in Line
          BY <2>2, <1>1, <1>2, <1>5 DEF Before, Marked
        <5>2. down'[i].seq \in Nat
          BY <5>1, LineNumbers DEF Plain, Mark
        <5> QED
          BY <5>1, <5>2, <3>1
      <4>4. Missing(m, x.seq)'
        BY <4>2, <4>3, <3>1, <1>1, <1>10 DEF Missing
      <4>5. GapLeft(m)'
        BY <4>4, <3>1, <3>2, <2>2, <1>1, <1>8 DEF GapLeft
      <4> QED
        BY <4>5 DEF Evidence
    <3> QED
      BY <3>4, <3>5, <3>6
  <2> QED
    BY <2>3, <2>4
<1>19. CASE GapLeft(m)
  <2>1. PICK g \in Nat : Missing(m, g)
    BY <1>19 DEF GapLeft
  <2>2. /\ sub.last < g /\ g < seq /\ Marked(down', m, g) /\ (x.t = "event" => x.seq # g)
        /\ Stay(down', conn.q, m, 0) /\ Listed(m) /\ (Plain(x, m) => x.seq < g)
    BY <2>1, <1>1, <1>5, <1>7, <1>19 DEF Missing, GapLeft, Marked
  <2>3. CASE m \in ui'.machines
    <3>1. Visible(m)'
      BY <2>2, <2>3, <1>1 DEF Visible
    <3> QED
      BY <3>1 DEF Evidence
  <2>4. CASE m \notin ui'.machines
    <3>1. sub'.last < g
      <4>1. CASE Skips(x)
        BY <4>1, <2>2 DEF Skips
      <4>2. CASE Shows(m, x)
        <5>1. x.seq <= sub.last + 1 /\ sub'.last = x.seq /\ x.seq \in Nat /\ x.seq # g
          BY <4>2, <2>2, <1>4 DEF Shows
        <5> QED
          BY <5>1, <2>2, <1>1
      <4>3. CASE Answers(m, x)
        BY <4>3, <2>2, <2>4 DEF Answers
      <4> QED
        BY <4>1, <4>2, <4>3 DEF Taken
    <3>2. \A i \in 1..Len(down') : down'[i].t = "event" => down'[i].seq # g
      BY <2>1, <1>2 DEF Missing
    <3>3. Missing(m, g)'
      BY <3>1, <3>2, <2>1, <2>2, <1>1 DEF Missing
    <3>4. GapLeft(m)'
      BY <3>3, <2>2, <1>1, <1>8 DEF GapLeft
    <3> QED
      BY <3>4 DEF Evidence
  <2> QED
    BY <2>3, <2>4
<1> QED
  BY <1>13, <1>14, <1>15, <1>16, <1>17, <1>18, <1>19 DEF Evidence

(* A step that leaves the ring and the lines as they are.                  *)
LEMMA StillEvidence ==
  ASSUME NEW m \in Machine, StreamInv, Types', Still(m), Evidence(m), InTask(m) => task' = task \/ InTask(m)',
         down' = down
  PROVE  Evidence(m)'
BY StillKeeps DEF Evidence, LineTorn, NoticeTorn, Torn

(* A line that is not from the ring: an answer, or the notice of a loss.   *)
LEMMA WrittenEvidence ==
  ASSUME NEW m \in Machine, StreamInv, Types', SideInv, m \in Joined, NEW l, Written(m, l), Evidence(m), Listed(m)',
         ~Plain(l, m) \/ (watched[m] # "joined" /\ ~Listed(m)),
         conn'.missed = conn.missed \/ Lag(l)
  PROVE  Evidence(m)'
<1>1. NotedInv /\ Open
  BY DEF SideInv, WatchInv, Open
<1>2. /\ Visible(m) => Visible(m)'
      /\ InTask(m) => InTask(m)'
      /\ InRing(m) => InRing(m)'
  BY <1>1, WrittenKeeps
<1>3. CASE ~Listed(m)
  BY <1>2, <1>3 DEF Evidence, OnWire, LossPending, LossTold, Notice, GapLeft
<1>4. CASE ~Plain(l, m)
  <2>1. /\ OnWire(m) => OnWire(m)'
        /\ LossTold(m) => LossTold(m)'
        /\ GapLeft(m) => GapLeft(m)'
        /\ LossPending(m) /\ conn'.missed = conn.missed => LossPending(m)'
    BY <1>1, <1>4, WrittenKeeps
  <2>2. LossPending(m) /\ Lag(l) => LossTold(m)'
    BY <1>1, LossIsTold
  <2> QED
    BY <1>2, <2>1, <2>2 DEF Evidence
<1> QED
  BY <1>3, <1>4

(* Every step keeps the evidence.                                          *)
LEMMA StepEvidence == ASSUME StreamInv, SideInv, EvidenceInv, [Next]_vars PROVE EvidenceInv'
<1>1. StreamInv' /\ Types'
  BY StepStream DEF StreamInv
<1>2. /\ Types /\ MoreTypes /\ NotedInv /\ WatchInv /\ UpInv /\ AwakeInv
      /\ conn \in ConnType /\ task \in TaskType /\ sub \in SubType /\ ui \in UiType /\ down \in Seq(Line)
      /\ seq \in Nat /\ up \in Seq(Request) /\ watched \in [Machine -> News]
      /\ used \in [conns : Nat, reqs : Nat, blind : BOOLEAN]
  BY DEF StreamInv, Types, SideInv, MoreTypes
<1> SUFFICES ASSUME ~used'.blind, NEW m \in Machine, m \in Joined'
             PROVE  Evidence(m)'
  BY DEF EvidenceInv, Joined
<1>3. watched'[m] \in {"joined", "raced"}
  BY DEF Joined
<1>4. watched'[m] = watched[m] => m \in Joined
  BY <1>3 DEF Joined
<1>5. ~used.blind /\ m \in Joined => Evidence(m)
  BY DEF EvidenceInv
<1>6. m \in Joined => /\ conn.st = "auth" /\ ui.fetch = "done" /\ m \in live
                      /\ watched[m] = "joined" /\ conn.listing => m \in conn.listed
  BY <1>2 DEF WatchInv
<1>7. CASE \E k \in Machine : MachineConnected(k) \/ MachineDisconnected(k)
  <2>1. PICK k \in Machine : MachineConnected(k) \/ MachineDisconnected(k)
    BY <1>7
  <2>2. UNCHANGED <<seq, conn, down, sub, ui, used>> /\ task.pc = "idle"
    BY <2>1 DEF MachineConnected, MachineDisconnected, PoolChange
  <2>3. task'.pc = "wrap" /\ task'.m = k /\ (MachineConnected(k) => task'.kind = "connected")
    BY <2>1 DEF MachineConnected, MachineDisconnected, PoolChange, Idle
  <2>4. CASE m = k
    <3>1. MachineDisconnected(k) => watched'[k] \in {"left", "no"}
      BY <1>2 DEF MachineDisconnected, PoolChange
    <3>2. MachineConnected(k)
      BY <2>1, <2>4, <3>1, <1>3
    <3>3. InTask(m)'
      BY <2>3, <2>4, <3>2 DEF InTask, Joins
    <3> QED
      BY <3>3 DEF Evidence
  <2>5. CASE m # k
    <3>1. watched'[m] = watched[m]
      BY <1>2, <2>1, <2>5 DEF MachineConnected, MachineDisconnected, PoolChange
    <3>2. Evidence(m) /\ ~InTask(m)
      BY <3>1, <2>2, <1>4, <1>5 DEF InTask
    <3>3. Still(m)
      BY <3>1, <2>2, <2>3, <1>2 DEF Still, Listed
    <3> QED
      BY <3>2, <3>3, <2>2, <1>1, StillEvidence
  <2> QED
    BY <2>4, <2>5
<1>8. CASE SessionData
  <2>1. UNCHANGED <<seq, conn, down, sub, ui, used, watched>> /\ task.pc = "idle" /\ task'.pc = "wrap"
    BY <1>8 DEF SessionData, Idle
  <2>2. Still(m) /\ Evidence(m) /\ ~InTask(m)
    BY <2>1, <1>2, <1>4, <1>5 DEF Still, Listed, InTask
  <2> QED
    BY <2>1, <2>2, <1>1, StillEvidence
<1>9. CASE wrap_event
  <2>1. /\ UNCHANGED <<conn, down, sub, ui, used, watched>> /\ seq' = seq + 1
        /\ task'.pc = "send" /\ task'.seq = seq /\ task'.kind = task.kind /\ task'.m = task.m
    BY <1>2, <1>9 DEF wrap_event, TaskType
  <2>2. Still(m) /\ Evidence(m)
    BY <2>1, <1>2, <1>4, <1>5 DEF Still, Listed
  <2>3. Small(conn.q, task', seq', seq, sub.last) \/ sub.pc # "ready"
    BY <2>1, <1>2, <1>4, <1>6 DEF Small, NotedInv, Open
  <2>4. Marked(down, m, seq + 1)
    <3> SUFFICES ASSUME NEW j \in 1..Len(down), Plain(down[j], m) PROVE down[j].seq < seq + 1
      BY DEF Marked
    <3>1. Mark(down[j]) /\ down[j].seq \in Nat
      BY <1>2, LineNumbers DEF Plain, Mark
    <3>2. down[j].seq <= seq
      BY <3>1, <2>1, <1>2, <1>4, <1>6 DEF NotedInv, Marks, Open
    <3> QED
      BY <3>1, <3>2, <1>2
  <2>5. InTask(m) => InTask(m)'
    <3>1. PICK n : n = seq
      OBVIOUS
    <3>2. Behind(m, n)'
      BY <3>1, <2>1, <2>3, <2>4 DEF Behind
    <3> QED
      BY <3>1, <3>2, <2>1 DEF InTask, Joins
  <2> QED
    BY <2>1, <2>2, <2>5, <1>1, StillEvidence
<1>10. CASE Broadcast
  <2>1. used' = used /\ (watched'[m] = "lost" \/ watched'[m] = watched[m])
    BY <1>10 DEF Broadcast
  <2>2. m \in Joined /\ Evidence(m)
    BY <2>1, <1>3, <1>4, <1>5
  <2> QED
    BY <2>2, <1>10, BroadcastEvidence
<1>11. CASE Authenticate
  <2>1. conn.st = "auth" /\ up # <<>> /\ Head(up) = "authenticate"
    BY <1>4, <1>6, <1>11 DEF Authenticate
  <2>2. 1 \in 1..Len(up) /\ Head(up) = up[1]
    BY <2>1, <1>2
  <2> QED
    BY <2>1, <2>2, <1>2 DEF UpInv
<1>12. CASE Subscription
  <2>1. PICK l : l = [t |-> "response"]
    OBVIOUS
  <2>2. /\ UNCHANGED <<seq, task, sub, ui, used, watched>> /\ down' = Append(down, l) /\ ~conn.listing
        /\ conn'.q = conn.q /\ conn'.missed = conn.missed /\ conn'.listing = conn.listing
    BY <1>2, <1>12, <2>1 DEF Subscription, ConnType
  <2>3. l \in Line /\ l.t = "response" /\ ~Plain(l, m)
    BY <2>1 DEF Line, Plain
  <2>4. Written(m, l) /\ Listed(m)' /\ m \in Joined /\ Evidence(m)
    BY <2>2, <2>3, <1>2, <1>4, <1>5 DEF Written, Listed
  <2> QED
    BY <2>2, <2>3, <2>4, <1>1, WrittenEvidence
<1>22. CASE RefuseTorn
  <2>1. PICK l : l = [t |-> "response"]
    OBVIOUS
  <2>2. /\ UNCHANGED <<seq, task, sub, ui, used, watched, conn>> /\ (down' = Append(down, l) \/ down' = down)
        /\ ~conn.listing
    BY <1>22, <2>1 DEF RefuseTorn
  <2>3. l \in Line /\ l.t = "response" /\ ~Plain(l, m)
    BY <2>1 DEF Line, Plain
  <2>4. Listed(m)' /\ m \in Joined /\ Evidence(m)
    BY <2>2, <1>4, <1>5 DEF Listed
  <2>5. CASE down' = down
    <3>1. Still(m)
      BY <2>2, <2>5, <1>2 DEF Still, Listed
    <3> QED
      BY <2>2, <2>4, <2>5, <3>1, <1>1, StillEvidence
  <2>6. CASE down' = Append(down, l)
    <3>1. Written(m, l)
      BY <2>2, <2>3, <2>6, <1>2 DEF Written
    <3> QED
      BY <2>2, <2>3, <2>4, <3>1, <1>1, WrittenEvidence
  <2> QED
    BY <2>2, <2>5, <2>6
<1>13. CASE SnapshotList
  <2>1. /\ UNCHANGED <<seq, task, down, sub, ui, used, watched>>
        /\ conn'.q = conn.q /\ conn'.missed = conn.missed /\ conn'.listed = live
    BY <1>2, <1>13 DEF SnapshotList, ConnType
  <2>2. m \in Joined /\ Evidence(m) /\ m \in live
    BY <2>1, <1>4, <1>5, <1>6
  <2>3. Still(m)
    BY <2>1, <2>2, <1>2 DEF Still, Listed
  <2> QED
    BY <2>1, <2>2, <2>3, <1>1, StillEvidence
<1>14. CASE SnapshotReply
  <2>1. PICK l : l = [t |-> "snapshot", seq |-> seq, machines |-> conn.listed]
    OBVIOUS
  <2>2. /\ UNCHANGED <<seq, task, sub, ui, used, watched>> /\ down' = Append(down, l) /\ conn.listing
        /\ conn'.q = conn.q /\ conn'.missed = conn.missed /\ conn'.listing = FALSE
    BY <1>2, <1>14, <2>1 DEF SnapshotReply, ConnType
  <2>3. l \in Line /\ l.t = "snapshot" /\ (Plain(l, m) => m \notin conn.listed)
    BY <2>1, <1>2 DEF Line, Plain, ConnType
  <2>4. Written(m, l) /\ Listed(m)' /\ m \in Joined /\ Evidence(m)
    BY <2>2, <2>3, <1>2, <1>4, <1>5 DEF Written, Listed
  <2>5. ~Plain(l, m) \/ (watched[m] # "joined" /\ ~Listed(m))
    BY <2>2, <2>3, <2>4, <1>6 DEF Listed
  <2> QED
    BY <2>2, <2>4, <2>5, <1>1, WrittenEvidence
<1>15. CASE ForwardEvent
  <2>1. UNCHANGED <<used, watched>>
    BY <1>15 DEF ForwardEvent
  <2> QED
    BY <2>1, <1>4, <1>5, <1>15, ForwardEvidence
<1>16. CASE Lagged
  <2>1. UNCHANGED <<task, sub, ui, used, watched>> /\ ~conn.listing
    BY <1>16 DEF Lagged
  <2>2. m \in Joined /\ Evidence(m) /\ conn.st = "auth"
    BY <2>1, <1>4, <1>5, <1>6
  <2>3. PICK l : l = [t |-> "event", seq |-> seq, kind |-> "dropped", m |-> NoMachine]
    OBVIOUS
  <2>4. down' = Append(down, l) /\ seq' = seq + 1 /\ conn'.q = conn.q /\ conn'.listing = conn.listing
    BY <1>2, <1>16, <2>2, <2>3 DEF Lagged, ConnType
  <2>5. l \in Line /\ Lag(l) /\ l.seq = seq /\ ~Plain(l, m)
    BY <1>2, <2>3 DEF Line, Lag, Kind, AnyMachine, Plain
  <2>6. Written(m, l) /\ Listed(m)'
    BY <2>1, <2>4, <2>5, <1>2 DEF Written, Listed
  <2> QED
    BY <2>2, <2>5, <2>6, <1>1, WrittenEvidence
<1>17. CASE Break \/ Restart \/ AuthenticationFailed
  BY <1>3, <1>17 DEF Break, Restart, AuthenticationFailed, NotWatched
<1>18. CASE Connect \/ Disconnected \/ FetchTaken \/ setMachines
  BY <1>4, <1>6, <1>18 DEF Connect, Disconnected, FetchTaken, setMachines
<1>19. CASE ReadAuthenticated \/ ReadEvent \/ ReadSnapshot \/ ReadOther
  <2>1. watched' = watched
    BY <1>19 DEF ReadAuthenticated, ReadEvent, ReadSnapshot, ReadOther
  <2>2. ~used.blind
    <3>1. CASE ReadAuthenticated
      BY <3>1, <1>2 DEF ReadAuthenticated, AwakeInv
    <3>2. CASE ReadEvent
      <4>1. used' = [used EXCEPT !.blind = used.blind \/ sub'.last = 0]
        BY <3>2 DEF ReadEvent
      <4>2. used.blind => used'.blind
        BY <4>1, <1>2
      <4> QED
        BY <4>2
    <3>3. CASE ReadSnapshot \/ ReadOther
      BY <3>3 DEF ReadSnapshot, ReadOther
    <3> QED
      BY <1>19, <3>1, <3>2, <3>3
  <2>3. m \in Joined /\ Evidence(m) /\ Open
    BY <2>1, <2>2, <1>4, <1>5, <1>6 DEF Open
  <2>4. Taken(m, down[1])
    BY <2>2, <1>2, <1>19, ReadIs
  <2> QED
    BY <2>3, <2>4, <1>2, TakenEvidence
<1>20. CASE RequestSnapshot \/ UNCHANGED vars
  <2>1. /\ UNCHANGED <<seq, task, conn, down, ui, used, watched>>
        /\ sub' = sub \/ sub' = [sub EXCEPT !.need = FALSE]
    BY <1>20 DEF RequestSnapshot, vars
  <2>2. sub'.pc = sub.pc /\ sub'.last = sub.last
    BY <2>1, <1>2 DEF SubType
  <2>3. Still(m) /\ Evidence(m)
    BY <2>1, <2>2, <1>2, <1>4, <1>5 DEF Still, Listed
  <2> QED
    BY <2>1, <2>3, <1>1, StillEvidence
<1>21. CASE SendRequest
  <2>1. /\ UNCHANGED <<seq, task, conn, sub, ui>> /\ used' = [used EXCEPT !.reqs = used.reqs + 1]
        /\ sub.pc = "ready" /\ down' \in Tears(down, [t |-> "torn"])
        /\ watched' = [k \in Machine |-> IF down' # down /\ Swallowed(Head(down), k) THEN "lost" ELSE watched[k]]
    BY <1>21 DEF SendRequest
  <2>2. ~used.blind
    BY <2>1, <1>2
  <2>3. watched'[m] = watched[m] /\ (down' # down => ~Swallowed(Head(down), m))
    BY <2>1, <1>3
  <2>4. m \in Joined /\ Evidence(m) /\ Open
    BY <2>2, <2>3, <1>4, <1>5, <1>6 DEF Open
  <2>5. CASE down' = down
    <3>1. Still(m)
      BY <2>1, <2>3, <2>5, <1>2 DEF Still, Listed
    <3> QED
      BY <2>1, <2>4, <2>5, <3>1, <1>1, StillEvidence
  <2>6. CASE down # <<>> /\ down' = <<[t |-> "torn"]>> \o Tail(down)
    <3>1. PICK l : l = [t |-> "torn"]
      OBVIOUS
    <3>2. Len(down') = Len(down) /\ \A i \in 1..Len(down') : (i # 1 /\ down'[i] = down[i]) \/ (i = 1 /\ down'[i] = l)
      BY <1>2, <2>6, <3>1, TearIs
    <3>3. Head(down) = down[1] /\ l.t = "torn"
      BY <1>2, <2>6, <3>1, TailIs
    <3>4. \A i \in 1..Len(down) : down'[i] = down[i] \/ (i = 1 /\ down'[i].t = "torn")
      BY <3>2, <3>3
    <3>5. Still(m)
      BY <2>1, <2>3, <3>2, <3>4, <1>2 DEF Still, Listed
    <3>6. LineTorn(m) => sub.last < down[1].seq
      <4> SUFFICES ASSUME LineTorn(m) PROVE sub.last < down[1].seq
        OBVIOUS
      <4>1. down[1] \in Line /\ down[1].t = "event" /\ Joins(down[1], m) /\ down' # down
        BY <1>2 DEF LineTorn, Torn
      <4>2. down[1].seq \in Nat /\ sub.last \in Nat
        BY <4>1, <1>2, LineNumbers DEF SubType
      <4>3. ~(down[1].seq <= sub.last)
        BY <4>1, <2>3, <2>4, <3>3 DEF Swallowed, Joins, Joined
      <4> QED
        BY <4>2, <4>3
    <3>7. LineTorn(m) \/ NoticeTorn(m) => Visible(m)' \/ GapLeft(m)'
      BY <1>1, <1>2, <2>1, <2>4, <3>5, <3>6, TornLeavesGap
    <3> QED
      BY <1>1, <2>1, <2>4, <3>5, <3>7, StillKeeps DEF Evidence
  <2> QED
    BY <2>1, <2>5, <2>6, TearsAre
<1> QED
  BY <1>7, <1>8, <1>9, <1>10, <1>11, <1>12, <1>13, <1>14, <1>15, <1>16, <1>17, <1>18, <1>19, <1>20, <1>21, <1>22
     DEF Next, ServerStep, SubscriberStep

(* At rest there is nothing left but a machine shown or a gap.             *)
LEMMA RestNotices == ASSUME StreamInv, EvidenceInv PROVE NotSilentlyBehind
<1> SUFFICES ASSUME ~used.blind, AtRest, NEW m \in Joined PROVE m \in ui.machines \/ sub.last + 1 < seq
  BY DEF NotSilentlyBehind, MissingIsNoticed
<1>1. Len(down) = 0 /\ Len(conn.q) = 0 /\ task.pc = "idle" /\ conn.missed = 0 /\ seq \in Nat /\ sub.last \in Nat
  BY DEF AtRest, StreamInv, Types, SubType
<1>2. Visible(m) \/ GapLeft(m)
  BY <1>1 DEF EvidenceInv, Evidence, InTask, InRing, OnWire, LossPending, LossTold
<1>3. GapLeft(m) => sub.last + 1 < seq
  BY <1>1 DEF GapLeft, Missing
<1> QED
  BY <1>2, <1>3 DEF Visible

(* NotSilentlyBehind: whatever the ring drops, should_receive_event leaves *)
(* out or a cancelled read_line swallows, a machine that connected while   *)
(* the desktop was watching is shown once everything has been delivered,   *)
(* or the subscriber is behind a number that makes the next one a gap.     *)
(* Three exceptions: the subscriber stood at number 0; the drop fell       *)
(* between the two halves of a snapshot; the torn line was the machine's   *)
(* own and its number not beyond last_seen_seq.                            *)
THEOREM NoSilentLoss == Spec => []NotSilentlyBehind
<1>1. Init => StreamInv /\ SideInv /\ EvidenceInv
  <2>1. Init => Joined = {}
    BY DEF Init, Joined, NotWatched
  <2> QED
    BY <2>1, InitStream, InitSide DEF EvidenceInv
<1>2. StreamInv /\ SideInv /\ EvidenceInv /\ [Next]_vars => (StreamInv /\ SideInv /\ EvidenceInv)'
  BY StepStream, StepSide, StepEvidence
<1>3. StreamInv /\ SideInv /\ EvidenceInv => NotSilentlyBehind
  BY RestNotices
<1> QED
  BY <1>1, <1>2, <1>3, PTL DEF Spec
==============================================================================
