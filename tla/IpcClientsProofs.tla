--------------------------- MODULE IpcClientsProofs ---------------------------
(***************************************************************************)
(* Proofs about the IPC clients, for any number of requests, any capacity  *)
(* of the desktop's queue and of the sockets, and any number of broken     *)
(* connections.                                                            *)
(***************************************************************************)
EXTENDS IpcClients, TLAPS

-----------------------------------------------------------------------------
(* The inductive invariant                                                 *)

Desktop == {"off", "dial", "auth", "idle", "send", "wait", "stopped"}
Cli == {"dial", "auth", "idle", "wait", "terminal", "typing", "stopped"}
Line == Req \cup {Auth, Event, Closed, Torn}
Answer == Req \cup {Waiting, Failed}
ClientType == [pc : Desktop \cup Cli, cur : Req, queue : Seq(Req), called : SUBSET Req]

Types ==
  /\ who \in {"desktop", "kill", "connect", "attach"}
  /\ client \in ClientType
  /\ client.pc \in IF who = "desktop" THEN Desktop ELSE Cli
  /\ ans \in [Req -> Answer]
  /\ up \in Seq(Line) /\ down \in Seq(Line)
  /\ done \in [Req -> {0, 1}]

(* The lines of a sequence, and the sequences that hold no request and no  *)
(* Authenticate twice.                                                     *)
Single == Req \cup {Auth}
Lines(q) == {q[i] : i \in 1..Len(q)}
Once(q) == \A i, j \in 1..Len(q) : q[i] = q[j] /\ q[i] \in Single => i = j

(* What the client has ready is distinct: the requests of the desktop's    *)
(* queue and the one in hand were called, each once; the CLI goes through  *)
(* its requests in their order.                                            *)
ReadyInv ==
  /\ Once(client.queue) /\ Lines(client.queue) \subseteq client.called
  /\ client.pc \in {"send", "wait"} =>
       client.cur \in client.called /\ client.cur \notin Lines(client.queue)
  /\ who # "desktop" =>
       /\ client.queue = <<>>
       /\ \A r \in client.called : r <= client.cur
       /\ client.pc \in {"dial", "auth", "idle"} => client.cur \notin client.called
  /\ \A r \in Req : r \notin client.called => ans[r] = Waiting

(* A request on its way to the server was not carried out yet, the answer  *)
(* to one was; no line is there twice.                                     *)
WireInv ==
  /\ Once(up) /\ Once(down)
  /\ \A r \in Req : r \in Lines(up) => done[r] = 0
  /\ \A r \in Req : r \in Lines(down) => done[r] = 1

(* Authenticate is answered once.                                          *)
AuthInv == Auth \notin Lines(up) \cap Lines(down)

(* Of what the desktop has asked, whole or torn, at most one is under way, *)
(* as a request or as an answer: no line can be taken for another's        *)
(* answer.                                                                 *)
Word(q, i) == q[i] \notin {Event, Closed}
NoWord(q) == \A i \in 1..Len(q) : ~Word(q, i)
OneWord(q) == \A i, j \in 1..Len(q) : Word(q, i) /\ Word(q, j) => i = j
DeskInv ==
  who = "desktop" =>
    /\ Len(up) <= 1 /\ OneWord(down)
    /\ up # <<>> => NoWord(down)
    /\ client.pc \in {"idle", "send"} => up = <<>> /\ NoWord(down)
    /\ client.pc = "wait" => Auth \notin Lines(up) \cup Lines(down)

(* What has not been written was not carried out.                          *)
Unsent(r) ==
  \/ r \notin client.called
  \/ r \in Lines(client.queue)
  \/ client.pc = "send" /\ r = client.cur

UnsentInv == \A r \in Req : Unsent(r) => done[r] = 0 /\ r \notin Lines(up)

(* A client that may still read an answer has nothing under way but the    *)
(* request in hand; k-terminus kill may have others once a read failed.    *)
Failure == \E q \in Req : q < client.cur /\ ans[q] = Failed

MatchInv ==
  \A r \in Req : r \in Lines(up) \cup Lines(down) =>
    \/ client.pc \in {"dial", "stopped", "terminal", "typing"}
    \/ client.pc = "wait" /\ r = client.cur
    \/ who = "kill" /\ client.pc \in {"idle", "wait"} /\ Failure

(* An answered request was carried out.                                    *)
AnsweredInv == \A r \in Req : ans[r] = r => done[r] = 1

ClientsInv ==
  /\ Types /\ ReadyInv /\ WireInv /\ AuthInv /\ DeskInv /\ UnsentInv /\ MatchInv /\ AnsweredInv
  /\ AnswersMatch

-----------------------------------------------------------------------------
(* Lemmas about the operators                                              *)

(* The lines that are no requests are told apart from them.                *)
LEMMA Codes ==
  /\ MaxReq \in Nat /\ Req \subseteq Nat /\ 1 \in Req /\ 2 \in Req
  /\ Auth \notin Req /\ Waiting \notin Req /\ Failed \notin Req
  /\ Event \notin Req /\ Closed \notin Req /\ Torn \notin Req /\ Failed # Waiting
  /\ {Auth, Torn} \cap {Event, Closed} = {} /\ Torn # Auth
  /\ Req \subseteq Single /\ Auth \in Single /\ Single \subseteq Line
  /\ {Event, Closed, Torn} = Line \ Single
  /\ \A r \in Single : r # Auth => r \in Req
<1>1. MaxReq \in Nat /\ MaxReq > 1
  BY IpcClientsAssumption DEF IpcClientsAssumption
<1> QED
  BY <1>1 DEF Req, Single, Line, Auth, Waiting, Failed, Event, Closed, Torn

LEMMA LinesEmpty == Lines(<<>>) = {} /\ Once(<<>>)
BY DEF Lines, Once

LEMMA LinesOf ==
  ASSUME NEW S, NEW q \in Seq(S)
  PROVE  Lines(q) \subseteq S
BY DEF Lines

(* A line is written.                                                      *)
LEMMA LinesAppend ==
  ASSUME NEW S, NEW q \in Seq(S), NEW e \in S
  PROVE  /\ Append(q, e) \in Seq(S)
         /\ Lines(Append(q, e)) = Lines(q) \cup {e}
         /\ Once(q) /\ (e \in Single => e \notin Lines(q)) => Once(Append(q, e))
<1> DEFINE r == Append(q, e)
<1>1. /\ r \in Seq(S) /\ Len(q) \in Nat /\ Len(r) = Len(q) + 1
      /\ \A i \in 1..Len(q) : i \in 1..Len(r) /\ r[i] = q[i]
      /\ Len(q) + 1 \in 1..Len(r) /\ r[Len(q) + 1] = e
  OBVIOUS
<1> HIDE DEF r
<1>2. \A i \in 1..Len(r) : \/ i \in 1..Len(q) /\ r[i] = q[i]
                           \/ i = Len(q) + 1 /\ r[i] = e
  BY <1>1
<1>3. Lines(r) = Lines(q) \cup {e}
  BY <1>1, <1>2 DEF Lines
<1>4. Once(q) /\ (e \in Single => e \notin Lines(q)) => Once(r)
  BY <1>2 DEF Once, Lines
<1> QED
  BY <1>1, <1>3, <1>4 DEF r

(* The first n lines are read.                                             *)
Rest(q, n) == SubSeq(q, n + 1, Len(q))

LEMMA LinesRest ==
  ASSUME NEW S, NEW q \in Seq(S), NEW n \in 1..Len(q)
  PROVE  /\ Rest(q, n) \in Seq(S) /\ Head(q) \in S /\ Head(q) \in Lines(q)
         /\ Lines(Rest(q, n)) \subseteq Lines(q)
         /\ Once(q) => /\ Once(Rest(q, n))
                       /\ Head(q) \in Single => Head(q) \notin Lines(Rest(q, n))
<1>0. PICK r : r = Rest(q, n)
  OBVIOUS
<1>1. /\ Len(q) \in Nat /\ n \in Nat /\ 1 \in 1..Len(q) /\ Head(q) = q[1] /\ q[1] \in S
      /\ n <= Len(q)
  OBVIOUS
<1>2. /\ r \in Seq(S) /\ Len(r) = Len(q) - n
      /\ \A i \in 1..Len(r) : r[i] = q[i + n]
  BY <1>0, <1>1 DEF Rest
<1>3. \A i \in 1..Len(r) : i \in Nat /\ i + n \in 1..Len(q) /\ i + n # 1
  BY <1>1, <1>2
<1>4. Lines(r) \subseteq Lines(q) /\ Head(q) \in Lines(q)
  BY <1>1, <1>2, <1>3 DEF Lines
<1>5. ASSUME Once(q)
      PROVE  Once(r) /\ (Head(q) \in Single => Head(q) \notin Lines(r))
  <2>1. ASSUME NEW i \in 1..Len(r), NEW j \in 1..Len(r), r[i] = r[j], r[i] \in Single
        PROVE  i = j
    <3>1. i + n = j + n
      BY <1>2, <1>3, <1>5, <2>1 DEF Once
    <3> QED
      BY <3>1, <1>1, <1>3
  <2>2. ASSUME NEW i \in 1..Len(r), r[i] = Head(q), Head(q) \in Single
        PROVE  FALSE
    BY <1>1, <1>2, <1>3, <1>5, <2>2 DEF Once
  <2> QED
    BY <2>1, <2>2 DEF Once, Lines
<1> QED
  BY <1>0, <1>1, <1>2, <1>4, <1>5

(* The first line is read.                                                 *)
LEMMA LinesTail ==
  ASSUME NEW S, NEW q \in Seq(S), q # <<>>
  PROVE  /\ Tail(q) \in Seq(S) /\ Head(q) \in S /\ Head(q) \in Lines(q)
         /\ Lines(Tail(q)) \subseteq Lines(q)
         /\ Once(q) => Once(Tail(q)) /\ (Head(q) \in Single => Head(q) \notin Lines(Tail(q)))
<1>1. Len(q) \in Nat /\ 1 \in 1..Len(q) /\ Tail(q) \in Seq(S) /\ Len(Tail(q)) = Len(q) - 1
  OBVIOUS
<1>2. Rest(q, 1) \in Seq(S) /\ Len(Rest(q, 1)) = Len(q) - 1
  BY <1>1 DEF Rest
<1>3. \A i \in 1..(Len(q) - 1) : Tail(q)[i] = q[i + 1] /\ Rest(q, 1)[i] = q[i + 1]
  BY <1>1 DEF Rest
<1>4. Tail(q) = Rest(q, 1)
  BY <1>1, <1>2, <1>3
<1> QED
  BY <1>1, <1>4, LinesRest

(* The first line is torn, or none is.                                     *)
LEMMA LinesTear ==
  ASSUME NEW q \in Seq(Line), NEW r \in Tears(q)
  PROVE  /\ r \in Seq(Line) /\ Len(r) = Len(q)
         /\ \A x \in Single : x \in Lines(r) => x \in Lines(q)
         /\ Once(q) => Once(r)
<1>1. CASE r = q
  BY <1>1
<1>2. CASE q # <<>> /\ r = <<Torn>> \o Tail(q)
  <2>1. Torn \in Line /\ Torn \notin Single
    BY Codes
  <2>2. /\ Tail(q) \in Seq(Line) /\ <<Torn>> \in Seq(Line) /\ Len(<<Torn>>) = 1 /\ Len(q) \in Nat
        /\ Len(Tail(q)) = Len(q) - 1 /\ <<Torn>>[1] = Torn
    BY <1>2, <2>1
  <2>3. r \in Seq(Line) /\ Len(r) = Len(q) /\ r[1] = Torn
    BY <1>2, <2>2
  <2>4. ASSUME NEW i \in 1..Len(r), i # 1 PROVE r[i] = q[i]
    <3>1. i \in Nat /\ i > 1 /\ i - 1 \in 1..Len(Tail(q)) /\ i <= Len(q)
      BY <2>2, <2>3, <2>4
    <3>2. r[i] = Tail(q)[i - 1]
      BY <1>2, <2>2, <3>1
    <3>3. Tail(q)[i - 1] = q[(i - 1) + 1]
      BY <1>2, <2>2, <3>1
    <3> QED
      BY <3>1, <3>2, <3>3
  <2>5. \A i \in 1..Len(r) : i \in 1..Len(q) /\ (r[i] \in Single => r[i] = q[i])
    BY <2>1, <2>3, <2>4
  <2>6. \A x \in Single : x \in Lines(r) => x \in Lines(q)
    BY <2>5 DEF Lines
  <2>7. Once(q) => Once(r)
    BY <2>5 DEF Once
  <2> QED
    BY <2>3, <2>6, <2>7
<1> QED
  BY <1>1, <1>2 DEF Tears

(* The words of the lines that are left, and of those with one more.       *)
LEMMA WordsTail ==
  ASSUME NEW q \in Seq(Line), q # <<>>
  PROVE  /\ NoWord(q) => NoWord(Tail(q))
         /\ OneWord(q) => OneWord(Tail(q))
         /\ OneWord(q) /\ Head(q) \notin {Event, Closed} => NoWord(Tail(q)) /\ ~NoWord(q)
<1>1. PICK r : r = Tail(q)
  OBVIOUS
<1>2. Len(q) \in Nat /\ 1 \in 1..Len(q) /\ Head(q) = q[1] /\ Len(r) = Len(q) - 1
  BY <1>1
<1>3. \A i \in 1..Len(r) : i \in Nat /\ i + 1 \in 1..Len(q) /\ i + 1 # 1 /\ r[i] = q[i + 1]
  BY <1>1, <1>2
<1>4. \A i, j \in 1..Len(r) : i + 1 = j + 1 => i = j
  BY <1>3
<1> QED
  BY <1>1, <1>2, <1>3, <1>4 DEF NoWord, OneWord, Word

LEMMA WordsAppend ==
  ASSUME NEW q \in Seq(Line), NEW e \in Line
  PROVE  /\ e \in {Event, Closed} /\ NoWord(q) => NoWord(Append(q, e))
         /\ e \in {Event, Closed} /\ OneWord(q) => OneWord(Append(q, e))
         /\ NoWord(q) => OneWord(Append(q, e))
<1>1. PICK r : r = Append(q, e)
  OBVIOUS
<1>2. Len(q) \in Nat /\ \A i \in 1..Len(r) : (i \in 1..Len(q) /\ r[i] = q[i]) \/ (i = Len(q) + 1 /\ r[i] = e)
  BY <1>1
<1> QED
  BY <1>1, <1>2 DEF NoWord, OneWord, Word

LEMMA NoWords == NoWord(<<>>) /\ OneWord(<<>>)
BY DEF NoWord, OneWord

-----------------------------------------------------------------------------
(* The invariant is kept                                                   *)

LEMMA InitClients == Init => ClientsInv
<1> SUFFICES ASSUME Init PROVE ClientsInv
  OBVIOUS
<1>1. Types
  <2>1. up \in Seq(Line) /\ down \in Seq(Line)
    BY DEF Init
  <2>2. client \in ClientType /\ client.pc \in IF who = "desktop" THEN Desktop ELSE Cli
    BY Codes DEF Init, ClientType, Desktop, Cli
  <2>3. ans \in [Req -> Answer] /\ done \in [Req -> {0, 1}]
    BY DEF Init, Answer
  <2> QED
    BY <2>1, <2>2, <2>3 DEF Init, Types
<1>2. /\ client.queue = <<>> /\ client.called = {} /\ client.pc # "send" /\ client.pc # "wait"
      /\ up = <<>> /\ down = <<>>
      /\ \A r \in Req : ans[r] = Waiting /\ done[r] = 0 /\ ans[r] # r /\ ans[r] \notin Req
  BY Codes DEF Init
<1>3. DeskInv
  BY <1>2, LinesEmpty, NoWords DEF DeskInv
<1> QED
  BY <1>1, <1>2, <1>3, LinesEmpty
  DEF ClientsInv, ReadyInv, WireInv, AuthInv, UnsentInv, MatchInv, AnsweredInv, AnswersMatch

(* A step that gives no answer and neither takes up nor sends a request.   *)
LEMMA MovesKeep ==
  ASSUME ClientsInv, UNCHANGED <<who, ans, done>>,
         client' \in ClientType, client'.pc \in IF who = "desktop" THEN Desktop ELSE Cli,
         client'.cur = client.cur, client'.queue = client.queue, client'.called = client.called,
         up' \in Seq(Line), down' \in Seq(Line), Once(up'), Once(down'),
         \A r \in Req : r \in Lines(up') => r \in Lines(up),
         \A r \in Req : r \in Lines(down') => r \in Lines(down),
         \/ client'.pc = client.pc
         \/ client'.pc \in {"dial", "auth", "idle"} /\ client.pc \in {"dial", "auth"}
         \/ client'.pc \in {"stopped", "terminal", "typing"},
         \/ client'.pc = client.pc
         \/ client'.pc \in {"dial", "stopped", "terminal", "typing"}
         \/ \A r \in Req : r \notin Lines(up') \cup Lines(down'),
         AuthInv', DeskInv'
  PROVE  ClientsInv'
<1> USE DEF ClientsInv
<1>1. Types'
  BY DEF Types
<1>2. ReadyInv'
  BY DEF ReadyInv
<1>3. WireInv'
  BY DEF WireInv
<1>4. UnsentInv'
  BY DEF UnsentInv, Unsent
<1>5. MatchInv'
  BY DEF MatchInv, Failure
<1>6. AnsweredInv' /\ AnswersMatch'
  BY DEF AnsweredInv, AnswersMatch
<1> QED
  BY <1>1, <1>2, <1>3, <1>4, <1>5, <1>6

(* Lines come and go that are no requests, the connection is lost or made  *)
(* anew, the terminal runs.                                                *)
LEMMA MovesAre ==
  ASSUME ClientsInv,
         \/ Forward \/ ForwardClosed \/ Break \/ Dial \/ DesktopAuthenticated \/ DesktopRefused
         \/ CliAuthenticated \/ Key \/ TerminalWrite \/ TerminalRead \/ Detach
         \/ UNCHANGED vars
  PROVE  ClientsInv'
<1> USE DEF ClientsInv
<1> DEFINE Kept(q, r) == r \in Seq(Line) /\ Once(r) /\ \A x \in Single : x \in Lines(r) => x \in Lines(q)
<1>1. /\ up \in Seq(Line) /\ down \in Seq(Line) /\ Once(up) /\ Once(down)
      /\ client \in ClientType
      /\ client.pc \in (IF who = "desktop" THEN Desktop ELSE Cli)
  BY DEF Types, WireInv
<1>2. ASSUME NEW e \in {Event, Closed}
      PROVE  Kept(down, Append(down, e)) /\ Kept(up, Append(up, e))
  BY <1>1, Codes, LinesAppend
<1>3. Kept(up, <<>>) /\ Kept(down, <<>>) /\ Kept(up, up) /\ Kept(down, down)
  BY <1>1, LinesEmpty
<1>4. down # <<>> => Kept(down, Tail(down))
  BY <1>1, LinesTail
<1>5. ASSUME NEW n \in 1..Len(down), NEW r \in Tears(Rest(down, n)) PROVE Kept(down, r)
  BY <1>1, <1>5, LinesRest, LinesTear
<1>10. (\A r \in Tears(up) : Kept(up, r) /\ Len(r) = Len(up)) /\ \A r \in Tears(down) : Kept(down, r)
  BY <1>1, LinesTear
<1>6. ASSUME NEW p, p \in IF who = "desktop" THEN Desktop ELSE Cli,
             client' = [client EXCEPT !.pc = p]
      PROVE  /\ client' \in ClientType /\ client'.pc = p /\ client'.cur = client.cur
             /\ client'.queue = client.queue /\ client'.called = client.called
  BY <1>1, <1>6 DEF ClientType
<1>7. client.pc = "auth" => \A r \in Req : r \notin Lines(up) \cup Lines(down)
  BY DEF MatchInv
<1>8. /\ <<Auth>> \in Seq(Line) /\ <<>> \in Seq(Line) /\ Once(<<Auth>>) /\ Once(<<>>)
      /\ Lines(<<Auth>>) = {Auth} /\ Lines(<<>>) = {} /\ Auth \notin Req
  <2>1. <<Auth>> \in Seq(Line) /\ <<>> \in Seq(Line)
    BY Codes
  <2>2. Lines(<<Auth>>) = {Auth} /\ Once(<<Auth>>)
    BY DEF Lines, Once
  <2> QED
    BY <2>1, <2>2, Codes, LinesEmpty
<1>9. ASSUME Kept(up, up'), Kept(down, down')
      PROVE  /\ up' \in Seq(Line) /\ down' \in Seq(Line) /\ Once(up') /\ Once(down')
             /\ \A r \in Req : r \in Lines(up') => r \in Lines(up)
             /\ \A r \in Req : r \in Lines(down') => r \in Lines(down)
             /\ Auth \notin Lines(up) => Auth \notin Lines(up')
             /\ Auth \notin Lines(down) => Auth \notin Lines(down')
             /\ AuthInv'
  BY <1>9, Codes DEF AuthInv
<1> HIDE DEF Kept
<1>11. CASE Forward \/ ForwardClosed \/ Break \/ UNCHANGED vars
  <2>1. /\ client' = client /\ UNCHANGED <<who, ans, done>>
        /\ up' \in Tears(up) \/ up' = <<>> \/ up' = up
        /\ down' = down \/ down' = <<>> \/ down' = Append(down, Event) \/ down' = Append(down, Closed)
    BY <1>11 DEF Forward, ForwardClosed, TearRequest, Break, vars
  <2>2. Kept(up, up') /\ Kept(down, down')
    BY <2>1, <1>2, <1>3, <1>10
  <2>3. DeskInv'
    <3>1. up' = <<>> \/ Len(up') = Len(up)
      BY <2>1, <1>10
    <3>2. up' \in Seq(Line) /\ up \in Seq(Line)
      BY <2>2, <1>1, <1>9
    <3>3. (up' # <<>> => up # <<>>) /\ (Len(up) <= 1 => Len(up') <= 1)
      BY <3>1, <3>2
    <3>4. (NoWord(down) => NoWord(down')) /\ (OneWord(down) => OneWord(down'))
      BY <2>1, <1>1, Codes, WordsAppend, NoWords
    <3>5. Auth \notin Lines(up) \cup Lines(down) => Auth \notin Lines(up') \cup Lines(down')
      BY <2>2, <1>9
    <3> QED
      BY <2>1, <3>3, <3>4, <3>5 DEF DeskInv
  <2> QED
    BY <2>1, <2>2, <2>3, <1>1, <1>9, MovesKeep
<1>12. CASE Dial
  <2>1. client' = [client EXCEPT !.pc = "auth"] /\ client.pc = "dial"
    BY <1>12 DEF Dial
  <2>2. "auth" \in IF who = "desktop" THEN Desktop ELSE Cli
    BY DEF Desktop, Cli
  <2>3. up' = <<Auth>> /\ down' = <<>> /\ UNCHANGED <<who, ans, done>> /\ Len(<<Auth>>) = 1
    BY <1>12 DEF Dial
  <2>4. client'.pc = "auth" /\ AuthInv' /\ DeskInv'
    BY <2>1, <2>2, <2>3, <1>6, <1>8, NoWords DEF AuthInv, DeskInv
  <2> QED
    BY <2>1, <2>2, <2>3, <2>4, <1>6, <1>8, MovesKeep
<1>13. CASE DesktopAuthenticated
  <2>1. /\ client' = [client EXCEPT !.pc = "idle"] /\ client.pc = "auth" /\ who = "desktop"
        /\ down # <<>> /\ Head(down) = Auth /\ down' = Tail(down) /\ UNCHANGED <<who, ans, up, done>>
    BY <1>13 DEF DesktopAuthenticated
  <2>2. "idle" \in IF who = "desktop" THEN Desktop ELSE Cli
    BY <2>1 DEF Desktop
  <2>3. Kept(up, up') /\ Kept(down, down')
    BY <2>1, <1>3, <1>4
  <2>4. OneWord(down) /\ (up # <<>> => NoWord(down))
    BY <2>1 DEF DeskInv
  <2>5. NoWord(down') /\ up = <<>>
    BY <2>1, <2>4, <1>1, Codes, WordsTail
  <2>6. DeskInv'
    <3>1. OneWord(down') /\ Len(up') <= 1 /\ client'.pc = "idle"
      BY <2>1, <2>2, <2>5, <1>6 DEF OneWord, NoWord
    <3> QED
      BY <2>1, <2>5, <3>1 DEF DeskInv
  <2> QED
    BY <2>1, <2>2, <2>3, <2>6, <1>6, <1>7, <1>9, MovesKeep
<1>15. CASE DesktopRefused
  <2>1. /\ client' = [client EXCEPT !.pc = "dial"] /\ client.pc = "auth" /\ who = "desktop"
        /\ up' = <<>> /\ down' = <<>> /\ UNCHANGED <<who, ans, done>>
    BY <1>15 DEF DesktopRefused
  <2>2. "dial" \in IF who = "desktop" THEN Desktop ELSE Cli
    BY <2>1 DEF Desktop
  <2>3. Kept(up, up') /\ Kept(down, down')
    BY <2>1, <1>3
  <2>4. DeskInv'
    BY <2>1, <2>2, <1>6, <1>8, NoWords DEF DeskInv
  <2> QED
    BY <2>1, <2>2, <2>3, <2>4, <1>6, <1>7, <1>9, MovesKeep
<1>16. CASE CliAuthenticated
  <2>1. PICK p \in {"idle", "stopped"} : client' = [client EXCEPT !.pc = p]
    BY <1>16 DEF CliAuthenticated
  <2>2. client.pc = "auth" /\ UNCHANGED <<who, ans, up, done>> /\ who # "desktop"
    BY <1>16 DEF CliAuthenticated, Command
  <2>3. Kept(up, up') /\ Kept(down, down')
    BY <1>16, <2>2, <1>3, <1>5 DEF CliAuthenticated, ReadLine, Rest
  <2>4. p \in IF who = "desktop" THEN Desktop ELSE Cli
    BY <2>2 DEF Cli
  <2>5. DeskInv'
    BY <2>2 DEF DeskInv
  <2> QED
    BY <2>1, <2>2, <2>3, <2>4, <2>5, <1>6, <1>7, <1>9, MovesKeep
<1>14. CASE Key \/ TerminalWrite \/ TerminalRead \/ Detach
  <2>1. PICK p \in {"terminal", "typing", "stopped"} : client' = [client EXCEPT !.pc = p]
    BY <1>14 DEF Key, TerminalWrite, TerminalRead, Detach
  <2>2. Kept(up, up') /\ Kept(down, down') /\ client.pc \in {"terminal", "typing"} /\ UNCHANGED <<who, ans, done>>
    <3>1. CASE Key \/ Detach
      BY <3>1, <1>3, <1>10 DEF Key, Detach
    <3>2. CASE TerminalWrite
      BY <3>2, <1>2, <1>3 DEF TerminalWrite
    <3>3. CASE TerminalRead
      BY <3>3, <1>3, <1>4 DEF TerminalRead
    <3> QED
      BY <1>14, <3>1, <3>2, <3>3
  <2>3. who # "desktop"
    BY <2>2, <1>1 DEF Desktop
  <2>4. p \in IF who = "desktop" THEN Desktop ELSE Cli
    BY <2>1, <2>3 DEF Cli
  <2>5. DeskInv'
    BY <2>2, <2>3 DEF DeskInv
  <2> QED
    BY <2>1, <2>2, <2>4, <2>5, <1>6, <1>9, MovesKeep
<1> QED
  BY <1>11, <1>12, <1>13, <1>14, <1>15, <1>16

(* The server passes over what is left of a torn request.                  *)
LEMMA PassedOverKeeps ==
  ASSUME ClientsInv, up # <<>>, Head(up) = Torn, up' = Tail(up), UNCHANGED <<who, client, ans, down, done>>
  PROVE  ClientsInv'
<1> USE DEF ClientsInv
<1>1. /\ up \in Seq(Line) /\ down \in Seq(Line) /\ Once(up) /\ Once(down) /\ client \in ClientType
      /\ client.pc \in (IF who = "desktop" THEN Desktop ELSE Cli)
  BY DEF Types, WireInv
<1>2. /\ up' \in Seq(Line) /\ Once(up') /\ Lines(up') \subseteq Lines(up) /\ Len(up') = Len(up) - 1 /\ Len(up) \in Nat
  BY <1>1, LinesTail
<1>3. AuthInv'
  BY <1>2 DEF AuthInv
<1>4. DeskInv'
  <2>1. Len(up) <= 1 => Len(up') <= 1
    BY <1>2
  <2> QED
    BY <2>1, <1>2 DEF DeskInv
<1> QED
  BY <1>1, <1>2, <1>3, <1>4, MovesKeep

(* The server carries a request out and writes its answer.                 *)
LEMMA ServeKeeps == ClientsInv /\ Serve => ClientsInv'
<1> SUFFICES ASSUME ClientsInv, Serve PROVE ClientsInv'
  OBVIOUS
<1> USE DEF ClientsInv
<1>1. PICK h : h = Head(up)
  OBVIOUS
<1>0. CASE h = Torn /\ down' = down
  <2>1. done' = done
    BY <1>0, <1>1, Codes DEF Serve
  <2> QED
    BY <1>0, <1>1, <2>1, PassedOverKeeps DEF Serve
<1> SUFFICES ASSUME down' = Append(down, h) PROVE ClientsInv'
  BY <1>0, <1>1 DEF Serve
<1>2. /\ up \in Seq(Line) /\ down \in Seq(Line) /\ up # <<>> /\ Once(up) /\ Once(down)
      /\ up' = Tail(up) /\ down' = Append(down, h) /\ UNCHANGED <<who, client, ans>>
      /\ done' = (IF h \in Req THEN [done EXCEPT ![h] = @ + 1] ELSE done)
      /\ done \in [Req -> {0, 1}]
  BY <1>1 DEF Serve, Types, WireInv
<1>3. /\ h \in Line /\ h \in Lines(up) /\ up' \in Seq(Line) /\ Once(up')
      /\ Lines(up') \subseteq Lines(up) /\ (h \in Single => h \notin Lines(up'))
  BY <1>1, <1>2, LinesTail
<1>4. (h \in Req => done[h] = 0) /\ (h \in Single => h \notin Lines(down))
  BY <1>3, Codes DEF WireInv, AuthInv
<1>5. /\ down' \in Seq(Line) /\ Lines(down') = Lines(down) \cup {h} /\ Once(down')
  BY <1>2, <1>3, <1>4, LinesAppend
<1>6. /\ done' \in [Req -> {0, 1}] /\ (h \in Req => done'[h] = 1)
      /\ \A r \in Req : r # h => done'[r] = done[r]
  BY <1>2, <1>4
<1>7. Types'
  BY <1>2, <1>3, <1>5, <1>6 DEF Types
<1>8. ReadyInv'
  BY <1>2 DEF ReadyInv
<1>9. WireInv' /\ AuthInv'
  BY <1>2, <1>3, <1>5, <1>6, Codes DEF WireInv, AuthInv
<1>13. DeskInv'
  <2> SUFFICES ASSUME who = "desktop"
               PROVE  /\ Len(up') <= 1 /\ OneWord(down') /\ up' = <<>>
                      /\ client.pc \notin {"idle", "send"}
                      /\ client.pc = "wait" => Auth \notin Lines(up') \cup Lines(down')
    BY <1>2 DEF DeskInv
  <2>1. Len(up) <= 1 /\ NoWord(down) /\ client.pc \notin {"idle", "send"}
        /\ (client.pc = "wait" => Auth \notin Lines(up) \cup Lines(down))
    BY <1>2 DEF DeskInv
  <2>2. Len(up') = Len(up) - 1 /\ Len(up) \in Nat /\ Len(up') \in Nat
    BY <1>2, <1>3
  <2>3. Len(up') = 0 /\ up' = <<>>
    BY <2>1, <2>2, <1>3
  <2>4. OneWord(down')
    BY <2>1, <1>2, <1>3, WordsAppend
  <2> QED
    BY <2>1, <2>3, <2>4, <1>3, <1>5
<1>10. UnsentInv'
  BY <1>2, <1>3, <1>6 DEF UnsentInv, Unsent
<1>11. MatchInv'
  <2>1. Lines(up') \cup Lines(down') \subseteq Lines(up) \cup Lines(down)
    BY <1>3, <1>5
  <2> QED
    BY <2>1, <1>2 DEF MatchInv, Failure
<1>12. AnsweredInv' /\ AnswersMatch'
  BY <1>2, <1>4, <1>6 DEF AnsweredInv, AnswersMatch
<1> QED
  BY <1>7, <1>8, <1>9, <1>10, <1>11, <1>12, <1>13

(* A caller of the desktop queues its request, or finds the task ended.    *)
LEMMA CallKeeps == ASSUME ClientsInv, NEW r \in Req, Call(r) PROVE ClientsInv'
<1> USE DEF ClientsInv
<1>1. /\ client \in ClientType /\ ans \in [Req -> Answer] /\ who = "desktop" /\ client.pc \in Desktop
      /\ r \notin client.called /\ UNCHANGED <<who, up, down, done>>
  BY DEF Types, Call
<1>2. /\ client.queue \in Seq(Req) /\ client.called \subseteq Req /\ r \notin Lines(client.queue)
      /\ Once(client.queue)
  BY <1>1 DEF ClientType, ReadyInv
<1>3. PICK q : q = IF client.pc = "stopped" THEN client.queue ELSE Append(client.queue, r)
  OBVIOUS
<1>4. /\ q \in Seq(Req) /\ Once(q) /\ Lines(client.queue) \subseteq Lines(q)
      /\ Lines(q) \subseteq Lines(client.queue) \cup {r}
  BY <1>2, <1>3, LinesAppend
<1>5. PICK p \in Desktop : p = IF client.pc = "off" THEN "dial" ELSE client.pc
  BY <1>1 DEF Desktop
<1>6. client' = [client EXCEPT !.called = client.called \cup {r}, !.queue = q, !.pc = p]
  BY <1>3, <1>5 DEF Call
<1>7. /\ client' \in ClientType /\ client'.called = client.called \cup {r} /\ client'.queue = q
      /\ client'.pc = p /\ client'.cur = client.cur
  BY <1>1, <1>2, <1>4, <1>5, <1>6 DEF ClientType
<1>8. /\ ans' \in [Req -> Answer] /\ \A x \in Req : x # r => ans'[x] = ans[x]
      /\ ans[r] = Waiting /\ ans'[r] \in {Waiting, Failed}
  BY <1>1 DEF Call, ReadyInv, Answer
<1>9. Types'
  BY <1>1, <1>5, <1>7, <1>8 DEF Types
<1>10. ReadyInv'
  BY <1>1, <1>4, <1>5, <1>7, <1>8 DEF ReadyInv
<1>11. WireInv' /\ AuthInv' /\ DeskInv'
  BY <1>1, <1>5, <1>7 DEF WireInv, AuthInv, DeskInv
<1>12. UnsentInv'
  BY <1>1, <1>4, <1>5, <1>7 DEF UnsentInv, Unsent
<1>13. MatchInv'
  <2>1. r \notin Lines(up) \cup Lines(down)
    BY <1>1 DEF UnsentInv, Unsent, WireInv
  <2> QED
    BY <2>1, <1>1, <1>5, <1>7 DEF MatchInv
<1>14. AnsweredInv' /\ AnswersMatch'
  BY <1>1, <1>8, Codes DEF AnsweredInv, AnswersMatch
<1> QED
  BY <1>9, <1>10, <1>11, <1>12, <1>13, <1>14

(* The desktop's task takes the next request of its queue.                 *)
LEMMA TakeKeeps == ClientsInv /\ Take => ClientsInv'
<1> SUFFICES ASSUME ClientsInv, Take PROVE ClientsInv'
  OBVIOUS
<1> USE DEF ClientsInv
<1>1. /\ client \in ClientType /\ who = "desktop" /\ client.pc = "idle" /\ client.queue # <<>>
      /\ UNCHANGED <<who, ans, up, down, done>>
  BY DEF Types, Take
<1>2. PICK h, q : h = Head(client.queue) /\ q = Tail(client.queue)
  OBVIOUS
<1>3. client.queue \in Seq(Req) /\ Once(client.queue) /\ Lines(client.queue) \subseteq client.called
  BY <1>1 DEF ClientType, ReadyInv
<1>4. /\ h \in Req /\ h \in Lines(client.queue) /\ q \in Seq(Req) /\ Once(q)
      /\ Lines(q) \subseteq Lines(client.queue) /\ h \notin Lines(q)
  BY <1>1, <1>2, <1>3, LinesTail, Codes
<1>5. client' = [client EXCEPT !.pc = "send", !.cur = h, !.queue = q]
  BY <1>2 DEF Take
<1>6. /\ client' \in ClientType /\ client'.called = client.called /\ client'.queue = q
      /\ client'.pc = "send" /\ client'.cur = h
  BY <1>1, <1>4, <1>5 DEF ClientType, Desktop
<1>7. Types'
  BY <1>1, <1>6 DEF Types, Desktop
<1>8. ReadyInv'
  BY <1>1, <1>3, <1>4, <1>6 DEF ReadyInv
<1>9. WireInv' /\ AuthInv' /\ DeskInv'
  BY <1>1, <1>6 DEF WireInv, AuthInv, DeskInv
<1>10. UnsentInv'
  BY <1>1, <1>4, <1>6 DEF UnsentInv, Unsent
<1>11. MatchInv'
  BY <1>1 DEF MatchInv
<1>12. AnsweredInv' /\ AnswersMatch'
  BY <1>1 DEF AnsweredInv, AnswersMatch
<1> QED
  BY <1>7, <1>8, <1>9, <1>10, <1>11, <1>12

(* A request is written, or lost because the connection is.                *)
LEMMA SendKeeps == ClientsInv /\ (DesktopSend \/ CliSend) => ClientsInv'
<1> SUFFICES ASSUME ClientsInv, DesktopSend \/ CliSend PROVE ClientsInv'
  OBVIOUS
<1> USE DEF ClientsInv
<1>1. /\ client \in ClientType /\ up \in Seq(Line) /\ Once(up) /\ UNCHANGED <<who, ans, down, done>>
      /\ up' \in {up, Append(up, client.cur)}
      /\ client.pc \in (IF who = "desktop" THEN Desktop ELSE Cli)
      /\ client.pc = (IF who = "desktop" THEN "send" ELSE "idle")
  BY DEF Types, WireInv, DesktopSend, CliSend, Command
<1>2. PICK c : c = client.called \cup {client.cur}
  OBVIOUS
<1>3. client.cur \in Req /\ client.called \subseteq Req
  BY <1>1 DEF ClientType
<1>4. who = "desktop" => client.cur \in client.called
  BY <1>1 DEF ReadyInv
<1>5. /\ client' \in ClientType /\ client'.called = c /\ client'.queue = client.queue
      /\ client'.pc = "wait" /\ client'.cur = client.cur
  <2>1. CASE who = "desktop"
    <3>1. client' = [client EXCEPT !.pc = "wait"] /\ c = client.called
      BY <2>1, <1>2, <1>3, <1>4 DEF DesktopSend, CliSend, Command
    <3> QED
      BY <3>1, <1>1 DEF ClientType, Desktop
  <2>2. CASE who # "desktop"
    <3>1. client' = [client EXCEPT !.pc = "wait", !.called = c]
      BY <2>2, <1>2 DEF DesktopSend, CliSend, Command
    <3> QED
      BY <3>1, <1>1, <1>2, <1>3 DEF ClientType, Desktop
  <2> QED
    BY <2>1, <2>2
<1>6. client.cur \notin Lines(client.queue)
  BY <1>1, LinesEmpty DEF ReadyInv
<1>7. done[client.cur] = 0 /\ client.cur \notin Lines(up)
  BY <1>1, <1>3 DEF ReadyInv, UnsentInv, Unsent
<1>8. /\ up' \in Seq(Line) /\ Once(up') /\ Lines(up') \subseteq Lines(up) \cup {client.cur}
  <2>1. client.cur \in Line
    BY <1>3, Codes
  <2>2. CASE up' = up
    BY <2>2, <1>1
  <2>3. CASE up' = Append(up, client.cur)
    BY <2>1, <2>3, <1>1, <1>7, LinesAppend
  <2> QED
    BY <2>2, <2>3, <1>1
<1>9. Types'
  BY <1>1, <1>5, <1>8 DEF Types, Desktop, Cli
<1>10. ReadyInv'
  <2>0. client.cur \in Nat
    BY <1>3, Codes
  <2>1. client.cur <= client.cur
    BY <2>0
  <2>2. who # "desktop" => client.queue = <<>> /\ \A r \in c : r <= client.cur
    BY <1>2, <2>1 DEF ReadyInv
  <2>3. /\ client.called \subseteq c /\ client.cur \in c
        /\ Once(client.queue) /\ Lines(client.queue) \subseteq client.called
        /\ \A r \in Req : r \notin client.called => ans[r] = Waiting
    BY <1>2 DEF ReadyInv
  <2> QED
    BY <2>2, <2>3, <1>1, <1>5, <1>6 DEF ReadyInv
<1>11. WireInv' /\ AuthInv'
  BY <1>1, <1>3, <1>5, <1>7, <1>8, Codes DEF WireInv, AuthInv
<1>15. DeskInv'
  <2> SUFFICES ASSUME who = "desktop"
               PROVE  Len(up') <= 1 /\ NoWord(down) /\ Auth \notin Lines(up') \cup Lines(down)
    BY <1>1, <1>5 DEF DeskInv, NoWord, OneWord
  <2>1. up = <<>> /\ NoWord(down)
    BY <1>1 DEF DeskInv
  <2>2. up' = <<>> \/ up' = <<client.cur>>
    BY <1>1, <2>1
  <2>3. Len(up') <= 1
    <3>1. CASE up' = <<>>
      BY <3>1
    <3>2. CASE up' = <<client.cur>>
      <4>1. Len(up') = 1
        BY <3>2
      <4> QED
        BY <4>1
    <3> QED
      BY <2>2, <3>1, <3>2
  <2>4. Auth \notin Lines(down)
    BY <2>1, Codes DEF Lines, NoWord, Word
  <2>5. Auth \notin Lines(up')
    BY <1>3, <1>8, <2>1, LinesEmpty, Codes
  <2> QED
    BY <2>1, <2>3, <2>4, <2>5
<1>12. UnsentInv'
  BY <1>1, <1>2, <1>3, <1>5, <1>6, <1>8 DEF UnsentInv, Unsent
<1>13. MatchInv'
  BY <1>1, <1>3, <1>5, <1>8 DEF MatchInv, Failure
<1>14. AnsweredInv' /\ AnswersMatch'
  BY <1>1 DEF AnsweredInv, AnswersMatch
<1> QED
  BY <1>9, <1>10, <1>11, <1>12, <1>13, <1>14, <1>15

(* A request is answered, or its caller told of an error.                  *)
LEMMA AnswerKeeps ==
  ASSUME ClientsInv, client.pc = "wait", NEW a \in Answer,
         ans' = [ans EXCEPT ![client.cur] = a],
         UNCHANGED <<who, up, done>>, down' \in Seq(Line), Once(down'),
         \A x \in Single : x \in Lines(down') => x \in Lines(down),
         a \in Req => a \in Lines(down), a # Waiting,
         client' \in ClientType, client'.pc \in IF who = "desktop" THEN Desktop ELSE Cli,
         client'.pc \in {"idle", "dial", "stopped", "terminal"},
         client'.queue = client.queue, client'.called = client.called,
         who # "desktop" => /\ client'.cur >= client.cur
                            /\ client'.pc # "dial"
                            /\ client'.pc = "idle" => client'.cur > client.cur,
         MatchInv', DeskInv'
  PROVE  ClientsInv'
<1> USE DEF ClientsInv
<1>1. /\ client.cur \in Req /\ client'.cur \in Req /\ client.called \subseteq Req
      /\ ans \in [Req -> Answer] /\ client.cur \in client.called
  BY DEF Types, ClientType, ReadyInv
<1>2. /\ ans' \in [Req -> Answer] /\ ans'[client.cur] = a
      /\ \A r \in Req : r # client.cur => ans'[r] = ans[r]
  BY <1>1
<1>3. Types'
  BY <1>2 DEF Types
<1>4. ReadyInv'
  <2>1. Req \subseteq Nat
    BY Codes
  <2>2. client.cur \in Nat /\ client'.cur \in Nat
    BY <1>1, <2>1
  <2>3. ASSUME NEW r \in Req, r \notin client.called  PROVE  ans'[r] = Waiting
    BY <2>3, <1>1, <1>2 DEF ReadyInv
  <2>4. ASSUME who # "desktop", NEW r \in client.called  PROVE  r <= client'.cur
    <3>1. r <= client.cur
      BY <2>4 DEF ReadyInv
    <3>2. client'.cur >= client.cur /\ r \in Nat
      BY <2>1, <2>4, <1>1
    <3> QED
      BY <2>2, <3>1, <3>2
  <2>5. ASSUME who # "desktop", client'.pc \in {"dial", "auth", "idle"}
        PROVE  client'.cur \notin client.called
    <3>1. client'.cur > client.cur
      BY <2>5
    <3>2. \A r \in client.called : r \in Nat /\ r <= client.cur
      BY <2>1, <2>5, <1>1 DEF ReadyInv
    <3> QED
      BY <2>2, <3>1, <3>2
  <2>6. /\ Once(client'.queue) /\ Lines(client'.queue) \subseteq client'.called
        /\ who' # "desktop" => client'.queue = <<>>
        /\ client'.pc \notin {"send", "wait"}
    BY DEF ReadyInv
  <2> QED
    BY <2>3, <2>4, <2>5, <2>6 DEF ReadyInv
<1>5. WireInv' /\ AuthInv'
  BY Codes DEF WireInv, AuthInv
<1>6. UnsentInv'
  BY DEF UnsentInv, Unsent
<1>7. AnsweredInv'
  BY <1>1, <1>2 DEF AnsweredInv, WireInv
<1>8. AnswersMatch'
  <2>1. ASSUME NEW r \in Req, ans'[r] \in Req
        PROVE  ans'[r] = r \/ (who = "kill" /\ \E q \in Req : q < r /\ ans'[q] = Failed)
    <3>1. CASE r = client.cur
      <4>1. a \in Lines(down) /\ a \in Req
        BY <2>1, <3>1, <1>2
      <4>2. a = client.cur \/ (who = "kill" /\ Failure)
        BY <4>1 DEF MatchInv
      <4>3. \A q \in Req : q < client.cur => q # client.cur
        BY <1>1, Codes
      <4> QED
        BY <3>1, <4>2, <4>3, <1>1, <1>2 DEF Failure
    <3>2. CASE r # client.cur
      <4>1. ans'[r] = ans[r] /\ ans[r] # Waiting
        BY <2>1, <3>2, <1>2, Codes
      <4>2. ans[r] = r \/ (who = "kill" /\ \E q \in Req : q < r /\ ans[q] = Failed)
        BY <2>1, <4>1 DEF AnswersMatch
      <4>3. who = "kill" => r < client.cur
        <5>1. r \in Nat /\ client.cur \in Nat
          BY <1>1, Codes
        <5>2. who = "kill" => r <= client.cur
          BY <4>1 DEF ReadyInv
        <5> QED
          BY <3>2, <5>1, <5>2
      <4>4. ASSUME NEW q \in Req, q < r, who = "kill" PROVE q # client.cur
        BY <4>3, <4>4, <1>1, Codes
      <4> QED
        BY <4>1, <4>2, <4>4, <1>2
    <3> QED
      BY <3>1, <3>2
  <2> QED
    BY <2>1 DEF AnswersMatch
<1> QED
  BY <1>3, <1>4, <1>5, <1>6, <1>7, <1>8

(* The desktop's task reads a line: an event, or the answer.               *)
LEMMA DesktopReadKeeps == ClientsInv /\ DesktopRead => ClientsInv'
<1> SUFFICES ASSUME ClientsInv, DesktopRead PROVE ClientsInv'
  OBVIOUS
<1> USE DEF ClientsInv
<1>1. /\ client \in ClientType /\ who = "desktop" /\ client.pc = "wait" /\ client.cur \in Req
      /\ down \in Seq(Line) /\ Once(down) /\ down # <<>> /\ down' = Tail(down)
      /\ UNCHANGED <<who, up, done>>
      /\ up \in Seq(Line) /\ Once(up)
  BY DEF Types, ClientType, WireInv, DesktopRead
<1>2. PICK h : h = Head(down)
  OBVIOUS
<1>3. /\ h \in Line /\ h \in Lines(down) /\ down' \in Seq(Line) /\ Once(down')
      /\ Lines(down') \subseteq Lines(down) /\ (h \in Single => h \notin Lines(down'))
  BY <1>1, <1>2, LinesTail
<1>4. CASE h \in {Event, Closed}
  <2>1. client' = client /\ ans' = ans
    BY <1>2, <1>4 DEF DesktopRead
  <2>2. AuthInv' /\ DeskInv'
    <3>1. (OneWord(down) => OneWord(down')) /\ (NoWord(down) => NoWord(down'))
      BY <1>1, WordsTail
    <3> QED
      BY <2>1, <1>1, <1>3, <3>1 DEF AuthInv, DeskInv
  <2>3. client.pc \in IF who = "desktop" THEN Desktop ELSE Cli
    BY DEF Types
  <2> QED
    BY <2>1, <2>2, <2>3, <1>1, <1>3, MovesKeep
<1>5. CASE h \notin {Event, Closed}
  <2>1. PICK a : /\ client' = [client EXCEPT !.pc = "idle"] /\ ans' = [ans EXCEPT ![client.cur] = a]
                 /\ a = IF h \in Req THEN h ELSE Failed
    BY <1>2, <1>5 DEF DesktopRead
  <2>2. /\ client' \in ClientType /\ client'.pc = "idle" /\ client'.queue = client.queue
        /\ client'.called = client.called
    BY <2>1, <1>1 DEF ClientType, Desktop
  <2>3. a \in Answer /\ a # Waiting /\ (a \in Req => a \in Lines(down))
    BY <2>1, <1>3, Codes DEF Answer
  <2>4. OneWord(down) /\ (up # <<>> => NoWord(down))
    BY <1>1 DEF DeskInv
  <2>5. NoWord(down') /\ up = <<>>
    BY <2>4, <1>1, <1>2, <1>5, WordsTail
  <2>6. MatchInv'
    <3>1. ASSUME NEW r \in Req PROVE r \notin Lines(up) \cup Lines(down')
      BY <2>5, LinesEmpty, Codes DEF Lines, NoWord, Word
    <3> QED
      BY <3>1, <1>1 DEF MatchInv
  <2>7. client'.pc \in IF who = "desktop" THEN Desktop ELSE Cli
    BY <2>2, <1>1 DEF Desktop
  <2>8. DeskInv'
    <3>1. OneWord(down') /\ Len(up') <= 1
      BY <2>5, <1>1 DEF OneWord, NoWord
    <3> QED
      BY <2>2, <2>5, <3>1, <1>1 DEF DeskInv
  <2> QED
    BY <2>1, <2>2, <2>3, <2>6, <2>7, <2>8, <1>1, <1>3, AnswerKeeps
<1> QED
  BY <1>4, <1>5

(* The connection is lost while the desktop waits.                         *)
LEMMA DesktopLostKeeps == ClientsInv /\ DesktopLost => ClientsInv'
<1> SUFFICES ASSUME ClientsInv, DesktopLost PROVE ClientsInv'
  OBVIOUS
<1> USE DEF ClientsInv
<1>1. /\ client \in ClientType /\ who = "desktop" /\ client.pc = "wait"
      /\ client' = [client EXCEPT !.pc = "dial"]
      /\ ans' = [ans EXCEPT ![client.cur] = Failed]
      /\ UNCHANGED <<who, up, down, done>> /\ down \in Seq(Line) /\ Once(down)
  BY DEF Types, WireInv, DesktopLost
<1>2. /\ client' \in ClientType /\ client'.pc = "dial" /\ client'.queue = client.queue
      /\ client'.called = client.called
  BY <1>1 DEF ClientType, Desktop
<1>3. Failed \in Answer /\ Failed \notin Req /\ Failed # Waiting
  BY Codes DEF Answer
<1>4. MatchInv' /\ client'.pc \in IF who = "desktop" THEN Desktop ELSE Cli
  BY <1>1, <1>2 DEF MatchInv, Desktop
<1>5. DeskInv'
  BY <1>1, <1>2 DEF DeskInv
<1> QED
  BY <1>1, <1>2, <1>3, <1>4, <1>5, AnswerKeeps

(* The desktop's task ends: every caller whose request it holds is told.   *)
LEMMA CancelKeeps == ClientsInv /\ Cancel => ClientsInv'
<1> SUFFICES ASSUME ClientsInv, Cancel PROVE ClientsInv'
  OBVIOUS
<1> USE DEF ClientsInv
<1>1. /\ client \in ClientType /\ who = "desktop" /\ ans \in [Req -> Answer]
      /\ client' = [client EXCEPT !.pc = "stopped", !.queue = <<>>]
      /\ ans' = [r \in Req |-> IF r \in ToSet(client.queue) THEN Failed ELSE ans[r]]
      /\ up' = <<>> /\ down' = <<>> /\ UNCHANGED <<who, done>>
      /\ <<>> \in Seq(Line) /\ <<>> \in Seq(Req)
  BY DEF Types, Cancel
<1>2. /\ client' \in ClientType /\ client'.pc = "stopped" /\ client'.queue = <<>>
      /\ client'.called = client.called /\ client'.cur = client.cur
  BY <1>1 DEF ClientType, Desktop
<1>3. ToSet(client.queue) = Lines(client.queue) /\ client.queue \in Seq(Req)
  BY <1>1 DEF ToSet, Lines, ClientType
<1>4. /\ ans' \in [Req -> Answer]
      /\ \A r \in Req : ans'[r] = ans[r] \/ (ans'[r] = Failed /\ r \in client.called)
      /\ \A r \in Req : ans'[r] \in Req => ans'[r] = ans[r]
      /\ \A r \in Req : ans[r] = Failed => ans'[r] = Failed
  BY <1>1, <1>3, Codes DEF ReadyInv, Answer
<1>5. Types'
  BY <1>1, <1>2, <1>4 DEF Types, Desktop
<1>6. ReadyInv'
  BY <1>1, <1>2, <1>4, LinesEmpty DEF ReadyInv
<1>7. WireInv' /\ AuthInv' /\ DeskInv'
  BY <1>1, <1>2, LinesEmpty, NoWords DEF WireInv, AuthInv, DeskInv
<1>8. UnsentInv'
  BY <1>1, <1>2, LinesEmpty DEF UnsentInv, Unsent
<1>9. MatchInv'
  BY <1>2 DEF MatchInv
<1>10. AnsweredInv' /\ AnswersMatch'
  BY <1>1, <1>4, Codes DEF AnsweredInv, AnswersMatch
<1> QED
  BY <1>5, <1>6, <1>7, <1>8, <1>9, <1>10

(* The CLI goes on after an answer or an error.                            *)
LEMMA CliAnswerKeeps ==
  ASSUME ClientsInv, who # "desktop", client.pc = "wait", NEW a \in Answer, a # Waiting,
         ans' = [ans EXCEPT ![client.cur] = a], NEW ok \in BOOLEAN, AfterAnswer(ok),
         ok => a \in Req, ~ok => a = Failed,
         UNCHANGED <<who, up, done>>, down' \in Seq(Line), Once(down'),
         \A x \in Single : x \in Lines(down') => x \in Lines(down),
         a \in Req => a \in Lines(down) /\ a \notin Lines(down')
  PROVE  ClientsInv'
<1> USE DEF ClientsInv
<1>1. /\ client \in ClientType /\ client.cur \in Req /\ ans \in [Req -> Answer]
      /\ who \in {"kill", "connect", "attach"}
  BY DEF Types, ClientType
<1>2. client.cur \in Nat /\ client.cur >= client.cur
  <2>1. client.cur \in Nat
    BY <1>1, Codes
  <2> QED
    BY <2>1
<1>3. ASSUME NEW p \in {"idle", "stopped", "terminal"}, NEW k \in Req,
             client' = [client EXCEPT !.pc = p, !.cur = k]
      PROVE  /\ client' \in ClientType /\ client'.pc = p /\ client'.cur = k
             /\ client'.queue = client.queue /\ client'.called = client.called
             /\ client'.pc \in IF who = "desktop" THEN Desktop ELSE Cli
  BY <1>1, <1>3 DEF ClientType, Desktop, Cli
<1>4. /\ ans'[client.cur] = a /\ \A r \in Req : r # client.cur => ans'[r] = ans[r]
  BY <1>1
<1>5. ASSUME NEW p \in {"stopped", "terminal"}, client' = [client EXCEPT !.pc = p]
      PROVE  ClientsInv'
  <2>1. client' = [client EXCEPT !.pc = p, !.cur = client.cur]
    BY <1>1, <1>5 DEF ClientType
  <2>2. /\ client' \in ClientType /\ client'.pc = p /\ client'.cur = client.cur
        /\ client'.queue = client.queue /\ client'.called = client.called
        /\ client'.pc \in IF who = "desktop" THEN Desktop ELSE Cli
    BY <2>1, <1>1, <1>3
  <2>3. MatchInv'
    BY <2>2 DEF MatchInv
  <2>4. DeskInv'
    BY DEF DeskInv
  <2> QED
    BY <2>2, <2>3, <2>4, <1>2, AnswerKeeps
<1>6. ASSUME NEW k \in Req, k > client.cur, client' = [client EXCEPT !.pc = "idle", !.cur = k],
             who = "kill" \/ a \in Req
      PROVE  ClientsInv'
  <2>1. /\ client' \in ClientType /\ client'.pc = "idle" /\ client'.cur = k
        /\ client'.queue = client.queue /\ client'.called = client.called
        /\ client'.pc \in IF who = "desktop" THEN Desktop ELSE Cli
    BY <1>3, <1>6
  <2>2. k \in Nat /\ k >= client.cur /\ \A q \in Req : q < client.cur => q < k /\ q # client.cur
    <3>1. k \in Nat /\ Req \subseteq Nat
      BY Codes
    <3> QED
      BY <3>1, <1>2, <1>6
  <2>3. Failure /\ who = "kill" => Failure'
    BY <2>1, <2>2, <1>4 DEF Failure
  <2>4. MatchInv'
    <3>1. ASSUME NEW r \in Req, r \in Lines(up) \cup Lines(down')
          PROVE  who = "kill" /\ Failure'
      <4>1. r = client.cur \/ (who = "kill" /\ Failure)
        BY <3>1, Codes DEF MatchInv
      <4>2. CASE a = Failed
        <5>1. a \notin Req
          BY <4>2, Codes
        <5> QED
          BY <4>2, <5>1, <2>1, <1>1, <1>4, <1>6 DEF Failure
      <4>3. CASE a \in Req
        <5>1. a \notin Lines(up) /\ a \notin Lines(down')
          BY <4>3 DEF WireInv
        <5>2. a = client.cur \/ (who = "kill" /\ Failure)
          BY <4>3 DEF MatchInv
        <5> QED
          BY <3>1, <4>1, <5>1, <5>2, <2>3
      <4> QED
        BY <4>2, <4>3
    <3> QED
      BY <3>1, <2>1 DEF MatchInv
  <2>5. DeskInv'
    BY DEF DeskInv
  <2> QED
    BY <2>1, <2>2, <2>4, <2>5, <1>6, AnswerKeeps
<1>7. CASE who = "kill"
  <2>1. CASE client.cur = MaxReq
    BY <2>1, <1>5, <1>7 DEF AfterAnswer, kill_command
  <2>2. CASE client.cur # MaxReq
    <3>1. client.cur + 1 \in Req /\ client.cur + 1 > client.cur
      BY <2>2, <1>1, <1>2, Codes DEF Req
    <3>2. client' = [client EXCEPT !.pc = "idle", !.cur = client.cur + 1]
      BY <2>2, <1>7 DEF AfterAnswer, kill_command
    <3> QED
      BY <3>1, <3>2, <1>6, <1>7
  <2> QED
    BY <2>1, <2>2
<1>8. CASE who # "kill"
  <2>1. connect_command(ok)
    BY <1>8 DEF AfterAnswer
  <2>2. CASE ~ok
    BY <2>1, <2>2, <1>5 DEF connect_command
  <2>3. CASE ok /\ who = "connect" /\ client.cur = 1
    <3>1. client' = [client EXCEPT !.pc = "idle", !.cur = 2] /\ a \in Req
      BY <2>1, <2>3 DEF connect_command
    <3>2. 2 \in Req /\ 2 > client.cur
      BY <2>3, Codes
    <3> QED
      BY <3>1, <3>2, <1>6
  <2>4. CASE ok /\ ~(who = "connect" /\ client.cur = 1)
    BY <2>1, <2>4, <1>5 DEF connect_command
  <2> QED
    BY <2>2, <2>3, <2>4
<1> QED
  BY <1>7, <1>8

(* The CLI reads the first line that came, or finds the connection lost.   *)
LEMMA CliReadKeeps == ClientsInv /\ (CliRead \/ CliLost) => ClientsInv'
<1> SUFFICES ASSUME ClientsInv, CliRead \/ CliLost PROVE ClientsInv'
  OBVIOUS
<1> USE DEF ClientsInv
<1>1. /\ who # "desktop" /\ client.pc = "wait" /\ UNCHANGED <<who, up, done>>
      /\ down \in Seq(Line) /\ Once(down)
  BY DEF Types, WireInv, CliRead, CliLost, Command
<1>2. Failed \in Answer /\ Failed \notin Req /\ Failed # Waiting /\ Waiting \notin Req
      /\ Req \subseteq Answer /\ Req \subseteq Single
  BY Codes DEF Answer
<1>3. CASE CliRead
  <2>1. PICK n \in 1..Len(down) : down' \in Tears(Rest(down, n))
    BY <1>3 DEF CliRead, ReadLine, Rest
  <2>2. PICK h : h = Head(down)
    OBVIOUS
  <2>3. /\ h \in Lines(down) /\ down' \in Seq(Line) /\ Once(down')
        /\ (\A x \in Single : x \in Lines(down') => x \in Lines(down)) /\ (h \in Single => h \notin Lines(down'))
    BY <2>1, <2>2, <1>1, LinesRest, LinesTear
  <2>4. CASE h \in Req
    <3>1. ans' = [ans EXCEPT ![client.cur] = h] /\ AfterAnswer(TRUE)
      BY <2>2, <2>4, <1>3 DEF CliRead
    <3>2. h \in Answer /\ h # Waiting /\ h \notin Lines(down')
      BY <2>3, <2>4, <1>2
    <3> QED
      BY <2>3, <2>4, <3>1, <3>2, <1>1, CliAnswerKeeps
  <2>5. CASE h \notin Req
    <3>1. ans' = [ans EXCEPT ![client.cur] = Failed]
      BY <2>2, <2>5, <1>3 DEF CliRead
    <3>2. AfterAnswer(h \in Req)
      BY <2>2, <1>3 DEF CliRead
    <3>3. AfterAnswer(FALSE)
      BY <3>2, <2>5 DEF AfterAnswer, connect_command
    <3> QED
      BY <2>3, <3>1, <3>3, <1>1, <1>2, CliAnswerKeeps
  <2> QED
    BY <2>4, <2>5
<1>4. CASE CliLost
  <2>1. ans' = [ans EXCEPT ![client.cur] = Failed] /\ AfterAnswer(FALSE) /\ down' = down
    BY <1>4 DEF CliLost
  <2> QED
    BY <2>1, <1>1, <1>2, CliAnswerKeeps
<1> QED
  BY <1>3, <1>4

-----------------------------------------------------------------------------
(* The theorems                                                            *)

(* Along every execution of the desktop's PersistentIpcClient and of the   *)
(* CLI's OrchestratorClient, what is queued, on the wire, carried out and  *)
(* answered fits together.                                                 *)
THEOREM ClientsInvariance == Spec => []ClientsInv
<1>1. ASSUME ClientsInv, [Next]_vars PROVE ClientsInv'
  <2>1. CASE ServerStep
    BY <1>1, <2>1, ServeKeeps, MovesAre DEF ServerStep
  <2>2. CASE Dial \/ Key \/ Detach \/ UNCHANGED vars
    BY <1>1, <2>2, MovesAre
  <2>3. CASE DesktopStep
    BY <1>1, <2>3, MovesAre, TakeKeeps, SendKeeps, DesktopReadKeeps, DesktopLostKeeps
    DEF DesktopStep
  <2>4. CASE CliStep
    BY <1>1, <2>4, MovesAre, SendKeeps, CliReadKeeps DEF CliStep
  <2>5. CASE Cancel \/ \E r \in Req : Call(r)
    BY <1>1, <2>5, CancelKeeps, CallKeeps
  <2> QED
    BY <1>1, <2>1, <2>2, <2>3, <2>4, <2>5 DEF Next
<1> QED
  BY <1>1, InitClients, PTL DEF Spec

(* Every caller is told the answer to its own request, for any number of   *)
(* callers, events and broken connections (persistent_ipc.rs:              *)
(* process_request skips event envelopes), except after a failed read of   *)
(* k-terminus kill (client.rs: send_request_raw).                          *)
THEOREM AnswersCorrect == Spec => []AnswersMatch
<1>1. ClientsInv => AnswersMatch
  BY DEF ClientsInv
<1> QED
  BY <1>1, ClientsInvariance, PTL

(* No request is carried out twice, although connections break between a   *)
(* request and its answer and the desktop reconnects, and every request    *)
(* that was answered with its own answer was carried out.                  *)
THEOREM CarriedOutOnce == Spec => []AtMostOnce
<1>1. ClientsInv => AtMostOnce
  <2>1. ASSUME ClientsInv, NEW r \in Req PROVE done[r] <= 1
    <3>1. done[r] = 0 \/ done[r] = 1
      BY <2>1 DEF ClientsInv, Types
    <3> QED
      BY <3>1
  <2> QED
    BY <2>1 DEF ClientsInv, AnsweredInv, AtMostOnce
<1> QED
  BY <1>1, ClientsInvariance, PTL
===============================================================================
