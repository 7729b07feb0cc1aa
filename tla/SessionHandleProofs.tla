------------------------- MODULE SessionHandleProofs -------------------------
(***************************************************************************)
(* What holds of the lock-free session state machine for every number of   *)
(* tasks, calls and clock values.                                          *)
(***************************************************************************)
EXTENDS SessionHandle, Integers, TLAPS

-----------------------------------------------------------------------------
(* The packed word loses nothing but the resolution of its timestamp       *)

(* The packed word decodes to the state it was packed from, whatever the   *)
(* time beside it (pack_state and unpack_state in manager.rs).             *)
LEMMA UnpackState ==
  ASSUME NEW st \in SessionState, NEW time \in Nat
  PROVE  /\ pack_state(st, time) \in Nat
         /\ unpack_state(pack_state(st, time)) = st
<1> DEFINE q == time \div Unit
<1>1. q \in Nat
  BY DEF Unit
<1>2. st \in Nat /\ 0 <= st /\ st < Unit
  BY DEF SessionState, Creating, Active, Orphaned, Closing, Unit
<1> HIDE DEF q
<1>3. (st + Unit * q) \in Nat /\ (st + Unit * q) % Unit = st
  BY <1>1, <1>2 DEF Unit
<1>4. pack_state(st, time) = st + Unit * q
  BY DEF pack_state, q
<1> QED
  BY <1>3, <1>4 DEF unpack_state

(* The word of an orphaning decodes to its time in whole units.            *)
LEMMA UnpackTime ==
  ASSUME NEW time \in Nat
  PROVE  unpack_orphaned_at(pack_state(Orphaned, time)) = Unit * (time \div Unit)
<1> DEFINE q == time \div Unit
<1>1. q \in Nat
  BY DEF Unit
<1> HIDE DEF q
<1>2. (Orphaned + Unit * q) \div Unit = q
  BY <1>1 DEF Unit, Orphaned
<1>3. pack_state(Orphaned, time) = Orphaned + Unit * q
  BY DEF pack_state, q
<1>4. unpack_state(pack_state(Orphaned, time)) = Orphaned
  BY UnpackState DEF SessionState
<1> QED
  BY <1>2, <1>3, <1>4 DEF unpack_orphaned_at, q

-----------------------------------------------------------------------------
(* The inductive invariant                                                 *)

(* A running call runs an operation and has seen the present state.        *)
Started ==
  \A t \in Task :
    call[t].pc # "idle" => call[t].op \in Ops /\ state \in call[t].seen

(* What a call has loaded admits its operation.                            *)
Loaded ==
  \A t \in Task :
    call[t].pc = "cas" => unpack_state(call[t].current) \in From(call[t].op)

(* A compare-exchange that is going to fail has seen the reason.           *)
Justified ==
  \A t \in Task :
    call[t].pc = "cas" /\ call[t].op # "try_close" /\ word # call[t].current
      => call[t].seen \ From(call[t].op) # {}

(* What the orphanings and reclaims since a call began, and the closing,   *)
(* allow in failures.                                                      *)
Paid(t) == (orphans + reclaims - tries[t].from) + (IF state = Closing THEN 1 ELSE 0)

(* A compare-exchange that is going to fail is paid for.                   *)
Owed ==
  \A t \in Task :
    call[t].pc = "cas" /\ word # call[t].current => tries[t].failed + 1 <= Paid(t)

RetryInv == Owed /\ \A t \in Task : tries[t].failed <= Paid(t)

IInv ==
  /\ TypeOK
  /\ Started
  /\ Loaded
  /\ Justified
  /\ WinsAlternate
  /\ TimestampOfWinner
  /\ FailureJustified
  /\ ClosedStaysClosed

(* The states are four different numbers and From never holds Closing.     *)
LEMMA States ==
  /\ SessionState = {Creating, Active, Orphaned, Closing}
  /\ Active # Orphaned /\ Active # Closing /\ Orphaned # Closing
  /\ Creating # Active /\ Creating # Orphaned /\ Creating # Closing
  /\ From("try_orphan") = {Active}
  /\ From("try_reclaim") = {Orphaned}
  /\ From("try_close") = {Creating, Active, Orphaned}
BY DEF SessionState, Creating, Active, Orphaned, Closing, From

(* The word each operation installs.                                       *)
LEMMA Installed ==
  ASSUME NEW op \in Ops, NEW time \in Nat
  PROVE  /\ NewPacked(op, time) \in Nat
         /\ unpack_state(NewPacked(op, time)) =
              IF op = "try_orphan" THEN Orphaned
              ELSE IF op = "try_reclaim" THEN Active ELSE Closing
         /\ op = "try_orphan" =>
              unpack_orphaned_at(NewPacked(op, time)) = Unit * (time \div Unit)
<1>1. NewPacked("try_orphan", time) = pack_state(Orphaned, time)
  BY DEF NewPacked
<1>2. NewPacked("try_reclaim", time) = pack_state(Active, 0)
  BY DEF NewPacked
<1>3. NewPacked("try_close", time) = pack_state(Closing, 0)
  BY DEF NewPacked
<1> QED
  BY <1>1, <1>2, <1>3, UnpackState, UnpackTime, States DEF Ops

LEMMA InitIInv == Init => IInv
<1> SUFFICES ASSUME Init PROVE IInv
  OBVIOUS
<1>1. word \in Nat /\ state = Active
  BY UnpackState, States DEF Init, state
<1>2. TypeOK
  BY <1>1, HandleAssumption DEF TypeOK, Init, Call, NoCall, Ending
<1>3. WinsAlternate /\ TimestampOfWinner
  BY <1>1, States DEF Init, WinsAlternate, TimestampOfWinner
<1>4. Started /\ Loaded /\ Justified
  BY DEF Init, Started, Loaded, Justified, NoCall
<1>5. FailureJustified /\ ClosedStaysClosed
  BY DEF Init, FailureJustified, ClosedStaysClosed
<1> QED
  BY <1>2, <1>3, <1>4, <1>5 DEF IInv

------------------------------------------------------------------------------
(* A call begins: the word does not move.                                  *)
LEMMA StartIInv ==
  ASSUME IInv, NEW t \in Task, NEW op \in Ops, NEW time \in Time \cup {0},
         Start(t, op, time)
  PROVE  IInv'
<1> USE DEF IInv
<1>1. state' = state /\ state \in SessionState
  BY States DEF Start, state, TypeOK
<1>2. call' \in [Task -> Call]
  BY <1>1, HandleAssumption DEF Start, Call, TypeOK
<1>3. calls' \in [Task -> 0..MaxCalls]
  BY HandleAssumption DEF Start, TypeOK
<1>4. TypeOK'
  <2>1. orphans + reclaims \in Nat
    BY DEF TypeOK
  <2>2. tries' \in [Task -> [failed : Nat, from : Nat]]
    BY <2>1 DEF Start, TypeOK
  <2> QED
    BY <1>1, <1>2, <1>3, <2>2 DEF Start, TypeOK
<1>5. \A u \in Task : call'[u] = IF u = t
        THEN [op |-> op, pc |-> "load", current |-> 0, time |-> time, seen |-> {state}]
        ELSE call[u]
  BY DEF Start, TypeOK
<1>6. Started' /\ Loaded' /\ Justified'
  BY <1>1, <1>5 DEF Start, Started, Loaded, Justified
<1>7. WinsAlternate' /\ TimestampOfWinner' /\ FailureJustified' /\ ClosedStaysClosed'
  BY <1>1 DEF Start, WinsAlternate, TimestampOfWinner, FailureJustified, ClosedStaysClosed
<1> QED
  BY <1>4, <1>6, <1>7

(* A call returns without moving the word: what it reports is justified.   *)
LEMMA ReturnIInv ==
  ASSUME IInv, NEW t \in Task, NEW ok \in BOOLEAN,
         call[t].op \in Ops,
         Return(t, ok),
         ~ok => call[t].op # "try_close" /\ call[t].seen \ From(call[t].op) # {},
         call[t].op = "try_close" => state = Closing,
         UNCHANGED <<word, calls, orphans, reclaims, since>>,
         tries' \in [Task -> [failed : Nat, from : Nat]]
  PROVE  IInv'
<1> USE DEF IInv
<1>1. state' = state
  BY DEF state
<1>2. NoCall \in Call
  BY DEF NoCall, Call
<1>3. call[t] \in Call
  BY DEF TypeOK
<1>4. ended' \in [Task -> Ending]
  BY <1>3 DEF Return, TypeOK, Ending, Call
<1>5. TypeOK'
  BY <1>1, <1>2, <1>4 DEF Return, TypeOK
<1>6. \A u \in Task : call'[u] = IF u = t THEN NoCall ELSE call[u]
  BY DEF Return, TypeOK
<1>7. \A u \in Task : ended'[u] = IF u = t
        THEN [op |-> call[t].op, ok |-> ok, seen |-> call[t].seen] ELSE ended[u]
  BY DEF Return, TypeOK
<1>8. Started' /\ Loaded' /\ Justified'
  BY <1>1, <1>6 DEF Started, Loaded, Justified, NoCall
<1>9. FailureJustified'
  BY <1>7 DEF FailureJustified
<1>10. ClosedStaysClosed'
  BY <1>1, <1>7 DEF ClosedStaysClosed
<1>11. WinsAlternate' /\ TimestampOfWinner'
  BY <1>1 DEF WinsAlternate, TimestampOfWinner
<1> QED
  BY <1>5, <1>8, <1>9, <1>10, <1>11

(* A load goes on to the compare-exchange, or returns.                     *)
LEMMA LoadIInv ==
  ASSUME IInv, NEW t \in Task, Load(t)
  PROVE  IInv'
<1> USE DEF IInv
<1>1. call[t].op \in Ops /\ state \in call[t].seen /\ state \in SessionState
  BY States DEF Load, Started, TypeOK
<1>2. CASE state \in From(call[t].op)
  <2>1. state' = state /\ UNCHANGED <<word, calls, ended, orphans, reclaims, since, tries>>
    BY <1>2 DEF Load, state
  <2>2. call' = [call EXCEPT ![t].pc = "cas", ![t].current = word]
    BY <1>2 DEF Load
  <2>3. \A u \in Task : call'[u] = IF u = t
          THEN [call[t] EXCEPT !.pc = "cas", !.current = word] ELSE call[u]
    BY <2>2 DEF TypeOK
  <2>4. call[t] \in Call /\ call'[t] \in Call
    BY <2>3 DEF TypeOK, Call
  <2>5. TypeOK'
    BY <2>1, <2>2, <2>4 DEF TypeOK, Call
  <2>6. /\ call'[t].op = call[t].op /\ call'[t].seen = call[t].seen
        /\ call'[t].current = word /\ call'[t].pc = "cas"
    BY <2>3, <2>4 DEF Call
  <2>7. Started' /\ Loaded' /\ Justified'
    BY <1>1, <1>2, <2>1, <2>3, <2>6 DEF Started, Loaded, Justified, state
  <2>8. WinsAlternate' /\ TimestampOfWinner' /\ FailureJustified' /\ ClosedStaysClosed'
    BY <2>1 DEF WinsAlternate, TimestampOfWinner, FailureJustified, ClosedStaysClosed
  <2> QED
    BY <2>5, <2>7, <2>8
<1>3. CASE state \notin From(call[t].op)
  <2>1. Return(t, call[t].op = "try_close")
    BY <1>3 DEF Load
  <2>2. call[t].op = "try_close" => state = Closing
    BY <1>1, <1>3, States
  <2>3. call[t].seen \ From(call[t].op) # {}
    BY <1>1, <1>3
  <2>4. UNCHANGED <<word, calls, orphans, reclaims, since>> /\ tries' \in [Task -> [failed : Nat, from : Nat]]
    BY DEF Load, TypeOK
  <2> QED
    BY <1>1, <2>1, <2>2, <2>3, <2>4, ReturnIInv
<1> QED
  BY <1>2, <1>3

(* A failed compare-exchange loads again, or returns.                      *)
LEMMA CasFailIInv ==
  ASSUME IInv, NEW t \in Task, CasFail(t)
  PROVE  IInv'
<1> USE DEF IInv
<1>1. call[t].op \in Ops
  BY DEF CasFail, Started
<1>4. tries' \in [Task -> [failed : Nat, from : Nat]]
  BY DEF CasFail, FailedOnce, TypeOK
<1>2. CASE call[t].op = "try_close"
  <2>1. state' = state /\ UNCHANGED <<word, calls, ended, orphans, reclaims, since>>
    BY <1>2 DEF CasFail, state
  <2>2. call' = [call EXCEPT ![t].pc = "load"]
    BY <1>2 DEF CasFail
  <2>3. call[t] \in Call
    BY DEF TypeOK
  <2>4. call'[t].pc = "load" /\ call'[t].op = call[t].op /\ call'[t].seen = call[t].seen
    BY <2>2, <2>3 DEF TypeOK, Call
  <2>5. \A u \in Task \ {t} : call'[u] = call[u]
    BY <2>2 DEF TypeOK
  <2>6. TypeOK'
    BY <1>4, <2>1, <2>2, <2>3 DEF TypeOK, Call
  <2>7. Started' /\ Loaded' /\ Justified'
    BY <2>1, <2>4, <2>5 DEF CasFail, Started, Loaded, Justified
  <2>8. WinsAlternate' /\ TimestampOfWinner' /\ FailureJustified' /\ ClosedStaysClosed'
    BY <2>1 DEF WinsAlternate, TimestampOfWinner, FailureJustified, ClosedStaysClosed
  <2> QED
    BY <2>6, <2>7, <2>8
<1>3. CASE call[t].op # "try_close"
  <2>1. Return(t, FALSE) /\ UNCHANGED <<word, calls, orphans, reclaims, since>>
    BY <1>3 DEF CasFail
  <2>2. call[t].seen \ From(call[t].op) # {}
    BY <1>3 DEF CasFail, Justified
  <2> QED
    BY <1>1, <1>3, <1>4, <2>1, <2>2, ReturnIInv
<1> QED
  BY <1>2, <1>3

(* A successful compare-exchange moves along one edge of the lifecycle.    *)
LEMMA CasOkMoves ==
  ASSUME IInv, NEW t \in Task, CasOk(t)
  PROVE  /\ call[t].op \in Ops /\ call[t].time \in Nat /\ call[t] \in Call
         /\ word' \in Nat
         /\ state' = unpack_state(NewPacked(call[t].op, call[t].time))
         /\ \/ call[t].op = "try_orphan" /\ state = Active /\ state' = Orphaned
            \/ call[t].op = "try_reclaim" /\ state = Orphaned /\ state' = Active
            \/ call[t].op = "try_close" /\ state \in {Active, Orphaned} /\ state' = Closing
<1> USE DEF IInv
<1>1. call[t].op \in Ops /\ state \in From(call[t].op)
  BY DEF CasOk, Started, Loaded, state
<1>2. call[t] \in Call /\ call[t].time \in Nat
  <2>1. call[t] \in Call
    BY DEF TypeOK
  <2>2. call[t].time \in Time \cup {0}
    BY <2>1 DEF Call
  <2>3. \A x \in Time \cup {0} : x \in Nat
    BY HandleAssumption
  <2> QED
    BY <2>1, <2>2, <2>3
<1>3. /\ word' = NewPacked(call[t].op, call[t].time)
      /\ state' = unpack_state(NewPacked(call[t].op, call[t].time))
  BY DEF CasOk, state
<1>4. word' \in Nat
  BY <1>1, <1>2, <1>3, Installed
<1>5. state \in {Active, Orphaned, Closing}
  BY DEF TypeOK
<1> QED
  BY <1>1, <1>2, <1>3, <1>4, <1>5, Installed, States DEF Ops

(* A running call sees one more state.                                     *)
LEMMA MoreSeen ==
  ASSUME NEW r \in Call, NEW st \in SessionState
  PROVE  LET q == [r EXCEPT !.seen = @ \cup {st}]
         IN q \in Call /\ q.op = r.op /\ q.pc = r.pc /\ q.current = r.current
            /\ q.seen = r.seen \cup {st}
BY DEF Call

(* The invariant survives it, in every other call that is running too.     *)
LEMMA CasOkIInv ==
  ASSUME IInv, NEW t \in Task, CasOk(t)
  PROVE  IInv'
<1> USE DEF IInv
<1> DEFINE new == unpack_state(NewPacked(call[t].op, call[t].time))
           end == [op |-> call[t].op, ok |-> TRUE, seen |-> call[t].seen]
<1>1. /\ call[t].op \in Ops /\ call[t].time \in Nat /\ call[t] \in Call
      /\ word' \in Nat /\ state' = new
  BY CasOkMoves
<1>2. \/ call[t].op = "try_orphan" /\ state = Active /\ new = Orphaned
      \/ call[t].op = "try_reclaim" /\ state = Orphaned /\ new = Active
      \/ call[t].op = "try_close" /\ state \in {Active, Orphaned} /\ new = Closing
  BY <1>1, CasOkMoves
<1>3. new \in {Active, Orphaned, Closing} /\ new \in SessionState
  BY <1>2, States
<1>4. \A u \in Task : call'[u] = IF u = t THEN NoCall
        ELSE IF call[u].pc = "idle" THEN call[u]
        ELSE [call[u] EXCEPT !.seen = @ \cup {new}]
  BY DEF CasOk
<1>5. ended' = [ended EXCEPT ![t] = end]
  BY DEF CasOk
<1>6. \A u \in Task : ended'[u] = IF u = t THEN end ELSE ended[u]
  BY <1>5 DEF TypeOK
<1>7. word = call[t].current /\ call[t].pc = "cas" /\ word' = NewPacked(call[t].op, call[t].time)
  BY DEF CasOk
<1> HIDE DEF new
<1>8. \A u \in Task \ {t} :
        /\ call[u] \in Call /\ call'[u] \in Call
        /\ call'[u].op = call[u].op /\ call'[u].pc = call[u].pc
        /\ call'[u].current = call[u].current
        /\ call'[u].seen = IF call[u].pc = "idle" THEN call[u].seen ELSE call[u].seen \cup {new}
  <2> SUFFICES ASSUME NEW u \in Task \ {t}
               PROVE  /\ call[u] \in Call /\ call'[u] \in Call
                      /\ call'[u].op = call[u].op /\ call'[u].pc = call[u].pc
                      /\ call'[u].current = call[u].current
                      /\ call'[u].seen = IF call[u].pc = "idle" THEN call[u].seen
                                         ELSE call[u].seen \cup {new}
    OBVIOUS
  <2>1. call[u] \in Call
    BY DEF TypeOK
  <2>2. CASE call[u].pc = "idle"
    BY <1>4, <2>1, <2>2
  <2>3. CASE call[u].pc # "idle"
    <3>1. call'[u] = [call[u] EXCEPT !.seen = @ \cup {new}]
      BY <1>4, <2>3
    <3> QED
      BY <1>3, <2>1, <2>3, <3>1, MoreSeen
  <2> QED
    BY <2>2, <2>3
<1>9. call'[t] = NoCall /\ NoCall \in Call /\ NoCall.pc = "idle"
  BY <1>4 DEF NoCall, Call
<1>10. TypeOK'
  <2>1. call' \in [Task -> Call]
    <3>1. \A u \in Task : call'[u] \in Call
      BY <1>8, <1>9
    <3>2. call' = [u \in Task |-> call'[u]]
      BY DEF CasOk
    <3> QED
      BY <3>1, <3>2
  <2>2. end \in Ending
    BY <1>1 DEF Ending, Call
  <2>3. ended' \in [Task -> Ending]
    BY <1>5, <2>2 DEF TypeOK
  <2>4. orphans' \in Nat /\ reclaims' \in Nat /\ since' \in Nat /\ calls' = calls /\ tries' = tries
    BY <1>1 DEF CasOk, TypeOK
  <2> QED
    BY <1>1, <1>3, <2>1, <2>3, <2>4 DEF TypeOK
<1>11. Started'
  BY <1>1, <1>8, <1>9 DEF Started
<1>12. Loaded'
  BY <1>8, <1>9 DEF Loaded
<1>13. Justified'
  <2> SUFFICES ASSUME NEW u \in Task, call'[u].pc = "cas", call'[u].op # "try_close",
                      word' # call'[u].current
               PROVE  call'[u].seen \ From(call'[u].op) # {}
    BY DEF Justified
  <2>1. /\ u # t /\ call[u].pc = "cas" /\ call[u].op # "try_close" /\ call'[u].op = call[u].op
        /\ call'[u].seen = call[u].seen \cup {new}
    BY <1>8, <1>9
  <2>2. CASE word # call[u].current
    BY <2>1, <2>2 DEF Justified
  <2>3. CASE word = call[u].current
    <3>1. state \in From(call[u].op) /\ call[u].op \in Ops
      BY <2>1, <2>3 DEF Loaded, Started, state
    <3>2. new \notin From(call[u].op)
      BY <1>2, <2>1, <3>1, States DEF Ops
    <3> QED
      BY <2>1, <3>2
  <2> QED
    BY <2>2, <2>3
<1>14. WinsAlternate'
  <2>1. /\ orphans' = IF call[t].op = "try_orphan" THEN orphans + 1 ELSE orphans
        /\ reclaims' = IF call[t].op = "try_reclaim" THEN reclaims + 1 ELSE reclaims
    BY DEF CasOk
  <2>2. orphans \in Nat /\ reclaims \in Nat
    BY DEF TypeOK
  <2> QED
    BY <1>1, <1>2, <2>1, <2>2, States DEF WinsAlternate
<1>15. TimestampOfWinner'
  <2>1. CASE call[t].op = "try_orphan"
    BY <1>1, <1>7, <2>1, Installed DEF TimestampOfWinner, CasOk
  <2>2. CASE call[t].op # "try_orphan"
    BY <1>1, <1>2, <2>2, States DEF TimestampOfWinner
  <2> QED
    BY <2>1, <2>2
<1>16. FailureJustified'
  BY <1>6 DEF FailureJustified
<1>17. ClosedStaysClosed'
  BY <1>1, <1>2, <1>6, States DEF ClosedStaysClosed
<1> QED
  BY <1>10, <1>11, <1>12, <1>13, <1>14, <1>15, <1>16, <1>17

------------------------------------------------------------------------------
LEMMA NextIInv == IInv /\ [Next]_vars => IInv'
<1> SUFFICES ASSUME IInv, [Next]_vars PROVE IInv'
  OBVIOUS
<1>1. ASSUME NEW t \in Task, NEW time \in Time, Start(t, "try_orphan", time) PROVE IInv'
  BY <1>1, StartIInv DEF Ops
<1>2. ASSUME NEW t \in Task, NEW op \in {"try_reclaim", "try_close"}, Start(t, op, 0) PROVE IInv'
  BY <1>2, StartIInv DEF Ops
<1>3. ASSUME NEW t \in Task, Load(t) PROVE IInv'
  BY <1>3, LoadIInv
<1>4. ASSUME NEW t \in Task, CasOk(t) PROVE IInv'
  BY <1>4, CasOkIInv
<1>5. ASSUME NEW t \in Task, CasFail(t) PROVE IInv'
  BY <1>5, CasFailIInv
<1>6. CASE UNCHANGED vars
  <2>1. state' = state
    BY <1>6 DEF vars, state
  <2> QED
    BY <1>6, <2>1 DEF vars, IInv, TypeOK, Started, Loaded, Justified, WinsAlternate,
       TimestampOfWinner, FailureJustified, ClosedStaysClosed
<1> QED
  BY <1>1, <1>2, <1>3, <1>4, <1>5, <1>6 DEF Next

------------------------------------------------------------------------------
(* Retries: the step of each action, beside IInv.                          *)

LEMMA RetryNext == IInv /\ RetryInv /\ [Next]_vars => RetryInv'
<1> SUFFICES ASSUME IInv, RetryInv, [Next]_vars PROVE RetryInv'
  OBVIOUS
<1> USE DEF RetryInv
<1>0. /\ orphans \in Nat /\ reclaims \in Nat /\ word \in Nat
      /\ tries \in [Task -> [failed : Nat, from : Nat]]
      /\ call \in [Task -> Call]
  BY DEF IInv, TypeOK
<1>1. ASSUME NEW t \in Task, NEW op, NEW time, Start(t, op, time) PROVE RetryInv'
  <2>1. state' = state /\ word' = word /\ orphans' = orphans /\ reclaims' = reclaims
    BY <1>1 DEF Start, state
  <2>2. tries'[t].failed = 0 /\ tries'[t].from = orphans + reclaims /\ call'[t].pc = "load"
    BY <1>0, <1>1 DEF Start
  <2>3. \A u \in Task \ {t} : tries'[u] = tries[u] /\ call'[u] = call[u]
    BY <1>0, <1>1 DEF Start
  <2>4. Paid(t)' \in Nat
    BY <1>0, <2>1, <2>2 DEF Paid
  <2> QED
    BY <2>1, <2>2, <2>3, <2>4 DEF Paid, Owed
<1>2. ASSUME NEW t \in Task, Load(t) PROVE RetryInv'
  <2>1. /\ state' = state /\ word' = word /\ orphans' = orphans /\ reclaims' = reclaims
        /\ tries' = tries
    BY <1>2 DEF Load, state
  <2>2. \A u \in Task \ {t} : call'[u] = call[u]
    BY <1>0, <1>2 DEF Load, Return
  <2>3. call'[t].pc = "idle" \/ call'[t].current = word
    <3>1. call' = [call EXCEPT ![t].pc = "cas", ![t].current = word] \/ call' = [call EXCEPT ![t] = NoCall]
      BY <1>2 DEF Load, Return
    <3> QED
      BY <1>0, <3>1 DEF NoCall, Call
  <2>4. Owed'
    BY <2>1, <2>2, <2>3 DEF Owed, Paid
  <2> QED
    BY <2>1, <2>4 DEF Paid
<1>3. ASSUME NEW t \in Task, CasFail(t) PROVE RetryInv'
  <2>1. state' = state /\ word' = word /\ orphans' = orphans /\ reclaims' = reclaims
    BY <1>3 DEF CasFail, Return, state
  <2>2. /\ tries'[t].failed = tries[t].failed + 1 /\ tries'[t].from = tries[t].from
        /\ \A u \in Task \ {t} : tries'[u] = tries[u] /\ call'[u] = call[u]
    BY <1>0, <1>3 DEF CasFail, FailedOnce, Return
  <2>3. call'[t].pc # "cas"
    BY <1>0, <1>3 DEF CasFail, Return, NoCall, Call
  <2>4. tries[t].failed + 1 <= Paid(t)
    BY <1>3 DEF CasFail, Owed
  <2> QED
    BY <2>1, <2>2, <2>3, <2>4 DEF Owed, Paid
<1>4. ASSUME NEW t \in Task, CasOk(t) PROVE RetryInv'
  <2>1. /\ tries' = tries
        /\ orphans' = IF call[t].op = "try_orphan" THEN orphans + 1 ELSE orphans
        /\ reclaims' = IF call[t].op = "try_reclaim" THEN reclaims + 1 ELSE reclaims
    BY <1>4 DEF CasOk
  <2>2. \A u \in Task : Paid(u)' = Paid(u) + 1
    <3> SUFFICES ASSUME NEW u \in Task PROVE Paid(u)' = Paid(u) + 1
      OBVIOUS
    <3>0. tries[u].from \in Nat /\ orphans \in Nat /\ reclaims \in Nat
      BY <1>0
    <3>1. /\ tries[u].from \in Nat /\ tries'[u].from = tries[u].from
          /\ orphans' \in Nat /\ reclaims' \in Nat
      BY <1>0, <2>1
    <3>2. \/ orphans' = orphans + 1 /\ reclaims' = reclaims /\ state # Closing /\ state' # Closing
          \/ orphans' = orphans /\ reclaims' = reclaims + 1 /\ state # Closing /\ state' # Closing
          \/ orphans' = orphans /\ reclaims' = reclaims /\ state # Closing /\ state' = Closing
      BY <1>0, <1>4, <2>1, CasOkMoves, States
    <3>3. /\ Paid(u) = orphans + reclaims - tries[u].from + (IF state = Closing THEN 1 ELSE 0)
          /\ Paid(u)' = orphans' + reclaims' - tries[u].from + (IF state' = Closing THEN 1 ELSE 0)
      BY <3>1 DEF Paid
    <3>4. CASE orphans' = orphans + 1 /\ reclaims' = reclaims /\ state # Closing /\ state' # Closing
      <4>1. Paid(u) = orphans + reclaims - tries[u].from + 0
        BY <3>3, <3>4
      <4>2. Paid(u)' = (orphans + 1) + reclaims - tries[u].from + 0
        BY <3>3, <3>4
      <4> QED
        BY <3>0, <4>1, <4>2
    <3>5. CASE orphans' = orphans /\ reclaims' = reclaims + 1 /\ state # Closing /\ state' # Closing
      <4>1. Paid(u) = orphans + reclaims - tries[u].from + 0
        BY <3>3, <3>5
      <4>2. Paid(u)' = orphans + (reclaims + 1) - tries[u].from + 0
        BY <3>3, <3>5
      <4> QED
        BY <3>0, <4>1, <4>2
    <3>6. CASE orphans' = orphans /\ reclaims' = reclaims /\ state # Closing /\ state' = Closing
      <4>1. Paid(u) = orphans + reclaims - tries[u].from + 0
        BY <3>3, <3>6
      <4>2. Paid(u)' = orphans + reclaims - tries[u].from + 1
        BY <3>3, <3>6
      <4> QED
        BY <3>0, <4>1, <4>2
    <3> QED
      BY <3>2, <3>4, <3>5, <3>6
  <2>3. \A u \in Task : tries[u].failed \in Nat /\ tries[u].failed <= Paid(u) /\ Paid(u) \in Int
    BY <1>0 DEF Paid
  <2>4. \A u \in Task : tries'[u].failed + 1 <= Paid(u)'
    BY <2>1, <2>2, <2>3
  <2>5. \A u \in Task : tries'[u].failed <= Paid(u)'
    BY <2>1, <2>2, <2>3
  <2> QED
    BY <2>4, <2>5 DEF Owed
<1>5. CASE UNCHANGED vars
  BY <1>5 DEF vars, Owed, Paid, state
<1> QED
  BY <1>1, <1>2, <1>3, <1>4, <1>5 DEF Next

(* The inductive invariant holds in every reachable state.                 *)
THEOREM Invariance == Spec => []IInv
  BY InitIInv, NextIInv, PTL DEF Spec

(* Type correctness of the handle and its callers, for any number of them. *)
THEOREM TypeCorrect == Spec => []TypeOK
<1>1. IInv => TypeOK
  BY DEF IInv
<1> QED
  BY <1>1, Invariance, PTL

(* Successful try_orphan and try_reclaim calls alternate: one winner each. *)
THEOREM OneWinner == Spec => []WinsAlternate
<1>1. IInv => WinsAlternate
  BY DEF IInv
<1> QED
  BY <1>1, Invariance, PTL

(* orphaned_at() is the time of the try_orphan that won.                   *)
THEOREM GraceFromWinner == Spec => []TimestampOfWinner
<1>1. IInv => TimestampOfWinner
  BY DEF IInv
<1> QED
  BY <1>1, Invariance, PTL

(* Every failure that try_orphan or try_reclaim reports had a reason while *)
(* the call ran, an instant at which it would have failed as one step.     *)
THEOREM FailuresAreReal == Spec => []FailureJustified
<1>1. IInv => FailureJustified
  BY DEF IInv
<1> QED
  BY <1>1, Invariance, PTL

(* try_close always reports success, and the session stays Closing.        *)
THEOREM ClosedForGood == Spec => []ClosedStaysClosed
<1>1. IInv => ClosedStaysClosed
  BY DEF IInv
<1> QED
  BY <1>1, Invariance, PTL

(* try_close is lock-free: a call goes round its loop at most once for     *)
(* each orphaning or reclaim that succeeds meanwhile and once for a        *)
(* closing, with any number of tasks and calls.                            *)
THEOREM LockFree == Spec => []RetriesPaid
<1>1. Init => RetryInv
  BY UnpackState, States DEF Init, RetryInv, Owed, Paid, NoCall, state
<1>2. RetryInv => RetriesPaid
  BY DEF RetryInv, RetriesPaid, Paid
<1> QED
  BY <1>1, <1>2, RetryNext, Invariance, PTL DEF Spec

(* Every step follows an edge of the lifecycle diagram.                    *)
THEOREM DiagramFollowed == Spec => FollowsDiagram
<1> DEFINE Edge == state' # state =>
             <<state, state'>> \in {<<Active, Orphaned>>, <<Orphaned, Active>>,
                                    <<Active, Closing>>, <<Orphaned, Closing>>}
<1>1. IInv /\ [Next]_vars => [Edge]_vars
  <2> SUFFICES ASSUME IInv, Next PROVE Edge
    OBVIOUS
  <2>1. ASSUME NEW t \in Task, CasOk(t) PROVE Edge
    BY <2>1, CasOkMoves
  <2>2. ASSUME word' = word PROVE Edge
    BY <2>2 DEF state
  <2> QED
    BY <2>1, <2>2 DEF Next, Start, Load, CasFail
<1> QED
  BY <1>1, Invariance, PTL DEF Spec, FollowsDiagram
==============================================================================
