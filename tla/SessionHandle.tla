---------------------------- MODULE SessionHandle ----------------------------
(***************************************************************************)
(* The lock-free state machine of one session: several tasks of the        *)
(* orchestrator (IPC clients, orphan cleanup, health monitor, connection   *)
(* event handler) call try_orphan, try_reclaim and try_close on the same   *)
(* SessionHandle.  Each call is a load of the packed word and a later      *)
(* compare-exchange on it, and other tasks may run in between.             *)
(*                                                                         *)
(* The program creates every handle in the Active state and calls neither  *)
(* try_activate nor the legacy setters, so they are not modelled.          *)
(***************************************************************************)
EXTENDS SessionWord, FiniteSets

CONSTANTS
  Task,      \* the tasks that hold an Arc of the handle
  Time,      \* the wall-clock values (milliseconds) a caller may read
  MaxCalls   \* bound: calls started by each task

ASSUME HandleAssumption == Time \subseteq Nat /\ MaxCalls \in Nat

VARIABLES
  word,      \* SessionHandle::state, the AtomicU64
  call,      \* the call each task is in
  calls,     \* how many calls each task has started (the bound)
  (* history: *)
  ended,     \* how the last call of each task ended
  orphans,   \* successful try_orphan calls so far
  reclaims,  \* successful try_reclaim calls so far
  since,     \* the time argument of the last successful try_orphan
  tries      \* the last call of each task: compare-exchanges that failed, and
             \* the orphanings and reclaims there had been when it began

vars == <<word, call, calls, ended, orphans, reclaims, since, tries>>

Ops == {"try_orphan", "try_reclaim", "try_close"}

(* "seen" is history: every state the handle had while the call ran.       *)
Call == [op : Ops \cup {"none"}, pc : {"idle", "load", "cas"},
         current : Nat, time : Time \cup {0}, seen : SUBSET SessionState]

NoCall == [op |-> "none", pc |-> "idle", current |-> 0, time |-> 0, seen |-> {}]

Ending == [op : Ops \cup {"none"}, ok : BOOLEAN, seen : SUBSET SessionState]

state == unpack_state(word)

(* Mutant: try_orphan also accepts a session that is orphaned already.     *)
From_StaleOrphan(op) ==
  CASE op = "try_orphan"  -> {Active, Orphaned}
    [] op = "try_reclaim" -> {Orphaned}
    [] OTHER              -> SessionState \ {Closing}

(* The states from which an operation goes on to its compare-exchange.     *)
From(op) ==
  CASE op = "try_orphan"  -> {Active}
    [] op = "try_reclaim" -> {Orphaned}
    [] OTHER              -> SessionState \ {Closing}

(* Mutant: the time is rounded up to the next unit of the word.            *)
NewPacked_RoundedUp(op, time) ==
  CASE op = "try_orphan"  -> pack_state(Orphaned, time + Unit)
    [] op = "try_reclaim" -> pack_state(Active, 0)
    [] OTHER              -> pack_state(Closing, 0)

(* The word the compare-exchange would install.                            *)
NewPacked(op, time) ==
  CASE op = "try_orphan"  -> pack_state(Orphaned, time)
    [] op = "try_reclaim" -> pack_state(Active, 0)
    [] OTHER              -> pack_state(Closing, 0)

------------------------------------------------------------------------------
Init ==
  /\ word = pack_state(Active, 0)
  /\ call = [t \in Task |-> NoCall]
  /\ calls = [t \in Task |-> 0]
  /\ ended = [t \in Task |-> [op |-> "none", ok |-> FALSE, seen |-> {}]]
  /\ orphans = 0
  /\ reclaims = 0
  /\ since = 0
  /\ tries = [t \in Task |-> [failed |-> 0, from |-> 0]]

(* A task enters one of the operations.                                    *)
Start(t, op, time) ==
  /\ call[t].pc = "idle"
  /\ calls[t] < MaxCalls
  /\ call' = [call EXCEPT ![t] = [op |-> op, pc |-> "load", current |-> 0,
                                  time |-> time, seen |-> {state}]]
  /\ calls' = [calls EXCEPT ![t] = @ + 1]
  /\ tries' = [tries EXCEPT ![t] = [failed |-> 0, from |-> orphans + reclaims]]
  /\ UNCHANGED <<word, ended, orphans, reclaims, since>>

Return(t, ok) ==
  /\ call' = [call EXCEPT ![t] = NoCall]
  /\ ended' = [ended EXCEPT ![t] = [op |-> call[t].op, ok |-> ok, seen |-> call[t].seen]]

(* self.state.load(): the operation gives up unless the state admits it;   *)
(* try_close reports success when the state is already Closing.            *)
Load(t) ==
  /\ call[t].pc = "load"
  /\ \/ /\ state \in From(call[t].op)
        /\ call' = [call EXCEPT ![t].pc = "cas", ![t].current = word]
        /\ UNCHANGED ended
     \/ /\ state \notin From(call[t].op)
        /\ Return(t, call[t].op = "try_close")
  /\ UNCHANGED <<word, calls, orphans, reclaims, since, tries>>

(* Mutant: a plain store instead of the compare-exchange.                  *)
CasOk_Store(t) ==
  LET new == NewPacked(call[t].op, call[t].time)
  IN /\ call[t].pc = "cas"
     /\ word' = new
     /\ call' = [u \in Task |->
                   IF u = t THEN NoCall
                   ELSE IF call[u].pc = "idle" THEN call[u]
                   ELSE [call[u] EXCEPT !.seen = @ \cup {unpack_state(new)}]]
     /\ ended' = [ended EXCEPT ![t] = [op |-> call[t].op, ok |-> TRUE, seen |-> call[t].seen]]
     /\ orphans' = IF call[t].op = "try_orphan" THEN orphans + 1 ELSE orphans
     /\ reclaims' = IF call[t].op = "try_reclaim" THEN reclaims + 1 ELSE reclaims
     /\ since' = IF call[t].op = "try_orphan" THEN call[t].time ELSE since
     /\ UNCHANGED <<calls, tries>>

(* The compare-exchange succeeds: the word still is what was loaded.  The  *)
(* step is also one more state every running call has seen.                *)
CasOk(t) ==
  LET new == NewPacked(call[t].op, call[t].time)
  IN /\ call[t].pc = "cas"
     /\ word = call[t].current
     /\ word' = new
     /\ call' = [u \in Task |->
                   IF u = t THEN NoCall
                   ELSE IF call[u].pc = "idle" THEN call[u]
                   ELSE [call[u] EXCEPT !.seen = @ \cup {unpack_state(new)}]]
     /\ ended' = [ended EXCEPT ![t] = [op |-> call[t].op, ok |-> TRUE, seen |-> call[t].seen]]
     /\ orphans' = IF call[t].op = "try_orphan" THEN orphans + 1 ELSE orphans
     /\ reclaims' = IF call[t].op = "try_reclaim" THEN reclaims + 1 ELSE reclaims
     /\ since' = IF call[t].op = "try_orphan" THEN call[t].time ELSE since
     /\ UNCHANGED <<calls, tries>>

FailedOnce(t) == tries' = [tries EXCEPT ![t].failed = @ + 1]

(* Mutant: compare_exchange_weak, which may fail for no reason.            *)
CasFail_Weak(t) ==
  /\ call[t].pc = "cas"
  /\ FailedOnce(t)
  /\ \/ /\ call[t].op = "try_close"
        /\ call' = [call EXCEPT ![t].pc = "load"]
        /\ UNCHANGED ended
     \/ /\ call[t].op # "try_close"
        /\ Return(t, FALSE)
  /\ UNCHANGED <<word, calls, orphans, reclaims, since>>

(* Mutant: try_close gives up like the others instead of loading again.    *)
CasFail_NoRetry(t) ==
  /\ call[t].pc = "cas"
  /\ word # call[t].current
  /\ FailedOnce(t)
  /\ Return(t, FALSE)
  /\ UNCHANGED <<word, calls, orphans, reclaims, since>>

(* Mutant: the load is outside the loop of try_close.                      *)
CasFail_NoReload(t) ==
  /\ call[t].pc = "cas"
  /\ word # call[t].current
  /\ FailedOnce(t)
  /\ IF call[t].op = "try_close" THEN UNCHANGED <<call, ended>> ELSE Return(t, FALSE)
  /\ UNCHANGED <<word, calls, orphans, reclaims, since>>

(* The compare-exchange fails: try_close loads again, the others give up.  *)
CasFail(t) ==
  /\ call[t].pc = "cas"
  /\ word # call[t].current
  /\ FailedOnce(t)
  /\ \/ /\ call[t].op = "try_close"
        /\ call' = [call EXCEPT ![t].pc = "load"]
        /\ UNCHANGED ended
     \/ /\ call[t].op # "try_close"
        /\ Return(t, FALSE)
  /\ UNCHANGED <<word, calls, orphans, reclaims, since>>

Next ==
  \E t \in Task :
    \/ \E time \in Time : Start(t, "try_orphan", time)
    \/ \E op \in {"try_reclaim", "try_close"} : Start(t, op, 0)
    \/ Load(t)
    \/ CasOk(t)
    \/ CasFail(t)

Spec == Init /\ [][Next]_vars

------------------------------------------------------------------------------
(* The word always decodes to a state of the lifecycle that the program    *)
(* uses: unpack_state would read a corrupt word as Creating and hide it.   *)
TypeOK ==
  /\ word \in Nat
  /\ state \in {Active, Orphaned, Closing}
  /\ call \in [Task -> Call]
  /\ calls \in [Task -> 0..MaxCalls]
  /\ ended \in [Task -> Ending]
  /\ orphans \in Nat /\ reclaims \in Nat /\ since \in Nat
  /\ tries \in [Task -> [failed : Nat, from : Nat]]

(* Exactly one caller wins each orphaning and each reclaim: the successful *)
(* try_orphan and try_reclaim calls alternate, so their difference is      *)
(* decided by the state (manager.rs: "ensures only one caller can          *)
(* successfully orphan the session").                                      *)
WinsAlternate ==
  /\ state = Active => orphans = reclaims
  /\ state = Orphaned => orphans = reclaims + 1
  /\ state = Closing => orphans \in {reclaims, reclaims + 1}

(* The grace period is measured from the orphaning in force: while the     *)
(* session is Orphaned, orphaned_at() is the time given by the try_orphan  *)
(* that won, rounded down to the resolution of the word, whatever older    *)
(* calls are still running.                                                *)
TimestampOfWinner ==
  state = Orphaned => unpack_orphaned_at(word) = Unit * (since \div Unit)

(* A call that reports failure did see a reason for it: at some instant    *)
(* between its start and its return the session was in a state that does   *)
(* not admit the operation, even when the word was changed back and forth  *)
(* under it.                                                               *)
FailureJustified ==
  \A t \in Task :
    ended[t].op # "none" /\ ~ended[t].ok => ended[t].seen \ From(ended[t].op) # {}

(* What try_close promises every path that got TRUE from it: the session   *)
(* is Closing for good, so nobody can reclaim it afterwards.               *)
ClosedStaysClosed ==
  \A t \in Task : ended[t].op = "try_close" => ended[t].ok /\ state = Closing

(* The lifecycle diagram in manager.rs: no step takes an edge that is not  *)
(* in it, and none leaves Closing.                                         *)
FollowsDiagram ==
  [][ state' # state =>
        <<state, state'>> \in {<<Active, Orphaned>>, <<Orphaned, Active>>,
                               <<Active, Closing>>, <<Orphaned, Closing>>} ]_vars

(* try_close is lock-free: it goes round its loop only because others got  *)
(* on.  Each compare-exchange of a call that failed is paid for by an      *)
(* orphaning or a reclaim that succeeded while the call ran, or by the     *)
(* closing of the session, which ends the loop.  (A task is not promised   *)
(* an end of its own: others that orphan and reclaim without end could     *)
(* keep it there.)                                                         *)
RetriesPaid ==
  \A t \in Task :
    tries[t].failed <= (orphans + reclaims - tries[t].from) + (IF state = Closing THEN 1 ELSE 0)
==============================================================================
