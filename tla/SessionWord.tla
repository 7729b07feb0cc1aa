----------------------------- MODULE SessionWord -----------------------------
(***************************************************************************)
(* The packed state word of a session (crates/kt-orchestrator/src/session/ *)
(* manager.rs).  A SessionHandle keeps its lifecycle state and the time it *)
(* was orphaned in ONE AtomicU64, so that a single compare-exchange moves  *)
(* both: the low 8 bits are the state, the high 56 bits the timestamp in   *)
(* units of 256 milliseconds.                                              *)
(***************************************************************************)
EXTENDS Naturals

(* SessionState is repr(u8). *)
Creating == 0
Active   == 1
Orphaned == 2
Closing  == 3

SessionState == {Creating, Active, Orphaned, Closing}

(* Both the shift by 8 bits and the division of the timestamp are by this. *)
Unit == 256

(* Mutant: the timestamp is not shifted clear of the state bits.           *)
pack_state_Unshifted(state, orphaned_at_millis) == state + orphaned_at_millis

pack_state(state, orphaned_at_millis) ==
  state + Unit * (orphaned_at_millis \div Unit)

unpack_state(packed) ==
  IF packed % Unit \in SessionState THEN packed % Unit ELSE Creating

unpack_orphaned_at(packed) ==
  IF unpack_state(packed) = Orphaned THEN Unit * (packed \div Unit) ELSE 0

(* orphaned_at() is an Option: the value 0 stands for None. *)
NotOrphaned == 0
==============================================================================
