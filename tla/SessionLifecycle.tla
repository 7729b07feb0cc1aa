--------------------------- MODULE SessionLifecycle ---------------------------
(***************************************************************************)
(* What the session table promises about every session, whichever of its   *)
(* users acts: the lifecycle diagram of session/manager.rs, an id that is  *)
(* listed once and never comes back, and a closing that is broadcast at    *)
(* most once, for a session that is already closed and off the list.       *)
(***************************************************************************)
EXTENDS Naturals

CONSTANTS Session, Unborn, Active, Orphaned, Closing

VARIABLES
  st,         \* the state of every session
  listed,     \* the sessions in the table
  announced   \* SessionClosed broadcasts per session

lvars == <<st, listed, announced>>

Init ==
  /\ st = [s \in Session |-> Unborn]
  /\ listed = {}
  /\ announced = [s \in Session |-> 0]

Move(s, from, to) ==
  /\ st[s] \in from
  /\ st' = [st EXCEPT ![s] = to]

Create(s) ==
  /\ Move(s, {Unborn}, Active)
  /\ listed' = listed \cup {s}
  /\ UNCHANGED announced

(* A change of state leaves the list alone: Closing is never left.         *)
Transition(s) ==
  /\ \/ Move(s, {Active}, Orphaned)
     \/ Move(s, {Orphaned}, Active)
     \/ Move(s, {Active, Orphaned}, Closing)
  /\ UNCHANGED <<listed, announced>>

Unlist(s) ==
  /\ s \in listed
  /\ listed' = listed \ {s}
  /\ UNCHANGED <<st, announced>>

Announce(s) ==
  /\ announced[s] = 0
  /\ Move(s, {Active, Orphaned, Closing}, Closing)
  /\ listed' = listed \ {s}
  /\ announced' = [announced EXCEPT ![s] = 1]

Next == \E s \in Session : Create(s) \/ Transition(s) \/ Unlist(s) \/ Announce(s)

Spec == Init /\ [][Next]_lvars
===============================================================================
