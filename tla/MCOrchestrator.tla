---------------------------- MODULE MCOrchestrator ----------------------------
(***************************************************************************)
(* Instances of the orchestrator small enough for TLC.  The complete       *)
(* specification is checked with one connection of one machine; with two   *)
(* connections, or two IPC clients and time, only the tasks that the       *)
(* question is about take steps, the others being idle.                    *)
(***************************************************************************)
EXTENDS Claims, TLC

CONSTANTS m1, c1, c2, k1, k2, alice

MCMachineOf == [c \in Conn |-> m1]
MCClientOf == [k \in IpcConn |-> alice]

(* An agent that loses its connection and comes back: no orphan cleanup.   *)
ChurnNext == SshNext \/ EvNext \/ IpcNext

ChurnSpec == Init /\ [][ChurnNext]_vars

(* Clients that come and go while the agent stays connected.               *)
AgentStays(c) ==
  \/ SshConnect(c)
  \/ Register(c)
  \/ AgentNext(c)
  \/ \E s \in pty[c] : PtyExits(c, s)

ClientNext == (\E c \in Conn : AgentStays(c)) \/ EvNext \/ ClNext \/ IpcNext \/ Tick

ClientSpec == Init /\ [][ClientNext]_vars

(* Their fairness: that of Orchestrator!Fairness for the tasks that run.   *)
ClientFairSpec ==
  /\ ClientSpec
  /\ WF_vars(EvNext)
  /\ WF_vars(ClNext)
  /\ WF_vars(Tick)
  /\ \A k \in IpcConn :
       /\ WF_vars(IpcProgress(k))
       /\ SF_vars(CreateSend(k) \/ InputSend(k) \/ CloseSend(k))
===============================================================================
