------------------------- MODULE SingleInstanceProofs -------------------------
(***************************************************************************)
(* Proofs about the start of orchestrators, for any number of processes of *)
(* any kind, any supply of PIDs and any number of stops.                   *)
(***************************************************************************)
EXTENDS SingleInstance, TLAPS

-----------------------------------------------------------------------------
(* The inductive invariant                                                 *)

Pc == {"check", "decide", "stale", "init", "token", "truncate", "write",
       "up", "external", "quit", "unlink", "idle", "refused", "dead"}
Step == {"ipc", "pid", "number", "ssh"}
ProcType == [pc : Pc, pid : Pid \cup {NoPid}, todo : SUBSET Step,
             cancelled : BOOLEAN, running : BOOLEAN]

TokenType == [st : {"absent", "garbled", "valid"}, pid : Pid \cup {NoPid},
              of : Process \cup {NoProcess}]

Types ==
  /\ proc \in [Process -> ProcType]
  /\ token \in TokenType
  /\ pidfile \in Pid \cup {NoPid, BadPid}
  /\ ipc \in Process \cup {NoProcess} /\ ssh \in Process \cup {NoProcess}
  /\ stops \in 0..MaxStops /\ raced \in BOOLEAN

(* Whatever races: only a process that is up has steps left to do or holds *)
(* a port, and not once its cancellation token is cancelled; live          *)
(* processes have different PIDs; and a token whose owner lives carries    *)
(* that owner's PID.                                                       *)
Alone ==
  /\ \A p \in Process :
       /\ proc[p].todo # {} \/ ipc = p \/ ssh = p => proc[p].pc = "up"
       /\ ipc = p \/ ssh = p => ~proc[p].cancelled
  /\ \A p, q \in Alive : proc[p].pid = proc[q].pid => p = q
  /\ token.of # NoProcess => token.st = "valid"
  /\ token.of \in Alive => token.pid = proc[token.of].pid

(* As long as no startup has overlapped another one or the removal of a    *)
(* token: one process is starting, while nobody removes the token; a token *)
(* about to be removed is the remover's own or does not parse; what a      *)
(* process has still to do it does under its own token, and it serves IPC  *)
(* or is about to unless it was cancelled; while a token is replaced       *)
(* nobody listens; a process that serves SSH serves IPC too or is about    *)
(* to; and whoever serves IPC owns the token.                              *)
Serial ==
  /\ \A p, q \in Process : Starting(p) /\ Starting(q) => p = q
  /\ \A p, q \in Process : Starting(p) => ~Removing(q)
  /\ \A p \in Process : proc[p].pc = "unlink" => read_token_info \subseteq {proc[p].pid}
  /\ \A p \in Process : proc[p].todo # {} => token.of = p
  /\ \A p \in Process :
       proc[p].todo # {} /\ ~proc[p].cancelled => ipc = p \/ "ipc" \in proc[p].todo
  /\ \A p \in Process : proc[p].pc \in {"truncate", "write"} => ipc = NoProcess
  /\ ssh # NoProcess => ipc = ssh \/ "ipc" \in proc[ssh].todo
  /\ ipc # NoProcess => token.of = ipc

InstanceInv == Types /\ Alone /\ (~raced => Serial)

-----------------------------------------------------------------------------
(* What a step does to the records                                         *)

(* Only p's record changes, and becomes r.                                 *)
Becomes(p, r) == proc' = [proc EXCEPT ![p] = r]

LEMMA Became ==
  ASSUME Types, NEW p \in Process, NEW r \in ProcType, Becomes(p, r)
  PROVE  /\ proc' \in [Process -> ProcType] /\ proc'[p] = r
         /\ \A q \in Process : q # p => proc'[q] = proc[q]
BY DEF Types, Becomes

LEMMA ProcFields ==
  ASSUME NEW r \in ProcType
  PROVE  /\ r.pc \in Pc /\ r.pid \in Pid \cup {NoPid} /\ r.todo \subseteq Step
         /\ r.cancelled \in BOOLEAN /\ r.running \in BOOLEAN
BY DEF ProcType

LEMMA SetPc ==
  ASSUME NEW r \in ProcType, NEW pc \in Pc
  PROVE  LET x == [r EXCEPT !.pc = pc]
         IN  /\ x \in ProcType /\ x.pc = pc /\ x.pid = r.pid /\ x.todo = r.todo
             /\ x.cancelled = r.cancelled
BY DEF ProcType

LEMMA SetTodo ==
  ASSUME NEW r \in ProcType, NEW todo \in SUBSET Step
  PROVE  LET x == [r EXCEPT !.todo = todo]
         IN  /\ x \in ProcType /\ x.pc = r.pc /\ x.pid = r.pid /\ x.todo = todo
             /\ x.cancelled = r.cancelled
BY DEF ProcType

LEMMA SetUp ==
  ASSUME NEW r \in ProcType, NEW todo \in SUBSET Step
  PROVE  LET x == [r EXCEPT !.pc = "up", !.running = TRUE, !.todo = todo]
         IN  /\ x \in ProcType /\ x.pc = "up" /\ x.pid = r.pid /\ x.todo = todo
             /\ x.cancelled = r.cancelled
BY DEF ProcType, Pc

LEMMA SetCancelled ==
  ASSUME NEW r \in ProcType
  PROVE  LET x == [r EXCEPT !.cancelled = TRUE]
         IN  x \in ProcType /\ x.pc = r.pc /\ x.pid = r.pid /\ x.todo = r.todo
BY DEF ProcType

LEMMA SetEnded ==
  ASSUME NEW how \in {"refused", "dead"}
  PROVE  LET x == [NotRunning EXCEPT !.pc = how]
         IN  x \in ProcType /\ x.pc = how /\ x.todo = {}
BY DEF ProcType, NotRunning, Pc, Step

-----------------------------------------------------------------------------
(* The invariant is kept                                                   *)

(* A step that changes p's record to r, and nothing about who holds which  *)
(* port or token, keeps the part of the invariant that races do not touch  *)
(* if p's PID is its old one.                                              *)
LEMMA AloneKept ==
  ASSUME Types, Alone, NEW p \in Process, NEW r \in ProcType, Becomes(p, r),
         r.pid = proc[p].pid \/ r.pc \in {"refused", "dead"},
         p \in Alive \/ r.pc \in {"refused", "dead"},
         r.todo # {} \/ ipc' = p \/ ssh' = p => r.pc = "up",
         ipc' = p \/ ssh' = p => ~r.cancelled,
         \A q \in Process : q # p /\ ipc' = q => ipc = q,
         \A q \in Process : q # p /\ ssh' = q => ssh = q,
         \/ UNCHANGED token
         \/ token'.of = NoProcess
         \/ token'.of = p /\ token'.st = "valid" /\ token'.pid = r.pid
  PROVE  Alone'
<1>1. /\ proc' \in [Process -> ProcType] /\ proc'[p] = r
      /\ \A q \in Process : q # p => proc'[q] = proc[q]
  BY Became
<1>2. \A q \in Process :
        /\ proc'[q].todo # {} \/ ipc' = q \/ ssh' = q => proc'[q].pc = "up"
        /\ ipc' = q \/ ssh' = q => ~proc'[q].cancelled
  BY <1>1 DEF Alone
<1>3. \A q \in Alive' : q \in Alive /\ proc'[q].pid = proc[q].pid
  BY <1>1 DEF Alive
<1>4. \A q, v \in Alive' : proc'[q].pid = proc'[v].pid => q = v
  BY <1>3 DEF Alone
<1>5. token'.of # NoProcess => token'.st = "valid"
  BY InstanceAssumption DEF Alone, InstanceAssumption
<1>6. token'.of \in Alive' => token'.pid = proc'[token'.of].pid
  <2>1. CASE UNCHANGED token
    BY <2>1, <1>3 DEF Alone
  <2>2. CASE token'.of = NoProcess
    BY <2>2, InstanceAssumption DEF Alive, InstanceAssumption
  <2>3. CASE token'.of = p /\ token'.st = "valid" /\ token'.pid = r.pid
    BY <2>3, <1>1
  <2> QED
    BY <2>1, <2>2, <2>3
<1> QED
  BY <1>2, <1>4, <1>5, <1>6 DEF Alone

(* The looks at the files before the token is replaced.                    *)
LEMMA LooksKeep ==
  ASSUME InstanceInv, NEW p \in Process, NEW r \in ProcType, Becomes(p, r),
         proc[p].pc \in {"check", "decide", "stale", "init", "token"},
         r.pc \notin {"write", "up", "quit", "unlink"}, r.pc = "truncate" => ~LiveOwner,
         r.pid = proc[p].pid, r.todo = proc[p].todo, r.cancelled = proc[p].cancelled,
         pidfile' \in Pid \cup {NoPid, BadPid},
         UNCHANGED <<token, ipc, ssh, stops, raced>>
  PROVE  InstanceInv'
<1> USE DEF InstanceInv
<1>1. /\ proc' \in [Process -> ProcType] /\ proc'[p] = r
      /\ \A q \in Process : q # p => proc'[q] = proc[q]
  BY Became
<1>2. Types'
  BY <1>1 DEF Types
<1>3. /\ r.todo = {} /\ ipc # p /\ ssh # p /\ p \in Alive
  BY DEF Alone, Alive
<1>4. Alone'
  BY <1>3, AloneKept
<1>5. ASSUME ~raced'
      PROVE  Serial'
  <2>0. Serial
    BY <1>5
  <2>1. \A q \in Process : (Starting(q)' => Starting(q)) /\ (Removing(q)' => Removing(q))
    BY <1>1, <1>3 DEF Starting, Removing
  <2>2. \A q, v \in Process : Starting(q)' => (Starting(v)' => q = v) /\ ~Removing(v)'
    BY <2>0, <2>1 DEF Serial
  <2>7. \A q \in Process : proc'[q].pc = "unlink" => read_token_info' \subseteq {proc'[q].pid}
    BY <2>0, <1>1 DEF Serial, read_token_info
  <2>3. \A q \in Process :
          /\ proc'[q].todo # {} => token'.of = q
          /\ proc'[q].todo # {} /\ ~proc'[q].cancelled => ipc' = q \/ "ipc" \in proc'[q].todo
    BY <2>0, <1>1, <1>3 DEF Serial
  <2>4. ASSUME NEW q \in Process, proc'[q].pc \in {"truncate", "write"}
        PROVE  ipc' = NoProcess
    <3>1. CASE q # p
      BY <3>1, <2>0, <2>4, <1>1 DEF Serial
    <3>2. CASE q = p
      <4>1. ~LiveOwner
        BY <3>2, <2>4, <1>1
      <4>2. SUFFICES ASSUME ipc # NoProcess PROVE FALSE
        OBVIOUS
      <4>3. ipc \in Process /\ token.of = ipc /\ proc[ipc].pc = "up"
        BY <4>2, <2>0 DEF Serial, Types, Alone
      <4>4. ipc \in Alive /\ token.st = "valid" /\ token.pid = proc[ipc].pid
        BY <4>2, <4>3 DEF Alone, Alive
      <4> QED
        BY <4>1, <4>4 DEF LiveOwner, read_token_info, is_process_alive
    <3> QED
      BY <3>1, <3>2
  <2>5. ssh' # NoProcess => ipc' = ssh' \/ "ipc" \in proc'[ssh'].todo
    BY <2>0, <1>1, <1>3 DEF Serial, Types
  <2>6. ipc' # NoProcess => token'.of = ipc'
    BY <2>0 DEF Serial
  <2> QED
    BY <2>2, <2>3, <2>4, <2>5, <2>6, <2>7 DEF Serial
<1> QED
  BY <1>2, <1>4, <1>5

(* A startup begins: that of a new process, or of the desktop's own        *)
(* orchestrator once more.                                                 *)
LEMMA StartsKeep ==
  ASSUME InstanceInv, NEW p \in Process, NEW r \in ProcType, Becomes(p, r),
         proc[p].pc \in {"external", "refused", "dead"},
         r.pc \in {"check", "init", "token"},
         r.todo = proc[p].todo, r.cancelled = proc[p].cancelled,
         raced' = Overlap(p), Types', Alone', UNCHANGED <<ipc, ssh>>,
         token'.of = token.of \/ token.of = p
  PROVE  InstanceInv'
<1> USE DEF InstanceInv
<1>1. /\ proc'[p] = r
      /\ \A q \in Process : q # p => proc'[q] = proc[q]
  BY Became
<1>2. /\ r.todo = {} /\ ipc # p /\ ssh # p
  BY DEF Alone
<1>3. ASSUME ~raced'
      PROVE  Serial'
  <2>0. Serial /\ \A q \in Process : q # p => ~Starting(q) /\ ~Removing(q)
    BY <1>3 DEF Overlap
  <2>1. /\ \A q \in Process : q # p => ~Starting(q)'
        /\ \A q \in Process : ~Removing(q)' /\ proc'[q].pc # "unlink"
    BY <2>0, <1>1 DEF Starting, Removing
  <2>2. \A q \in Process : proc'[q].todo = {}
    BY <2>0, <1>1, <1>2 DEF Starting
  <2>3. \A q \in Process : proc'[q].pc \notin {"truncate", "write"}
    BY <2>0, <1>1 DEF Starting
  <2>4. ssh' # NoProcess => ipc' = ssh'
    BY <2>0, <2>2, <1>1, <1>2 DEF Serial, Types
  <2>5. ipc' # NoProcess => token'.of = ipc'
    BY <2>0, <1>2 DEF Serial
  <2> QED
    BY <2>1, <2>2, <2>3, <2>4, <2>5 DEF Serial
<1> QED
  BY <1>3

(* A program of somebody else's starts.                                    *)
LEMMA OtherKeeps ==
  ASSUME InstanceInv, NEW p \in Process, NEW r \in ProcType, Becomes(p, r),
         proc[p].pc \in {"refused", "dead"}, r.pc = "idle", r.todo = proc[p].todo,
         Types', Alone', UNCHANGED <<ipc, ssh, raced>>,
         token'.st = token.st, token'.pid = token.pid, token'.of = token.of \/ token.of = p
  PROVE  InstanceInv'
<1> USE DEF InstanceInv
<1>1. /\ proc'[p] = r
      /\ \A q \in Process : q # p => proc'[q] = proc[q]
  BY Became
<1>2. /\ r.todo = {} /\ ipc # p /\ ssh # p
  BY DEF Alone
<1>3. ASSUME ~raced'
      PROVE  Serial'
  <2>0. Serial
    BY <1>3
  <2>1. \A q \in Process : (Starting(q)' => Starting(q)) /\ (Removing(q)' => Removing(q))
    BY <1>1, <1>2 DEF Starting, Removing
  <2>2. \A q, v \in Process : Starting(q)' => (Starting(v)' => q = v) /\ ~Removing(v)'
    BY <2>0, <2>1 DEF Serial
  <2>3. \A q \in Process : proc'[q].pc = "unlink" => read_token_info' \subseteq {proc'[q].pid}
    BY <2>0, <1>1 DEF Serial, read_token_info
  <2>4. \A q \in Process :
          /\ proc'[q].todo # {} => token'.of = q
          /\ proc'[q].todo # {} /\ ~proc'[q].cancelled => ipc' = q \/ "ipc" \in proc'[q].todo
          /\ proc'[q].pc \in {"truncate", "write"} => ipc' = NoProcess
    BY <2>0, <1>1, <1>2 DEF Serial
  <2>5. ssh' # NoProcess => ipc' = ssh' \/ "ipc" \in proc'[ssh'].todo
    BY <2>0, <1>1, <1>2 DEF Serial, Types
  <2>6. ipc' # NoProcess => token'.of = ipc'
    BY <2>0, <1>2 DEF Serial
  <2> QED
    BY <2>2, <2>3, <2>4, <2>5, <2>6 DEF Serial
<1> QED
  BY <1>3

(* The token file is truncated and written, or was lost in between.        *)
LEMMA TokenReplaced ==
  ASSUME InstanceInv, NEW p \in Process, TruncateToken(p) \/ WriteToken(p)
  PROVE  InstanceInv'
<1> USE DEF InstanceInv
<1>0. proc[p] \in ProcType /\ proc[p].pid \in Pid \cup {NoPid}
  BY ProcFields DEF Types
<1>1. PICK r \in ProcType :
        /\ Becomes(p, r) /\ r.pid = proc[p].pid /\ r.cancelled = proc[p].cancelled
        /\ \/ proc[p].pc = "truncate" /\ r.pc = "write" /\ r.todo = proc[p].todo
              /\ token' = [NoToken EXCEPT !.st = "garbled"]
           \/ proc[p].pc = "write" /\ r.pc = "up" /\ "ipc" \in r.todo
              /\ token' = [st |-> "valid", pid |-> proc[p].pid, of |-> p]
  <2>1. CASE TruncateToken(p)
    <3> DEFINE r == [proc[p] EXCEPT !.pc = "write"]
    <3>1. Becomes(p, r)
      BY <2>1 DEF TruncateToken, Goto, Becomes
    <3>2. /\ r \in ProcType /\ r.pc = "write" /\ r.pid = proc[p].pid /\ r.todo = proc[p].todo
          /\ r.cancelled = proc[p].cancelled
      BY <1>0, SetPc DEF Pc
    <3> HIDE DEF r
    <3> QED
      BY <2>1, <3>1, <3>2 DEF TruncateToken
  <2>2. CASE WriteToken(p)
    <3> DEFINE r == [proc[p] EXCEPT !.pc = "up", !.running = TRUE, !.todo = StartupSteps(p)]
    <3>1. Becomes(p, r)
      BY <2>2 DEF WriteToken, Becomes, Types, ProcType
    <3>2. /\ r \in ProcType /\ r.pc = "up" /\ r.pid = proc[p].pid /\ "ipc" \in r.todo
          /\ r.cancelled = proc[p].cancelled
      <4>1. StartupSteps(p) \in SUBSET Step /\ "ipc" \in StartupSteps(p)
        BY DEF StartupSteps, Step
      <4> QED
        BY <4>1, <1>0, SetUp
    <3> HIDE DEF r
    <3> QED
      BY <2>2, <3>1, <3>2 DEF WriteToken
  <2> QED
    BY <2>1, <2>2
<1>2. /\ proc' \in [Process -> ProcType] /\ proc'[p] = r
      /\ \A q \in Process : q # p => proc'[q] = proc[q]
  BY <1>1, Became
<1>3. UNCHANGED <<pidfile, ipc, ssh, stops, raced>>
  BY DEF TruncateToken, WriteToken
<1>4. /\ token' \in TokenType
      /\ token'.of = NoProcess \/ (token'.of = p /\ token'.st = "valid" /\ token'.pid = r.pid)
      /\ r.pc = "up" => token'.of = p
  BY <1>0, <1>1 DEF NoToken, TokenType
<1>5. Types'
  BY <1>2, <1>3, <1>4 DEF Types
<1>6. proc[p].todo = {} /\ ipc # p /\ ssh # p /\ p \in Alive /\ Starting(p)
  BY <1>1 DEF Alone, Alive, Starting
<1>7. Alone'
  BY <1>1, <1>3, <1>4, <1>6, AloneKept
<1>8. ASSUME ~raced'
      PROVE  Serial'
  <2>0. Serial
    BY <1>8, <1>3
  <2>1. \A q \in Process : q # p => ~Starting(q) /\ ~Starting(q)'
    BY <2>0, <1>2, <1>6 DEF Serial, Starting
  <2>5. \A q \in Process : ~Removing(q)' /\ proc'[q].pc # "unlink"
    <3>1. \A q \in Process : ~Removing(q)
      BY <2>0, <1>6 DEF Serial
    <3> QED
      BY <3>1, <1>1, <1>2 DEF Removing
  <2>2. ipc' = NoProcess /\ ipc = NoProcess
    BY <2>0, <1>1, <1>3 DEF Serial
  <2>3. \A q \in Process :
          proc'[q].todo # {} => token'.of = q /\ "ipc" \in proc'[q].todo
    <3>1. \A q \in Process : q # p => proc'[q].todo = {}
      BY <2>1, <1>2 DEF Starting
    <3>2. proc'[p].todo # {} => token'.of = p /\ "ipc" \in proc'[p].todo
      BY <1>1, <1>2, <1>4, <1>6
    <3> QED
      BY <3>1, <3>2
  <2>4. ssh' = NoProcess
    BY <2>0, <2>1, <2>2, <1>3, <1>6 DEF Serial, Starting, Types
  <2> QED
    BY <2>1, <2>2, <2>3, <2>4, <2>5 DEF Serial
<1> QED
  BY <1>5, <1>7, <1>8

(* A step of the startup that follows the token.                           *)
LEMMA StartupKeeps ==
  ASSUME InstanceInv, NEW p \in Process, NEW r \in ProcType, Becomes(p, r),
         proc[p].todo # {}, r.pc = proc[p].pc, r.pid = proc[p].pid,
         r.cancelled = proc[p].cancelled,
         \/ /\ "ipc" \in proc[p].todo /\ ssh' = ssh
            /\ ipc' = IF ipc = NoProcess /\ ~proc[p].cancelled THEN p ELSE ipc
         \/ /\ "ipc" \in proc[p].todo <=> "ipc" \in r.todo
            /\ ipc' = ipc /\ ssh' = IF ssh = NoProcess /\ ~proc[p].cancelled THEN p ELSE ssh
         \/ /\ "ipc" \in proc[p].todo <=> "ipc" \in r.todo
            /\ ipc' = ipc /\ ssh' = ssh,
         pidfile' \in Pid \cup {NoPid, BadPid},
         UNCHANGED <<token, stops, raced>>
  PROVE  InstanceInv'
<1> USE DEF InstanceInv
<1>1. /\ proc' \in [Process -> ProcType] /\ proc'[p] = r
      /\ \A q \in Process : q # p => proc'[q] = proc[q]
  BY Became
<1>2. /\ proc[p].pc = "up" /\ p \in Alive /\ Starting(p) /\ p # NoProcess
  BY InstanceAssumption DEF Alone, Alive, Starting, InstanceAssumption
<1>3. Types'
  BY <1>1 DEF Types
<1>4. /\ ipc' = p => ~r.cancelled
      /\ ssh' = p => ~r.cancelled
      /\ \A q \in Process : q # p /\ ipc' = q => ipc = q
      /\ \A q \in Process : q # p /\ ssh' = q => ssh = q
  BY DEF Alone
<1>5. Alone'
  BY <1>2, <1>4, AloneKept
<1>6. ASSUME ~raced'
      PROVE  Serial'
  <2>0. Serial
    BY <1>6
  <2>1. \A q \in Process : q # p => ~Starting(q)
    BY <2>0, <1>2 DEF Serial
  <2>2. /\ \A q \in Process : q # p => ~Starting(q)' /\ proc'[q].todo = {}
        /\ \A q \in Process : proc'[q].pc \notin {"truncate", "write"}
    BY <2>1, <1>1, <1>2 DEF Starting
  <2>7. \A q \in Process : ~Removing(q)' /\ proc'[q].pc # "unlink"
    <3>1. \A q \in Process : ~Removing(q)
      BY <2>0, <1>2 DEF Serial
    <3> QED
      BY <3>1, <1>1, <1>2 DEF Removing
  <2>3. token.of = p /\ (ipc # NoProcess => ipc = p) /\ (ipc' # NoProcess => ipc' = p)
    BY <2>0 DEF Serial
  <2>4. ~r.cancelled => ipc' = p \/ "ipc" \in r.todo
    BY <2>0, <2>3 DEF Serial
  <2>5. ssh # NoProcess => ssh = p
    <3>1. ssh \in Process /\ ssh # p => proc[ssh].todo = {}
      BY <2>1 DEF Starting
    <3> QED
      BY <3>1, <2>0, <2>3, <1>2 DEF Serial, Types
  <2>6. ssh' # NoProcess => ssh' = p /\ ~r.cancelled
    BY <2>5, <1>4
  <2> QED
    BY <2>2, <2>3, <2>4, <2>6, <2>7, <1>1 DEF Serial
<1> QED
  BY <1>3, <1>5, <1>6

(* An orchestrator gives up its ports: it is cancelled, or ends.           *)
LEMMA StopsKeep ==
  ASSUME InstanceInv, NEW p \in Process, NEW r \in ProcType, Becomes(p, r), Closed(p),
         p \in Alive,
         \/ r.pc \in {"refused", "dead"} /\ r.todo = {}
         \/ /\ proc[p].pc \in {"up", "external"} /\ r.pc \in {proc[p].pc, "external", "quit"}
            /\ r.pid = proc[p].pid /\ r.todo = proc[p].todo /\ r.cancelled
            /\ r.pc # "up" => r.todo = {},
         token' = token \/ (token' = NoToken /\ r.pc = "dead" /\ proc[p].pc = "unlink"),
         pidfile' \in Pid \cup {NoPid, BadPid}, stops' \in 0..MaxStops,
         raced' \in BOOLEAN, raced => raced',
         ~raced' /\ r.pc = "quit" => \A q \in Process : q # p => ~Starting(q)
  PROVE  InstanceInv'
<1> USE DEF InstanceInv
<1>1. /\ proc' \in [Process -> ProcType] /\ proc'[p] = r
      /\ \A q \in Process : q # p => proc'[q] = proc[q]
  BY Became
<1>2. /\ ipc' # p /\ ssh' # p
      /\ \A q \in Process : q # p => (ipc' = q <=> ipc = q) /\ (ssh' = q <=> ssh = q)
      /\ ipc' \in Process \cup {NoProcess} /\ ssh' \in Process \cup {NoProcess}
  BY InstanceAssumption DEF Closed, Types, InstanceAssumption
<1>3. token' \in TokenType
  BY DEF NoToken, TokenType, Types
<1>4. Types'
  BY <1>1, <1>2, <1>3 DEF Types
<1>5. r.todo # {} => r.pc = "up"
  BY DEF Alone
<1>6. token' = token \/ token'.of = NoProcess
  BY DEF NoToken
<1>7. Alone'
  BY <1>2, <1>5, <1>6, AloneKept
<1>8. ASSUME ~raced'
      PROVE  Serial'
  <2>0. Serial /\ (proc[p].pc = "unlink" => read_token_info \subseteq {proc[p].pid})
    BY <1>8 DEF Serial
  <2>1. \A q \in Process : Starting(q)' => Starting(q)
    BY <1>1, <1>5 DEF Starting
  <2>7. \A q, v \in Process : Starting(q)' => (Starting(v)' => q = v) /\ ~Removing(v)'
    <3>1. CASE r.pc = "quit"
      <4>1. \A q \in Process : ~Starting(q)'
        BY <3>1, <1>1, <1>8, <2>1, <1>5 DEF Starting
      <4> QED
        BY <4>1
    <3>2. CASE r.pc # "quit"
      <4>1. \A q \in Process : Removing(q)' => Removing(q)
        BY <3>2, <1>1 DEF Removing
      <4> QED
        BY <4>1, <2>0, <2>1 DEF Serial
    <3> QED
      BY <3>1, <3>2
  <2>8. ASSUME NEW q \in Process, proc'[q].pc = "unlink"
        PROVE  read_token_info' \subseteq {proc'[q].pid}
    <3>1. q # p /\ proc'[q] = proc[q]
      BY <2>8, <1>1
    <3>2. read_token_info \subseteq {proc[q].pid}
      BY <2>8, <3>1, <2>0 DEF Serial
    <3> QED
      BY <3>1, <3>2 DEF read_token_info, NoToken
  <2>2. ASSUME NEW q \in Process, q # p, q \in Alive, token.of = q
        PROVE  token'.of = q
    <3>1. token.st = "valid" /\ token.pid = proc[q].pid /\ proc[q].pid # proc[p].pid
      BY <2>2, InstanceAssumption DEF Alone, InstanceAssumption
    <3> QED
      BY <3>1, <2>0, <2>2 DEF read_token_info
  <2>3. ASSUME NEW q \in Process, proc'[q].todo # {}
        PROVE  token'.of = q /\ (~proc'[q].cancelled => ipc' = q \/ "ipc" \in proc'[q].todo)
    <3>1. CASE q = p
      BY <3>1, <2>0, <2>3, <1>1 DEF Serial
    <3>2. CASE q # p
      <4>1. proc[q].todo # {} /\ q \in Alive /\ proc'[q] = proc[q]
        BY <3>2, <2>3, <1>1 DEF Alone, Alive
      <4> QED
        BY <3>2, <4>1, <2>0, <2>2, <1>2 DEF Serial
    <3> QED
      BY <3>1, <3>2
  <2>4. \A q \in Process : proc'[q].pc \in {"truncate", "write"} => ipc' = NoProcess
    BY <2>0, <1>1, <1>2 DEF Serial, Closed
  <2>5. ssh' # NoProcess => ipc' = ssh' \/ "ipc" \in proc'[ssh'].todo
    BY <2>0, <1>1, <1>2 DEF Serial
  <2>6. ipc' # NoProcess => token'.of = ipc'
    <3> SUFFICES ASSUME ipc' # NoProcess PROVE token'.of = ipc'
      OBVIOUS
    <3>1. ipc' \in Process /\ ipc' # p /\ ipc = ipc'
      BY <1>2
    <3>2. ipc \in Alive /\ token.of = ipc
      BY <3>1, <2>0 DEF Serial, Alone, Alive
    <3> QED
      BY <3>1, <3>2, <2>2
  <2> QED
    BY <2>7, <2>8, <2>3, <2>4, <2>5, <2>6 DEF Serial
<1> QED
  BY <1>4, <1>7, <1>8

(* A desktop that quits has read the token: it is its own, or does not     *)
(* parse.                                                                  *)
LEMMA OwnerRead ==
  ASSUME InstanceInv, NEW p \in Process, NEW r \in ProcType, Becomes(p, r),
         proc[p].pc = "quit", r.pc = "unlink", read_token_info \subseteq {proc[p].pid},
         r.pid = proc[p].pid, r.todo = proc[p].todo,
         UNCHANGED <<token, pidfile, ipc, ssh, stops, raced>>
  PROVE  InstanceInv'
<1> USE DEF InstanceInv
<1>1. /\ proc' \in [Process -> ProcType] /\ proc'[p] = r
      /\ \A q \in Process : q # p => proc'[q] = proc[q]
  BY Became
<1>2. Types'
  BY <1>1 DEF Types
<1>3. /\ r.todo = {} /\ ipc # p /\ ssh # p /\ p \in Alive
  BY DEF Alone, Alive
<1>4. Alone'
  BY <1>3, AloneKept
<1>5. ASSUME ~raced'
      PROVE  Serial'
  <2>0. Serial
    BY <1>5
  <2>1. \A q \in Process : (Starting(q)' => Starting(q)) /\ (Removing(q)' => Removing(q))
    BY <1>1, <1>3 DEF Starting, Removing
  <2>2. \A q, v \in Process : Starting(q)' => (Starting(v)' => q = v) /\ ~Removing(v)'
    BY <2>0, <2>1 DEF Serial
  <2>3. \A q \in Process : proc'[q].pc = "unlink" => read_token_info' \subseteq {proc'[q].pid}
    BY <2>0, <1>1 DEF Serial, read_token_info
  <2>4. \A q \in Process :
          /\ proc'[q].todo # {} => token'.of = q
          /\ proc'[q].todo # {} /\ ~proc'[q].cancelled => ipc' = q \/ "ipc" \in proc'[q].todo
          /\ proc'[q].pc \in {"truncate", "write"} => ipc' = NoProcess
    BY <2>0, <1>1, <1>3 DEF Serial
  <2>5. ssh' # NoProcess => ipc' = ssh' \/ "ipc" \in proc'[ssh'].todo
    BY <2>0, <1>1, <1>3 DEF Serial, Types
  <2>6. ipc' # NoProcess => token'.of = ipc'
    BY <2>0 DEF Serial
  <2> QED
    BY <2>2, <2>3, <2>4, <2>5, <2>6 DEF Serial
<1> QED
  BY <1>2, <1>4, <1>5

LEMMA InitInstance == Init => InstanceInv
<1> SUFFICES ASSUME Init PROVE InstanceInv
  OBVIOUS
<1>1. NotRunning \in ProcType /\ NoToken \in TokenType /\ 0 \in 0..MaxStops
  BY InstanceAssumption DEF NotRunning, NoToken, ProcType, TokenType, Pc, Step, InstanceAssumption
<1>2. Types
  BY <1>1 DEF Init, Types
<1>3. /\ \A p \in Process : proc[p].pc = "dead" /\ proc[p].todo = {} /\ ipc # p /\ ssh # p
      /\ token.of = NoProcess /\ ipc = NoProcess /\ ssh = NoProcess
  BY InstanceAssumption DEF Init, NotRunning, NoToken, InstanceAssumption
<1>4. Alone
  BY <1>3 DEF Alone, Alive
<1>5. Serial
  BY <1>3 DEF Serial, Starting, Removing
<1> QED
  BY <1>2, <1>4, <1>5 DEF InstanceInv

LEMMA StartInstance ==
  ASSUME InstanceInv, NEW p \in Process, Start(p) \/ StartEmbedded(p)
  PROVE  InstanceInv'
<1> USE DEF InstanceInv
<1>0. proc[p] \in ProcType
  BY DEF Types
<1>1. CASE StartEmbedded(p)
  <2> DEFINE r == [proc[p] EXCEPT !.pc = "token"]
  <2>1. /\ Becomes(p, r) /\ proc[p].pc = "external" /\ raced' = Overlap(p)
        /\ UNCHANGED <<token, pidfile, ipc, ssh, stops>>
    BY <1>1 DEF StartEmbedded, Goto, Becomes
  <2>2. /\ r \in ProcType /\ r.pc = "token" /\ r.pid = proc[p].pid /\ r.todo = proc[p].todo
        /\ r.cancelled = proc[p].cancelled
    BY <1>0, SetPc DEF Pc
  <2> HIDE DEF r
  <2>3. proc' \in [Process -> ProcType]
    BY <2>1, <2>2, Became
  <2>4. raced' \in BOOLEAN
    BY <2>1 DEF Overlap, Types
  <2>5. Types'
    BY <2>1, <2>3, <2>4 DEF Types
  <2>6. p \in Alive /\ r.todo = {} /\ ipc # p /\ ssh # p
    BY <2>1, <2>2 DEF Alive, Alone
  <2>7. Alone'
    BY <2>1, <2>2, <2>6, AloneKept
  <2> QED
    BY <2>1, <2>2, <2>5, <2>7, StartsKeep
<1>2. CASE Start(p)
  <2>1. PICK pc \in {"check", "init", "token", "idle"}, pid \in Pid :
          /\ p \notin Alive /\ ~is_process_alive(pid)
          /\ proc' = [proc EXCEPT ![p].pid = pid, ![p].pc = pc]
          /\ token' = [token EXCEPT !.of = IF @ = p THEN NoProcess ELSE @]
          /\ raced' = IF pc = "idle" THEN raced ELSE Overlap(p)
          /\ UNCHANGED <<pidfile, ipc, ssh, stops>>
    BY <1>2 DEF Start, StartDaemon, StartCli, StartDesktop, StartOther, Started
  <2> DEFINE r == [proc[p] EXCEPT !.pid = pid, !.pc = pc]
  <2>2. Becomes(p, r)
    BY <2>1 DEF Becomes, Types
  <2>3. /\ r \in ProcType /\ r.pc = pc /\ r.pid = pid /\ r.todo = proc[p].todo
        /\ r.cancelled = proc[p].cancelled
    <3>1. pc \in Pc
      BY DEF Pc
    <3> QED
      BY <3>1, <1>0 DEF ProcType
  <2> HIDE DEF r
  <2>4. /\ proc' \in [Process -> ProcType] /\ proc'[p] = r
        /\ \A q \in Process : q # p => proc'[q] = proc[q]
    BY <2>2, <2>3, Became
  <2>5. /\ token' \in TokenType /\ token'.st = token.st /\ token'.pid = token.pid
        /\ token'.of = IF token.of = p THEN NoProcess ELSE token.of
    BY <2>1 DEF TokenType, Types
  <2>6. raced' \in BOOLEAN
    BY <2>1 DEF Overlap, Types
  <2>7. Types'
    BY <2>1, <2>4, <2>5, <2>6 DEF Types
  <2>8. proc[p].pc \in {"refused", "dead"} /\ proc[p].todo = {} /\ ipc # p /\ ssh # p
    BY <2>1 DEF Alive, Alone
  <2>9. Alone'
    <3>1. \A q \in Process :
            /\ proc'[q].todo # {} \/ ipc' = q \/ ssh' = q => proc'[q].pc = "up"
            /\ ipc' = q \/ ssh' = q => ~proc'[q].cancelled
      BY <2>1, <2>3, <2>4, <2>8 DEF Alone
    <3>2. \A q \in Alive : q \in Process /\ q # p /\ proc[q].pid # pid
      BY <2>1 DEF is_process_alive, Alive
    <3>3. \A q \in Alive' : q = p \/ (q \in Alive /\ q # p /\ proc'[q] = proc[q])
      BY <2>4 DEF Alive
    <3>4. \A q, v \in Alive' : proc'[q].pid = proc'[v].pid => q = v
      BY <3>2, <3>3, <2>3, <2>4 DEF Alone
    <3>5. token'.of # NoProcess => token'.st = "valid"
      BY <2>5 DEF Alone
    <3>6. token'.of \in Alive' => token'.pid = proc'[token'.of].pid
      BY <2>5, <3>3, InstanceAssumption DEF Alone, Alive, InstanceAssumption
    <3> QED
      BY <3>1, <3>4, <3>5, <3>6 DEF Alone
  <2>10. CASE pc = "idle"
    BY <2>10, <2>1, <2>2, <2>3, <2>5, <2>7, <2>8, <2>9, OtherKeeps
  <2>11. CASE pc # "idle"
    BY <2>11, <2>1, <2>2, <2>3, <2>5, <2>7, <2>8, <2>9, StartsKeep
  <2> QED
    BY <2>10, <2>11
<1> QED
  BY <1>1, <1>2

LEMMA LookInstance ==
  ASSUME InstanceInv, NEW p \in Process,
         \/ CheckPidFile(p) \/ PingExisting(p) \/ RemovePidFile(p)
         \/ Initialize(p) \/ ReadToken(p)
  PROVE  InstanceInv'
<1>0. proc[p] \in ProcType /\ pidfile \in Pid \cup {NoPid, BadPid}
  BY DEF InstanceInv, Types
<1>1. PICK pc \in {"decide", "stale", "token", "refused", "external", "truncate"} :
        /\ Goto(p, pc)
        /\ pc = "truncate" => ~LiveOwner
        /\ proc[p].pc \in {"check", "decide", "stale", "init", "token"}
        /\ pidfile' \in {pidfile, NoPid}
        /\ UNCHANGED <<token, ipc, ssh, stops, raced>>
  <2>1. CASE CheckPidFile(p)
    BY <2>1 DEF CheckPidFile
  <2>2. CASE PingExisting(p)
    BY <2>2 DEF PingExisting
  <2>3. CASE Initialize(p)
    BY <2>3 DEF Initialize
  <2>4. CASE ReadToken(p)
    BY <2>4 DEF ReadToken, GiveUp
  <2>5. CASE RemovePidFile(p)
    BY <2>5 DEF RemovePidFile
  <2> QED
    BY <2>1, <2>2, <2>3, <2>4, <2>5
<1> DEFINE r == [proc[p] EXCEPT !.pc = pc]
<1>2. Becomes(p, r)
  BY <1>1 DEF Goto, Becomes
<1>3. /\ r \in ProcType /\ r.pc = pc /\ r.pid = proc[p].pid /\ r.todo = proc[p].todo
      /\ r.cancelled = proc[p].cancelled
  <2>1. pc \in Pc
    BY DEF Pc
  <2> QED
    BY <2>1, <1>0, SetPc
<1>4. pidfile' \in Pid \cup {NoPid, BadPid}
  BY <1>0, <1>1
<1> HIDE DEF r
<1> QED
  BY <1>1, <1>2, <1>3, <1>4, LooksKeep

(* The start that lost its token file fails.                               *)
LEMMA LostInstance ==
  ASSUME InstanceInv, NEW p \in Process, WriteLost(p)
  PROVE  InstanceInv'
<1> USE DEF InstanceInv
<1>0. proc[p] \in ProcType
  BY DEF Types
<1>1. PICK pc \in {"refused", "external"} :
        /\ Goto(p, pc) /\ proc[p].pc = "write"
        /\ UNCHANGED <<token, pidfile, ipc, ssh, stops, raced>>
  BY DEF WriteLost, GiveUp
<1> DEFINE r == [proc[p] EXCEPT !.pc = pc]
<1>2. Becomes(p, r)
  BY <1>1 DEF Goto, Becomes
<1>3. /\ r \in ProcType /\ r.pc = pc /\ r.pid = proc[p].pid /\ r.todo = proc[p].todo
      /\ r.cancelled = proc[p].cancelled
  <2>1. pc \in Pc
    BY DEF Pc
  <2> QED
    BY <2>1, <1>0, SetPc
<1> HIDE DEF r
<1>4. /\ proc' \in [Process -> ProcType] /\ proc'[p] = r
      /\ \A q \in Process : q # p => proc'[q] = proc[q]
  BY <1>2, <1>3, Became
<1>5. Types'
  BY <1>1, <1>4 DEF Types
<1>6. /\ r.todo = {} /\ ipc # p /\ ssh # p /\ p \in Alive
  BY <1>1, <1>3 DEF Alone, Alive
<1>7. Alone'
  BY <1>1, <1>2, <1>3, <1>6, AloneKept
<1>8. ASSUME ~raced'
      PROVE  Serial'
  <2>0. Serial
    BY <1>1, <1>8
  <2>1. \A q \in Process : (Starting(q)' => Starting(q)) /\ (Removing(q)' => Removing(q))
    BY <1>3, <1>4, <1>6 DEF Starting, Removing
  <2>2. \A q, v \in Process : Starting(q)' => (Starting(v)' => q = v) /\ ~Removing(v)'
    BY <2>0, <2>1 DEF Serial
  <2>3. \A q \in Process : proc'[q].pc = "unlink" => read_token_info' \subseteq {proc'[q].pid}
    BY <2>0, <1>1, <1>3, <1>4 DEF Serial, read_token_info
  <2>4. \A q \in Process :
          /\ proc'[q].todo # {} => token'.of = q
          /\ proc'[q].todo # {} /\ ~proc'[q].cancelled => ipc' = q \/ "ipc" \in proc'[q].todo
          /\ proc'[q].pc \in {"truncate", "write"} => ipc' = NoProcess
    BY <2>0, <1>1, <1>3, <1>4, <1>6 DEF Serial
  <2>5. ssh' # NoProcess => ipc' = ssh' \/ "ipc" \in proc'[ssh'].todo
    BY <2>0, <1>1, <1>4, <1>6 DEF Serial, Types
  <2>6. ipc' # NoProcess => token'.of = ipc'
    BY <2>0, <1>1 DEF Serial
  <2> QED
    BY <2>2, <2>3, <2>4, <2>5, <2>6 DEF Serial
<1> QED
  BY <1>5, <1>7, <1>8

LEMMA StepInstance ==
  ASSUME InstanceInv, NEW p \in Process,
         \/ BindIpc(p) \/ CreatePidFile(p) \/ WritePidFile(p) \/ BindSshEmbedded(p)
         \/ BindSsh(p) /\ ssh = NoProcess
  PROVE  InstanceInv'
<1>0. /\ proc[p] \in ProcType /\ pidfile \in Pid \cup {NoPid, BadPid}
      /\ proc[p].pid \in Pid \cup {NoPid} /\ proc[p].todo \subseteq Step
  BY ProcFields DEF InstanceInv, Types
<1>1. PICK todo \in SUBSET Step :
        /\ Becomes(p, [proc[p] EXCEPT !.todo = todo]) /\ proc[p].todo # {}
        /\ \/ /\ "ipc" \in proc[p].todo /\ ssh' = ssh
              /\ ipc' = IF ipc = NoProcess /\ ~proc[p].cancelled THEN p ELSE ipc
           \/ /\ "ipc" \in proc[p].todo <=> "ipc" \in todo
              /\ ipc' = ipc /\ ssh' = IF ssh = NoProcess /\ ~proc[p].cancelled THEN p ELSE ssh
           \/ /\ "ipc" \in proc[p].todo <=> "ipc" \in todo
              /\ ipc' = ipc /\ ssh' = ssh
        /\ pidfile' \in {pidfile, NoPid, BadPid, proc[p].pid}
        /\ UNCHANGED <<token, stops, raced>>
  <2> DEFINE left(x) == proc[p].todo \ {x}
             num == (proc[p].todo \ {"pid"}) \cup {"number"}
  <2>0. (\A x : left(x) \in SUBSET Step) /\ num \in SUBSET Step
    BY <1>0 DEF Step
  <2>1. CASE BindIpc(p)
    <3>1. Becomes(p, [proc[p] EXCEPT !.todo = left("ipc")])
      BY <2>1 DEF BindIpc, StepDone, Becomes
    <3> QED
      BY <2>0, <2>1, <3>1 DEF BindIpc
  <2>2. CASE CreatePidFile(p)
    <3>1. Becomes(p, [proc[p] EXCEPT !.todo = num])
      BY <2>2 DEF CreatePidFile, Becomes
    <3> QED
      BY <2>0, <2>2, <3>1 DEF CreatePidFile
  <2>3. CASE WritePidFile(p)
    <3>1. Becomes(p, [proc[p] EXCEPT !.todo = left("number")])
      BY <2>3 DEF WritePidFile, StepDone, Becomes
    <3> QED
      BY <2>0, <2>3, <3>1 DEF WritePidFile
  <2>4. CASE BindSshEmbedded(p)
    <3>1. Becomes(p, [proc[p] EXCEPT !.todo = left("ssh")])
      BY <2>4 DEF BindSshEmbedded, StepDone, Becomes
    <3> QED
      BY <2>0, <2>4, <3>1 DEF BindSshEmbedded, MayBindSsh
  <2>5. CASE BindSsh(p) /\ ssh = NoProcess
    <3>1. Becomes(p, [proc[p] EXCEPT !.todo = left("ssh")])
      BY <2>5 DEF BindSsh, StepDone, Becomes
    <3> QED
      BY <2>0, <2>5, <3>1 DEF BindSsh, MayBindSsh
  <2> QED
    BY <2>1, <2>2, <2>3, <2>4, <2>5
<1> DEFINE r == [proc[p] EXCEPT !.todo = todo]
<1>2. /\ r \in ProcType /\ r.pc = proc[p].pc /\ r.pid = proc[p].pid /\ r.todo = todo
      /\ r.cancelled = proc[p].cancelled
  BY <1>0, SetTodo
<1>3. pidfile' \in Pid \cup {NoPid, BadPid} /\ Becomes(p, r)
  BY <1>0, <1>1
<1> HIDE DEF r
<1> QED
  BY <1>1, <1>2, <1>3, StartupKeeps

LEMMA StopInstance ==
  ASSUME InstanceInv, NEW p \in Process,
         \/ BindSsh(p) /\ ssh # NoProcess
         \/ Shutdown(p) \/ Exit(p) \/ Killed(p) \/ StopEmbedded(p)
         \/ Quit(p) \/ remove_token(p) \/ UnlinkToken(p)
  PROVE  InstanceInv'
<1>0. /\ proc[p] \in ProcType /\ pidfile \in Pid \cup {NoPid, BadPid} /\ stops \in 0..MaxStops
      /\ MaxStops \in Nat
  BY InstanceAssumption DEF InstanceInv, Types, InstanceAssumption
<1>u. proc[p].pc \in {"up", "external", "quit", "unlink"} => p \in Alive
  BY DEF Alive
<1>e. ASSUME NEW how \in {"refused", "dead"}, Ends(p, how), p \in Alive,
             \/ UNCHANGED token
             \/ how = "dead" /\ token' = NoToken /\ proc[p].pc = "unlink",
             pidfile' \in {pidfile, NoPid}, UNCHANGED <<stops, raced>>
      PROVE  InstanceInv'
  <2> DEFINE r == [NotRunning EXCEPT !.pc = how]
  <2>1. Becomes(p, r) /\ Closed(p)
    BY <1>e DEF Ends, Becomes
  <2>2. r \in ProcType /\ r.pc = how /\ r.todo = {}
    BY <1>e, SetEnded
  <2> HIDE DEF r
  <2>3. token' = token \/ (token' = NoToken /\ r.pc = "dead" /\ proc[p].pc = "unlink")
    BY <1>e, <2>2
  <2>4. /\ pidfile' \in Pid \cup {NoPid, BadPid} /\ stops' \in 0..MaxStops
        /\ raced' \in BOOLEAN /\ (raced => raced') /\ r.pc # "quit"
    BY <1>0, <1>e, <2>2 DEF InstanceInv, Types
  <2> QED
    BY <1>e, <2>1, <2>2, <2>3, <2>4, StopsKeep
<1>1. CASE BindSsh(p) /\ ssh # NoProcess
  <2>1. p \in Alive
    BY <1>1, <1>u DEF BindSsh, MayBindSsh, InstanceInv, Alone
  <2> QED
    BY <1>1, <2>1, <1>e DEF BindSsh, PidFileGuard_drop
<1>2. CASE Exit(p)
  BY <1>2, <1>u, <1>e DEF Exit, PidFileGuard_drop
<1>3. CASE Killed(p)
  BY <1>3, <1>e DEF Killed
<1>4. CASE Quit(p)
  <2> DEFINE r == [proc[p] EXCEPT !.pc = "quit", !.cancelled = TRUE, !.running = FALSE]
  <2>1. /\ Closed(p) /\ proc[p].pc \in {"up", "external"} /\ proc[p].todo = {}
        /\ raced' = (raced \/ \E q \in Process \ {p} : Starting(q))
        /\ UNCHANGED <<token, pidfile, stops>>
    BY <1>4 DEF Quit
  <2>2. Becomes(p, r)
    BY <1>4 DEF Quit, Becomes, InstanceInv, Types
  <2>3. r \in ProcType /\ r.pc = "quit" /\ r.pid = proc[p].pid /\ r.todo = proc[p].todo
    BY <1>0 DEF ProcType, Pc
  <2>4. r.cancelled
    BY <1>0 DEF ProcType
  <2> HIDE DEF r
  <2>5. pidfile' \in Pid \cup {NoPid, BadPid} /\ stops' \in 0..MaxStops
    BY <1>0, <2>1
  <2>6. /\ raced' \in BOOLEAN /\ (raced => raced')
        /\ ~raced' => \A q \in Process : q # p => ~Starting(q)
    BY <2>1 DEF InstanceInv, Types
  <2> QED
    BY <1>u, <2>1, <2>2, <2>3, <2>4, <2>5, <2>6, StopsKeep
<1>7. CASE remove_token(p)
  <2>1. CASE Ends(p, "dead")
    BY <1>7, <2>1, <1>u, <1>e DEF remove_token
  <2>2. CASE read_token_info \subseteq {proc[p].pid}
    <3> DEFINE r == [proc[p] EXCEPT !.pc = "unlink"]
    <3>1. /\ Becomes(p, r) /\ proc[p].pc = "quit"
          /\ UNCHANGED <<token, pidfile, ipc, ssh, stops, raced>>
      BY <1>7, <2>2 DEF remove_token, Goto, Becomes
    <3>2. r \in ProcType /\ r.pc = "unlink" /\ r.pid = proc[p].pid /\ r.todo = proc[p].todo
      BY <1>0, SetPc DEF Pc
    <3> HIDE DEF r
    <3> QED
      BY <2>2, <3>1, <3>2, OwnerRead
  <2> QED
    BY <1>7, <2>1, <2>2 DEF remove_token
<1>8. CASE UnlinkToken(p)
  BY <1>8, <1>u, <1>e DEF UnlinkToken
<1>5. CASE Shutdown(p)
  <2> DEFINE r == [proc[p] EXCEPT !.cancelled = TRUE]
  <2>1. /\ Becomes(p, r) /\ Closed(p) /\ proc[p].pc = "up"
        /\ UNCHANGED <<token, pidfile, stops, raced>>
    BY <1>5 DEF Shutdown, Becomes
  <2>2. r \in ProcType /\ r.pc = proc[p].pc /\ r.pid = proc[p].pid /\ r.todo = proc[p].todo
    BY <1>0, SetCancelled
  <2>3. r.cancelled
    BY <1>0 DEF ProcType
  <2> HIDE DEF r
  <2>4. /\ pidfile' \in Pid \cup {NoPid, BadPid} /\ stops' \in 0..MaxStops
        /\ raced' \in BOOLEAN /\ (raced => raced')
    BY <1>0, <2>1 DEF InstanceInv, Types
  <2>5. r.pc # "quit" /\ (r.pc # "up" => r.todo = {})
    BY <2>1, <2>2
  <2> QED
    BY <1>u, <2>1, <2>2, <2>3, <2>4, <2>5, StopsKeep
<1>6. CASE StopEmbedded(p)
  <2>1. PICK by_ipc \in BOOLEAN :
          proc' = [proc EXCEPT ![p].cancelled = TRUE, ![p].running = by_ipc,
                               ![p].pc = IF by_ipc THEN @ ELSE "external"]
    BY <1>6 DEF StopEmbedded
  <2>2. PICK pc \in {"up", "external"} : pc = IF by_ipc THEN "up" ELSE "external"
    BY <1>6 DEF StopEmbedded
  <2> DEFINE r == [proc[p] EXCEPT !.cancelled = TRUE, !.running = by_ipc, !.pc = pc]
  <2>3. /\ Closed(p) /\ proc[p].pc = "up" /\ proc[p].todo = {} /\ UNCHANGED <<token, pidfile, raced>>
        /\ stops < MaxStops /\ stops' = stops + 1
    BY <1>6 DEF StopEmbedded
  <2>4. Becomes(p, r)
    <3>1. proc' = [proc EXCEPT ![p] =
                     [proc[p] EXCEPT !.cancelled = TRUE, !.running = by_ipc,
                                     !.pc = IF by_ipc THEN proc[p].pc ELSE "external"]]
      BY <2>1 DEF InstanceInv, Types
    <3>2. pc = IF by_ipc THEN proc[p].pc ELSE "external"
      BY <2>2, <2>3
    <3> QED
      BY <3>1, <3>2 DEF Becomes
  <2>5. r \in ProcType /\ r.pc = pc /\ r.pid = proc[p].pid /\ r.todo = proc[p].todo
    BY <1>0 DEF ProcType, Pc
  <2>6. r.cancelled
    BY <1>0 DEF ProcType
  <2> HIDE DEF r
  <2>7. /\ pidfile' \in Pid \cup {NoPid, BadPid} /\ stops' \in 0..MaxStops
        /\ raced' \in BOOLEAN /\ (raced => raced')
    BY <1>0, <2>3 DEF InstanceInv, Types
  <2> QED
    BY <1>u, <2>3, <2>4, <2>5, <2>6, <2>7, StopsKeep
<1> QED
  BY <1>1, <1>2, <1>3, <1>4, <1>5, <1>6, <1>7, <1>8

(* Along every execution in which no startup has overlapped another one or *)
(* a token's removal, what each process knows of the token file and the    *)
(* ports is so (ipc_auth.rs, IpcServer::new).                              *)
THEOREM InstanceInvariance == Spec => []InstanceInv
<1>1. InstanceInv /\ [Next]_vars => InstanceInv'
  <2> SUFFICES ASSUME InstanceInv, [Next]_vars PROVE InstanceInv'
    OBVIOUS
  <2>1. ASSUME NEW p \in Process, Start(p) \/ StartEmbedded(p)
        PROVE  InstanceInv'
    BY <2>1, StartInstance
  <2>2. ASSUME NEW p \in Process, Startup(p)
        PROVE  InstanceInv'
    BY <2>2, LookInstance, TokenReplaced, LostInstance, StepInstance, StopInstance DEF Startup
  <2>3. ASSUME NEW p \in Process,
               \/ Shutdown(p) \/ Exit(p) \/ Killed(p) \/ StopEmbedded(p)
               \/ Quit(p) \/ remove_token(p) \/ UnlinkToken(p)
        PROVE  InstanceInv'
    BY <2>3, StopInstance
  <2>4. CASE UNCHANGED vars
    BY <2>4 DEF vars, InstanceInv, Types, Alone, Alive, Serial, Starting, Removing, read_token_info
  <2> QED
    BY <2>1, <2>2, <2>3, <2>4 DEF Next
<1> QED
  BY <1>1, InitInstance, PTL DEF Spec

(* As long as no startup has overlapped another one, or the removal of the *)
(* token by a desktop that quits, clients find the token of whoever serves *)
(* IPC, and one orchestrator holds both ports (ipc_auth.rs,                *)
(* IpcServer::new), whatever ends at whatever step.                        *)
THEOREM SerialStartsSafe == Spec => []SerialStartsAgree
<1>1. InstanceInv => SerialStartsAgree
  <2> SUFFICES ASSUME InstanceInv, ~raced, ipc # NoProcess
               PROVE  /\ token.st = "valid" /\ token.of = ipc
                      /\ ssh # NoProcess => ipc = ssh
    BY DEF SerialStartsAgree
  <2>1. token.of = ipc /\ token.st = "valid"
    BY DEF InstanceInv, Serial, Alone
  <2>2. ssh # NoProcess => ipc = ssh
    BY <2>1 DEF InstanceInv, Serial, Types
  <2> QED
    BY <2>1, <2>2
<1> QED
  BY <1>1, InstanceInvariance, PTL
===============================================================================
