SPECIFICATION ChurnSpec
CONSTANTS
  m1 = m1
  c1 = c1
  c2 = c2
  k1 = k1
  k2 = k2
  alice = alice
  NoConn = NoConn
  NoClient = NoClient
  Machine = {m1}
  Conn = {c1, c2}
  MachineOf <- MCMachineOf
  IpcConn = {k1}
  Client = {alice}
  ClientOf <- MCClientOf
  MaxSession = 1
  EventCap = 2
  CmdCap = 1
  Start = 40000
  TickMillis = 20000
  MaxNow = 40000
  Grace = 30000
CHECK_DEADLOCK FALSE
INVARIANTS RemovedIsClosed DeadEntryHasNotice
