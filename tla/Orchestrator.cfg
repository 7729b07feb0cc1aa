SPECIFICATION FairSpec
CONSTANTS
  m1 = m1
  c1 = c1
  c2 = c2
  k1 = k1
  k2 = k2
  alice = alice
  NoConn = NoConn
  NoClient = NoClient
  Machine = {m1}
  Conn = {c1}
  MachineOf <- MCMachineOf
  IpcConn = {k1}
  Client = {alice}
  ClientOf <- MCClientOf
  MaxSession = 1
  EventCap = 1
  CmdCap = 1
  Start = 40000
  TickMillis = 40000
  MaxNow = 40000
  Grace = 0
CHECK_DEADLOCK FALSE
INVARIANTS TypeOK ClosedOnce ClosedIsGone RemovedIsClosed DeadEntryHasNotice
PROPERTIES ImplementsLifecycle ClosingIsRemoved DeadConnectionEvicted
