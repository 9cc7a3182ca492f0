SPECIFICATION LockSpec
CONSTANTS
  p1 = p1
  p2 = p2
  p3 = p3
  Process <- MCProcess
  NoProcess = NoProcess
INVARIANTS
  OwnerNamesHolder
PROPERTIES
  ImplementsMutex
  NoLeak
