SPECIFICATION Spec
CONSTANTS
  HostThreads = {h1, h2}
  ScriptThreads = {s}
  NoThread = NoThread
  Ids = {i1, i2, i3}
  NoId = NoId
  OwnersStay = FALSE
INVARIANTS
  OnlyTheOwnerEnters
CHECK_DEADLOCK FALSE
