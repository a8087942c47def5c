SPECIFICATION FairSpec
CONSTANTS
  p1 = p1
  p2 = p2
  Loop = Loop
  Producers = {p1, p2}
  Subscribers = {p2}
  ReadLockers = {p2}
  MaxQueuedLogBytes = 0
  MaxPayload = 1
  Kinds <- KindsOf
  TerminalModeHUD = TRUE
  Closing = TRUE
  Cancelling = TRUE
INVARIANTS
  TypeOK
  WaitersSound
  NoStrandedWork
  BudgetSound
PROPERTIES
  IsActionStream
  DispatchReturns
  AcceptedIsReduced
  LoopReturns
CHECK_DEADLOCK FALSE
