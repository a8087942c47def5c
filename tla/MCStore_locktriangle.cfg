SPECIFICATION FairSpec
CONSTANTS
  p1 = p1
  p2 = p2
  Loop = Loop
  Producers = {p1, p2}
  Subscribers = {p2}
  ReadLockers = {p2}
  MaxQueuedLogBytes = 0
  MaxPayload = 1
  Kinds <- LogsOf
  TerminalModeHUD = FALSE
  Closing = FALSE
  Cancelling = FALSE
PROPERTY
  LockIsGranted
CHECK_DEADLOCK FALSE
