SPECIFICATION FairSpec
CONSTANTS
  s1 = s1
  s2 = s2
  Specs = {s1, s2}
  MaxFileEventHistory = 2
  Slack = 1
  Bounds <- MCBounds
INVARIANTS
  TypeOK
  OnlyOneWatch
  NoFalseAlarm
  NoChangeTwice
PROPERTIES
  ReportsSettle
  WatchComesBack
CHECK_DEADLOCK FALSE
