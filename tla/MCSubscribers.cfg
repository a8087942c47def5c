SPECIFICATION FairSpec
CONSTANTS
  s1 = s1
  s2 = s2
  ws = ws
  Subs = {s1, s2, ws}
  Static <- MCStatic
  SetUppers = {s1, s2, ws}
  TearDowners = {s1, s2, ws}
  MaxBackoff = 1
  Failing = {ws}
  MaxChanges = 2
  SetUpMayFail = TRUE
INVARIANTS
  TypeOK
  NotificationsSound
  LifecycleSound
  ToldExactlyWhatIsDue
PROPERTIES
  BackoffIsKept
  NobodyIsStuck
CHECK_DEADLOCK FALSE
