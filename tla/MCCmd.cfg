SPECIFICATION FairSpec
CONSTANTS
  s1 = s1
  s2 = s2
  none = none
  Specs = {s1, s2}
  NoSpec = none
  Kinds = {"local", "startOn", "plain"}
  Probes = {"none", "valid", "invalid"}
  Bound <- MCBound
INVARIANTS
  TypeOK
  OneProcess
  RunsHaveCauses
  ForcedResultIsOwn
PROPERTIES
  CommandSettles
  ClicksAreServed
CHECK_DEADLOCK FALSE
