SPECIFICATION FairSpec
CONSTANTS
  base = base
  deploy = deploy
  Sources = {base, deploy}
  DeployImage = deploy
  Scenarios <- AllScenarios
INVARIANTS
  TypeOK
  MarksAreHonest
PROPERTIES
  NoOtherEditIsLost
CHECK_DEADLOCK FALSE
