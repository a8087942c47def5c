SPECIFICATION FairSpec
CONSTANTS
  base = base
  deploy = deploy
  Sources = {base, deploy}
  DeployImage = deploy
  Scenarios <- JustEdits
PROPERTIES
  EditsArrive
CHECK_DEADLOCK FALSE
