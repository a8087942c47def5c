SPECIFICATION FairSpec
CONSTANTS
  base = base
  deploy = deploy
  Sources = {base, deploy}
  DeployImage = deploy
  Scenarios <- InfraTrouble
PROPERTIES
  EditsArrive
CHECK_DEADLOCK FALSE
