SPECIFICATION Spec
CONSTANTS
  lint = lint
  web = web
  db = db
  t1 = t1
  t2 = t2
  Manifests = {web}
  Targets = {t1, t2}
  Specs <- AllTargets
  Local = {}
  AllowParallel = {}
  UnresourcedYAML = {}
  AutoInitial = {web}
  AutoOnChange = {web}
  ResourceDependencies <- Independent
  MaxParallelUpdates = 2
  BuildsMayFail = FALSE
  MaxEdits = 2
  MaxTriggers = 0
  MaxUpserts = 0
  MaxClicks = 0
  MaxReloads = 0
INVARIANTS
  NoEditLost
CHECK_DEADLOCK FALSE
