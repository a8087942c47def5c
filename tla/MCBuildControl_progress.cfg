SPECIFICATION FairSpec
CONSTANTS
  lint = lint
  web = web
  db = db
  t1 = t1
  t2 = t2
  Manifests = {lint, web}
  Targets = {t1}
  Specs <- OneTarget
  Local = {lint}
  AllowParallel = {}
  UnresourcedYAML = {}
  AutoInitial = {lint}
  AutoOnChange = {lint, web}
  ResourceDependencies <- WebAfterLint
  MaxParallelUpdates = 2
  BuildsMayFail = TRUE
  MaxEdits = 1
  MaxTriggers = 1
  MaxUpserts = 0
  MaxClicks = 0
  MaxReloads = 0
INVARIANTS
  NoEditLost
  HoldsAreKept
PROPERTIES
  EverythingIsBuilt
CHECK_DEADLOCK FALSE
