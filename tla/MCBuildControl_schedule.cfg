SPECIFICATION Spec
CONSTANTS
  lint = lint
  web = web
  db = db
  t1 = t1
  t2 = t2
  Manifests = {web, db}
  Targets = {t1}
  Specs <- OneTarget
  Local = {}
  AllowParallel = {}
  UnresourcedYAML = {db}
  AutoInitial = {web, db}
  AutoOnChange = {web, db}
  ResourceDependencies <- Independent
  MaxParallelUpdates = 1
  BuildsMayFail = FALSE
  MaxEdits = 0
  MaxTriggers = 2
  MaxUpserts = 1
  MaxClicks = 1
  MaxReloads = 1
CONSTRAINT
  TwoEvents
INVARIANTS
  TypeOK
  SchedulingSound
  NeverWedged
  SlotsAreReturned
CHECK_DEADLOCK FALSE
