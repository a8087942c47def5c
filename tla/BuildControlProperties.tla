----------------------- MODULE BuildControlProperties -----------------------
(***************************************************************************)
(* What the build scheduler promises.                                      *)
(***************************************************************************)
EXTENDS BuildControl

Phases == {"spawned", "running", "completed"}

Build(phases) ==
  [m : Manifests, start : Nat, rebuilt : SUBSET Targets,
   edits : SUBSET Targets, config : BOOLEAN, phase : phases,
   canceled : BOOLEAN]

Msg == [what : {"started", "complete"}, m : Manifests, start : Nat,
        rebuilt : SUBSET Targets, edits : SUBSET Targets, config : BOOLEAN,
        ok : BOOLEAN, done : SUBSET Targets]

Load == [at : Nat, keep : SUBSET Manifests, invalid : SUBSET Manifests]

Times == [Manifests -> [Targets -> Nat]]

\* The types of the state; no resource is in the trigger queue twice, and the
\* decision that is about to be dispatched names a resource.
TypeOK ==
  /\ now \in Nat /\ loaded \subseteq Manifests
  /\ disableState \in [Manifests -> {"pending", "enabled", "disabled"}]
  /\ current \in [Manifests -> [start : Nat, edits : SUBSET Targets]]
  /\ history \in [Manifests -> BOOLEAN] /\ ready \in [Manifests -> BOOLEAN]
  /\ manifestChange \in [Manifests -> Nat]
  /\ changed \in Times /\ consumed \in [Manifests -> Nat]
  /\ lastResult \in Times
  /\ triggerQueue \in Seq(Manifests) /\ IsInjective(triggerQueue)
  /\ triggered \in [Manifests -> BOOLEAN]
  /\ buildSet \subseteq Manifests /\ startCount \in Nat
  /\ tiltfile \in [pending : BOOLEAN, load : Load]
  /\ clicked \in [Manifests -> Nat]
  /\ queue \in Seq(Msg)
  /\ controller \in {"idle", "cleaned", "decided"} /\ notified \in BOOLEAN
  /\ entry \in IF controller = "decided" THEN Build({"decided"}) ELSE {NoEntry}
  /\ startedCount \in Nat /\ stopFns \in [Manifests -> Nat]
  /\ builds \subseteq Build(Phases)
  /\ seen \in Times /\ asked \subseteq Manifests
  /\ edited \in Times /\ attempted \in Times

\* The builds that have been decided on and are not through.
Busy == {b \in builds : b.phase # "completed"}
          \cup (IF controller = "decided" THEN {entry} ELSE {})

\* There are never more builds than slots, although a slot is only taken when
\* the start of the build is reduced, some time after it was decided on.
SlotLimit == Cardinality(Busy) <= MaxParallelUpdates

\* No resource is built twice at a time: OnChange does not "accidentally
\* repeat the same build" (buildcontroller.go:59-60).
OneBuildAtATime == \A b, c \in Busy : b.m = c.m => b = c

\* A local resource without allow_parallel is built alone.
LocalBuildsAlone ==
  \A b \in Busy : b.m \in Unparallelizable => Busy = {b}

\* The scheduler waits for a start to be recorded only while that start is on
\* its way: whatever happens to the resource meanwhile, it does not wait
\* forever.
NeverWedged ==
  startedCount > startCount =>
    \/ controller = "decided"
    \/ \E i \in DOMAIN queue : queue[i].what = "started"

\* When all builds are over and recorded, all slots are free again, also
\* those of resources that the Tiltfile dropped while they were built.
SlotsAreReturned ==
  (Busy = {} /\ queue = <<>>) => buildSet = {}

\* What is there to build says that a resource is up to date only if every
\* edit it was told of was on disk when the last build of that target began:
\* no interleaving of file events with the decision, the start and the
\* completion of a build makes an edit look built.
NoEditLost ==
  \A m \in loaded :
    (StartedFirstBuild(m) /\ ~IsBuilding(m) /\ PendingTimes(m) = {})
      => \A t \in Specs[m] : edited[m][t] <= attempted[m][t]

\* A resource waits in the trigger queue if and only if it has the trigger as
\* a reason to be built: whatever stops, disables or starts it keeps the two
\* in step.
TriggeredIffQueued ==
  \A m \in Manifests : triggered[m] <=> m \in ToSet(triggerQueue)

\* As long as the Tiltfile has not been loaded again, there are never more
\* builds than slots, no resource is built twice at a time, and the trigger
\* queue is in step with the reasons to build.
SchedulingSound ==
  used["reload"] = 0 => SlotLimit /\ OneBuildAtATime /\ TriggeredIffQueued

\* The first build of a resource starts only after those it depends on were
\* built with success.
DependenciesFirst ==
  \A m \in loaded : StartedFirstBuild(m) =>
    \A d \in ResourceDependencies[m] : ready[d]

\* So what holds a build back is respected until the build is over, although
\* it is looked at before the build starts.
HoldsAreKept == DependenciesFirst /\ LocalBuildsAlone

-----------------------------------------------------------------------------
\* Every pending change of an automatic resource is built, also when builds
\* fail, unless it waits for a resource it depends on: each change of the state
\* that frees a slot or ends a hold notifies the scheduler, and one notification
\* starts at most one build.
ChangesAreBuilt ==
  \A m \in AutoOnChange :
    PendingTimes(m) # {} ~> (PendingTimes(m) = {} \/ WaitingOnDependencies(m))

\* Every accepted trigger is served, also when the resource is being built.
TriggersAreServed ==
  \A m \in Manifests :
    m \in ToSet(triggerQueue)
      ~> (m \notin ToSet(triggerQueue) \/ WaitingOnDependencies(m))

\* So whatever there is to build is built.
EverythingIsBuilt == ChangesAreBuilt /\ TriggersAreServed
=============================================================================
