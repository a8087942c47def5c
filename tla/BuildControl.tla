---------------------------- MODULE BuildControl ----------------------------
(***************************************************************************)
(* The build scheduler: BuildController (internal/engine/buildcontroller.  *)
(* go) picks the next resource to build from the engine state, tells the   *)
(* store that the build started and completed, and cancels builds; the     *)
(* reducers of internal/store/buildcontrols, of internal/controllers/core/ *)
(* {filewatch,tiltfile} and of internal/store/uiresources change the state *)
(* it decides on.                                                          *)
(*                                                                         *)
(* Of the Store this module keeps that each action is reduced atomically,  *)
(* that the actions of the controller are reduced in the order they were   *)
(* dispatched in, and that OnChange runs after a change.  The action of    *)
(* everybody else is dispatched and reduced in one step: it may have       *)
(* been delayed before the dispatch for as long as one likes.              *)
(*                                                                         *)
(* Resources have no image target in common, no live updates and a         *)
(* connected cluster.  A target stands for its files, which change         *)
(* together.  Times are readings of one clock that never reads the same    *)
(* twice; 0 is the zero time.                                              *)
(***************************************************************************)
EXTENDS Integers, Sequences, FiniteSets, SequencesExt

CONSTANTS Manifests,          \* the resources of the Tiltfile
          Targets,            \* names for the targets of a resource
          Specs,              \* the targets of each resource
          Local, AllowParallel, UnresourcedYAML,    \* sets of resources
          AutoInitial, AutoOnChange,                \* trigger modes
          ResourceDependencies, \* for each resource, those it waits for
          MaxParallelUpdates,
          BuildsMayFail,
          MaxEdits, MaxTriggers, MaxUpserts, MaxClicks, MaxReloads \* bounds

ASSUME ResourceAssumption ==
  /\ Specs \in [Manifests -> (SUBSET Targets) \ {{}}]
  /\ AllowParallel \subseteq Local /\ Local \subseteq Manifests
  /\ UnresourcedYAML \subseteq Manifests \ Local
  /\ AutoInitial \subseteq Manifests /\ AutoOnChange \subseteq Manifests
  /\ ResourceDependencies \in [Manifests -> SUBSET Local]
ASSUME SettingsAssumption ==
  MaxParallelUpdates \in Nat \ {0} /\ BuildsMayFail \in BOOLEAN
ASSUME BoundAssumption ==
  {MaxEdits, MaxTriggers, MaxUpserts, MaxClicks, MaxReloads} \subseteq Nat

VARIABLES
  now, used,        \* the clock, and how much of each bound is used up
  \* EngineState and its ManifestStates
  loaded,           \* ManifestTargets
  disableState, current, history, manifestChange, ready,
  changed, consumed, lastResult,     \* BuildStatuses
  triggerQueue, triggered,           \* TriggerQueue, TriggerReason
  buildSet, startCount,  \* CurrentBuildSet, BuildControllerStartCount
  tiltfile,         \* a pending change of, and a finished load of, the Tiltfile
  clicked,          \* LastClickedAt of the stop buttons
  queue,            \* the controller's actions that are not reduced yet
  \* BuildController
  controller, notified, entry, startedCount, stopFns,
  builds,           \* the goroutines of OnChange
  \* the world outside
  seen, asked,      \* file events and triggers on their way to the store
  edited, attempted \* history: reduced edits, and the builds since then

manifests == <<disableState, current, history, manifestChange, ready>>
statuses  == <<changed, consumed, lastResult>>
triggers  == <<triggerQueue, triggered>>
slots     == <<buildSet, startCount>>
ctrl      == <<controller, entry, startedCount, stopFns>>
world     == <<seen, asked, edited, attempted>>
vars == <<now, used, loaded, manifests, statuses, triggers, slots, tiltfile,
          clicked, queue, ctrl, notified, builds, world>>

\* A current build: no start time if there is none.
NoBuild == [start |-> 0, edits |-> {}]

NoEntry == [m |-> "none", start |-> 0, rebuilt |-> {}, edits |-> {},
            config |-> FALSE, phase |-> "decided", canceled |-> FALSE]

\* A BuildStartedAction or a BuildCompleteAction of build b.
Message(what, b, ok, done) ==
  [what |-> what, m |-> b.m, start |-> b.start, rebuilt |-> b.rebuilt,
   edits |-> b.edits, config |-> b.config, ok |-> ok, done |-> done]

NoLoad == [at |-> 0, keep |-> {}, invalid |-> {}]

Never == [m \in Manifests |-> [t \in Targets |-> 0]]

Init ==
  /\ now = 0
  /\ used = [k \in {"edit", "trigger", "upsert", "click", "reload"} |-> 0]
  /\ loaded = Manifests
  /\ disableState = [m \in Manifests |-> "enabled"]
  /\ current = [m \in Manifests |-> NoBuild]
  /\ history = [m \in Manifests |-> FALSE]
  /\ manifestChange = [m \in Manifests |-> 0]
  /\ ready = [m \in Manifests |-> FALSE]
  /\ changed = Never /\ consumed = [m \in Manifests |-> 0] /\ lastResult = Never
  /\ triggerQueue = <<>> /\ triggered = [m \in Manifests |-> FALSE]
  /\ buildSet = {} /\ startCount = 0
  /\ tiltfile = [pending |-> FALSE, load |-> NoLoad]
  /\ clicked = [m \in Manifests |-> 0]
  /\ queue = <<>>
  /\ controller = "idle" /\ notified = TRUE /\ entry = NoEntry
  /\ startedCount = 0 /\ stopFns = [m \in Manifests |-> 0]
  /\ builds = {}
  /\ seen = Never /\ asked = {} /\ edited = Never /\ attempted = Never

-----------------------------------------------------------------------------
(* EngineState: what there is to build *)

IsBuilding(m) == current[m].start # 0

StartedFirstBuild(m) == IsBuilding(m) \/ history[m]

PendingFileChanges(m) == {t \in Specs[m] : changed[m][t] > consumed[m]}

PendingTimes(m) == {changed[m][t] : t \in PendingFileChanges(m)}
                     \cup ({manifestChange[m]} \ {0})

NeedsInitialBuild(m) == ~StartedFirstBuild(m) /\ m \in AutoInitial

\* Mutant: a trigger alone is no reason.
MutHasBuildReason(m) == PendingTimes(m) # {} \/ NeedsInitialBuild(m)

HasBuildReason(m) ==
  triggered[m] \/ PendingTimes(m) # {} \/ NeedsInitialBuild(m)

AvailableBuildSlots == MaxParallelUpdates - Cardinality(buildSet)

-----------------------------------------------------------------------------
(* NextTargetToBuild *)

TargetsNeedingAnyBuild ==
  {m \in loaded : /\ disableState[m] # "disabled"
                  /\ \/ NeedsInitialBuild(m)
                     \/ m \in ToSet(triggerQueue)
                     \/ PendingTimes(m) # {} /\ m \in AutoOnChange}

Building == {m \in loaded : IsBuilding(m)}

Unparallelizable == Local \ AllowParallel

WaitingOnDependencies(m) ==
  /\ ~StartedFirstBuild(m)
  /\ \E d \in ResourceDependencies[m] : d \notin loaded \/ ~ready[d]

\* Mutant: unparallelizable resources are not held while others build.
MutHeld ==
  {m \in TargetsNeedingAnyBuild :
     \/ Building \cap UnresourcedYAML # {} /\ m \notin Local
     \/ WaitingOnDependencies(m)}

\* The resources put on hold one by one.
Held ==
  {m \in TargetsNeedingAnyBuild :
     \/ Building # {} /\ m \in Unparallelizable
     \/ Building \cap UnresourcedYAML # {} /\ m \notin Local
     \/ WaitingOnDependencies(m)}

\* All of them are held.
HoldAll ==
  \/ tiltfile.pending
  \/ \E m \in TargetsNeedingAnyBuild : disableState[m] = "pending"
  \/ Building \cap Unparallelizable # {}

Eligible == {m \in loaded \ Held : ~IsBuilding(m) /\ HasBuildReason(m)}

\* Local resources first, then the unresourced YAML, then the rest, of which
\* the code picks one by the kind and the order of its definition.
NextUnbuilt(S) ==
  IF S \cap Local # {} THEN S \cap Local
  ELSE IF S \cap UnresourcedYAML # {} THEN S \cap UnresourcedYAML ELSE S

\* Triggered resources by the order of the queue.
FirstTriggered ==
  {m \in Eligible : \E i \in DOMAIN triggerQueue :
     /\ triggerQueue[i] = m
     /\ \A j \in 1..(i-1) : triggerQueue[j] \notin Eligible}

\* The resource with the oldest change.
EarliestPending ==
  LET auto == {m \in TargetsNeedingAnyBuild \cap Eligible :
                 m \in AutoOnChange /\ PendingTimes(m) # {}}
  IN {m \in auto : \E s \in PendingTimes(m) :
        \A n \in auto : \A u \in PendingTimes(n) : s <= u}

\* The resources NextTargetToBuild may return; it is nil if there is none.
NextTargetToBuild ==
  LET unbuilt == {m \in TargetsNeedingAnyBuild \cap Eligible :
                    NeedsInitialBuild(m)}
  IN IF HoldAll THEN {}
     ELSE IF unbuilt # {} THEN NextUnbuilt(unbuilt)
     ELSE IF FirstTriggered # {} THEN FirstTriggered
     ELSE EarliestPending

\* Does a trigger force all images to be built?
FullBuildTriggered(m) ==
  /\ triggered[m]
  /\ \/ m \in AutoOnChange
     \/ PendingFileChanges(m) = {}
     \/ manifestChange[m] # 0
     \/ NeedsInitialBuild(m)

\* buildStateSet, and what NeedsImageBuild says of it.
RebuiltTargets(m) ==
  IF m \in Local \/ FullBuildTriggered(m) THEN Specs[m]
  ELSE PendingFileChanges(m) \cup {t \in Specs[m] : lastResult[m][t] = 0}

-----------------------------------------------------------------------------
(* BuildController.OnChange *)

\* cleanupBuildContext: cancel whichever build is registered for m.
Cancel(S, bs) ==
  {IF b.m \in S /\ b.start = stopFns[b.m] /\ b.start # 0
   THEN [b EXCEPT !.canceled = TRUE] ELSE b : b \in bs}

Forget(S) == [m \in Manifests |-> IF m \in S THEN 0 ELSE stopFns[m]]

\* The builds to cancel: of disabled resources, and of those whose stop
\* button was clicked since the build started.
ToCancel == {m \in Building : \/ disableState[m] = "disabled"
                              \/ clicked[m] >= current[m].start}

CleanUpCanceledBuilds ==
  /\ controller = "idle" /\ notified
  /\ notified' = FALSE
  /\ controller' = "cleaned"
  /\ builds' = Cancel(ToCancel, builds)
  /\ stopFns' = Forget(ToCancel)
  /\ UNCHANGED <<now, used, loaded, manifests, statuses, triggers, slots,
                 tiltfile, clicked, queue, entry, startedCount, world>>

\* Mutant: do not wait for the last start to be recorded.
MutMayDecide == AvailableBuildSlots >= 1

MayDecide == startedCount <= startCount /\ AvailableBuildSlots >= 1

\* needsBuild picks a resource and copies what there is to build ...
NeedsBuild ==
  /\ controller = "cleaned"
  /\ MayDecide
  /\ \E m \in NextTargetToBuild :
       entry' = [NoEntry EXCEPT !.m = m, !.rebuilt = RebuiltTargets(m),
                                !.edits = PendingFileChanges(m),
                                !.config = (manifestChange[m] # 0)]
  /\ startedCount' = startedCount + 1
  /\ controller' = "decided"
  /\ UNCHANGED <<now, used, loaded, manifests, statuses, triggers, slots,
                 tiltfile, clicked, queue, notified, stopFns, builds, world>>

NeedsNoBuild ==
  /\ controller = "cleaned"
  /\ ~MayDecide \/ NextTargetToBuild = {}
  /\ controller' = "idle"
  /\ UNCHANGED <<now, used, loaded, manifests, statuses, triggers, slots,
                 tiltfile, clicked, queue, entry, startedCount, stopFns,
                 notified, builds, world>>

\* ... and OnChange dispatches a BuildStartedAction with the time after that.
DispatchStarted ==
  /\ controller = "decided"
  /\ now' = now + 1
  /\ LET b == [entry EXCEPT !.start = now + 1, !.phase = "spawned"]
     IN /\ queue' = Append(queue, Message("started", b, TRUE, {}))
        /\ builds' = builds \cup {b}
  /\ entry' = NoEntry
  /\ controller' = "idle"
  /\ UNCHANGED <<used, loaded, manifests, statuses, triggers, slots, tiltfile,
                 clicked, startedCount, stopFns, notified, world>>

-----------------------------------------------------------------------------
(* The goroutine of a build *)

Become(b, c) == builds' = (builds \ {b}) \cup {c}

\* buildContext
Register(b) ==
  /\ b.phase = "spawned"
  /\ Become(b, [b EXCEPT !.phase = "running"])
  /\ stopFns' = [stopFns EXCEPT ![b.m] = b.start]
  /\ UNCHANGED <<now, used, loaded, manifests, statuses, triggers, slots,
                 tiltfile, clicked, queue, controller, entry, startedCount,
                 notified, world>>

\* buildAndDeploy returns the images it has built; a canceled build fails.
BuildAndDeploy(b) ==
  /\ b.phase = "running"
  /\ \E ok \in BOOLEAN, done \in SUBSET b.rebuilt :
       /\ ok => ~b.canceled /\ done = b.rebuilt
       /\ ~ok => b.canceled \/ BuildsMayFail
       /\ Become(b, [b EXCEPT !.phase = "completed"])
       /\ queue' = Append(queue, Message("complete", b, ok, done))
  /\ UNCHANGED <<now, used, loaded, manifests, statuses, triggers, slots,
                 tiltfile, clicked, ctrl, notified, world>>

\* The deferred cleanupBuildContext: it goes by the name of the resource.
CleanUp(b) ==
  /\ b.phase = "completed"
  /\ builds' = Cancel({b.m}, builds \ {b})
  /\ stopFns' = Forget({b.m})
  /\ UNCHANGED <<now, used, loaded, manifests, statuses, triggers, slots,
                 tiltfile, clicked, queue, controller, entry, startedCount,
                 notified, world>>

-----------------------------------------------------------------------------
(* The reducers of the controller's actions *)

RemoveFromTriggerQueue(m) ==
  /\ triggered' = [triggered EXCEPT ![m] = FALSE]
  /\ triggerQueue' = RemoveFirst(triggerQueue, m)

\* Mutant: the start of an unknown resource is not counted.
MutHandleBuildStarted(b) ==
  IF b.m \in loaded
  THEN /\ startCount' = startCount + 1
       /\ current' = [current EXCEPT ![b.m] = [start |-> b.start,
                                              edits |-> b.edits]]
       /\ RemoveFromTriggerQueue(b.m)
       /\ buildSet' = buildSet \cup {b.m}
  ELSE UNCHANGED <<current, triggers, buildSet, startCount>>

HandleBuildStarted(b) ==
  /\ startCount' = startCount + 1
  /\ IF b.m \in loaded
     THEN /\ current' = [current EXCEPT ![b.m] = [start |-> b.start,
                                                 edits |-> b.edits]]
          /\ RemoveFromTriggerQueue(b.m)
          /\ buildSet' = buildSet \cup {b.m}
     ELSE UNCHANGED <<current, triggers, buildSet>>

ReduceStarted ==
  /\ queue # <<>> /\ Head(queue).what = "started"
  /\ queue' = Tail(queue)
  /\ HandleBuildStarted(Head(queue))
  /\ notified' = TRUE
  /\ UNCHANGED <<now, used, loaded, disableState, history, manifestChange,
                 ready, statuses, tiltfile, clicked, ctrl, builds, world>>

\* Mutant: the changes until the end of the build are consumed.
MutConsumeChangesBefore(m, start) == now

\* ConsumeChangesBefore: a one-way ratchet.
ConsumeChangesBefore(m, start) ==
  IF consumed[m] < start THEN start ELSE consumed[m]

\* Mutant: the early return comes before the slot is given back.
MutGiveBack(b) ==
  IF b.m \in loaded
  THEN /\ buildSet' = buildSet \ {b.m}
       /\ current' = [current EXCEPT ![b.m] = NoBuild]
  ELSE UNCHANGED <<buildSet, current>>

\* The resource builds no more, and its slot is free.
GiveBack(b) ==
  /\ buildSet' = buildSet \ {b.m}
  /\ current' = [current EXCEPT ![b.m] = NoBuild]

\* HandleBuildCompleted and handleBuildResults.  The build it finds in the
\* state need not be the one that completed.
HandleBuildCompleted(b) ==
  LET start == current[b.m].start IN
  /\ GiveBack(b)
  /\ IF b.m \in loaded
     THEN /\ history' = [history EXCEPT ![b.m] = TRUE]
          /\ lastResult' = [lastResult EXCEPT ![b.m] = [t \in Targets |->
                              IF t \in b.done THEN b.start ELSE @[t]]]
          /\ consumed' = [consumed EXCEPT ![b.m] =
                            ConsumeChangesBefore(b.m, start)]
          /\ manifestChange' = [manifestChange EXCEPT ![b.m] =
                                  IF @ <= start THEN 0 ELSE @]
          /\ ready' = [ready EXCEPT ![b.m] = @ \/ (b.ok /\ b.m \in Local)]
     ELSE UNCHANGED <<history, lastResult, consumed, manifestChange, ready>>

\* Which edits the build had a chance to see: those on disk when it began,
\* in the targets it was told to build.
Attempt(b) ==
  attempted' = [attempted EXCEPT ![b.m] = [t \in Targets |->
                 IF t \in b.rebuilt THEN b.start ELSE @[t]]]

ReduceCompleted ==
  /\ queue # <<>> /\ Head(queue).what = "complete"
  /\ queue' = Tail(queue)
  /\ HandleBuildCompleted(Head(queue))
  /\ Attempt(Head(queue))
  /\ notified' = TRUE
  /\ UNCHANGED <<now, used, loaded, disableState, changed, triggers,
                 startCount, tiltfile, clicked, ctrl, builds, seen, asked,
                 edited>>

-----------------------------------------------------------------------------
(* File changes *)

\* A watched file changes on disk; the event takes its time.
Edit(m, t) ==
  /\ used["edit"] < MaxEdits
  /\ m \in loaded /\ disableState[m] # "disabled"
  /\ used' = [used EXCEPT !["edit"] = @ + 1]
  /\ now' = now + 1
  /\ seen' = [seen EXCEPT ![m][t] = now + 1]
  /\ UNCHANGED <<loaded, manifests, statuses, triggers, slots, tiltfile,
                 clicked, queue, ctrl, notified, builds, asked, edited,
                 attempted>>

\* A change that the current build knows of is ignored; one that comes
\* during a build counts from now on.
AddPendingFileChange(m, t) ==
  IF IsBuilding(m)
  THEN IF seen[m][t] < current[m].start /\ t \in current[m].edits
       THEN UNCHANGED <<changed, now>>
       ELSE changed' = [changed EXCEPT ![m][t] = now + 1] /\ now' = now + 1
  ELSE changed' = [changed EXCEPT ![m][t] = seen[m][t]] /\ UNCHANGED now

HandleFileWatchUpdateStatusEvent(m, t) ==
  /\ seen[m][t] # 0
  /\ seen' = [seen EXCEPT ![m][t] = 0]
  /\ IF m \in loaded
     THEN /\ AddPendingFileChange(m, t)
          /\ edited' = [edited EXCEPT ![m][t] = seen[m][t]]
     ELSE UNCHANGED <<changed, edited, now>>
  /\ notified' = TRUE
  /\ UNCHANGED <<used, loaded, manifests, consumed, lastResult, triggers,
                 slots, tiltfile, clicked, queue, ctrl, builds, asked,
                 attempted>>

-----------------------------------------------------------------------------
(* Triggers, stop buttons, disabled resources *)

\* HandleTrigger turns a request for a disabled resource down, and dispatches.
HandleTrigger(m) ==
  /\ used["trigger"] < MaxTriggers
  /\ m \in loaded /\ disableState[m] # "disabled"
  /\ used' = [used EXCEPT !["trigger"] = @ + 1]
  /\ asked' = asked \cup {m}
  /\ UNCHANGED <<now, loaded, manifests, statuses, triggers, slots, tiltfile,
                 clicked, queue, ctrl, notified, builds, seen, edited,
                 attempted>>

\* Mutant: a resource that waits is queued again.
MutAppendToTriggerQueue(m) ==
  /\ m \in asked
  /\ asked' = asked \ {m}
  /\ triggered' = [triggered EXCEPT ![m] = TRUE]
  /\ triggerQueue' = Append(triggerQueue, m)
  /\ notified' = TRUE
  /\ UNCHANGED <<now, used, loaded, manifests, statuses, slots, tiltfile,
                 clicked, queue, ctrl, builds, seen, edited, attempted>>

AppendToTriggerQueue(m) ==
  /\ m \in asked
  /\ asked' = asked \ {m}
  /\ IF m \in loaded
     THEN /\ triggered' = [triggered EXCEPT ![m] = TRUE]
          /\ triggerQueue' = IF m \in ToSet(triggerQueue) THEN triggerQueue
                             ELSE Append(triggerQueue, m)
     ELSE UNCHANGED triggers
  /\ notified' = TRUE
  /\ UNCHANGED <<now, used, loaded, manifests, statuses, slots, tiltfile,
                 clicked, queue, ctrl, builds, seen, edited, attempted>>

\* The stop button of a build is clicked.
HandleUIButtonUpsert(m) ==
  /\ used["click"] < MaxClicks
  /\ m \in Building
  /\ used' = [used EXCEPT !["click"] = @ + 1]
  /\ now' = now + 1
  /\ clicked' = [clicked EXCEPT ![m] = now + 1]
  /\ notified' = TRUE
  /\ UNCHANGED <<loaded, manifests, statuses, triggers, slots, tiltfile, queue,
                 ctrl, builds, world>>

\* Of a disabled resource no build state is kept.
HandleUIResourceUpsert(m, s) ==
  /\ m \in loaded
  /\ disableState[m] # "pending" =>
       used["upsert"] < MaxUpserts
  /\ used' = IF disableState[m] = "pending" THEN used
             ELSE [used EXCEPT !["upsert"] = @ + 1]
  /\ disableState' = [disableState EXCEPT ![m] = s]
  /\ IF s = "disabled"
     THEN /\ history' = [history EXCEPT ![m] = FALSE]
          /\ changed' = [changed EXCEPT ![m] = Never[m]]
          /\ consumed' = [consumed EXCEPT ![m] = 0]
          /\ lastResult' = [lastResult EXCEPT ![m] = Never[m]]
          /\ RemoveFromTriggerQueue(m)
     ELSE UNCHANGED <<history, statuses, triggers>>
  /\ notified' = TRUE
  /\ UNCHANGED <<now, loaded, current, manifestChange, ready, slots, tiltfile,
                 clicked, queue, ctrl, builds, world>>

-----------------------------------------------------------------------------
(* Tiltfile reloads *)

EditTiltfile ==
  /\ used["reload"] < MaxReloads
  /\ tiltfile = [pending |-> FALSE, load |-> NoLoad]
  /\ tiltfile' = [tiltfile EXCEPT !.pending = TRUE]
  /\ notified' = TRUE
  /\ UNCHANGED <<now, used, loaded, manifests, statuses, triggers, slots,
                 clicked, queue, ctrl, builds, world>>

\* The Tiltfile has run, after an edit or for another reason.  A run that
\* fails keeps the resources there are, and invalidates nothing.
FinishLoad ==
  /\ used["reload"] < MaxReloads
  /\ tiltfile.load = NoLoad
  /\ used' = [used EXCEPT !["reload"] = @ + 1]
  /\ now' = now + 1
  /\ \E keep \in SUBSET Manifests : \E invalid \in SUBSET (keep \cap loaded) :
       tiltfile' = [tiltfile EXCEPT !.load =
                     [at |-> now + 1, keep |-> keep, invalid |-> invalid]]
  /\ UNCHANGED <<loaded, manifests, statuses, triggers, slots, clicked, queue,
                 ctrl, notified, builds, world>>

\* f with the value v for the members of S.
Reset(f, S, v) == [m \in Manifests |-> IF m \in S THEN v ELSE f[m]]

\* New resources start from scratch, those whose build is invalid get new
\* build statuses, and those that are gone are forgotten.
HandleConfigsReloaded ==
  LET load  == tiltfile.load
      fresh == Manifests \ (load.keep \cap loaded)
      zero  == [t \in Targets |-> 0]
  IN /\ load # NoLoad
     /\ tiltfile' = [pending |-> FALSE, load |-> NoLoad]
     /\ loaded' = load.keep
     /\ disableState' = Reset(disableState, fresh, "pending")
     /\ current' = Reset(current, fresh, NoBuild)
     /\ history' = Reset(history, fresh, FALSE)
     /\ ready' = Reset(ready, fresh, FALSE)
     /\ manifestChange' = Reset(Reset(manifestChange, fresh, 0),
                                load.invalid, load.at)
     /\ changed' = Reset(changed, fresh \cup load.invalid, zero)
     /\ consumed' = Reset(consumed, fresh \cup load.invalid, 0)
     /\ lastResult' = Reset(lastResult, fresh \cup load.invalid, zero)
     /\ triggered' = Reset(triggered, fresh, FALSE)
     /\ edited' = Reset(edited, fresh, zero)
     /\ attempted' = Reset(attempted, fresh, zero)
     /\ notified' = TRUE
     /\ UNCHANGED <<now, used, triggerQueue, slots, clicked, queue, ctrl,
                    builds, seen, asked>>

-----------------------------------------------------------------------------
OnChange == \/ CleanUpCanceledBuilds \/ NeedsBuild \/ NeedsNoBuild
            \/ DispatchStarted

BuildStep == \E b \in builds : Register(b) \/ BuildAndDeploy(b) \/ CleanUp(b)

Reduce ==
  \/ ReduceStarted \/ ReduceCompleted
  \/ \E m \in Manifests : \/ AppendToTriggerQueue(m)
                          \/ \E t \in Targets :
                               HandleFileWatchUpdateStatusEvent(m, t)

\* What users and the file system do.
World ==
  \/ \E m \in Manifests :
       \/ \E t \in Specs[m] : Edit(m, t)
       \/ HandleTrigger(m) \/ HandleUIButtonUpsert(m)
       \/ \E s \in {"enabled", "disabled"} : HandleUIResourceUpsert(m, s)
  \/ EditTiltfile \/ FinishLoad \/ HandleConfigsReloaded

Next == OnChange \/ BuildStep \/ Reduce \/ World

Spec == Init /\ [][Next]_vars

\* The store reduces and notifies, and builds end; nobody has to do anything.
Fairness == WF_vars(OnChange) /\ WF_vars(BuildStep) /\ WF_vars(Reduce)

FairSpec == Spec /\ Fairness
=============================================================================
