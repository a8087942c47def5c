------------------------------ MODULE LiveUpdate ------------------------------
(***************************************************************************)
(* How an edit of a resource with a live update gets into its container:   *)
(* the reconciler of LiveUpdate objects (internal/controllers/core/        *)
(* liveupdate) copies changed files into the running containers, and the   *)
(* build controller builds a new image when the reconciler gives up.  The  *)
(* two agree by what the engine knows of pending changes and of the status *)
(* of the LiveUpdate.                                                      *)
(*                                                                         *)
(* The resource has an image for each source, and the image that is        *)
(* deployed is built on the others.  A source stands for its files, which  *)
(* change together; a stop source for those that no live update may copy.  *)
(* The content of a container is the time of the edit of each source that  *)
(* it has.  Times are readings of one clock that never reads the same      *)
(* twice; 0 is the zero time.                                              *)
(***************************************************************************)
EXTENDS Integers, Sequences, FiniteSets, SequencesExt

CONSTANTS Sources,             \* the images, and the file watch of each
          DeployImage,         \* the one that is deployed
          Scenarios            \* settings of the resource, with bounds

ASSUME SourceAssumption == DeployImage \in Sources

\* A live update may be manual, and may begin with an initial sync.  Some
\* sources have stop files.  The bounds say how often what may happen.
ASSUME ScenarioAssumption ==
  Scenarios \subseteq
    [mode : SUBSET {"manual", "initial"}, stop : SUBSET Sources,
     bounds : [edit : Nat, trigger : Nat, crash : Nat, infra : Nat, stale : Nat]]

VARIABLES
  now,
  mode, stop, left,             \* the scenario, and what is left of its bounds
  disk, recorded,               \* the files, and the events of their watches
  fileEvent, telling,           \* last event of each FileWatch; its dispatch
  \* the engine state
  actions, changed, consumed, current, failing, triggered, lastOk,
  \* the API server
  imageTime, applied, triggerMap, status,
  build, baked,                 \* the full build, and the images
  containers,
  seen, run, monitor, tracked,  \* the reconciler
  copied, late, unwritten       \* history: see Copy, Reconcile, UpdateStatus

setting == <<mode, stop>>
files  == <<disk, recorded, fileEvent, telling>>
engine == <<changed, consumed, current, failing, triggered, lastOk>>
images == <<imageTime, applied, baked>>
past   == <<copied, late, unwritten>>
ours   == <<seen, run, monitor, tracked, past>>
vars == <<now, setting, left, files, actions, engine, images, triggerMap, status,
          build, containers, ours>>

\* Every container is made by a build, for which there is an edit or a trigger,
\* or after a crash.
MostContainers ==
  1 + Max({x.bounds.edit + x.bounds.trigger + x.bounds.crash + x.bounds.infra :
           x \in Scenarios})

ASSUME BoundAssumption == MostContainers \in Nat \ {0}

Ids == 1..MostContainers

Builders == {"buildcontrol", "liveupdate"}

NoBuild == [start |-> 0, edits |-> {}]

NoContainer == [state |-> "none", content |-> [s \in Sources |-> 0],
                image |-> [s \in Sources |-> 0], restarted |-> FALSE]

NoFullBuild == [phase |-> "none", start |-> 0, edits |-> {}, rebuilt |-> {},
                image |-> 0]

Untracked == [known |-> FALSE, synced |-> 0, low |-> 0, failed |-> "none"]

Idle == [step |-> "idle", todo |-> {}, waits |-> FALSE, dispatched |-> FALSE,
         copying |-> {}, mark |-> 0, low |-> 0, failed |-> "none",
         synced |-> <<>>]

States == [k \in Ids |-> containers[k].state]

\* What there is to get for Reconcile: file watches, image maps, the apply, the
\* discovery, the deployed image, the trigger queue, and its own object.
Server == [file |-> fileEvent, image |-> imageTime, applied |-> applied,
           states |-> States, deployed |-> imageTime[DeployImage],
           trigger |-> triggerMap, status |-> status]

\* When the reconciler was made, and the resource deployed.
StartedTime == 1
DeployTime  == 2

Init ==
  /\ now = DeployTime
  /\ \E x \in Scenarios : mode = x.mode /\ stop = x.stop /\ left = x.bounds
  /\ disk = [s \in Sources |-> 0] /\ recorded = [s \in Sources |-> 0]
  /\ fileEvent = [s \in Sources |-> 0] /\ telling = {}
  /\ actions = <<>>
  /\ changed = [s \in Sources |-> 0] /\ consumed = DeployTime
  /\ current = [b \in Builders |-> NoBuild]
  /\ failing = FALSE /\ triggered = FALSE /\ lastOk = TRUE
  /\ imageTime = [s \in Sources |-> DeployTime] /\ applied = DeployTime
  /\ triggerMap = FALSE
  /\ status = [failed |-> "none", synced |-> <<>>]
  /\ build = NoFullBuild /\ baked = [s \in Sources |-> 0]
  /\ containers = [k \in Ids |-> IF k = 1
                    THEN [NoContainer EXCEPT !.state = "running"]
                    ELSE NoContainer]
  /\ seen = Server /\ run = Idle
  /\ monitor = [known |-> FALSE, changes |-> FALSE,
                image |-> [s \in Sources |-> 0], mod |-> [s \in Sources |-> 0]]
  /\ tracked = [k \in Ids |-> Untracked]
  /\ copied = 0 /\ late = {} /\ unwritten = FALSE

Manual == "manual" \in mode

InitialSync == "initial" \in mode

Uses(b) == left[b] > 0 /\ left' = [left EXCEPT ![b] = @ - 1]

Dispatch(a) == actions' = Append(actions, a)

Later(t, u) == IF t < u THEN u ELSE t

Live == {k \in Ids : containers[k].state # "none"}

\* The container that was made last.
Newest == CHOOSE k \in Live : \A l \in Live : l <= k

-----------------------------------------------------------------------------
(* Files *)

\* A file changes, and its watch takes the time.
Edit(s) ==
  /\ Uses("edit")
  /\ now' = now + 1
  /\ disk' = [disk EXCEPT ![s] = now + 1]
  /\ recorded' = [recorded EXCEPT ![s] = now + 1]
  /\ UNCHANGED <<setting, fileEvent, telling, actions, engine, images, triggerMap,
                 status, build, containers, ours>>

\* The file watch controller writes the event to the API server ...
Publish(s) ==
  /\ telling = {} /\ recorded[s] # 0
  /\ fileEvent' = [fileEvent EXCEPT ![s] = recorded[s]]
  /\ recorded' = [recorded EXCEPT ![s] = 0]
  /\ telling' = {s}
  /\ UNCHANGED <<now, setting, left, disk, actions, engine, images, triggerMap,
                 status, build, containers, ours>>

\* ... and then tells the engine.
Tell(s) ==
  /\ s \in telling
  /\ telling' = {}
  /\ Dispatch([type |-> "edit", source |-> s, time |-> fileEvent[s]])
  /\ UNCHANGED <<now, setting, left, disk, recorded, fileEvent, engine, images,
                 triggerMap, status, build, containers, ours>>

-----------------------------------------------------------------------------
(* The engine *)

Building == \E b \in Builders : current[b].start # 0

\* EarliestCurrentBuild.
Earliest == current[CHOOSE b \in Builders :
              /\ current[b].start # 0
              /\ \A c \in Builders :
                   current[c].start = 0 \/ current[b].start <= current[c].start]

\* AddPendingFileChange: see module BuildControl.
AddPendingFileChange(s, t) ==
  IF ~Building THEN changed' = [changed EXCEPT ![s] = t] /\ UNCHANGED now
  ELSE IF t < Earliest.start /\ s \in Earliest.edits
  THEN UNCHANGED <<changed, now>>
  ELSE changed' = [changed EXCEPT ![s] = now + 1] /\ now' = now + 1

HandleBuildStarted(a) ==
  /\ current' = [current EXCEPT ![a.source] =
                   [start |-> a.start, edits |-> a.edits]]
  /\ triggered' = FALSE

\* HandleBuildCompleted: of a failed build, too, the changes are consumed.
HandleBuildCompleted(a) ==
  /\ consumed' = Later(consumed, current[a.source].start)
  /\ current' = [current EXCEPT ![a.source] = NoBuild]
  /\ lastOk' = a.ok

Reduce ==
  /\ actions # <<>>
  /\ actions' = Tail(actions)
  /\ LET a == Head(actions) IN
       \/ /\ a.type = "edit" /\ AddPendingFileChange(a.source, a.time)
          /\ UNCHANGED <<consumed, current, failing, triggered, lastOk>>
       \/ /\ a.type = "start" /\ HandleBuildStarted(a)
          /\ UNCHANGED <<now, changed, consumed, failing, lastOk>>
       \/ /\ a.type = "complete" /\ HandleBuildCompleted(a)
          /\ UNCHANGED <<now, changed, failing, triggered>>
       \/ /\ a.type = "upsert" /\ failing' = a.failed
          /\ UNCHANGED <<now, changed, consumed, current, triggered, lastOk>>
  /\ UNCHANGED <<setting, left, files, images, triggerMap, status, build,
                 containers, ours>>

\* The trigger button is clicked.
Trigger ==
  /\ Uses("trigger")
  /\ triggered' = TRUE
  /\ UNCHANGED <<now, setting, files, actions, changed, consumed, current, failing,
                 lastOk, images, triggerMap, status, build, containers, ours>>

\* TriggerQueueSubscriber copies the queue into a config map.
WriteTriggerQueue ==
  /\ triggerMap # triggered
  /\ triggerMap' = triggered
  /\ UNCHANGED <<now, setting, left, files, actions, engine, images, status, build,
                 containers, ours>>

-----------------------------------------------------------------------------
(* The build controller *)

Pending == {s \in Sources : changed[s] > consumed}

\* Changed files are the only reason, or that and a click in manual mode.
LiveUpdateEligible == Pending # {} /\ (triggered => Manual)

\* Mutant: also the changes that the reconciler has given up are held.
MutHeldByReconciler == LiveUpdateEligible

\* HoldLiveUpdateTargetsHandledByReconciler.
HeldByReconciler == LiveUpdateEligible /\ ~failing

\* HoldLiveUpdateTargetsWaitingOnDeploy.
WaitingOnDeploy ==
  /\ Pending # {} /\ ~triggered /\ lastOk
  /\ Pending \cap stop = {}
  /\ containers[Newest].state # "running" /\ ~containers[Newest].restarted

\* NextTargetToBuild and buildStateSet, which copies what there is to build.
Decide ==
  /\ build.phase = "none" /\ ~Building
  /\ \A i \in DOMAIN actions :
       actions[i].type = "start" => actions[i].source # "buildcontrol"
  /\ ~HeldByReconciler
  /\ \/ triggered
     \/ ~Manual /\ Pending # {} /\ ~WaitingOnDeploy
  /\ build' = [NoFullBuild EXCEPT
       !.phase = "decided", !.edits = Pending,
       !.rebuilt = IF triggered /\ (~Manual \/ Pending = {}) THEN Sources
                   ELSE Pending \cup {DeployImage}]
  /\ UNCHANGED <<now, setting, left, files, actions, engine, images, triggerMap,
                 status, containers, ours>>

StartBuild ==
  /\ build.phase = "decided"
  /\ now' = now + 1
  /\ build' = [build EXCEPT !.phase = "started", !.start = now + 1]
  /\ Dispatch([type |-> "start", source |-> "buildcontrol", start |-> now + 1,
               edits |-> build.edits])
  /\ UNCHANGED <<setting, left, files, engine, images, triggerMap, status,
                 containers, ours>>

\* The images take the time before they read the files; this is later than
\* the start of the build.
StartImages ==
  /\ build.phase = "started"
  /\ now' = now + 1
  /\ build' = [build EXCEPT !.phase = "images", !.image = now + 1]
  /\ UNCHANGED <<setting, left, files, actions, engine, images, triggerMap, status,
                 containers, ours>>

ReadFiles ==
  /\ build.phase = "images"
  /\ baked' = [s \in Sources |-> IF s \in build.rebuilt THEN disk[s] ELSE baked[s]]
  /\ build' = [build EXCEPT !.phase = "read"]
  /\ UNCHANGED <<now, setting, left, files, actions, engine, imageTime, applied,
                 triggerMap, status, containers, ours>>

\* The status of the image maps, then the new container, then the result.
FinishImages ==
  /\ build.phase = "read"
  /\ imageTime' = [s \in Sources |-> IF s \in build.rebuilt THEN build.image
                                     ELSE imageTime[s]]
  /\ build' = [build EXCEPT !.phase = "built"]
  /\ UNCHANGED <<now, setting, left, files, actions, engine, applied, baked,
                 triggerMap, status, containers, ours>>

Deploy ==
  /\ build.phase = "built" /\ Newest + 1 \in Ids
  /\ now' = now + 1 /\ applied' = now + 1
  /\ containers' = [containers EXCEPT ![Newest + 1] =
       [state |-> "waiting", content |-> baked, image |-> baked,
        restarted |-> FALSE]]
  /\ Dispatch([type |-> "complete", source |-> "buildcontrol", ok |-> TRUE])
  /\ build' = NoFullBuild
  /\ UNCHANGED <<setting, left, files, engine, imageTime, baked, triggerMap,
                 status, ours>>

FullBuild == \/ Decide \/ StartBuild \/ StartImages \/ ReadFiles \/ FinishImages
             \/ Deploy

-----------------------------------------------------------------------------
(* Containers, as Kubernetes runs them and as the discovery shows them *)

Become(k, state) ==
  /\ containers' = [containers EXCEPT ![k].state = state]
  /\ UNCHANGED <<now, setting, files, actions, engine, images, triggerMap,
                 status, build, ours>>

Come(k) == containers[k].state = "waiting" /\ Become(k, "running") /\ UNCHANGED left

\* When the new container runs, the old one ends, and goes.
Go(k) ==
  /\ \E l \in Ids : l > k /\ containers[l].state = "running"
  /\ \/ /\ containers[k].state \in {"waiting", "running", "crashing"}
        /\ Become(k, "terminated")
     \/ containers[k].state = "terminated" /\ Become(k, "none")
  /\ UNCHANGED left

Crash(k) ==
  /\ containers[k].state = "running" /\ Uses("crash")
  /\ Become(k, "crashing")

\* In place of a container that has crashed comes one with what is in the image.
Restart(k) ==
  /\ k = Newest /\ containers[k].state = "crashing" /\ k + 1 \in Ids
  /\ containers' = [containers EXCEPT
       ![k] = NoContainer,
       ![k + 1] = [@ EXCEPT !.state = "running", !.restarted = TRUE,
                            !.content = containers[k].image,
                            !.image = containers[k].image]]
  /\ UNCHANGED <<now, setting, left, files, actions, engine, images, triggerMap,
                 status, build, ours>>

-----------------------------------------------------------------------------
(* The reconciler *)

\* Each object is got on its own from a client that may lag: what Reconcile gets
\* of one is what it got last, or what there is.  It is called when the client
\* gets something new, and then gets some of it.
Mixed(old, new) == {[s \in Sources |-> IF s \in S THEN new[s] ELSE old[s]] :
                      S \in SUBSET Sources}

Views ==
  {v \in [file : Mixed(seen.file, fileEvent), image : Mixed(seen.image, imageTime),
          applied : {seen.applied, applied}, states : {seen.states, States},
          deployed : {seen.deployed, imageTime[DeployImage]},
          trigger : {seen.trigger, triggerMap}, status : {seen.status, status}] :
     v # seen \/ seen = Server}

\* reconcileSources: each new event that is not older than the image counts.
FileChanges(v) == {s \in Sources : v.file[s] # 0 /\ v.file[s] # seen.file[s]}

ImageChanges(v) == {s \in Sources : v.file[s] # 0 /\ v.image[s] # monitor.image[s]}

Counts(s, v) == s \in FileChanges(v) /\ v.image[s] <= v.file[s]

ModTime(s, v) == IF Counts(s, v) THEN Later(monitor.mod[s], v.file[s])
                 ELSE monitor.mod[s]

SeenImage(s, v) == IF v.file[s] # 0 THEN v.image[s] ELSE monitor.image[s]

\* garbageCollectFileChanges: from when on the changes of s are relevant.
RelevantSince(s, v) == IF SeenImage(s, v) # 0 THEN SeenImage(s, v) ELSE v.applied

Collected(s, v) ==
  IF RelevantSince(s, v) > ModTime(s, v) THEN 0 ELSE ModTime(s, v)

\* Mutant: the low water mark is forgotten.
MutExcused(c, v) ==
  IF c.low # 0 /\ \E s \in Sources : RelevantSince(s, v) > c.low
  THEN [c EXCEPT !.failed = "none"] ELSE c

\* A newer image also gives failed containers another chance.
Excused(c, v) ==
  IF c.low # 0 /\ \E s \in Sources : RelevantSince(s, v) > c.low
  THEN [c EXCEPT !.low = 0, !.failed = "none"] ELSE c

\* visitSelectedContainers.
Selected(v) == {k \in Ids : v.states[k] # "none"}

\* Also garbageCollectMonitorContainers.
StillTracked(k, v) ==
  IF k \in Selected(v) THEN Excused(tracked[k], v) ELSE Untracked

NeedsInitialSync ==
  \/ \A k \in Ids : ~tracked[k].known
  \/ \E k \in Ids : tracked[k].known /\ tracked[k].synced = 0

HasChanges(v) ==
  \/ ~monitor.known \/ monitor.changes
  \/ FileChanges(v) # {} \/ ImageChanges(v) # {}
  \/ <<v.applied, v.states, v.deployed>> # <<seen.applied, seen.states, seen.deployed>>
  \/ v.trigger # seen.trigger
  \/ InitialSync /\ NeedsInitialSync

\* What the engine will know of the status when it has reduced all actions.
Told ==
  LET upserts == SelectSeq(actions, LAMBDA a : a.type = "upsert")
  IN IF upserts = <<>> THEN failing ELSE Last(upserts).failed

\* Every Reconcile dispatches a LiveUpdateUpsertAction; the model leaves out
\* those that make no difference.
DispatchUpsert(v) ==
  IF Told = (v.status.failed # "none") THEN UNCHANGED actions
  ELSE Dispatch([type |-> "upsert", failed |-> v.status.failed # "none"])

\* History: the change of a source is late when it becomes known after a later
\* change was copied.
Lateness(mod, v) ==
  late' = {s \in Sources : /\ mod[s] # 0
                           /\ IF Counts(s, v) THEN v.file[s] <= copied
                              ELSE s \in late}

\* Reconcile takes in what has changed, and maybeSync what is now relevant.
Reconcile(v) ==
  LET mod == [s \in Sources |-> IF HasChanges(v) THEN Collected(s, v)
                                ELSE ModTime(s, v)]
      failed == {StillTracked(k, v).failed : k \in Selected(v)} \ {"none"}
  IN
  /\ run.step = "idle" /\ (seen # Server \/ ~monitor.known)
  /\ IF v = Server THEN UNCHANGED left ELSE Uses("stale")
  /\ DispatchUpsert(v)
  /\ seen' = v
  /\ monitor' = [known |-> TRUE, changes |-> HasChanges(v), mod |-> mod,
                 image |-> [s \in Sources |-> SeenImage(s, v)]]
  /\ Lateness(mod, v)
  /\ IF ~HasChanges(v) THEN UNCHANGED <<run, tracked>>
     ELSE /\ tracked' = [k \in Ids |-> StillTracked(k, v)]
          /\ run' = [Idle EXCEPT !.step = IF failed = {} THEN "visit" ELSE "update",
               !.todo = Selected(v), !.waits = Manual /\ ~v.trigger,
               !.failed = IF failed = {} THEN "none" ELSE CHOOSE f \in failed : TRUE]
  /\ UNCHANGED <<now, setting, files, engine, images, triggerMap, status,
                 build, containers, copied, unwritten>>

\* The containers are visited one by one.
Visited == CHOOSE k \in run.todo : \A l \in run.todo : k <= l

HighWaterMark(k) == Later(tracked[k].synced, StartedTime)

IsInitialSync(k) == InitialSync /\ tracked[k].synced = 0

FilesChanged(k) == IF IsInitialSync(k) THEN Sources
                   ELSE {s \in Sources : monitor.mod[s] > HighWaterMark(k)}

Oldest(S) == CHOOSE t \in S : \A u \in S : t <= u

LowWaterMark(k) ==
  IF IsInitialSync(k) THEN StartedTime
  ELSE IF FilesChanged(k) = {} THEN 0
  ELSE Oldest({monitor.mod[s] : s \in FilesChanged(k)})

\* Mutant: so is the mark of every sync.
MutNewHighWaterMark(k) == now + 1

\* The mark of an initial sync is the time itself.
NewHighWaterMark(k) ==
  IF IsInitialSync(k) THEN now + 1
  ELSE CHOOSE t \in {monitor.mod[s] : s \in FilesChanged(k)} :
         \A s \in FilesChanged(k) : monitor.mod[s] <= t

\* Why there is to be no live update at all.
Refusal(k) ==
  IF FilesChanged(k) \cap stop # {} /\ ~IsInitialSync(k) THEN "UpdateStopped"
  ELSE IF FilesChanged(k) # {} /\ seen.states[k] = "crashing"
  THEN "CrashLoopBackOff" ELSE "none"

Waiting(k) == seen.states[k] # "running" \/ run.waits

SkipTerminated ==
  /\ run.step = "visit" /\ run.todo # {}
  /\ seen.states[Visited] = "terminated"
  /\ run' = [run EXCEPT !.todo = @ \ {Visited}]
  /\ UNCHANGED <<now, setting, left, files, actions, engine, images, triggerMap,
                 status, build, containers, seen, monitor, tracked, past>>

\* The container fails the live update, and the others are not visited.
Fail(k, reason, low) ==
  /\ tracked' = [tracked EXCEPT ![k] = [@ EXCEPT !.known = TRUE, !.low = low,
                                                 !.failed = reason]]
  /\ run' = [run EXCEPT !.step = "visit", !.todo = {}, !.failed = reason,
                        !.synced = <<>>, !.copying = {}]

Refuse ==
  /\ run.step = "visit" /\ run.todo # {}
  /\ seen.states[Visited] # "terminated" /\ Refusal(Visited) # "none"
  /\ Fail(Visited, Refusal(Visited), LowWaterMark(Visited))
  /\ UNCHANGED <<now, setting, left, files, actions, engine, images, triggerMap,
                 status, build, containers, seen, monitor, past>>

\* There is nothing to copy, or the container is not there yet.
Pass ==
  LET k == Visited IN
  /\ run.step = "visit" /\ run.todo # {}
  /\ seen.states[k] # "terminated" /\ Refusal(k) = "none"
  /\ FilesChanged(k) = {} \/ Waiting(k)
  /\ tracked' = [tracked EXCEPT ![k].known = TRUE]
  /\ run' = [run EXCEPT !.todo = @ \ {k},
       !.synced = Append(@, [id |-> k, time |-> tracked[k].synced,
                             waiting |-> Waiting(k)])]
  /\ UNCHANGED <<now, setting, left, files, actions, engine, images, triggerMap,
                 status, build, containers, seen, monitor, past>>

\* The first container that is updated starts a build in the engine.
Begin ==
  LET k == Visited IN
  /\ run.step = "visit" /\ run.todo # {}
  /\ seen.states[k] # "terminated" /\ Refusal(k) = "none"
  /\ FilesChanged(k) # {} /\ ~Waiting(k)
  /\ now' = now + 1
  /\ IF run.dispatched THEN UNCHANGED actions
     ELSE Dispatch([type |-> "start", source |-> "liveupdate",
                    start |-> now + 1, edits |-> FilesChanged(k)])
  /\ run' = [run EXCEPT !.step = "copy", !.dispatched = TRUE,
       !.copying = FilesChanged(k), !.mark = NewHighWaterMark(k),
       !.low = LowWaterMark(k)]
  /\ UNCHANGED <<setting, left, files, engine, images, triggerMap, status, build,
                 containers, seen, monitor, tracked, past>>

\* UpdateContainer copies what is on disk.  That a command in the container
\* fails makes no difference here.  History: the latest change that was copied.
Copy ==
  LET k == Visited IN
  /\ run.step = "copy" /\ containers[k].state = "running"
  /\ containers' = [containers EXCEPT ![k].content =
       [s \in Sources |-> IF s \in run.copying THEN disk[s] ELSE @[s]]]
  /\ tracked' = [tracked EXCEPT ![k].known = TRUE, ![k].synced = run.mark]
  /\ run' = [run EXCEPT !.step = "visit", !.todo = @ \ {k}, !.copying = {},
       !.synced = Append(@, [id |-> k, time |-> run.mark, waiting |-> FALSE])]
  /\ copied' = Max({copied} \cup {monitor.mod[s] : s \in run.copying})
  /\ UNCHANGED <<now, setting, left, files, actions, engine, images, triggerMap,
                 status, build, seen, monitor, late, unwritten>>

\* The container is gone, or there is trouble on the way.
CopyFails ==
  /\ run.step = "copy"
  /\ IF containers[Visited].state = "running" THEN Uses("infra")
     ELSE UNCHANGED left
  /\ Fail(Visited, "UpdateFailed", run.low)
  /\ UNCHANGED <<now, setting, files, actions, engine, images, triggerMap, status,
                 build, containers, seen, monitor, past>>

\* All containers are visited: the end of the build is dispatched.
Complete ==
  /\ run.step = "visit" /\ run.todo = {}
  /\ IF run.dispatched
     THEN Dispatch([type |-> "complete", source |-> "liveupdate",
                    ok |-> run.failed = "none"])
     ELSE UNCHANGED actions
  /\ run' = [run EXCEPT !.step = "update"]
  /\ UNCHANGED <<now, setting, left, files, engine, images, triggerMap, status,
                 build, containers, seen, monitor, tracked, past>>

\* A status that differs from the one that was got is written; this fails when
\* that one was old, and then all is tried once more.  History: what comes of
\* it is not written, because the same was got and is no longer there.
UpdateStatus ==
  LET new == [failed |-> run.failed, synced |-> run.synced]
      refused == new # seen.status /\ seen.status # status IN
  /\ run.step = "update"
  /\ run' = Idle
  /\ status' = IF new = seen.status \/ refused THEN status ELSE new
  /\ monitor' = [monitor EXCEPT !.changes = refused]
  /\ unwritten' = (~refused /\ status' # new)
  /\ UNCHANGED <<now, setting, left, files, actions, engine, images, triggerMap,
                 build, containers, seen, tracked, copied, late>>

LiveUpdateStep == \/ \E v \in Views : Reconcile(v)
                  \/ SkipTerminated \/ Refuse \/ Pass \/ Begin
                  \/ Copy \/ CopyFails \/ Complete \/ UpdateStatus

-----------------------------------------------------------------------------
Next ==
  \/ \E s \in Sources : Edit(s) \/ Publish(s) \/ Tell(s)
  \/ Reduce \/ Trigger \/ WriteTriggerQueue \/ FullBuild \/ LiveUpdateStep
  \/ \E k \in Ids : Come(k) \/ Go(k) \/ Crash(k) \/ Restart(k)

Spec == Init /\ [][Next]_vars

\* Controllers and the store do their work, and containers come and go.
Fairness ==
  /\ \A s \in Sources : WF_vars(Publish(s)) /\ WF_vars(Tell(s))
  /\ WF_vars(Reduce) /\ WF_vars(WriteTriggerQueue) /\ WF_vars(FullBuild)
  /\ WF_vars(LiveUpdateStep)
  /\ \A k \in Ids : WF_vars(Come(k)) /\ WF_vars(Go(k)) /\ WF_vars(Restart(k))

FairSpec == Spec /\ Fairness
=============================================================================
