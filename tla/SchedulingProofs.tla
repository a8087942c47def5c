--------------------------- MODULE SchedulingProofs ---------------------------
(***************************************************************************)
(* Proofs, for any resources and slots, of what the build scheduler        *)
(* promises as long as the Tiltfile is not loaded again: no resource is    *)
(* built twice at a time, there are never more builds than slots, the      *)
(* trigger queue agrees with the reasons for a build, what holds a build   *)
(* back is respected, and no edit is taken for built that is not.          *)
(***************************************************************************)
EXTENDS BuildControlProofs, FiniteSetTheorems

\* The resources are those of the first load.
NoReload ==
  /\ loaded = Manifests /\ tiltfile.load = NoLoad
  /\ used \in [{"edit", "trigger", "upsert", "click", "reload"} -> Nat]
  /\ used["reload"] = 0

\* A build of m is under way, or its completion is to be reduced.
InFlight(m) == Covered(m, 0)

HasSlot(m) == m \in buildSet /\ IsBuilding(m)

StartComes(m) == \E i \in StartsOnTheWay : queue[i].m = m

Completions(m) ==
  {i \in DOMAIN queue : queue[i].what = "complete" /\ queue[i].m = m}

\* A build is in one place at a time, and from its decision to the reduction
\* of its completion there is no other of the same resource: until its start
\* is reduced because the controller decides nothing, and then because the
\* resource is building.
OneInFlight ==
  /\ \A b, c \in builds :
       b.phase # "completed" /\ c.phase # "completed" /\ b.m = c.m => b = c
  /\ \A m \in Manifests : UnderWay(m) => Completions(m) = {}
  /\ \A m \in Manifests : \A i, j \in Completions(m) : i = j
  /\ \A m \in Manifests : InFlight(m) => HasSlot(m) \/ StartComes(m)
  /\ controller = "decided" => ~InFlight(entry.m)
  /\ \A i \in StartsOnTheWay : queue[i].start # 0

\* The resources that are decided on or built.
BusyNames == {b.m : b \in Busy}

SlotsSuffice ==
  /\ IsFiniteSet(buildSet)
  /\ IsFiniteSet(BusyNames) /\ Cardinality(BusyNames) <= MaxParallelUpdates

QuietInv == IInv /\ NoReload /\ OneInFlight /\ SlotsSuffice /\ TriggeredIffQueued
-----------------------------------------------------------------------------
(* No reload *)

\* Nothing loads the Tiltfile again.
LEMMA NoLoads ==
  ASSUME used'["reload"] = 0, NoReload
  PROVE  ~FinishLoad /\ ~HandleConfigsReloaded
  BY DEF NoReload, FinishLoad, HandleConfigsReloaded

\* The resources stay the same.
LEMMA NoReloadStep ==
  ASSUME used'["reload"] = 0, NoReload, [Next]_vars
  PROVE  NoReload'
  <1> USE DEF NoReload
  <1>1. CASE OnChange
    BY <1>1 DEF OnChange, CleanUpCanceledBuilds, NeedsBuild, NeedsNoBuild,
                DispatchStarted
  <1>2. CASE BuildStep
    BY <1>2 DEF BuildStep, Register, BuildAndDeploy, CleanUp
  <1>3. CASE Reduce
    BY <1>3 DEF Reduce, ReduceStarted, ReduceCompleted, AppendToTriggerQueue,
                HandleFileWatchUpdateStatusEvent
  <1>4. CASE World
    BY <1>4, NoLoads
    DEF World, Edit, HandleTrigger, HandleUIButtonUpsert, HandleUIResourceUpsert,
        EditTiltfile
  <1>5. CASE UNCHANGED vars
    BY <1>5 DEF vars
  <1>6. QED
    BY <1>1, <1>2, <1>3, <1>4, <1>5 DEF Next

moving == <<queue, buildSet, builds, current, controller, entry>>

\* The steps that move a build, and the others.
LEMMA Moves ==
  ASSUME used'["reload"] = 0, NoReload, [Next]_vars
  PROVE  \/ CleanUpCanceledBuilds \/ NeedsBuild \/ NeedsNoBuild
         \/ DispatchStarted
         \/ \E b \in builds : Register(b) \/ BuildAndDeploy(b) \/ CleanUp(b)
         \/ ReduceStarted \/ ReduceCompleted
         \/ UNCHANGED moving
  <1> USE DEF moving, slots, ctrl, manifests
  <1>1. CASE OnChange
    BY <1>1 DEF OnChange
  <1>2. CASE BuildStep
    BY <1>2 DEF BuildStep
  <1>3. CASE Reduce
    BY <1>3 DEF Reduce, AppendToTriggerQueue, HandleFileWatchUpdateStatusEvent
  <1>4. CASE World
    BY <1>4, NoLoads
    DEF World, Edit, HandleTrigger, HandleUIButtonUpsert,
        HandleUIResourceUpsert, EditTiltfile
  <1>5. CASE UNCHANGED vars
    BY <1>5 DEF vars
  <1>6. QED
    BY <1>1, <1>2, <1>3, <1>4, <1>5 DEF Next

-----------------------------------------------------------------------------
(* Where a build is *)

\* Canceled builds are those there were.
LEMMA CancelBack ==
  ASSUME NEW S, NEW bs \in SUBSET Build(Phases)
  PROVE  \A c, d \in Cancel(S, bs) : \E b, e \in bs :
           /\ b.m = c.m /\ b.phase = c.phase /\ e.m = d.m /\ e.phase = d.phase
           /\ b.start = c.start /\ b.rebuilt = c.rebuilt
           /\ b = e => c = d
  <1> DEFINE Hit(b) == b.m \in S /\ b.start = stopFns[b.m] /\ b.start # 0
             After(b) == IF Hit(b) THEN [b EXCEPT !.canceled = TRUE] ELSE b
  <1>1. \A b \in bs : /\ After(b).m = b.m /\ After(b).phase = b.phase
                      /\ After(b).start = b.start /\ After(b).rebuilt = b.rebuilt
    BY DEF Build
  <1>2. Cancel(S, bs) = {After(b) : b \in bs}
    BY DEF Cancel
  <1> HIDE DEF After
  <1>3. QED
    BY <1>1, <1>2

\* Each build that is under way after the step was so before, and two of them
\* were two.
Shrinks ==
  \A c, d \in builds' : c.phase # "completed" /\ d.phase # "completed" =>
    \E b, e \in builds :
      /\ b.phase # "completed" /\ b.m = c.m
      /\ b.start = c.start /\ b.rebuilt = c.rebuilt
      /\ e.phase # "completed" /\ e.m = d.m
      /\ b = e => c = d

\* A step under which only builds change, and none begins.
LEMMA ShrinkStep ==
  ASSUME OneInFlight, Shrinks, UNCHANGED <<queue, buildSet, current>>,
         controller' = "decided" => controller = "decided" /\ entry' = entry
  PROVE  OneInFlight'
  <1>1. \A m : UnderWay(m)' => UnderWay(m)
    BY DEF Shrinks, UnderWay
  <1>2. \A m : InFlight(m)' => InFlight(m)
    BY <1>1 DEF InFlight, Covered, CompletesAfter
  <1>3. \A m : /\ Completions(m)' = Completions(m) /\ HasSlot(m)' = HasSlot(m)
               /\ StartComes(m)' = StartComes(m)
    BY DEF Completions, HasSlot, IsBuilding, StartComes, StartsOnTheWay
  <1>4. \A c, d \in builds' :
          c.phase # "completed" /\ d.phase # "completed" /\ c.m = d.m => c = d
    BY DEF Shrinks, OneInFlight
  <1>5. StartsOnTheWay' = StartsOnTheWay
    BY DEF StartsOnTheWay
  <1>6. QED
    BY <1>1, <1>2, <1>3, <1>4, <1>5 DEF OneInFlight

\* Three kinds of steps are such steps.
LEMMA Shrinking ==
  ASSUME TypeOK, CleanUpCanceledBuilds \/ \E b \in builds : Register(b) \/ CleanUp(b)
  PROVE  /\ Shrinks /\ UNCHANGED <<queue, buildSet, current>>
         /\ controller' = "decided" => controller = "decided" /\ entry' = entry
  <1> USE DEF slots, ctrl, manifests
  <1>1. builds \subseteq Build(Phases)
    BY DEF TypeOK
  <1>2. CASE CleanUpCanceledBuilds
    <2>1. builds' = Cancel(ToCancel, builds)
      BY <1>2 DEF CleanUpCanceledBuilds
    <2>2. Shrinks
      BY <1>1, <2>1, CancelBack DEF Shrinks
    <2>3. QED
      BY <1>2, <2>2 DEF CleanUpCanceledBuilds
  <1>3. ASSUME NEW b \in builds, Register(b) PROVE Shrinks
    <2> DEFINE c == [b EXCEPT !.phase = "running"]
    <2>1. builds' = (builds \ {b}) \cup {c} /\ b.phase = "spawned"
      BY <1>3 DEF Register, Become
    <2>2. c.m = b.m
      BY <1>1, PhaseRules DEF Phases
    <2>3. c.start = b.start /\ c.rebuilt = b.rebuilt
      BY <1>1, SameBuild
    <2> HIDE DEF c
    <2>4. QED
      BY <2>1, <2>2, <2>3 DEF Shrinks
  <1>4. ASSUME NEW b \in builds, CleanUp(b) PROVE Shrinks
    <2>1. builds' = Cancel({b.m}, builds \ {b})
      BY <1>4 DEF CleanUp
    <2>2. builds \ {b} \in SUBSET Build(Phases)
      BY <1>1
    <2>3. QED
      BY <2>1, <2>2, CancelBack DEF Shrinks
  <1>5. QED
    BY <1>2, <1>3, <1>4 DEF Register, CleanUp, CleanUpCanceledBuilds

\* What taking the head off the queue does to what is in flight.
LEMMA HeadReduced ==
  ASSUME TypeOK, queue # <<>>, queue' = Tail(queue), builds' = builds
  PROVE  /\ Head(queue) = queue[1] /\ Head(queue) \in Msg /\ 1 \in DOMAIN queue
         /\ \A m : UnderWay(m)' = UnderWay(m)
         /\ \A m : InFlight(m)' => InFlight(m)
         /\ \A m : \A i \in Completions(m)' : i + 1 \in Completions(m) /\ i \in Nat \ {0}
         /\ \A i \in StartsOnTheWay' : /\ i + 1 \in StartsOnTheWay
                                       /\ i \in Nat \ {0} /\ queue'[i] = queue[i + 1]
         /\ \A i \in StartsOnTheWay : i # 1 =>
              i - 1 \in StartsOnTheWay' /\ queue'[i - 1] = queue[i]
  <1>1. queue \in Seq(Msg)
    BY DEF TypeOK
  <1>2. \A i \in DOMAIN queue' : /\ i + 1 \in DOMAIN queue /\ i \in Nat \ {0}
                                 /\ queue'[i] = queue[i + 1]
    BY <1>1, TailRules
  <1>3. \A i \in DOMAIN queue : i # 1 =>
          i - 1 \in DOMAIN queue' /\ queue'[i - 1] = queue[i]
    BY <1>1, TailRules
  <1>4. \A m : UnderWay(m)' = UnderWay(m)
    BY DEF UnderWay
  <1>5. \A m : CompletesAfter(m, 0)' => CompletesAfter(m, 0)
    BY <1>2 DEF CompletesAfter
  <1>6. Head(queue) = queue[1] /\ Head(queue) \in Msg /\ 1 \in DOMAIN queue
    BY <1>1, TailRules
  <1>7. QED
    BY <1>2, <1>3, <1>4, <1>5, <1>6
    DEF InFlight, Covered, Completions, StartsOnTheWay

\* Whose completion is in the queue, its build is in flight.
LEMMA InFlightRules ==
  ASSUME TypeOK, NEW m
  PROVE  InFlight(m) <=> UnderWay(m) \/ Completions(m) # {}
  <1>1. \A i \in DOMAIN queue : i > 0
    BY AppendRules DEF TypeOK
  <1>2. QED
    BY <1>1 DEF InFlight, Covered, CompletesAfter, Completions

\* From its decision on, a resource is built once.
LEMMA OneInFlightStep ==
  ASSUME used'["reload"] = 0, IInv, NoReload, OneInFlight, [Next]_vars
  PROVE  OneInFlight'
  <1> USE DEF slots, ctrl, manifests, statuses, triggers, world
  <1>1. TypeOK /\ StartIsCounted /\ queue \in Seq(Msg) /\ builds \subseteq Build(Phases)
    BY DEF IInv, TypeOK
  <1>2. CASE CleanUpCanceledBuilds \/ \E b \in builds : Register(b) \/ CleanUp(b)
    BY <1>1, <1>2, Shrinking, ShrinkStep
  <1>3. CASE NeedsBuild
    <2>1. PICK m \in NextTargetToBuild : entry'.m = m
      BY <1>3 DEF NeedsBuild, NoEntry
    <2>2. m \in Manifests /\ ~IsBuilding(m)
      <3>1. NextTargetToBuild \subseteq Eligible
        BY DEF NextTargetToBuild, NextUnbuilt, FirstTriggered, EarliestPending
      <3>2. QED
        BY <1>1, <2>1, <3>1 DEF Eligible, TypeOK
    <2>3. startedCount <= startCount /\ UNCHANGED <<queue, builds, buildSet, current>>
      BY <1>3 DEF NeedsBuild, MayDecide
    <2>4. StartsOnTheWay = {}
      BY <1>1, <2>3 DEF StartIsCounted, TypeOK
    <2>5. ~InFlight(m)
      BY <2>2, <2>4 DEF OneInFlight, HasSlot, StartComes
    <2>6. ~InFlight(entry.m)'
      BY <2>1, <2>3, <2>5 DEF InFlight, Covered, UnderWay, CompletesAfter
    <2>7. QED
      BY <2>3, <2>6
      DEF OneInFlight, InFlight, Covered, UnderWay, CompletesAfter, Completions,
          HasSlot, IsBuilding, StartComes, StartsOnTheWay
  <1>4. CASE DispatchStarted
    <2>1. PICK b \in Build(Phases), e \in Msg :
            /\ queue' = Append(queue, e) /\ e.what = "started" /\ e.m = b.m
            /\ builds' = builds \cup {b} /\ b.m = entry.m /\ e.start # 0
      BY <1>1, <1>4, DispatchRules
    <2>2. /\ controller = "decided" /\ controller' = "idle"
          /\ UNCHANGED <<buildSet, current>>
      BY <1>4 DEF DispatchStarted
    <2>3. b.m \in Manifests /\ ~UnderWay(b.m) /\ Completions(b.m) = {}
      <3>1. b.m \in Manifests /\ ~InFlight(b.m)
        BY <2>1, <2>2, PhaseRules DEF OneInFlight
      <3>2. QED
        BY <1>1, <3>1, InFlightRules
    <2>4. /\ \A m : Completions(m)' = Completions(m)
          /\ \A i \in StartsOnTheWay : i \in StartsOnTheWay' /\ queue'[i] = queue[i]
          /\ \A i \in StartsOnTheWay' :
               \/ i \in StartsOnTheWay /\ queue'[i] = queue[i]
               \/ queue'[i] = e
          /\ Len(queue) + 1 \in StartsOnTheWay' /\ queue'[Len(queue) + 1] = e
      BY <1>1, <2>1, AppendRules DEF Completions, StartsOnTheWay
    <2>5. \A m : UnderWay(m)' => UnderWay(m) \/ m = b.m
      BY <2>1 DEF UnderWay
    <2>6. \A m : InFlight(m)' => InFlight(m) \/ m = b.m
      BY <1>1, <2>1, <2>5, AppendRules DEF InFlight, Covered, CompletesAfter
    <2>7. \A m : /\ HasSlot(m)' = HasSlot(m)
                 /\ StartComes(m) => StartComes(m)'
                 /\ m = b.m => StartComes(m)'
      BY <2>1, <2>2, <2>4 DEF HasSlot, IsBuilding, StartComes
    <2>8. \A c, d \in builds' :
            c.phase # "completed" /\ d.phase # "completed" /\ c.m = d.m => c = d
      BY <2>1, <2>3 DEF OneInFlight, UnderWay
    <2>9. \A m \in Manifests : UnderWay(m)' => Completions(m)' = {}
      BY <2>3, <2>4, <2>5 DEF OneInFlight
    <2>10. /\ \A m \in Manifests : \A i, j \in Completions(m)' : i = j
           /\ \A m \in Manifests : InFlight(m)' => HasSlot(m)' \/ StartComes(m)'
           /\ \A i \in StartsOnTheWay' : queue'[i].start # 0
      BY <2>1, <2>4, <2>6, <2>7 DEF OneInFlight
    <2>11. QED
      BY <2>2, <2>8, <2>9, <2>10 DEF OneInFlight
  <1>5. ASSUME NEW b \in builds, BuildAndDeploy(b) PROVE OneInFlight'
    <2>1. PICK e \in Msg : queue' = Append(queue, e) /\ e.what = "complete" /\ e.m = b.m
      BY <1>1, <1>5, CompleteRules
    <2>2. PICK c \in Build(Phases) : /\ builds' = (builds \ {b}) \cup {c}
                                     /\ c.m = b.m /\ c.phase = "completed"
      <3> DEFINE c == [b EXCEPT !.phase = "completed"]
      <3>1. builds' = (builds \ {b}) \cup {c}
        BY <1>5 DEF BuildAndDeploy, Become
      <3>2. c \in Build(Phases) /\ c.m = b.m /\ c.phase = "completed"
        BY <1>1, PhaseRules DEF Phases
      <3> HIDE DEF c
      <3>3. QED
        BY <3>1, <3>2
    <2>3. b.phase = "running" /\ UNCHANGED <<buildSet, current, controller, entry>>
      BY <1>5 DEF BuildAndDeploy
    <2>4. b.m \in Manifests /\ UnderWay(b.m) /\ Completions(b.m) = {}
      BY <1>1, <2>3, PhaseRules DEF UnderWay, OneInFlight
    <2>5. ~UnderWay(b.m)' /\ \A m : UnderWay(m)' => UnderWay(m)
      BY <2>2, <2>3 DEF UnderWay, OneInFlight
    <2>6. /\ StartsOnTheWay' = StartsOnTheWay
          /\ \A i \in StartsOnTheWay : queue'[i] = queue[i]
          /\ \A m : m # b.m => Completions(m)' = Completions(m)
          /\ Completions(b.m)' = {Len(queue) + 1}
      BY <1>1, <2>1, <2>4, AppendRules DEF StartsOnTheWay, Completions
    <2>7. \A m : InFlight(m)' => InFlight(m)
      BY <1>1, <2>1, <2>4, <2>5, AppendRules DEF InFlight, Covered, CompletesAfter
    <2>8. \A m : HasSlot(m)' = HasSlot(m) /\ StartComes(m)' = StartComes(m)
      BY <2>3, <2>6 DEF HasSlot, IsBuilding, StartComes
    <2>9. \A x, y \in builds' :
            x.phase # "completed" /\ y.phase # "completed" /\ x.m = y.m => x = y
      BY <2>2 DEF OneInFlight
    <2>10. /\ \A m \in Manifests : UnderWay(m)' => Completions(m)' = {}
           /\ \A m \in Manifests : \A i, j \in Completions(m)' : i = j
      BY <2>5, <2>6 DEF OneInFlight
    <2>11. QED
      BY <2>3, <2>6, <2>7, <2>8, <2>9, <2>10 DEF OneInFlight
  <1>6. CASE ReduceStarted
    <2>0. PICK h : h = Head(queue)
      OBVIOUS
    <2>1. /\ queue # <<>> /\ queue' = Tail(queue) /\ builds' = builds
          /\ h.what = "started" /\ HandleBuildStarted(h)
          /\ UNCHANGED <<controller, entry>>
      BY <1>6, <2>0 DEF ReduceStarted
    <2>2. h = queue[1] /\ h \in Msg /\ 1 \in StartsOnTheWay
      BY <1>1, <2>0, <2>1, HeadReduced DEF StartsOnTheWay
    <2>3. h.m \in loaded /\ h.m \in Manifests /\ h.start # 0
      BY <2>2 DEF Msg, NoReload, OneInFlight
    <2>4. /\ current' = [current EXCEPT ![h.m] = [start |-> h.start, edits |-> h.edits]]
          /\ buildSet' = buildSet \cup {h.m}
      BY <2>1, <2>3 DEF HandleBuildStarted
    <2>5. controller # "decided" /\ \A i \in StartsOnTheWay : i = 1
      BY <1>1, <2>2 DEF StartIsCounted
    <2>6. HasSlot(h.m)' /\ \A m : m # h.m => HasSlot(m)' = HasSlot(m)
      BY <1>1, <2>3, <2>4 DEF HasSlot, IsBuilding, TypeOK
    <2>7. \A m \in Manifests : InFlight(m)' => HasSlot(m)'
      <3>1. \A m : StartComes(m) => m = h.m
        BY <2>2, <2>5 DEF StartComes
      <3>2. \A m : InFlight(m)' => InFlight(m)
        BY <1>1, <2>1, HeadReduced
      <3>3. QED
        BY <2>6, <3>1, <3>2 DEF OneInFlight
    <2>8. /\ \A m \in Manifests : UnderWay(m)' => Completions(m)' = {}
          /\ \A m \in Manifests : \A i, j \in Completions(m)' : i = j
          /\ \A i \in StartsOnTheWay' : queue'[i].start # 0
      <3>1. /\ \A m : UnderWay(m)' = UnderWay(m)
            /\ \A m : \A i \in Completions(m)' : i + 1 \in Completions(m) /\ i \in Nat
            /\ \A i \in StartsOnTheWay' : i + 1 \in StartsOnTheWay /\ queue'[i] = queue[i + 1]
        BY <1>1, <2>1, HeadReduced
      <3>2. \A m \in Manifests : \A i, j \in Completions(m)' : i = j
        <4>1. \A m \in Manifests : \A i, j \in Completions(m)' : i + 1 = j + 1
          BY <3>1 DEF OneInFlight
        <4>2. QED
          BY <3>1, <4>1
      <3>3. QED
        BY <3>1, <3>2 DEF OneInFlight
    <2>9. QED
      BY <2>1, <2>5, <2>7, <2>8 DEF OneInFlight
  <1>7. CASE ReduceCompleted
    <2>0. PICK h : h = Head(queue)
      OBVIOUS
    <2>1. /\ queue # <<>> /\ queue' = Tail(queue) /\ builds' = builds
          /\ h.what = "complete" /\ UNCHANGED <<controller, entry>>
          /\ buildSet' = buildSet \ {h.m}
          /\ current' = [current EXCEPT ![h.m] = NoBuild]
      BY <1>7, <2>0 DEF ReduceCompleted, HandleBuildCompleted, GiveBack
    <2>2. h = queue[1] /\ h \in Msg /\ 1 \in Completions(h.m) /\ h.m \in Manifests
      BY <1>1, <2>0, <2>1, HeadReduced DEF Completions, Msg
    <2>3. /\ \A m : UnderWay(m)' = UnderWay(m)
          /\ \A m : InFlight(m)' => InFlight(m)
          /\ \A m : \A i \in Completions(m)' : i + 1 \in Completions(m) /\ i \in Nat \ {0}
          /\ \A i \in StartsOnTheWay' : i + 1 \in StartsOnTheWay /\ queue'[i] = queue[i + 1]
          /\ \A i \in StartsOnTheWay : i # 1 =>
               i - 1 \in StartsOnTheWay' /\ queue'[i - 1] = queue[i]
      BY <1>1, <2>1, HeadReduced
    <2>4. 1 \notin StartsOnTheWay
      BY <2>1, <2>2 DEF StartsOnTheWay
    <2>5. \A m \in Manifests : \A i, j \in Completions(m)' : i = j
      <3>1. \A m \in Manifests : \A i, j \in Completions(m)' : i + 1 = j + 1
        BY <2>3 DEF OneInFlight
      <3>2. QED
        BY <2>3, <3>1
    <2>6. ~InFlight(h.m)'
      <3>1. ~UnderWay(h.m)'
        BY <2>2, <2>3 DEF OneInFlight
      <3>2. ASSUME NEW i \in Completions(h.m)' PROVE FALSE
        <4>1. i + 1 = 1 /\ i \in Nat \ {0}
          BY <2>2, <2>3 DEF OneInFlight
        <4>2. QED
          BY <4>1
      <3>3. QED
        BY <3>1, <3>2 DEF InFlight, Covered, CompletesAfter, Completions
    <2>7. \A m : m # h.m => HasSlot(m)' = HasSlot(m)
      BY <1>1, <2>1 DEF HasSlot, IsBuilding, TypeOK
    <2>8. \A m : StartComes(m) => StartComes(m)'
      BY <2>3, <2>4 DEF StartComes
    <2>9. \A m \in Manifests : InFlight(m)' => HasSlot(m)' \/ StartComes(m)'
      BY <2>3, <2>6, <2>7, <2>8 DEF OneInFlight
    <2>10. \A m \in Manifests : UnderWay(m)' => Completions(m)' = {}
      BY <2>3 DEF OneInFlight
    <2>11. \A i \in StartsOnTheWay' : queue'[i].start # 0
      BY <2>3 DEF OneInFlight
    <2>12. controller' = "decided" => ~InFlight(entry.m)'
      BY <2>1, <2>3 DEF OneInFlight
    <2>13. QED
      BY <2>1, <2>5, <2>9, <2>10, <2>11, <2>12 DEF OneInFlight
  <1>8. CASE NeedsNoBuild \/ UNCHANGED moving
    <2>1. /\ UNCHANGED <<queue, buildSet, current, builds>>
          /\ controller' = "decided" => controller = "decided" /\ entry' = entry
      BY <1>8 DEF NeedsNoBuild, moving
    <2>2. Shrinks
      BY <2>1 DEF Shrinks
    <2>3. QED
      BY <2>1, <2>2, ShrinkStep
  <1>9. QED
    BY <1>2, <1>3, <1>4, <1>5, <1>6, <1>7, <1>8, Moves
-----------------------------------------------------------------------------
(* The slots *)

Names(bs) == {b.m : b \in {c \in bs : c.phase # "completed"}}

\* The names of the busy resources: one that is decided on, or none, and the
\* builds that are under way.
LEMMA BusyRules ==
  /\ BusyNames = Names(builds) \cup IF controller = "decided" THEN {entry.m} ELSE {}
  /\ \A m : m \in Names(builds) <=> UnderWay(m)
  BY DEF BusyNames, Busy, Names, UnderWay

\* A finite set with as much or less in it has no more in it.
LEMMA SubsetRules ==
  ASSUME NEW S, IsFiniteSet(S), NEW T \in SUBSET S, NEW n \in Nat,
         Cardinality(S) <= n
  PROVE  IsFiniteSet(T) /\ Cardinality(T) <= n
  <1>1. IsFiniteSet(T) /\ Cardinality(T) <= Cardinality(S)
    BY FS_Subset
  <1>2. Cardinality(S) \in Nat /\ Cardinality(T) \in Nat
    BY <1>1, FS_CardinalityType
  <1>3. QED
    BY <1>1, <1>2

\* Only a decision makes another resource busy.
LEMMA BusyBack ==
  ASSUME used'["reload"] = 0, TypeOK, NoReload, [Next]_vars
  PROVE  BusyNames' \subseteq BusyNames \/ NeedsBuild
  <1> USE DEF slots, ctrl, manifests
  <1>1. builds \subseteq Build(Phases)
    BY DEF TypeOK
  <1>2. CASE CleanUpCanceledBuilds \/ \E b \in builds : Register(b) \/ CleanUp(b)
    <2>1. /\ Shrinks
          /\ controller' = "decided" => controller = "decided" /\ entry' = entry
      BY <1>2, Shrinking
    <2>2. QED
      BY <2>1 DEF Shrinks, BusyNames, Busy
  <1>3. CASE DispatchStarted
    <2>1. PICK b \in Build(Phases) : builds' = builds \cup {b} /\ b.m = entry.m
      BY <1>3, DispatchRules
    <2>2. controller = "decided" /\ controller' = "idle"
      BY <1>3 DEF DispatchStarted
    <2>3. QED
      BY <2>1, <2>2 DEF BusyNames, Busy
  <1>4. ASSUME NEW b \in builds, BuildAndDeploy(b) PROVE BusyNames' \subseteq BusyNames
    <2> DEFINE c == [b EXCEPT !.phase = "completed"]
    <2>1. builds' = (builds \ {b}) \cup {c} /\ UNCHANGED <<controller, entry>>
      BY <1>4 DEF BuildAndDeploy, Become
    <2>2. c.phase = "completed"
      BY <1>1, PhaseRules DEF Phases
    <2> HIDE DEF c
    <2>3. QED
      BY <2>1, <2>2 DEF BusyNames, Busy
  <1>5. CASE ReduceStarted \/ ReduceCompleted \/ NeedsNoBuild \/ UNCHANGED moving
    <2>1. /\ UNCHANGED builds
          /\ controller' = "decided" => controller = "decided" /\ entry' = entry
      BY <1>5 DEF ReduceStarted, ReduceCompleted, NeedsNoBuild, moving
    <2>2. QED
      BY <2>1 DEF BusyNames, Busy
  <1>6. QED
    BY <1>2, <1>3, <1>4, <1>5, Moves

\* Deciding needs a free slot; nothing else makes more resources busy.
LEMMA SlotsSufficeStep ==
  ASSUME used'["reload"] = 0, IInv, NoReload, OneInFlight, SlotsSuffice, [Next]_vars
  PROVE  SlotsSuffice'
  <1> USE DEF slots, ctrl, manifests, statuses, triggers, world
  <1>1. /\ TypeOK /\ StartIsCounted /\ builds \subseteq Build(Phases)
        /\ MaxParallelUpdates \in Nat
    BY SettingsAssumption DEF IInv, TypeOK
  <1>2. ASSUME BusyNames' \subseteq BusyNames
        PROVE  IsFiniteSet(BusyNames)' /\ (Cardinality(BusyNames) <= MaxParallelUpdates)'
    BY <1>1, <1>2, SubsetRules DEF SlotsSuffice
  <1>3. CASE NeedsBuild
    <2>1. /\ UNCHANGED <<queue, builds, buildSet>> /\ startedCount <= startCount
          /\ AvailableBuildSlots >= 1
      BY <1>3 DEF NeedsBuild, MayDecide
    <2>2. StartsOnTheWay = {}
      BY <1>1, <2>1 DEF StartIsCounted, TypeOK
    <2>3. Names(builds) \subseteq buildSet
      <3>1. \A m \in Manifests : UnderWay(m) => m \in buildSet
        BY <2>2 DEF OneInFlight, InFlight, Covered, StartComes, HasSlot
      <3>2. Names(builds) \subseteq Manifests
        BY <1>1 DEF Names, Build
      <3>3. QED
        BY <3>1, <3>2, BusyRules
    <2>4. BusyNames' \subseteq buildSet \cup {entry'.m}
      BY <2>1, <2>3 DEF BusyNames, Busy, Names
    <2>5. PICK m : m = entry'.m
      OBVIOUS
    <2>6. /\ IsFiniteSet(buildSet \cup {m})
          /\ Cardinality(buildSet \cup {m}) <= MaxParallelUpdates
      <3>1. IsFiniteSet(buildSet) /\ Cardinality(buildSet) \in Nat
        BY FS_CardinalityType DEF SlotsSuffice
      <3>2. Cardinality(buildSet) + 1 <= MaxParallelUpdates
        BY <1>1, <2>1, <3>1 DEF AvailableBuildSlots
      <3>3. /\ IsFiniteSet(buildSet \cup {m})
            /\ \/ Cardinality(buildSet \cup {m}) = Cardinality(buildSet)
               \/ Cardinality(buildSet \cup {m}) = Cardinality(buildSet) + 1
        BY <3>1, FS_AddElement
      <3>4. QED
        BY <1>1, <3>1, <3>2, <3>3
    <2>7. IsFiniteSet(BusyNames') /\ Cardinality(BusyNames') <= MaxParallelUpdates
      BY <1>1, <2>4, <2>5, <2>6, SubsetRules
    <2>8. QED
      BY <2>1, <2>7 DEF SlotsSuffice
  <1>4. CASE BusyNames' \subseteq BusyNames
    <2>1. \E m : buildSet' \in {buildSet, buildSet \cup {m}, buildSet \ {m}}
      <3>1. CASE ReduceStarted \/ ReduceCompleted
        BY <3>1 DEF ReduceStarted, HandleBuildStarted, ReduceCompleted,
                    HandleBuildCompleted, GiveBack
      <3>2. CASE UNCHANGED buildSet
        BY <3>2
      <3>3. QED
        BY <1>1, <3>1, <3>2, Moves
        DEF CleanUpCanceledBuilds, NeedsBuild, NeedsNoBuild, DispatchStarted,
            Register, BuildAndDeploy, CleanUp, moving
    <2>2. IsFiniteSet(buildSet')
      BY <2>1, FS_AddElement, FS_RemoveElement DEF SlotsSuffice
    <2>3. QED
      BY <1>2, <1>4, <2>2 DEF SlotsSuffice
  <1>5. QED
    BY <1>1, <1>3, <1>4, BusyBack

-----------------------------------------------------------------------------
(* The trigger queue *)

\* Taking a resource out keeps the queue and the reasons in step.
LEMMA RemoveStep ==
  ASSUME TypeOK, TriggeredIffQueued, NEW m, RemoveFromTriggerQueue(m)
  PROVE  TriggeredIffQueued'
  <1>1. /\ triggerQueue \in Seq(Manifests) /\ IsInjective(triggerQueue)
        /\ triggered \in [Manifests -> BOOLEAN]
    BY DEF TypeOK
  <1>2. /\ triggered' = [triggered EXCEPT ![m] = FALSE]
        /\ triggerQueue' = RemoveFirst(triggerQueue, m)
    BY DEF RemoveFromTriggerQueue
  <1>3. ToSet(triggerQueue') = ToSet(triggerQueue) \ {m}
    BY <1>1, <1>2, RemoveFirstRules
  <1>4. QED
    BY <1>1, <1>2, <1>3 DEF TriggeredIffQueued

\* Every step does.
LEMMA TriggerStep ==
  ASSUME used'["reload"] = 0, TypeOK, NoReload, TriggeredIffQueued, [Next]_vars
  PROVE  TriggeredIffQueued'
  <1> USE DEF triggers
  <1>1. ASSUME UNCHANGED triggers PROVE TriggeredIffQueued'
    BY <1>1 DEF TriggeredIffQueued
  <1>2. CASE OnChange
    BY <1>1, <1>2 DEF OnChange, CleanUpCanceledBuilds, NeedsBuild, NeedsNoBuild,
                      DispatchStarted
  <1>3. CASE BuildStep
    BY <1>1, <1>3 DEF BuildStep, Register, BuildAndDeploy, CleanUp
  <1>4. CASE ReduceStarted
    BY <1>1, <1>4, RemoveStep DEF ReduceStarted, HandleBuildStarted
  <1>5. CASE ReduceCompleted
    BY <1>1, <1>5 DEF ReduceCompleted
  <1>6. ASSUME NEW m \in Manifests, AppendToTriggerQueue(m)
        PROVE  TriggeredIffQueued'
    <2>1. /\ triggered' = [triggered EXCEPT ![m] = TRUE]
          /\ triggerQueue' = IF m \in ToSet(triggerQueue) THEN triggerQueue
                             ELSE Append(triggerQueue, m)
      BY <1>6 DEF AppendToTriggerQueue, NoReload
    <2>2. triggerQueue \in Seq(Manifests) /\ triggered \in [Manifests -> BOOLEAN]
      BY DEF TypeOK
    <2>3. ToSet(Append(triggerQueue, m)) = ToSet(triggerQueue) \cup {m}
      BY <2>2, AppendRules DEF ToSet
    <2>4. ToSet(triggerQueue') = ToSet(triggerQueue) \cup {m}
      BY <2>1, <2>3
    <2>5. QED
      BY <2>1, <2>2, <2>4 DEF TriggeredIffQueued
  <1>7. ASSUME NEW m \in Manifests, NEW t \in Targets,
               HandleFileWatchUpdateStatusEvent(m, t)
        PROVE  TriggeredIffQueued'
    BY <1>1, <1>7 DEF HandleFileWatchUpdateStatusEvent
  <1>8. CASE World
    <2>1. ASSUME NEW m \in Manifests, NEW s, HandleUIResourceUpsert(m, s)
          PROVE  TriggeredIffQueued'
      BY <1>1, <2>1, RemoveStep DEF HandleUIResourceUpsert
    <2>2. QED
      BY <1>1, <1>8, <2>1, NoLoads
      DEF World, Edit, HandleTrigger, HandleUIButtonUpsert, EditTiltfile
  <1>9. CASE UNCHANGED vars
    BY <1>1, <1>9 DEF vars
  <1>10. QED
    BY <1>2, <1>3, <1>4, <1>5, <1>6, <1>7, <1>8, <1>9 DEF Next, Reduce

-----------------------------------------------------------------------------
(* What is sound until a reload *)

\* The invariant holds at the start.
LEMMA InitQuiet == Init => QuietInv
  <1> SUFFICES ASSUME Init PROVE QuietInv
    OBVIOUS
  <1>1. IInv
    BY InitIInv
  <1>2. NoReload
    BY DEF Init, NoReload
  <1>3. OneInFlight
    BY DEF Init, OneInFlight, InFlight, Covered, UnderWay, CompletesAfter,
           Completions, StartsOnTheWay
  <1>4. BusyNames = {} /\ buildSet = {}
    BY DEF Init, BusyNames, Busy
  <1>5. SlotsSuffice
    BY <1>4, FS_EmptySet, SettingsAssumption DEF SlotsSuffice
  <1>6. TriggeredIffQueued
    BY DEF Init, TriggeredIffQueued, ToSet
  <1>7. QED
    BY <1>1, <1>2, <1>3, <1>5, <1>6 DEF QuietInv

\* Until the first reload, it is inductive.
LEMMA QuietStep ==
  ASSUME used'["reload"] = 0, QuietInv, [Next]_vars
  PROVE  QuietInv'
  <1>1. IInv /\ NoReload /\ OneInFlight /\ SlotsSuffice /\ TriggeredIffQueued
    BY DEF QuietInv
  <1>2. IInv'
    BY <1>1, TypeStep, StartStep, SlotStep DEF IInv
  <1>3. NoReload' /\ OneInFlight' /\ SlotsSuffice' /\ TriggeredIffQueued'
    BY <1>1, NoReloadStep, OneInFlightStep, SlotsSufficeStep, TriggerStep DEF IInv
  <1>4. QED
    BY <1>2, <1>3 DEF QuietInv

\* Reloads are counted, and never forgotten.
Counted == used \in [{"edit", "trigger", "upsert", "click", "reload"} -> Nat]

LEMMA ReloadsAreCounted ==
  ASSUME Counted, [Next]_vars
  PROVE  Counted' /\ (used'["reload"] = 0 => used["reload"] = 0)
  <1> USE DEF Counted
  <1>1. CASE OnChange
    BY <1>1 DEF OnChange, CleanUpCanceledBuilds, NeedsBuild, NeedsNoBuild,
                DispatchStarted
  <1>2. CASE BuildStep
    BY <1>2 DEF BuildStep, Register, BuildAndDeploy, CleanUp
  <1>3. CASE Reduce
    BY <1>3 DEF Reduce, ReduceStarted, ReduceCompleted, AppendToTriggerQueue,
                HandleFileWatchUpdateStatusEvent
  <1>4. CASE FinishLoad
    <2>1. used' = [used EXCEPT !["reload"] = @ + 1]
      BY <1>4 DEF FinishLoad
    <2>2. QED
      BY <2>1
  <1>5. CASE EditTiltfile \/ HandleConfigsReloaded
    BY <1>5 DEF EditTiltfile, HandleConfigsReloaded
  <1>6. ASSUME NEW m \in Manifests,
               \/ \E t \in Specs[m] : Edit(m, t)
               \/ HandleTrigger(m) \/ HandleUIButtonUpsert(m)
               \/ \E s \in {"enabled", "disabled"} : HandleUIResourceUpsert(m, s)
        PROVE  Counted' /\ used'["reload"] = used["reload"]
    BY <1>6 DEF Edit, HandleTrigger, HandleUIButtonUpsert, HandleUIResourceUpsert
  <1>7. CASE UNCHANGED vars
    BY <1>7 DEF vars
  <1>8. QED
    BY <1>1, <1>2, <1>3, <1>4, <1>5, <1>6, <1>7 DEF Next, World

QuietAtFirst == Counted /\ (used["reload"] = 0 => QuietInv)

LEMMA QuietInvariance == Spec => []QuietAtFirst
  <1>1. Init => QuietAtFirst
    BY InitQuiet DEF QuietAtFirst, QuietInv, NoReload, Counted
  <1>2. QuietAtFirst /\ [Next]_vars => QuietAtFirst'
    BY QuietStep, ReloadsAreCounted DEF QuietAtFirst
  <1>3. QED
    BY <1>1, <1>2, PTL DEF Spec

\* Two builds that are busy are builds of two resources.
LEMMA BusyDiffer == QuietInv => OneBuildAtATime
  BY DEF QuietInv, OneInFlight, InFlight, Covered, UnderWay, OneBuildAtATime, Busy

\* So there are never more builds than slots.
LEMMA BusyFit == QuietInv => SlotLimit
  <1> SUFFICES ASSUME QuietInv PROVE SlotLimit
    OBVIOUS
  <1> DEFINE f == [b \in Busy |-> b.m]
  <1>1. IsFiniteSet(BusyNames) /\ Cardinality(BusyNames) <= MaxParallelUpdates
    BY DEF QuietInv, SlotsSuffice
  <1>2. f \in Injection(Busy, BusyNames)
    BY BusyDiffer DEF OneBuildAtATime, BusyNames, Injection, IsInjective
  <1>3. IsFiniteSet(Busy) /\ Cardinality(Busy) <= Cardinality(BusyNames)
    BY <1>1, <1>2, FS_Injection
  <1>4. Cardinality(Busy) \in Nat /\ Cardinality(BusyNames) \in Nat
    BY <1>1, <1>3, FS_CardinalityType
  <1>5. QED
    BY <1>1, <1>3, <1>4, SettingsAssumption DEF SlotLimit

\* As long as the Tiltfile has not been loaded again, no resource is built
\* twice at a time, although OnChange decides before its last decision is
\* recorded; there are never more builds than slots; and the trigger queue has
\* exactly the resources with a trigger as a reason to build.
THEOREM SchedulingIsSound == Spec => []SchedulingSound
  <1>1. QuietAtFirst => SchedulingSound
    BY BusyDiffer, BusyFit DEF QuietAtFirst, QuietInv, SchedulingSound
  <1>2. QED
    BY <1>1, QuietInvariance, PTL

-----------------------------------------------------------------------------
(* What holds a build back: the invariant *)

\* A resource is disabled only by an update, and asked for only by a trigger.
RequestsAreCounted ==
  /\ \A m \in Manifests : disableState[m] # "pending"
  /\ used["upsert"] = 0 => \A m \in Manifests : disableState[m] # "disabled"
  /\ used["trigger"] = 0 => asked = {} /\ ToSet(triggerQueue) = {}

\* A build of m has begun, or is about to.
Engaged(m) ==
  \/ StartedFirstBuild(m) \/ InFlight(m)
  \/ controller = "decided" /\ entry.m = m

\* Whoever is engaged found its dependencies ready.
DependenciesAreReady(m) == \A d \in ResourceDependencies[m] : ready[d]

EngagedAreReady == \A m \in Manifests : Engaged(m) => DependenciesAreReady(m)

\* An unparallelizable resource that is busy is the only one.
BusyAlone == \A m, n \in BusyNames : m \in Unparallelizable => m = n

HoldsInv == QuietInv /\ RequestsAreCounted /\ EngagedAreReady /\ BusyAlone

\* Nobody asks for a disabled resource: there is no update, or no trigger.
NoneDisabledIsAsked == used["upsert"] = 0 \/ used["trigger"] = 0

-----------------------------------------------------------------------------
(* What is held back *)

\* Every step keeps count of the updates and of the triggers.
LEMMA RequestsStep ==
  ASSUME used'["reload"] = 0, TypeOK, NoReload, RequestsAreCounted, [Next]_vars
  PROVE  RequestsAreCounted'
  <1> USE DEF triggers, manifests, world
  <1>1. ASSUME UNCHANGED <<used, disableState, asked, triggerQueue>>
        PROVE  RequestsAreCounted'
    BY <1>1 DEF RequestsAreCounted
  <1>2. ASSUME NEW m, RemoveFromTriggerQueue(m)
        PROVE  ToSet(triggerQueue') \subseteq ToSet(triggerQueue)
    BY <1>2, RemoveFirstRules DEF RemoveFromTriggerQueue, TypeOK
  <1>3. CASE OnChange
    BY <1>1, <1>3 DEF OnChange, CleanUpCanceledBuilds, NeedsBuild, NeedsNoBuild,
                      DispatchStarted
  <1>4. CASE BuildStep
    BY <1>1, <1>4 DEF BuildStep, Register, BuildAndDeploy, CleanUp
  <1>5. CASE ReduceStarted
    <2>1. UNCHANGED <<used, disableState, asked>>
      BY <1>5 DEF ReduceStarted
    <2>2. ToSet(triggerQueue') \subseteq ToSet(triggerQueue)
      BY <1>2, <1>5 DEF ReduceStarted, HandleBuildStarted
    <2>3. QED
      BY <2>1, <2>2 DEF RequestsAreCounted
  <1>6. CASE ReduceCompleted
    BY <1>1, <1>6 DEF ReduceCompleted
  <1>7. ASSUME NEW m \in Manifests, AppendToTriggerQueue(m)
        PROVE  RequestsAreCounted'
    <2>1. m \in asked /\ UNCHANGED <<used, disableState>>
      BY <1>7 DEF AppendToTriggerQueue
    <2>2. QED
      BY <2>1 DEF RequestsAreCounted
  <1>8. ASSUME NEW m \in Manifests, NEW t \in Targets,
               HandleFileWatchUpdateStatusEvent(m, t)
        PROVE  RequestsAreCounted'
    BY <1>1, <1>8 DEF HandleFileWatchUpdateStatusEvent
  <1>9. ASSUME NEW m \in Manifests, NEW t \in Specs[m], Edit(m, t)
        PROVE  RequestsAreCounted'
    <2>1. /\ used' = [used EXCEPT !["edit"] = @ + 1]
          /\ UNCHANGED <<disableState, asked, triggerQueue>>
      BY <1>9 DEF Edit
    <2>2. used'["upsert"] = used["upsert"] /\ used'["trigger"] = used["trigger"]
      BY <2>1 DEF NoReload
    <2>3. QED
      BY <2>1, <2>2 DEF RequestsAreCounted
  <1>10. ASSUME NEW m \in Manifests, HandleTrigger(m) PROVE RequestsAreCounted'
    <2>1. /\ used' = [used EXCEPT !["trigger"] = @ + 1]
          /\ UNCHANGED disableState
      BY <1>10 DEF HandleTrigger
    <2>2. used'["upsert"] = used["upsert"] /\ used'["trigger"] # 0
      BY <2>1 DEF NoReload
    <2>3. QED
      BY <2>1, <2>2 DEF RequestsAreCounted
  <1>11. ASSUME NEW m \in Manifests, HandleUIButtonUpsert(m)
         PROVE  RequestsAreCounted'
    <2>1. /\ used' = [used EXCEPT !["click"] = @ + 1]
          /\ UNCHANGED <<disableState, asked, triggerQueue>>
      BY <1>11 DEF HandleUIButtonUpsert
    <2>2. used'["upsert"] = used["upsert"] /\ used'["trigger"] = used["trigger"]
      BY <2>1 DEF NoReload
    <2>3. QED
      BY <2>1, <2>2 DEF RequestsAreCounted
  <1>12. ASSUME NEW m \in Manifests, NEW s \in {"enabled", "disabled"},
                HandleUIResourceUpsert(m, s)
         PROVE  RequestsAreCounted'
    <2>1. /\ used' = [used EXCEPT !["upsert"] = @ + 1]
          /\ disableState' = [disableState EXCEPT ![m] = s] /\ asked' = asked
      BY <1>12 DEF HandleUIResourceUpsert, RequestsAreCounted
    <2>2. used'["trigger"] = used["trigger"] /\ used'["upsert"] # 0
      BY <2>1 DEF NoReload
    <2>3. ToSet(triggerQueue') \subseteq ToSet(triggerQueue)
      BY <1>2, <1>12 DEF HandleUIResourceUpsert
    <2>4. \A n \in Manifests : disableState'[n] # "pending"
      BY <2>1 DEF TypeOK, RequestsAreCounted
    <2>5. QED
      BY <2>1, <2>2, <2>3, <2>4 DEF RequestsAreCounted
  <1>13. CASE EditTiltfile
    BY <1>1, <1>13 DEF EditTiltfile
  <1>14. CASE UNCHANGED vars
    BY <1>1, <1>14 DEF vars
  <1>15. QED
    BY <1>3, <1>4, <1>5, <1>6, <1>7, <1>8, <1>9, <1>10, <1>11, <1>12, <1>13,
       <1>14, NoLoads
    DEF Next, Reduce, World

\* Only what is not held is built: whoever is in the trigger queue is enabled,
\* so it is among those that the holds are computed for.
LEMMA CandidateRules ==
  ASSUME TypeOK, NoReload, RequestsAreCounted, NoneDisabledIsAsked,
         NEW m \in NextTargetToBuild
  PROVE  /\ m \in Manifests /\ m \in Eligible /\ ~HoldAll
         /\ Building # {} => m \notin Unparallelizable
         /\ ~WaitingOnDependencies(m)
  <1>1. m \in Eligible /\ ~HoldAll
    BY DEF NextTargetToBuild, NextUnbuilt, FirstTriggered, EarliestPending
  <1>2. m \in TargetsNeedingAnyBuild
    <2>1. CASE m \in TargetsNeedingAnyBuild \cap Eligible
      BY <2>1
    <2>2. CASE m \in FirstTriggered
      <3>1. m \in ToSet(triggerQueue) /\ m \in Manifests
        BY <1>1, <2>2 DEF FirstTriggered, ToSet, Eligible, TypeOK
      <3>2. disableState[m] # "disabled" /\ m \in loaded
        BY <3>1 DEF NoneDisabledIsAsked, RequestsAreCounted, NoReload
      <3>3. QED
        BY <3>1, <3>2 DEF TargetsNeedingAnyBuild
    <2>3. QED
      BY <2>1, <2>2 DEF NextTargetToBuild, NextUnbuilt, EarliestPending
  <1>3. m \notin Held /\ m \in Manifests
    BY <1>1 DEF Eligible, TypeOK
  <1>4. QED
    BY <1>1, <1>2, <1>3 DEF Held

-----------------------------------------------------------------------------
(* Dependencies *)

\* What was built with success remains so, and only a completion makes a
\* resource one that was built.
LEMMA ReadyStays ==
  ASSUME used'["reload"] = 0, TypeOK, NoReload, [Next]_vars, NEW m \in Manifests
  PROVE  /\ ready[m] => ready'[m]
         /\ history'[m] => \/ history[m]
                           \/ ReduceCompleted /\ Head(queue).m = m
  <1> USE DEF manifests
  <1>1. ready \in [Manifests -> BOOLEAN] /\ history \in [Manifests -> BOOLEAN]
    BY DEF TypeOK
  <1>2. CASE OnChange
    BY <1>2 DEF OnChange, CleanUpCanceledBuilds, NeedsBuild, NeedsNoBuild,
                DispatchStarted
  <1>3. CASE BuildStep
    BY <1>3 DEF BuildStep, Register, BuildAndDeploy, CleanUp
  <1>4. CASE ReduceStarted
    BY <1>4 DEF ReduceStarted
  <1>5. CASE ReduceCompleted
    <2>0. PICK h : h = Head(queue)
      OBVIOUS
    <2>1. \/ /\ history' = [history EXCEPT ![h.m] = TRUE]
             /\ ready' = [ready EXCEPT ![h.m] = @ \/ (h.ok /\ h.m \in Local)]
          \/ UNCHANGED <<history, ready>>
      BY <1>5, <2>0 DEF ReduceCompleted, HandleBuildCompleted
    <2>2. QED
      BY <1>1, <1>5, <2>0, <2>1
  <1>6. ASSUME NEW n \in Manifests,
               AppendToTriggerQueue(n) \/ \E t \in Targets :
                 HandleFileWatchUpdateStatusEvent(n, t)
        PROVE  UNCHANGED <<history, ready>>
    BY <1>6 DEF AppendToTriggerQueue, HandleFileWatchUpdateStatusEvent
  <1>7. ASSUME NEW n \in Manifests, NEW s, HandleUIResourceUpsert(n, s)
        PROVE  ready' = ready /\ (history'[m] => history[m])
    <2>1. /\ ready' = ready
          /\ history' \in {history, [history EXCEPT ![n] = FALSE]}
      BY <1>7 DEF HandleUIResourceUpsert
    <2>2. QED
      BY <1>1, <2>1
  <1>8. CASE World
    BY <1>7, <1>8, NoLoads
    DEF World, Edit, HandleTrigger, HandleUIButtonUpsert, EditTiltfile
  <1>9. CASE UNCHANGED vars
    BY <1>9 DEF vars
  <1>10. QED
    BY <1>2, <1>3, <1>4, <1>5, <1>6, <1>7, <1>8, <1>9 DEF Next, Reduce

\* A build is in flight from its decision on.
LEMMA InFlightBack ==
  ASSUME used'["reload"] = 0, IInv, NoReload, [Next]_vars, NEW m,
         InFlight(m)'
  PROVE  \/ InFlight(m)
         \/ DispatchStarted /\ controller = "decided" /\ entry.m = m
  <1> USE DEF slots, ctrl, manifests
  <1>1. TypeOK /\ queue \in Seq(Msg) /\ builds \subseteq Build(Phases)
    BY DEF IInv, TypeOK
  <1>2. ASSUME Shrinks, UNCHANGED queue PROVE InFlight(m)
    BY <1>2 DEF Shrinks, InFlight, Covered, UnderWay, CompletesAfter
  <1>3. CASE CleanUpCanceledBuilds \/ \E b \in builds : Register(b) \/ CleanUp(b)
    BY <1>1, <1>2, <1>3, Shrinking
  <1>4. CASE NeedsBuild \/ NeedsNoBuild \/ UNCHANGED moving
    <2>1. UNCHANGED <<queue, builds>>
      BY <1>4 DEF NeedsBuild, NeedsNoBuild, moving
    <2>2. QED
      BY <2>1 DEF InFlight, Covered, UnderWay, CompletesAfter
  <1>5. CASE DispatchStarted
    <2>1. PICK b \in Build(Phases), e \in Msg :
            /\ queue' = Append(queue, e) /\ e.what = "started"
            /\ builds' = builds \cup {b} /\ b.m = entry.m
      BY <1>1, <1>5, DispatchRules
    <2>2. controller = "decided"
      BY <1>5 DEF DispatchStarted
    <2>3. UnderWay(m)' => UnderWay(m) \/ m = entry.m
      BY <2>1 DEF UnderWay
    <2>4. QED
      BY <1>1, <1>5, <2>1, <2>2, <2>3, AppendRules
      DEF InFlight, Covered, CompletesAfter
  <1>6. ASSUME NEW b \in builds, BuildAndDeploy(b) PROVE InFlight(m)
    <2>1. PICK e \in Msg : queue' = Append(queue, e) /\ e.m = b.m
      BY <1>1, <1>6, CompleteRules
    <2>2. b.phase = "running"
      BY <1>6 DEF BuildAndDeploy
    <2>3. UnderWay(b.m) /\ UnderWay(m)' => UnderWay(m)
      <3> DEFINE c == [b EXCEPT !.phase = "completed"]
      <3>1. builds' = (builds \ {b}) \cup {c}
        BY <1>6 DEF BuildAndDeploy, Become
      <3>2. c.phase = "completed"
        BY <1>1, PhaseRules DEF Phases
      <3> HIDE DEF c
      <3>3. QED
        BY <3>1, <3>2 DEF UnderWay
    <2>4. UnderWay(b.m)
      BY <2>2 DEF UnderWay
    <2>5. QED
      BY <1>1, <2>1, <2>3, <2>4, AppendRules DEF InFlight, Covered, CompletesAfter
  <1>7. CASE ReduceStarted \/ ReduceCompleted
    <2>1. queue # <<>> /\ queue' = Tail(queue) /\ builds' = builds
      BY <1>7 DEF ReduceStarted, ReduceCompleted
    <2>2. QED
      BY <1>1, <2>1, HeadReduced
  <1>8. QED
    BY <1>3, <1>4, <1>5, <1>6, <1>7, Moves

\* The action at the head of the queue is one of a build in flight.
LEMMA HeadInFlight ==
  ASSUME IInv, ReduceStarted \/ ReduceCompleted
  PROVE  Head(queue).m \in Manifests /\ InFlight(Head(queue).m)
  <1>1. TypeOK /\ queue \in Seq(Msg) /\ queue # <<>>
    BY DEF IInv, TypeOK, ReduceStarted, ReduceCompleted
  <1>2. Head(queue) = queue[1] /\ 1 \in DOMAIN queue /\ Head(queue) \in Msg
    BY <1>1, TailRules
  <1>3. Head(queue).m \in Manifests
    BY <1>2 DEF Msg
  <1>4. CASE ReduceStarted
    <2>1. 1 \in StartsOnTheWay
      BY <1>2, <1>4 DEF ReduceStarted, StartsOnTheWay
    <2>2. Covered(Head(queue).m, 1)
      BY <1>2, <1>3, <2>1 DEF IInv, SlotsAreHeld
    <2>3. \A j \in DOMAIN queue : j > 1 => j > 0
      BY <1>1, TailRules
    <2>4. QED
      BY <1>3, <2>2, <2>3 DEF InFlight, Covered, CompletesAfter
  <1>5. CASE ReduceCompleted
    <2>1. queue[1].what = "complete" /\ 1 > 0
      BY <1>2, <1>5 DEF ReduceCompleted
    <2>2. CompletesAfter(Head(queue).m, 0)
      BY <1>2, <2>1 DEF CompletesAfter
    <2>3. QED
      BY <1>3, <2>2 DEF InFlight, Covered
  <1>6. QED
    BY <1>4, <1>5

\* Only a decision engages a resource.
LEMMA EngagedBack ==
  ASSUME used'["reload"] = 0, IInv, NoReload, [Next]_vars,
         NEW m \in Manifests, Engaged(m)'
  PROVE  \/ Engaged(m)
         \/ NeedsBuild /\ entry'.m = m
  <1> USE DEF slots, ctrl, manifests
  <1>1. TypeOK
    BY DEF IInv
  <1>2. CASE InFlight(m)'
    BY <1>2, InFlightBack DEF Engaged
  <1>3. CASE history'[m]
    BY <1>1, <1>3, ReadyStays, HeadInFlight DEF Engaged, StartedFirstBuild
  <1>4. CASE IsBuilding(m)'
    <2>1. CASE UNCHANGED current
      BY <1>4, <2>1 DEF IsBuilding, StartedFirstBuild, Engaged
    <2>2. CASE ReduceStarted \/ ReduceCompleted
      <3>0. PICK h : h = Head(queue)
        OBVIOUS
      <3>1. \/ current' = current
            \/ \E v : current' = [current EXCEPT ![h.m] = v]
        BY <2>2, <3>0 DEF ReduceStarted, HandleBuildStarted, ReduceCompleted,
                          HandleBuildCompleted, GiveBack
      <3>2. m = h.m \/ IsBuilding(m)
        BY <1>1, <1>4, <3>1 DEF IsBuilding, TypeOK
      <3>3. QED
        BY <2>2, <3>0, <3>2, HeadInFlight DEF Engaged, StartedFirstBuild
    <2>3. QED
      BY <2>1, <2>2, Moves
      DEF CleanUpCanceledBuilds, NeedsBuild, NeedsNoBuild, DispatchStarted,
          Register, BuildAndDeploy, CleanUp, moving
  <1>5. CASE controller' = "decided" /\ entry'.m = m
    <2>1. NeedsBuild \/ UNCHANGED <<controller, entry>>
      BY <1>5, Moves
      DEF CleanUpCanceledBuilds, NeedsBuild, NeedsNoBuild, DispatchStarted,
          Register, BuildAndDeploy, CleanUp, ReduceStarted, ReduceCompleted, moving
    <2>2. QED
      BY <1>5, <2>1 DEF Engaged
  <1>6. QED
    BY <1>2, <1>3, <1>4, <1>5 DEF Engaged, StartedFirstBuild, IsBuilding

\* What a resource depends on is ready when it is decided on, and stays so.
LEMMA EngagedStep ==
  ASSUME used'["reload"] = 0, QuietInv, RequestsAreCounted, NoneDisabledIsAsked,
         EngagedAreReady, [Next]_vars
  PROVE  EngagedAreReady'
  <1>1. IInv /\ TypeOK /\ NoReload
    BY DEF QuietInv, IInv
  <1>2. SUFFICES ASSUME NEW m \in Manifests, Engaged(m)'
                 PROVE  DependenciesAreReady(m)'
    BY DEF EngagedAreReady
  <1>3. DependenciesAreReady(m)
    <2>1. CASE Engaged(m)
      BY <2>1 DEF EngagedAreReady
    <2>2. CASE NeedsBuild /\ entry'.m = m
      <3>1. m \in NextTargetToBuild
        BY <2>2 DEF NeedsBuild, NoEntry
      <3>2. ~WaitingOnDependencies(m)
        BY <1>1, <3>1, CandidateRules
      <3>3. CASE StartedFirstBuild(m)
        BY <3>3 DEF EngagedAreReady, Engaged
      <3>4. CASE ~StartedFirstBuild(m)
        BY <3>2, <3>4 DEF WaitingOnDependencies, DependenciesAreReady
      <3>5. QED
        BY <3>3, <3>4
    <2>3. QED
      BY <1>1, <1>2, <2>1, <2>2, EngagedBack
  <1>4. ResourceDependencies[m] \subseteq Manifests
    BY ResourceAssumption
  <1>5. QED
    BY <1>1, <1>3, <1>4, ReadyStays DEF DependenciesAreReady

-----------------------------------------------------------------------------
(* Builds that are alone *)

\* When the controller decides, the engine state shows all that is built.
LEMMA AllIsShown ==
  ASSUME QuietInv, NeedsBuild
  PROVE  BusyNames' = Names(builds) \cup {entry'.m} /\ Names(builds) \subseteq Building
  <1>1. TypeOK /\ StartIsCounted /\ loaded = Manifests
    BY DEF QuietInv, IInv, NoReload
  <1>2. /\ UNCHANGED <<builds>> /\ controller' = "decided"
        /\ startedCount <= startCount
    BY DEF NeedsBuild, MayDecide
  <1>3. BusyNames' = Names(builds) \cup {entry'.m}
    BY <1>2 DEF BusyNames, Busy, Names
  <1>4. StartsOnTheWay = {}
    BY <1>1, <1>2 DEF StartIsCounted, TypeOK
  <1>5. \A m \in Manifests : UnderWay(m) => IsBuilding(m)
    BY <1>4 DEF QuietInv, OneInFlight, InFlight, Covered, StartComes, HasSlot
  <1>6. Names(builds) \subseteq Manifests
    BY <1>1 DEF Names, Build, TypeOK
  <1>7. QED
    BY <1>1, <1>3, <1>5, <1>6, BusyRules DEF Building

\* The builds that a decision holds back for are those that are under way.
LEMMA AloneStep ==
  ASSUME used'["reload"] = 0, QuietInv, RequestsAreCounted, NoneDisabledIsAsked,
         BusyAlone, [Next]_vars
  PROVE  BusyAlone'
  <1>1. TypeOK /\ NoReload
    BY DEF QuietInv, IInv
  <1>2. CASE BusyNames' \subseteq BusyNames
    BY <1>2 DEF BusyAlone
  <1>3. CASE NeedsBuild
    <2>1. PICK m \in NextTargetToBuild : entry'.m = m
      BY <1>3 DEF NeedsBuild, NoEntry
    <2>2. BusyNames' = Names(builds) \cup {m} /\ Names(builds) \subseteq Building
      BY <1>3, <2>1, AllIsShown
    <2>3. Building # {} => m \notin Unparallelizable
      BY <1>1, <2>1, CandidateRules
    <2>4. ~HoldAll
      BY <1>1, <2>1, CandidateRules
    <2>5. Building \cap Unparallelizable = {}
      BY <2>4 DEF HoldAll
    <2>6. QED
      BY <2>2, <2>3, <2>4, <2>5 DEF BusyAlone
  <1>4. QED
    BY <1>1, <1>2, <1>3, BusyBack

-----------------------------------------------------------------------------
(* What holds a build back: the theorem *)

\* Updates and triggers are counted, and never forgotten.
LEMMA RequestsStayCounted ==
  ASSUME Counted, [Next]_vars
  PROVE  /\ used'["upsert"] = 0 => used["upsert"] = 0
         /\ used'["trigger"] = 0 => used["trigger"] = 0
  <1> USE DEF Counted
  <1>1. CASE OnChange
    BY <1>1 DEF OnChange, CleanUpCanceledBuilds, NeedsBuild, NeedsNoBuild,
                DispatchStarted
  <1>2. CASE BuildStep
    BY <1>2 DEF BuildStep, Register, BuildAndDeploy, CleanUp
  <1>3. CASE Reduce
    BY <1>3 DEF Reduce, ReduceStarted, ReduceCompleted, AppendToTriggerQueue,
                HandleFileWatchUpdateStatusEvent
  <1>4. CASE FinishLoad
    <2>1. used' = [used EXCEPT !["reload"] = @ + 1]
      BY <1>4 DEF FinishLoad
    <2>2. QED
      BY <2>1
  <1>5. CASE EditTiltfile \/ HandleConfigsReloaded
    BY <1>5 DEF EditTiltfile, HandleConfigsReloaded
  <1>6. ASSUME NEW m \in Manifests,
               \/ \E t \in Specs[m] : Edit(m, t)
               \/ HandleTrigger(m) \/ HandleUIButtonUpsert(m)
               \/ \E s \in {"enabled", "disabled"} : HandleUIResourceUpsert(m, s)
        PROVE  /\ used'["upsert"] = 0 => used["upsert"] = 0
               /\ used'["trigger"] = 0 => used["trigger"] = 0
    BY <1>6 DEF Edit, HandleTrigger, HandleUIButtonUpsert, HandleUIResourceUpsert
  <1>7. CASE UNCHANGED vars
    BY <1>7 DEF vars
  <1>8. QED
    BY <1>1, <1>2, <1>3, <1>4, <1>5, <1>6, <1>7 DEF Next, World

HoldsAtFirst == QuietAtFirst /\ (used["reload"] = 0 /\ NoneDisabledIsAsked => HoldsInv)

LEMMA HoldsInvariance == Spec => []HoldsAtFirst
  <1>1. Init => HoldsAtFirst
    <2> SUFFICES ASSUME Init PROVE HoldsAtFirst
      OBVIOUS
    <2>1. QuietInv /\ QuietAtFirst
      BY InitQuiet DEF QuietAtFirst, QuietInv, NoReload, Counted
    <2>2. RequestsAreCounted
      BY DEF Init, RequestsAreCounted, ToSet
    <2>3. EngagedAreReady
      BY DEF Init, EngagedAreReady, Engaged, StartedFirstBuild, IsBuilding, NoBuild,
             InFlight, Covered, UnderWay, CompletesAfter
    <2>4. BusyAlone
      BY DEF Init, BusyAlone, BusyNames, Busy
    <2>5. QED
      BY <2>1, <2>2, <2>3, <2>4 DEF HoldsAtFirst, HoldsInv
  <1>2. HoldsAtFirst /\ [Next]_vars => HoldsAtFirst'
    <2> SUFFICES ASSUME HoldsAtFirst, [Next]_vars PROVE HoldsAtFirst'
      OBVIOUS
    <2>1. QuietAtFirst' /\ Counted
      BY QuietStep, ReloadsAreCounted DEF HoldsAtFirst, QuietAtFirst
    <2>2. ASSUME used'["reload"] = 0, NoneDisabledIsAsked' PROVE HoldsInv'
      <3>1. used["reload"] = 0 /\ NoneDisabledIsAsked
        BY <2>1, <2>2, ReloadsAreCounted, RequestsStayCounted DEF NoneDisabledIsAsked
      <3>2. HoldsInv /\ QuietInv /\ IInv /\ TypeOK /\ NoReload
        BY <3>1 DEF HoldsAtFirst, HoldsInv, QuietInv, IInv
      <3>3. QED
        BY <2>1, <2>2, <3>1, <3>2, RequestsStep, EngagedStep, AloneStep, QuietStep
        DEF HoldsInv
    <2>3. QED
      BY <2>1, <2>2 DEF HoldsAtFirst
  <1>3. QED
    BY <1>1, <1>2, PTL DEF Spec

\* As long as the Tiltfile has not been loaded again, and either no resource has
\* been disabled or none has been triggered: a resource is built for the first
\* time only after those it depends on were built with success, and an
\* unparallelizable one is built alone, although OnChange looks at what is built
\* before the start of its last decision is recorded.
THEOREM HoldsAreRespected ==
  Spec => [](used["reload"] = 0 /\ (used["upsert"] = 0 \/ used["trigger"] = 0)
               => HoldsAreKept)
  <1>1. HoldsAtFirst =>
          (used["reload"] = 0 /\ (used["upsert"] = 0 \/ used["trigger"] = 0)
             => HoldsAreKept)
    <2> SUFFICES ASSUME HoldsInv PROVE HoldsAreKept
      BY DEF HoldsAtFirst, NoneDisabledIsAsked
    <2>1. DependenciesFirst
      BY DEF HoldsInv, QuietInv, NoReload, EngagedAreReady, Engaged,
             DependenciesAreReady, DependenciesFirst
    <2>2. \A b, c \in Busy : b.m \in Unparallelizable => b = c
      <3>1. OneBuildAtATime /\ BusyAlone
        BY BusyDiffer DEF HoldsInv
      <3>2. QED
        BY <3>1 DEF OneBuildAtATime, BusyAlone, BusyNames
    <2>3. LocalBuildsAlone
      BY <2>2 DEF LocalBuildsAlone
    <2>4. QED
      BY <2>1, <2>3 DEF HoldsAreKept
  <1>2. QED
    BY <1>1, HoldsInvariance, PTL

-----------------------------------------------------------------------------
(* Edits that are built: the invariant *)

\* The starts that the engine state knows of, or will, and the last start whose
\* changes are consumed ...
Earlier(m) ==
  {consumed[m], current[m].start} \cup
    {queue[i].start : i \in {j \in StartsOnTheWay : queue[j].m = m}}

\* ... and the starts of the builds of m that are in flight.
Later(m) ==
  {b.start : b \in {c \in builds : c.phase # "completed" /\ c.m = m}} \cup
    {queue[i].start : i \in {j \in DOMAIN queue : queue[j].m = m}}

\* No build in flight began before a start that was reduced.
BuildsAreLatest ==
  \A m \in Manifests : \A x \in Earlier(m) :
    x <= now /\ \A y \in Later(m) : x <= y

\* Each build is told to build all of its resource.
BuildsAreWhole ==
  /\ controller = "decided" => Specs[entry.m] \subseteq entry.rebuilt
  /\ \A b \in builds : b.phase # "completed" => Specs[b.m] \subseteq b.rebuilt
  /\ \A i \in DOMAIN queue :
       queue[i].what = "complete" => Specs[queue[i].m] \subseteq queue[i].rebuilt

\* Without a reload the definition of no resource changes, and only a build
\* leaves results.
OnlyBuildsLeaveResults ==
  \A m \in Manifests :
    /\ manifestChange[m] = 0
    /\ ~history[m] => \A t \in Specs[m] : lastResult[m][t] = 0

\* Changes are consumed up to the start of the last build, and every edit is
\* among the changes unless it is older than that build, or than the one that
\* is under way.
EditsAreKnown ==
  \A m \in Manifests : \A t \in Specs[m] :
    /\ seen[m][t] <= now
    /\ consumed[m] <= attempted[m][t]
    /\ \/ edited[m][t] <= changed[m][t]
       \/ edited[m][t] <= consumed[m]
       \/ edited[m][t] <= current[m].start

EditsInv ==
  /\ QuietInv /\ RequestsAreCounted
  /\ BuildsAreLatest /\ BuildsAreWhole /\ OnlyBuildsLeaveResults /\ EditsAreKnown

\* No build can pass over a part of its resource: local resources are built as a
\* whole, and the others have one target.
NoPartialBuilds == \A m \in Manifests \ Local : \E t : Specs[m] = {t}

-----------------------------------------------------------------------------
(* Builds of all of a resource *)

\* What is decided on has a reason in each of its targets.
LEMMA WholeDecision ==
  ASSUME TypeOK, NoPartialBuilds, TriggeredIffQueued, OnlyBuildsLeaveResults,
         NEW m \in NextTargetToBuild
  PROVE  Specs[m] \subseteq RebuiltTargets(m)
  <1>1. m \in Manifests
    BY TargetRules
  <1>2. CASE m \in Local \/ FullBuildTriggered(m)
    BY <1>2 DEF RebuiltTargets
  <1>3. CASE m \notin Local /\ ~FullBuildTriggered(m)
    <2>1. PICK t : Specs[m] = {t}
      BY <1>1, <1>3 DEF NoPartialBuilds
    <2>2. RebuiltTargets(m) = PendingFileChanges(m) \cup {u \in Specs[m] : lastResult[m][u] = 0}
      BY <1>3 DEF RebuiltTargets
    <2>3. CASE NeedsInitialBuild(m)
      <3>1. ~history[m]
        BY <2>3 DEF NeedsInitialBuild, StartedFirstBuild
      <3>2. lastResult[m][t] = 0
        BY <1>1, <2>1, <3>1 DEF OnlyBuildsLeaveResults
      <3>3. QED
        BY <2>1, <2>2, <3>2
    <2>4. CASE PendingFileChanges(m) # {}
      BY <2>1, <2>2, <2>4 DEF PendingFileChanges
    <2>5. CASE m \in FirstTriggered
      <3>1. m \in ToSet(triggerQueue)
        BY <2>5 DEF FirstTriggered, ToSet
      <3>2. triggered[m]
        BY <1>1, <3>1 DEF TriggeredIffQueued
      <3>3. QED
        BY <1>3, <2>4, <3>2 DEF FullBuildTriggered
    <2>6. CASE PendingTimes(m) # {}
      <3>1. manifestChange[m] = 0
        BY <1>1 DEF OnlyBuildsLeaveResults
      <3>2. PendingFileChanges(m) # {}
        BY <2>6, <3>1 DEF PendingTimes
      <3>3. QED
        BY <2>4, <3>2
    <2>7. NeedsInitialBuild(m) \/ m \in FirstTriggered \/ PendingTimes(m) # {}
      BY DEF NextTargetToBuild, NextUnbuilt, EarliestPending
    <2>8. QED
      BY <2>3, <2>5, <2>6, <2>7
  <1>4. QED
    BY <1>2, <1>3

\* A build does what it was told when it was decided on.
LEMMA WholeStep ==
  ASSUME used'["reload"] = 0, NoPartialBuilds, QuietInv, OnlyBuildsLeaveResults,
         BuildsAreWhole, [Next]_vars
  PROVE  BuildsAreWhole'
  <1> USE DEF slots, ctrl, manifests
  <1>1. /\ TypeOK /\ NoReload /\ TriggeredIffQueued
        /\ queue \in Seq(Msg) /\ builds \subseteq Build(Phases)
    BY DEF QuietInv, IInv, TypeOK
  <1>2. ASSUME Shrinks, queue' = queue,
               controller' = "decided" => controller = "decided" /\ entry' = entry
        PROVE  BuildsAreWhole'
    BY <1>2 DEF Shrinks, BuildsAreWhole
  <1>3. CASE CleanUpCanceledBuilds \/ \E b \in builds : Register(b) \/ CleanUp(b)
    BY <1>1, <1>2, <1>3, Shrinking
  <1>4. CASE NeedsBuild
    <2>1. PICK m \in NextTargetToBuild :
            entry' = [NoEntry EXCEPT !.m = m, !.rebuilt = RebuiltTargets(m),
                                     !.edits = PendingFileChanges(m),
                                     !.config = (manifestChange[m] # 0)]
      BY <1>4 DEF NeedsBuild
    <2>2. entry'.m = m /\ entry'.rebuilt = RebuiltTargets(m)
      BY <2>1 DEF NoEntry
    <2>3. Specs[m] \subseteq RebuiltTargets(m)
      BY <1>1, WholeDecision
    <2>4. UNCHANGED <<queue, builds>>
      BY <1>4 DEF NeedsBuild
    <2>5. QED
      BY <2>2, <2>3, <2>4 DEF BuildsAreWhole
  <1>5. CASE DispatchStarted
    <2>1. PICK b \in Build(Phases), e \in Msg :
            /\ queue' = Append(queue, e) /\ e.what = "started"
            /\ builds' = builds \cup {b} /\ b.m = entry.m
            /\ b.rebuilt = entry.rebuilt
      BY <1>1, <1>5, DispatchRules
    <2>2. controller = "decided" /\ controller' = "idle"
      BY <1>5 DEF DispatchStarted
    <2>3. \A i \in DOMAIN queue' :
            \/ i \in DOMAIN queue /\ queue'[i] = queue[i]
            \/ queue'[i] = e
      BY <1>1, <2>1, AppendRules
    <2>4. QED
      BY <2>1, <2>2, <2>3 DEF BuildsAreWhole
  <1>6. ASSUME NEW b \in builds, BuildAndDeploy(b) PROVE BuildsAreWhole'
    <2>1. PICK e \in Msg : /\ queue' = Append(queue, e)
                           /\ e.m = b.m /\ e.rebuilt = b.rebuilt
      BY <1>1, <1>6, CompleteRules
    <2>2. b.phase = "running" /\ UNCHANGED <<controller, entry>>
      BY <1>6 DEF BuildAndDeploy
    <2>3. \A c \in builds' : c.phase # "completed" => c \in builds
      <3> DEFINE c == [b EXCEPT !.phase = "completed"]
      <3>1. builds' = (builds \ {b}) \cup {c}
        BY <1>6 DEF BuildAndDeploy, Become
      <3>2. c.phase = "completed"
        BY <1>1, PhaseRules DEF Phases
      <3> HIDE DEF c
      <3>3. QED
        BY <3>1, <3>2
    <2>4. \A i \in DOMAIN queue' :
            \/ i \in DOMAIN queue /\ queue'[i] = queue[i]
            \/ queue'[i] = e
      BY <1>1, <2>1, AppendRules
    <2>5. QED
      BY <2>1, <2>2, <2>3, <2>4 DEF BuildsAreWhole
  <1>7. CASE ReduceStarted \/ ReduceCompleted
    <2>1. /\ queue # <<>> /\ queue' = Tail(queue)
          /\ UNCHANGED <<builds, controller, entry>>
      BY <1>7 DEF ReduceStarted, ReduceCompleted
    <2>2. \A i \in DOMAIN queue' : i + 1 \in DOMAIN queue /\ queue'[i] = queue[i + 1]
      BY <1>1, <2>1, TailRules
    <2>3. QED
      BY <2>1, <2>2 DEF BuildsAreWhole
  <1>8. CASE NeedsNoBuild \/ UNCHANGED moving
    <2>1. /\ UNCHANGED <<queue, builds>>
          /\ controller' = "decided" => controller = "decided" /\ entry' = entry
      BY <1>8 DEF NeedsNoBuild, moving
    <2>2. QED
      BY <2>1 DEF BuildsAreWhole
  <1>9. QED
    BY <1>1, <1>3, <1>4, <1>5, <1>6, <1>7, <1>8, Moves

\* What a disabled resource loses is its history and its results.
LEMMA ResultsStep ==
  ASSUME used'["reload"] = 0, TypeOK, NoReload, OnlyBuildsLeaveResults, [Next]_vars
  PROVE  OnlyBuildsLeaveResults'
  <1> USE DEF manifests, statuses
  <1>1. /\ lastResult \in Times /\ history \in [Manifests -> BOOLEAN]
        /\ manifestChange \in [Manifests -> Nat]
        /\ \A m \in Manifests : Specs[m] \subseteq Targets
    BY ResourceAssumption DEF TypeOK
  <1>2. ASSUME UNCHANGED <<manifestChange, history, lastResult>>
        PROVE  OnlyBuildsLeaveResults'
    BY <1>2 DEF OnlyBuildsLeaveResults
  <1>3. CASE OnChange
    BY <1>2, <1>3 DEF OnChange, CleanUpCanceledBuilds, NeedsBuild, NeedsNoBuild,
                      DispatchStarted
  <1>4. CASE BuildStep
    BY <1>2, <1>4 DEF BuildStep, Register, BuildAndDeploy, CleanUp
  <1>5. CASE ReduceStarted
    BY <1>2, <1>5 DEF ReduceStarted
  <1>6. CASE ReduceCompleted
    <2>1. PICK h : h = Head(queue)
      OBVIOUS
    <2>2. \/ UNCHANGED <<manifestChange, history, lastResult>>
          \/ /\ history' = [history EXCEPT ![h.m] = TRUE]
             /\ \E r : lastResult' = [lastResult EXCEPT ![h.m] = r]
             /\ \E n \in {0, manifestChange[h.m]} :
                  manifestChange' = [manifestChange EXCEPT ![h.m] = n]
      <3>1. HandleBuildCompleted(h)
        BY <1>6, <2>1 DEF ReduceCompleted
      <3>2. \/ UNCHANGED <<manifestChange, history, lastResult>>
            \/ /\ history' = [history EXCEPT ![h.m] = TRUE]
               /\ \E r : lastResult' = [lastResult EXCEPT ![h.m] = r]
               /\ manifestChange' = [manifestChange EXCEPT ![h.m] =
                                       IF @ <= current[h.m].start THEN 0 ELSE @]
        BY <3>1 DEF HandleBuildCompleted
      <3>3. QED
        BY <3>2
    <2>3. ASSUME NEW r, NEW n \in {0, manifestChange[h.m]},
                 history' = [history EXCEPT ![h.m] = TRUE],
                 lastResult' = [lastResult EXCEPT ![h.m] = r],
                 manifestChange' = [manifestChange EXCEPT ![h.m] = n]
          PROVE  OnlyBuildsLeaveResults'
      <3>1. SUFFICES ASSUME NEW m \in Manifests
                     PROVE  /\ manifestChange'[m] = 0
                            /\ ~history'[m] => history[m] = FALSE /\ lastResult'[m] = lastResult[m]
        BY DEF OnlyBuildsLeaveResults
      <3>2. manifestChange'[m] = 0
        BY <1>1, <2>3 DEF OnlyBuildsLeaveResults
      <3>3. ~history'[m] => history[m] = FALSE /\ m # h.m
        BY <1>1, <2>3
      <3>4. m # h.m => lastResult'[m] = lastResult[m]
        BY <1>1, <2>3 DEF Times
      <3>5. QED
        BY <3>2, <3>3, <3>4
    <2>4. QED
      BY <1>2, <2>2, <2>3
  <1>7. ASSUME NEW n \in Manifests,
               AppendToTriggerQueue(n) \/ \E t \in Targets :
                 HandleFileWatchUpdateStatusEvent(n, t)
        PROVE  OnlyBuildsLeaveResults'
    BY <1>2, <1>7 DEF AppendToTriggerQueue, HandleFileWatchUpdateStatusEvent
  <1>8. ASSUME NEW n \in Manifests, NEW s, HandleUIResourceUpsert(n, s)
        PROVE  OnlyBuildsLeaveResults'
    <2>1. CASE s = "disabled"
      <3>1. /\ history' = [history EXCEPT ![n] = FALSE]
            /\ lastResult' = [lastResult EXCEPT ![n] = Never[n]]
            /\ manifestChange' = manifestChange
        BY <1>8, <2>1 DEF HandleUIResourceUpsert
      <3>2. \A t \in Targets : Never[n][t] = 0
        BY DEF Never
      <3>3. QED
        BY <1>1, <3>1, <3>2 DEF OnlyBuildsLeaveResults, Times
    <2>2. CASE s # "disabled"
      BY <1>2, <1>8, <2>2 DEF HandleUIResourceUpsert
    <2>3. QED
      BY <2>1, <2>2
  <1>9. CASE World
    BY <1>2, <1>8, <1>9, NoLoads
    DEF World, Edit, HandleTrigger, HandleUIButtonUpsert, EditTiltfile
  <1>10. CASE UNCHANGED vars
    BY <1>2, <1>10 DEF vars
  <1>11. QED
    BY <1>3, <1>4, <1>5, <1>6, <1>7, <1>8, <1>9, <1>10 DEF Next, Reduce

-----------------------------------------------------------------------------
(* The times of builds *)

\* The clock does not go back, and what is consumed is what came before the
\* build in the engine state, or nothing.
LEMMA ConsumedRules ==
  ASSUME used'["reload"] = 0, TypeOK, NoReload, [Next]_vars
  PROVE  /\ now \in Nat /\ now' \in Nat /\ now <= now'
         /\ \A m \in Manifests : consumed'[m] \in {0, consumed[m], current[m].start}
  <1> USE DEF statuses
  <1>1. now \in Nat /\ now + 1 \in Nat /\ consumed \in [Manifests -> Nat]
    BY DEF TypeOK
  <1>2. CASE now' = now + 1 /\ consumed' = consumed
    BY <1>1, <1>2
  <1>3. CASE UNCHANGED <<now, consumed>>
    BY <1>1, <1>3
  <1>4. CASE OnChange
    BY <1>2, <1>3, <1>4 DEF OnChange, CleanUpCanceledBuilds, NeedsBuild,
                            NeedsNoBuild, DispatchStarted
  <1>5. CASE BuildStep
    BY <1>3, <1>5 DEF BuildStep, Register, BuildAndDeploy, CleanUp
  <1>6. CASE ReduceStarted
    BY <1>3, <1>6 DEF ReduceStarted
  <1>7. CASE ReduceCompleted
    <2>1. PICK h : h = Head(queue)
      OBVIOUS
    <2>2. /\ now' = now
          /\ \/ consumed' = consumed
             \/ \E n \in {consumed[h.m], current[h.m].start} :
                  consumed' = [consumed EXCEPT ![h.m] = n]
      BY <1>7, <2>1 DEF ReduceCompleted, HandleBuildCompleted, ConsumeChangesBefore
    <2>3. QED
      BY <1>1, <2>2
  <1>8. ASSUME NEW m \in Manifests, AppendToTriggerQueue(m)
        PROVE  UNCHANGED <<now, consumed>>
    BY <1>8 DEF AppendToTriggerQueue
  <1>9. ASSUME NEW m \in Manifests, NEW t \in Targets,
               HandleFileWatchUpdateStatusEvent(m, t)
        PROVE  now' \in {now, now + 1} /\ consumed' = consumed
    BY <1>9 DEF HandleFileWatchUpdateStatusEvent, AddPendingFileChange
  <1>10. ASSUME NEW m \in Manifests, NEW s, HandleUIResourceUpsert(m, s)
         PROVE  /\ now' = now
                /\ \/ consumed' = consumed
                   \/ consumed' = [consumed EXCEPT ![m] = 0]
    BY <1>10 DEF HandleUIResourceUpsert
  <1>11. CASE World
    BY <1>1, <1>2, <1>3, <1>10, <1>11, NoLoads
    DEF World, Edit, HandleTrigger, HandleUIButtonUpsert, EditTiltfile
  <1>12. CASE UNCHANGED vars
    BY <1>3, <1>12 DEF vars
  <1>13. QED
    BY <1>2, <1>3, <1>4, <1>5, <1>6, <1>7, <1>8, <1>9, <1>11, <1>12 DEF Next, Reduce

\* These times are times.
LEMMA TimesAreTyped ==
  ASSUME TypeOK, NEW m \in Manifests
  PROVE  Earlier(m) \subseteq Nat /\ Later(m) \subseteq Nat
  <1>1. /\ consumed[m] \in Nat /\ current[m].start \in Nat
        /\ queue \in Seq(Msg) /\ builds \subseteq Build(Phases)
    BY DEF TypeOK
  <1>2. \A i \in DOMAIN queue : queue[i].start \in Nat
    <2>1. \A i \in DOMAIN queue : queue[i] \in Msg
      BY <1>1
    <2>2. QED
      BY <2>1 DEF Msg
  <1>3. \A b \in builds : b.start \in Nat
    BY <1>1 DEF Build
  <1>4. QED
    BY <1>1, <1>2, <1>3 DEF Earlier, Later, StartsOnTheWay

\* A step under which no build begins.
LEMMA NothingBegins ==
  ASSUME TypeOK, TypeOK', BuildsAreLatest, now <= now',
         \A m \in Manifests : /\ Earlier(m)' \subseteq Earlier(m) \cup {0}
                              /\ Later(m)' \subseteq Later(m)
  PROVE  BuildsAreLatest'
  <1>1. now \in Nat /\ now' \in Nat
    BY DEF TypeOK
  <1>2. SUFFICES ASSUME NEW m \in Manifests, NEW x \in Earlier(m)'
                 PROVE  x <= now' /\ \A y \in Later(m)' : x <= y
    BY DEF BuildsAreLatest
  <1>3. Earlier(m) \subseteq Nat /\ Later(m) \subseteq Nat
    BY TimesAreTyped
  <1>4. CASE x \in Earlier(m)
    BY <1>1, <1>3, <1>4 DEF BuildsAreLatest
  <1>5. CASE x = 0
    BY <1>1, <1>3, <1>5
  <1>6. QED
    BY <1>4, <1>5

\* A build begins when no other of its resource is in flight, and after all
\* that was reduced.
LEMMA LatestStep ==
  ASSUME used'["reload"] = 0, QuietInv, TypeOK', BuildsAreLatest, [Next]_vars
  PROVE  BuildsAreLatest'
  <1> USE DEF slots, ctrl, manifests
  <1>1. /\ TypeOK /\ NoReload /\ StartIsCounted /\ OneInFlight
        /\ queue \in Seq(Msg) /\ builds \subseteq Build(Phases)
        /\ current \in [Manifests -> [start : Nat, edits : SUBSET Targets]]
    BY DEF QuietInv, IInv, TypeOK
  <1>2. /\ now \in Nat /\ now' \in Nat /\ now <= now'
        /\ \A m \in Manifests : consumed'[m] \in {0, consumed[m], current[m].start}
    BY <1>1, ConsumedRules
  <1>3. ASSUME Shrinks, UNCHANGED <<queue, current>> PROVE BuildsAreLatest'
    <2>1. \A m \in Manifests : Earlier(m)' \subseteq Earlier(m) \cup {0}
      BY <1>2, <1>3 DEF Earlier, StartsOnTheWay
    <2>2. \A m \in Manifests : Later(m)' \subseteq Later(m)
      BY <1>3 DEF Later, Shrinks
    <2>3. QED
      BY <1>1, <1>2, <2>1, <2>2, NothingBegins
  <1>4. CASE CleanUpCanceledBuilds \/ \E b \in builds : Register(b) \/ CleanUp(b)
    BY <1>1, <1>3, <1>4, Shrinking
  <1>5. CASE NeedsBuild \/ NeedsNoBuild \/ UNCHANGED moving
    <2>1. UNCHANGED <<queue, current, builds>>
      BY <1>5 DEF NeedsBuild, NeedsNoBuild, moving
    <2>2. Shrinks
      BY <2>1 DEF Shrinks
    <2>3. QED
      BY <1>3, <2>1, <2>2
  <1>6. CASE DispatchStarted
    <2>1. PICK b \in Build(Phases), e \in Msg :
            /\ queue' = Append(queue, e) /\ e.what = "started" /\ e.m = b.m
            /\ builds' = builds \cup {b} /\ b.m = entry.m
            /\ b.start = now' /\ e.start = now' /\ now' = now + 1
      BY <1>1, <1>6, DispatchRules
    <2>2. controller = "decided" /\ current' = current
      BY <1>6 DEF DispatchStarted
    <2>3. b.m \in Manifests /\ ~UnderWay(b.m) /\ Completions(b.m) = {}
      <3>1. b.m \in Manifests /\ ~InFlight(b.m)
        BY <1>1, <2>1, <2>2, PhaseRules DEF OneInFlight
      <3>2. QED
        BY <1>1, <3>1, InFlightRules
    <2>4. StartsOnTheWay = {}
      BY <1>1, <2>2 DEF StartIsCounted
    <2>5. /\ \A c \in builds : c.phase # "completed" => c.m # b.m
          /\ \A i \in DOMAIN queue : queue[i].m # b.m
      <3>1. \A i \in DOMAIN queue : queue[i] \in Msg
        BY <1>1
      <3>2. \A i \in DOMAIN queue : queue[i].what \in {"started", "complete"}
        BY <3>1 DEF Msg
      <3>3. QED
        BY <2>3, <2>4, <3>2 DEF UnderWay, Completions, StartsOnTheWay
    <2>6. \A i \in DOMAIN queue' :
            \/ i \in DOMAIN queue /\ queue'[i] = queue[i]
            \/ queue'[i] = e
      BY <1>1, <2>1, AppendRules
    <2>7. \A m \in Manifests : /\ Earlier(m)' \subseteq Earlier(m) \cup {0, now + 1}
                               /\ m # b.m => Earlier(m)' \subseteq Earlier(m) \cup {0}
      BY <1>2, <2>1, <2>2, <2>6 DEF Earlier, StartsOnTheWay
    <2>8. \A m \in Manifests : m # b.m => Later(m)' \subseteq Later(m)
      BY <2>1, <2>6 DEF Later
    <2>9. Later(b.m)' \subseteq {now + 1}
      BY <2>1, <2>5, <2>6 DEF Later
    <2>10. SUFFICES ASSUME NEW m \in Manifests, NEW x \in Earlier(m)'
                    PROVE  x <= now + 1 /\ \A y \in Later(m)' : x <= y
      BY <2>1 DEF BuildsAreLatest
    <2>11. Earlier(m) \subseteq Nat /\ Later(m) \subseteq Nat
      BY <1>1, TimesAreTyped
    <2>12. \/ x \in {0, now + 1}
           \/ x \in Earlier(m) /\ x <= now
      BY <2>7 DEF BuildsAreLatest
    <2>13. x <= now + 1
      BY <1>2, <2>11, <2>12
    <2>14. CASE m = b.m
      BY <2>9, <2>13, <2>14
    <2>15. CASE m # b.m
      <3>1. x = 0 \/ x \in Earlier(m)
        BY <2>7, <2>15
      <3>2. Later(m)' \subseteq Later(m)
        BY <2>8, <2>15
      <3>3. QED
        BY <2>11, <2>13, <3>1, <3>2 DEF BuildsAreLatest
    <2>16. QED
      BY <2>13, <2>14, <2>15
  <1>7. ASSUME NEW b \in builds, BuildAndDeploy(b) PROVE BuildsAreLatest'
    <2>1. PICK e \in Msg : /\ queue' = Append(queue, e) /\ e.what = "complete"
                           /\ e.m = b.m /\ e.start = b.start
      BY <1>1, <1>7, CompleteRules
    <2>2. b.phase = "running" /\ current' = current
      BY <1>7 DEF BuildAndDeploy
    <2>3. \A c \in builds' : c.phase # "completed" => c \in builds
      <3> DEFINE c == [b EXCEPT !.phase = "completed"]
      <3>1. builds' = (builds \ {b}) \cup {c}
        BY <1>7 DEF BuildAndDeploy, Become
      <3>2. c.phase = "completed"
        BY <1>1, PhaseRules DEF Phases
      <3> HIDE DEF c
      <3>3. QED
        BY <3>1, <3>2
    <2>4. \A i \in DOMAIN queue' :
            \/ i \in DOMAIN queue /\ queue'[i] = queue[i]
            \/ queue'[i] = e
      BY <1>1, <2>1, AppendRules
    <2>5. \A m \in Manifests : Earlier(m)' \subseteq Earlier(m) \cup {0}
      BY <1>2, <2>1, <2>2, <2>4 DEF Earlier, StartsOnTheWay
    <2>6. \A m \in Manifests : Later(m)' \subseteq Later(m)
      BY <2>1, <2>2, <2>3, <2>4 DEF Later
    <2>7. QED
      BY <1>1, <1>2, <2>5, <2>6, NothingBegins
  <1>8. CASE ReduceStarted \/ ReduceCompleted
    <2>0. PICK h : h = Head(queue)
      OBVIOUS
    <2>1. /\ queue # <<>> /\ queue' = Tail(queue) /\ builds' = builds
          /\ \/ h.what = "started" /\ HandleBuildStarted(h)
             \/ current' = [current EXCEPT ![h.m] = NoBuild]
      BY <1>8, <2>0 DEF ReduceStarted, ReduceCompleted, HandleBuildCompleted, GiveBack
    <2>2. h = queue[1] /\ 1 \in DOMAIN queue
      BY <1>1, <2>0, <2>1, TailRules
    <2>3. \A i \in DOMAIN queue' : i + 1 \in DOMAIN queue /\ queue'[i] = queue[i + 1]
      BY <1>1, <2>1, TailRules
    <2>4. \A m \in Manifests : current'[m].start \in Earlier(m) \cup {0}
      <3>1. CASE h.what = "started" /\ HandleBuildStarted(h)
        <4>1. \/ current' = current
              \/ current' = [current EXCEPT ![h.m] = [start |-> h.start, edits |-> h.edits]]
          BY <3>1 DEF HandleBuildStarted
        <4>2. \A m \in Manifests : \/ current'[m] = current[m]
                                   \/ m = h.m /\ current'[m].start = h.start
          BY <1>1, <4>1
        <4>3. h.start \in Earlier(h.m)
          BY <2>2, <3>1 DEF Earlier, StartsOnTheWay
        <4>4. \A m \in Manifests : current[m].start \in Earlier(m)
          BY DEF Earlier
        <4>5. QED
          BY <4>2, <4>3, <4>4
      <3>2. CASE current' = [current EXCEPT ![h.m] = NoBuild]
        BY <1>1, <3>2 DEF Earlier, NoBuild
      <3>3. QED
        BY <2>1, <3>1, <3>2
    <2>5. \A m \in Manifests : Earlier(m)' \subseteq Earlier(m) \cup {0}
      <3>1. \A m \in Manifests : \A i \in StartsOnTheWay' : queue'[i].m = m =>
              queue'[i].start \in Earlier(m)
        BY <2>3 DEF Earlier, StartsOnTheWay
      <3>2. \A m \in Manifests : consumed'[m] \in Earlier(m) \cup {0}
        BY <1>2 DEF Earlier
      <3>3. \A m \in Manifests : \A x \in Earlier(m)' :
              \/ x = consumed'[m] \/ x = current'[m].start
              \/ \E i \in StartsOnTheWay' : queue'[i].m = m /\ x = queue'[i].start
        BY DEF Earlier
      <3>4. QED
        BY <2>4, <3>1, <3>2, <3>3
    <2>6. \A m \in Manifests : Later(m)' \subseteq Later(m)
      BY <2>1, <2>3 DEF Later
    <2>7. QED
      BY <1>1, <1>2, <2>5, <2>6, NothingBegins
  <1>9. QED
    BY <1>1, <1>4, <1>5, <1>6, <1>7, <1>8, Moves

-----------------------------------------------------------------------------
(* Edits *)

\* A completion consumes what came before its build, which is attempted.
LEMMA CompletionKeepsEdits ==
  ASSUME QuietInv, BuildsAreLatest, BuildsAreWhole, EditsAreKnown, ReduceCompleted
  PROVE  EditsAreKnown'
  <1> USE DEF statuses, manifests
  <1>1. /\ TypeOK /\ loaded = Manifests /\ queue \in Seq(Msg) /\ queue # <<>>
        /\ consumed \in [Manifests -> Nat] /\ attempted \in Times
        /\ current \in [Manifests -> [start : Nat, edits : SUBSET Targets]]
        /\ edited \in Times /\ changed \in Times
        /\ \A m \in Manifests : Specs[m] \subseteq Targets
    BY ResourceAssumption DEF QuietInv, IInv, NoReload, TypeOK, ReduceCompleted
  <1>2. PICK h : h = Head(queue)
    OBVIOUS
  <1>3. h \in Msg /\ h = queue[1] /\ 1 \in DOMAIN queue
    BY <1>1, <1>2, TailRules
  <1>4. h.m \in Manifests /\ h.start \in Nat
    BY <1>3 DEF Msg
  <1>5. Specs[h.m] \subseteq h.rebuilt
    BY <1>2, <1>3 DEF ReduceCompleted, BuildsAreWhole
  <1>6. consumed[h.m] <= h.start /\ current[h.m].start <= h.start
    <2>1. h.start \in Later(h.m)
      BY <1>3 DEF Later
    <2>2. consumed[h.m] \in Earlier(h.m) /\ current[h.m].start \in Earlier(h.m)
      BY DEF Earlier
    <2>3. QED
      BY <1>4, <2>1, <2>2 DEF BuildsAreLatest
  <1>7. /\ consumed' = [consumed EXCEPT ![h.m] =
                          ConsumeChangesBefore(h.m, current[h.m].start)]
        /\ current' = [current EXCEPT ![h.m] = NoBuild]
        /\ attempted' = [attempted EXCEPT ![h.m] = [t \in Targets |->
                           IF t \in h.rebuilt THEN h.start ELSE @[t]]]
        /\ UNCHANGED <<seen, now, edited, changed>>
    BY <1>1, <1>2, <1>4
    DEF ReduceCompleted, HandleBuildCompleted, GiveBack, Attempt
  <1>8. SUFFICES ASSUME NEW m \in Manifests, NEW t \in Specs[m]
                 PROVE  /\ seen'[m][t] <= now'
                        /\ consumed'[m] <= attempted'[m][t]
                        /\ \/ edited'[m][t] <= changed'[m][t]
                           \/ edited'[m][t] <= consumed'[m]
                           \/ edited'[m][t] <= current'[m].start
    BY DEF EditsAreKnown
  <1>9. CASE m # h.m
    <2>1. /\ consumed'[m] = consumed[m] /\ attempted'[m] = attempted[m]
          /\ current'[m] = current[m]
      BY <1>1, <1>7, <1>9 DEF Times
    <2>2. QED
      BY <1>7, <2>1 DEF EditsAreKnown
  <1>10. CASE m = h.m
    <2>1. t \in Targets /\ t \in h.rebuilt
      BY <1>1, <1>5, <1>10
    <2>2. attempted'[m][t] = h.start
      BY <1>1, <1>7, <1>10, <2>1 DEF Times
    <2>3. consumed'[m] = ConsumeChangesBefore(m, current[m].start)
      BY <1>1, <1>7, <1>10
    <2>4. PICK c, k \in Nat, s \in Nat, e \in Nat :
            /\ k = consumed[m] /\ s = current[m].start /\ e = edited[m][t]
            /\ c = changed[m][t]
      BY <1>1, <2>1 DEF Times
    <2>5. consumed'[m] = (IF k < s THEN s ELSE k)
      BY <2>3, <2>4 DEF ConsumeChangesBefore
    <2>6. e <= c \/ e <= k \/ e <= s
      BY <2>4 DEF EditsAreKnown
    <2>7. k <= h.start /\ s <= h.start
      BY <1>6, <1>10, <2>4
    <2>8. consumed'[m] <= attempted'[m][t]
      BY <1>4, <2>2, <2>4, <2>5, <2>7
    <2>9. e <= c \/ e <= consumed'[m]
      BY <2>4, <2>5, <2>6
    <2>10. QED
      BY <1>7, <2>4, <2>8, <2>9 DEF EditsAreKnown
  <1>11. QED
    BY <1>9, <1>10

\* An edit is noted with its own time, or with a later one when the resource is
\* being built; only one that is older than the current build is not noted.
LEMMA EventKeepsEdits ==
  ASSUME QuietInv, EditsAreKnown, NEW n \in Manifests, NEW u \in Targets,
         HandleFileWatchUpdateStatusEvent(n, u)
  PROVE  EditsAreKnown'
  <1> USE DEF manifests
  <1>1. /\ now \in Nat /\ now + 1 \in Nat /\ loaded = Manifests
        /\ seen \in Times /\ edited \in Times /\ changed \in Times
        /\ attempted \in Times /\ consumed \in [Manifests -> Nat]
        /\ \A m \in Manifests : Specs[m] \subseteq Targets /\ current[m].start \in Nat
    BY ResourceAssumption DEF QuietInv, IInv, NoReload, TypeOK
  <1>2. /\ seen' = [seen EXCEPT ![n][u] = 0]
        /\ edited' = [edited EXCEPT ![n][u] = seen[n][u]]
        /\ AddPendingFileChange(n, u)
        /\ UNCHANGED <<consumed, attempted, current>>
    BY <1>1 DEF HandleFileWatchUpdateStatusEvent
  <1>3. now <= now'
    BY <1>1, <1>2 DEF AddPendingFileChange
  <1>4. SUFFICES ASSUME NEW m \in Manifests, NEW t \in Specs[m]
                 PROVE  /\ seen'[m][t] <= now'
                        /\ consumed[m] <= attempted[m][t]
                        /\ \/ edited'[m][t] <= changed'[m][t]
                           \/ edited'[m][t] <= consumed[m]
                           \/ edited'[m][t] <= current[m].start
    BY <1>2 DEF EditsAreKnown
  <1>5. t \in Targets /\ seen[m][t] \in Nat /\ now' \in Nat
    BY <1>1, <1>2 DEF Times, AddPendingFileChange
  <1>6. seen[m][t] <= now /\ consumed[m] <= attempted[m][t]
    BY DEF EditsAreKnown
  <1>7. seen'[m][t] \in {0, seen[m][t]}
    BY <1>1, <1>2, <1>5 DEF Times
  <1>8. seen'[m][t] <= now'
    BY <1>1, <1>3, <1>5, <1>6, <1>7
  <1>9. CASE m = n /\ t = u
    <2>1. edited'[m][t] = seen[m][t]
      BY <1>1, <1>2, <1>5, <1>9 DEF Times
    <2>2. \/ seen[m][t] < current[m].start
          \/ changed' = [changed EXCEPT ![m][t] = now + 1]
          \/ changed' = [changed EXCEPT ![m][t] = seen[m][t]]
      BY <1>2, <1>9 DEF AddPendingFileChange
    <2>3. \/ seen[m][t] < current[m].start
          \/ changed'[m][t] \in {now + 1, seen[m][t]}
      BY <1>1, <1>5, <2>2 DEF Times
    <2>4. seen[m][t] <= current[m].start \/ seen[m][t] <= changed'[m][t]
      BY <1>1, <1>5, <1>6, <2>3
    <2>5. QED
      BY <1>6, <1>8, <2>1, <2>4
  <1>10. CASE ~(m = n /\ t = u)
    <2>1. edited'[m][t] = edited[m][t]
      BY <1>1, <1>2, <1>5, <1>10 DEF Times
    <2>2. \/ changed' = changed
          \/ \E x : changed' = [changed EXCEPT ![n][u] = x]
      BY <1>2 DEF AddPendingFileChange
    <2>3. changed'[m][t] = changed[m][t]
      BY <1>1, <1>5, <1>10, <2>2 DEF Times
    <2>4. QED
      BY <1>6, <1>8, <2>1, <2>3 DEF EditsAreKnown
  <1>11. QED
    BY <1>9, <1>10

\* A start is later than that of the last build.
LEMMA StartKeepsEdits ==
  ASSUME QuietInv, BuildsAreLatest, EditsAreKnown, ReduceStarted
  PROVE  EditsAreKnown'
  <1> USE DEF statuses, world
  <1>1. /\ TypeOK /\ queue \in Seq(Msg) /\ queue # <<>> /\ loaded = Manifests
        /\ edited \in Times /\ \A m \in Manifests : Specs[m] \subseteq Targets
        /\ current \in [Manifests -> [start : Nat, edits : SUBSET Targets]]
    BY ResourceAssumption DEF QuietInv, IInv, NoReload, TypeOK, ReduceStarted
  <1>2. PICK h : h = Head(queue)
    OBVIOUS
  <1>3. h \in Msg /\ h = queue[1] /\ 1 \in DOMAIN queue
    BY <1>1, <1>2, TailRules
  <1>4. h.m \in Manifests /\ h.start \in Nat
    BY <1>3 DEF Msg
  <1>5. current[h.m].start <= h.start
    <2>1. h.start \in Later(h.m)
      BY <1>3 DEF Later
    <2>2. current[h.m].start \in Earlier(h.m)
      BY DEF Earlier
    <2>3. QED
      BY <1>4, <2>1, <2>2 DEF BuildsAreLatest
  <1>6. /\ current' = [current EXCEPT ![h.m] = [start |-> h.start, edits |-> h.edits]]
        /\ UNCHANGED <<now, seen, consumed, attempted, edited, changed>>
    BY <1>1, <1>2, <1>4 DEF ReduceStarted, HandleBuildStarted
  <1>7. \A m \in Manifests : /\ current[m].start \in Nat /\ current'[m].start \in Nat
                             /\ current[m].start <= current'[m].start
    <2>1. \A m \in Manifests : m # h.m => current'[m] = current[m]
      BY <1>1, <1>6
    <2>2. current'[h.m].start = h.start
      BY <1>1, <1>4, <1>6
    <2>3. QED
      BY <1>1, <1>4, <1>5, <2>1, <2>2
  <1>8. \A m \in Manifests : \A t \in Specs[m] : edited[m][t] \in Nat
    BY <1>1 DEF Times
  <1>9. QED
    BY <1>6, <1>7, <1>8 DEF EditsAreKnown

\* No step loses an edit, as long as no resource is disabled.
LEMMA EditsStep ==
  ASSUME used'["reload"] = 0, used'["upsert"] = 0, used["upsert"] = 0,
         QuietInv, RequestsAreCounted, BuildsAreLatest, BuildsAreWhole,
         EditsAreKnown, [Next]_vars
  PROVE  EditsAreKnown'
  <1> USE DEF manifests, statuses, world
  <1>1. /\ TypeOK /\ NoReload /\ now \in Nat /\ now + 1 \in Nat /\ seen \in Times
        /\ \A m \in Manifests : Specs[m] \subseteq Targets
    <2>1. TypeOK /\ NoReload
      BY DEF QuietInv, IInv
    <2>2. now \in Nat /\ seen \in Times
      BY <2>1 DEF TypeOK
    <2>3. now + 1 \in Nat
      BY <2>2
    <2>4. QED
      BY <2>1, <2>2, <2>3, ResourceAssumption
  <1>2. \A m \in Manifests : \A t \in Specs[m] : seen[m][t] \in Nat
    BY <1>1 DEF Times
  <1>3. ASSUME UNCHANGED <<seen, consumed, attempted, edited, changed, current>>,
               now' \in {now, now + 1}
        PROVE  EditsAreKnown'
    <2>1. now <= now' /\ now' \in Nat
      BY <1>1, <1>3
    <2>2. \A m \in Manifests : \A t \in Specs[m] : seen[m][t] <= now'
      BY <1>1, <1>2, <2>1 DEF EditsAreKnown
    <2>3. QED
      BY <1>3, <2>2 DEF EditsAreKnown
  <1>4. CASE OnChange
    BY <1>3, <1>4 DEF OnChange, CleanUpCanceledBuilds, NeedsBuild, NeedsNoBuild,
                      DispatchStarted
  <1>5. CASE BuildStep
    BY <1>3, <1>5 DEF BuildStep, Register, BuildAndDeploy, CleanUp
  <1>6. CASE ReduceStarted \/ ReduceCompleted
    BY <1>6, StartKeepsEdits, CompletionKeepsEdits
  <1>7. ASSUME NEW m \in Manifests, AppendToTriggerQueue(m) PROVE EditsAreKnown'
    BY <1>3, <1>7 DEF AppendToTriggerQueue
  <1>8. ASSUME NEW m \in Manifests, NEW t \in Targets,
               HandleFileWatchUpdateStatusEvent(m, t)
        PROVE  EditsAreKnown'
    BY <1>8, EventKeepsEdits
  <1>9. ASSUME NEW n \in Manifests, NEW u \in Specs[n], Edit(n, u)
        PROVE  EditsAreKnown'
    <2>1. /\ seen' = [seen EXCEPT ![n][u] = now + 1] /\ now' = now + 1
          /\ UNCHANGED <<consumed, attempted, edited, changed, current>>
      BY <1>9 DEF Edit
    <2>2. \A m \in Manifests : \A t \in Specs[m] : seen'[m][t] \in {seen[m][t], now + 1}
      BY <1>1, <2>1 DEF Times
    <2>3. \A m \in Manifests : \A t \in Specs[m] : seen'[m][t] <= now + 1
      BY <1>1, <1>2, <2>2 DEF EditsAreKnown
    <2>4. QED
      BY <2>1, <2>3 DEF EditsAreKnown
  <1>10. ASSUME NEW m \in Manifests, HandleTrigger(m) \/ HandleUIButtonUpsert(m)
         PROVE  EditsAreKnown'
    BY <1>3, <1>10 DEF HandleTrigger, HandleUIButtonUpsert
  <1>11. ASSUME NEW m \in Manifests, NEW s, HandleUIResourceUpsert(m, s)
         PROVE  FALSE
    <2>1. used' = [used EXCEPT !["upsert"] = @ + 1]
      BY <1>11 DEF HandleUIResourceUpsert, RequestsAreCounted
    <2>2. used'["upsert"] = used["upsert"] + 1
      BY <1>1, <2>1 DEF NoReload
    <2>3. QED
      BY <2>2
  <1>12. CASE EditTiltfile
    BY <1>3, <1>12 DEF EditTiltfile
  <1>13. CASE UNCHANGED vars
    BY <1>3, <1>13 DEF vars
  <1>14. QED
    BY <1>1, <1>4, <1>5, <1>6, <1>7, <1>8, <1>9, <1>10, <1>11, <1>12, <1>13, NoLoads
    DEF Next, Reduce, World

EditsAtFirst ==
  QuietAtFirst /\ (used["reload"] = 0 /\ used["upsert"] = 0 => EditsInv)

LEMMA EditsInvariance == NoPartialBuilds => (Spec => []EditsAtFirst)
  <1> SUFFICES ASSUME NoPartialBuilds PROVE Spec => []EditsAtFirst
    OBVIOUS
  <1>1. Init => EditsAtFirst
    <2> SUFFICES ASSUME Init PROVE EditsAtFirst
      OBVIOUS
    <2>1. QuietInv /\ QuietAtFirst
      BY InitQuiet DEF QuietAtFirst, QuietInv, NoReload, Counted
    <2>2. RequestsAreCounted
      BY DEF Init, RequestsAreCounted, ToSet
    <2>3. \A m \in Manifests : Specs[m] \subseteq Targets
      BY ResourceAssumption
    <2>4. BuildsAreLatest
      <3>1. \A m \in Manifests : Earlier(m) = {0} /\ Later(m) = {}
        BY DEF Init, Earlier, Later, StartsOnTheWay, NoBuild
      <3>2. QED
        BY <3>1 DEF Init, BuildsAreLatest
    <2>5. BuildsAreWhole
      BY DEF Init, BuildsAreWhole
    <2>6. OnlyBuildsLeaveResults /\ EditsAreKnown
      BY <2>3 DEF Init, OnlyBuildsLeaveResults, EditsAreKnown, Never
    <2>7. QED
      BY <2>1, <2>2, <2>4, <2>5, <2>6 DEF EditsAtFirst, EditsInv
  <1>2. EditsAtFirst /\ [Next]_vars => EditsAtFirst'
    <2> SUFFICES ASSUME EditsAtFirst, [Next]_vars PROVE EditsAtFirst'
      OBVIOUS
    <2>1. QuietAtFirst' /\ Counted
      BY QuietStep, ReloadsAreCounted DEF EditsAtFirst, QuietAtFirst
    <2>2. ASSUME used'["reload"] = 0, used'["upsert"] = 0 PROVE EditsInv'
      <3>1. used["reload"] = 0 /\ used["upsert"] = 0
        BY <2>1, <2>2, ReloadsAreCounted, RequestsStayCounted
      <3>2. EditsInv /\ QuietInv /\ IInv /\ TypeOK /\ NoReload
        BY <3>1 DEF EditsAtFirst, EditsInv, QuietInv, IInv
      <3>3. QuietInv' /\ TypeOK'
        BY <2>2, <3>2, QuietStep DEF QuietInv, IInv
      <3>4. RequestsAreCounted' /\ OnlyBuildsLeaveResults'
        BY <2>2, <3>2, RequestsStep, ResultsStep DEF EditsInv
      <3>5. BuildsAreLatest' /\ BuildsAreWhole'
        BY <2>2, <3>2, <3>3, LatestStep, WholeStep DEF EditsInv
      <3>6. EditsAreKnown'
        BY <2>2, <3>1, <3>2, EditsStep DEF EditsInv
      <3>7. QED
        BY <3>3, <3>4, <3>5, <3>6 DEF EditsInv
    <2>3. QED
      BY <2>1, <2>2 DEF EditsAtFirst
  <1>3. QED
    BY <1>1, <1>2, PTL DEF Spec

\* As long as the Tiltfile has not been loaded again and no resource has been
\* disabled, no interleaving of file events with the decision, the start and the
\* completion of a build makes an edit look built that was not on disk when the
\* build began: if each resource is local or has one target.
THEOREM EditsAreBuilt ==
  NoPartialBuilds =>
    (Spec => [](used["reload"] = 0 /\ used["upsert"] = 0 => NoEditLost))
  <1> SUFFICES ASSUME NoPartialBuilds
               PROVE  Spec => [](used["reload"] = 0 /\ used["upsert"] = 0 => NoEditLost)
    OBVIOUS
  <1>1. EditsAtFirst => (used["reload"] = 0 /\ used["upsert"] = 0 => NoEditLost)
    <2> SUFFICES ASSUME EditsInv,
                        NEW m \in loaded, ~IsBuilding(m), PendingTimes(m) = {},
                        NEW t \in Specs[m]
                 PROVE  edited[m][t] <= attempted[m][t]
      BY DEF EditsAtFirst, NoEditLost
    <2>1. m \in Manifests /\ TypeOK
      BY DEF EditsInv, QuietInv, IInv, TypeOK
    <2>2. /\ t \in Targets /\ edited[m][t] \in Nat /\ changed[m][t] \in Nat
          /\ consumed[m] \in Nat /\ attempted[m][t] \in Nat
      BY <2>1, ResourceAssumption DEF TypeOK, Times
    <2>3. current[m].start = 0
      BY DEF IsBuilding
    <2>4. ~(changed[m][t] > consumed[m])
      BY DEF PendingTimes, PendingFileChanges
    <2>5. /\ consumed[m] <= attempted[m][t]
          /\ \/ edited[m][t] <= changed[m][t]
             \/ edited[m][t] <= consumed[m]
             \/ edited[m][t] <= 0
      BY <2>1, <2>3 DEF EditsInv, EditsAreKnown
    <2>6. QED
      BY <2>2, <2>4, <2>5
  <1>2. QED
    BY <1>1, EditsInvariance, PTL

=============================================================================
