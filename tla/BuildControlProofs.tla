------------------------- MODULE BuildControlProofs -------------------------
(***************************************************************************)
(* Proofs, for any resources, slots and bounds, that the types of the      *)
(* build scheduler hold, that it never waits for a start that will not be  *)
(* recorded, and that every slot is given back.                            *)
(***************************************************************************)
EXTENDS BuildControlProperties, SequenceTheorems, TLAPS

StartsOnTheWay == {i \in DOMAIN queue : queue[i].what = "started"}

\* At most one start is decided on or on its way, and it is the one that the
\* controller has counted and the store has not.
StartIsCounted ==
  /\ \A i, j \in StartsOnTheWay : i = j
  /\ controller = "decided" => StartsOnTheWay = {}
  /\ controller = "decided" \/ StartsOnTheWay # {}
       => startedCount = startCount + 1
  /\ controller # "decided" /\ StartsOnTheWay = {}
       => startedCount = startCount

UnderWay(m) == \E b \in builds : b.phase # "completed" /\ b.m = m

CompletesAfter(m, i) ==
  \E j \in DOMAIN queue : j > i /\ queue[j].what = "complete" /\ queue[j].m = m

\* Either the build of m is under way or its completion comes after i.
Covered(m, i) == UnderWay(m) \/ CompletesAfter(m, i)

\* Whoever holds a slot, or will hold one when its start is reduced, is being
\* built, or its completion is reduced after that.
SlotsAreHeld ==
  /\ \A m \in buildSet : Covered(m, 0)
  /\ \A i \in StartsOnTheWay, m \in Manifests :
       queue[i].m = m => Covered(m, i)

IInv == TypeOK /\ StartIsCounted /\ SlotsAreHeld

-----------------------------------------------------------------------------
(* Sequences *)

\* What Append does to the queue of messages.
LEMMA AppendRules ==
  ASSUME NEW S, NEW q \in Seq(S), NEW e \in S
  PROVE  /\ Append(q, e) \in Seq(S)
         /\ DOMAIN Append(q, e) = 1..(Len(q) + 1) /\ DOMAIN q = 1..Len(q)
         /\ Len(q) \in Nat
         /\ \A i \in DOMAIN q : Append(q, e)[i] = q[i]
         /\ Append(q, e)[Len(q) + 1] = e
  OBVIOUS

\* What taking the head off does to it.
LEMMA TailRules ==
  ASSUME NEW S, NEW q \in Seq(S), q # <<>>
  PROVE  /\ Head(q) \in S /\ Head(q) = q[1] /\ Tail(q) \in Seq(S)
         /\ Len(q) \in Nat \ {0} /\ DOMAIN q = 1..Len(q)
         /\ DOMAIN Tail(q) = 1..(Len(q) - 1)
         /\ \A i \in DOMAIN Tail(q) : Tail(q)[i] = q[i + 1]
  OBVIOUS

\* RemoveFirst takes out of a queue without duplicates, and leaves one.
LEMMA RemoveFirstRules ==
  ASSUME NEW S, NEW q \in Seq(S), IsInjective(q), NEW m
  PROVE  /\ RemoveFirst(q, m) \in Seq(S) /\ IsInjective(RemoveFirst(q, m))
         /\ ToSet(RemoveFirst(q, m)) = ToSet(q) \ {m}
  <1>1. CASE ~ \E i \in 1..Len(q) : q[i] = m
    BY <1>1 DEF RemoveFirst, ToSet
  <1>2. CASE \E i \in 1..Len(q) : q[i] = m
    <2>1. PICK i \in 1..Len(q) : q[i] = m
      BY <1>2
    <2>2. {k \in 1..Len(q) : q[k] = m} = {i}
      BY <2>1 DEF IsInjective
    <2>3. SelectInSeq(q, LAMBDA v : v = m) = i
      BY <2>2 DEF SelectInSeq, Min
    <2>4. RemoveFirst(q, m) = SubSeq(q, 1, i-1) \o SubSeq(q, i+1, Len(q))
      BY <1>2, <2>3 DEF RemoveFirst, RemoveAt
    <2>5. /\ SubSeq(q, 1, i-1) \in Seq(S) /\ SubSeq(q, i+1, Len(q)) \in Seq(S)
          /\ Len(SubSeq(q, 1, i-1)) = i - 1
          /\ Len(SubSeq(q, i+1, Len(q))) = Len(q) - i
          /\ \A k \in 1..(i-1) : SubSeq(q, 1, i-1)[k] = q[k]
          /\ \A k \in 1..(Len(q)-i) : SubSeq(q, i+1, Len(q))[k] = q[k+i]
      BY <2>1
    <2>6. /\ RemoveFirst(q, m) \in Seq(S)
          /\ Len(RemoveFirst(q, m)) = Len(q) - 1
          /\ \A k \in 1..(Len(q)-1) :
               RemoveFirst(q, m)[k] = IF k < i THEN q[k] ELSE q[k+1]
      <3> DEFINE a == SubSeq(q, 1, i-1)
                 b == SubSeq(q, i+1, Len(q))
      <3>1. /\ a \o b \in Seq(S) /\ Len(a \o b) = Len(a) + Len(b)
            /\ \A k \in 1..(Len(a) + Len(b)) :
                 (a \o b)[k] = IF k <= Len(a) THEN a[k] ELSE b[k - Len(a)]
        BY <2>5, ConcatProperties
      <3>2. /\ Len(a) = i - 1 /\ Len(b) = Len(q) - i
            /\ \A k \in 1..(i-1) : a[k] = q[k]
            /\ \A k \in 1..(Len(q)-i) : b[k] = q[k+i]
        BY <2>5
      <3>3. Len(q) \in Nat /\ i \in Nat /\ 1 <= i /\ i <= Len(q)
        BY <2>1
      <3> HIDE DEF a, b
      <3>4. ASSUME NEW k \in 1..(Len(q)-1)
            PROVE  (a \o b)[k] = IF k < i THEN q[k] ELSE q[k+1]
        <4>1. (a \o b)[k] = IF k <= i - 1 THEN a[k] ELSE b[k - (i - 1)]
          BY <3>1, <3>2, <3>3
        <4>2. CASE k < i
          BY <3>2, <3>3, <4>1, <4>2
        <4>3. CASE ~(k < i)
          <5>1. k - (i - 1) \in 1..(Len(q) - i) /\ (k - (i - 1)) + i = k + 1
            BY <3>3, <4>3
          <5>2. QED
            BY <3>2, <3>3, <4>1, <4>3, <5>1
        <4>4. QED
          BY <4>2, <4>3
      <3>5. Len(a \o b) = Len(q) - 1
        BY <3>1, <3>2, <3>3
      <3>6. QED
        BY <2>4, <3>1, <3>4, <3>5 DEF a, b
    <2>7. IsInjective(RemoveFirst(q, m))
      BY SMTT(30), <2>1, <2>6 DEF IsInjective
    <2>8. ToSet(RemoveFirst(q, m)) = ToSet(q) \ {m}
      <3> DEFINE r == RemoveFirst(q, m)
      <3>1. \A k \in DOMAIN r : r[k] \in ToSet(q) \ {m}
        BY SMTT(30), <2>1, <2>2, <2>6 DEF ToSet
      <3>2. ASSUME NEW k \in DOMAIN q, q[k] # m PROVE q[k] \in ToSet(r)
        <4>1. CASE k < i
          <5>1. k \in DOMAIN r /\ r[k] = q[k]
            BY <2>1, <2>6, <4>1
          <5>2. QED
            BY <5>1 DEF ToSet
        <4>2. CASE k > i
          <5>1. k - 1 \in DOMAIN r /\ r[k - 1] = q[k]
            BY <2>1, <2>6, <4>2
          <5>2. QED
            BY <5>1 DEF ToSet
        <4>3. QED
          BY <2>1, <3>2, <4>1, <4>2
      <3>3. QED
        BY <3>1, <3>2 DEF ToSet
    <2>9. QED
      BY <2>6, <2>7, <2>8
  <1>3. QED
    BY <1>1, <1>2

-----------------------------------------------------------------------------
(* Functions *)

\* Updates keep the range of a function.
LEMMA ExceptRules ==
  ASSUME NEW D, NEW T, NEW f \in [D -> T], NEW d, NEW v \in T
  PROVE  [f EXCEPT ![d] = v] \in [D -> T]
  OBVIOUS

\* Nor does noting a time for a target of a resource change the type.
LEMMA TimesRules ==
  ASSUME NEW f \in Times, NEW m \in Manifests, NEW t \in Targets, NEW n \in Nat
  PROVE  [f EXCEPT ![m][t] = n] \in Times
  BY DEF Times

-----------------------------------------------------------------------------
\* At the start all is typed, no start is on its way and no slot is taken.
LEMMA InitIInv == Init => IInv
  BY ResourceAssumption
  DEF Init, IInv, TypeOK, StartIsCounted, SlotsAreHeld, StartsOnTheWay,
      Covered, UnderWay, CompletesAfter, NoBuild, NoEntry, NoLoad, Never, Times, Load,
      Build, Msg, IsInjective

-----------------------------------------------------------------------------
(* The types *)

\* The resource that NextTargetToBuild returns is one of those loaded.
LEMMA TargetRules ==
  ASSUME TypeOK
  PROVE  /\ NextTargetToBuild \subseteq Manifests
         /\ \A m \in Manifests : /\ RebuiltTargets(m) \subseteq Targets
                                 /\ PendingFileChanges(m) \subseteq Targets
  <1>1. Eligible \subseteq Manifests
    BY DEF TypeOK, Eligible
  <1>2. NextTargetToBuild \subseteq Eligible
    BY DEF NextTargetToBuild, NextUnbuilt, FirstTriggered, EarliestPending
  <1>3. \A m \in Manifests : Specs[m] \subseteq Targets
    BY ResourceAssumption
  <1>4. QED
    BY <1>1, <1>2, <1>3 DEF RebuiltTargets, PendingFileChanges

\* Cancel neither removes nor adds a build, and leaves its resource and phase.
LEMMA CancelRules ==
  ASSUME NEW S, NEW bs \in SUBSET Build(Phases), TypeOK
  PROVE  /\ Cancel(S, bs) \subseteq Build(Phases)
         /\ \A b \in bs : \E c \in Cancel(S, bs) : c.m = b.m /\ c.phase = b.phase
         /\ Forget(S) \in [Manifests -> Nat]
  <1>1. \A b \in Build(Phases) :
          /\ [b EXCEPT !.canceled = TRUE] \in Build(Phases)
          /\ [b EXCEPT !.canceled = TRUE].m = b.m
          /\ [b EXCEPT !.canceled = TRUE].phase = b.phase
    BY DEF Build
  <1> DEFINE Hit(b) == b.m \in S /\ b.start = stopFns[b.m] /\ b.start # 0
             After(b) == IF Hit(b) THEN [b EXCEPT !.canceled = TRUE] ELSE b
  <1>2. Cancel(S, bs) = {After(b) : b \in bs}
    BY DEF Cancel
  <1>3. \A b \in bs : /\ After(b) \in Build(Phases) /\ After(b).m = b.m
                     /\ After(b).phase = b.phase
    <2> SUFFICES ASSUME NEW b \in bs
                 PROVE  /\ After(b) \in Build(Phases) /\ After(b).m = b.m
                        /\ After(b).phase = b.phase
      OBVIOUS
    <2>1. CASE Hit(b)
      BY <1>1, <2>1
    <2>2. CASE ~Hit(b)
      BY <2>2
    <2>3. QED
      BY <2>1, <2>2
  <1>4. Forget(S) \in [Manifests -> Nat]
    BY DEF Forget, TypeOK
  <1> HIDE DEF After
  <1>5. QED
    BY <1>2, <1>3, <1>4

\* The messages of a build.
LEMMA MessageRules ==
  ASSUME NEW b \in Build(Phases), NEW ok \in BOOLEAN,
         NEW done \in SUBSET Targets, NEW what \in {"started", "complete"}
  PROVE  /\ Message(what, b, ok, done) \in Msg
         /\ Message(what, b, ok, done).what = what
         /\ Message(what, b, ok, done).m = b.m
  BY DEF Message, Msg, Build

\* The next phase of a build is a build of the same resource.
LEMMA PhaseRules ==
  ASSUME NEW b, b \in Build(Phases) \/ b \in Build({"decided"})
  PROVE  /\ b.m \in Manifests /\ b.rebuilt \subseteq Targets /\ b.start \in Nat
         /\ \A phase \in Phases :
              /\ [b EXCEPT !.phase = phase] \in Build(Phases)
              /\ [b EXCEPT !.phase = phase].m = b.m
              /\ [b EXCEPT !.phase = phase].phase = phase
         /\ \A start \in Nat :
              /\ [b EXCEPT !.start = start, !.phase = "spawned"] \in Build(Phases)
              /\ [b EXCEPT !.start = start, !.phase = "spawned"].m = b.m
              /\ [b EXCEPT !.start = start, !.phase = "spawned"].phase = "spawned"
  BY DEF Build, Phases

\* Neither that nor a message changes what is built, and since when.
LEMMA SameBuild ==
  ASSUME NEW b, b \in Build(Phases) \/ b \in Build({"decided"})
  PROVE  /\ \A phase : /\ [b EXCEPT !.phase = phase].start = b.start
                       /\ [b EXCEPT !.phase = phase].rebuilt = b.rebuilt
         /\ \A start :
              /\ [b EXCEPT !.start = start, !.phase = "spawned"].start = start
              /\ [b EXCEPT !.start = start, !.phase = "spawned"].rebuilt = b.rebuilt
         /\ \A what, done : \A ok \in BOOLEAN :
              /\ Message(what, b, ok, done).start = b.start
              /\ Message(what, b, ok, done).rebuilt = b.rebuilt
  BY DEF Build, Message

\* A step of OnChange keeps the types.
LEMMA OnChangeTypes == TypeOK /\ OnChange => TypeOK'
  <1> SUFFICES ASSUME TypeOK, OnChange PROVE TypeOK'
    OBVIOUS
  <1> USE DEF manifests, statuses, triggers, slots, world
  <1>1. CASE CleanUpCanceledBuilds
    <2>1. /\ builds' \subseteq Build(Phases) /\ stopFns' \in [Manifests -> Nat]
          /\ controller' = "cleaned" /\ entry' = NoEntry
      BY <1>1, CancelRules DEF CleanUpCanceledBuilds, TypeOK
    <2>2. QED
      BY <1>1, <2>1 DEF CleanUpCanceledBuilds, TypeOK
  <1>2. CASE NeedsBuild
    <2>1. PICK m \in NextTargetToBuild :
            entry' = [NoEntry EXCEPT !.m = m, !.rebuilt = RebuiltTargets(m),
                                     !.edits = PendingFileChanges(m),
                                     !.config = (manifestChange[m] # 0)]
      BY <1>2 DEF NeedsBuild
    <2>2. /\ m \in Manifests /\ RebuiltTargets(m) \subseteq Targets
          /\ PendingFileChanges(m) \subseteq Targets
      BY TargetRules
    <2>3. entry' \in Build({"decided"})
      BY <2>1, <2>2 DEF NoEntry, Build
    <2>4. QED
      BY <1>2, <2>3 DEF NeedsBuild, TypeOK
  <1>3. CASE NeedsNoBuild
    BY <1>3 DEF NeedsNoBuild, TypeOK
  <1>4. CASE DispatchStarted
    <2> DEFINE b == [entry EXCEPT !.start = now + 1, !.phase = "spawned"]
    <2>1. b \in Build(Phases)
      <3>1. entry \in Build({"decided"}) /\ now + 1 \in Nat
        BY <1>4 DEF DispatchStarted, TypeOK
      <3>2. QED
        BY <3>1, PhaseRules
    <2>2. Message("started", b, TRUE, {}) \in Msg
      BY <2>1, MessageRules
    <2>3. /\ queue' = Append(queue, Message("started", b, TRUE, {}))
          /\ builds' = builds \cup {b}
      BY <1>4 DEF DispatchStarted
    <2> HIDE DEF b
    <2>4. queue' \in Seq(Msg) /\ builds' \subseteq Build(Phases)
      <3>1. queue \in Seq(Msg) /\ builds \subseteq Build(Phases)
        BY DEF TypeOK
      <3>2. queue' \in Seq(Msg)
        BY <2>2, <2>3, <3>1, AppendRules
      <3>3. QED
        BY <2>1, <2>3, <3>1, <3>2
    <2>5. now' \in Nat /\ controller' = "idle" /\ entry' = NoEntry
      BY <1>4 DEF DispatchStarted, TypeOK
    <2>6. QED
      BY <1>4, <2>4, <2>5 DEF DispatchStarted, TypeOK
  <1>5. QED
    BY <1>1, <1>2, <1>3, <1>4 DEF OnChange

\* A step of the goroutine of a build keeps the types.
LEMMA BuildStepTypes == TypeOK /\ BuildStep => TypeOK'
  <1> SUFFICES ASSUME TypeOK, NEW b \in builds,
                      Register(b) \/ BuildAndDeploy(b) \/ CleanUp(b)
               PROVE  TypeOK'
    BY DEF BuildStep
  <1> USE DEF manifests, statuses, triggers, slots, ctrl, world
  <1>1. b \in Build(Phases) /\ builds \subseteq Build(Phases)
    BY DEF TypeOK
  <1>2. CASE Register(b)
    <2>1. builds' \subseteq Build(Phases)
      BY <1>1, <1>2, PhaseRules DEF Register, Become, Phases
    <2>2. stopFns' \in [Manifests -> Nat]
      BY <1>1, <1>2, PhaseRules, ExceptRules DEF Register, TypeOK
    <2>3. QED
      BY <1>2, <2>1, <2>2 DEF Register, TypeOK
  <1>3. CASE BuildAndDeploy(b)
    <2>1. PICK ok \in BOOLEAN, done \in SUBSET b.rebuilt :
            /\ Become(b, [b EXCEPT !.phase = "completed"])
            /\ queue' = Append(queue, Message("complete", b, ok, done))
      BY <1>3 DEF BuildAndDeploy
    <2>2. Message("complete", b, ok, done) \in Msg
      BY <1>1, PhaseRules, MessageRules
    <2>3. queue' \in Seq(Msg)
      BY <2>1, <2>2 DEF TypeOK
    <2>4. builds' \subseteq Build(Phases)
      BY <1>1, <2>1, PhaseRules DEF Become, Phases
    <2>5. QED
      BY <1>3, <2>3, <2>4 DEF BuildAndDeploy, TypeOK
  <1>4. CASE CleanUp(b)
    <2>1. builds' \subseteq Build(Phases) /\ stopFns' \in [Manifests -> Nat]
      BY <1>1, <1>4, CancelRules DEF CleanUp
    <2>2. QED
      BY <1>4, <2>1 DEF CleanUp, TypeOK
  <1>5. QED
    BY <1>2, <1>3, <1>4

\* So does taking a resource out of the trigger queue.
LEMMA TriggerTypes ==
  ASSUME TypeOK, NEW m,
         RemoveFromTriggerQueue(m) \/ UNCHANGED <<triggerQueue, triggered>>
  PROVE  /\ triggered' \in [Manifests -> BOOLEAN]
         /\ triggerQueue' \in Seq(Manifests) /\ IsInjective(triggerQueue')
  <1>1. /\ triggered \in [Manifests -> BOOLEAN]
        /\ triggerQueue \in Seq(Manifests) /\ IsInjective(triggerQueue)
    BY DEF TypeOK
  <1>2. CASE RemoveFromTriggerQueue(m)
    BY <1>1, <1>2, RemoveFirstRules, ExceptRules DEF RemoveFromTriggerQueue
  <1>3. QED
    BY <1>1, <1>2

\* Reducing a start keeps the types.
LEMMA StartedTypes == TypeOK /\ ReduceStarted => TypeOK'
  <1> SUFFICES ASSUME TypeOK, ReduceStarted PROVE TypeOK'
    OBVIOUS
  <1> USE DEF statuses, triggers, ctrl, world
  <1> DEFINE b == Head(queue)
  <1>1. b \in Msg /\ queue' \in Seq(Msg)
    BY TailRules DEF ReduceStarted, TypeOK
  <1>2. /\ b.m \in Manifests /\ b.start \in Nat /\ b.edits \subseteq Targets
    BY <1>1 DEF Msg
  <1>3. HandleBuildStarted(b)
    BY DEF ReduceStarted
  <1> HIDE DEF b
  <1>4. current' \in [Manifests -> [start : Nat, edits : SUBSET Targets]]
    <2>1. current \in [Manifests -> [start : Nat, edits : SUBSET Targets]]
      BY DEF TypeOK
    <2>2. [start |-> b.start, edits |-> b.edits]
            \in [start : Nat, edits : SUBSET Targets]
      BY <1>2
    <2>3. QED
      BY <1>3, <2>1, <2>2, ExceptRules DEF HandleBuildStarted
  <1>5. buildSet' \subseteq Manifests /\ startCount' \in Nat
    BY <1>2, <1>3 DEF HandleBuildStarted, TypeOK
  <1>6. RemoveFromTriggerQueue(b.m) \/ UNCHANGED <<triggerQueue, triggered>>
    BY <1>3 DEF HandleBuildStarted
  <1>7. QED
    BY <1>1, <1>4, <1>5, <1>6, TriggerTypes DEF ReduceStarted, TypeOK

\* Reducing a completion keeps the types.
LEMMA CompletedTypes == TypeOK /\ ReduceCompleted => TypeOK'
  <1> SUFFICES ASSUME TypeOK, ReduceCompleted PROVE TypeOK'
    OBVIOUS
  <1> USE DEF triggers, ctrl
  <1> DEFINE b == Head(queue)
  <1>1. b \in Msg /\ queue' \in Seq(Msg)
    BY TailRules DEF ReduceCompleted, TypeOK
  <1>2. /\ b.m \in Manifests /\ b.start \in Nat /\ b.ok \in BOOLEAN
    BY <1>1 DEF Msg
  <1>3. HandleBuildCompleted(b) /\ Attempt(b)
    BY DEF ReduceCompleted
  <1> HIDE DEF b
  <1>4. current[b.m].start \in Nat
    BY <1>2 DEF TypeOK
  <1>5. /\ current' \in [Manifests -> [start : Nat, edits : SUBSET Targets]]
        /\ buildSet' \subseteq Manifests
    BY <1>2, <1>3 DEF HandleBuildCompleted, GiveBack, NoBuild, TypeOK
  <1>6. history' \in [Manifests -> BOOLEAN] /\ ready' \in [Manifests -> BOOLEAN]
    BY <1>2, <1>3 DEF HandleBuildCompleted, TypeOK
  <1>7. consumed' \in [Manifests -> Nat] /\ manifestChange' \in [Manifests -> Nat]
    <2>1. /\ consumed \in [Manifests -> Nat]
          /\ manifestChange \in [Manifests -> Nat]
      BY DEF TypeOK
    <2>2. ConsumeChangesBefore(b.m, current[b.m].start) \in Nat
      BY <1>2, <1>4, <2>1 DEF ConsumeChangesBefore
    <2>3. consumed' \in [Manifests -> Nat]
      BY <1>3, <2>1, <2>2, ExceptRules DEF HandleBuildCompleted
    <2>4. manifestChange' \in [Manifests -> Nat]
      BY <1>2, <1>3, <2>1, ExceptRules DEF HandleBuildCompleted
    <2>5. QED
      BY <2>3, <2>4
  <1>8. lastResult' \in Times /\ attempted' \in Times
    <2>1. lastResult \in Times /\ attempted \in Times
      BY DEF TypeOK
    <2>2. \A f \in Times : \A S :
            [f EXCEPT ![b.m] = [t \in Targets |->
               IF t \in S THEN b.start ELSE @[t]]] \in Times
      BY <1>2 DEF Times
    <2>3. attempted' \in Times
      BY <1>3, <2>1, <2>2 DEF Attempt
    <2>4. CASE b.m \in loaded
      <3>1. lastResult' = [lastResult EXCEPT ![b.m] = [t \in Targets |->
                            IF t \in b.done THEN b.start ELSE @[t]]]
        BY <1>3, <2>4 DEF HandleBuildCompleted
      <3>2. QED
        BY <2>1, <2>2, <2>3, <3>1
    <2>5. CASE b.m \notin loaded
      BY <1>3, <2>1, <2>3, <2>5 DEF HandleBuildCompleted
    <2>6. QED
      BY <2>4, <2>5
  <1>9. QED
    BY <1>1, <1>5, <1>6, <1>7, <1>8 DEF ReduceCompleted, TypeOK

\* File events and requests of users keep the types.
LEMMA RequestTypes ==
  ASSUME TypeOK, NEW m \in Manifests,
         \/ \E t \in Targets : Edit(m, t) \/ HandleFileWatchUpdateStatusEvent(m, t)
         \/ HandleTrigger(m) \/ AppendToTriggerQueue(m) \/ HandleUIButtonUpsert(m)
         \/ \E s \in {"enabled", "disabled"} : HandleUIResourceUpsert(m, s)
  PROVE  TypeOK'
  <1> USE DEF manifests, statuses, triggers, slots, ctrl, world
  <1>1. ASSUME NEW t \in Targets, Edit(m, t) PROVE TypeOK'
    <2>1. now' \in Nat /\ seen' \in Times
      BY <1>1 DEF Edit, TypeOK, Times
    <2>2. QED
      BY <1>1, <2>1 DEF Edit, TypeOK
  <1>2. ASSUME NEW t \in Targets, HandleFileWatchUpdateStatusEvent(m, t)
        PROVE  TypeOK'
    <2>0. /\ now \in Nat /\ changed \in Times /\ seen \in Times
          /\ edited \in Times
      BY DEF TypeOK
    <2>a. seen[m][t] \in Nat /\ now + 1 \in Nat
      BY <2>0 DEF Times
    <2>1. now' \in Nat /\ changed' \in Times
      BY <1>2, <2>0, <2>a, TimesRules
      DEF HandleFileWatchUpdateStatusEvent, AddPendingFileChange
    <2>2. seen' \in Times /\ edited' \in Times
      <3>1. /\ seen' = [seen EXCEPT ![m][t] = 0]
            /\ edited' \in {edited, [edited EXCEPT ![m][t] = seen[m][t]]}
        BY <1>2 DEF HandleFileWatchUpdateStatusEvent
      <3>2. [seen EXCEPT ![m][t] = 0] \in Times
        BY <2>0, TimesRules
      <3>3. [edited EXCEPT ![m][t] = seen[m][t]] \in Times
        BY <2>0, <2>a, TimesRules
      <3>4. QED
        BY <2>0, <3>1, <3>2, <3>3
    <2>3. QED
      BY <1>2, <2>1, <2>2 DEF HandleFileWatchUpdateStatusEvent, TypeOK
  <1>3. CASE HandleTrigger(m)
    BY <1>3 DEF HandleTrigger, TypeOK
  <1>4. CASE AppendToTriggerQueue(m)
    <2>1. /\ triggerQueue' \in Seq(Manifests) /\ IsInjective(triggerQueue')
      <3>1. triggerQueue \in Seq(Manifests) /\ IsInjective(triggerQueue)
        BY DEF TypeOK
      <3>2. m \notin ToSet(triggerQueue)
              => \A i \in DOMAIN triggerQueue : triggerQueue[i] # m
        BY DEF ToSet
      <3>3. m \notin ToSet(triggerQueue)
              => IsInjective(Append(triggerQueue, m))
        BY <3>1, <3>2, AppendRules DEF IsInjective
      <3>4. \/ triggerQueue' = triggerQueue
            \/ /\ m \notin ToSet(triggerQueue)
               /\ triggerQueue' = Append(triggerQueue, m)
        BY <1>4 DEF AppendToTriggerQueue
      <3>5. Append(triggerQueue, m) \in Seq(Manifests)
        BY <3>1
      <3>6. QED
        BY <3>1, <3>3, <3>4, <3>5
    <2>2. triggered' \in [Manifests -> BOOLEAN] /\ asked' \subseteq Manifests
      BY <1>4 DEF AppendToTriggerQueue, TypeOK
    <2>3. QED
      BY <1>4, <2>1, <2>2 DEF AppendToTriggerQueue, TypeOK
  <1>5. CASE HandleUIButtonUpsert(m)
    BY <1>5 DEF HandleUIButtonUpsert, TypeOK
  <1>6. ASSUME NEW s \in {"enabled", "disabled"}, HandleUIResourceUpsert(m, s)
        PROVE  TypeOK'
    <2>1. /\ disableState' \in [Manifests -> {"pending", "enabled", "disabled"}]
          /\ history' \in [Manifests -> BOOLEAN]
      <3>1. /\ disableState \in [Manifests -> {"pending", "enabled", "disabled"}]
            /\ history \in [Manifests -> BOOLEAN]
        BY DEF TypeOK
      <3>2. QED
        BY ZenonT(60), <1>6, <3>1, ExceptRules DEF HandleUIResourceUpsert
    <2>2. /\ changed' \in Times /\ consumed' \in [Manifests -> Nat]
          /\ lastResult' \in Times
      <3>1. /\ changed \in Times /\ consumed \in [Manifests -> Nat]
            /\ lastResult \in Times /\ Never[m] \in [Targets -> Nat]
        BY DEF TypeOK, Never
      <3>2. CASE s = "disabled"
        <4>1. /\ changed' = [changed EXCEPT ![m] = Never[m]]
              /\ consumed' = [consumed EXCEPT ![m] = 0]
              /\ lastResult' = [lastResult EXCEPT ![m] = Never[m]]
          BY <1>6, <3>2 DEF HandleUIResourceUpsert
        <4>2. QED
          BY <3>1, <4>1, ExceptRules DEF Times
      <3>3. CASE s # "disabled"
        BY <1>6, <3>1, <3>3 DEF HandleUIResourceUpsert
      <3>4. QED
        BY <3>2, <3>3
    <2>3. RemoveFromTriggerQueue(m) \/ UNCHANGED <<triggerQueue, triggered>>
      BY <1>6 DEF HandleUIResourceUpsert
    <2>4. QED
      BY <1>6, <2>1, <2>2, <2>3, TriggerTypes DEF HandleUIResourceUpsert, TypeOK
  <1>7. QED
    BY <1>1, <1>2, <1>3, <1>4, <1>5, <1>6

\* What the Tiltfile does keeps the types.
LEMMA TiltfileTypes ==
  TypeOK /\ (EditTiltfile \/ FinishLoad \/ HandleConfigsReloaded) => TypeOK'
  <1> SUFFICES ASSUME TypeOK, EditTiltfile \/ FinishLoad \/ HandleConfigsReloaded
               PROVE  TypeOK'
    OBVIOUS
  <1> USE DEF manifests, statuses, triggers, slots, ctrl, world
  <1>1. CASE EditTiltfile
    BY <1>1 DEF EditTiltfile, TypeOK
  <1>2. CASE FinishLoad
    <2>0. tiltfile \in [pending : BOOLEAN, load : Load] /\ now \in Nat
      BY DEF TypeOK
    <2>1. PICK keep \in SUBSET Manifests, invalid \in SUBSET Manifests :
            tiltfile' = [tiltfile EXCEPT !.load =
                          [at |-> now + 1, keep |-> keep, invalid |-> invalid]]
      BY <1>2 DEF FinishLoad
    <2>2. tiltfile' \in [pending : BOOLEAN, load : Load]
      BY <2>0, <2>1 DEF Load
    <2>3. now' \in Nat
      BY <1>2, <2>0 DEF FinishLoad
    <2>4. QED
      BY <1>2, <2>2, <2>3 DEF FinishLoad, TypeOK
  <1>3. CASE HandleConfigsReloaded
    <2> DEFINE zero == [t \in Targets |-> 0]
    <2>1. tiltfile.load \in Load
      BY DEF TypeOK
    <2>2. \A S, T, f, v : f \in [Manifests -> T] /\ v \in T
                            => Reset(f, S, v) \in [Manifests -> T]
      BY DEF Reset
    <2>3. zero \in [Targets -> Nat] /\ NoBuild \in [start : Nat, edits : SUBSET Targets]
      BY DEF NoBuild
    <2>4. /\ changed' \in Times /\ lastResult' \in Times
          /\ edited' \in Times /\ attempted' \in Times
      BY <1>3, <2>2, <2>3 DEF HandleConfigsReloaded, TypeOK, Times
    <2>5. /\ consumed' \in [Manifests -> Nat]
          /\ manifestChange' \in [Manifests -> Nat]
      BY <1>3, <2>1, <2>2 DEF HandleConfigsReloaded, TypeOK, Load
    <2>6. /\ disableState' \in [Manifests -> {"pending", "enabled", "disabled"}]
          /\ current' \in [Manifests -> [start : Nat, edits : SUBSET Targets]]
      BY <1>3, <2>2, <2>3 DEF HandleConfigsReloaded, TypeOK
    <2>7. /\ history' \in [Manifests -> BOOLEAN] /\ ready' \in [Manifests -> BOOLEAN]
          /\ triggered' \in [Manifests -> BOOLEAN]
      BY <1>3, <2>2 DEF HandleConfigsReloaded, TypeOK
    <2>8. tiltfile' \in [pending : BOOLEAN, load : Load] /\ loaded' \subseteq Manifests
      BY <1>3, <2>1 DEF HandleConfigsReloaded, NoLoad, Load
    <2>9. QED
      BY <1>3, <2>4, <2>5, <2>6, <2>7, <2>8 DEF HandleConfigsReloaded, TypeOK
  <1>4. QED
    BY <1>1, <1>2, <1>3

\* Every step keeps the types.
LEMMA TypeStep == TypeOK /\ [Next]_vars => TypeOK'
  <1> SUFFICES ASSUME TypeOK, [Next]_vars PROVE TypeOK'
    OBVIOUS
  <1>1. \A m \in Manifests : Specs[m] \subseteq Targets
    BY ResourceAssumption
  <1>2. CASE UNCHANGED vars
    BY <1>2 DEF vars, manifests, statuses, triggers, slots, ctrl, world, TypeOK
  <1>3. QED
    BY <1>1, <1>2, OnChangeTypes, BuildStepTypes, StartedTypes, CompletedTypes,
       RequestTypes, TiltfileTypes
    DEF Next, Reduce, World

-----------------------------------------------------------------------------
(* The starts that are on their way *)

counting == <<queue, startCount, startedCount>>

\* A build that begins sends its start.
LEMMA DispatchRules ==
  ASSUME TypeOK, DispatchStarted
  PROVE  \E b \in Build(Phases), e \in Msg :
           /\ queue' = Append(queue, e) /\ e.what = "started" /\ e.m = b.m
           /\ builds' = builds \cup {b} /\ b.phase = "spawned"
           /\ b.m = entry.m /\ b.rebuilt = entry.rebuilt
           /\ b.start = now' /\ e.start = now' /\ now' = now + 1 /\ e.start # 0
  <1> DEFINE b == [entry EXCEPT !.start = now + 1, !.phase = "spawned"]
             e == Message("started", b, TRUE, {})
  <1>1. queue' = Append(queue, e) /\ builds' = builds \cup {b} /\ now' = now + 1
    BY DEF DispatchStarted
  <1>2. entry \in Build({"decided"}) /\ now \in Nat /\ now + 1 \in Nat
    BY DEF DispatchStarted, TypeOK
  <1>3. /\ b \in Build(Phases) /\ b.phase = "spawned" /\ b.m = entry.m
    BY <1>2, PhaseRules
  <1>4. e \in Msg /\ e.what = "started" /\ e.m = b.m
    BY <1>3, MessageRules
  <1>5. b.start = now + 1 /\ b.rebuilt = entry.rebuilt
    BY <1>2, SameBuild
  <1>6. e.start = b.start
    BY <1>3 DEF Message
  <1> HIDE DEF b, e
  <1>7. now + 1 # 0
    BY <1>2
  <1>8. QED
    BY <1>1, <1>3, <1>4, <1>5, <1>6, <1>7

\* A build that ends sends its completion.
LEMMA CompleteRules ==
  ASSUME TypeOK, NEW b \in builds, BuildAndDeploy(b)
  PROVE  \E e \in Msg :
           /\ queue' = Append(queue, e) /\ e.what = "complete" /\ e.m = b.m
           /\ e.start = b.start /\ e.rebuilt = b.rebuilt
  <1>1. b \in Build(Phases)
    BY DEF TypeOK
  <1>2. PICK ok \in BOOLEAN, done \in SUBSET b.rebuilt :
          queue' = Append(queue, Message("complete", b, ok, done))
    BY DEF BuildAndDeploy
  <1>3. done \in SUBSET Targets
    BY <1>1, PhaseRules
  <1>4. QED
    BY <1>1, <1>2, <1>3, MessageRules, SameBuild

\* Only four kinds of steps touch the queue or the two counts.
LEMMA Counting ==
  ASSUME [Next]_vars
  PROVE  \/ NeedsBuild \/ DispatchStarted \/ \E b \in builds : BuildAndDeploy(b)
         \/ ReduceStarted \/ ReduceCompleted
         \/ UNCHANGED counting /\ "decided" \notin {controller, controller'}
         \/ UNCHANGED counting /\ UNCHANGED controller
  <1> USE DEF counting, slots, ctrl
  <1>1. CASE OnChange
    BY <1>1 DEF OnChange, CleanUpCanceledBuilds, NeedsNoBuild
  <1>2. CASE BuildStep
    BY <1>2 DEF BuildStep, Register, CleanUp
  <1>3. CASE Reduce
    BY <1>3 DEF Reduce, AppendToTriggerQueue, HandleFileWatchUpdateStatusEvent
  <1>4. CASE World
    BY <1>4 DEF World, Edit, HandleTrigger, HandleUIButtonUpsert,
                HandleUIResourceUpsert, EditTiltfile, FinishLoad,
                HandleConfigsReloaded
  <1>5. CASE UNCHANGED vars
    BY <1>5 DEF vars
  <1>6. QED
    BY <1>1, <1>2, <1>3, <1>4, <1>5 DEF Next

\* Every step keeps count of the starts.
LEMMA StartStep == TypeOK /\ StartIsCounted /\ [Next]_vars => StartIsCounted'
  <1> SUFFICES ASSUME TypeOK, StartIsCounted, [Next]_vars PROVE StartIsCounted'
    OBVIOUS
  <1>1. queue \in Seq(Msg) /\ startCount \in Nat /\ startedCount \in Nat
    BY DEF TypeOK
  <1>2. CASE NeedsBuild
    <2>1. /\ queue' = queue /\ startCount' = startCount
          /\ startedCount' = startedCount + 1 /\ controller' = "decided"
          /\ controller = "cleaned" /\ startedCount <= startCount
      BY <1>2 DEF NeedsBuild, MayDecide, slots
    <2>2. StartsOnTheWay = {} /\ startedCount = startCount
      BY <1>1, <2>1 DEF StartIsCounted
    <2>3. StartsOnTheWay' = {}
      BY <2>1, <2>2 DEF StartsOnTheWay
    <2>4. QED
      BY <1>1, <2>1, <2>2, <2>3 DEF StartIsCounted
  <1>3. CASE DispatchStarted
    <2>1. /\ startCount' = startCount /\ startedCount' = startedCount
          /\ controller = "decided" /\ controller' = "idle"
      BY <1>3 DEF DispatchStarted, slots
    <2>2. PICK e \in Msg : queue' = Append(queue, e) /\ e.what = "started"
      BY <1>3, DispatchRules
    <2>3. StartsOnTheWay = {} /\ startedCount = startCount + 1
      BY <2>1 DEF StartIsCounted
    <2>4. StartsOnTheWay' = {Len(queue) + 1}
      BY <1>1, <2>2, <2>3, AppendRules DEF StartsOnTheWay
    <2>5. QED
      BY <1>1, <2>1, <2>3, <2>4 DEF StartIsCounted
  <1>4. ASSUME NEW b \in builds, BuildAndDeploy(b) PROVE StartIsCounted'
    <2>1. PICK e \in Msg : queue' = Append(queue, e) /\ e.what = "complete"
      BY <1>4, CompleteRules
    <2>2. /\ startCount' = startCount /\ startedCount' = startedCount
          /\ controller' = controller
      BY <1>4 DEF BuildAndDeploy, slots, ctrl
    <2>3. StartsOnTheWay' = StartsOnTheWay
      BY <1>1, <2>1, AppendRules DEF StartsOnTheWay
    <2>4. QED
      BY <2>2, <2>3 DEF StartIsCounted
  <1>5. CASE ReduceStarted
    <2>1. /\ queue # <<>> /\ queue[1].what = "started" /\ queue' = Tail(queue)
          /\ startCount' = startCount + 1 /\ startedCount' = startedCount
          /\ controller' = controller
      BY <1>1, <1>5, TailRules DEF ReduceStarted, HandleBuildStarted, ctrl
    <2>2. StartsOnTheWay = {1}
      BY <1>1, <2>1, TailRules DEF StartIsCounted, StartsOnTheWay
    <2>3. controller # "decided" /\ startedCount = startCount + 1
      BY <2>2 DEF StartIsCounted
    <2>4. StartsOnTheWay' = {}
      <3>1. ASSUME NEW i \in StartsOnTheWay' PROVE FALSE
        <4>1. i + 1 \in StartsOnTheWay /\ i \in Nat \ {0}
          BY <1>1, <2>1, TailRules DEF StartsOnTheWay
        <4>2. QED
          BY <2>2, <4>1
      <3>2. QED
        BY <3>1
    <2>5. QED
      BY <1>1, <2>1, <2>3, <2>4 DEF StartIsCounted
  <1>6. CASE ReduceCompleted
    <2>1. /\ queue # <<>> /\ queue[1].what = "complete" /\ queue' = Tail(queue)
          /\ startCount' = startCount /\ startedCount' = startedCount
          /\ controller' = controller
      BY <1>1, <1>6, TailRules DEF ReduceCompleted, ctrl
    <2>2. \A i \in StartsOnTheWay' : i + 1 \in StartsOnTheWay /\ i \in Nat
      BY <1>1, <2>1, TailRules DEF StartsOnTheWay
    <2>3. \A i \in StartsOnTheWay : i - 1 \in StartsOnTheWay'
      BY <1>1, <2>1, TailRules DEF StartsOnTheWay
    <2>4. \A i, j \in StartsOnTheWay' : i = j
      BY <2>2 DEF StartIsCounted
    <2>5. StartsOnTheWay' = {} <=> StartsOnTheWay = {}
      BY <2>2, <2>3
    <2>6. QED
      BY <2>1, <2>4, <2>5 DEF StartIsCounted
  <1>7. CASE UNCHANGED counting /\ "decided" \notin {controller, controller'}
    BY <1>7 DEF counting, StartIsCounted, StartsOnTheWay
  <1>8. CASE UNCHANGED counting /\ UNCHANGED controller
    BY <1>8 DEF counting, StartIsCounted, StartsOnTheWay
  <1>9. QED
    BY <1>2, <1>3, <1>4, <1>5, <1>6, <1>7, <1>8, Counting

-----------------------------------------------------------------------------
(* The slots *)

\* Only seven kinds of steps touch the queue, the slots or the builds.
LEMMA Holding ==
  ASSUME [Next]_vars
  PROVE  \/ CleanUpCanceledBuilds \/ DispatchStarted
         \/ \E b \in builds : Register(b) \/ BuildAndDeploy(b) \/ CleanUp(b)
         \/ ReduceStarted \/ ReduceCompleted
         \/ UNCHANGED <<queue, buildSet, builds>>
  <1> USE DEF slots
  <1>1. CASE OnChange
    BY <1>1 DEF OnChange, NeedsBuild, NeedsNoBuild
  <1>2. CASE BuildStep
    BY <1>2 DEF BuildStep
  <1>3. CASE Reduce
    BY <1>3 DEF Reduce, AppendToTriggerQueue, HandleFileWatchUpdateStatusEvent
  <1>4. CASE World
    BY <1>4 DEF World, Edit, HandleTrigger, HandleUIButtonUpsert,
                HandleUIResourceUpsert, EditTiltfile, FinishLoad,
                HandleConfigsReloaded
  <1>5. CASE UNCHANGED vars
    BY <1>5 DEF vars
  <1>6. QED
    BY <1>1, <1>2, <1>3, <1>4, <1>5 DEF Next

\* No build ends.
Keep ==
  \A b \in builds : b.phase # "completed" =>
    \E c \in builds' : c.m = b.m /\ c.phase # "completed"

\* A step that changes neither queue nor slots and ends no build holds all
\* slots.
LEMMA KeepAll ==
  ASSUME SlotsAreHeld, UNCHANGED <<queue, buildSet>>, Keep
  PROVE  SlotsAreHeld'
  <1>1. \A m, i : Covered(m, i) => Covered(m, i)'
    BY DEF Keep, Covered, UnderWay, CompletesAfter
  <1>2. StartsOnTheWay' = StartsOnTheWay
    BY DEF StartsOnTheWay
  <1>3. QED
    BY <1>1, <1>2 DEF SlotsAreHeld

\* Every step holds the slots.
LEMMA SlotStep == TypeOK /\ SlotsAreHeld /\ [Next]_vars => SlotsAreHeld'
  <1> SUFFICES ASSUME TypeOK, SlotsAreHeld, [Next]_vars PROVE SlotsAreHeld'
    OBVIOUS
  <1>1. queue \in Seq(Msg) /\ builds \subseteq Build(Phases)
    BY DEF TypeOK
  <1>2. CASE CleanUpCanceledBuilds
    <2>1. builds' = Cancel(ToCancel, builds) /\ UNCHANGED <<queue, buildSet>>
      BY <1>2 DEF CleanUpCanceledBuilds, slots
    <2>2. Keep
      BY <1>1, <2>1, CancelRules DEF Keep
    <2>3. QED
      BY <2>1, <2>2, KeepAll
  <1>3. CASE DispatchStarted
    <2>1. PICK b \in Build(Phases), e \in Msg :
            /\ queue' = Append(queue, e) /\ e.what = "started" /\ e.m = b.m
            /\ builds' = builds \cup {b} /\ b.phase = "spawned"
      BY <1>3, DispatchRules
    <2>2. buildSet' = buildSet
      BY <1>3 DEF DispatchStarted, slots
    <2>3. \A m, i : Covered(m, i) => Covered(m, i)'
      BY <1>1, <2>1, AppendRules DEF Covered, UnderWay, CompletesAfter
    <2>4. \A i : Covered(b.m, i)'
      BY <2>1 DEF Covered, UnderWay
    <2>5. \A i \in StartsOnTheWay' :
            \/ i \in StartsOnTheWay /\ queue'[i] = queue[i]
            \/ queue'[i].m = b.m
      BY <1>1, <2>1, AppendRules DEF StartsOnTheWay
    <2>6. QED
      BY <2>2, <2>3, <2>4, <2>5 DEF SlotsAreHeld
  <1>4. ASSUME NEW b \in builds, Register(b) PROVE SlotsAreHeld'
    <2>1. /\ builds' = (builds \ {b}) \cup {[b EXCEPT !.phase = "running"]}
          /\ UNCHANGED <<queue, buildSet>>
      BY <1>4 DEF Register, Become, slots
    <2>2. /\ [b EXCEPT !.phase = "running"].m = b.m
          /\ [b EXCEPT !.phase = "running"].phase = "running"
      BY <1>1, PhaseRules DEF Phases
    <2>3. Keep
      BY <2>1, <2>2 DEF Keep
    <2>4. QED
      BY <2>1, <2>3, KeepAll
  <1>5. ASSUME NEW b \in builds, BuildAndDeploy(b) PROVE SlotsAreHeld'
    <2>1. PICK e \in Msg : /\ queue' = Append(queue, e) /\ e.what = "complete"
                           /\ e.m = b.m
      BY <1>5, CompleteRules
    <2>2. /\ builds' = (builds \ {b}) \cup {[b EXCEPT !.phase = "completed"]}
          /\ buildSet' = buildSet
      BY <1>5 DEF BuildAndDeploy, Become, slots
    <2>3. \A m : UnderWay(m) => UnderWay(m)' \/ m = b.m
      BY <2>2 DEF UnderWay
    <2>4. \A m, i : CompletesAfter(m, i) => CompletesAfter(m, i)'
      BY <1>1, <2>1, AppendRules DEF CompletesAfter
    <2>5. \A i \in 0..Len(queue) : CompletesAfter(b.m, i)'
      BY <1>1, <2>1, AppendRules DEF CompletesAfter
    <2>6. \A i \in 0..Len(queue) : \A m : Covered(m, i) => Covered(m, i)'
      BY <2>3, <2>4, <2>5 DEF Covered
    <2>7. \A i \in StartsOnTheWay' :
            /\ i \in StartsOnTheWay /\ queue'[i] = queue[i]
            /\ i \in 0..Len(queue)
      BY <1>1, <2>1, AppendRules DEF StartsOnTheWay
    <2>8. 0 \in 0..Len(queue)
      BY <1>1
    <2>9. QED
      BY <2>2, <2>6, <2>7, <2>8 DEF SlotsAreHeld
  <1>6. ASSUME NEW b \in builds, CleanUp(b) PROVE SlotsAreHeld'
    <2>1. /\ b.phase = "completed" /\ builds' = Cancel({b.m}, builds \ {b})
          /\ UNCHANGED <<queue, buildSet>>
      BY <1>6 DEF CleanUp, slots
    <2>2. Keep
      BY <1>1, <2>1, CancelRules DEF Keep
    <2>3. QED
      BY <2>1, <2>2, KeepAll
  <1>7. ASSUME queue # <<>>, queue' = Tail(queue), builds' = builds,
               NEW i \in Nat, NEW m, Covered(m, i + 1)
        PROVE  Covered(m, i)'
    <2>1. CASE UnderWay(m)
      BY <1>7, <2>1 DEF Covered, UnderWay
    <2>2. CASE CompletesAfter(m, i + 1)
      <3>1. PICK j \in DOMAIN queue :
              j > i + 1 /\ queue[j].what = "complete" /\ queue[j].m = m
        BY <2>2 DEF CompletesAfter
      <3>2. /\ j - 1 \in DOMAIN queue' /\ j - 1 > i /\ queue'[j - 1] = queue[j]
        BY <1>1, <1>7, <3>1, TailRules
      <3>3. QED
        BY <3>1, <3>2 DEF Covered, CompletesAfter
    <2>3. QED
      BY <1>7, <2>1, <2>2 DEF Covered
  <1>8. ASSUME queue # <<>>, queue' = Tail(queue), builds' = builds
        PROVE  \A i \in StartsOnTheWay', m \in Manifests :
                 queue'[i].m = m => Covered(m, i)'
    <2>1. \A i \in StartsOnTheWay' :
            i \in Nat /\ i + 1 \in StartsOnTheWay /\ queue'[i] = queue[i + 1]
      BY <1>1, <1>8, TailRules DEF StartsOnTheWay
    <2>2. QED
      BY <1>7, <1>8, <2>1 DEF SlotsAreHeld
  <1>9. CASE ReduceStarted
    <2>1. /\ queue # <<>> /\ queue' = Tail(queue) /\ builds' = builds
          /\ queue[1].what = "started"
          /\ buildSet' \subseteq buildSet \cup {queue[1].m}
          /\ queue[1].m \in Manifests
      <3>1. /\ queue # <<>> /\ queue' = Tail(queue) /\ builds' = builds
            /\ Head(queue).what = "started" /\ HandleBuildStarted(Head(queue))
        BY <1>9 DEF ReduceStarted
      <3>2. Head(queue) = queue[1] /\ Head(queue) \in Msg
        BY <1>1, <3>1, TailRules
      <3>3. buildSet' \subseteq buildSet \cup {Head(queue).m}
        BY <3>1 DEF HandleBuildStarted
      <3>4. Head(queue).m \in Manifests
        BY <3>2 DEF Msg
      <3>5. QED
        BY <3>1, <3>2, <3>3, <3>4
    <2>0. 1 \in StartsOnTheWay
      BY <1>1, <2>1, TailRules DEF StartsOnTheWay
    <2>2. ASSUME NEW m \in buildSet' PROVE Covered(m, 0)'
      <3>1. CASE m \in buildSet
        <4>1. Covered(m, 0)
          BY <3>1 DEF SlotsAreHeld
        <4>2. Covered(m, 0 + 1)
          BY <1>1, <2>1, <4>1 DEF Covered, CompletesAfter
        <4>3. QED
          BY <1>7, <2>1, <4>2
      <3>2. CASE m = queue[1].m
        <4>1. Covered(m, 0 + 1)
          BY <2>0, <2>1, <3>2 DEF SlotsAreHeld
        <4>2. QED
          BY <1>7, <2>1, <4>1
      <3>3. QED
        BY <2>1, <3>1, <3>2
    <2>3. QED
      BY <1>8, <2>1, <2>2 DEF SlotsAreHeld
  <1>10. CASE ReduceCompleted
    <2>1. /\ queue # <<>> /\ queue' = Tail(queue) /\ builds' = builds
          /\ buildSet' = buildSet \ {queue[1].m}
      BY <1>1, <1>10, TailRules
      DEF ReduceCompleted, HandleBuildCompleted, GiveBack
    <2>2. ASSUME NEW m \in buildSet' PROVE Covered(m, 0)'
      <3>1. Covered(m, 0) /\ queue[1].m # m
        BY <2>1 DEF SlotsAreHeld
      <3>2. Covered(m, 0 + 1)
        BY <1>1, <3>1 DEF Covered, CompletesAfter
      <3>3. QED
        BY <1>7, <2>1, <3>2
    <2>3. QED
      BY <1>8, <2>1, <2>2 DEF SlotsAreHeld
  <1>11. CASE UNCHANGED <<queue, buildSet, builds>>
    BY <1>11, KeepAll DEF Keep
  <1>12. QED
    BY <1>2, <1>3, <1>4, <1>5, <1>6, <1>9, <1>10, <1>11, Holding

-----------------------------------------------------------------------------
(* The theorems *)

\* The invariant is inductive.
LEMMA Invariance == Spec => []IInv
  <1>1. IInv /\ [Next]_vars => IInv'
    BY TypeStep, StartStep, SlotStep DEF IInv
  <1>2. QED
    BY InitIInv, <1>1, PTL DEF Spec

\* The types hold, and no resource is in the trigger queue twice, whatever
\* the resources and however often they are edited, triggered and reloaded.
THEOREM BuildControlTypes == Spec => []TypeOK
  <1>1. IInv => TypeOK
    BY DEF IInv
  <1>2. QED
    BY <1>1, Invariance, PTL

\* The controller waits for a start only while it is about to dispatch it or
\* the store is about to reduce it: it never waits for one that is lost.
THEOREM SchedulerNeverWedged == Spec => []NeverWedged
  <1>1. IInv => NeverWedged
    BY DEF IInv, TypeOK, StartIsCounted, StartsOnTheWay, NeverWedged
  <1>2. QED
    BY <1>1, Invariance, PTL

\* When no build is under way and no message of one is left, all slots are
\* free: no reload of the Tiltfile makes one leak.
THEOREM NoSlotLeaks == Spec => []SlotsAreReturned
  <1>1. IInv => SlotsAreReturned
    BY DEF IInv, SlotsAreHeld, Covered, UnderWay, CompletesAfter, SlotsAreReturned, Busy
  <1>2. QED
    BY <1>1, Invariance, PTL
=============================================================================
