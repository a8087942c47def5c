-------------------------- MODULE LiveUpdateProofs --------------------------
(***************************************************************************)
(* Proofs about live updates: for any sources and scenarios the types of   *)
(* the reconciler, the engine and the containers, and that a mark passes   *)
(* over no change but those that became known after a later one was copied.*)
(***************************************************************************)
EXTENDS LiveUpdateProperties, WellFoundedInduction, TLAPS

-----------------------------------------------------------------------------
(* Times *)

\* A set of times has a least element ...
LEMMA LeastOf ==
  ASSUME NEW S, S \subseteq Nat, S # {}
  PROVE  \E t \in S : \A u \in S : t <= u
<1>1. PICK t \in S : \A u \in S : ~(<<u, t>> \in OpToRel(<, Nat))
  BY WFMin, NatLessThanWellFounded
<1>2. \A u \in S : t <= u
  <2> TAKE u \in S
  <2>1. t \in Nat /\ u \in Nat  BY <1>1
  <2>2. u < t => <<u, t>> \in OpToRel(<, Nat)  BY <2>1, Zenon DEF OpToRel
  <2>3. ~(u < t)  BY <1>1, <2>2
  <2>. QED  BY <2>1, <2>3
<1>. QED  BY <1>1, <1>2

\* ... and a greatest one if it has a bound.
LEMMA GreatestOf ==
  ASSUME NEW S, S \subseteq Nat, S # {}, NEW n \in Nat, \A u \in S : u <= n
  PROVE  \E t \in S : \A u \in S : u <= t
<1> DEFINE Bounds == {m \in Nat : \A u \in S : u <= m}
<1>1. PICK t \in Bounds : \A m \in Bounds : t <= m
  <2>1. n \in Bounds  OBVIOUS
  <2>2. Bounds \subseteq Nat OBVIOUS
  <2>. HIDE DEF Bounds
  <2>. QED  BY <2>1, <2>2, LeastOf
<1>2. t \in S
  <2> SUFFICES ASSUME t \notin S  PROVE FALSE
    OBVIOUS
  <2>1. PICK u \in S : TRUE  OBVIOUS
  <2>2. t \in Nat /\ u \in Nat /\ u <= t  BY <1>1, <2>1
  <2>3. t # 0  BY <2>1, <2>2
  <2>4. t - 1 \in Nat  BY <2>2, <2>3
  <2>5. ASSUME NEW v \in S  PROVE v <= t - 1
    BY <1>1, <2>2
  <2>6. t - 1 \in Bounds  BY <2>4, <2>5
  <2>. QED  BY <1>1, <2>6, <2>2
<1>. QED  BY <1>1, <1>2

\* The later of two times is one of them, and not before the other.
LEMMA LaterOfTwo ==
  ASSUME NEW t \in Nat, NEW u \in Nat
  PROVE  /\ Later(t, u) \in {t, u} /\ Later(t, u) \in Nat
         /\ t <= Later(t, u) /\ u <= Later(t, u)
  BY DEF Later

LEMMA OldestIsLeast ==
  ASSUME NEW S, S \subseteq Nat, S # {}
  PROVE  Oldest(S) \in S /\ \A u \in S : Oldest(S) <= u
<1>1. \E t \in S : \A u \in S : t <= u  BY LeastOf
<1>. QED  BY <1>1 DEF Oldest

-----------------------------------------------------------------------------
(* The reconciler's marks *)

\* The container visited next is one of those to do.
LEMMA VisitedIsToDo ==
  ASSUME TypeOK, run.todo # {}
  PROVE  Visited \in run.todo /\ Visited \in Ids
<1>1. run.todo \subseteq Ids  BY DEF TypeOK, Runs
<1>2. Ids \subseteq Nat  BY BoundAssumption DEF Ids
<1>3. \E k \in run.todo : \A l \in run.todo : k <= l
  BY <1>1, <1>2, LeastOf
<1>. QED  BY <1>1, <1>3 DEF Visited

\* The newest container is there, and none is newer.
LEMMA NewestIsLive ==
  ASSUME TypeOK, Live # {}
  PROVE  Newest \in Live /\ \A l \in Live : l <= Newest
<1>1. Live \subseteq Nat /\ \A l \in Live : l <= MostContainers
  BY BoundAssumption DEF Live, Ids
<1>2. \E k \in Live : \A l \in Live : l <= k
  BY <1>1, BoundAssumption, GreatestOf
<1>. QED  BY <1>2 DEF Newest

LEMMA HighWaterMarkIsLater ==
  ASSUME TypeOK, NEW k \in Ids
  PROVE  /\ tracked[k].synced \in Nat
         /\ HighWaterMark(k) \in {tracked[k].synced, StartedTime}
         /\ HighWaterMark(k) \in Nat /\ HighWaterMark(k) >= StartedTime
<1>1. tracked[k].synced \in Nat  BY DEF TypeOK
<1>. QED  BY <1>1, LaterOfTwo DEF HighWaterMark, StartedTime

\* The files that have changed changed after the high water mark, unless all are
\* to be copied.
LEMMA FilesHaveChanged ==
  ASSUME TypeOK, NEW k \in Ids
  PROVE  /\ FilesChanged(k) \subseteq Sources
         /\ IsInitialSync(k) => FilesChanged(k) = Sources
         /\ ~IsInitialSync(k) =>
              /\ \A s \in FilesChanged(k) : monitor.mod[s] > HighWaterMark(k)
              /\ \A s \in Sources \ FilesChanged(k) :
                   monitor.mod[s] <= HighWaterMark(k)
<1>1. \A s \in Sources : monitor.mod[s] \in Nat  BY DEF TypeOK, Times
<1>2. HighWaterMark(k) \in Nat  BY HighWaterMarkIsLater
<1>. QED  BY <1>1, <1>2 DEF FilesChanged

\* The low water mark is a time when there is something to copy.
LEMMA LowWaterMarkIsATime ==
  ASSUME TypeOK, NEW k \in Ids, FilesChanged(k) # {}
  PROVE  LowWaterMark(k) \in Nat \ {0}
<1>1. CASE IsInitialSync(k)
  BY <1>1 DEF LowWaterMark, StartedTime
<1>2. CASE ~IsInitialSync(k)
  <2> DEFINE S == {monitor.mod[s] : s \in FilesChanged(k)}
  <2>1. HighWaterMark(k) \in Nat /\ HighWaterMark(k) >= 1
    BY HighWaterMarkIsLater DEF StartedTime
  <2>2. \A s \in FilesChanged(k) :
          monitor.mod[s] \in Nat /\ monitor.mod[s] > HighWaterMark(k)
    BY <1>2, FilesHaveChanged DEF TypeOK, Times
  <2>3. S \subseteq Nat \ {0} /\ S # {}  BY <2>1, <2>2
  <2>4. Oldest(S) \in S  BY <2>3, OldestIsLeast
  <2>. QED  BY <1>2, <2>3, <2>4 DEF LowWaterMark
<1>. QED  BY <1>1, <1>2

\* The new high water mark is the time of a change, or a new one.
LEMMA NewHighWaterMarkIsATime ==
  ASSUME TypeOK, TimesAreRead, NEW k \in Ids, FilesChanged(k) # {}
  PROVE  /\ NewHighWaterMark(k) \in Nat /\ NewHighWaterMark(k) <= now + 1
         /\ \/ IsInitialSync(k)
            \/ \E r \in FilesChanged(k) : NewHighWaterMark(k) = monitor.mod[r]
<1>0. now \in Nat  BY DEF TypeOK
<1>1. CASE IsInitialSync(k)
  BY <1>0, <1>1 DEF NewHighWaterMark
<1>2. CASE ~IsInitialSync(k)
  <2> DEFINE S == {monitor.mod[s] : s \in FilesChanged(k)}
  <2>1. FilesChanged(k) \subseteq Sources  BY FilesHaveChanged
  <2>2. ASSUME NEW s \in Sources
        PROVE  monitor.mod[s] \in Nat /\ monitor.mod[s] <= now
    <3>1. /\ monitor.mod[s] \in Nat /\ seen.file[s] \in Nat
          /\ fileEvent[s] \in Nat /\ disk[s] \in Nat /\ now \in Nat
      BY <2>2 DEF TypeOK, Times, Copies
    <3>2. /\ monitor.mod[s] <= seen.file[s] /\ seen.file[s] <= fileEvent[s]
          /\ fileEvent[s] <= disk[s] /\ disk[s] <= now
      BY <2>2 DEF TimesAreRead
    <3>. QED  BY <3>1, <3>2
  <2>3. S \subseteq Nat /\ S # {} /\ \A u \in S : u <= now
    BY <2>1, <2>2
  <2>4. \E t \in S : \A u \in S : u <= t
    <3>. HIDE DEF S
    <3>. QED  BY <1>0, <2>3, GreatestOf
  <2>5. PICK t \in S : \A s \in FilesChanged(k) : monitor.mod[s] <= t
    BY <2>4
  <2>6. NewHighWaterMark(k) \in S
    BY <1>2, <2>5 DEF NewHighWaterMark
  <2>. QED  BY <1>0, <2>1, <2>2, <2>6
<1>. QED  BY <1>1, <1>2

\* Files and the engine keep the types.
LEMMA EngineTypes ==
  ASSUME TypeOK
  PROVE  /\ \A s \in Sources : Edit(s) \/ Publish(s) \/ Tell(s) => TypeOK'
         /\ Reduce \/ Trigger \/ WriteTriggerQueue => TypeOK'
<1>. USE DEF setting, files, engine, images, ours, past
<1>1. ASSUME NEW s \in Sources, Edit(s)  PROVE TypeOK'
  <2>1. now + 1 \in Nat  BY DEF TypeOK
  <2>2. disk' \in Times /\ recorded' \in Times
    BY <1>1, <2>1 DEF TypeOK, Edit, Times
  <2>. QED  BY <1>1, <2>1, <2>2 DEF TypeOK, Edit
<1>2. ASSUME NEW s \in Sources, Publish(s)  PROVE TypeOK'
  <2>2. fileEvent' \in Times /\ recorded' \in Times
    BY <1>2 DEF TypeOK, Publish, Times
  <2>. QED  BY <1>2, <2>2 DEF TypeOK, Publish
<1>3. ASSUME NEW s \in Sources, Tell(s)  PROVE TypeOK'
  <2>1. [type |-> "edit", source |-> s, time |-> fileEvent[s]] \in Actions
    BY DEF TypeOK, Actions, Times
  <2>2. actions' \in Seq(Actions)  BY <1>3, <2>1 DEF TypeOK, Tell, Dispatch
  <2>. QED  BY <1>3, <2>2 DEF TypeOK, Tell
<1>4. ASSUME Reduce  PROVE TypeOK'
  <2>1. PICK a \in Actions : a = Head(actions)  BY <1>4 DEF TypeOK, Reduce
  <2>2. actions' \in Seq(Actions)  BY <1>4 DEF TypeOK, Reduce
  <2>3. CASE a.type = "edit" /\ AddPendingFileChange(a.source, a.time)
             /\ UNCHANGED <<consumed, current, failing, triggered, lastOk>>
    <3>1. a.source \in Sources /\ a.time \in Nat
      BY <2>1, <2>3 DEF Actions
    <3>2. now' \in Nat /\ changed' \in Times
      <4>1. changed \in Times /\ now + 1 \in Nat  BY DEF TypeOK
      <4>2. [changed EXCEPT ![a.source] = a.time] \in Times
        BY <3>1, <4>1 DEF Times
      <4>3. [changed EXCEPT ![a.source] = now + 1] \in Times
        BY <3>1, <4>1 DEF Times
      <4>4. \/ changed' = changed /\ now' = now
            \/ changed' = [changed EXCEPT ![a.source] = a.time] /\ now' = now
            \/ changed' = [changed EXCEPT ![a.source] = now + 1] /\ now' = now + 1
        BY <2>3, Zenon DEF AddPendingFileChange
      <4>. QED  BY <4>1, <4>2, <4>3, <4>4 DEF TypeOK
    <3>. QED  BY <1>4, <2>2, <2>3, <3>2 DEF TypeOK, Reduce
  <2>4. CASE a.type = "start" /\ HandleBuildStarted(a)
             /\ UNCHANGED <<now, changed, consumed, failing, lastOk>>
    <3>1. a.source \in Builders /\ a.start \in Nat /\ a.edits \in SUBSET Sources
      BY <2>1, <2>4 DEF Actions
    <3>2. current' \in [Builders -> [start : Nat, edits : SUBSET Sources]]
      BY <2>4, <3>1 DEF TypeOK, HandleBuildStarted
    <3>3. triggered' = FALSE  BY <2>4 DEF HandleBuildStarted
    <3>. QED  BY <1>4, <2>2, <2>4, <3>2, <3>3 DEF TypeOK, Reduce
  <2>5. CASE a.type = "complete" /\ HandleBuildCompleted(a)
             /\ UNCHANGED <<now, changed, failing, triggered>>
    <3>1. a.source \in Builders /\ a.ok \in BOOLEAN
      BY <2>1, <2>5 DEF Actions
    <3>2. current' \in [Builders -> [start : Nat, edits : SUBSET Sources]]
      BY <2>5, <3>1 DEF TypeOK, HandleBuildCompleted, NoBuild
    <3>3. current[a.source].start \in Nat  BY <3>1 DEF TypeOK
    <3>4. consumed' \in Nat /\ lastOk' \in BOOLEAN
      BY <2>5, <3>1, <3>3, LaterOfTwo DEF TypeOK, HandleBuildCompleted
    <3>. QED  BY <1>4, <2>2, <2>5, <3>2, <3>4 DEF TypeOK, Reduce
  <2>6. CASE a.type = "upsert" /\ failing' = a.failed
             /\ UNCHANGED <<now, changed, consumed, current, triggered, lastOk>>
    <3>1. a.failed \in BOOLEAN  BY <2>1, <2>6 DEF Actions
    <3>. QED  BY <1>4, <2>2, <2>6, <3>1 DEF TypeOK, Reduce
  <2>. QED  BY <1>4, <2>1, <2>3, <2>4, <2>5, <2>6 DEF Reduce
<1>5. ASSUME Trigger  PROVE TypeOK'
  BY <1>5 DEF TypeOK, Trigger
<1>6. ASSUME WriteTriggerQueue  PROVE TypeOK'
  BY <1>6 DEF TypeOK, WriteTriggerQueue
<1>. QED  BY <1>1, <1>2, <1>3, <1>4, <1>5, <1>6

LEMMA FullBuildTypes ==
  ASSUME TypeOK, FullBuild
  PROVE  TypeOK'
<1>. USE DEF setting, files, engine, images, ours, past
<1>. DEFINE Builds == [phase : {"none", "decided", "started", "images", "read", "built"},
                start : Nat, edits : SUBSET Sources, rebuilt : SUBSET Sources,
                image : Nat]
<1>0. NoFullBuild \in Builds /\ build \in Builds /\ now \in Nat
  BY DEF NoFullBuild, TypeOK
<1>1. CASE Decide
  <2>1. Pending \in SUBSET Sources /\ Pending \cup {DeployImage} \in SUBSET Sources
    BY SourceAssumption DEF Pending
  <2>2. build' \in Builds
    BY <1>0, <1>1, <2>1 DEF Decide, NoFullBuild
  <2>. QED  BY <1>1, <2>2 DEF TypeOK, Decide
<1>2. CASE StartBuild
  <2>0. now + 1 \in Nat  BY <1>0
  <2>4. build' = [build EXCEPT !.phase = "started", !.start = now + 1]
        /\ now' = now + 1
    BY <1>2 DEF StartBuild
  <2>1. build' \in Builds /\ now' \in Nat
    BY <1>0, <2>0, <2>4
  <2>2. [type |-> "start", source |-> "buildcontrol", start |-> now + 1,
         edits |-> build.edits] \in Actions
    BY <1>0 DEF Actions, Builders
  <2>3. actions' \in Seq(Actions)
    BY <1>2, <2>2 DEF TypeOK, StartBuild, Dispatch
  <2>. QED  BY <1>2, <2>1, <2>3 DEF TypeOK, StartBuild
<1>3. CASE StartImages
  <2>0. now + 1 \in Nat  BY <1>0
  <2>2. build' = [build EXCEPT !.phase = "images", !.image = now + 1]
        /\ now' = now + 1
    BY <1>3 DEF StartImages
  <2>1. build' \in Builds /\ now' \in Nat
    BY <1>0, <2>0, <2>2
  <2>. QED  BY <1>3, <2>1 DEF TypeOK, StartImages
<1>4. CASE ReadFiles
  <2>1. build' \in Builds  BY <1>0, <1>4 DEF ReadFiles
  <2>2. baked' \in Times  BY <1>4 DEF TypeOK, ReadFiles, Times
  <2>. QED  BY <1>4, <2>1, <2>2 DEF TypeOK, ReadFiles
<1>5. CASE FinishImages
  <2>1. build' \in Builds  BY <1>0, <1>5 DEF FinishImages
  <2>2. imageTime' \in Times  BY <1>0, <1>5 DEF TypeOK, FinishImages, Times
  <2>. QED  BY <1>5, <2>1, <2>2 DEF TypeOK, FinishImages
<1>6. CASE Deploy
  <2>1. build' \in Builds /\ now' \in Nat /\ applied' \in Nat
    BY <1>0, <1>6 DEF Deploy
  <2>2. [type |-> "complete", source |-> "buildcontrol", ok |-> TRUE] \in Actions
    BY DEF Actions, Builders
  <2>3. actions' \in Seq(Actions)
    BY <1>6, <2>2 DEF TypeOK, Deploy, Dispatch
  <2>4. containers' \in [Ids -> [state : ContainerStates, content : Times,
                             image : Times, restarted : BOOLEAN]]
    BY <1>6 DEF TypeOK, Deploy, ContainerStates
  <2>. QED  BY <1>6, <2>1, <2>3, <2>4 DEF TypeOK, Deploy
<1>. QED  BY <1>1, <1>2, <1>3, <1>4, <1>5, <1>6 DEF FullBuild

LEMMA ContainerTypes ==
  ASSUME TypeOK, NEW k \in Ids, Come(k) \/ Go(k) \/ Crash(k) \/ Restart(k)
  PROVE  TypeOK'
<1>. USE DEF setting, files, engine, images, ours, past
<1>1. ASSUME NEW state \in ContainerStates, Become(k, state)  PROVE TypeOK'
  <2>1. containers' \in [Ids -> [state : ContainerStates, content : Times,
                             image : Times, restarted : BOOLEAN]]
    <3>1. \A c \in [state : ContainerStates, content : Times, image : Times,
                   restarted : BOOLEAN] :
            [c EXCEPT !.state = state] \in
              [state : ContainerStates, content : Times, image : Times,
               restarted : BOOLEAN]
      BY <1>1
    <3>2. containers' = [containers EXCEPT
                           ![k] = [containers[k] EXCEPT !.state = state]]
      BY <1>1 DEF Become
    <3>. QED  BY <3>1, <3>2 DEF TypeOK
  <2>. QED  BY <1>1, <2>1 DEF TypeOK, Become
<1>2. CASE Restart(k)
  <2>1. NoContainer \in [state : ContainerStates, content : Times,
                         image : Times, restarted : BOOLEAN]
    BY DEF NoContainer, ContainerStates, Times
  <2>2. containers' \in [Ids -> [state : ContainerStates, content : Times,
                             image : Times, restarted : BOOLEAN]]
    <3> DEFINE Container == [state : ContainerStates, content : Times,
                             image : Times, restarted : BOOLEAN]
               c == containers[k]
               new == [containers[k + 1] EXCEPT
                         !.state = "running", !.restarted = TRUE,
                         !.content = c.image, !.image = c.image]
    <3>1. containers \in [Ids -> Container]  BY DEF TypeOK
    <3>2. k + 1 \in Ids  BY <1>2 DEF Restart
    <3>3. c.image \in Times /\ containers[k + 1] \in Container
      BY <3>1, <3>2
    <3>4. new \in Container  BY <3>3 DEF ContainerStates
    <3>5. containers' = [containers EXCEPT ![k] = NoContainer, ![k + 1] = new]
      BY <1>2 DEF Restart
    <3>. HIDE DEF Container, new, c
    <3>. QED  BY <2>1, <3>1, <3>4, <3>5 DEF Container
  <2>. QED  BY <1>2, <2>2 DEF TypeOK, Restart
<1>. QED  BY <1>1, <1>2 DEF Come, Go, Crash, ContainerStates

\* What is got of each object is one that was there.
LEMMA ViewsAreCopies ==
  ASSUME TypeOK, NEW v \in Views
  PROVE  /\ v \in Copies
         /\ \A s \in Sources : v.file[s] \in {seen.file[s], fileEvent[s]}
         /\ v.states \in {seen.states, States}
<1>1. /\ v.file \in Mixed(seen.file, fileEvent)
      /\ v.image \in Mixed(seen.image, imageTime)
      /\ v.applied \in {seen.applied, applied}
      /\ v.states \in {seen.states, States}
      /\ v.deployed \in {seen.deployed, imageTime[DeployImage]}
      /\ v.trigger \in {seen.trigger, triggerMap}
      /\ v.status \in {seen.status, status}
      /\ v = [file |-> v.file, image |-> v.image, applied |-> v.applied,
              states |-> v.states, deployed |-> v.deployed, trigger |-> v.trigger,
              status |-> v.status]
  BY DEF Views
<1>2. ASSUME NEW old \in Times, NEW new \in Times, NEW m \in Mixed(old, new)
      PROVE  m \in Times /\ \A s \in Sources : m[s] \in {old[s], new[s]}
  BY DEF Mixed, Times
<1>3. /\ seen.file \in Times /\ fileEvent \in Times
      /\ seen.image \in Times /\ imageTime \in Times
      /\ seen.applied \in Nat /\ applied \in Nat
      /\ seen.deployed \in Nat /\ imageTime[DeployImage] \in Nat
      /\ seen.trigger \in BOOLEAN /\ triggerMap \in BOOLEAN
      /\ seen.status \in Statuses /\ status \in Statuses
      /\ seen.states \in [Ids -> ContainerStates]
  BY SourceAssumption DEF TypeOK, Copies, Times
<1>4. States \in [Ids -> ContainerStates]  BY DEF States, TypeOK
<1>5. /\ v.file \in Times /\ v.image \in Times
      /\ \A s \in Sources : v.file[s] \in {seen.file[s], fileEvent[s]}
  BY <1>1, <1>2, <1>3
<1>6. v \in Copies  BY <1>1, <1>3, <1>4, <1>5 DEF Copies
<1>. QED  BY <1>1, <1>5, <1>6

\* What the reconciler has got, and what it makes of it.
LEMMA MonitorTypes ==
  ASSUME TypeOK, NEW v \in Copies
  PROVE  /\ \A s \in Sources : SeenImage(s, v) \in Nat /\ ModTime(s, v) \in Nat
                               /\ Collected(s, v) \in Nat
         /\ \A k \in Ids : StillTracked(k, v) \in
              [known : BOOLEAN, synced : Nat, low : Nat, failed : Reasons]
         /\ \A k \in Ids :
              /\ (StillTracked(k, v).failed # "none") = (StillTracked(k, v).low # 0)
              /\ StillTracked(k, v).failed # "none" => StillTracked(k, v).known
<1>1. ASSUME NEW s \in Sources
      PROVE  /\ SeenImage(s, v) \in Nat /\ ModTime(s, v) \in Nat
             /\ Collected(s, v) \in Nat
  <2>1. v.image[s] \in Nat /\ v.file[s] \in Nat /\ monitor.mod[s] \in Nat
        /\ monitor.image[s] \in Nat
    BY DEF TypeOK, Copies, Times
  <2>2. SeenImage(s, v) \in Nat  BY <2>1 DEF SeenImage
  <2>3. ModTime(s, v) \in Nat  BY <2>1, LaterOfTwo DEF ModTime
  <2>. QED  BY <2>2, <2>3 DEF Collected
<1>2. ASSUME NEW k \in Ids
      PROVE  /\ StillTracked(k, v) \in
                  [known : BOOLEAN, synced : Nat, low : Nat, failed : Reasons]
             /\ (StillTracked(k, v).failed # "none") = (StillTracked(k, v).low # 0)
             /\ StillTracked(k, v).failed # "none" => StillTracked(k, v).known
  <2> DEFINE T == [known : BOOLEAN, synced : Nat, low : Nat, failed : Reasons]
  <2>1. PICK c \in T : /\ c = tracked[k]
                       /\ (c.failed # "none") <=> (c.low # 0)
                       /\ c.failed # "none" => c.known
    BY DEF TypeOK
  <2>2. /\ Untracked \in T
        /\ Untracked.low = 0 /\ Untracked.failed = "none"
    BY DEF Untracked, Reasons
  <2>3. Excused(c, v) = c \/ Excused(c, v) = [c EXCEPT !.low = 0, !.failed = "none"]
    BY DEF Excused
  <2>4. /\ Excused(c, v) \in T
        /\ (Excused(c, v).failed # "none") <=> (Excused(c, v).low # 0)
        /\ Excused(c, v).failed # "none" => Excused(c, v).known
    <3>1. CASE Excused(c, v) = c  BY <2>1, <3>1, Zenon
    <3>2. CASE Excused(c, v) = [c EXCEPT !.low = 0, !.failed = "none"]
      <4>1. "none" \in Reasons  BY DEF Reasons
      <4>3. [c EXCEPT !.low = 0, !.failed = "none"] \in T  BY <4>1
      <4>4. Excused(c, v) \in T  BY <3>2, <4>3
      <4>2. Excused(c, v).low = 0 /\ Excused(c, v).failed = "none"  BY <2>1, <3>2
      <4>. QED  BY <4>2, <4>4
    <3>. QED  BY <2>3, <3>1, <3>2
  <2>5. StillTracked(k, v) = Untracked \/ StillTracked(k, v) = Excused(c, v)
    BY <2>1 DEF StillTracked
  <2>6. StillTracked(k, v) \in T  BY <2>2, <2>4, <2>5
  <2>7. (StillTracked(k, v).failed # "none") <=> (StillTracked(k, v).low # 0)
    BY <2>2, <2>4, <2>5
  <2>8. StillTracked(k, v).failed # "none" => StillTracked(k, v).known
    BY <2>2, <2>4, <2>5
  <2>. QED  BY <2>6, <2>7, <2>8
<1>. QED  BY <1>1, <1>2

LEMMA ReconcileTypes ==
  ASSUME TypeOK, NEW v \in Views, Reconcile(v)
  PROVE  TypeOK'
<1>. USE DEF setting, files, engine, images, past
<1>0. v \in Copies  BY ViewsAreCopies
<1>1. [type |-> "upsert", failed |-> v.status.failed # "none"] \in Actions
  BY DEF Actions
<1>2. actions' \in Seq(Actions)
  <2>1. actions' = actions \/ actions' = Append(actions,
          [type |-> "upsert", failed |-> v.status.failed # "none"])
    BY Zenon DEF Reconcile, DispatchUpsert, Dispatch
  <2>2. PICK a \in Actions : actions' = actions \/ actions' = Append(actions, a)
    BY <1>1, <2>1, Zenon
  <2>3. actions \in Seq(Actions)  BY DEF TypeOK
  <2>4. Append(actions, a) \in Seq(Actions)  BY <2>3
  <2>. QED  BY <2>2, <2>3, <2>4
<1>3. HasChanges(v) \in BOOLEAN
  <2>1. monitor.changes \in BOOLEAN  BY DEF TypeOK
  <2>. QED  BY <2>1 DEF HasChanges
<1>4. monitor' \in [known : BOOLEAN, changes : BOOLEAN, image : Times, mod : Times]
  <2>1. [s \in Sources |-> SeenImage(s, v)] \in Times
    BY <1>0, MonitorTypes DEF Times
  <2>2. [s \in Sources |-> IF HasChanges(v) THEN Collected(s, v)
                           ELSE ModTime(s, v)] \in Times
    BY <1>0, MonitorTypes DEF Times
  <2>. QED  BY <1>3, <2>1, <2>2 DEF Reconcile
<1>5. /\ tracked' \in [Ids -> [known : BOOLEAN, synced : Nat, low : Nat,
                               failed : Reasons]]
      /\ \A k \in Ids : /\ (tracked'[k].failed # "none") = (tracked'[k].low # 0)
                        /\ tracked'[k].failed # "none" => tracked'[k].known
  <2>1. CASE HasChanges(v)
    <3>1. tracked' = [k \in Ids |-> StillTracked(k, v)]
      BY <2>1 DEF Reconcile
    <3>. QED  BY <1>0, <3>1, MonitorTypes
  <2>2. CASE ~HasChanges(v)
    BY <2>2 DEF Reconcile, TypeOK
  <2>. QED  BY <2>1, <2>2
<1>6. run' \in Runs
  <2>1. CASE HasChanges(v)
    <3> DEFINE failed == {StillTracked(k, v).failed : k \in Selected(v)} \ {"none"}
    <3>1. failed \subseteq Reasons
      BY <1>0, MonitorTypes DEF Selected
    <3>2. (IF failed = {} THEN "none" ELSE CHOOSE f \in failed : TRUE) \in Reasons
      BY <3>1 DEF Reasons
    <3>3. Selected(v) \in SUBSET Ids  BY DEF Selected
    <3>4. (Manual /\ ~v.trigger) \in BOOLEAN  OBVIOUS
    <3>5. Idle \in Runs  BY DEF Idle, Runs, Reasons
    <3>6. run' = [Idle EXCEPT !.step = IF failed = {} THEN "visit" ELSE "update",
               !.todo = Selected(v), !.waits = Manual /\ ~v.trigger,
               !.failed = IF failed = {} THEN "none" ELSE CHOOSE f \in failed : TRUE]
      BY <2>1 DEF Reconcile
    <3>. HIDE DEF failed
    <3>. QED  BY <3>2, <3>3, <3>4, <3>5, <3>6 DEF Runs
  <2>2. CASE ~HasChanges(v)
    BY <2>2 DEF Reconcile, TypeOK
  <2>. QED  BY <2>1, <2>2
<1>7. seen' \in Copies /\ late' \subseteq Sources
  BY <1>0 DEF Reconcile, Lateness
<1>8. UNCHANGED <<now, setting, files, engine, images, triggerMap, status, build,
                  containers, copied, unwritten>>
  BY DEF Reconcile
<1>. QED  BY <1>2, <1>4, <1>5, <1>6, <1>7, <1>8 DEF TypeOK

\* A container that fails is given a reason and a low water mark.
LEMMA FailTypes ==
  ASSUME TypeOK, NEW k \in Ids, NEW reason \in Reasons \ {"none"},
         NEW low \in Nat \ {0}, Fail(k, reason, low)
  PROVE  /\ run' \in Runs
         /\ tracked' \in [Ids -> [known : BOOLEAN, synced : Nat, low : Nat,
                                  failed : Reasons]]
         /\ \A l \in Ids : /\ (tracked'[l].failed # "none") = (tracked'[l].low # 0)
                           /\ tracked'[l].failed # "none" => tracked'[l].known
<1> DEFINE T == [known : BOOLEAN, synced : Nat, low : Nat, failed : Reasons]
           c == [tracked[k] EXCEPT !.known = TRUE, !.low = low, !.failed = reason]
<1>1. tracked \in [Ids -> T]  BY DEF TypeOK
<1>2. c \in T /\ c.known = TRUE /\ c.low = low /\ c.failed = reason
  BY <1>1
<1>3. tracked' = [tracked EXCEPT ![k] = c]  BY DEF Fail
<1>4. tracked' \in [Ids -> T]  BY <1>1, <1>2, <1>3
<1>5. ASSUME NEW l \in Ids
      PROVE  /\ (tracked'[l].failed # "none") = (tracked'[l].low # 0)
             /\ tracked'[l].failed # "none" => tracked'[l].known
  <2>1. CASE l = k
    <3>1. tracked'[l] = c  BY <1>1, <1>3, <2>1
    <3>. HIDE DEF c
    <3>. QED  BY <1>2, <3>1
  <2>2. CASE l # k
    <3>1. tracked'[l] = tracked[l]  BY <1>1, <1>3, <2>2
    <3>. QED  BY <3>1 DEF TypeOK
  <2>. QED  BY <2>1, <2>2
<1>6. run' \in Runs
  <2>1. run \in Runs  BY DEF TypeOK
  <2>2. run' = [run EXCEPT !.step = "visit", !.todo = {}, !.failed = reason,
                           !.synced = <<>>, !.copying = {}]
    BY DEF Fail
  <2>3. <<>> \in Seq([id : Ids, time : Nat, waiting : BOOLEAN])  OBVIOUS
  <2>. QED  BY <2>1, <2>2, <2>3 DEF Runs
<1>. QED  BY <1>4, <1>5, <1>6

\* What is synced is a list of containers with their marks.
LEMMA SyncedTypes ==
  ASSUME TypeOK, NEW k \in Ids, NEW t \in Nat, NEW w \in BOOLEAN
  PROVE  Append(run.synced, [id |-> k, time |-> t, waiting |-> w]) \in
           Seq([id : Ids, time : Nat, waiting : BOOLEAN])
<1>1. run.synced \in Seq([id : Ids, time : Nat, waiting : BOOLEAN])
  BY DEF TypeOK, Runs
<1>2. [id |-> k, time |-> t, waiting |-> w] \in
        [id : Ids, time : Nat, waiting : BOOLEAN]
  OBVIOUS
<1>. QED  BY <1>1, <1>2

\* The latest change that was copied is not before any of them.
LEMMA CopiedIsATime ==
  ASSUME TypeOK, TimesAreRead, CopyIsMarked, Copy
  PROVE  /\ copied' \in Nat /\ copied <= copied'
         /\ \A s \in run.copying : monitor.mod[s] <= copied'
<1> DEFINE S == {copied} \cup {monitor.mod[s] : s \in run.copying}
<1>1. run.copying \subseteq Sources  BY DEF TypeOK, Runs
<1>2. \A s \in Sources : monitor.mod[s] \in Nat /\ monitor.mod[s] <= now
  BY DEF TypeOK, TimesAreRead, Times, Copies
<1>3. copied \in Nat /\ now \in Nat  BY DEF TypeOK
<1>4. PICK n \in Nat : now <= n /\ copied <= n
  BY <1>3, LaterOfTwo
<1>5. S \subseteq Nat /\ S # {} /\ \A u \in S : u <= n
  BY <1>1, <1>2, <1>3, <1>4
<1>6. copied' = Max(S)  BY DEF Copy
<1>7. Max(S) \in S /\ \A u \in S : u <= Max(S)
  <2>. HIDE DEF S
  <2>1. PICK t \in S : \A u \in S : u <= t  BY <1>5, GreatestOf
  <2>2. \A u \in S : t >= u  BY <1>5, <2>1
  <2>3. \A u \in S : Max(S) >= u  BY <2>1, <2>2 DEF Max
  <2>4. Max(S) \in S  BY <2>1, <2>2 DEF Max
  <2>. QED  BY <1>5, <2>3, <2>4
<1>. QED  BY <1>5, <1>6, <1>7

LEMMA VisitTypes ==
  ASSUME TypeOK, CopyIsMarked, TimesAreRead,
         \/ SkipTerminated \/ Refuse \/ Pass \/ Begin \/ Copy \/ CopyFails
         \/ Complete \/ UpdateStatus
  PROVE  TypeOK'
<1>. USE DEF setting, files, engine, images, past
<1>0. run \in Runs /\ now \in Nat /\ now + 1 \in Nat  BY DEF TypeOK
<1>1. CASE SkipTerminated
  <2>2. run' = [run EXCEPT !.todo = run.todo \ {Visited}]
    BY <1>1 DEF SkipTerminated
  <2>3. run' \in Runs  BY <1>0, <2>2 DEF Runs
  <2>. QED  BY <1>1, <2>3 DEF TypeOK, SkipTerminated
<1>2. CASE Refuse
  <2>1. Visited \in Ids /\ Refusal(Visited) # "none"
    BY <1>2, VisitedIsToDo DEF Refuse
  <2>2. Refusal(Visited) \in Reasons \ {"none"}
    BY <2>1 DEF Refusal, Reasons
  <2>3. FilesChanged(Visited) # {}  BY <2>1 DEF Refusal
  <2>4. LowWaterMark(Visited) \in Nat \ {0}
    BY <2>1, <2>3, LowWaterMarkIsATime
  <2>5. Fail(Visited, Refusal(Visited), LowWaterMark(Visited))
    BY <1>2 DEF Refuse
  <2>. QED  BY <1>2, <2>1, <2>2, <2>4, <2>5, FailTypes DEF TypeOK, Refuse
<1>3. CASE Pass
  <2> DEFINE k == Visited
             T == [known : BOOLEAN, synced : Nat, low : Nat, failed : Reasons]
             synced == Append(run.synced, [id |-> k, time |-> tracked[k].synced,
                                           waiting |-> Waiting(k)])
  <2>1. k \in Ids  BY <1>3, VisitedIsToDo DEF Pass
  <2>3. tracked[k].synced \in Nat  BY <2>1 DEF TypeOK
  <2>4. Waiting(k) \in BOOLEAN  BY <1>0 DEF Waiting, Runs
  <2>5. synced \in Seq([id : Ids, time : Nat, waiting : BOOLEAN])
    BY <2>1, <2>3, <2>4, SyncedTypes
  <2>6. run' = [run EXCEPT !.todo = run.todo \ {k}, !.synced = synced]
    BY <1>3 DEF Pass
  <2>7. run' \in Runs
    <3>. HIDE DEF synced, k
    <3>. QED  BY <1>0, <2>5, <2>6 DEF Runs
  <2>8. tracked' = [tracked EXCEPT ![k] = [tracked[k] EXCEPT !.known = TRUE]]
    BY <1>3 DEF Pass
  <2>9. tracked \in [Ids -> T]  BY DEF TypeOK
  <2>10. tracked' \in [Ids -> T]  BY <2>1, <2>8, <2>9
  <2>11. ASSUME NEW l \in Ids
         PROVE  /\ (tracked'[l].failed # "none") = (tracked'[l].low # 0)
                /\ tracked'[l].failed # "none" => tracked'[l].known
    <3>1. CASE l = k
      <4>1. /\ tracked'[l].failed = tracked[l].failed
            /\ tracked'[l].low = tracked[l].low /\ tracked'[l].known = TRUE
        BY <2>1, <2>8, <2>9, <3>1
      <4>. QED  BY <4>1 DEF TypeOK
    <3>2. CASE l # k
      <4>1. tracked'[l] = tracked[l]  BY <2>1, <2>8, <2>9, <3>2
      <4>. QED  BY <4>1 DEF TypeOK
    <3>. QED  BY <3>1, <3>2
  <2>. QED  BY <1>3, <2>7, <2>10, <2>11 DEF TypeOK, Pass
<1>4. CASE Begin
  <2> DEFINE k == Visited
  <2>1. k \in Ids /\ FilesChanged(k) # {}  BY <1>4, VisitedIsToDo DEF Begin
  <2>2. FilesChanged(k) \in SUBSET Sources  BY <2>1, FilesHaveChanged
  <2>3. NewHighWaterMark(k) \in Nat  BY <2>1, NewHighWaterMarkIsATime
  <2>4. LowWaterMark(k) \in Nat  BY <2>1, LowWaterMarkIsATime
  <2>5. run' = [run EXCEPT !.step = "copy", !.dispatched = TRUE,
       !.copying = FilesChanged(k), !.mark = NewHighWaterMark(k),
       !.low = LowWaterMark(k)]
    BY <1>4 DEF Begin
  <2>6. run' \in Runs
    <3>. HIDE DEF k
    <3>. QED  BY <1>0, <2>2, <2>3, <2>4, <2>5 DEF Runs
  <2>7. [type |-> "start", source |-> "liveupdate", start |-> now + 1,
         edits |-> FilesChanged(k)] \in Actions
    BY <1>0, <2>2 DEF Actions, Builders
  <2>8. actions' = actions \/ actions' = Append(actions,
          [type |-> "start", source |-> "liveupdate", start |-> now + 1,
           edits |-> FilesChanged(k)])
    BY <1>4 DEF Begin, Dispatch
  <2>9. actions' \in Seq(Actions)
    <3>. HIDE DEF k
    <3>1. actions \in Seq(Actions)  BY DEF TypeOK
    <3>. QED  BY <2>7, <2>8, <3>1
  <2>. QED  BY <1>0, <1>4, <2>6, <2>9 DEF TypeOK, Begin
<1>5. CASE Copy
  <2> DEFINE k == Visited
             T == [known : BOOLEAN, synced : Nat, low : Nat, failed : Reasons]
             synced == Append(run.synced, [id |-> k, time |-> run.mark,
                                           waiting |-> FALSE])
             new == [s \in Sources |-> IF s \in run.copying THEN disk[s]
                                       ELSE containers[k].content[s]]
             Container == [state : ContainerStates, content : Times,
                           image : Times, restarted : BOOLEAN]
  <2>1. k \in Ids  BY <1>5, VisitedIsToDo DEF Copy, CopyIsMarked
  <2>2. run.mark \in Nat  BY <1>0 DEF Runs
  <2>3. synced \in Seq([id : Ids, time : Nat, waiting : BOOLEAN])
    BY <2>1, <2>2, SyncedTypes
  <2>4. run' = [run EXCEPT !.step = "visit", !.todo = run.todo \ {k},
                           !.copying = {}, !.synced = synced]
    BY <1>5 DEF Copy
  <2>5. run' \in Runs
    <3>. HIDE DEF synced, k
    <3>. QED  BY <1>0, <2>3, <2>4 DEF Runs
  <2>6. tracked' = [tracked EXCEPT
          ![k] = [tracked[k] EXCEPT !.known = TRUE, !.synced = run.mark]]
    BY <1>5 DEF Copy
  <2>7. tracked \in [Ids -> T]  BY DEF TypeOK
  <2>8. tracked' \in [Ids -> T]
    <3>. HIDE DEF k
    <3>. QED  BY <2>1, <2>2, <2>6, <2>7
  <2>9. ASSUME NEW l \in Ids
        PROVE  /\ (tracked'[l].failed # "none") = (tracked'[l].low # 0)
               /\ tracked'[l].failed # "none" => tracked'[l].known
    <3>1. CASE l = k
      <4>1. /\ tracked'[l].failed = tracked[l].failed
            /\ tracked'[l].low = tracked[l].low /\ tracked'[l].known = TRUE
        BY <2>1, <2>6, <2>7, <3>1
      <4>. QED  BY <4>1 DEF TypeOK
    <3>2. CASE l # k
      <4>1. tracked'[l] = tracked[l]  BY <2>1, <2>6, <2>7, <3>2
      <4>. QED  BY <4>1 DEF TypeOK
    <3>. QED  BY <3>1, <3>2
  <2>10. containers \in [Ids -> Container]  BY DEF TypeOK
  <2>11. new \in Times
    BY <2>1 DEF TypeOK, Times
  <2>12. containers' = [containers EXCEPT
           ![k] = [containers[k] EXCEPT !.content = new]]
    BY <1>5 DEF Copy
  <2>13. containers' \in [Ids -> Container]
    <3>. HIDE DEF new, k
    <3>. QED  BY <2>1, <2>10, <2>11, <2>12
  <2>14. copied' \in Nat
    BY <1>5, CopiedIsATime
  <2>. QED  BY <1>5, <2>5, <2>8, <2>9, <2>13, <2>14 DEF TypeOK, Copy
<1>6. CASE CopyFails
  <2>1. Visited \in Ids  BY <1>6, VisitedIsToDo DEF CopyFails, CopyIsMarked
  <2>2. run.low \in Nat \ {0}  BY <1>0, <1>6 DEF CopyFails, CopyIsMarked, Runs
  <2>3. "UpdateFailed" \in Reasons \ {"none"}  BY DEF Reasons
  <2>4. Fail(Visited, "UpdateFailed", run.low)  BY <1>6 DEF CopyFails
  <2>. QED  BY <1>6, <2>1, <2>2, <2>3, <2>4, FailTypes DEF TypeOK, CopyFails
<1>7. CASE Complete
  <2>2. run' = [run EXCEPT !.step = "update"]
    BY <1>7 DEF Complete
  <2>3. run' \in Runs  BY <1>0, <2>2 DEF Runs
  <2>4. [type |-> "complete", source |-> "liveupdate", ok |-> run.failed = "none"]
          \in Actions
    BY DEF Actions, Builders
  <2>5. actions' = actions \/ actions' = Append(actions,
          [type |-> "complete", source |-> "liveupdate", ok |-> run.failed = "none"])
    BY <1>7, Zenon DEF Complete, Dispatch
  <2>6. PICK a \in Actions : actions' = actions \/ actions' = Append(actions, a)
    BY <2>4, <2>5, Zenon
  <2>7. actions' \in Seq(Actions)
    <3>1. actions \in Seq(Actions)  BY DEF TypeOK
    <3>. QED  BY <2>6, <3>1
  <2>. QED  BY <1>7, <2>3, <2>7 DEF TypeOK, Complete
<1>8. CASE UpdateStatus
  <2> DEFINE new == [failed |-> run.failed, synced |-> run.synced]
  <2>1. Idle \in Runs  BY DEF Idle, Runs, Reasons
  <2>2. new \in Statuses  BY <1>0 DEF Runs, Statuses
  <2>3. status' \in Statuses
    <3>1. status' = status \/ status' = new  BY <1>8, Zenon DEF UpdateStatus
    <3>2. status \in Statuses  BY DEF TypeOK
    <3>. HIDE DEF new
    <3>. QED  BY <2>2, <3>1, <3>2
  <2>4. \E b \in BOOLEAN : monitor' = [monitor EXCEPT !.changes = b]
    BY <1>8 DEF UpdateStatus
  <2>5. monitor' \in [known : BOOLEAN, changes : BOOLEAN, image : Times, mod : Times]
    BY <2>4 DEF TypeOK
  <2>6. unwritten' \in BOOLEAN  BY <1>8 DEF UpdateStatus
  <2>. QED  BY <1>8, <2>1, <2>3, <2>5, <2>6 DEF TypeOK, UpdateStatus
<1>. QED  BY <1>1, <1>2, <1>3, <1>4, <1>5, <1>6, <1>7, <1>8

-----------------------------------------------------------------------------
(* Steps of others *)

\* The reconciler is left alone, and so are its files.
ReconcilerRests ==
  /\ now' \in {now, now + 1}
  /\ mode' = mode
  /\ UNCHANGED ours

Elsewhere ==
  /\ ReconcilerRests
  /\ disk' = disk /\ recorded' = recorded /\ fileEvent' = fileEvent

\* A container keeps its content or is new; the newest one only goes when there is
\* another.
Replaced ==
  /\ Live' # {}
  /\ \A l \in Live : \E m \in Live' : l <= m
  /\ \A k \in Live' :
       \/ k \in Live /\ containers'[k].content = containers[k].content
       \/ \A l \in Live : l < k

LEMMA EngineIsElsewhere ==
  ASSUME TypeOK,
         \/ \E s \in Sources : Tell(s)
         \/ Reduce \/ Trigger \/ WriteTriggerQueue
         \/ Decide \/ StartBuild \/ StartImages \/ ReadFiles \/ FinishImages
  PROVE  Elsewhere /\ containers' = containers
<1>. USE DEF setting, files, engine, images, ours, past, Elsewhere, ReconcilerRests
<1>1. ASSUME NEW s \in Sources, Tell(s)
      PROVE  Elsewhere /\ containers' = containers
  BY <1>1 DEF Tell
<1>2. ASSUME Reduce  PROVE Elsewhere /\ containers' = containers
  <2>1. now' \in {now, now + 1}
    BY <1>2 DEF Reduce, AddPendingFileChange
  <2>. QED  BY <1>2, <2>1 DEF Reduce
<1>3. ASSUME \/ Trigger \/ WriteTriggerQueue
             \/ Decide \/ StartBuild \/ StartImages \/ ReadFiles \/ FinishImages
      PROVE  Elsewhere /\ containers' = containers
  BY <1>3 DEF Trigger, WriteTriggerQueue, Decide, StartBuild, StartImages,
              ReadFiles, FinishImages
<1>. QED  BY <1>1, <1>2, <1>3

LEMMA ContainersAreReplaced ==
  ASSUME TypeOK, NamesAreNew,
         Deploy \/ \E k \in Ids : Come(k) \/ Go(k) \/ Crash(k) \/ Restart(k)
  PROVE  Elsewhere /\ Replaced
<1>. USE DEF setting, files, engine, images, ours, past
<1>0. /\ containers \in [Ids -> [state : ContainerStates, content : Times,
                                image : Times, restarted : BOOLEAN]]
      /\ Ids \subseteq Nat
      /\ Live \subseteq Ids /\ Live # {}
      /\ Newest \in Live /\ \A l \in Live : l <= Newest
  <2>1. Live # {}  BY DEF NamesAreNew
  <2>2. Newest \in Live /\ \A l \in Live : l <= Newest  BY <2>1, NewestIsLive
  <2>3. Ids \subseteq Nat /\ Live \subseteq Ids
    BY BoundAssumption DEF Live, Ids
  <2>. QED  BY <2>1, <2>2, <2>3 DEF TypeOK
<1>1. CASE Deploy
  <2>1. Elsewhere  BY <1>1 DEF Deploy, Elsewhere, ReconcilerRests
  <2>2. Newest + 1 \in Ids /\ Newest \in Nat  BY <1>0, <1>1 DEF Deploy
  <2>3. \A l \in Ids : l # Newest + 1 => containers'[l] = containers[l]
    BY <1>0, <1>1 DEF Deploy
  <2>4. \A l \in Live : l < Newest + 1
    BY <1>0, <2>2
  <2>5. Live' \subseteq Live \cup {Newest + 1}
    BY <2>3 DEF Live
  <2>6. Live \subseteq Live'
    <3> SUFFICES ASSUME NEW l \in Live  PROVE l \in Live'
      OBVIOUS
    <3>1. l \in Ids /\ l \in Nat /\ l # Newest + 1  BY <1>0, <2>2, <2>4
    <3>. QED  BY <2>3, <3>1 DEF Live
  <2>7. \A l \in Live : l <= l  BY <1>0
  <2>8. \A k \in Live' : k \in Live => containers'[k].content = containers[k].content
    <3> SUFFICES ASSUME NEW k \in Live
                 PROVE  containers'[k].content = containers[k].content
      OBVIOUS
    <3>1. k \in Ids /\ k \in Nat /\ k # Newest + 1  BY <1>0, <2>2, <2>4
    <3>. QED  BY <2>3, <3>1
  <2>. QED  BY <1>0, <2>1, <2>4, <2>5, <2>6, <2>7, <2>8 DEF Replaced
<1>2. ASSUME NEW k \in Ids, NEW state \in ContainerStates, k \in Live,
             \/ state # "none"
             \/ \E l \in Ids : l > k /\ containers[l].state = "running",
             Become(k, state)
      PROVE  Elsewhere /\ Replaced
  <2>1. Elsewhere  BY <1>2 DEF Become, Elsewhere, ReconcilerRests
  <2>2. containers' = [containers EXCEPT
                         ![k] = [containers[k] EXCEPT !.state = state]]
    BY <1>2 DEF Become
  <2>3. /\ \A l \in Ids : l # k => containers'[l] = containers[l]
        /\ containers'[k].content = containers[k].content
        /\ containers'[k].state = state
    BY <1>0, <1>2, <2>2
  <2>4. Live' \subseteq Live  BY <1>2, <2>3 DEF Live
  <2>5. \A l \in Live : l # k => l \in Live'  BY <2>3 DEF Live
  <2>6. \E m \in Live' : k <= m
    <3>1. CASE state # "none"  BY <1>0, <1>2, <2>3, <3>1 DEF Live
    <3>2. CASE \E l \in Ids : l > k /\ containers[l].state = "running"
      <4>1. PICK l \in Ids : l > k /\ containers[l].state = "running"
        BY <3>2
      <4>2. l # k /\ k <= l /\ l \in Live  BY <1>0, <4>1 DEF Live
      <4>. QED  BY <2>5, <4>2
    <3>. QED  BY <1>2, <3>1, <3>2
  <2>7. \A l \in Live : \E m \in Live' : l <= m
    <3> TAKE l \in Live
    <3>1. l <= l  BY <1>0
    <3>. QED  BY <2>5, <2>6, <3>1
  <2>. QED  BY <2>1, <2>3, <2>4, <2>6, <2>7 DEF Replaced, Live
<1>3. ASSUME NEW k \in Ids, Come(k) \/ Go(k) \/ Crash(k)
      PROVE  Elsewhere /\ Replaced
  <2>1. CASE Come(k)
    BY <1>2, <2>1 DEF Come, ContainerStates, Live
  <2>2. CASE Go(k)
    <3>1. \E l \in Ids : l > k /\ containers[l].state = "running"
      BY <2>2 DEF Go
    <3>2. k \in Live  BY <2>2 DEF Go, Live
    <3>3. Become(k, "terminated") \/ Become(k, "none")  BY <2>2 DEF Go
    <3>4. {"terminated", "none"} \subseteq ContainerStates
      BY DEF ContainerStates
    <3>. QED  BY <1>2, <3>1, <3>2, <3>3, <3>4
  <2>3. CASE Crash(k)
    BY <1>2, <2>3 DEF Crash, ContainerStates, Live
  <2>. QED  BY <1>3, <2>1, <2>2, <2>3
<1>4. ASSUME NEW k \in Ids, Restart(k)
      PROVE  Elsewhere /\ Replaced
  <2>1. Elsewhere  BY <1>4 DEF Restart, Elsewhere, ReconcilerRests
  <2>2. k = Newest /\ k + 1 \in Ids  BY <1>4 DEF Restart
  <2>3. \A l \in Ids : l \notin {k, k + 1} => containers'[l] = containers[l]
    BY <1>0, <1>4 DEF Restart
  <2>4. containers'[k + 1].state = "running" /\ containers'[k].state = "none"
    <3>1. k \in Nat /\ k + 1 # k  BY <1>0
    <3> DEFINE cs == [containers EXCEPT ![k] = NoContainer]
               new == [containers[k + 1] EXCEPT
                         !.state = "running", !.restarted = TRUE,
                         !.content = containers[k].image,
                         !.image = containers[k].image]
    <3>2. containers' = [containers EXCEPT ![k] = NoContainer, ![k + 1] = new]
      BY <1>4 DEF Restart
    <3>3. new.state = "running"  BY <1>0, <2>2
    <3>4. containers'[k] = NoContainer /\ containers'[k + 1] = new
      <4>. HIDE DEF new
      <4>. QED  BY <1>0, <2>2, <3>1, <3>2
    <3>. QED  BY <3>3, <3>4 DEF NoContainer
  <2>5. \A l \in Live : l < k + 1  BY <1>0, <2>2
  <2>6. k + 1 \in Live'  BY <2>2, <2>4 DEF Live
  <2>7. k \notin Live'  BY <2>4 DEF Live
  <2>8. \A l \in Live' : l = k + 1 \/ (l \in Live /\ containers'[l] = containers[l])
    BY <2>3, <2>7 DEF Live
  <2>9. \A l \in Live : l <= k + 1  BY <1>0, <2>5
  <2>. QED  BY <2>1, <2>5, <2>6, <2>8, <2>9 DEF Replaced
<1>. QED  BY <1>1, <1>3, <1>4

\* While the reconciler is left alone, its part of the invariant holds.
LEMMA RestKeepsTheMark ==
  ASSUME TypeOK, ReconcilerRests, CopyIsMarked
  PROVE  CopyIsMarked'
<1>. USE DEF ReconcilerRests, ours, past
<1>1. now \in Nat /\ now' \in Nat /\ now' >= now  BY DEF TypeOK
<1>2. run.mark \in Nat  BY DEF TypeOK, Runs
<1>3. Visited' = Visited  BY DEF Visited
<1>4. \A k : FilesChanged(k)' = FilesChanged(k)
  BY DEF FilesChanged, IsInitialSync, InitialSync, HighWaterMark
<1>. QED  BY <1>1, <1>2, <1>3, <1>4 DEF CopyIsMarked

LEMMA ElsewhereKeepsTimes ==
  ASSUME TypeOK, Elsewhere, TimesAreRead
  PROVE  TimesAreRead'
<1>. USE DEF Elsewhere, ReconcilerRests, ours, past
<1>1. now \in Nat /\ now' \in Nat /\ now' >= now  BY DEF TypeOK
<1>2. \A s \in Sources : disk[s] \in Nat  BY DEF TypeOK, Times
<1>3. \A k \in Ids : tracked[k].synced \in Nat  BY DEF TypeOK
<1>. QED  BY <1>1, <1>2, <1>3 DEF TimesAreRead, DeployTime

LEMMA ReplacedKeeps ==
  ASSUME TypeOK, Elsewhere, Replaced, NamesAreNew
  PROVE  NamesAreNew'
<1>1. Ids \subseteq Nat /\ Live \subseteq Ids /\ Live' \subseteq Ids
  BY BoundAssumption DEF Ids, Live
<1>2. ASSUME NEW k \in Ids,
             tracked[k].synced # 0 \/ k \in run.todo \/ seen.states[k] # "none"
      PROVE  \E m \in Live' : k <= m
  <2>1. PICK l \in Live : k <= l  BY <1>2 DEF NamesAreNew
  <2>2. PICK m \in Live' : l <= m  BY DEF Replaced
  <2>3. k \in Nat /\ l \in Nat /\ m \in Nat  BY <1>1
  <2>4. k <= m  BY <2>1, <2>2, <2>3
  <2>. QED  BY <2>4
<1>. QED  BY <1>2 DEF NamesAreNew, Elsewhere, ReconcilerRests, ours, Replaced

-----------------------------------------------------------------------------
(* Steps of the files and of the reconciler *)

LEMMA FilesKeepTimes ==
  ASSUME IInv, NEW s \in Sources, Edit(s) \/ Publish(s)
  PROVE  ReconcilerRests /\ TimesAreRead'
<1>. USE DEF setting, files, engine, images, ours, past
<1>0. /\ now \in Nat /\ now + 1 \in Nat /\ now >= DeployTime
      /\ disk \in Times /\ recorded \in Times /\ fileEvent \in Times
      /\ \A r \in Sources : seen.file[r] \in Nat /\ monitor.mod[r] \in Nat
      /\ \A k \in Ids : tracked[k].synced \in Nat
  BY DEF IInv, TypeOK, Copies, Times, TimesAreRead
<1>1. CASE Edit(s)
  <2>1. ReconcilerRests  BY <1>1 DEF Edit, ReconcilerRests
  <2>2. disk' = [disk EXCEPT ![s] = now + 1] /\ now' = now + 1
        /\ recorded' = [recorded EXCEPT ![s] = now + 1]
        /\ fileEvent' = fileEvent /\ monitor' = monitor /\ tracked' = tracked
        /\ seen' = seen
    BY <1>1 DEF Edit
  <2>3. ASSUME NEW r \in Sources
        PROVE  /\ disk'[r] <= now'
               /\ recorded'[r] \in {0, disk'[r]}
               /\ fileEvent'[r] <= disk'[r]
               /\ disk'[r] = 0 \/ disk'[r] > StartedTime
    <3>1. /\ disk[r] \in Nat /\ fileEvent[r] \in Nat /\ disk[r] <= now
          /\ recorded[r] \in {0, disk[r]} /\ fileEvent[r] <= disk[r]
          /\ disk[r] = 0 \/ disk[r] > StartedTime
      BY <1>0 DEF IInv, TimesAreRead, Times
    <3>2. CASE r = s
      <4>1. disk'[r] = now + 1 /\ recorded'[r] = now + 1
        BY <1>0, <2>2, <3>2 DEF Times
      <4>. QED  BY <1>0, <2>2, <3>1, <4>1 DEF DeployTime, StartedTime
    <3>3. CASE r # s
      <4>1. disk'[r] = disk[r] /\ recorded'[r] = recorded[r]
        BY <1>0, <2>2, <3>3 DEF Times
      <4>. QED  BY <1>0, <2>2, <3>1, <4>1
    <3>. QED  BY <3>2, <3>3
  <2>4. now' >= DeployTime  BY <1>0, <2>2 DEF DeployTime
  <2>5. \A k \in Ids : tracked'[k].synced <= now'
    BY <1>0, <2>2 DEF IInv, TimesAreRead
  <2>. QED  BY <2>1, <2>2, <2>3, <2>4, <2>5 DEF IInv, TimesAreRead
<1>2. CASE Publish(s)
  <2>1. ReconcilerRests  BY <1>2 DEF Publish, ReconcilerRests
  <2>2. /\ fileEvent' = [fileEvent EXCEPT ![s] = recorded[s]]
        /\ recorded' = [recorded EXCEPT ![s] = 0]
        /\ recorded[s] # 0 /\ disk' = disk /\ now' = now
        /\ monitor' = monitor /\ tracked' = tracked /\ seen' = seen
    BY <1>2 DEF Publish
  <2>3. recorded[s] = disk[s] /\ disk[s] \in Nat /\ disk[s] > StartedTime
    BY <1>0, <2>2 DEF IInv, TimesAreRead, Times
  <2>4. ASSUME NEW r \in Sources
        PROVE  /\ recorded'[r] \in {0, disk'[r]}
               /\ fileEvent'[r] <= disk'[r] /\ seen.file[r] <= fileEvent'[r]
               /\ fileEvent'[r] = 0 \/ fileEvent'[r] > StartedTime
    <3>1. /\ disk[r] \in Nat /\ fileEvent[r] \in Nat /\ seen.file[r] \in Nat
          /\ recorded[r] \in {0, disk[r]} /\ fileEvent[r] <= disk[r]
          /\ seen.file[r] <= fileEvent[r]
          /\ fileEvent[r] = 0 \/ fileEvent[r] > StartedTime
      BY <1>0 DEF IInv, TimesAreRead, Times
    <3>2. CASE r = s
      <4>1. fileEvent'[r] = disk[r] /\ recorded'[r] = 0
        BY <1>0, <2>2, <2>3, <3>2 DEF Times
      <4>. QED  BY <2>2, <2>3, <3>1, <3>2, <4>1
    <3>3. CASE r # s
      <4>1. fileEvent'[r] = fileEvent[r] /\ recorded'[r] = recorded[r]
        BY <1>0, <2>2, <3>3 DEF Times
      <4>. QED  BY <2>2, <3>1, <4>1
    <3>. QED  BY <3>2, <3>3
  <2>. QED  BY <2>1, <2>2, <2>4 DEF IInv, TimesAreRead
<1>. QED  BY <1>1, <1>2

\* What the reconciler knows of a change is what it knew, or nothing when there is
\* an image with it, or it is the last event, and then it knows whether that is late.
LEMMA ChangesAreSeen ==
  ASSUME TypeOK, TimesAreRead, NEW v \in Views, Reconcile(v)
  PROVE  /\ seen' = v
         /\ \A s \in Sources :
              \/ monitor'.mod[s] = 0
              \/ monitor'.mod[s] = monitor.mod[s] /\ (s \in late => s \in late')
              \/ /\ monitor'.mod[s] = v.file[s] /\ s \in FileChanges(v)
                 /\ v.file[s] <= copied => s \in late'
         /\ \A k \in Ids : tracked'[k].synced \in {0, tracked[k].synced}
         /\ \A k \in Ids : k \in run'.todo => v.states[k] # "none" \/ k \in run.todo
         /\ run'.step # "copy"
         /\ UNCHANGED <<now, mode, disk, recorded, fileEvent, containers, copied>>
<1>. USE DEF setting, files, engine, images, past
<1> DEFINE mod == [s \in Sources |-> IF HasChanges(v) THEN Collected(s, v)
                                     ELSE ModTime(s, v)]
<1>1. monitor'.mod = mod /\ Lateness(mod, v)
  BY DEF Reconcile
<1>2. ASSUME NEW s \in Sources
      PROVE  \/ mod[s] = 0
             \/ mod[s] = monitor.mod[s] /\ (s \in late => s \in late')
             \/ /\ mod[s] = v.file[s] /\ s \in FileChanges(v)
                /\ v.file[s] <= copied => s \in late'
  <2>1. mod[s] = 0 \/ mod[s] = ModTime(s, v)
    BY DEF Collected
  <2>2. ASSUME mod[s] # 0
        PROVE  s \in late' <=> IF Counts(s, v) THEN v.file[s] <= copied
                                ELSE s \in late
    <3>. HIDE DEF mod
    <3>. QED  BY <1>1, <2>2 DEF Lateness
  <2>3. CASE Counts(s, v)
    <3>1. s \in FileChanges(v)  BY <2>3 DEF Counts
    <3>2. v \in Copies  BY ViewsAreCopies
    <3>3. v.file[s] \in Nat /\ monitor.mod[s] \in Nat
      BY <3>2 DEF Copies, Times, TypeOK
    <3>4. ModTime(s, v) = v.file[s] \/ ModTime(s, v) = monitor.mod[s]
      BY <2>3 DEF ModTime, Later
    <3>5. ModTime(s, v) # v.file[s] => v.file[s] < monitor.mod[s]
      BY <2>3, <3>3 DEF ModTime, Later
    <3>6. /\ seen.file[s] \in Nat /\ fileEvent[s] \in Nat
          /\ monitor.mod[s] <= seen.file[s] /\ seen.file[s] <= fileEvent[s]
      BY DEF TypeOK, TimesAreRead, Copies, Times
    <3>7. v.file[s] = fileEvent[s]
      BY <3>1, ViewsAreCopies DEF FileChanges
    <3>8. ModTime(s, v) = v.file[s]
      BY <3>3, <3>5, <3>6, <3>7
    <3>. HIDE DEF mod
    <3>. QED  BY <2>1, <2>2, <2>3, <3>1, <3>8
  <2>4. CASE ~Counts(s, v)
    <3>1. ModTime(s, v) = monitor.mod[s]  BY <2>4 DEF ModTime
    <3>. QED  BY <2>1, <2>2, <2>4, <3>1
  <2>. QED  BY <2>3, <2>4
<1>3. ASSUME NEW k \in Ids
      PROVE  tracked'[k].synced \in {0, tracked[k].synced}
  <2>1. CASE HasChanges(v)
    <3>1. tracked'[k] = StillTracked(k, v)  BY <2>1 DEF Reconcile
    <3>2. tracked[k] \in [known : BOOLEAN, synced : Nat, low : Nat,
                          failed : Reasons]
      BY DEF TypeOK
    <3>3. Excused(tracked[k], v).synced = tracked[k].synced
      BY <3>2 DEF Excused
    <3>. QED  BY <3>1, <3>3 DEF StillTracked, Untracked
  <2>2. CASE ~HasChanges(v)
    BY <2>2 DEF Reconcile
  <2>. QED  BY <2>1, <2>2
<1>4. /\ \A k \in Ids : k \in run'.todo => v.states[k] # "none" \/ k \in run.todo
      /\ run'.step # "copy"
  <2>1. CASE HasChanges(v)
    <3>1. run'.todo = Selected(v) /\ run'.step \in {"visit", "update"}
      BY <2>1 DEF Reconcile, Idle
    <3>. QED  BY <3>1 DEF Selected
  <2>2. CASE ~HasChanges(v)
    <3>1. run' = run /\ run.step = "idle"  BY <2>2 DEF Reconcile
    <3>. QED  BY <3>1
  <2>. QED  BY <2>1, <2>2
<1>5. UNCHANGED <<now, mode, disk, recorded, fileEvent, containers, copied>>
      /\ seen' = v
  BY DEF Reconcile
<1>. QED  BY <1>1, <1>2, <1>3, <1>4, <1>5

\* Visiting containers changes neither what the reconciler has seen nor, but for a
\* copy, a mark or a content.
Visits ==
  /\ now' \in {now, now + 1}
  /\ UNCHANGED <<mode, disk, recorded, fileEvent, containers, seen, copied, late>>
  /\ monitor'.mod = monitor.mod
  /\ \A k \in Ids : tracked'[k].synced = tracked[k].synced
  /\ run'.todo \subseteq run.todo

LEMMA VisitsAreSuch ==
  ASSUME TypeOK,
         \/ SkipTerminated \/ Refuse \/ Pass \/ CopyFails
         \/ Complete \/ UpdateStatus
  PROVE  Visits /\ run'.step # "copy"
<1>. USE DEF setting, files, engine, images, past, Visits
<1>0. run \in Runs /\ tracked \in [Ids -> [known : BOOLEAN, synced : Nat, low : Nat,
                                          failed : Reasons]]
  BY DEF TypeOK
<1>1. CASE SkipTerminated
  <2>1. run'.todo \subseteq run.todo /\ run'.step = "visit"
    BY <1>0, <1>1 DEF SkipTerminated, Runs
  <2>. QED  BY <1>1, <2>1 DEF SkipTerminated
<1>2. ASSUME NEW k, NEW reason, NEW low, Fail(k, reason, low)
      PROVE  /\ run'.todo \subseteq run.todo /\ run'.step = "visit"
             /\ \A l \in Ids : tracked'[l].synced = tracked[l].synced
  <2>1. run'.todo = {} /\ run'.step = "visit"
    BY <1>0, <1>2 DEF Fail, Runs
  <2>2. tracked' = [tracked EXCEPT ![k] = [tracked[k] EXCEPT
                      !.known = TRUE, !.low = low, !.failed = reason]]
    BY <1>2 DEF Fail
  <2>3. \A l \in Ids : tracked'[l].synced = tracked[l].synced
    BY <1>0, <2>2
  <2>. QED  BY <2>1, <2>3
<1>3. CASE Refuse
  <2>1. Fail(Visited, Refusal(Visited), LowWaterMark(Visited))
    BY <1>3 DEF Refuse
  <2>2. /\ run'.todo \subseteq run.todo /\ run'.step = "visit"
        /\ \A l \in Ids : tracked'[l].synced = tracked[l].synced
    BY <1>2, <2>1
  <2>. QED  BY <1>3, <2>2 DEF Refuse
<1>4. CASE CopyFails
  <2>1. Fail(Visited, "UpdateFailed", run.low)
    BY <1>4 DEF CopyFails
  <2>2. /\ run'.todo \subseteq run.todo /\ run'.step = "visit"
        /\ \A l \in Ids : tracked'[l].synced = tracked[l].synced
    BY <1>2, <2>1
  <2>. QED  BY <1>4, <2>2 DEF CopyFails
<1>5. CASE Pass
  <2>1. run'.todo \subseteq run.todo /\ run'.step = "visit"
    BY <1>0, <1>5 DEF Pass, Runs
  <2>2. PICK k : tracked' = [tracked EXCEPT ![k] = [tracked[k] EXCEPT !.known = TRUE]]
    BY <1>5 DEF Pass
  <2>3. \A l \in Ids : tracked'[l].synced = tracked[l].synced
    BY <1>0, <2>2
  <2>. QED  BY <1>5, <2>1, <2>3 DEF Pass
<1>6. CASE Complete
  <2>1. run'.todo = run.todo /\ run'.step = "update"
    BY <1>0, <1>6 DEF Complete, Runs
  <2>. QED  BY <1>6, <2>1 DEF Complete
<1>7. CASE UpdateStatus
  <2>1. run'.todo \subseteq run.todo /\ run'.step = "idle"
    BY <1>7 DEF UpdateStatus, Idle
  <2>2. \E b \in BOOLEAN : monitor' = [monitor EXCEPT !.changes = b]
    BY <1>7 DEF UpdateStatus
  <2>3. monitor'.mod = monitor.mod
    BY <2>2 DEF TypeOK
  <2>. QED  BY <1>7, <2>1, <2>3 DEF UpdateStatus
<1>. QED  BY <1>1, <1>3, <1>4, <1>5, <1>6, <1>7

\* The beginning of a copy is a visit, too, and fixes its mark.
LEMMA BeginMarks ==
  ASSUME TypeOK, TimesAreRead, Begin
  PROVE  Visits /\ CopyIsMarked'
<1>. USE DEF setting, files, engine, images, past
<1> DEFINE k == Visited
<1>0. run \in Runs /\ now \in Nat  BY DEF TypeOK
<1>1. k \in Ids /\ run.todo # {} /\ FilesChanged(k) # {}
  BY VisitedIsToDo DEF Begin
<1>2. run' = [run EXCEPT !.step = "copy", !.dispatched = TRUE,
       !.copying = FilesChanged(k), !.mark = NewHighWaterMark(k),
       !.low = LowWaterMark(k)]
  BY DEF Begin
<1>3. /\ run'.todo = run.todo /\ run'.copying = FilesChanged(k)
      /\ run'.mark = NewHighWaterMark(k) /\ run'.low = LowWaterMark(k)
  <2>. HIDE DEF k
  <2>. QED  BY <1>0, <1>2 DEF Runs
<1>4. /\ now' = now + 1 /\ monitor' = monitor /\ tracked' = tracked
      /\ UNCHANGED <<mode, disk, recorded, fileEvent, containers, seen, copied, late>>
  BY DEF Begin
<1>5. Visits  BY <1>3, <1>4 DEF Visits
<1>6. Visited' = Visited  BY <1>3 DEF Visited
<1>7. FilesChanged(Visited)' = FilesChanged(k)
  BY <1>4, <1>6 DEF FilesChanged, IsInitialSync, InitialSync, HighWaterMark
<1>8. LowWaterMark(k) # 0  BY <1>1, LowWaterMarkIsATime
<1>9. NewHighWaterMark(k) <= now'
  BY <1>1, <1>4, NewHighWaterMarkIsATime
<1>10. FilesChanged(k) = Sources
       \/ \E r \in FilesChanged(k) : NewHighWaterMark(k) = monitor.mod[r]
  BY <1>1, NewHighWaterMarkIsATime, FilesHaveChanged
<1>11. CopyIsMarked'
  <2>. HIDE DEF k
  <2>. QED  BY <1>1, <1>3, <1>4, <1>7, <1>8, <1>9, <1>10 DEF CopyIsMarked
<1>. QED  BY <1>5, <1>11

\* A copy gives the visited container the content and the mark.
LEMMA CopyGives ==
  ASSUME TypeOK, CopyIsMarked, Copy, NEW k, k = Visited
  PROVE  /\ k \in Ids /\ k \in run.todo /\ containers[k].state = "running"
         /\ UNCHANGED <<now, mode, disk, recorded, fileEvent, seen, monitor, late>>
         /\ run'.todo \subseteq run.todo /\ run'.step # "copy"
         /\ Live' = Live
         /\ \A l \in Ids \ {k} : containers'[l] = containers[l]
         /\ \A l \in Ids \ {k} : tracked'[l] = tracked[l]
         /\ tracked'[k].synced = run.mark
         /\ containers'[k].content =
              [s \in Sources |-> IF s \in run.copying THEN disk[s]
                                 ELSE containers[k].content[s]]
<1>. USE DEF setting, files, engine, images, past
<1>0. run \in Runs  BY DEF TypeOK
<1>1. k \in Ids /\ k \in run.todo  BY VisitedIsToDo DEF Copy, CopyIsMarked
<1>2. run'.todo \subseteq run.todo /\ run'.step # "copy"
  BY <1>0 DEF Copy, Runs
<1> DEFINE new == [s \in Sources |-> IF s \in run.copying THEN disk[s]
                                     ELSE containers[k].content[s]]
<1>3. containers' = [containers EXCEPT
                       ![k] = [containers[k] EXCEPT !.content = new]]
  BY DEF Copy
<1>4. /\ \A l \in Ids : l # k => containers'[l] = containers[l]
      /\ containers'[k].content = new
      /\ containers'[k].state = containers[k].state
  <2>1. containers \in [Ids -> [state : ContainerStates, content : Times,
                               image : Times, restarted : BOOLEAN]]
    BY DEF TypeOK
  <2>. HIDE DEF new
  <2>. QED  BY <1>1, <1>3, <2>1
<1>5. Live' = Live
  <2>1. \A l \in Ids : containers'[l].state = containers[l].state  BY <1>4
  <2>. QED  BY <2>1 DEF Live
<1>6. tracked' = [tracked EXCEPT
         ![k] = [tracked[k] EXCEPT !.known = TRUE, !.synced = run.mark]]
  BY DEF Copy
<1>7. /\ \A l \in Ids : l # k => tracked'[l] = tracked[l]
      /\ tracked'[k].synced = run.mark
  BY <1>1, <1>6 DEF TypeOK
<1>8. /\ UNCHANGED <<now, mode, disk, recorded, fileEvent, seen, monitor, late>>
      /\ containers[k].state = "running"
  BY DEF Copy
<1>. QED  BY <1>1, <1>2, <1>4, <1>5, <1>7, <1>8

\* So the reconciler keeps the times, the mark of its copy and the names.
LEMMA VisitsKeep ==
  ASSUME IInv, Visits
  PROVE  TimesAreRead' /\ NamesAreNew'
<1>. USE DEF Visits
<1>1. now \in Nat /\ now' \in Nat /\ now' >= now  BY DEF IInv, TypeOK
<1>2. \A s \in Sources : disk[s] \in Nat  BY DEF IInv, TypeOK, Times
<1>3. \A k \in Ids : tracked[k].synced \in Nat  BY DEF IInv, TypeOK
<1>4. TimesAreRead'
  BY <1>1, <1>2, <1>3 DEF IInv, TimesAreRead, DeployTime
<1>5. NamesAreNew'
  <2>1. Live' = Live  BY DEF Live
  <2>. QED  BY <2>1 DEF IInv, NamesAreNew
<1>. QED  BY <1>4, <1>5

LEMMA ReconcilerKeeps ==
  ASSUME IInv, LiveUpdateStep
  PROVE  CopyIsMarked' /\ TimesAreRead' /\ NamesAreNew'
<1>0. Live \subseteq Ids /\ Ids \subseteq Nat  BY BoundAssumption DEF Live, Ids
<1>1. ASSUME NEW v \in Views, Reconcile(v)
      PROVE  CopyIsMarked' /\ TimesAreRead' /\ NamesAreNew'
  <2>0. TypeOK  BY DEF IInv
  <2>1. /\ seen' = v
        /\ \A s \in Sources :
              monitor'.mod[s] \in {0, monitor.mod[s], v.file[s]}
        /\ \A k \in Ids : tracked'[k].synced \in {0, tracked[k].synced}
        /\ \A k \in Ids : k \in run'.todo => v.states[k] # "none" \/ k \in run.todo
        /\ run'.step # "copy"
        /\ UNCHANGED <<now, mode, disk, recorded, fileEvent, containers, copied>>
    BY <1>1, <2>0, ChangesAreSeen DEF IInv
  <2>2. /\ \A s \in Sources : v.file[s] \in {seen.file[s], fileEvent[s]}
        /\ v.states \in {seen.states, States}
    BY <2>0, ViewsAreCopies
  <2>3. TimesAreRead'
    <3>1. ASSUME NEW s \in Sources
          PROVE  /\ v.file[s] <= fileEvent[s]
                 /\ monitor'.mod[s] <= v.file[s]
                 /\ monitor'.mod[s] = 0 \/ monitor'.mod[s] > StartedTime
      <4>1. /\ monitor.mod[s] <= seen.file[s]
            /\ seen.file[s] <= fileEvent[s]
            /\ \A t \in {fileEvent[s], seen.file[s], monitor.mod[s]} :
                 t = 0 \/ t > StartedTime
        BY DEF IInv, TimesAreRead
      <4>2. /\ monitor.mod[s] \in Nat /\ fileEvent[s] \in Nat
            /\ seen.file[s] \in Nat
        BY <2>0 DEF TypeOK, Copies, Times
      <4>3. monitor'.mod[s] \in {0, monitor.mod[s], v.file[s]}
            /\ v.file[s] \in {seen.file[s], fileEvent[s]}
        BY <2>1, <2>2
      <4>. QED  BY <4>1, <4>2, <4>3
    <3>2. ASSUME NEW k \in Ids  PROVE tracked'[k].synced <= now
      <4>1. tracked[k].synced \in Nat /\ now \in Nat  BY <2>0 DEF TypeOK
      <4>2. tracked[k].synced <= now  BY DEF IInv, TimesAreRead
      <4>. QED  BY <2>1, <4>1, <4>2
    <3>3. \A s \in Sources : \A t \in {v.file[s]} : t = 0 \/ t > StartedTime
      BY <2>2 DEF IInv, TimesAreRead
    <3>. QED  BY <2>1, <3>1, <3>2, <3>3 DEF IInv, TimesAreRead
  <2>4. NamesAreNew'
    <3>1. Live' = Live  BY <2>1 DEF Live
    <3>2. ASSUME NEW k \in Ids,
                 tracked'[k].synced # 0 \/ k \in run'.todo \/ v.states[k] # "none"
          PROVE  \E l \in Live : k <= l
      <4>1. CASE k \in Live
        <5>1. k <= k  BY <1>0
        <5>. QED  BY <4>1, <5>1
      <4>2. CASE k \notin Live
        <5>1. States[k] = "none"  BY <4>2 DEF States, Live
        <5>2. v.states[k] # "none" => seen.states[k] # "none"
          BY <2>2, <5>1
        <5>3. tracked[k].synced # 0 \/ k \in run.todo \/ seen.states[k] # "none"
          BY <2>1, <3>2, <5>2
        <5>. QED  BY <5>3 DEF IInv, NamesAreNew
      <4>. QED  BY <4>1, <4>2
    <3>. QED  BY <2>1, <3>1, <3>2 DEF IInv, NamesAreNew
  <2>5. CopyIsMarked'  BY <2>1 DEF CopyIsMarked
  <2>. QED  BY <2>3, <2>4, <2>5
<1>2. CASE \/ SkipTerminated \/ Refuse \/ Pass \/ CopyFails
           \/ Complete \/ UpdateStatus
  <2>1. Visits /\ run'.step # "copy"  BY <1>2, VisitsAreSuch DEF IInv
  <2>2. CopyIsMarked'  BY <2>1 DEF CopyIsMarked
  <2>. QED  BY <2>1, <2>2, VisitsKeep
<1>3. CASE Begin
  BY <1>3, BeginMarks, VisitsKeep DEF IInv
<1>4. CASE Copy
  <2>1. PICK k : k = Visited  OBVIOUS
  <2>2. /\ k \in Ids /\ k \in run.todo
        /\ UNCHANGED <<now, mode, disk, recorded, fileEvent, seen, monitor, late>>
        /\ run'.todo \subseteq run.todo /\ run'.step # "copy"
        /\ Live' = Live
        /\ \A l \in Ids \ {k} : tracked'[l] = tracked[l]
        /\ tracked'[k].synced = run.mark
    <3>1. TypeOK /\ CopyIsMarked  BY DEF IInv
    <3>. QED  BY <1>4, <2>1, <3>1, CopyGives
  <2>3. CopyIsMarked'  BY <2>2 DEF CopyIsMarked
  <2>4. run.mark <= now  BY <1>4 DEF IInv, CopyIsMarked, Copy
  <2>5. \A l \in Ids : tracked'[l].synced <= now
    BY <2>2, <2>4 DEF IInv, TimesAreRead
  <2>6. TimesAreRead'  BY <2>2, <2>5 DEF IInv, TimesAreRead
  <2>7. ASSUME NEW l \in Ids,
               tracked'[l].synced # 0 \/ l \in run'.todo \/ seen.states[l] # "none"
        PROVE  \E m \in Live : l <= m
    <3>1. tracked[l].synced # 0 \/ l \in run.todo \/ seen.states[l] # "none"
      BY <2>2, <2>7
    <3>. QED  BY <3>1 DEF IInv, NamesAreNew
  <2>8. NamesAreNew'  BY <2>2, <2>7 DEF IInv, NamesAreNew
  <2>. QED  BY <2>3, <2>6, <2>8
<1>. QED  BY <1>1, <1>2, <1>3, <1>4 DEF LiveUpdateStep

-----------------------------------------------------------------------------
(* The inductive invariant *)

LEMMA InitIInv == Init => IInv
<1> SUFFICES ASSUME Init  PROVE IInv
  OBVIOUS
<1>1. TypeOK
  <2>1. NoContainer \in [state : ContainerStates, content : Times,
                         image : Times, restarted : BOOLEAN]
    BY DEF NoContainer, ContainerStates, Times
  <2>2. [NoContainer EXCEPT !.state = "running"] \in
          [state : ContainerStates, content : Times, image : Times,
           restarted : BOOLEAN]
    BY <2>1 DEF ContainerStates
  <2>3. containers \in [Ids -> [state : ContainerStates, content : Times,
                               image : Times, restarted : BOOLEAN]]
    BY <2>1, <2>2 DEF Init
  <2>4. build \in [phase : {"none", "decided", "started", "images", "read", "built"},
                start : Nat, edits : SUBSET Sources, rebuilt : SUBSET Sources,
                image : Nat]
    BY DEF Init, NoFullBuild
  <2>5. run \in Runs  BY DEF Init, Idle, Runs, Reasons
  <2>6. /\ tracked \in [Ids -> [known : BOOLEAN, synced : Nat, low : Nat,
                                failed : Reasons]]
        /\ \A k \in Ids : /\ (tracked[k].failed # "none") = (tracked[k].low # 0)
                          /\ tracked[k].failed # "none" => tracked[k].known
    BY DEF Init, Untracked, Reasons
  <2>7. monitor \in [known : BOOLEAN, changes : BOOLEAN, image : Times, mod : Times]
    BY DEF Init, Times
  <2>8. current \in [Builders -> [start : Nat, edits : SUBSET Sources]]
    BY DEF Init, NoBuild
  <2>9. mode \subseteq {"manual", "initial"}
    BY ScenarioAssumption DEF Init
  <2>10. /\ now \in Nat /\ consumed \in Nat /\ applied \in Nat
         /\ disk \in Times /\ recorded \in Times /\ fileEvent \in Times
         /\ changed \in Times /\ imageTime \in Times /\ baked \in Times
    BY DEF Init, Times, DeployTime
  <2>11. actions \in Seq(Actions)
    <3>1. actions = <<>>  BY DEF Init
    <3>. QED  BY <3>1
  <2>12. telling \subseteq Sources
         /\ {failing, triggered, lastOk, triggerMap, unwritten} \subseteq BOOLEAN
         /\ copied \in Nat /\ late \subseteq Sources
    BY DEF Init
  <2>13. status \in Statuses  BY DEF Init, Statuses, Reasons
  <2>14. seen \in Copies
    <3>1. States \in [Ids -> ContainerStates]  BY <2>3 DEF States
    <3>2. imageTime[DeployImage] \in Nat  BY <2>10, SourceAssumption DEF Times
    <3>3. triggerMap \in BOOLEAN  BY <2>12
    <3>. QED  BY <2>10, <2>13, <3>1, <3>2, <3>3 DEF Init, Server, Copies
  <2>. QED  BY <2>3, <2>4, <2>5, <2>6, <2>7, <2>8, <2>9, <2>10, <2>11, <2>12,
               <2>13, <2>14 DEF TypeOK
<1>2. CopyIsMarked  BY DEF Init, CopyIsMarked, Idle
<1>3. TimesAreRead
  BY DEF Init, TimesAreRead, DeployTime, StartedTime, Untracked, Server
<1>4. NamesAreNew
  <2>1. 1 \in Ids  BY BoundAssumption DEF Ids
  <2>2. 1 \in Live  BY <2>1 DEF Init, Live, NoContainer
  <2>3. \A k \in Ids : tracked[k].synced = 0 /\ k \notin run.todo
    BY DEF Init, Untracked, Idle
  <2>4. ASSUME NEW k \in Ids, seen.states[k] # "none"  PROVE k = 1
    <3>1. seen.states[k] = containers[k].state  BY DEF Init, Server, States
    <3>. QED  BY <2>4, <3>1 DEF Init, NoContainer
  <2>5. 1 <= 1  OBVIOUS
  <2>. QED  BY <2>2, <2>3, <2>4, <2>5 DEF NamesAreNew
<1>. QED  BY <1>1, <1>2, <1>3, <1>4 DEF IInv

LEMMA IInvStep ==
  ASSUME IInv, [Next]_vars
  PROVE  IInv'
<1>0. TypeOK /\ CopyIsMarked /\ TimesAreRead /\ NamesAreNew  BY DEF IInv
<1>1. ASSUME NEW s \in Sources, Edit(s) \/ Publish(s)
      PROVE  IInv'
  <2>1. TypeOK'  BY <1>0, <1>1, EngineTypes
  <2>2. ReconcilerRests /\ TimesAreRead'  BY <1>1, FilesKeepTimes
  <2>3. CopyIsMarked'  BY <1>0, <2>2, RestKeepsTheMark
  <2>4. containers' = containers  BY <1>1 DEF Edit, Publish
  <2>5. Live' = Live  BY <2>4 DEF Live
  <2>6. NamesAreNew'
    BY <1>0, <2>2, <2>5 DEF NamesAreNew, ReconcilerRests, ours
  <2>. QED  BY <2>1, <2>2, <2>3, <2>6 DEF IInv
<1>2. CASE \/ \E s \in Sources : Tell(s)
           \/ Reduce \/ Trigger \/ WriteTriggerQueue
           \/ Decide \/ StartBuild \/ StartImages \/ ReadFiles \/ FinishImages
  <2>1. TypeOK'  BY <1>0, <1>2, EngineTypes, FullBuildTypes DEF FullBuild
  <2>2. Elsewhere /\ containers' = containers  BY <1>0, <1>2, EngineIsElsewhere
  <2>3. ReconcilerRests  BY <2>2 DEF Elsewhere
  <2>4. Live' = Live  BY <2>2 DEF Live
  <2>5. NamesAreNew'
    BY <1>0, <2>3, <2>4 DEF NamesAreNew, ReconcilerRests, ours
  <2>. QED  BY <1>0, <2>1, <2>2, <2>3, <2>5, RestKeepsTheMark, ElsewhereKeepsTimes
            DEF IInv
<1>3. CASE Deploy \/ \E k \in Ids : Come(k) \/ Go(k) \/ Crash(k) \/ Restart(k)
  <2>1. TypeOK'  BY <1>0, <1>3, FullBuildTypes, ContainerTypes DEF FullBuild
  <2>2. Elsewhere /\ Replaced  BY <1>0, <1>3, ContainersAreReplaced
  <2>3. ReconcilerRests  BY <2>2 DEF Elsewhere
  <2>. QED  BY <1>0, <2>1, <2>2, <2>3, RestKeepsTheMark, ElsewhereKeepsTimes,
               ReplacedKeeps DEF IInv
<1>4. CASE LiveUpdateStep
  <2>1. TypeOK'
    BY <1>0, <1>4, ReconcileTypes, VisitTypes DEF LiveUpdateStep
  <2>. QED  BY <1>4, <2>1, ReconcilerKeeps DEF IInv
<1>5. CASE UNCHANGED vars
  <2>. USE <1>5 DEF vars, setting, files, engine, images, ours, past
  <2>1. TypeOK'  BY <1>0 DEF TypeOK
  <2>2. Elsewhere /\ containers' = containers  BY DEF Elsewhere, ReconcilerRests
  <2>3. ReconcilerRests  BY <2>2 DEF Elsewhere
  <2>4. Live' = Live  BY <2>2 DEF Live
  <2>5. NamesAreNew'
    BY <1>0, <2>3, <2>4 DEF NamesAreNew, ReconcilerRests, ours
  <2>. QED  BY <1>0, <2>1, <2>2, <2>3, <2>5, RestKeepsTheMark, ElsewhereKeepsTimes
            DEF IInv
<1>. QED  BY <1>1, <1>2, <1>3, <1>4, <1>5 DEF Next, FullBuild

THEOREM InductiveInvariant == Spec => []IInv
<1>1. Init => IInv  BY InitIInv
<1>2. IInv /\ [Next]_vars => IInv'  BY IInvStep
<1>. QED  BY <1>1, <1>2, PTL DEF Spec

\* The types of the reconciler, of the engine, of the containers and of what is
\* under way between them hold for any scenarios; a container has a low water mark
\* exactly when it has failed, however its files, images and states change.
THEOREM LiveUpdateTypes == Spec => []TypeOK
<1>1. IInv => TypeOK  BY DEF IInv
<1>. QED  BY <1>1, InductiveInvariant, PTL

-----------------------------------------------------------------------------
(* Marks are honest *)

LEMMA TimesOfChanges ==
  ASSUME IInv, NEW s \in Sources
  PROVE  /\ disk[s] \in Nat /\ fileEvent[s] \in Nat /\ seen.file[s] \in Nat
         /\ monitor.mod[s] \in Nat /\ recorded[s] \in {0, disk[s]}
         /\ fileEvent[s] <= disk[s] /\ seen.file[s] <= fileEvent[s]
         /\ monitor.mod[s] <= seen.file[s] /\ disk[s] <= now /\ now \in Nat
         /\ copied \in Nat /\ ComingChanges(s) \subseteq Nat
         /\ \A t \in ComingChanges(s) : t <= disk[s]
         /\ \A k \in Ids : containers[k].content[s] \in Nat
         /\ \A k \in Ids : tracked[k].synced \in Nat /\ tracked[k].synced <= now
<1>1. /\ disk[s] \in Nat /\ fileEvent[s] \in Nat /\ seen.file[s] \in Nat
      /\ monitor.mod[s] \in Nat /\ recorded[s] \in {0, disk[s]}
      /\ fileEvent[s] <= disk[s] /\ seen.file[s] <= fileEvent[s]
      /\ monitor.mod[s] <= seen.file[s] /\ disk[s] <= now /\ now \in Nat
      /\ copied \in Nat
  BY DEF IInv, TypeOK, TimesAreRead, Copies, Times
<1>2. \A t \in ComingChanges(s) : t \in Nat /\ t <= disk[s]
  BY <1>1 DEF ComingChanges
<1>3. \A k \in Ids : containers[k].content[s] \in Nat
  BY DEF IInv, TypeOK, Times
<1>4. \A k \in Ids : tracked[k].synced \in Nat /\ tracked[k].synced <= now
  BY DEF IInv, TypeOK, TimesAreRead
<1>. QED  BY <1>1, <1>2, <1>3, <1>4

LEMMA InitMarks == Init => MarksInv
<1> SUFFICES ASSUME Init  PROVE MarksInv
  OBVIOUS
<1>1. IInv  BY InitIInv
<1>2. ASSUME NEW k \in Live, NEW s \in Sources
      PROVE  /\ Covers(k, s, monitor.mod[s])
             /\ \A t \in ComingChanges(s) : Covers(k, s, t)
  <2>1. k \in Ids  BY DEF Live
  <2>2. containers[k].content[s] \in Nat  BY <1>1, <2>1, TimesOfChanges
  <2>3. monitor.mod[s] = 0 /\ \A t \in ComingChanges(s) : t = 0
    BY DEF Init, ComingChanges, Server
  <2>. QED  BY <2>2, <2>3 DEF Covers
<1>. QED  BY <1>1, <1>2 DEF MarksInv, MarksCoverWhatComes

\* Another container keeps what it has, and a new one has no mark.
LEMMA ReplacedIsCovered ==
  ASSUME IInv, IInv', MarksCoverWhatComes, Elsewhere,
         Replaced \/ containers' = containers
  PROVE  MarksCoverWhatComes'
<1>. USE DEF Elsewhere, ReconcilerRests, ours, past
<1>1. \A s \in Sources : ComingChanges(s)' = ComingChanges(s)
  BY DEF ComingChanges
<1>2. ASSUME NEW k \in Live', NEW s \in Sources, NEW t \in Nat,
             k \in Live => Covers(k, s, t)
      PROVE  Covers(k, s, t)'
  <2>1. k \in Ids /\ Ids \subseteq Nat  BY BoundAssumption DEF Live, Ids
  <2>4. CASE k \in Live /\ containers'[k].content = containers[k].content
    BY <1>2, <2>4 DEF Covers
  <2>5. CASE \A l \in Live : l < k
    <3>1. \A l \in Live : ~(k <= l)
      BY <2>1, <2>5 DEF Live
    <3>2. tracked[k].synced = 0
      BY <2>1, <3>1 DEF IInv, NamesAreNew
    <3>3. containers'[k].content[s] \in Nat
      BY <2>1 DEF IInv, TypeOK, Times
    <3>. QED  BY <3>2, <3>3 DEF Covers
  <2>6. \/ k \in Live /\ containers'[k].content = containers[k].content
        \/ \A l \in Live : l < k
    BY <1>2 DEF Replaced, Live
  <2>. QED  BY <2>4, <2>5, <2>6
<1>3. ASSUME NEW k \in Live', NEW s \in Sources
      PROVE  /\ s \in late \/ Covers(k, s, monitor.mod[s])'
             /\ \A t \in ComingChanges(s) : t <= copied \/ Covers(k, s, t)'
  <2>1. monitor.mod[s] \in Nat /\ ComingChanges(s) \subseteq Nat
    BY TimesOfChanges
  <2>2. k \in Live =>
          /\ s \in late \/ Covers(k, s, monitor.mod[s])
          /\ \A t \in ComingChanges(s) : t <= copied \/ Covers(k, s, t)
    BY DEF MarksCoverWhatComes
  <2>3. s \in late \/ Covers(k, s, monitor.mod[s])'
    <3>1. PICK t \in Nat : t = monitor.mod[s]  BY <2>1
    <3>2. s \in late \/ Covers(k, s, t)'  BY <1>2, <2>2, <3>1
    <3>. QED  BY <3>1, <3>2 DEF Covers
  <2>4. \A t \in ComingChanges(s) : t <= copied \/ Covers(k, s, t)'
    BY <1>2, <2>1, <2>2
  <2>. QED  BY <2>3, <2>4
<1>. QED  BY <1>1, <1>3 DEF MarksCoverWhatComes

\* An edit is later than everything so far, and what is published was recorded.
LEMMA FilesAreCovered ==
  ASSUME IInv, MarksCoverWhatComes, NEW s \in Sources, Edit(s) \/ Publish(s)
  PROVE  MarksCoverWhatComes'
<1>. USE DEF setting, files, engine, images, ours, past
<1>1. UNCHANGED <<containers, tracked, monitor, seen, copied, late>>
  BY DEF Edit, Publish
<1>2. ASSUME NEW r \in Sources, NEW t \in ComingChanges(r)'
      PROVE  t \in ComingChanges(r) \/ t = 0 \/ t = now + 1
  <2>1. CASE Edit(s)
    <3>1. /\ fileEvent' = fileEvent
          /\ recorded' = [recorded EXCEPT ![s] = now + 1]
      BY <2>1 DEF Edit
    <3>2. recorded'[r] = recorded[r] \/ recorded'[r] = now + 1
      BY <3>1 DEF IInv, TypeOK, Times
    <3>. QED  BY <1>1, <1>2, <3>1, <3>2 DEF ComingChanges
  <2>2. CASE Publish(s)
    <3>1. /\ fileEvent' = [fileEvent EXCEPT ![s] = recorded[s]]
          /\ recorded' = [recorded EXCEPT ![s] = 0]
      BY <2>2 DEF Publish
    <3>2. \/ recorded'[r] = 0 /\ fileEvent'[r] = recorded[r]
          \/ recorded'[r] = recorded[r] /\ fileEvent'[r] = fileEvent[r]
      BY <3>1 DEF IInv, TypeOK, Times
    <3>. QED  BY <1>1, <1>2, <3>2 DEF ComingChanges
  <2>. QED  BY <2>1, <2>2
<1>3. Live' = Live  BY <1>1 DEF Live
<1>4. ASSUME NEW k \in Live, NEW r \in Sources
      PROVE  /\ r \in late \/ Covers(k, r, monitor.mod[r])
             /\ \A t \in ComingChanges(r)' : t <= copied \/ Covers(k, r, t)
  <2>1. k \in Ids  BY DEF Live
  <2>2. /\ tracked[k].synced \in Nat /\ tracked[k].synced <= now /\ now \in Nat
        /\ containers[k].content[r] \in Nat
    BY <2>1, TimesOfChanges
  <2>3. Covers(k, r, 0) /\ Covers(k, r, now + 1)  BY <2>2 DEF Covers
  <2>. QED  BY <1>2, <2>3 DEF MarksCoverWhatComes
<1>. QED  BY <1>1, <1>3, <1>4 DEF MarksCoverWhatComes, Covers

\* What the reconciler takes in was on its way, and is late if it was passed over.
LEMMA ReconcileCovers ==
  ASSUME IInv, IInv', MarksCoverWhatComes, NEW v \in Views, Reconcile(v)
  PROVE  MarksCoverWhatComes'
<1>0. TypeOK  BY DEF IInv
<1>1. /\ seen' = v
      /\ \A s \in Sources :
           \/ monitor'.mod[s] = 0
           \/ monitor'.mod[s] = monitor.mod[s] /\ (s \in late => s \in late')
           \/ /\ monitor'.mod[s] = v.file[s] /\ s \in FileChanges(v)
              /\ v.file[s] <= copied => s \in late'
      /\ \A k \in Ids : tracked'[k].synced \in {0, tracked[k].synced}
      /\ UNCHANGED <<now, mode, disk, recorded, fileEvent, containers, copied>>
  BY <1>0, ChangesAreSeen DEF IInv
<1>2. \A s \in Sources : v.file[s] \in {seen.file[s], fileEvent[s]}
  BY <1>0, ViewsAreCopies
<1>3. Live' = Live /\ Live \subseteq Ids  BY <1>1 DEF Live
<1>4. ASSUME NEW k \in Live, NEW s \in Sources
      PROVE  /\ s \in late' \/ Covers(k, s, monitor.mod[s])'
             /\ \A t \in ComingChanges(s)' : t <= copied \/ Covers(k, s, t)'
  <2>1. k \in Ids /\ tracked'[k].synced \in {0, tracked[k].synced}
    BY <1>1, <1>3
  <2>2. /\ tracked[k].synced \in Nat /\ monitor.mod[s] \in Nat
        /\ containers[k].content[s] \in Nat /\ ComingChanges(s) \subseteq Nat
        /\ fileEvent[s] \in Nat
    BY <2>1, TimesOfChanges
  <2>3. /\ s \in late \/ Covers(k, s, monitor.mod[s])
        /\ \A t \in ComingChanges(s) : t <= copied \/ Covers(k, s, t)
    BY DEF MarksCoverWhatComes
  <2>4. \A t \in Nat : Covers(k, s, t) => Covers(k, s, t)'
    BY <1>1, <2>1, <2>2 DEF Covers
  <2>5. Covers(k, s, 0)  BY <2>2 DEF Covers
  <2>6. s \in late' \/ Covers(k, s, monitor.mod[s])'
    <3>1. CASE monitor'.mod[s] = 0
      BY <2>4, <2>5, <3>1 DEF Covers
    <3>2. CASE monitor'.mod[s] = monitor.mod[s] /\ (s \in late => s \in late')
      BY <2>2, <2>3, <2>4, <3>2 DEF Covers
    <3>3. CASE /\ monitor'.mod[s] = v.file[s] /\ s \in FileChanges(v)
               /\ v.file[s] <= copied => s \in late'
      <4>1. v.file[s] = fileEvent[s] /\ fileEvent[s] # seen.file[s]
        BY <1>2, <3>3 DEF FileChanges
      <4>2. fileEvent[s] \in ComingChanges(s)  BY <4>1 DEF ComingChanges
      <4>. QED  BY <2>2, <2>3, <2>4, <3>3, <4>1, <4>2 DEF Covers
    <3>. QED  BY <1>1, <3>1, <3>2, <3>3
  <2>7. \A t \in ComingChanges(s)' : t \in ComingChanges(s)
    BY <1>1, <1>2 DEF ComingChanges
  <2>. QED  BY <2>2, <2>3, <2>4, <2>6, <2>7
<1>. QED  BY <1>1, <1>3, <1>4 DEF MarksCoverWhatComes

LEMMA VisitsCover ==
  ASSUME IInv, MarksCoverWhatComes, Visits
  PROVE  MarksCoverWhatComes'
<1>. USE DEF Visits
<1>1. Live' = Live /\ Live \subseteq Ids  BY DEF Live
<1>2. \A s \in Sources : ComingChanges(s)' = ComingChanges(s)
  BY DEF ComingChanges
<1>. QED  BY <1>1, <1>2 DEF MarksCoverWhatComes, Covers

\* A copy has what is on disk, and its mark is the time of a change that is copied.
LEMMA CopyCovers ==
  ASSUME IInv, MarksCoverWhatComes, Copy
  PROVE  MarksCoverWhatComes'
<1>0. TypeOK /\ TimesAreRead /\ CopyIsMarked  BY DEF IInv
<1>1. PICK k : k = Visited  OBVIOUS
<1>2. /\ k \in Ids /\ k \in run.todo /\ containers[k].state = "running"
      /\ UNCHANGED <<now, mode, disk, recorded, fileEvent, seen, monitor, late>>
      /\ Live' = Live
      /\ \A l \in Ids \ {k} : containers'[l] = containers[l]
      /\ \A l \in Ids \ {k} : tracked'[l] = tracked[l]
      /\ tracked'[k].synced = run.mark
      /\ containers'[k].content =
           [s \in Sources |-> IF s \in run.copying THEN disk[s]
                              ELSE containers[k].content[s]]
  BY <1>0, <1>1, CopyGives
<1>3. /\ copied' \in Nat /\ copied \in Nat /\ copied <= copied'
      /\ \A s \in run.copying : monitor.mod[s] <= copied'
  BY <1>0, CopiedIsATime DEF TypeOK
<1>4. \A s \in Sources : ComingChanges(s)' = ComingChanges(s)
  BY <1>2 DEF ComingChanges
<1>5. run.mark \in Nat /\ run.copying \subseteq Sources  BY <1>0 DEF TypeOK, Runs
<1>6. k \in Live  BY <1>2 DEF Live
<1>7. ASSUME NEW s \in Sources
      PROVE  /\ s \in late \/ Covers(k, s, monitor.mod[s])'
             /\ \A t \in ComingChanges(s) : t <= copied' \/ Covers(k, s, t)'
  <2>0. /\ monitor.mod[s] \in Nat /\ monitor.mod[s] <= disk[s] /\ disk[s] \in Nat
        /\ ComingChanges(s) \subseteq Nat /\ \A t \in ComingChanges(s) : t <= disk[s]
        /\ containers[k].content[s] \in Nat /\ tracked[k].synced \in Nat
    <3>1. /\ seen.file[s] \in Nat /\ fileEvent[s] \in Nat /\ disk[s] \in Nat
          /\ monitor.mod[s] \in Nat /\ monitor.mod[s] <= seen.file[s]
          /\ seen.file[s] <= fileEvent[s] /\ fileEvent[s] <= disk[s]
      BY TimesOfChanges
    <3>2. monitor.mod[s] <= disk[s]  BY <3>1
    <3>. QED  BY <1>2, <3>1, <3>2, TimesOfChanges
  <2>1. CASE s \in run.copying
    <3>1. containers'[k].content[s] = disk[s]  BY <1>2, <2>1
    <3>2. \A t : t <= disk[s] => Covers(k, s, t)'  BY <3>1 DEF Covers
    <3>3. Covers(k, s, monitor.mod[s])'
      BY <1>2, <2>0, <3>1 DEF Covers
    <3>. QED  BY <2>0, <3>2, <3>3
  <2>2. CASE s \notin run.copying
    <3>1. containers'[k].content[s] = containers[k].content[s]
      BY <1>2, <2>2
    <3>2. run.copying = FilesChanged(k)
          /\ \E r \in run.copying : run.mark = monitor.mod[r]
      BY <1>0, <1>1, <2>2 DEF CopyIsMarked, Copy
    <3>3. run.mark <= copied'  BY <1>3, <3>2
    <3>4. \A t \in Nat : t <= copied' \/ Covers(k, s, t)'
      BY <1>2, <1>3, <1>5, <3>3 DEF Covers
    <3>5. monitor.mod[s] <= HighWaterMark(k)
      <4>1. s \in Sources \ FilesChanged(k)  BY <2>2, <3>2
      <4>2. ~IsInitialSync(k)  BY <1>0, <1>2, <4>1, FilesHaveChanged
      <4>. QED  BY <1>0, <1>2, <4>1, <4>2, FilesHaveChanged
    <3>6. s \in late \/ monitor.mod[s] <= containers[k].content[s]
      <4>1. CASE HighWaterMark(k) = tracked[k].synced
        BY <1>6, <3>5, <4>1 DEF MarksCoverWhatComes, Covers
      <4>2. CASE HighWaterMark(k) = StartedTime
        <5>1. monitor.mod[s] = 0 \/ monitor.mod[s] > StartedTime
          BY <1>0 DEF TimesAreRead
        <5>2. monitor.mod[s] = 0
          BY <2>0, <3>5, <4>2, <5>1 DEF StartedTime
        <5>. QED  BY <2>0, <5>2
      <4>. QED  BY <1>0, <1>2, <4>1, <4>2, HighWaterMarkIsLater
    <3>7. s \in late \/ Covers(k, s, monitor.mod[s])'
      BY <1>2, <3>1, <3>6 DEF Covers
    <3>. QED  BY <2>0, <3>4, <3>7
  <2>. QED  BY <2>1, <2>2
<1>8. ASSUME NEW l \in Live, NEW s \in Sources
      PROVE  /\ s \in late \/ Covers(l, s, monitor.mod[s])'
             /\ \A t \in ComingChanges(s) : t <= copied' \/ Covers(l, s, t)'
  <2>1. l \in Ids  BY DEF Live
  <2>2. CASE l = k  BY <1>7, <2>2
  <2>3. CASE l # k
    <3>1. tracked'[l] = tracked[l] /\ containers'[l] = containers[l]
      BY <1>2, <2>1, <2>3
    <3>2. /\ s \in late \/ Covers(l, s, monitor.mod[s])
          /\ \A t \in ComingChanges(s) : t <= copied \/ Covers(l, s, t)
      BY DEF MarksCoverWhatComes
    <3>3. \A t \in ComingChanges(s) : t <= copied => t <= copied'
      <4>1. ComingChanges(s) \subseteq Nat  BY TimesOfChanges
      <4>. QED  BY <1>3, <4>1
    <3>. QED  BY <1>2, <3>1, <3>2, <3>3 DEF Covers
  <2>. QED  BY <2>2, <2>3
<1>. QED  BY <1>2, <1>4, <1>8 DEF MarksCoverWhatComes

LEMMA MarksStep ==
  ASSUME MarksInv, [Next]_vars
  PROVE  MarksInv'
<1>0. IInv /\ MarksCoverWhatComes /\ TypeOK /\ TimesAreRead /\ NamesAreNew
  BY DEF MarksInv, IInv
<1>00. IInv'  BY <1>0, IInvStep
<1>1. ASSUME NEW s \in Sources, Edit(s) \/ Publish(s)
      PROVE  MarksCoverWhatComes'
  BY <1>0, <1>1, FilesAreCovered
<1>2. CASE \/ \E s \in Sources : Tell(s)
           \/ Reduce \/ Trigger \/ WriteTriggerQueue
           \/ Decide \/ StartBuild \/ StartImages \/ ReadFiles \/ FinishImages
  <2>1. Elsewhere /\ containers' = containers  BY <1>0, <1>2, EngineIsElsewhere
  <2>. QED  BY <1>0, <1>00, <2>1, ReplacedIsCovered DEF MarksInv
<1>3. CASE Deploy \/ \E k \in Ids : Come(k) \/ Go(k) \/ Crash(k) \/ Restart(k)
  <2>1. Elsewhere /\ Replaced  BY <1>0, <1>3, ContainersAreReplaced
  <2>. QED  BY <1>0, <1>00, <2>1, ReplacedIsCovered DEF MarksInv
<1>4. CASE LiveUpdateStep
  <2>1. CASE Begin
    <3>1. Visits  BY <1>0, <2>1, BeginMarks
    <3>. QED  BY <1>0, <1>00, <3>1, VisitsCover DEF MarksInv
  <2>2. CASE \/ SkipTerminated \/ Refuse \/ Pass \/ CopyFails
             \/ Complete \/ UpdateStatus
    <3>1. Visits  BY <1>0, <2>2, VisitsAreSuch
    <3>. QED  BY <1>0, <1>00, <3>1, VisitsCover DEF MarksInv
  <2>3. ASSUME NEW v \in Views, Reconcile(v)  PROVE MarksCoverWhatComes'
    BY <1>0, <1>00, <2>3, ReconcileCovers
  <2>. QED  BY <1>0, <1>00, <1>4, <2>1, <2>2, <2>3, CopyCovers
            DEF LiveUpdateStep, MarksInv
<1>5. CASE UNCHANGED vars
  <2>1. Elsewhere /\ containers' = containers
    BY <1>5 DEF vars, setting, files, engine, images, Elsewhere, ReconcilerRests
  <2>. QED  BY <1>0, <1>00, <2>1, ReplacedIsCovered DEF MarksInv
<1>. QED  BY <1>00, <1>1, <1>2, <1>3, <1>4, <1>5 DEF Next, FullBuild, MarksInv

\* A mark passes over a change only if that became known after a later one was
\* copied: whatever is edited during a copy, in which order and how late the
\* reconciler gets it, however containers fail, crash and are replaced, a running
\* container has every other change up to its mark that the reconciler knows of.
THEOREM MarksPassOverLateOnes == Spec => []MarksAreHonest
<1>1. Init => MarksInv  BY InitMarks
<1>2. MarksInv /\ [Next]_vars => MarksInv'  BY MarksStep
<1>3. MarksInv => MarksAreHonest
  <2> SUFFICES ASSUME MarksInv, NEW k \in Ids, NEW s \in Sources \ late,
                      containers[k].state = "running",
                      monitor.mod[s] <= tracked[k].synced
               PROVE  containers[k].content[s] >= monitor.mod[s]
    BY DEF MarksAreHonest
  <2>1. k \in Live  BY DEF Live
  <2>2. Covers(k, s, monitor.mod[s])
    BY <2>1 DEF MarksInv, MarksCoverWhatComes
  <2>3. monitor.mod[s] <= containers[k].content[s]
    BY <2>2 DEF Covers
  <2>4. monitor.mod[s] \in Nat /\ containers[k].content[s] \in Nat
    BY TimesOfChanges DEF MarksInv
  <2>. QED  BY <2>3, <2>4
<1>. QED  BY <1>1, <1>2, <1>3, PTL DEF Spec
=============================================================================
