------------------------- MODULE LiveUpdateProperties -------------------------
(***************************************************************************)
(* What live updates and full builds promise together.                     *)
(***************************************************************************)
EXTENDS LiveUpdate

Times == [Sources -> Nat]

ContainerStates == {"none", "waiting", "running", "crashing", "terminated"}

Reasons == {"none", "UpdateStopped", "UpdateFailed", "CrashLoopBackOff"}

Actions == [type : {"edit"}, source : Sources, time : Nat]
           \cup [type : {"start"}, source : Builders, start : Nat,
                 edits : SUBSET Sources]
           \cup [type : {"complete"}, source : Builders, ok : BOOLEAN]
           \cup [type : {"upsert"}, failed : BOOLEAN]

Runs == [step : {"idle", "visit", "copy", "update"}, todo : SUBSET Ids,
         waits : BOOLEAN, dispatched : BOOLEAN, copying : SUBSET Sources,
         mark : Nat, low : Nat, failed : Reasons,
         synced : Seq([id : Ids, time : Nat, waiting : BOOLEAN])]

Statuses == [failed : Reasons, synced : Seq([id : Ids, time : Nat, waiting : BOOLEAN])]

Copies == [file : Times, image : Times, applied : Nat,
           states : [Ids -> ContainerStates], deployed : Nat, trigger : BOOLEAN,
           status : Statuses]

\* The types of the state.  A container has a low water mark exactly when it
\* has failed (monitor.go), and failed only after it was visited.
TypeOK ==
  /\ now \in Nat /\ mode \subseteq {"manual", "initial"}
  /\ disk \in Times /\ recorded \in Times /\ fileEvent \in Times
  /\ telling \subseteq Sources
  /\ actions \in Seq(Actions)
  /\ changed \in Times /\ consumed \in Nat
  /\ current \in [Builders -> [start : Nat, edits : SUBSET Sources]]
  /\ {failing, triggered, lastOk, triggerMap, unwritten} \subseteq BOOLEAN
  /\ imageTime \in Times /\ applied \in Nat /\ baked \in Times
  /\ build \in [phase : {"none", "decided", "started", "images", "read", "built"},
                start : Nat, edits : SUBSET Sources, rebuilt : SUBSET Sources,
                image : Nat]
  /\ containers \in [Ids -> [state : ContainerStates, content : Times,
                             image : Times, restarted : BOOLEAN]]
  /\ run \in Runs
  /\ tracked \in [Ids -> [known : BOOLEAN, synced : Nat, low : Nat,
                          failed : Reasons]]
  /\ \A k \in Ids : /\ (tracked[k].failed # "none") = (tracked[k].low # 0)
                    /\ tracked[k].failed # "none" => tracked[k].known
  /\ status \in Statuses
  /\ seen \in Copies
  /\ monitor \in [known : BOOLEAN, changes : BOOLEAN, image : Times, mod : Times]
  /\ copied \in Nat /\ late \subseteq Sources

\* A container has every change up to its mark that the reconciler knows of
\* (reconciler.go, maybeSync), unless the change was late: it became known only
\* after a later change was copied.  A change up to the mark is never copied, so
\* that the late ones, of which EditsArrive tells, have to be the only ones that a
\* container can miss.
MarksAreHonest ==
  \A k \in Ids : \A s \in Sources \ late :
    containers[k].state = "running" /\ monitor.mod[s] <= tracked[k].synced =>
      containers[k].content[s] >= monitor.mod[s]

-----------------------------------------------------------------------------
(* Why MarksAreHonest holds *)

\* A copy is that of the files that have changed, and its mark is the time of one
\* of these changes, unless it is of all files.
CopyIsMarked ==
  run.step = "copy" =>
    /\ run.todo # {} /\ run.low # 0 /\ run.mark <= now
    /\ run.copying = FilesChanged(Visited)
    /\ \/ run.copying = Sources
       \/ \E r \in run.copying : run.mark = monitor.mod[r]

\* A change is recorded, then published, then seen, and each time has been read
\* from the clock after the reconciler was made.
TimesAreRead ==
  /\ now >= DeployTime
  /\ \A s \in Sources :
       /\ disk[s] <= now
       /\ recorded[s] \in {0, disk[s]}
       /\ fileEvent[s] <= disk[s]
       /\ seen.file[s] <= fileEvent[s]
       /\ monitor.mod[s] <= seen.file[s]
       /\ \A t \in {disk[s], fileEvent[s], seen.file[s], monitor.mod[s]} :
            t = 0 \/ t > StartedTime
  /\ \A k \in Ids : tracked[k].synced <= now

\* Containers that are gone have older names than one that is there, so that a new
\* one has no mark.
NamesAreNew ==
  /\ Live # {}
  /\ \A k \in Ids : tracked[k].synced # 0 \/ k \in run.todo
                 \/ seen.states[k] # "none"
       => \E l \in Live : k <= l

\* The changes of s that the reconciler will know of.
ComingChanges(s) == {recorded[s]} \cup {t \in {fileEvent[s]} : t # seen.file[s]}

\* A container has a change at t if its mark passes over it.
Covers(k, s, t) == t <= tracked[k].synced => t <= containers[k].content[s]

\* The marks are honest whatever a container's state, and also about changes that
\* are on their way, but those that will be late.
MarksCoverWhatComes ==
  \A k \in Live : \A s \in Sources :
    /\ s \in late \/ Covers(k, s, monitor.mod[s])
    /\ \A t \in ComingChanges(s) : t <= copied \/ Covers(k, s, t)

\* Together they are inductive.
IInv == TypeOK /\ CopyIsMarked /\ TimesAreRead /\ NamesAreNew

MarksInv == IInv /\ MarksCoverWhatComes

-----------------------------------------------------------------------------
HasEdit(s) == /\ containers[Newest].state = "running"
              /\ containers[Newest].content[s] = disk[s]

\* In the automatic mode what is edited gets into the container, by a live
\* update or by the image of the full build that takes over from it
\* (reconciler.go: "Bail, and fall back to full build."; build_control.go: "Hold
\* back live update targets that are being successfully handled by a reconciler.").
EditsArrive == <>[](Manual \/ \A s \in Sources : HasEdit(s))

\* The reconciler has given up, when the engine took the change for built.
GivenUp(s) == failing /\ s \notin Pending

\* These are all the ways in which an edit does not arrive: its change is late; a
\* live update that failed had consumed it; or the failure is not written, because
\* the reconciler got an old status.
NoOtherEditIsLost ==
  <>[](Manual \/ \A s \in Sources : HasEdit(s) \/ s \in late \/ GivenUp(s) \/ unwritten)
=============================================================================
