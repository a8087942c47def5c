------------------------- MODULE LocalServeProperties -------------------------
(***************************************************************************)
(* What the parts of a local server promise together.                      *)
(***************************************************************************)
EXTENDS LocalServe

Statuses == {"none", "waiting", "running", "terminated"}

Resource == [present : BOOLEAN, version : Nat, building : BOOLEAN]

Action == [type : {"create", "update", "delete"}, cmd : Ids, status : Statuses]

Server == [step : {"idle", "reconcile", "delete", "deleted", "create",
                   "created"},
           version : Nat, building : BOOLEAN, owned : SUBSET Ids,
           terminated : BOOLEAN, todo : SUBSET Ids, create : BOOLEAN]

Objects == [Ids -> [exists : BOOLEAN, version : Nat, status : Statuses]]

Busy == [step : {"idle", "stop", "report", "dispatch"}, cmd : Ids \cup {0}]

Procs == [Ids -> [status : Statuses,
                  phase : {"none", "starting", "running", "canceled",
                           "closed"}]]

\* The types of the state.  The engine knows only objects that were created.
TypeOK ==
  /\ manifest \in Resource /\ disabled \in BOOLEAN /\ dirty \in BOOLEAN
  /\ DOMAIN cmds \subseteq 1..count /\ \A c \in DOMAIN cmds : cmds[c] \in Statuses
  /\ cmdName \in 0..count /\ runtime \in Statuses \cup {"unknown"}
  /\ actions \in Seq(Action)
  /\ server \in Server
  /\ count \in Ids \cup {0} /\ recent \in 0..count /\ created \in Nat
  /\ api \in Objects
  /\ queue \in Seq(Ids) /\ busy \in Busy
  /\ procs \in Procs /\ alive \subseteq Ids /\ killed \subseteq Ids
  /\ events \in 0..MaxEvents

\* "We ensure that the old Cmd is terminated before we replace it with a new
\* one, because they likely use the same port." (servercontroller.go:36): no
\* two processes of a server are there at once that have not been killed.  The
\* reducer forgets a deleted Cmd before its process has ended; it is the order
\* of the work queue that keeps the new one waiting.
ServersDoNotOverlap == \A c, d \in alive \ killed : c = d

\* At most one object is there for the server: also when status updates,
\* creations and deletions are reduced late, none is created twice.
OneCmd == \A c, d \in Ids : api[c].exists /\ api[d].exists => c = d

-----------------------------------------------------------------------------
(* Why OneCmd holds *)

Existing == {c \in Ids : api[c].exists}

\* Nobody speaks of an object before it is created.
NamesAreOld ==
  /\ \A i \in DOMAIN actions :
       actions[i].type # "update" => actions[i].cmd \in 1..count
  /\ server.step = "created" => count \in Ids
  /\ server.owned \subseteq 1..count /\ server.todo \subseteq 1..count
  /\ Existing \subseteq 1..count
  /\ busy.step # "idle" => busy.cmd \in Ids

\* The engine knows what exists, except the object that was created last, and
\* forgets only what does not exist.
EngineKnows ==
  /\ manifest.present => Existing \subseteq {recent} \cup DOMAIN cmds
  /\ \A i \in DOMAIN actions :
       actions[i].type = "delete" => ~api[actions[i].cmd].exists

\* What OnChange has read still covers what exists, and it is all deleted
\* before the next object is created.
SnapshotCovers ==
  /\ server.step = "reconcile" =>
       /\ ~server.create
       /\ Existing \subseteq server.owned \cup {recent}
       /\ manifest.present => server.owned \cap Existing \subseteq DOMAIN cmds
  /\ server.step \in {"delete", "deleted"} /\ server.create =>
       Existing \subseteq server.todo
  /\ server.step = "create" => Existing = {}

\* Together they are inductive.
IInv == TypeOK /\ OneCmd /\ NamesAreOld /\ EngineKnows /\ SnapshotCovers

\* Why ServersDoNotOverlap holds: only a process that is in use and none other is
\* there without having been killed, only one is in use, and ...
InUse == {c \in Ids : procs[c].phase \in {"starting", "running", "canceled"}}

OneInUse ==
  /\ alive \ killed \subseteq InUse
  /\ \A c, d \in InUse : c = d

\* ... that of an object that is gone is being stopped, or will be stopped before
\* the work queue comes to an object that is there.
Stopping(c) == busy.step = "stop" /\ busy.cmd = c

StopsFirst ==
  \A c \in InUse :
    /\ \/ api[c].exists \/ Stopping(c)
       \/ \E i \in DOMAIN queue : queue[i] = c
    /\ \A j \in DOMAIN queue :
         api[queue[j]].exists /\ queue[j] # c =>
           \/ Stopping(c)
           \/ \E i \in DOMAIN queue : i < j /\ queue[i] = c

\* The Cmd controller knows only objects that were created, so that a new one
\* goes to the end of the queue.
QueueIsOld ==
  /\ \A i \in DOMAIN queue : queue[i] \in 1..count
  /\ InUse \subseteq 1..count
  /\ busy.step # "idle" => busy.cmd \in 1..count

QueueInv == OneInUse /\ StopsFirst /\ QueueIsOld

-----------------------------------------------------------------------------
Wanted == manifest.present /\ ~disabled

\* In the end the server that is wanted is the one that runs, or has ended by
\* itself: the controller never waits for ever for the object it created, and
\* never misses a change.
ServerIsCurrent ==
  <>[](Wanted => \E c \in Ids : /\ api[c].exists
                                /\ api[c].version = manifest.version
                                /\ procs[c].status \in {"running", "terminated"})

\* A server that is disabled is stopped.
DisabledServerStops == <>[](manifest.present /\ disabled => alive = {})

\* So the server follows the resource.
ServerFollows == ServerIsCurrent /\ DisabledServerStops
=============================================================================
