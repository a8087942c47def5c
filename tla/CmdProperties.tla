---------------------------- MODULE CmdProperties ----------------------------
(***************************************************************************)
(* What the controller of commands promises.                               *)
(***************************************************************************)
EXTENDS Cmd

AnyStatus == [state : {"none", "waiting", "waitingOnStart", "running",
                       "terminated"},
              run : Nat, ready : BOOLEAN,
              disabled : {"unknown", "pending", "enabled", "disabled"}]

Object == [exists : BOOLEAN, spec : Specs, status : AnyStatus]

AnySpec == Specs \cup {NoSpec}

AnyProc == [spec : AnySpec, cancelable : BOOLEAN, start : Nat, restart : Nat,
            status : AnyStatus]

AnyRun == [id : Nat, canceled : BOOLEAN, worker : BOOLEAN,
           phase : {"none", "starting", "running", "killing", "exiting",
                    "closed"},
           last : {"unknown", "ok", "bad"}, passed : BOOLEAN]

AnyRequest == [fw : AnyStatus, spec : AnySpec, fresh : BOOLEAN,
               start : Nat, restart : Nat,
               then : {"delete", "reset", "wait", "run", "nothing"}]

AnyForce == [step : {"idle", "locking", "stopping", "waiting", "reading"},
             spec : AnySpec, run : Nat, canceled : BOOLEAN,
             result : AnyStatus]

\* The types of the state.  An entry that can be canceled is that of the last
\* run.
TypeOK ==
  /\ kind \in Kinds /\ probe \in Probes
  /\ object \in Object /\ cached \in Object
  /\ disabled \in {"pending", "enabled", "disabled"}
  /\ stale \in BOOLEAN /\ queued \in BOOLEAN
  /\ step \in {"idle", "stop", "report"}
  /\ req \in AnyRequest
  /\ proc \in AnyProc
  /\ run \in AnyRun
  /\ alive \subseteq Nat /\ killed \subseteq Nat
  /\ report \in {"none", "ok", "bad"}
  /\ force \in AnyForce
  /\ proc.cancelable => proc.status.run = run.id
  /\ used \in [Events -> Nat]

\* "at most one process per Manifest" (controller.go:561): whoever starts a
\* process, Reconcile or a build, every process of an earlier run has ended or
\* has been killed.
OneProcess == \A r \in alive : r = run.id \/ r \in killed

\* The events that a run may be caused by.
Causes ==
  CASE kind = "local" -> used["force"]
    [] kind = "startOn" -> IF used["start"] = 0 THEN 0
                           ELSE used["start"] + used["restart"]
                                + used["toggle"]
    [] OTHER -> 1 + used["update"] + used["restart"] + used["toggle"]

\* A process runs once for each click, change of the spec or enabling, however
\* often the object is reconciled; one that waits for its button never runs
\* before the first click (TestStartOnDoesntRunOnCreation).
RunsHaveCauses == run.id <= Causes

\* A build whose ForceRun returns a status gets that of the end of its own run,
\* unless the object was deleted: Reconcile may stop and disable the process in
\* between, but not replace the status by that of another run.
ForcedResultIsOwn ==
  force.step = "idle" /\ force.result # NoStatus /\ object.exists =>
    force.result.state = "terminated" /\ force.result.run = force.run

-----------------------------------------------------------------------------
(* Why OneProcess and ForcedResultIsOwn hold *)

\* When a run has not started or has ended nothing is left that was not killed;
\* only an entry whose run has ended cannot be canceled, and a process is stopped
\* to do something then.
NothingIsLeft ==
  /\ run.phase \in {"none", "starting", "exiting", "closed"} => alive \subseteq killed
  /\ ~proc.cancelable => run.phase \in {"none", "closed"}
  /\ step = "stop" => req.then # "nothing"

\* Reconcile neither starts nor forgets the runs of a local resource that is
\* not deleted: from ForceStart to ForceRead the last run is that of the build.
BuildOwnsRun ==
  /\ kind # "local" => force.step = "idle"
  /\ kind = "local" => probe = "none"
  /\ kind = "local" /\ object.exists =>
       /\ cached.exists /\ req.then \in {"nothing", "reset"}
       /\ proc.status.run = run.id
       /\ run.phase \in {"exiting", "closed"} =>
            proc.status.state = "terminated"
       /\ force.step \in {"waiting", "reading"} => force.run = run.id
       /\ force.step = "reading" => run.phase = "closed"

\* Together they are inductive.
IInv == /\ TypeOK /\ OneProcess /\ ForcedResultIsOwn
        /\ NothingIsLeft /\ BuildOwnsRun

\* Why RunsHaveCauses holds: Reconcile may be about to start a process, and it is
\* due to do so once more if what it has acted upon, or is about to, is not what
\* it reads then.
AboutToRun == step = "stop" /\ req.then = "run"

ActedUpon ==
  IF AboutToRun THEN [spec |-> req.spec, start |-> req.start,
                      restart |-> req.restart]
  ELSE IF step = "stop" /\ req.then \in {"delete", "reset"}
  THEN [spec |-> NoSpec, start |-> 0, restart |-> 0]
  ELSE [spec |-> proc.spec, start |-> proc.start, restart |-> proc.restart]

RunIsDue ==
  /\ cached.exists /\ disabled # "disabled"
  /\ \/ used["restart"] > ActedUpon.restart
     \/ kind = "startOn" /\ used["start"] > ActedUpon.start
     \/ kind = "plain" /\ cached.spec # ActedUpon.spec

One(b) == IF b THEN 1 ELSE 0

\* Each of these runs has a cause of its own, and so has the run for a spec that
\* the client has not seen; before the first click there is nothing that a
\* restart could run again, and a build starts one process.
CausesInv ==
  /\ object.exists => cached.exists
  /\ kind = "plain" =>
       run.id + One(AboutToRun) + One(RunIsDue) + One(object.spec # cached.spec)
         <= Causes
  /\ kind = "startOn" /\ used["start"] # 0 =>
       run.id + One(AboutToRun) + One(RunIsDue) <= Causes
  /\ kind = "startOn" /\ used["start"] = 0 =>
       run.id = 0 /\ ~AboutToRun /\ proc.spec = NoSpec
  /\ kind = "local" =>
       /\ ~AboutToRun
       /\ run.id + One(force.step \in {"locking", "stopping"}) <= Causes

-----------------------------------------------------------------------------
\* The mutex is not held for ever by somebody who waits for a process to stop.
StopReturns == []<>Unlocked

\* A command that is and stays disabled or deleted has no process in the end,
\* also if a build that was decided on before starts one afterwards.
DisabledStops ==
  <>[](\/ object.exists /\ disabled # "disabled"
       \/ alive = {})

\* In the end the object has the status of the process, which is that of the
\* last run.
StatusSettles ==
  <>[](object.exists =>
        /\ object.status = proc.status
        /\ run.phase = "running" => proc.status.state = "running"
        /\ proc.status.state = "running" => run.id \in alive)

\* So what is asked of a command and what is shown of it become true.
CommandSettles == StopReturns /\ DisabledStops /\ StatusSettles

\* No click is lost: in the end the last ones have been acted upon, and what
\* runs or has run is what the spec says, unless it waits for a click.
ClicksAreServed ==
  <>[](kind # "local" /\ object.exists /\ disabled # "disabled" =>
        \/ proc.spec = object.spec /\ proc.restart = used["restart"]
           /\ (kind = "startOn" => proc.start = used["start"])
        \/ /\ kind = "startOn" /\ proc.status.state = "waitingOnStart"
           /\ proc.start = used["start"])
=============================================================================
