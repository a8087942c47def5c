--------------------------------- MODULE Cmd ---------------------------------
(***************************************************************************)
(* The controller of one Cmd object (internal/controllers/core/cmd), the   *)
(* goroutines that run its process and its readiness probe, and ForceRun,  *)
(* with which the build of a local resource runs it.                       *)
(*                                                                         *)
(* The runs of the process are numbered.  Reconcile and the parts of       *)
(* ForceRun hold the mutex of the controller, also while they wait for a   *)
(* process to stop; the status of a process has a mutex of its own.  Times *)
(* of clicks are numbers of clicks.  The client reads a copy of the object *)
(* that may lag behind, and an update based on an older object is refused. *)
(***************************************************************************)
EXTENDS Integers, FiniteSets, SequencesExt

CONSTANTS Specs, NoSpec,      \* what to run; the empty spec
          Kinds, Probes,      \* of the object, of its readiness probe
          Bound               \* how many events there may be

Events == {"toggle", "update", "start", "restart", "probe", "force"}

ASSUME CmdAssumption ==
  /\ NoSpec \notin Specs /\ Specs # {}
  \* a local resource; waits for a button; neither
  /\ Kinds \subseteq {"local", "startOn", "plain"}
  /\ Probes \subseteq {"none", "valid", "invalid"}
  /\ Bound \in [Kinds -> Nat]

VARIABLES
  kind, probe,            \* of the object; they do not change
  object, cached, stale,  \* on the API server, in the client, do they differ
  disabled,               \* the config map
  queued, step, req,      \* Reconcile
  proc,                   \* the entry of procs
  run,                    \* the goroutine of the last run
  alive, killed,          \* operating system: processes, those sent a SIGKILL
  report,                 \* what the readiness probe is about to report
  force,                  \* ForceRun
  used                    \* how often each event has happened

api  == <<kind, probe, object, cached, stale, disabled>>
os   == <<alive, killed>>
vars == <<api, queued, step, req, proc, run, os, report, force, used>>

NoStatus == [state |-> "none", run |-> 0, ready |-> FALSE,
             disabled |-> "unknown"]

NoProc == [spec |-> NoSpec, cancelable |-> FALSE, start |-> 0, restart |-> 0,
           status |-> NoStatus]

NoRun == [id |-> 0, phase |-> "none", canceled |-> FALSE, worker |-> FALSE,
          last |-> "unknown", passed |-> FALSE]

NoForce == [step |-> "idle", spec |-> NoSpec, run |-> 0, canceled |-> FALSE,
            result |-> NoStatus]

NoRequest == [fw |-> NoStatus, spec |-> NoSpec, fresh |-> FALSE,
              start |-> 0, restart |-> 0, then |-> "nothing"]

Init ==
  /\ kind \in Kinds /\ probe \in Probes
  /\ kind = "local" => probe = "none"
  /\ object = [exists |-> TRUE, spec |-> CHOOSE s \in Specs : TRUE,
               status |-> NoStatus]
  /\ cached = object /\ stale = FALSE
  /\ disabled = "pending"
  /\ queued = TRUE /\ step = "idle" /\ req = NoRequest
  /\ proc = NoProc /\ run = NoRun /\ alive = {} /\ killed = {}
  /\ report = "none" /\ force = NoForce
  /\ used = [e \in Events |-> 0]

\* One event more.
Happens(e) ==
  /\ FoldFunctionOnSet(+, 0, used, Events) < Bound[kind]
  /\ used' = [used EXCEPT ![e] = @ + 1]

\* The mutex of the controller is free.
Unlocked == step = "idle" /\ force.step # "stopping"

-----------------------------------------------------------------------------
(* Starting and stopping *)

\* stop cancels the context of the run, and with it of the probe ...
Canceled(r) == [r EXCEPT !.canceled = TRUE, !.worker = FALSE]

\* Mutant: stop does not wait for the process.
MutStopped == TRUE

\* ... and waits until doneCh is closed.
Stopped == ~proc.cancelable \/ run.phase = "closed"

\* Mutant: the click that caused the run is not remembered.
MutLaunched(spec, start, restart) ==
  [proc EXCEPT !.spec = spec, !.cancelable = TRUE, !.restart = restart,
     !.status.state = IF probe = "invalid" THEN "terminated" ELSE "waiting",
     !.status.ready = FALSE, !.status.run = run.id + 1]

\* runInternal, after stop.  A readiness probe that is not valid ends the run
\* before it has started.
Launched(spec, start, restart) ==
  [proc EXCEPT !.spec = spec, !.cancelable = TRUE,
     !.start = start, !.restart = restart,
     !.status.state = IF probe = "invalid" THEN "terminated" ELSE "waiting",
     !.status.ready = FALSE, !.status.run = run.id + 1]

\* Mutant: a run is taken for the one before it.
MutNextRun(canceled) ==
  [NoRun EXCEPT !.id = run.id, !.canceled = canceled,
     !.phase = IF probe = "invalid" THEN "closed" ELSE "starting"]

NextRun(canceled) ==
  [NoRun EXCEPT !.id = run.id + 1, !.canceled = canceled,
     !.phase = IF probe = "invalid" THEN "closed" ELSE "starting"]

-----------------------------------------------------------------------------
(* Reconcile *)

StartTriggered == kind = "startOn" /\ used["start"] > proc.start

Triggered == StartTriggered \/ used["restart"] > proc.restart

\* What is to be done about the process: stop it and then do something, or
\* nothing.
Decision(spec) ==
  CASE ~cached.exists -> "delete"
    [] cached.exists /\ disabled = "disabled" -> "reset"
    [] cached.exists /\ disabled # "disabled" /\ kind = "local" -> "nothing"
    [] OTHER ->
         IF spec # proc.spec /\ kind = "startOn" /\ ~StartTriggered THEN "wait"
         ELSE IF spec # proc.spec \/ Triggered THEN "run" ELSE "nothing"

Fetch ==
  /\ queued /\ Unlocked
  /\ queued' = FALSE
  /\ LET then == Decision(cached.spec) IN
     /\ req' = [fw |-> cached.status, spec |-> cached.spec, fresh |-> ~stale,
                start |-> IF kind = "startOn" THEN used["start"] ELSE 0,
                restart |-> used["restart"], then |-> then]
     /\ step' = IF then = "nothing" THEN "report" ELSE "stop"
     /\ proc' = IF cached.exists
                THEN [proc EXCEPT !.status.disabled = disabled] ELSE proc
     /\ run' = IF then # "nothing" /\ proc.cancelable THEN Canceled(run)
               ELSE run
  /\ UNCHANGED <<api, os, report, force, used>>

\* What happens to the entry when the process has stopped.
Settled ==
  CASE req.then = "delete" -> NoProc
    [] req.then = "reset" ->
         [proc EXCEPT !.cancelable = FALSE, !.spec = NoSpec,
                      !.start = 0, !.restart = 0]
    [] req.then = "wait" ->
         [proc EXCEPT !.cancelable = FALSE, !.status.state = "waitingOnStart",
                      !.status.ready = FALSE]
    [] OTHER -> Launched(req.spec, req.start, req.restart)

AfterStop ==
  /\ step = "stop" /\ Stopped
  /\ proc' = Settled
  /\ run' = IF req.then = "run" THEN NextRun(FALSE) ELSE run
  /\ report' = IF req.then = "delete" THEN "none" ELSE report
  /\ step' = IF req.then = "delete" THEN "idle" ELSE "report"
  /\ UNCHANGED <<api, queued, req, os, force, used>>

\* maybeUpdateObjectStatus; a refused update is tried again.
Report ==
  /\ step = "report" /\ step' = "idle"
  /\ req' = NoRequest
  /\ IF proc.status = req.fw THEN UNCHANGED <<object, stale, queued>>
     ELSE IF req.fresh /\ object.exists
     THEN /\ object' = [object EXCEPT !.status = proc.status] /\ stale' = TRUE
          /\ UNCHANGED queued
     ELSE queued' = TRUE /\ UNCHANGED <<object, stale>>
  /\ UNCHANGED <<kind, probe, cached, disabled, proc, run, os, report, force,
                 used>>

-----------------------------------------------------------------------------
(* The goroutines of a run: processRun and processStatuses *)

Ended(state) == [proc EXCEPT !.status.state = state]

\* The process is started, or it fails.
StartProcess ==
  /\ run.phase = "starting"
  /\ \/ /\ proc' = Ended("terminated")
        /\ run' = [run EXCEPT !.phase = "exiting"]
        /\ UNCHANGED alive
     \/ /\ proc' = [proc EXCEPT !.status.state = "running",
                                !.status.ready = @ \/ probe = "none"]
        /\ run' = [run EXCEPT !.phase = "running",
                              !.worker = probe = "valid" /\ ~run.canceled]
        /\ alive' = alive \cup {run.id}
  /\ queued' = TRUE
  /\ UNCHANGED <<api, step, req, killed, report, force, used>>

\* It has exited by itself.
ProcessExits ==
  /\ run.phase = "running" /\ run.id \notin alive
  /\ proc' = Ended("terminated")
  /\ run' = [run EXCEPT !.phase = "exiting"]
  /\ queued' = TRUE
  /\ UNCHANGED <<api, step, req, os, report, force, used>>

\* The context is canceled: the process is asked to terminate ...
BeginKill ==
  /\ run.phase = "running" /\ run.canceled
  /\ run' = [run EXCEPT !.phase = "killing"]
  /\ UNCHANGED <<api, queued, step, req, proc, os, report, force, used>>

\* Mutant: it is given all the time it wants.
MutEndKill ==
  /\ run.phase = "killing"
  /\ run.id \notin alive /\ UNCHANGED killed
  /\ proc' = Ended("terminated")
  /\ run' = [run EXCEPT !.phase = "exiting"]
  /\ queued' = TRUE
  /\ UNCHANGED <<api, step, req, alive, report, force, used>>

\* ... and killed, without waiting for its end, when that cannot be done or
\* takes too long.
EndKill ==
  /\ run.phase = "killing"
  /\ \/ run.id \notin alive /\ UNCHANGED killed
     \/ killed' = killed \cup {run.id}
  /\ proc' = Ended("terminated")
  /\ run' = [run EXCEPT !.phase = "exiting"]
  /\ queued' = TRUE
  /\ UNCHANGED <<api, step, req, alive, report, force, used>>

Close ==
  /\ run.phase = "exiting"
  /\ run' = [run EXCEPT !.phase = "closed"]
  /\ UNCHANGED <<api, queued, step, req, proc, os, report, force, used>>

\* The probe has another result than before; its context is not canceled ...
Probe ==
  /\ run.worker /\ report = "none" /\ Happens("probe")
  /\ \E result \in {"ok", "bad"} \ {run.last} :
       /\ report' = result
       /\ run' = [run EXCEPT !.last = result,
                             !.passed = @ \/ result = "ok"]
  /\ UNCHANGED <<api, queued, step, req, proc, os, force>>

\* ... and later that is written to the status.
ApplyReport ==
  /\ report # "none"
  /\ proc' = [proc EXCEPT !.status.ready = report = "ok"]
  /\ queued' = (queued \/ proc.status.ready # (report = "ok"))
  /\ report' = "none"
  /\ UNCHANGED <<api, step, req, run, os, force, used>>

-----------------------------------------------------------------------------
(* ForceRun, by one build after the other *)

ForceGet ==
  /\ kind = "local" /\ force.step = "idle" /\ cached.exists /\ Happens("force")
  /\ force' = [NoForce EXCEPT !.step = "locking", !.spec = cached.spec]
  /\ UNCHANGED <<api, queued, step, req, proc, run, os, report>>

ForceLock ==
  /\ force.step = "locking" /\ Unlocked
  /\ force' = [force EXCEPT !.step = "stopping"]
  /\ run' = IF proc.cancelable THEN Canceled(run) ELSE run
  /\ UNCHANGED <<api, queued, step, req, proc, os, report, used>>

ForceStart ==
  /\ force.step = "stopping" /\ Stopped
  /\ proc' = Launched(force.spec, 0, 0)
  /\ run' = NextRun(force.canceled)
  /\ force' = [force EXCEPT !.step = "waiting", !.run = run.id + 1]
  /\ UNCHANGED <<api, queued, step, req, os, report, used>>

\* The build is canceled, and with it the context of the run.
ForceCancel ==
  /\ force.step \in {"locking", "stopping", "waiting"} /\ ~force.canceled
  /\ force' = [force EXCEPT !.canceled = TRUE]
  /\ run' = IF force.step = "waiting" /\ run.id = force.run
            THEN Canceled(run) ELSE run
  /\ UNCHANGED <<api, queued, step, req, proc, os, report, used>>

\* Mutant: it does not wait for the end of the run.
MutForceWait ==
  /\ force.step = "waiting"
  /\ force' = [force EXCEPT !.step = "reading"]
  /\ UNCHANGED <<api, queued, step, req, proc, run, os, report, used>>

\* It waits for the end of the run, or returns an error.
ForceWait ==
  /\ force.step = "waiting"
  /\ \/ /\ run.id # force.run \/ run.phase = "closed"
        /\ force' = [force EXCEPT !.step = "reading"]
     \/ force.canceled /\ force' = NoForce
  /\ UNCHANGED <<api, queued, step, req, proc, run, os, report, used>>

ForceRead ==
  /\ force.step = "reading" /\ Unlocked
  /\ force' = [force EXCEPT !.step = "idle", !.result = proc.status]
  /\ UNCHANGED <<api, queued, step, req, proc, run, os, report, used>>

-----------------------------------------------------------------------------
(* The world *)

CatchUp ==
  /\ stale /\ stale' = FALSE /\ cached' = object /\ queued' = TRUE
  /\ UNCHANGED <<kind, probe, object, disabled, step, req, proc, run, os,
                 report, force, used>>

\* A process ends: by itself, because it is asked to, or killed.
Die(r) ==
  /\ r \in alive
  /\ alive' = alive \ {r}
  /\ UNCHANGED <<api, queued, step, req, proc, run, killed, report, force,
                 used>>

Write(new) ==
  /\ object' = new /\ stale' = TRUE
  /\ req' = [req EXCEPT !.fresh = FALSE]
  /\ UNCHANGED <<kind, probe, cached, disabled, queued, step, proc, run, os,
                 report, force>>

UpdateSpec ==
  /\ object.exists /\ Happens("update")
  /\ \E s \in Specs \ {object.spec} : Write([object EXCEPT !.spec = s])

DeleteObject ==
  /\ object.exists /\ Happens("update")
  /\ Write([object EXCEPT !.exists = FALSE])

\* Mutant: nobody is told that a button was clicked.
MutClick(e) ==
  /\ kind # "local" /\ (e = "start" => kind = "startOn")
  /\ Happens(e)
  /\ UNCHANGED <<api, queued, step, req, proc, run, os, report, force>>

\* A click of a start or restart button, or a change of a watched file, which
\* is another cause for a restart; the index maps it to the object.
Click(e) ==
  /\ kind # "local" /\ (e = "start" => kind = "startOn")
  /\ Happens(e)
  /\ queued' = TRUE
  /\ UNCHANGED <<api, step, req, proc, run, os, report, force>>

Toggle ==
  /\ IF disabled = "pending" THEN UNCHANGED used ELSE Happens("toggle")
  /\ disabled' \in {"enabled", "disabled"} \ {disabled}
  /\ queued' = TRUE
  /\ UNCHANGED <<kind, probe, object, cached, stale, step, req, proc, run, os,
                 report, force>>

Reconcile == Fetch \/ AfterStop \/ Report

Goroutines == \/ StartProcess \/ ProcessExits \/ BeginKill \/ EndKill \/ Close

ForceRun == \/ ForceLock \/ ForceStart \/ ForceWait \/ ForceRead

World == \/ UpdateSpec \/ DeleteObject \/ Toggle \/ ForceGet \/ ForceCancel
         \/ \E e \in {"start", "restart"} : Click(e)
         \/ \E r \in alive : Die(r)

Next == \/ Reconcile \/ Goroutines \/ ForceRun \/ Probe \/ ApplyReport
        \/ CatchUp \/ World

Spec == Init /\ [][Next]_vars

\* Work queues are worked off, caches catch up, goroutines run, processes that
\* were killed die.  No process has to end by itself.
Fairness ==
  /\ WF_vars(Fetch) /\ WF_vars(AfterStop) /\ WF_vars(Report)
  /\ WF_vars(StartProcess) /\ WF_vars(ProcessExits) /\ WF_vars(BeginKill)
  /\ WF_vars(EndKill) /\ WF_vars(Close)
  /\ SF_vars(ForceLock) /\ WF_vars(ForceStart) /\ WF_vars(ForceWait)
  /\ SF_vars(ForceRead)
  /\ WF_vars(ApplyReport) /\ WF_vars(CatchUp)
  /\ WF_vars(\E r \in killed : Die(r))

FairSpec == Spec /\ Fairness
=============================================================================
