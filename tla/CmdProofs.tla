------------------------------- MODULE CmdProofs -------------------------------
(***************************************************************************)
(* Proofs about the runs of one command, however often it is reconciled,   *)
(* built, clicked, changed, disabled and deleted.                          *)
(***************************************************************************)
EXTENDS CmdProperties, TLAPS

Phases == {"none", "starting", "running", "killing", "exiting", "closed"}

States == {"none", "waiting", "waitingOnStart", "running", "terminated"}

\* The values that entries, runs and requests start from.
LEMMA FirstValues ==
  /\ NoStatus \in AnyStatus /\ NoProc \in AnyProc /\ NoRun \in AnyRun
  /\ NoForce \in AnyForce /\ NoRequest \in AnyRequest
  /\ ~NoProc.cancelable /\ NoProc.status = NoStatus /\ NoRun.phase = "none"
  /\ NoRun.id = 0 /\ NoStatus.run = 0 /\ NoForce.step = "idle"
  /\ NoForce.result = NoStatus /\ NoRequest.then = "nothing"
  <1>1. NoStatus \in AnyStatus
    BY DEF NoStatus, AnyStatus
  <1>2. NoProc \in AnyProc
    BY <1>1 DEF NoProc, AnyProc, AnySpec
  <1>3. NoRun \in AnyRun
    BY DEF NoRun, AnyRun
  <1>4. NoForce \in AnyForce
    BY <1>1 DEF NoForce, AnyForce, AnySpec
  <1>5. NoRequest \in AnyRequest
    BY <1>1 DEF NoRequest, AnyRequest, AnySpec
  <1>6. QED
    BY <1>1, <1>2, <1>3, <1>4, <1>5
    DEF NoProc, NoRun, NoStatus, NoForce, NoRequest

\* A changed status.
LEMMA StatusRules ==
  ASSUME NEW p \in AnyProc
  PROVE  /\ \A s \in States, r \in BOOLEAN :
              /\ [p EXCEPT !.status.state = s] \in AnyProc
              /\ [p EXCEPT !.status.ready = r] \in AnyProc
              /\ [p EXCEPT !.status.state = s, !.status.ready = r] \in AnyProc
         /\ \A d \in {"unknown", "pending", "enabled", "disabled"} :
              [p EXCEPT !.status.disabled = d] \in AnyProc
  BY DEF AnyProc, AnyStatus, States

\* A new run is that of the entry; nothing else of it can be canceled or killed.
LEMMA LaunchRules ==
  ASSUME TypeOK, NEW s \in AnySpec, NEW m \in Nat, NEW n \in Nat,
         NEW c \in BOOLEAN
  PROVE  /\ Launched(s, m, n) \in AnyProc /\ NextRun(c) \in AnyRun
         /\ Launched(s, m, n).cancelable
         /\ Launched(s, m, n).status.run = run.id + 1
         /\ NextRun(c).id = run.id + 1
         /\ NextRun(c).phase \in {"starting", "closed"}
         /\ probe # "invalid" => NextRun(c).phase = "starting"
  <1>1. proc \in AnyProc /\ run \in AnyRun /\ proc.status \in AnyStatus
    BY DEF TypeOK, AnyProc
  <1>2. run.id + 1 \in Nat
    BY <1>1 DEF AnyRun
  <1> DEFINE state == IF probe = "invalid" THEN "terminated" ELSE "waiting"
             phase == IF probe = "invalid" THEN "closed" ELSE "starting"
  <1>3. /\ state \in {"terminated", "waiting"} /\ phase \in {"starting", "closed"}
        /\ probe # "invalid" => phase = "starting"
    OBVIOUS
  <1>4. /\ Launched(s, m, n) =
             [proc EXCEPT !.spec = s, !.cancelable = TRUE,
                !.start = m, !.restart = n, !.status.state = state,
                !.status.ready = FALSE, !.status.run = run.id + 1]
        /\ NextRun(c) = [NoRun EXCEPT !.id = run.id + 1, !.canceled = c,
                                      !.phase = phase]
    BY DEF Launched, NextRun
  <1> HIDE DEF state, phase
  <1>5. /\ Launched(s, m, n) \in AnyProc
        /\ Launched(s, m, n).cancelable
        /\ Launched(s, m, n).status.run = run.id + 1
    <2> DEFINE p == [proc EXCEPT !.spec = s, !.cancelable = TRUE,
                                 !.start = m, !.restart = n]
    <2>1. p \in AnyProc /\ p.cancelable
      BY <1>1 DEF AnyProc
    <2>2. Launched(s, m, n) =
            [p EXCEPT !.status.state = state, !.status.ready = FALSE,
                      !.status.run = run.id + 1]
      BY <1>4
    <2> HIDE DEF p
    <2> DEFINE q == [p EXCEPT !.status.state = state, !.status.ready = FALSE]
    <2>3. q \in AnyProc
      BY <1>3, <2>1, StatusRules DEF States
    <2>4. q.cancelable
      BY <2>1 DEF AnyProc
    <2>5. Launched(s, m, n) = [q EXCEPT !.status.run = run.id + 1]
      BY <2>2
    <2> HIDE DEF q
    <2>6. QED
      BY <1>2, <2>3, <2>4, <2>5 DEF AnyProc, AnyStatus
  <1>6. /\ NextRun(c) \in AnyRun
        /\ NextRun(c).id = run.id + 1 /\ NextRun(c).phase = phase
    BY <1>2, <1>3, <1>4, FirstValues DEF AnyRun
  <1>7. QED
    BY <1>3, <1>5, <1>6

LEMMA InitIInv == Init => IInv
  <1>1. SUFFICES ASSUME Init PROVE IInv
    OBVIOUS
  <1>2. (CHOOSE s \in Specs : TRUE) \in Specs
    BY CmdAssumption
  <1>3. object \in Object /\ cached = object /\ object.exists
    BY <1>1, <1>2, FirstValues DEF Init, Object
  <1>4. used \in [Events -> Nat]
    BY <1>1 DEF Init
  <1>5. TypeOK
    BY <1>1, <1>3, <1>4, FirstValues DEF Init, TypeOK
  <1>6. QED
    BY <1>1, <1>3, <1>5, FirstValues
    DEF Init, IInv, OneProcess, ForcedResultIsOwn, NothingIsLeft, BuildOwnsRun

-----------------------------------------------------------------------------
(* Reconcile *)

LEMMA FetchKeepsIInv ==
  ASSUME IInv, Fetch
  PROVE  IInv'
  <1>1. /\ proc \in AnyProc /\ run \in AnyRun /\ cached \in Object
        /\ used \in [Events -> Nat] /\ queued' = FALSE
        /\ disabled \in {"pending", "enabled", "disabled"}
    BY DEF IInv, TypeOK, Fetch
  <1>2. UNCHANGED <<kind, probe, object, cached, stale, disabled, alive, killed,
                    report, force, used>>
    BY DEF Fetch, api, os
  <1>3. /\ Decision(cached.spec) \in {"delete", "reset", "wait", "run", "nothing"}
        /\ kind = "local" /\ cached.exists =>
             Decision(cached.spec) \in {"nothing", "reset"}
    BY <1>1 DEF Decision
  <1>4. /\ req' = [fw |-> cached.status, spec |-> cached.spec, fresh |-> ~stale,
                   start |-> IF kind = "startOn" THEN used["start"] ELSE 0,
                   restart |-> used["restart"], then |-> Decision(cached.spec)]
        /\ step' = IF Decision(cached.spec) = "nothing" THEN "report" ELSE "stop"
    BY DEF Fetch
  <1>5. req' \in AnyRequest /\ req'.then = Decision(cached.spec)
    <2>1. used["start"] \in Nat /\ used["restart"] \in Nat
      BY <1>1 DEF Events
    <2>2. cached.status \in AnyStatus /\ cached.spec \in AnySpec
      BY <1>1 DEF Object, AnySpec
    <2>3. (~stale) \in BOOLEAN
      OBVIOUS
    <2>4. QED
      BY <1>3, <1>4, <2>1, <2>2, <2>3 DEF AnyRequest
  <1>6. /\ proc' \in AnyProc /\ proc'.cancelable = proc.cancelable
        /\ proc'.status.run = proc.status.run
        /\ proc'.status.state = proc.status.state
    <2>1. proc' = proc \/ proc' = [proc EXCEPT !.status.disabled = disabled]
      BY DEF Fetch
    <2>2. CASE proc' = proc
      BY <1>1, <2>2
    <2>3. CASE proc' = [proc EXCEPT !.status.disabled = disabled]
      BY <1>1, <2>3 DEF AnyProc, AnyStatus
    <2>4. QED
      BY <2>1, <2>2, <2>3
  <1>7. run' \in AnyRun /\ run'.id = run.id /\ run'.phase = run.phase
    <2>1. run' = run \/ run' = Canceled(run)
      BY DEF Fetch
    <2>2. QED
      BY <1>1, <2>1 DEF Canceled, AnyRun
  <1>8. TypeOK'
    BY <1>1, <1>2, <1>4, <1>5, <1>6, <1>7 DEF IInv, TypeOK
  <1>9. OneProcess' /\ ForcedResultIsOwn' /\ NothingIsLeft'
    BY <1>2, <1>4, <1>5, <1>6, <1>7
    DEF IInv, OneProcess, ForcedResultIsOwn, NothingIsLeft
  <1>10. BuildOwnsRun'
    BY <1>2, <1>3, <1>5, <1>6, <1>7 DEF IInv, BuildOwnsRun
  <1>11. QED
    BY <1>8, <1>9, <1>10 DEF IInv

LEMMA AfterStopKeepsIInv ==
  ASSUME IInv, AfterStop
  PROVE  IInv'
  <1>1. /\ proc \in AnyProc /\ run \in AnyRun /\ req \in AnyRequest
        /\ Stopped
    BY DEF IInv, TypeOK, AfterStop
  <1>2. UNCHANGED <<kind, probe, object, cached, stale, disabled, queued, req,
                    alive, killed, force, used>>
    BY DEF AfterStop, api, os
  <1>3. /\ step' \in {"idle", "report"} /\ report' \in {report, "none"}
        /\ proc' = Settled
        /\ run' = IF req.then = "run" THEN NextRun(FALSE) ELSE run
    BY DEF AfterStop
  \* The process has stopped.
  <1>4. run.phase \in {"none", "closed"} /\ alive \subseteq killed
    BY <1>1 DEF IInv, NothingIsLeft, Stopped
  <1>5. CASE req.then = "run"
    <2>1. proc' = Launched(req.spec, req.start, req.restart)
          /\ run' = NextRun(FALSE)
      BY <1>3, <1>5 DEF Settled
    <2>2. /\ proc' \in AnyProc /\ run' \in AnyRun /\ proc'.cancelable
          /\ proc'.status.run = run.id + 1 /\ run'.id = run.id + 1
          /\ run'.phase \in {"starting", "closed"}
      BY <1>1, <2>1, LaunchRules DEF IInv, AnyRequest
    <2>3. TypeOK'
      <3>1. step' \in {"idle", "report"} /\ report' \in {report, "none"}
        BY <1>3
      <3>2. QED
        BY <1>2, <2>2, <3>1 DEF IInv, TypeOK
    <2>4. OneProcess' /\ ForcedResultIsOwn' /\ NothingIsLeft'
      <3>1. step' # "stop"
        BY <1>3
      <3>2. QED
        BY <1>2, <1>4, <2>2, <3>1
        DEF IInv, OneProcess, ForcedResultIsOwn, NothingIsLeft
    <2>5. BuildOwnsRun'
      BY <1>2, <1>5 DEF IInv, BuildOwnsRun
    <2>6. QED
      BY <2>3, <2>4, <2>5 DEF IInv
  <1>6. CASE req.then # "run"
    <2>1. run' = run
      BY <1>3, <1>6
    <2>2. req.then \in {"delete", "reset", "wait"}
      BY <1>1, <1>6 DEF AnyRequest, IInv, NothingIsLeft, AfterStop
    <2>3. /\ proc' \in AnyProc /\ ~proc'.cancelable
          /\ req.then = "reset" => proc'.status = proc.status
      <3>1. CASE req.then = "delete"
        BY <1>3, <3>1, FirstValues DEF Settled
      <3>2. CASE req.then = "reset"
        <4>1. proc' = [proc EXCEPT !.cancelable = FALSE, !.spec = NoSpec,
                                   !.start = 0, !.restart = 0]
          BY <1>3, <3>2 DEF Settled
        <4>2. QED
          BY <1>1, <3>2, <4>1 DEF AnyProc, AnySpec
      <3>3. CASE req.then = "wait"
        <4>1. proc' = [proc EXCEPT !.cancelable = FALSE,
                                   !.status.state = "waitingOnStart",
                                   !.status.ready = FALSE]
          BY <1>3, <3>3 DEF Settled
        <4>2. QED
          BY <1>1, <3>3, <4>1 DEF AnyProc, AnyStatus
      <3>4. QED
        BY <2>2, <3>1, <3>2, <3>3
    <2>4. TypeOK'
      BY <1>2, <1>3, <2>1, <2>3 DEF IInv, TypeOK
    <2>5. OneProcess' /\ ForcedResultIsOwn' /\ NothingIsLeft'
      BY <1>2, <1>3, <1>4, <2>1, <2>3
      DEF IInv, OneProcess, ForcedResultIsOwn, NothingIsLeft
    <2>6. BuildOwnsRun'
      BY <1>2, <2>1, <2>2, <2>3 DEF IInv, BuildOwnsRun
    <2>7. QED
      BY <2>4, <2>5, <2>6 DEF IInv
  <1>7. QED
    BY <1>5, <1>6

LEMMA ReportKeepsIInv ==
  ASSUME IInv, Report
  PROVE  IInv'
  <1>1. /\ proc \in AnyProc /\ object \in Object
    BY DEF IInv, TypeOK
  <1>2. UNCHANGED <<kind, probe, cached, disabled, proc, run, alive, killed,
                    report, force, used>>
    BY DEF Report, os
  <1>3. step' = "idle" /\ req' = NoRequest
    BY DEF Report
  <1>4. /\ object' = object \/ object' = [object EXCEPT !.status = proc.status]
        /\ stale' = stale \/ stale' = TRUE
        /\ queued' = queued \/ queued' = TRUE
    BY DEF Report
  <1>5. object' \in Object /\ object'.exists = object.exists
    BY <1>1, <1>4 DEF Object, AnyProc
  <1>6. TypeOK'
    BY <1>2, <1>3, <1>4, <1>5, FirstValues DEF IInv, TypeOK
  <1>7. OneProcess' /\ ForcedResultIsOwn' /\ NothingIsLeft' /\ BuildOwnsRun'
    BY <1>2, <1>3, <1>5, FirstValues
    DEF IInv, OneProcess, ForcedResultIsOwn, NothingIsLeft, BuildOwnsRun
  <1>8. QED
    BY <1>6, <1>7 DEF IInv

-----------------------------------------------------------------------------
(* The goroutines of a run *)

LEMMA GoroutinesKeepIInv ==
  ASSUME IInv, Goroutines
  PROVE  IInv'
  <1>1. /\ proc \in AnyProc /\ run \in AnyRun /\ queued' \in BOOLEAN
        /\ run.id \in Nat /\ proc.status \in AnyStatus
        /\ alive \subseteq Nat /\ killed \subseteq Nat
    BY DEF IInv, TypeOK, AnyRun, AnyProc, Goroutines, StartProcess,
           ProcessExits, BeginKill, EndKill, Close
  <1>2. UNCHANGED <<kind, probe, object, cached, stale, disabled, step, req,
                    report, force, used>>
    BY DEF Goroutines, StartProcess, ProcessExits, BeginKill, EndKill, Close,
           api, os
  \* They change the state of the entry and the phase of the run.
  <1>3. /\ proc' \in AnyProc /\ run' \in AnyRun
        /\ proc'.cancelable = proc.cancelable
        /\ proc'.status.run = proc.status.run /\ run'.id = run.id
        /\ alive' \subseteq Nat /\ killed' \subseteq Nat
        /\ run.phase \notin {"none", "closed"}
    <2>1. CASE StartProcess
      <3>1. \/ /\ proc' = [proc EXCEPT !.status.state = "terminated"]
               /\ run' = [run EXCEPT !.phase = "exiting"]
               /\ alive' = alive
            \/ /\ \E b \in BOOLEAN :
                    proc' = [proc EXCEPT !.status.state = "running",
                                         !.status.ready = b]
               /\ \E b \in BOOLEAN :
                    run' = [run EXCEPT !.phase = "running", !.worker = b]
               /\ alive' = alive \cup {run.id}
        <4>1. /\ (proc.status.ready \/ probe = "none") \in BOOLEAN
              /\ (probe = "valid" /\ ~run.canceled) \in BOOLEAN
          OBVIOUS
        <4>2. QED
          BY <2>1, <4>1 DEF StartProcess, Ended
      <3>2. killed' = killed /\ run.phase = "starting"
        BY <2>1 DEF StartProcess
      <3>3. CASE proc' = [proc EXCEPT !.status.state = "terminated"]
        <4>1. /\ proc' \in AnyProc /\ proc'.cancelable = proc.cancelable
              /\ proc'.status.run = proc.status.run
          BY <1>1, <3>3 DEF AnyProc, AnyStatus
        <4>2. run' \in AnyRun /\ run'.id = run.id
          BY <1>1, <3>1 DEF AnyRun
        <4>3. QED
          BY <1>1, <3>1, <3>2, <4>1, <4>2
      <3>4. CASE \E b \in BOOLEAN :
                   proc' = [proc EXCEPT !.status.state = "running",
                                        !.status.ready = b]
        <4>1. PICK b \in BOOLEAN :
                proc' = [proc EXCEPT !.status.state = "running",
                                     !.status.ready = b]
          BY <3>4
        <4>2. proc' \in AnyProc
          BY <1>1, <4>1, StatusRules DEF States
        <4>3. /\ proc'.cancelable = proc.cancelable
              /\ proc'.status.run = proc.status.run
          BY <1>1, <4>1 DEF AnyProc, AnyStatus
        <4>4. run' \in AnyRun /\ run'.id = run.id
          BY <1>1, <3>1 DEF AnyRun
        <4>5. QED
          BY <1>1, <3>1, <3>2, <4>2, <4>3, <4>4
      <3>5. QED
        BY <3>1, <3>3, <3>4
    <2>2. CASE ProcessExits \/ EndKill
      <3>1. /\ proc' = [proc EXCEPT !.status.state = "terminated"]
            /\ run' = [run EXCEPT !.phase = "exiting"]
            /\ alive' = alive /\ killed' \in {killed, killed \cup {run.id}}
            /\ run.phase \in {"running", "killing"}
        BY <2>2 DEF ProcessExits, EndKill, Ended, os
      <3>2. QED
        BY <1>1, <3>1 DEF AnyProc, AnyStatus, AnyRun
    <2>3. CASE BeginKill \/ Close
      <3>1. /\ run' = [run EXCEPT !.phase = "killing"]
                 \/ run' = [run EXCEPT !.phase = "closed"]
            /\ proc' = proc /\ alive' = alive /\ killed' = killed
            /\ run.phase \in {"running", "exiting"}
        BY <2>3 DEF BeginKill, Close, os
      <3>2. QED
        BY <1>1, <3>1 DEF AnyRun
    <2>4. QED
      BY <2>1, <2>2, <2>3 DEF Goroutines
  <1>4. TypeOK'
    BY <1>1, <1>2, <1>3 DEF IInv, TypeOK
  <1>5. ForcedResultIsOwn'
    BY <1>2 DEF IInv, ForcedResultIsOwn
  \* A run ends when its process is gone or killed, and then says so.
  <1>6. /\ OneProcess'
        /\ run'.phase \in {"none", "starting", "exiting", "closed"} =>
             alive' \subseteq killed'
        /\ run'.phase \in {"exiting", "closed"} =>
             \/ run.phase = "exiting" /\ proc' = proc
             \/ proc'.status.state = "terminated"
    <2>1. /\ \A r \in alive : r = run.id \/ r \in killed
          /\ run.phase \in {"starting", "exiting"} => alive \subseteq killed
      BY DEF IInv, OneProcess, NothingIsLeft
    <2>2. CASE StartProcess
      <3>1. run.phase = "starting" /\ killed' = killed
        BY <2>2 DEF StartProcess
      <3>2. \/ /\ proc' = [proc EXCEPT !.status.state = "terminated"]
               /\ alive' = alive
            \/ run'.phase = "running" /\ alive' = alive \cup {run.id}
        BY <1>1, <2>2 DEF StartProcess, Ended, AnyRun
      <3>3. QED
        BY <1>1, <1>3, <2>1, <3>1, <3>2
        DEF OneProcess, AnyRun, AnyProc, AnyStatus
    <2>3. CASE ProcessExits \/ EndKill
      <3>1. /\ proc' = [proc EXCEPT !.status.state = "terminated"]
            /\ alive' = alive /\ killed \subseteq killed'
            /\ run.id \notin alive \/ run.id \in killed'
        BY <2>3 DEF ProcessExits, EndKill, Ended, os
      <3>2. QED
        BY <1>1, <1>3, <2>1, <3>1 DEF OneProcess, AnyProc, AnyStatus
    <2>4. CASE BeginKill
      <3>1. run' = [run EXCEPT !.phase = "killing"] /\ UNCHANGED <<alive, killed>>
        BY <2>4 DEF BeginKill, os
      <3>2. QED
        BY <1>1, <1>3, <2>1, <3>1 DEF OneProcess, AnyRun
    <2>5. CASE Close
      <3>1. run.phase = "exiting" /\ UNCHANGED <<alive, killed, proc>>
        BY <2>5 DEF Close, os
      <3>2. QED
        BY <1>3, <2>1, <3>1 DEF OneProcess
    <2>6. QED
      BY <2>2, <2>3, <2>4, <2>5 DEF Goroutines
  <1>7. NothingIsLeft'
    BY <1>2, <1>3, <1>6 DEF IInv, NothingIsLeft
  <1>8. BuildOwnsRun'
    <2>1. kind = "local" /\ object.exists => force.step # "reading"
      BY <1>3 DEF IInv, BuildOwnsRun
    <2>2. QED
      BY <1>2, <1>3, <1>6, <2>1 DEF IInv, BuildOwnsRun
  <1>9. QED
    BY <1>4, <1>5, <1>6, <1>7, <1>8 DEF IInv

-----------------------------------------------------------------------------
(* ForceRun *)

LEMMA ForceRunKeepsIInv ==
  ASSUME IInv, ForceRun
  PROVE  IInv'
  <1>1. /\ proc \in AnyProc /\ run \in AnyRun /\ force \in AnyForce
        /\ run.id \in Nat /\ proc.status \in AnyStatus
    BY DEF IInv, TypeOK, AnyRun, AnyProc
  <1>2. UNCHANGED <<kind, probe, object, cached, stale, disabled, queued, step,
                    req, alive, killed, report, used>>
    BY DEF ForceRun, ForceLock, ForceStart, ForceWait, ForceRead, api, os
  <1>3. CASE ForceLock
    <2>1. /\ force' = [force EXCEPT !.step = "stopping"] /\ proc' = proc
          /\ run' = run \/ run' = Canceled(run)
          /\ force.step = "locking"
      BY <1>3 DEF ForceLock
    <2>2. force' \in AnyForce /\ force'.step = "stopping"
      BY <1>1, <2>1 DEF AnyForce
    <2>3. run' \in AnyRun /\ run'.id = run.id /\ run'.phase = run.phase
      BY <1>1, <2>1 DEF Canceled, AnyRun
    <2>4. TypeOK'
      BY <1>2, <2>1, <2>2, <2>3 DEF IInv, TypeOK
    <2>5. QED
      BY <1>2, <2>1, <2>2, <2>3, <2>4
      DEF IInv, OneProcess, ForcedResultIsOwn, NothingIsLeft, BuildOwnsRun
  <1>4. CASE ForceStart
    <2>1. /\ proc' = Launched(force.spec, 0, 0) /\ run' = NextRun(force.canceled)
          /\ force' = [force EXCEPT !.step = "waiting", !.run = run.id + 1]
          /\ Stopped /\ force.step = "stopping"
      BY <1>4 DEF ForceStart
    <2>2. /\ proc' \in AnyProc /\ run' \in AnyRun /\ proc'.cancelable
          /\ proc'.status.run = run.id + 1 /\ run'.id = run.id + 1
          /\ run'.phase \in {"starting", "closed"}
          /\ probe # "invalid" => run'.phase = "starting"
      <3>1. /\ force.spec \in AnySpec /\ force.canceled \in BOOLEAN
            /\ TypeOK
        BY <1>1 DEF AnyForce, IInv
      <3>2. QED
        BY <2>1, <3>1, LaunchRules
    <2>3. /\ force' \in AnyForce /\ force'.step = "waiting"
          /\ force'.run = run.id + 1
      <3>1. run.id + 1 \in Nat
        BY <1>1
      <3>2. QED
        BY <1>1, <2>1, <3>1 DEF AnyForce
    <2>4. run.phase \in {"none", "closed"} /\ alive \subseteq killed
      BY <2>1 DEF IInv, NothingIsLeft, Stopped
    <2>5. TypeOK'
      BY <1>2, <2>2, <2>3 DEF IInv, TypeOK
    <2>6. OneProcess' /\ ForcedResultIsOwn' /\ NothingIsLeft'
      BY <1>2, <2>2, <2>3, <2>4
      DEF IInv, OneProcess, ForcedResultIsOwn, NothingIsLeft
    <2>7. BuildOwnsRun'
      BY <1>2, <2>1, <2>2, <2>3 DEF IInv, BuildOwnsRun
    <2>8. QED
      BY <2>5, <2>6, <2>7 DEF IInv
  <1>5. CASE ForceWait
    <2>1. /\ proc' = proc /\ run' = run /\ force.step = "waiting"
          /\ \/ /\ run.id # force.run \/ run.phase = "closed"
                /\ force' = [force EXCEPT !.step = "reading"]
             \/ force' = NoForce
      BY <1>5 DEF ForceWait
    <2>2. CASE /\ run.id # force.run \/ run.phase = "closed"
               /\ force' = [force EXCEPT !.step = "reading"]
      <3>1. /\ force' \in AnyForce /\ force'.step = "reading"
            /\ force'.run = force.run
        BY <1>1, <2>2 DEF AnyForce
      <3>2. TypeOK'
        BY <1>2, <2>1, <3>1 DEF IInv, TypeOK
      <3>3. QED
        BY <1>2, <2>1, <2>2, <3>1, <3>2
        DEF IInv, OneProcess, ForcedResultIsOwn, NothingIsLeft, BuildOwnsRun
    <2>3. CASE force' = NoForce
      <3>1. TypeOK'
        BY <1>2, <2>1, <2>3, FirstValues DEF IInv, TypeOK
      <3>2. QED
        BY <1>2, <2>1, <2>3, <3>1, FirstValues
        DEF IInv, OneProcess, ForcedResultIsOwn, NothingIsLeft, BuildOwnsRun
    <2>4. QED
      BY <2>1, <2>2, <2>3
  <1>6. CASE ForceRead
    <2>1. /\ proc' = proc /\ run' = run /\ force.step = "reading"
          /\ force' = [force EXCEPT !.step = "idle", !.result = proc.status]
      BY <1>6 DEF ForceRead
    <2>2. /\ force' \in AnyForce /\ force'.step = "idle"
          /\ force'.run = force.run /\ force'.result = proc.status
      BY <1>1, <2>1 DEF AnyForce
    <2>3. TypeOK'
      BY <1>2, <2>1, <2>2 DEF IInv, TypeOK
    <2>4. kind = "local"
      BY <2>1 DEF IInv, BuildOwnsRun
    <2>5. ForcedResultIsOwn'
      BY <1>2, <2>1, <2>2, <2>4 DEF IInv, BuildOwnsRun, ForcedResultIsOwn
    <2>6. QED
      BY <1>2, <2>1, <2>2, <2>3, <2>5
      DEF IInv, OneProcess, NothingIsLeft, BuildOwnsRun
  <1>7. QED
    BY <1>3, <1>4, <1>5, <1>6 DEF ForceRun

-----------------------------------------------------------------------------
(* The probe, the client, and the world *)

\* Steps that leave processes and runs alone.
LEMMA OtherSteps ==
  ASSUME IInv, TypeOK',
         UNCHANGED <<kind, probe, killed, run, step>>,
         alive' \subseteq alive,
         object'.exists => object.exists,
         kind = "local" /\ object'.exists => cached'.exists,
         req'.then = req.then,
         /\ proc'.cancelable = proc.cancelable
         /\ proc'.status.run = proc.status.run
         /\ proc'.status.state = proc.status.state,
         force' = force
  PROVE  IInv'
  BY DEF IInv, OneProcess, ForcedResultIsOwn, NothingIsLeft, BuildOwnsRun

LEMMA HappensRules ==
  ASSUME TypeOK, NEW e \in Events, Happens(e)
  PROVE  used' \in [Events -> Nat]
  <1>1. used \in [Events -> Nat] /\ used' = [used EXCEPT ![e] = @ + 1]
    BY DEF TypeOK, Happens
  <1>2. QED
    BY <1>1

LEMMA ProbeKeepsIInv ==
  ASSUME IInv, Probe \/ ApplyReport
  PROVE  IInv'
  <1>1. proc \in AnyProc /\ run \in AnyRun
    BY DEF IInv, TypeOK
  <1>2. UNCHANGED <<kind, probe, object, cached, stale, disabled, step, req,
                    alive, killed, force>>
    BY DEF Probe, ApplyReport, api, os
  <1>3. CASE Probe
    <2>1. used' \in [Events -> Nat]
      BY <1>3, HappensRules DEF Probe, Events, IInv
    <2>2. PICK result \in {"ok", "bad"} :
            /\ report' = result
            /\ run' = [run EXCEPT !.last = result,
                                  !.passed = @ \/ result = "ok"]
      BY <1>3 DEF Probe
    <2>3. /\ run' \in AnyRun /\ run'.id = run.id /\ run'.phase = run.phase
      BY <1>1, <2>2 DEF AnyRun
    <2>4. UNCHANGED <<proc, queued>>
      BY <1>3 DEF Probe
    <2>5. TypeOK'
      BY <1>2, <2>1, <2>2, <2>3, <2>4 DEF IInv, TypeOK
    <2>6. QED
      BY <1>2, <2>3, <2>4, <2>5
      DEF IInv, OneProcess, ForcedResultIsOwn, NothingIsLeft, BuildOwnsRun
  <1>4. CASE ApplyReport
    <2>1. /\ proc' = [proc EXCEPT !.status.ready = report = "ok"]
          /\ report' = "none" /\ UNCHANGED <<run, used>>
      BY <1>4 DEF ApplyReport
    <2>2. queued' \in BOOLEAN
      BY <1>4 DEF ApplyReport, IInv, TypeOK
    <2>3. /\ proc' \in AnyProc /\ proc'.cancelable = proc.cancelable
          /\ proc'.status.run = proc.status.run
          /\ proc'.status.state = proc.status.state
      <3>1. PICK b \in BOOLEAN : proc' = [proc EXCEPT !.status.ready = b]
        <4>1. CASE report = "ok"
          <5>1. proc' = [proc EXCEPT !.status.ready = TRUE]
            BY <2>1, <4>1
          <5>2. QED
            BY <5>1
        <4>2. CASE report # "ok"
          <5>1. proc' = [proc EXCEPT !.status.ready = FALSE]
            BY <2>1, <4>2
          <5>2. QED
            BY <5>1
        <4>3. QED
          BY <4>1, <4>2
      <3>2. proc' \in AnyProc
        BY <1>1, <3>1, StatusRules DEF States
      <3>3. QED
        BY <1>1, <3>1, <3>2 DEF AnyProc, AnyStatus
    <2>4. TypeOK'
      BY <1>2, <2>1, <2>2, <2>3 DEF IInv, TypeOK
    <2>5. QED
      BY <1>2, <2>1, <2>3, <2>4, OtherSteps DEF IInv, BuildOwnsRun
  <1>5. QED
    BY <1>3, <1>4

LEMMA ClientKeepsIInv ==
  ASSUME IInv, \/ CatchUp \/ UpdateSpec \/ DeleteObject \/ Toggle
               \/ \E e \in {"start", "restart"} : Click(e)
               \/ \E r \in alive : Die(r)
  PROVE  IInv'
  <1>1. /\ object \in Object /\ cached \in Object /\ req \in AnyRequest
        /\ alive \subseteq Nat /\ used \in [Events -> Nat]
        /\ kind = "local" /\ object.exists => cached.exists
    BY DEF IInv, TypeOK, BuildOwnsRun
  <1>2. UNCHANGED <<kind, probe, killed, run, step, proc, force, report>>
    BY DEF CatchUp, UpdateSpec, DeleteObject, Toggle, Click, Die, Write, api, os
  <1>3. used' \in [Events -> Nat]
    <2>1. CASE UpdateSpec \/ DeleteObject
      BY <2>1, HappensRules DEF UpdateSpec, DeleteObject, Events, IInv
    <2>2. CASE Toggle
      BY <1>1, <2>2, HappensRules DEF Toggle, Events, IInv
    <2>3. CASE \E e \in {"start", "restart"} : Click(e)
      BY <2>3, HappensRules DEF Click, Events, IInv
    <2>4. CASE CatchUp \/ \E r \in alive : Die(r)
      BY <1>1, <2>4 DEF CatchUp, Die
    <2>5. QED
      BY <2>1, <2>2, <2>3, <2>4
  <1>4. /\ object' \in Object /\ cached' \in Object /\ stale' \in BOOLEAN
        /\ object'.exists => object.exists
        /\ kind = "local" /\ object'.exists => cached'.exists
        /\ req' \in AnyRequest /\ req'.then = req.then
        /\ queued' \in BOOLEAN /\ alive' \subseteq alive
        /\ disabled' \in {"pending", "enabled", "disabled"}
    <2>1. /\ stale \in BOOLEAN /\ queued \in BOOLEAN
          /\ disabled \in {"pending", "enabled", "disabled"}
      BY DEF IInv, TypeOK
    <2>2. CASE UpdateSpec
      <3>1. PICK s \in Specs : object' = [object EXCEPT !.spec = s]
        BY <2>2 DEF UpdateSpec, Write
      <3>2. object' \in Object /\ object'.exists = object.exists
        BY <1>1, <3>1 DEF Object
      <3>3. /\ stale' = TRUE /\ req' = [req EXCEPT !.fresh = FALSE]
            /\ UNCHANGED <<cached, disabled, queued, alive>>
        BY <2>2 DEF UpdateSpec, Write, os
      <3>4. QED
        BY <1>1, <2>1, <3>2, <3>3 DEF AnyRequest
    <2>3. CASE DeleteObject
      BY <1>1, <2>1, <2>3 DEF Write, DeleteObject, Object, AnyRequest, os
    <2>4. CASE \/ CatchUp \/ Toggle
               \/ \E e \in {"start", "restart"} : Click(e)
               \/ \E r \in alive : Die(r)
      BY <1>1, <2>1, <2>4 DEF CatchUp, Toggle, Click, Die, api, os
    <2>5. QED
      BY <2>2, <2>3, <2>4
  <1>5. TypeOK'
    BY <1>1, <1>2, <1>3, <1>4 DEF IInv, TypeOK
  <1>6. QED
    BY <1>2, <1>4, <1>5, OtherSteps

LEMMA BuildKeepsIInv ==
  ASSUME IInv, ForceGet \/ ForceCancel
  PROVE  IInv'
  <1>1. /\ run \in AnyRun /\ force \in AnyForce /\ cached \in Object
    BY DEF IInv, TypeOK
  <1>2. UNCHANGED <<kind, probe, object, cached, stale, disabled, queued, step,
                    req, proc, alive, killed, report>>
    BY DEF ForceGet, ForceCancel, api, os
  <1>3. CASE ForceGet
    <2>1. /\ force' = [NoForce EXCEPT !.step = "locking", !.spec = cached.spec]
          /\ run' = run /\ kind = "local"
      BY <1>3 DEF ForceGet
    <2>2. force' \in AnyForce /\ force'.step = "locking"
      BY <1>1, <2>1, FirstValues DEF AnyForce, Object, AnySpec
    <2>3. used' \in [Events -> Nat]
      BY <1>3, HappensRules DEF ForceGet, Events, IInv
    <2>4. TypeOK'
      BY <1>2, <2>1, <2>2, <2>3 DEF IInv, TypeOK
    <2>5. QED
      BY <1>2, <2>1, <2>2, <2>4
      DEF IInv, OneProcess, ForcedResultIsOwn, NothingIsLeft, BuildOwnsRun
  <1>4. CASE ForceCancel
    <2>1. /\ force' = [force EXCEPT !.canceled = TRUE]
          /\ run' = run \/ run' = Canceled(run)
          /\ used' = used
      BY <1>4 DEF ForceCancel
    <2>2. /\ force' \in AnyForce /\ force'.step = force.step
          /\ force'.run = force.run /\ force'.result = force.result
      BY <1>1, <2>1 DEF AnyForce
    <2>3. run' \in AnyRun /\ run'.id = run.id /\ run'.phase = run.phase
      BY <1>1, <2>1 DEF Canceled, AnyRun
    <2>4. TypeOK'
      BY <1>2, <2>1, <2>2, <2>3 DEF IInv, TypeOK
    <2>5. QED
      BY <1>2, <2>2, <2>3, <2>4
      DEF IInv, OneProcess, ForcedResultIsOwn, NothingIsLeft, BuildOwnsRun
  <1>5. QED
    BY <1>3, <1>4

-----------------------------------------------------------------------------
\* Every step of the specification, and every step that changes nothing, keeps
\* the invariant.
LEMMA IInvIsInductive == IInv /\ [Next]_vars => IInv'
  <1>1. SUFFICES ASSUME IInv, [Next]_vars PROVE IInv'
    OBVIOUS
  <1>2. CASE Reconcile
    BY <1>1, <1>2, FetchKeepsIInv, AfterStopKeepsIInv, ReportKeepsIInv
    DEF Reconcile
  <1>3. CASE CatchUp \/ World
    BY <1>1, <1>3, ClientKeepsIInv, BuildKeepsIInv DEF World
  <1>4. CASE UNCHANGED vars
    <2>1. UNCHANGED <<kind, probe, object, cached, stale, disabled, queued, step,
                      req, proc, run, alive, killed, report, force, used>>
      BY <1>4 DEF vars, api, os
    <2>2. TypeOK'
      BY <1>1, <2>1 DEF IInv, TypeOK
    <2>3. QED
      BY <1>1, <2>1, <2>2, OtherSteps DEF IInv, BuildOwnsRun
  <1>5. QED
    BY <1>1, <1>2, <1>3, <1>4, GoroutinesKeepIInv, ForceRunKeepsIInv,
       ProbeKeepsIInv DEF Next

\* The types of the controller and the processes of a command.
THEOREM CmdTypes == Spec => []TypeOK
  <1>1. IInv => TypeOK
    BY DEF IInv
  <1>2. QED
    BY <1>1, InitIInv, IInvIsInductive, PTL DEF Spec

\* However often a command is changed, clicked, built, disabled and deleted, it
\* has at most one process, apart from those that were sent a SIGKILL.
THEOREM OneProcessPerCommand == Spec => []OneProcess
  <1>1. IInv => OneProcess
    BY DEF IInv
  <1>2. QED
    BY <1>1, InitIInv, IInvIsInductive, PTL DEF Spec

\* The status that ForceRun returns to a build is that of the end of its own
\* run, whatever reconciliations come between.
THEOREM BuildsGetTheirResult == Spec => []ForcedResultIsOwn
  <1>1. IInv => ForcedResultIsOwn
    BY DEF IInv
  <1>2. QED
    BY <1>1, InitIInv, IInvIsInductive, PTL DEF Spec

-----------------------------------------------------------------------------
-----------------------------------------------------------------------------
(* Every run has a cause *)

LEMMA OneRules == \A b \in BOOLEAN : One(b) = (IF b THEN 1 ELSE 0) /\ One(b) \in {0, 1}
  BY DEF One

\* What the causes of each kind of command are.
LEMMA CausesRules ==
  ASSUME TypeOK
  PROVE  /\ kind \in {"local", "startOn", "plain"} /\ run.id \in Nat
         /\ \A e \in Events : used[e] \in Nat
         /\ "start" \in Events /\ "restart" \in Events /\ "update" \in Events
         /\ "toggle" \in Events /\ "force" \in Events
         /\ kind = "local" => Causes = used["force"]
         /\ kind = "startOn" /\ used["start"] # 0 =>
              Causes = used["start"] + used["restart"] + used["toggle"]
         /\ kind = "startOn" /\ used["start"] = 0 => Causes = 0
         /\ kind = "plain" =>
              Causes = 1 + used["update"] + used["restart"] + used["toggle"]
         /\ Causes \in Nat
  <1>1. kind \in {"local", "startOn", "plain"}
    BY CmdAssumption DEF TypeOK
  <1>2. used \in [Events -> Nat] /\ run.id \in Nat
    BY DEF TypeOK, AnyRun
  <1>3. /\ "start" \in Events /\ "restart" \in Events /\ "update" \in Events
        /\ "toggle" \in Events /\ "force" \in Events
    BY DEF Events
  <1>4. CASE kind = "local"
    BY <1>1, <1>2, <1>3, <1>4 DEF Causes
  <1>5. CASE kind = "startOn"
    BY <1>1, <1>2, <1>3, <1>5 DEF Causes
  <1>6. CASE kind = "plain"
    BY <1>1, <1>2, <1>3, <1>6 DEF Causes
  <1>7. QED
    BY <1>1, <1>4, <1>5, <1>6

LEMMA CountRules ==
  ASSUME TypeOK, NEW e \in Events, Happens(e)
  PROVE  /\ used'[e] = used[e] + 1
         /\ \A d \in Events \ {e} : used'[d] = used[d]
  BY DEF TypeOK, Happens

\* Steps with which nothing is started, nothing more is due and nothing is
\* acted upon.
LEMMA AccountsKept ==
  ASSUME TypeOK, TypeOK', CausesInv, kind' = kind,
         object'.exists => cached'.exists, run'.id = run.id,
         (AboutToRun' <=> AboutToRun), RunIsDue' => RunIsDue,
         proc'.spec \in {proc.spec, NoSpec},
         Causes' >= Causes, used'["start"] = used["start"],
         object'.spec # cached'.spec => object.spec # cached.spec,
         force'.step \in {"locking", "stopping"} =>
           force.step \in {"locking", "stopping"}
  PROVE  CausesInv'
  <1> DEFINE late == object.spec # cached.spec
             f == force.step \in {"locking", "stopping"}
  <1>1. /\ One(AboutToRun)' = One(AboutToRun) /\ One(RunIsDue)' <= One(RunIsDue)
        /\ One(late)' <= One(late) /\ One(f)' <= One(f)
        /\ One(AboutToRun) \in Nat /\ One(RunIsDue) \in Nat /\ One(late) \in Nat
        /\ One(f) \in Nat
        /\ One(RunIsDue)' \in Nat /\ One(late)' \in Nat /\ One(f)' \in Nat
    BY DEF One
  <1>2. run.id \in Nat /\ Causes \in Nat /\ Causes' \in Nat
    <2>1. (TypeOK => Causes \in Nat)'
      BY CausesRules, PTL
    <2>2. QED
      BY <2>1, CausesRules
  <1>3. ASSUME kind = "plain"
        PROVE  run'.id + One(AboutToRun)' + One(RunIsDue)' + One(late)' <= Causes'
    <2>1. run.id + One(AboutToRun) + One(RunIsDue) + One(late) <= Causes
      BY <1>3 DEF CausesInv
    <2> HIDE DEF late
    <2>2. QED
      BY <1>1, <1>2, <2>1
  <1>4. ASSUME kind = "startOn", used["start"] # 0
        PROVE  run'.id + One(AboutToRun)' + One(RunIsDue)' <= Causes'
    <2>1. run.id + One(AboutToRun) + One(RunIsDue) <= Causes
      BY <1>4 DEF CausesInv
    <2>2. QED
      BY <1>1, <1>2, <2>1
  <1>5. ASSUME kind = "local"
        PROVE  ~AboutToRun' /\ run'.id + One(f)' <= Causes'
    <2>1. ~AboutToRun /\ run.id + One(f) <= Causes
      BY <1>5 DEF CausesInv
    <2> HIDE DEF f
    <2>2. QED
      BY <1>1, <1>2, <2>1
  <1>6. QED
    BY <1>3, <1>4, <1>5 DEF CausesInv

\* What Reconcile will have acted upon, after a step that is not one of its own.
LEMMA ActedUponKept ==
  ASSUME step' = step, proc'.spec = proc.spec, proc'.start = proc.start,
         proc'.restart = proc.restart, req'.then = req.then,
         req'.spec = req.spec, req'.start = req.start,
         req'.restart = req.restart
  PROVE  (AboutToRun' <=> AboutToRun) /\ ActedUpon' = ActedUpon
  BY DEF AboutToRun, ActedUpon

LEMMA DueKept ==
  ASSUME kind' = kind, cached' = cached, disabled' = disabled, used' = used,
         ActedUpon'.spec = ActedUpon.spec, ActedUpon'.start = ActedUpon.start,
         ActedUpon'.restart = ActedUpon.restart
  PROVE  RunIsDue' => RunIsDue
  BY DEF RunIsDue

\* Steps of the goroutines, of the probe and of processes, and those of
\* ForceRun that start nothing.
LEMMA QuietStepsKeepAccounts ==
  ASSUME IInv, IInv', CausesInv,
         \/ Goroutines \/ ForceLock \/ ForceWait \/ ForceRead \/ ForceCancel
         \/ ApplyReport \/ \E r \in alive : Die(r)
  PROVE  CausesInv'
  <1>1. /\ TypeOK /\ TypeOK' /\ proc \in AnyProc /\ run \in AnyRun
        /\ force \in AnyForce
    BY DEF IInv, TypeOK
  <1>2. UNCHANGED <<kind, object, cached, disabled, step, req, used>>
    BY DEF Goroutines, StartProcess, ProcessExits, BeginKill, EndKill, Close,
           ForceLock, ForceWait, ForceRead, ForceCancel, ApplyReport, Die, api
  <1>3. /\ proc'.spec = proc.spec /\ proc'.start = proc.start
        /\ proc'.restart = proc.restart
    <2>1. CASE StartProcess
      <3>1. \/ proc' = [proc EXCEPT !.status.state = "terminated"]
            \/ proc' = [proc EXCEPT !.status.state = "running",
                                    !.status.ready = @ \/ probe = "none"]
        BY <2>1 DEF StartProcess, Ended
      <3>2. QED
        BY <1>1, <3>1 DEF AnyProc
    <2>2. CASE ProcessExits \/ EndKill
      <3>1. proc' = [proc EXCEPT !.status.state = "terminated"]
        BY <2>2 DEF ProcessExits, EndKill, Ended
      <3>2. QED
        BY <1>1, <3>1 DEF AnyProc
    <2>3. CASE ApplyReport
      <3>1. proc' = [proc EXCEPT !.status.ready = report = "ok"]
        BY <2>3 DEF ApplyReport
      <3>2. QED
        BY <1>1, <3>1 DEF AnyProc
    <2>4. CASE \/ BeginKill \/ Close \/ ForceLock \/ ForceWait \/ ForceRead
               \/ ForceCancel \/ \E r \in alive : Die(r)
      BY <2>4 DEF BeginKill, Close, ForceLock, ForceWait, ForceRead,
                  ForceCancel, Die
    <2>5. QED
      BY <2>1, <2>2, <2>3, <2>4 DEF Goroutines
  <1>4. run'.id = run.id
    <2>1. CASE StartProcess
      <3>1. \/ run' = [run EXCEPT !.phase = "exiting"]
            \/ run' = [run EXCEPT !.phase = "running",
                              !.worker = probe = "valid" /\ ~run.canceled]
        BY <2>1 DEF StartProcess
      <3>2. QED
        BY <1>1, <3>1 DEF AnyRun
    <2>2. CASE ProcessExits \/ EndKill \/ BeginKill \/ Close
      BY <1>1, <2>2 DEF ProcessExits, EndKill, BeginKill, Close, AnyRun
    <2>3. CASE ForceLock \/ ForceCancel
      BY <1>1, <2>3 DEF ForceLock, ForceCancel, Canceled, AnyRun
    <2>4. CASE \/ ForceWait \/ ForceRead \/ ApplyReport
               \/ \E r \in alive : Die(r)
      BY <2>4 DEF ForceWait, ForceRead, ApplyReport, Die
    <2>5. QED
      BY <2>1, <2>2, <2>3, <2>4 DEF Goroutines
  <1>5. force'.step \in {"locking", "stopping"} =>
          force.step \in {"locking", "stopping"}
    <2>1. CASE ForceLock
      BY <2>1 DEF ForceLock
    <2>2. CASE ForceWait \/ ForceRead
      BY <1>1, <2>2, FirstValues DEF ForceWait, ForceRead, AnyForce
    <2>3. CASE ForceCancel
      BY <1>1, <2>3 DEF ForceCancel, AnyForce
    <2>4. CASE Goroutines \/ ApplyReport \/ \E r \in alive : Die(r)
      BY <2>4 DEF Goroutines, StartProcess, ProcessExits, BeginKill, EndKill,
                  Close, ApplyReport, Die
    <2>5. QED
      BY <2>1, <2>2, <2>3, <2>4
  <1>6. (AboutToRun' <=> AboutToRun) /\ ActedUpon' = ActedUpon
    BY <1>2, <1>3, ActedUponKept
  <1>7. RunIsDue' => RunIsDue
    BY <1>2, <1>6 DEF RunIsDue
  <1>8. object'.exists => cached'.exists
    BY <1>2 DEF CausesInv
  <1>9. Causes' >= Causes
    BY <1>1, <1>2, CausesRules DEF Causes
  <1>10. QED
    BY <1>1, <1>2, <1>3, <1>4, <1>5, <1>6, <1>7, <1>8, <1>9, AccountsKept

\* A build starts a process for each ForceRun.
LEMMA BuildsKeepAccounts ==
  ASSUME IInv, IInv', CausesInv, ForceGet \/ ForceStart
  PROVE  CausesInv'
  <1>1. TypeOK /\ TypeOK' /\ force \in AnyForce
    BY DEF IInv, TypeOK
  <1>2. kind = "local" /\ kind' = kind
    <2>1. CASE ForceGet
      BY <2>1 DEF ForceGet, api
    <2>2. CASE ForceStart
      BY <2>2 DEF ForceStart, api, IInv, BuildOwnsRun
    <2>3. QED
      BY <2>1, <2>2
  <1>3. UNCHANGED <<object, cached, step, req>>
    BY DEF ForceGet, ForceStart, api
  <1>4. /\ ~AboutToRun /\ run.id \in Nat /\ used["force"] \in Nat
        /\ run.id + One(force.step \in {"locking", "stopping"}) <= used["force"]
    BY <1>1, <1>2, CausesRules DEF CausesInv
  <1>5. CASE ForceGet
    <2>1. /\ used'["force"] = used["force"] + 1 /\ run' = run
          /\ force.step = "idle"
      BY <1>1, <1>5, CausesRules, CountRules DEF ForceGet
    <2>2. run.id <= used["force"]
      BY <1>4, <2>1 DEF One
    <2>3. run'.id + One(force.step \in {"locking", "stopping"})' <= used'["force"]
      BY <1>4, <2>1, <2>2 DEF One
    <2>4. Causes' = used'["force"]
      BY <1>2 DEF Causes
    <2>5. QED
      BY <1>2, <1>3, <1>4, <2>3, <2>4 DEF CausesInv, AboutToRun
  <1>6. CASE ForceStart
    <2>1. /\ used' = used /\ run'.id = run.id + 1
          /\ force.step = "stopping" /\ force'.step = "waiting"
      <3>1. /\ run' = NextRun(force.canceled) /\ used' = used
            /\ force.step = "stopping"
            /\ force' = [force EXCEPT !.step = "waiting", !.run = run.id + 1]
        BY <1>6 DEF ForceStart
      <3>2. force.canceled \in BOOLEAN
        BY <1>1 DEF AnyForce
      <3>3. run'.id = run.id + 1
        BY <3>1 DEF NextRun, NoRun
      <3>4. force'.step = "waiting"
        BY <1>1, <3>1 DEF AnyForce
      <3>5. QED
        BY <3>1, <3>3, <3>4
    <2>2. run.id + 1 <= used["force"]
      BY <1>4, <2>1 DEF One
    <2>3. run'.id + One(force.step \in {"locking", "stopping"})' <= used'["force"]
      BY <1>4, <2>1, <2>2 DEF One
    <2>4. Causes' = used'["force"]
      BY <1>2 DEF Causes
    <2>5. QED
      BY <1>2, <1>3, <1>4, <2>3, <2>4 DEF CausesInv, AboutToRun
  <1>7. QED
    BY <1>5, <1>6

\* A launch, a change or a click: what there is more of has its cause.
LEMMA AccountsBalance ==
  ASSUME TypeOK, TypeOK', CausesInv, kind' = kind, kind # "local",
         object'.exists => cached'.exists, used'["start"] = used["start"],
         used["start"] = 0 /\ kind = "startOn" =>
           run'.id = 0 /\ ~AboutToRun' /\ proc'.spec = NoSpec,
         used["start"] # 0 /\ kind = "startOn" =>
           run'.id + One(AboutToRun)' + One(RunIsDue)' + Causes
             <= run.id + One(AboutToRun) + One(RunIsDue) + Causes',
         kind = "plain" =>
           run'.id + One(AboutToRun)' + One(RunIsDue)'
               + One(object.spec # cached.spec)' + Causes
             <= run.id + One(AboutToRun) + One(RunIsDue)
                  + One(object.spec # cached.spec) + Causes'
  PROVE  CausesInv'
  <1> DEFINE late == object.spec # cached.spec
  <1>1. /\ One(AboutToRun) \in Nat /\ One(RunIsDue) \in Nat /\ One(late) \in Nat
        /\ One(AboutToRun)' \in Nat /\ One(RunIsDue)' \in Nat
        /\ One(late)' \in Nat
    BY DEF One
  <1>2. /\ run.id \in Nat /\ Causes \in Nat /\ Causes' \in Nat /\ run'.id \in Nat
    <2>1. (TypeOK => run.id \in Nat /\ Causes \in Nat)'
      BY CausesRules, PTL
    <2>2. QED
      BY <2>1, CausesRules
  <1>3. ASSUME kind = "plain"
        PROVE  run'.id + One(AboutToRun)' + One(RunIsDue)' + One(late)' <= Causes'
    <2>1. run.id + One(AboutToRun) + One(RunIsDue) + One(late) <= Causes
      BY <1>3 DEF CausesInv
    <2>2. run'.id + One(AboutToRun)' + One(RunIsDue)' + One(late)' + Causes
            <= run.id + One(AboutToRun) + One(RunIsDue) + One(late) + Causes'
      BY <1>3
    <2> HIDE DEF late
    <2>3. QED
      BY <1>1, <1>2, <2>1, <2>2
  <1>4. ASSUME kind = "startOn", used["start"] # 0
        PROVE  run'.id + One(AboutToRun)' + One(RunIsDue)' <= Causes'
    <2>1. run.id + One(AboutToRun) + One(RunIsDue) <= Causes
      BY <1>4 DEF CausesInv
    <2>2. run'.id + One(AboutToRun)' + One(RunIsDue)' + Causes
            <= run.id + One(AboutToRun) + One(RunIsDue) + Causes'
      BY <1>4
    <2>3. QED
      BY <1>1, <1>2, <2>1, <2>2
  <1>5. QED
    BY <1>3, <1>4 DEF CausesInv

\* Reconcile is about to run the process when that is due, and then has acted
\* upon all that it has read.
LEMMA FetchKeepsAccounts ==
  ASSUME IInv, IInv', CausesInv, Fetch
  PROVE  CausesInv'
  <1>1. /\ TypeOK /\ TypeOK' /\ proc \in AnyProc /\ run \in AnyRun
        /\ cached \in Object /\ step = "idle"
    BY DEF IInv, TypeOK, Fetch, Unlocked
  <1>2. UNCHANGED <<kind, object, cached, disabled, used, force>>
    BY DEF Fetch, api
  <1>3. /\ proc'.spec = proc.spec /\ proc'.start = proc.start
        /\ proc'.restart = proc.restart
    <2>1. proc' = proc \/ proc' = [proc EXCEPT !.status.disabled = disabled]
      BY DEF Fetch
    <2>2. QED
      BY <1>1, <2>1 DEF AnyProc
  <1>4. run'.id = run.id
    BY <1>1 DEF Fetch, Canceled, AnyRun
  <1>5. Causes' = Causes /\ Causes \in Nat /\ run.id \in Nat
        /\ used["start"] \in Nat /\ used["restart"] \in Nat
    BY <1>1, <1>2, CausesRules DEF Causes
  <1>6. /\ req'.then = Decision(cached.spec) /\ req'.spec = cached.spec
        /\ req'.start = IF kind = "startOn" THEN used["start"] ELSE 0
        /\ req'.restart = used["restart"]
        /\ step' = IF Decision(cached.spec) = "nothing" THEN "report" ELSE "stop"
    BY DEF Fetch
  <1>7. /\ ~AboutToRun
        /\ ActedUpon = [spec |-> proc.spec, start |-> proc.start,
                        restart |-> proc.restart]
    BY <1>1 DEF AboutToRun, ActedUpon
  <1>8. object'.exists => cached'.exists
    BY <1>2 DEF CausesInv
  <1>9. CASE Decision(cached.spec) = "run"
    <2>1. /\ cached.exists /\ disabled # "disabled" /\ kind # "local"
          /\ cached.spec # proc.spec \/ Triggered
          /\ cached.spec # proc.spec => kind # "startOn" \/ StartTriggered
      BY <1>9 DEF Decision
    <2>2. kind = "startOn" => Triggered
      BY <2>1 DEF Triggered
    <2>3. RunIsDue
      BY <1>1, <1>7, <2>1, <2>2, CausesRules
      DEF RunIsDue, Triggered, StartTriggered
    <2>4. kind = "startOn" => used["start"] # 0
      <3>1. SUFFICES ASSUME kind = "startOn", used["start"] = 0 PROVE FALSE
        OBVIOUS
      <3>2. proc.spec = NoSpec
        BY <3>1 DEF CausesInv
      <3>3. cached.spec # NoSpec
        BY <1>1, CmdAssumption DEF Object
      <3>4. ~StartTriggered
        BY <1>1, <3>1 DEF StartTriggered, AnyProc
      <3>5. QED
        BY <2>1, <3>1, <3>2, <3>3, <3>4
    <2>5. AboutToRun'
      BY <1>6, <1>9 DEF AboutToRun
    <2>6. ActedUpon' = [spec |-> cached.spec,
                        start |-> IF kind = "startOn" THEN used["start"] ELSE 0,
                        restart |-> used["restart"]]
      BY <1>6, <2>5 DEF ActedUpon
    <2>7. ~RunIsDue'
      BY <1>2, <1>5, <2>6 DEF RunIsDue
    <2>8. /\ One(AboutToRun)' = 1 /\ One(AboutToRun) = 0
          /\ One(RunIsDue)' = 0 /\ One(RunIsDue) = 1
          /\ One(object.spec # cached.spec)' = One(object.spec # cached.spec)
          /\ One(object.spec # cached.spec) \in Nat
      BY <1>2, <1>7, <2>3, <2>5, <2>7 DEF One
    <2>9. run'.id + One(AboutToRun)' + One(RunIsDue)' + Causes
            <= run.id + One(AboutToRun) + One(RunIsDue) + Causes'
      BY <1>4, <1>5, <2>8
    <2>10. run'.id + One(AboutToRun)' + One(RunIsDue)'
               + One(object.spec # cached.spec)' + Causes
             <= run.id + One(AboutToRun) + One(RunIsDue)
                  + One(object.spec # cached.spec) + Causes'
      BY <1>4, <1>5, <2>8
    <2>11. QED
      BY <1>1, <1>2, <1>8, <2>1, <2>4, <2>9, <2>10, AccountsBalance
  <1>10. CASE Decision(cached.spec) # "run"
    <2>1. ~AboutToRun'
      BY <1>6, <1>10 DEF AboutToRun
    <2>2. RunIsDue' => RunIsDue
      <3>1. SUFFICES ASSUME RunIsDue' PROVE RunIsDue
        OBVIOUS
      <3>2. cached.exists /\ disabled # "disabled"
        BY <1>2, <3>1 DEF RunIsDue
      <3>3. Decision(cached.spec) \notin {"delete", "reset"}
        BY <3>2 DEF Decision
      <3>4. ActedUpon' = ActedUpon
        BY <1>3, <1>6, <1>7, <2>1, <3>3 DEF ActedUpon
      <3>5. QED
        BY <1>2, <3>1, <3>4, DueKept
    <2>3. (AboutToRun' <=> AboutToRun)
      BY <1>7, <2>1
    <2>4. QED
      BY <1>1, <1>2, <1>3, <1>4, <1>5, <1>8, <2>2, <2>3, AccountsKept
  <1>11. QED
    BY <1>9, <1>10

\* It runs it, or forgets what it has acted upon as it has said it would.
LEMMA AfterStopKeepsAccounts ==
  ASSUME IInv, IInv', CausesInv, AfterStop
  PROVE  CausesInv'
  <1>1. /\ TypeOK /\ TypeOK' /\ proc \in AnyProc /\ run \in AnyRun
        /\ step = "stop" /\ req \in AnyRequest
    BY DEF IInv, TypeOK, AfterStop
  <1>2. UNCHANGED <<kind, object, cached, disabled, used, force, req>>
    BY DEF AfterStop, api
  <1>3. /\ proc' = Settled /\ step' \in {"idle", "report"}
        /\ run' = IF req.then = "run" THEN NextRun(FALSE) ELSE run
    BY DEF AfterStop
  <1>4. /\ Causes' = Causes /\ Causes \in Nat /\ run.id \in Nat
        /\ ~AboutToRun'
    BY <1>1, <1>2, <1>3, CausesRules DEF Causes, AboutToRun
  <1>5. ActedUpon' = [spec |-> proc'.spec, start |-> proc'.start,
                      restart |-> proc'.restart]
    BY <1>3, <1>4 DEF ActedUpon
  <1>6. object'.exists => cached'.exists
    BY <1>2 DEF CausesInv
  <1>7. CASE req.then = "run"
    <2>1. AboutToRun
      BY <1>1, <1>7 DEF AboutToRun
    <2>2. /\ kind # "local"
          /\ kind = "startOn" => used["start"] # 0
      BY <2>1 DEF CausesInv
    <2>3. run'.id = run.id + 1
      BY <1>3, <1>7 DEF NextRun, NoRun
    <2>4. /\ proc'.spec = req.spec /\ proc'.start = req.start
          /\ proc'.restart = req.restart
      <3>1. proc' = Launched(req.spec, req.start, req.restart)
        BY <1>3, <1>7 DEF Settled
      <3> DEFINE p == [proc EXCEPT !.spec = req.spec, !.cancelable = TRUE,
                                   !.start = req.start, !.restart = req.restart]
                 state == IF probe = "invalid" THEN "terminated" ELSE "waiting"
      <3>2. p \in AnyProc /\ p.spec = req.spec /\ p.start = req.start
            /\ p.restart = req.restart
        BY <1>1 DEF AnyProc, AnyRequest
      <3>3. proc' = [p EXCEPT !.status.state = state, !.status.ready = FALSE,
                              !.status.run = run.id + 1]
        BY <3>1 DEF Launched
      <3> HIDE DEF p, state
      <3>4. proc'.spec = p.spec /\ proc'.start = p.start
            /\ proc'.restart = p.restart
        BY <3>2, <3>3 DEF AnyProc
      <3>5. QED
        BY <3>2, <3>4
    <2>5. RunIsDue' = RunIsDue
      <3>1. ActedUpon' = ActedUpon
        BY <1>5, <2>1, <2>4 DEF ActedUpon
      <3>2. QED
        BY <1>2, <3>1 DEF RunIsDue
    <2>6. /\ One(AboutToRun)' = 0 /\ One(AboutToRun) = 1
          /\ One(RunIsDue)' = One(RunIsDue) /\ One(RunIsDue) \in Nat
          /\ One(object.spec # cached.spec)' = One(object.spec # cached.spec)
          /\ One(object.spec # cached.spec) \in Nat
      BY <1>2, <1>4, <2>1, <2>5 DEF One
    <2>7. run'.id + One(AboutToRun)' + One(RunIsDue)' + Causes
            <= run.id + One(AboutToRun) + One(RunIsDue) + Causes'
      BY <1>4, <2>3, <2>6
    <2>8. run'.id + One(AboutToRun)' + One(RunIsDue)'
              + One(object.spec # cached.spec)' + Causes
            <= run.id + One(AboutToRun) + One(RunIsDue)
                 + One(object.spec # cached.spec) + Causes'
      BY <1>4, <2>3, <2>6
    <2>9. QED
      BY <1>1, <1>2, <1>6, <2>2, <2>7, <2>8, AccountsBalance
  <1>8. CASE req.then # "run"
    <2>1. req.then \in {"delete", "reset", "wait"}
      BY <1>1, <1>8 DEF AnyRequest, IInv, NothingIsLeft
    <2>2. ~AboutToRun /\ run' = run
      BY <1>3, <1>8 DEF AboutToRun
    <2>3. CASE req.then \in {"delete", "reset"}
      <3>1. ActedUpon = [spec |-> NoSpec, start |-> 0, restart |-> 0]
        BY <1>1, <2>2, <2>3 DEF ActedUpon
      <3>2. proc'.spec = NoSpec /\ proc'.start = 0 /\ proc'.restart = 0
        <4>1. CASE req.then = "delete"
          BY <1>3, <4>1 DEF Settled, NoProc
        <4>2. CASE req.then = "reset"
          <5>1. proc' = [proc EXCEPT !.cancelable = FALSE, !.spec = NoSpec,
                                     !.start = 0, !.restart = 0]
            BY <1>3, <4>2 DEF Settled
          <5>2. QED
            BY <1>1, <5>1 DEF AnyProc
        <4>3. QED
          BY <2>3, <4>1, <4>2
      <3>3. RunIsDue' => RunIsDue
        BY <1>2, <1>5, <3>1, <3>2, DueKept
      <3>4. (AboutToRun' <=> AboutToRun)
        BY <1>4, <2>2
      <3>5. QED
        BY <1>1, <1>2, <1>4, <1>6, <2>2, <3>2, <3>3, <3>4, AccountsKept
    <2>4. CASE req.then = "wait"
      <3>1. /\ proc'.spec = proc.spec /\ proc'.start = proc.start
            /\ proc'.restart = proc.restart
        <4>1. proc' = [proc EXCEPT !.cancelable = FALSE,
                                   !.status.state = "waitingOnStart",
                                   !.status.ready = FALSE]
          BY <1>3, <2>4 DEF Settled
        <4>2. QED
          BY <1>1, <4>1 DEF AnyProc
      <3>2. ActedUpon' = ActedUpon
        BY <1>5, <2>2, <2>4, <3>1 DEF ActedUpon
      <3>3. RunIsDue' => RunIsDue
        BY <1>2, <3>2, DueKept
      <3>4. (AboutToRun' <=> AboutToRun)
        BY <1>4, <2>2
      <3>5. QED
        BY <1>1, <1>2, <1>4, <1>6, <2>2, <3>1, <3>3, <3>4, AccountsKept
    <2>5. QED
      BY <2>1, <2>3, <2>4
  <1>9. QED
    BY <1>7, <1>8

LEMMA ReportAndProbeKeepAccounts ==
  ASSUME IInv, IInv', CausesInv, Report \/ Probe
  PROVE  CausesInv'
  <1>1. TypeOK /\ TypeOK' /\ run \in AnyRun /\ object \in Object
    BY DEF IInv, TypeOK
  <1>2. UNCHANGED <<kind, cached, disabled, proc, force>>
    BY DEF Report, Probe, api
  <1>3. CASE Report
    <2>1. /\ object' = object \/ object' = [object EXCEPT !.status = proc.status]
          /\ UNCHANGED <<run, used>> /\ step = "report" /\ step' = "idle"
      BY <1>3 DEF Report
    <2>2. object'.spec = object.spec /\ object'.exists = object.exists
      BY <1>1, <2>1 DEF Object
    <2>3. /\ ~AboutToRun /\ ~AboutToRun' /\ ActedUpon' = ActedUpon
      BY <1>2, <2>1 DEF AboutToRun, ActedUpon
    <2>4. RunIsDue' => RunIsDue
      BY <1>2, <2>1, <2>3, DueKept
    <2>5. /\ Causes' >= Causes
          /\ object'.exists => cached'.exists
      BY <1>1, <1>2, <2>1, <2>2, CausesRules DEF Causes, CausesInv
    <2>6. QED
      BY <1>1, <1>2, <2>1, <2>2, <2>3, <2>4, <2>5, AccountsKept
  <1>4. CASE Probe
    <2>1. /\ UNCHANGED <<object, step, req>> /\ run'.id = run.id
      BY <1>1, <1>4 DEF Probe, api, AnyRun
    <2>2. \A e \in Events \ {"probe"} : used'[e] = used[e]
      BY <1>1, <1>4, CountRules DEF Probe, Events
    <2>3. (AboutToRun' <=> AboutToRun) /\ ActedUpon' = ActedUpon
      BY <1>2, <2>1 DEF AboutToRun, ActedUpon
    <2>4. used'["start"] = used["start"] /\ used'["restart"] = used["restart"]
          /\ used'["toggle"] = used["toggle"] /\ used'["force"] = used["force"]
          /\ used'["update"] = used["update"]
      BY <2>2 DEF Events
    <2>5. RunIsDue' => RunIsDue
      BY <1>2, <2>3, <2>4 DEF RunIsDue
    <2>6. Causes' = Causes
      BY <1>2, <2>4 DEF Causes
    <2>7. /\ Causes' >= Causes
          /\ object'.exists => cached'.exists
      BY <1>1, <1>2, <2>1, <2>6, CausesRules DEF CausesInv
    <2>8. QED
      BY <1>1, <1>2, <2>1, <2>3, <2>4, <2>5, <2>7, AccountsKept
  <1>5. QED
    BY <1>3, <1>4

\* The client sees at most one other spec than before, for which the run was
\* accounted when the object had it.
LEMMA CatchUpKeepsAccounts ==
  ASSUME IInv, IInv', CausesInv, CatchUp
  PROVE  CausesInv'
  <1>1. TypeOK /\ TypeOK'
    BY DEF IInv
  <1>2. /\ UNCHANGED <<kind, object, disabled, step, req, proc, run, used, force>>
        /\ cached' = object
    BY DEF CatchUp
  <1>3. /\ (AboutToRun' <=> AboutToRun) /\ ActedUpon' = ActedUpon
    BY <1>2 DEF AboutToRun, ActedUpon
  <1>4. /\ Causes' = Causes /\ Causes \in Nat /\ run.id \in Nat
        /\ object.exists => cached.exists
    BY <1>1, <1>2, CausesRules DEF Causes, CausesInv
  <1>5. CASE kind = "plain" /\ object.spec # cached.spec
    <2>1. /\ One(object.spec # cached.spec) = 1
          /\ One(object.spec # cached.spec)' = 0
          /\ One(RunIsDue)' \in {0, 1} /\ One(RunIsDue) \in {0, 1}
          /\ One(AboutToRun)' = One(AboutToRun) /\ One(AboutToRun) \in Nat
      BY <1>2, <1>3, <1>5 DEF One
    <2>2. run'.id + One(AboutToRun)' + One(RunIsDue)'
              + One(object.spec # cached.spec)' + Causes
            <= run.id + One(AboutToRun) + One(RunIsDue)
                 + One(object.spec # cached.spec) + Causes'
      BY <1>2, <1>4, <2>1
    <2>3. QED
      BY <1>1, <1>2, <1>4, <1>5, <2>2, AccountsBalance
  <1>6. CASE kind # "plain" \/ object.spec = cached.spec
    <2>1. RunIsDue' => RunIsDue
      BY <1>2, <1>3, <1>4, <1>6 DEF RunIsDue
    <2>2. Causes' >= Causes
      BY <1>4
    <2>3. QED
      BY <1>1, <1>2, <1>3, <1>4, <2>1, <2>2, AccountsKept
  <1>7. QED
    BY <1>5, <1>6

\* A change of the spec, a deletion.
LEMMA WritesKeepAccounts ==
  ASSUME IInv, IInv', CausesInv, UpdateSpec \/ DeleteObject
  PROVE  CausesInv'
  <1>1. TypeOK /\ TypeOK' /\ object \in Object /\ req \in AnyRequest
    BY DEF IInv, TypeOK
  <1>2. /\ UNCHANGED <<kind, cached, disabled, step, proc, run, force>>
        /\ req' = [req EXCEPT !.fresh = FALSE]
    BY DEF UpdateSpec, DeleteObject, Write
  <1>3. /\ req'.then = req.then /\ req'.spec = req.spec
        /\ req'.start = req.start /\ req'.restart = req.restart
    BY <1>1, <1>2 DEF AnyRequest
  <1>4. /\ (AboutToRun' <=> AboutToRun) /\ ActedUpon' = ActedUpon
    BY <1>2, <1>3, ActedUponKept
  <1>5. /\ used'["update"] = used["update"] + 1
        /\ \A e \in Events \ {"update"} : used'[e] = used[e]
    BY <1>1, CountRules, CausesRules DEF UpdateSpec, DeleteObject
  <1>6. /\ used'["start"] = used["start"] /\ used'["restart"] = used["restart"]
        /\ used'["toggle"] = used["toggle"] /\ used'["force"] = used["force"]
    BY <1>5 DEF Events
  <1>7. /\ object'.exists => cached'.exists
        /\ object'.spec # cached'.spec =>
             UpdateSpec \/ object.spec # cached.spec
    <2>1. CASE UpdateSpec
      BY <1>2, <2>1 DEF UpdateSpec, CausesInv
    <2>2. CASE DeleteObject
      <3>1. object.exists /\ object' = [object EXCEPT !.exists = FALSE]
        BY <2>2 DEF DeleteObject, Write
      <3>2. object'.spec = object.spec
        BY <1>1, <3>1 DEF Object
      <3>3. QED
        BY <1>2, <3>1, <3>2 DEF CausesInv
    <2>3. QED
      BY <2>1, <2>2
  <1>8. RunIsDue' => RunIsDue
    BY <1>2, <1>4, <1>6 DEF RunIsDue
  <1>9. /\ Causes \in Nat /\ run.id \in Nat
        /\ kind = "plain" => Causes' = Causes + 1
        /\ kind # "plain" => Causes' = Causes
    <2>1. used["update"] \in Nat /\ used["restart"] \in Nat
          /\ used["toggle"] \in Nat /\ used["start"] \in Nat
          /\ kind \in {"local", "startOn", "plain"} /\ Causes \in Nat
          /\ run.id \in Nat
      BY <1>1, CausesRules
    <2>2. CASE kind = "plain"
      BY <1>2, <1>5, <1>6, <2>1, <2>2 DEF Causes
    <2>3. CASE kind # "plain"
      BY <1>2, <1>5, <1>6, <2>1, <2>3 DEF Causes
    <2>4. QED
      BY <2>1, <2>2, <2>3
  <1>10. CASE kind = "plain"
    <2>1. /\ One(object.spec # cached.spec) \in {0, 1}
          /\ One(object.spec # cached.spec)' \in {0, 1}
          /\ One(RunIsDue)' \in {0, 1} /\ One(RunIsDue) \in {0, 1}
          /\ One(RunIsDue)' <= One(RunIsDue)
          /\ One(AboutToRun)' = One(AboutToRun) /\ One(AboutToRun) \in Nat
      BY <1>4, <1>8 DEF One
    <2>2. run'.id + One(AboutToRun)' + One(RunIsDue)'
              + One(object.spec # cached.spec)' + Causes
            <= run.id + One(AboutToRun) + One(RunIsDue)
                 + One(object.spec # cached.spec) + Causes'
      BY <1>2, <1>9, <1>10, <2>1
    <2>3. QED
      BY <1>1, <1>2, <1>6, <1>7, <1>10, <2>2, AccountsBalance
  <1>11. CASE kind # "plain"
    <2>1. run.id \in Nat /\ Causes \in Nat /\ Causes' = Causes
      BY <1>9, <1>11
    <2>2. /\ One(RunIsDue)' \in {0, 1} /\ One(RunIsDue) \in {0, 1}
          /\ One(RunIsDue)' <= One(RunIsDue)
          /\ One(AboutToRun)' = One(AboutToRun) /\ One(AboutToRun) \in Nat
      BY <1>4, <1>8 DEF One
    <2>3. CASE kind = "local"
      <3>1. AboutToRun' <=> AboutToRun
        BY <1>4
      <3>2. /\ kind' = "local" /\ run' = run /\ force' = force
            /\ Causes' = Causes
            /\ object'.exists => cached'.exists
        BY <1>2, <1>7, <2>1, <2>3
      <3>3. QED
        BY <2>3, <3>1, <3>2 DEF CausesInv
    <2>4. CASE kind # "local"
      <3>1. run'.id + One(AboutToRun)' + One(RunIsDue)' + Causes
              <= run.id + One(AboutToRun) + One(RunIsDue) + Causes'
        BY <1>2, <2>1, <2>2
      <3>2. used["start"] = 0 /\ kind = "startOn" =>
              run'.id = 0 /\ ~AboutToRun' /\ proc'.spec = NoSpec
        BY <1>2, <1>4 DEF CausesInv
      <3>3. QED
        BY <1>1, <1>2, <1>6, <1>7, <1>11, <2>4, <3>1, <3>2, AccountsBalance
    <2>5. QED
      BY <2>3, <2>4
  <1>12. QED
    BY <1>10, <1>11

\* A click, or an enabling, which each may be the cause of one run more.
LEMMA ClicksKeepAccounts ==
  ASSUME IInv, IInv', CausesInv, NEW e \in {"start", "restart"}, Click(e)
  PROVE  CausesInv'
  <1>1. TypeOK /\ TypeOK'
    BY DEF IInv, TypeOK
  <1>2. /\ UNCHANGED <<kind, object, cached, disabled, step, req, proc, run>>
        /\ kind # "local"
        /\ e = "start" => kind = "startOn"
    BY DEF Click, api
  <1>3. /\ (AboutToRun' <=> AboutToRun) /\ ActedUpon' = ActedUpon
    BY <1>2 DEF AboutToRun, ActedUpon
  <1>4. /\ used'[e] = used[e] + 1
        /\ \A d \in Events \ {e} : used'[d] = used[d]
    BY <1>1, CountRules, CausesRules DEF Click
  <1>5. /\ used'["update"] = used["update"] /\ used'["toggle"] = used["toggle"]
        /\ e = "start" => used'["restart"] = used["restart"]
        /\ e = "restart" => used'["start"] = used["start"]
    BY <1>4 DEF Events
  <1>6. /\ used["update"] \in Nat /\ used["restart"] \in Nat
        /\ used["toggle"] \in Nat /\ used["start"] \in Nat
        /\ run.id \in Nat /\ Causes \in Nat
    BY <1>1, CausesRules
  <1>7. /\ One(RunIsDue)' \in {0, 1} /\ One(RunIsDue) \in {0, 1}
        /\ One(AboutToRun)' = One(AboutToRun) /\ One(AboutToRun) \in Nat
        /\ One(object.spec # cached.spec)' = One(object.spec # cached.spec)
        /\ One(object.spec # cached.spec) \in Nat
    BY <1>2, <1>3 DEF One
  <1>8. object'.exists => cached'.exists
    BY <1>2 DEF CausesInv
  <1>9. CASE used["start"] = 0 /\ e = "start"
    <2>1. /\ kind = "startOn" /\ run.id = 0 /\ ~AboutToRun'
          /\ used'["start"] = 1
      BY <1>2, <1>3, <1>4, <1>9 DEF CausesInv
    <2>2. Causes' = 1 + used["restart"] + used["toggle"]
      BY <1>2, <1>5, <1>9, <2>1 DEF Causes
    <2>3. One(AboutToRun)' = 0
      BY <2>1 DEF One
    <2>4. run'.id + One(AboutToRun)' + One(RunIsDue)' <= Causes'
      BY <1>2, <1>6, <1>7, <2>1, <2>2, <2>3
    <2>5. QED
      BY <1>2, <1>8, <2>1, <2>4 DEF CausesInv
  <1>10. CASE used["start"] # 0 /\ e = "start"
    <2>1. /\ kind = "startOn" /\ used'["start"] # 0
          /\ Causes = used["start"] + used["restart"] + used["toggle"]
          /\ Causes' = used["start"] + 1 + used["restart"] + used["toggle"]
      BY <1>2, <1>4, <1>5, <1>6, <1>10 DEF Causes
    <2>2. run.id + One(AboutToRun) + One(RunIsDue) <= Causes
      BY <1>10, <2>1 DEF CausesInv
    <2>3. run'.id + One(AboutToRun)' + One(RunIsDue)' <= Causes'
      BY <1>2, <1>6, <1>7, <2>1, <2>2
    <2>4. QED
      BY <1>2, <1>8, <2>1, <2>3 DEF CausesInv
  <1>11. CASE e = "restart"
    <2>1. /\ used'["start"] = used["start"]
          /\ used'["restart"] = used["restart"] + 1
      BY <1>4, <1>5, <1>11
    <2>2. /\ kind = "plain" => Causes' = Causes + 1
          /\ kind = "startOn" /\ used["start"] # 0 => Causes' = Causes + 1
      BY <1>2, <1>5, <1>6, <2>1 DEF Causes
    <2>3. used["start"] = 0 /\ kind = "startOn" =>
            run'.id = 0 /\ ~AboutToRun' /\ proc'.spec = NoSpec
      BY <1>2, <1>3 DEF CausesInv
    <2>4. used["start"] # 0 /\ kind = "startOn" =>
            run'.id + One(AboutToRun)' + One(RunIsDue)' + Causes
              <= run.id + One(AboutToRun) + One(RunIsDue) + Causes'
      BY <1>2, <1>6, <1>7, <2>2
    <2>5. kind = "plain" =>
            run'.id + One(AboutToRun)' + One(RunIsDue)'
                + One(object.spec # cached.spec)' + Causes
              <= run.id + One(AboutToRun) + One(RunIsDue)
                   + One(object.spec # cached.spec) + Causes'
      BY <1>2, <1>6, <1>7, <2>2
    <2>6. QED
      BY <1>1, <1>2, <1>8, <2>1, <2>3, <2>4, <2>5, AccountsBalance
  <1>12. QED
    BY <1>9, <1>10, <1>11

LEMMA TogglesKeepAccounts ==
  ASSUME IInv, IInv', CausesInv, Toggle
  PROVE  CausesInv'
  <1>1. TypeOK /\ TypeOK'
    BY DEF IInv, TypeOK
  <1>2. UNCHANGED <<kind, object, cached, step, req, proc, run, force>>
    BY DEF Toggle
  <1>3. /\ (AboutToRun' <=> AboutToRun) /\ ActedUpon' = ActedUpon
    BY <1>2 DEF AboutToRun, ActedUpon
  <1>4. object'.exists => cached'.exists
    BY <1>2 DEF CausesInv
  <1>5. Causes \in Nat /\ run.id \in Nat
    BY <1>1, CausesRules
  <1>6. CASE disabled = "pending"
    <2>1. used' = used
      BY <1>6 DEF Toggle
    <2>2. RunIsDue' => RunIsDue
      BY <1>2, <1>3, <1>6, <2>1 DEF RunIsDue
    <2>3. Causes' >= Causes
      BY <1>2, <1>5, <2>1 DEF Causes
    <2>4. QED
      BY <1>1, <1>2, <1>3, <1>4, <2>1, <2>2, <2>3, AccountsKept
  <1>7. CASE disabled # "pending"
    <2>1. /\ used'["toggle"] = used["toggle"] + 1
          /\ \A d \in Events \ {"toggle"} : used'[d] = used[d]
      BY <1>1, <1>7, CountRules, CausesRules DEF Toggle
    <2>2. /\ used'["update"] = used["update"]
          /\ used'["restart"] = used["restart"]
          /\ used'["start"] = used["start"] /\ used'["force"] = used["force"]
      BY <2>1 DEF Events
    <2>3. /\ used["update"] \in Nat /\ used["restart"] \in Nat
          /\ used["toggle"] \in Nat /\ used["start"] \in Nat
      BY <1>1, CausesRules
    <2>4. /\ kind = "plain" => Causes' = Causes + 1
          /\ kind = "startOn" /\ used["start"] # 0 => Causes' = Causes + 1
          /\ kind = "local" => Causes' = Causes
      BY <1>2, <2>1, <2>2, <2>3 DEF Causes
    <2>5. /\ One(RunIsDue)' \in {0, 1} /\ One(RunIsDue) \in {0, 1}
          /\ One(AboutToRun)' = One(AboutToRun) /\ One(AboutToRun) \in Nat
          /\ One(object.spec # cached.spec)' = One(object.spec # cached.spec)
          /\ One(object.spec # cached.spec) \in Nat
      BY <1>2, <1>3 DEF One
    <2>6. CASE kind = "local"
      <3>1. AboutToRun' <=> AboutToRun
        BY <1>3
      <3>2. /\ kind' = "local" /\ run' = run /\ force' = force
            /\ Causes' = Causes
            /\ object'.exists => cached'.exists
        BY <1>2, <1>4, <2>4, <2>6
      <3>3. QED
        BY <2>6, <3>1, <3>2 DEF CausesInv
    <2>7. CASE kind # "local"
      <3>1. used["start"] = 0 /\ kind = "startOn" =>
              run'.id = 0 /\ ~AboutToRun' /\ proc'.spec = NoSpec
        BY <1>2, <1>3 DEF CausesInv
      <3>2. used["start"] # 0 /\ kind = "startOn" =>
              run'.id + One(AboutToRun)' + One(RunIsDue)' + Causes
                <= run.id + One(AboutToRun) + One(RunIsDue) + Causes'
        BY <1>2, <1>5, <2>4, <2>5
      <3>3. kind = "plain" =>
              run'.id + One(AboutToRun)' + One(RunIsDue)'
                  + One(object.spec # cached.spec)' + Causes
                <= run.id + One(AboutToRun) + One(RunIsDue)
                     + One(object.spec # cached.spec) + Causes'
        BY <1>2, <1>5, <2>4, <2>5
      <3>4. QED
        BY <1>1, <1>2, <1>4, <2>2, <2>7, <3>1, <3>2, <3>3, AccountsBalance
    <2>8. QED
      BY <2>6, <2>7
  <1>8. QED
    BY <1>6, <1>7

LEMMA CausesAreInductive ==
  IInv /\ IInv' /\ CausesInv /\ [Next]_vars => CausesInv'
  <1>1. SUFFICES ASSUME IInv, IInv', CausesInv, [Next]_vars PROVE CausesInv'
    OBVIOUS
  <1>2. CASE Fetch \/ AfterStop \/ Report \/ Probe
    BY <1>1, <1>2, FetchKeepsAccounts, AfterStopKeepsAccounts,
       ReportAndProbeKeepAccounts
  <1>3. CASE \/ Goroutines \/ ForceLock \/ ForceWait \/ ForceRead \/ ForceCancel
             \/ ApplyReport \/ \E r \in alive : Die(r)
    BY <1>1, <1>3, QuietStepsKeepAccounts
  <1>4. CASE ForceGet \/ ForceStart
    BY <1>1, <1>4, BuildsKeepAccounts
  <1>5. CASE CatchUp
    BY <1>1, <1>5, CatchUpKeepsAccounts
  <1>6. CASE UpdateSpec \/ DeleteObject
    BY <1>1, <1>6, WritesKeepAccounts
  <1>7. CASE \E e \in {"start", "restart"} : Click(e)
    BY <1>1, <1>7, ClicksKeepAccounts
  <1>8. CASE Toggle
    BY <1>1, <1>8, TogglesKeepAccounts
  <1>9. CASE UNCHANGED vars
    <2>1. UNCHANGED <<kind, object, cached, disabled, step, req, proc, run,
                      force, used>>
      BY <1>9 DEF vars, api
    <2>2. (AboutToRun' <=> AboutToRun) /\ ActedUpon' = ActedUpon
      BY <2>1 DEF AboutToRun, ActedUpon
    <2>3. RunIsDue' => RunIsDue
      BY <2>1, <2>2, DueKept
    <2>4. Causes' >= Causes
      BY <1>1, <2>1, CausesRules DEF Causes, IInv
    <2>5. object'.exists => cached'.exists
      BY <1>1, <2>1 DEF CausesInv
    <2>6. TypeOK /\ TypeOK'
      BY <1>1 DEF IInv
    <2>7. QED
      BY <1>1, <2>1, <2>2, <2>3, <2>4, <2>5, <2>6, AccountsKept
  <1>10. QED
    BY <1>1, <1>2, <1>3, <1>4, <1>5, <1>6, <1>7, <1>8, <1>9
    DEF Next, Reconcile, ForceRun, World

\* However often it is reconciled, and however late the client is: a command
\* runs once at first and once for each change, click or enabling, one that
\* waits for its button only after a click, that of a build once a build.
THEOREM EveryRunHasACause == Spec => []RunsHaveCauses
  <1>1. Init => CausesInv
    <2>1. SUFFICES ASSUME Init PROVE CausesInv
      OBVIOUS
    <2>2. TypeOK
      BY <2>1, InitIInv DEF IInv
    <2>3. /\ \A e \in Events : used[e] = 0
          /\ run.id = 0 /\ step = "idle" /\ object.exists /\ cached = object
          /\ force.step = "idle" /\ proc.spec = NoSpec
      BY <2>1 DEF Init, NoRun, NoForce, NoProc
    <2>4. ~AboutToRun /\ One(AboutToRun) = 0 /\ One(object.spec # cached.spec) = 0
      BY <2>3 DEF AboutToRun, One
    <2>5. One(RunIsDue) \in {0, 1}
      BY DEF One
    <2>6. One(force.step \in {"locking", "stopping"}) = 0
      BY <2>3 DEF One
    <2>7. /\ kind = "plain" => Causes = 1
          /\ kind = "local" => Causes = 0
          /\ used["start"] = 0
      BY <2>2, <2>3, CausesRules
    <2>8. QED
      BY <2>3, <2>4, <2>5, <2>6, <2>7 DEF CausesInv
  <1>2. IInv /\ CausesInv => RunsHaveCauses
    <2>1. SUFFICES ASSUME IInv, CausesInv PROVE run.id <= Causes
      BY DEF RunsHaveCauses
    <2>2. /\ One(AboutToRun) \in Nat /\ One(RunIsDue) \in Nat
          /\ One(object.spec # cached.spec) \in Nat
          /\ One(force.step \in {"locking", "stopping"}) \in Nat
      BY DEF One
    <2>3. /\ run.id \in Nat /\ Causes \in Nat
          /\ kind \in {"local", "startOn", "plain"}
      BY <2>1, CausesRules DEF IInv
    <2>4. CASE kind = "plain"
      <3>1. run.id + One(AboutToRun) + One(RunIsDue)
              + One(object.spec # cached.spec) <= Causes
        BY <2>1, <2>4 DEF CausesInv
      <3>2. QED
        BY <2>2, <2>3, <3>1
    <2>5. CASE kind = "startOn" /\ used["start"] # 0
      <3>1. run.id + One(AboutToRun) + One(RunIsDue) <= Causes
        BY <2>1, <2>5 DEF CausesInv
      <3>2. QED
        BY <2>2, <2>3, <3>1
    <2>6. CASE kind = "startOn" /\ used["start"] = 0
      BY <2>1, <2>3, <2>6 DEF CausesInv
    <2>7. CASE kind = "local"
      <3>1. run.id + One(force.step \in {"locking", "stopping"}) <= Causes
        BY <2>1, <2>7 DEF CausesInv
      <3>2. QED
        BY <2>2, <2>3, <3>1
    <2>8. QED
      BY <2>3, <2>4, <2>5, <2>6, <2>7
  <1>3. QED
    BY <1>1, <1>2, InitIInv, IInvIsInductive, CausesAreInductive, PTL DEF Spec

=============================================================================
