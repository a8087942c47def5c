------------------------------ MODULE LocalServe ------------------------------
(***************************************************************************)
(* A local server (serve_cmd) through all its parts: the server controller *)
(* (internal/engine/local), a subscriber of the store that creates and     *)
(* deletes Cmd objects; the reducers of its actions; and the controller of *)
(* Cmd objects with its work queue, which starts and stops the processes   *)
(* (module Cmd has the details of one object).                             *)
(*                                                                         *)
(* The Cmd objects of the server are numbered in the order of their        *)
(* creation.  The version of the server stands for its command and for the *)
(* time of its last deploy.  The work queue hands out each object at most  *)
(* once at a time, in the order in which the objects were added to it.     *)
(***************************************************************************)
EXTENDS Integers, Sequences, FiniteSets, SequencesExt

CONSTANT MaxEvents           \* how much may happen to a server

ASSUME LocalServeAssumption == MaxEvents \in Nat

VARIABLES
  manifest,                   \* the resource in the engine state
  disabled,                   \* its config map
  cmds, cmdName, runtime,     \* state.Cmds, the runtime state of the resource
  actions,                    \* dispatched and not yet reduced
  dirty,                      \* OnChange of the server controller is due
  server,                     \* where OnChange is, and what it has read
  recent, created, count,     \* recentlyCreatedCmd, createdTriggerTime
  api,                        \* the Cmd objects on the API server
  queue, busy,                \* work queue and Reconcile of the Cmd controller
  procs, alive, killed,       \* its processes
  events                      \* the bound used up

engine     == <<manifest, cmds, cmdName, runtime>>
controller == <<dirty, server, recent, created, count>>
commands   == <<queue, busy, procs, alive, killed>>
vars == <<engine, disabled, actions, controller, api, commands, events>>

\* Every object is made for an event or for a first time.
Ids == 1..(1 + MaxEvents)

Gone == [exists |-> FALSE, version |-> 0, status |-> "none"]

NoProc == [status |-> "none", phase |-> "none"]

Idle == [step |-> "idle", version |-> 0, building |-> FALSE, owned |-> {},
         terminated |-> FALSE, todo |-> {}, create |-> FALSE]

Free == [step |-> "idle", cmd |-> 0]

Init ==
  /\ manifest = [present |-> TRUE, version |-> 1, building |-> FALSE]
  /\ disabled = FALSE
  /\ cmds = [c \in {} |-> "none"] /\ cmdName = 0 /\ runtime = "unknown"
  /\ actions = <<>> /\ dirty = TRUE
  /\ server = Idle /\ recent = 0 /\ created = 0 /\ count = 0
  /\ api = [c \in Ids |-> Gone]
  /\ queue = <<>> /\ busy = Free
  /\ procs = [c \in Ids |-> NoProc] /\ alive = {} /\ killed = {}
  /\ events = 0

\* What the work queue does with an object that is added.
Added(q, c) == IF c \in ToSet(q) THEN q ELSE Append(q, c)

Dispatch(a) == actions' = Append(actions, a)

-----------------------------------------------------------------------------
(* The reducers *)

Without(f, c) == [d \in DOMAIN f \ {c} |-> f[d]]

With(f, c, x) == [d \in DOMAIN f \cup {c} |-> IF d = c THEN x ELSE f[d]]

\* HandleCmdCreateAction.  Without the resource the object is not remembered.
ReduceCreate(c) ==
  IF manifest.present
  THEN /\ cmdName' = c /\ cmds' = With(cmds, c, "none") /\ runtime' = "none"
  ELSE UNCHANGED <<cmds, cmdName, runtime>>

\* HandleCmdUpdateStatusAction and updateLocalRuntimeStatus: what is not known
\* is ignored, and forgotten when the resource is gone.
ReduceUpdate(c, status) ==
  /\ cmds' = IF c \notin DOMAIN cmds THEN cmds
             ELSE IF manifest.present THEN With(cmds, c, status)
             ELSE Without(cmds, c)
  /\ runtime' = IF c \in DOMAIN cmds /\ manifest.present /\ c = cmdName
                THEN status ELSE runtime
  /\ UNCHANGED cmdName

\* HandleCmdDeleteAction.
ReduceDelete(c) ==
  cmds' = Without(cmds, c) /\ UNCHANGED <<cmdName, runtime>>

Reduce ==
  /\ actions # <<>>
  /\ actions' = Tail(actions)
  /\ LET a == Head(actions) IN
       \/ a.type = "create" /\ ReduceCreate(a.cmd)
       \/ a.type = "update" /\ ReduceUpdate(a.cmd, a.status)
       \/ a.type = "delete" /\ ReduceDelete(a.cmd)
  /\ dirty' = TRUE
  /\ UNCHANGED <<manifest, disabled, server, recent, created, count, api,
                 commands, events>>

-----------------------------------------------------------------------------
(* OnChange of the server controller *)

\* determineServers, under the read lock of the store.
Observe ==
  /\ server.step = "idle" /\ dirty
  /\ dirty' = FALSE
  /\ LET owned == DOMAIN cmds IN
     server' = [Idle EXCEPT
       !.step = IF manifest.present THEN "reconcile" ELSE "delete",
       !.version = manifest.version, !.building = manifest.building,
       !.owned = owned,
       !.terminated = \A c \in owned : cmds[c] = "terminated",
       !.todo = IF manifest.present THEN {} ELSE owned]
  /\ UNCHANGED <<engine, disabled, actions, recent, created, count, api,
                 commands, events>>

\* Mutant: the object that was created last is not waited for.
MutSeen == TRUE

\* The object that was created last has been seen.
Seen == recent = 0 \/ recent \in server.owned

UpToDate ==
  /\ server.owned # {} /\ created = server.version
  /\ api[CHOOSE c \in server.owned : \A d \in server.owned : d <= c].version
       = server.version

\* reconcile: what is to be deleted and whether a new one is to be created.
Decide ==
  /\ server.step = "reconcile"
  /\ recent' = IF ~disabled /\ ~server.building /\ Seen THEN 0 ELSE recent
  /\ server' =
       IF disabled THEN [server EXCEPT !.step = "delete", !.todo = server.owned]
       ELSE IF server.building \/ ~Seen \/ UpToDate THEN Idle
       ELSE [server EXCEPT !.step = "delete", !.todo = server.owned,
                           !.create = server.terminated]
  /\ UNCHANGED <<engine, disabled, actions, dirty, created, count, api,
                 commands, events>>

\* deleteOwnedCmd and deleteOrphanedCmd: on the API server ...  (An orphan is
\* kept in mind, but a resource that is removed here does not come back.)
Delete(c) ==
  /\ server.step = "delete" /\ c \in server.todo
  /\ server' = [server EXCEPT !.step = "deleted"]
  /\ recent' = IF recent = c THEN 0 ELSE recent
  /\ api' = [api EXCEPT ![c].exists = FALSE]
  /\ queue' = IF api[c].exists THEN Added(queue, c) ELSE queue
  /\ UNCHANGED <<engine, disabled, actions, dirty, created, count, busy, procs,
                 alive, killed, events>>

\* ... and then in the engine.
DispatchDelete(c) ==
  /\ server.step = "deleted" /\ c \in server.todo /\ ~api[c].exists
  /\ Dispatch([type |-> "delete", cmd |-> c, status |-> "none"])
  /\ server' = [server EXCEPT !.step = "delete", !.todo = @ \ {c}]
  /\ UNCHANGED <<engine, disabled, dirty, recent, created, count, api, commands,
                 events>>

\* Nothing is left to delete.
Deleted ==
  /\ server.step = "delete" /\ server.todo = {}
  /\ server' = IF server.create THEN [server EXCEPT !.step = "create"] ELSE Idle
  /\ UNCHANGED <<engine, disabled, actions, dirty, recent, created, count, api,
                 commands, events>>

\* The next object is created on the API server ...
Create ==
  /\ server.step = "create" /\ count + 1 \in Ids
  /\ count' = count + 1 /\ created' = server.version /\ recent' = count + 1
  /\ api' = [api EXCEPT ![count + 1] =
               [exists |-> TRUE, version |-> server.version, status |-> "none"]]
  /\ queue' = Added(queue, count + 1)
  /\ server' = [server EXCEPT !.step = "created"]
  /\ UNCHANGED <<engine, disabled, actions, dirty, busy, procs, alive, killed,
                 events>>

\* Mutant: the name of the next object is dispatched.
MutDispatchCreate ==
  /\ server.step = "created"
  /\ Dispatch([type |-> "create", cmd |-> count + 1, status |-> "none"])
  /\ server' = Idle
  /\ UNCHANGED <<engine, disabled, dirty, recent, created, count, api, commands,
                 events>>

\* ... and then in the engine.
DispatchCreate ==
  /\ server.step = "created"
  /\ Dispatch([type |-> "create", cmd |-> count, status |-> "none"])
  /\ server' = Idle
  /\ UNCHANGED <<engine, disabled, dirty, recent, created, count, api, commands,
                 events>>

OnChange == \/ Observe \/ Decide \/ Deleted \/ Create \/ DispatchCreate
            \/ \E c \in Ids : Delete(c) \/ DispatchDelete(c)

-----------------------------------------------------------------------------
(* The controller of Cmd objects *)

\* Mutant: the process of an object that is gone is left alone.
MutTake ==
  /\ busy = Free /\ queue # <<>>
  /\ queue' = Tail(queue)
  /\ LET c == Head(queue) IN
     IF ~api[c].exists THEN UNCHANGED <<busy, procs>>
     ELSE /\ busy' = [step |-> "report", cmd |-> c]
          /\ procs' = IF procs[c] = NoProc
                      THEN [procs EXCEPT ![c] = [status |-> "waiting",
                                                 phase |-> "starting"]]
                      ELSE procs
  /\ UNCHANGED <<engine, disabled, actions, controller, api, alive, killed,
                 events>>

\* Reconcile of the first object in the queue: one that is gone is stopped,
\* one without a process gets one.
Take ==
  /\ busy = Free /\ queue # <<>>
  /\ queue' = Tail(queue)
  /\ LET c == Head(queue) IN
     IF ~api[c].exists
     THEN /\ busy' = [step |-> "stop", cmd |-> c]
          /\ procs' = [procs EXCEPT ![c].phase =
               IF @ \in {"starting", "running"} THEN "canceled" ELSE @]
     ELSE /\ busy' = [step |-> "report", cmd |-> c]
          /\ procs' = IF procs[c] = NoProc
                      THEN [procs EXCEPT ![c] = [status |-> "waiting",
                                                 phase |-> "starting"]]
                      ELSE procs
  /\ UNCHANGED <<engine, disabled, actions, controller, api, alive, killed,
                 events>>

\* Mutant: a process that was asked to end is not waited for.
MutEndStop ==
  /\ busy.step = "stop"
  /\ busy' = Free
  /\ UNCHANGED <<engine, disabled, actions, controller, api, queue, procs, alive,
                 killed, events>>

\* The process has ended.
EndStop ==
  /\ busy.step = "stop" /\ procs[busy.cmd].phase \in {"none", "closed"}
  /\ procs' = [procs EXCEPT ![busy.cmd] = NoProc]
  /\ busy' = Free
  /\ UNCHANGED <<engine, disabled, actions, controller, api, queue, alive,
                 killed, events>>

\* maybeUpdateObjectStatus; an error brings the object back into the queue.
UpdateStatus ==
  /\ busy.step = "report"
  /\ LET c == busy.cmd IN
       IF api[c].status = procs[c].status
       THEN busy' = Free /\ UNCHANGED <<api, queue>>
       ELSE IF ~api[c].exists
       THEN busy' = Free /\ queue' = Added(queue, c) /\ UNCHANGED api
       ELSE /\ api' = [api EXCEPT ![c].status = procs[c].status]
            /\ busy' = [busy EXCEPT !.step = "dispatch"]
            /\ UNCHANGED queue
  /\ UNCHANGED <<engine, disabled, actions, controller, procs, alive, killed,
                 events>>

\* The status that was written is dispatched.
DispatchStatus ==
  /\ busy.step = "dispatch"
  /\ Dispatch([type |-> "update", cmd |-> busy.cmd,
               status |-> api[busy.cmd].status])
  /\ busy' = Free
  /\ UNCHANGED <<engine, disabled, controller, api, queue, procs, alive, killed,
                 events>>

\* The goroutine of a process: it is started, also when it is already canceled,
StartProcess(c) ==
  /\ procs[c].phase = "starting" \/ (procs[c] = [status |-> "waiting",
                                                 phase |-> "canceled"])
  /\ procs' = [procs EXCEPT ![c].status = "running",
                            ![c].phase = IF @ = "starting" THEN "running" ELSE @]
  /\ alive' = alive \cup {c}
  /\ queue' = Added(queue, c)
  /\ UNCHANGED <<engine, disabled, actions, controller, api, busy, killed,
                 events>>

\* it ends, or is killed after a grace period.
EndProcess(c) ==
  /\ procs[c].phase \in {"running", "canceled"} /\ procs[c].status = "running"
  /\ \/ c \notin alive /\ UNCHANGED killed
     \/ procs[c].phase = "canceled" /\ killed' = killed \cup {c}
  /\ procs' = [procs EXCEPT ![c] = [status |-> "terminated",
                                    phase |-> "closed"]]
  /\ queue' = Added(queue, c)
  /\ UNCHANGED <<engine, disabled, actions, controller, api, busy, alive,
                 events>>

Reconcile == Take \/ EndStop \/ UpdateStatus \/ DispatchStatus

Goroutine(c) == StartProcess(c) \/ EndProcess(c)

-----------------------------------------------------------------------------
(* The world *)

Happens == events < MaxEvents /\ events' = events + 1

\* A process ends, by itself or because it was asked to or killed.
Die(c) ==
  /\ c \in alive /\ alive' = alive \ {c}
  /\ IF procs[c].phase = "running" THEN Happens ELSE UNCHANGED events
  /\ UNCHANGED <<engine, disabled, actions, controller, api, queue, busy, procs,
                 killed>>

\* A new command, or a deploy has succeeded.
NewVersion ==
  /\ Happens /\ manifest.present
  /\ manifest' = [manifest EXCEPT !.version = @ + 1]
  /\ dirty' = TRUE
  /\ UNCHANGED <<cmds, cmdName, runtime, disabled, actions, server, recent,
                 created, count, api, commands>>

\* The resource is being built, or no longer.
ToggleBuilding ==
  /\ manifest.present
  /\ IF manifest.building THEN UNCHANGED events ELSE Happens
  /\ manifest' = [manifest EXCEPT !.building = ~@]
  /\ dirty' = TRUE
  /\ UNCHANGED <<cmds, cmdName, runtime, disabled, actions, server, recent,
                 created, count, api, commands>>

Toggle ==
  /\ Happens
  /\ disabled' = ~disabled /\ dirty' = TRUE
  /\ UNCHANGED <<engine, actions, server, recent, created, count, api,
                 commands>>

\* The Tiltfile no longer defines the resource.
RemoveResource ==
  /\ Happens /\ manifest.present
  /\ manifest' = [manifest EXCEPT !.present = FALSE]
  /\ cmdName' = 0 /\ runtime' = "unknown" /\ dirty' = TRUE
  /\ UNCHANGED <<cmds, disabled, actions, server, recent, created, count, api,
                 commands>>

World == \/ NewVersion \/ ToggleBuilding \/ Toggle \/ RemoveResource
         \/ \E c \in Ids : Die(c)

Next == \/ Reduce \/ OnChange \/ Reconcile \/ World
        \/ \E c \in Ids : Goroutine(c)

Spec == Init /\ [][Next]_vars

\* The store reduces and notifies, work queues are worked off, goroutines run,
\* builds end.
Fairness ==
  /\ WF_vars(Reduce) /\ WF_vars(OnChange) /\ WF_vars(Reconcile)
  /\ \A c \in Ids : WF_vars(Goroutine(c)) /\ WF_vars(c \in killed /\ Die(c))
  /\ WF_vars(manifest.building /\ ToggleBuilding)

FairSpec == Spec /\ Fairness
=============================================================================
