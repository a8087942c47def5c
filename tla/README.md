# A TLA+ development of Tilt

Tilt keeps a development cluster in step with the files on a developer's disk.
Its engine is one process of many goroutines: controllers watch files, run the
Tiltfile, build, deploy and stream logs; they talk to each other by dispatching
*actions* to a central store, whose reducers change one state, and by reading
that state when the store notifies them.  This directory models the parts where
the goroutines meet, checks them on small instances with TLC, and proves the
most important results for all instances with TLAPS.

Paths below are relative to `src/`.

## 1. The system

### Components

| component | state | operations | status |
|---|---|---|---|
| **Store** `internal/store/store.go` | action queue, log byte budget, drain worker, state lock | `Dispatch`, `Close`, `stopDrainWorker`, `drainActions`, `Loop` | modelled |
| **Subscriber list** `internal/store/subscriber.go` | list and its mutex, per subscriber a pending change and an active mutex | `Add`, `Remove`, `SetUp`, `NotifyAll`, `notify`, `TeardownAll` | modelled |
| **Build scheduler** `internal/engine/buildcontroller.go`, `internal/engine/buildcontrol`, reducers of `internal/store/buildcontrols` | `startedCount`, cancel functions; in the engine state: current builds, history, build statuses, trigger queue, slots | `OnChange`, `needsBuild`, `NextTargetToBuild`, build goroutines, six reducers | modelled for image targets that resources do not share |
| **Engine reducer** `internal/engine/upper.go` | the engine state | `upperReducerFn` | as far as the modules need it |
| **Target queue, deployers** `internal/engine/buildcontrol/target_queue.go` | results per target | which targets a build rebuilds, in which order | partly, in LiveUpdate |
| **HTTP/websocket server** `internal/hud/server` | sockets | triggers; a socket as a subscriber | these two; the other handlers read |
| **File watches** `internal/controllers/core/filewatch` | one watcher at a time per object, status of events, backoff | `Reconcile`, the loop of each watcher, the reducer of the status | modelled |
| **Commands** `internal/controllers/core/cmd` | a process and its status, probe worker, trigger times | `Reconcile`, `ForceRun`, goroutines of the process, stop | modelled but for `TearDown` |
| **Local servers** `internal/engine/local` | created and owned Cmds | `OnChange`, reducers of Cmd actions | modelled but for errors of the API |
| **Tiltfile reconciler** `internal/controllers/core/tiltfile` | run in progress, last built | start, finish, restart of runs | its results are modelled, its runs are planned |
| **Live update** `internal/controllers/core/liveupdate` | monitor with file and image times, mark and failure per container | `Reconcile`, `maybeSync`, copies | modelled for image targets in pods |
| **Trigger queue subscriber** `internal/engine/configs` | config map | `OnChange` | modelled, in LiveUpdate |
| **Kubernetes apply and discovery** | cached results | reconcile | planned later |
| **Pod log streams, port forwards** | streams with restart backoff | reconcile | planned |
| **Docker Compose services, images** | cache of last results | reconcile | not modelled |
| **Session** `internal/controllers/core/session` | CI status | exit conditions | planned |
| **Log store** `pkg/model/logstore` | segments, checkpoints | append, truncate, read from a checkpoint | planned |
| **Small API objects** (clusters, extensions, buttons) | one object each | reconcile | not modelled: functions of one object |
| **UI resources** `internal/engine/uiresource` | projection of the state | upsert | an upsert is an action of BuildControl |
| **Tiltfile interpreter, clients, HUD, command line, API types** | - | - | not modelled: sequential code, I/O, rendering, generated code |

### How they interact

```
 controllers, servers, watches            OnChange(summary) under the
        | Dispatch(action)                subscriber's active mutex
        v                                          ^
  actionQueue --drainActions--> batch --> Loop: lock, reduce, unlock
  (ingressMu, budget, Cond)               then NotifyAll (one goroutine
                                          per subscriber and change)
```

* *Calls*: `Dispatch` appends to the queue; a log action waits on a condition
  variable while the payload in the queue exceeds the budget, except the log
  actions of the reducer itself.
* *Shared state*: the engine state under `stateMu`; subscribers read it under
  the read lock, and some dispatch while they hold it.
* *Messages*: a one-token channel wakes the worker, an unbuffered channel hands
  batches to the loop.
* *Callbacks*: `OnChange` gets a merged summary of changes and may fail; the
  summary is then requeued with a backoff.
* *The build scheduler* is a subscriber: it decides in `OnChange` from a copy of
  the state and learns of its own decision only when the `BuildStartedAction` it
  dispatched has been reduced.
* *API objects*: file watches, commands and live updates are objects on an API
  server inside the same process.  A reconciler reads a cached copy that may lag
  behind, its update is refused when it is based on an older object, and a work
  queue runs it again for whatever has changed.  Their reconcilers tell the
  engine by actions, and the engine writes objects from subscribers.
* *Two builders of one resource*: the live update reconciler copies files, the
  build scheduler makes images; the engine state says who handles a change.

### What is hard

* **Lost wake-ups**: of the condition variable (budget) and of the one-token
  channel (worker).
* **Deadlock** between the state lock, the budget and the loop; between `Remove`
  and an `OnChange` that does not return.
* **Stale decisions**: between `needsBuild` and the reduction of the start, file
  events, triggers, disabled resources and Tiltfile reloads are reduced.
* **Clean-up by name**: a build that ends, is stopped or is dropped is found by
  the name of its resource, which by then may stand for another build.
* **Endings**: set-up errors, context, `Close`, exit, fatal errors, panics.
* **Retries**: failed `OnChange` calls merge with what came in meanwhile.
* **Replacement**: a watch, a process or a container is replaced while the
  goroutine of the old one still has something to say.
* **Lagging copies**: a click, a spec or a Cmd object that was just created is
  not in the copy yet that a reconciliation decides from.
* **Handover**: live update and full build must not both leave a change to the
  other, nor forget it between them.

PROJECT.json lists every hazard at its line with the properties that cover it,
or the reason none does yet.

### What makes each component correct

* Store: every accepted action is reduced exactly once, in order; nobody waits
  for budget that is there; payload is bounded; the reducer never waits for
  itself; the loop returns however it ends.
* Subscribers: no change is lost, none is delivered before `SetUp`; `TearDown`
  comes once and never during an `OnChange`; all waiting ends.
* Build scheduler: not more builds than slots, no resource twice, unparallelizable
  ones alone, dependencies first; no edit or trigger is forgotten; the scheduler
  never waits for something that does not come; slots come back; what is stopped
  or disabled stops, and nothing else.
* File watches: one notifier is open per watch; replacing it repeats no event and
  raises no alarm; what the watcher knows reaches the object and the engine; a
  watch that closed comes back.
* Commands: at most one process per command; one run per cause; `ForceRun` returns
  the status of the run it started; stops end, clicks are served.
* Local servers: one server at a time on a port, one Cmd per server, and the
  current one in the end.
* Live update: what the marks of a container pass over it has; what is edited
  gets into the running container.
* Tiltfile runs (planned): the newest inputs are run in the end; a canceled run
  does not publish.
* Log store (planned): a reader sees each line once, or a gap it can detect.

## 2. The modules

| module | role | code |
|---|---|---|
| `ActionStream` | abstract specification: one FIFO stream of actions | what `Dispatch` and the reducer promise |
| `Store` | the goroutines of the store | `store.go` |
| `StoreProperties` | invariants, refinement, liveness, inductive invariant | |
| `MCStore` + 2 cfgs | instances | |
| `StoreProofs` | lemmas on batches; proofs | |
| `Subscribers` | subscriber list and its goroutines | `subscriber.go`, `summary.go`, `websocket.go` |
| `SubscribersProperties`, `MCSubscribers` + 2 cfgs, `SubscribersProofs` | as above | |
| `BuildControl` | decisions, goroutines of builds, reducers | `buildcontroller.go`, `buildcontrol/*.go`, `engine_state.go`, reducers |
| `BuildControlProperties`, `MCBuildControl` + 3 cfgs, `BuildControlProofs` | as above | |
| `SchedulingProofs` | proofs about the scheduler until the Tiltfile is loaded again: slots, holds, edits | |
| `FileWatch` | one file watch: reconciler, watchers, reducer of the status | `filewatch/*.go` |
| `FileWatchProperties`, `MCFileWatch` + cfg, `FileWatchProofs` | as above | |
| `Cmd` | one command: reconciler, process, probe, `ForceRun` | `cmd/*.go`, `local_target_build_and_deployer.go`, `trigger.go` |
| `CmdProperties`, `MCCmd` + cfg, `CmdProofs` | as above | |
| `LocalServe` | composition: server controller, reducers and Cmd controller of one local server | `engine/local/*.go`, `cmd/controller.go`, `upper.go` |
| `LocalServeProperties`, `MCLocalServe` + cfg, `LocalServeProofs` | as above | |
| `LiveUpdate` | composition: live update reconciler, build scheduler, image builds, file watches, triggers and pods of one resource | `liveupdate/*.go`, `build_control.go`, `buildcontroller.go`, `engine_state.go`, reducers, `trigger_queue_subscriber.go` |
| `LiveUpdateProperties`, `MCLiveUpdate` + 2 cfgs, `LiveUpdateProofs` | as above | |

Every component module declares its CONSTANTS with named assumptions, has one
action per handler or per stretch of code between two points where others can
run, and keeps mutants (definitions that begin with `Mut`) next to what they
alter; a mutant is no part of any specification, and shows which mistake in the
code a property would notice.  PROJECT.json maps every other definition to the
lines it stands for.

### Store

Each thread (the producers and the loop, whose reducer logs) goes through
`Dispatch` with a program counter: *enter* the mutex, *waiting* in `Cond.Wait`,
*woken*, leave a *signal*, *return*.  A critical section of `ingressMu` is one
step, since it never blocks inside except in `Cond.Wait`.  The worker waits for
the token, takes the whole queue, sends it and looks again before it waits; the
loop receives, releases the budget of the batch, requests and gets the write
lock, reduces one action at a time, unlocks, notifies, and ends in one of six
ways through its deferred functions in their order.  Actions are distinguished by what the
store does with them: *log* (payload bytes), *noisy* (makes the reducer log),
*exit*, *fatal*, *panic*, *plain*.  A producer in `Subscribers` dispatches from
`OnChange`, one in `ReadLockers` holds the read lock meanwhile.

`ActionStream` is what all this is for; `IsActionStream` maps *pending* to the
concatenation of the loop's batch, the worker's batch and the queue.

Left out: `Store.mu` (contended by tests only), copies of log actions for
debugging.

### Subscribers

A summary is the set of the changes merged into it and its backoff.  For every
subscriber there are a pending summary, the number of goroutines that wait for
its active mutex, and what the holder of that mutex does (`OnChange`, or the
sleep after a failure, which the code does with the mutex held).  Dynamic
subscribers (web sockets) add and remove themselves; `Remove` keeps the list
mutex while it waits for the active one, as the code does.

### Build scheduler

The state is the part of `EngineState` and `ManifestState` that decisions read.
`OnChange` is four steps, because the state may change between them:
*cleanUpCanceledBuilds*, *needsBuild* (picks a resource and copies what there is
to build), the dispatch of the start with the time of that moment, and the end.  The
goroutine of a build registers its cancel function, builds, dispatches the
completion and only then runs its deferred clean-up.  Reducers are one step each.

`NextTargetToBuild` is a set of the resources the code may return: holds
(pending Tiltfile, pending enable status, unparallelizable local resources,
unresourced YAML, dependencies), then initial builds (local, YAML, others), then
the trigger queue, then the earliest pending change.  Where the code breaks ties
by the order of definition or the kind, the set has several members.

A clock that never reads the same twice stands for `time.Now()`; the order of
time stamps is what the reducers compare.  `edited` and `attempted` are history
variables: the time of the last edit the engine was told of, and the start of
the last build that was to include the target.

Abstractions: resources share no image target, have no live updates (see
LiveUpdate), and their cluster is connected; one file per target; what the Tiltfile changes in a kept
resource is either nothing or something that invalidates its build; a resource
does not change its type.  An action of anybody but the controller is dispatched
and reduced in one step: the delay lies before the dispatch.

### File watches

A change of a file is a number, an event a set of changes.  `Reconcile` holds the
mutex of the controller over its steps: *fetch*, *copy* the status of the old
watcher, *start* the new notifier, *swap* (close the old one), *assign* the
status, *report*.  Each watcher has a goroutine that records events and errors,
ends when its notifier closes, and then cleans up under the same mutex and asks
for a new reconciliation after a backoff.  Every start makes a new watcher, so
the old one's goroutine goes on beside it.  The status goes to the API server
(refused when the copy it is based on is old) and then to the engine, whose
reducer looks at the last event and only when there is no error.

Behaviours that no property forbids: only the last event of a status reaches the
engine, also when two were recorded between two reconciliations
(`action.go:41`); an event clears an error that was not reported yet
(`watcher.go:112`); a start that fails is never tried again, because its watcher
is not done (`controller.go:204-216`); a loop that records something before
`addOrReplace` has assigned the status loses it or dereferences nil
(`controller.go:229-232`); what the old watch was still collecting is dropped.

### Commands

Runs of the process are numbered, and so are clicks, whose order is all that
`timecmp` looks at.  `Reconcile` is *fetch* and decide, *stop* (it waits for the
process to end with the mutex held), do what was decided, *report*.  The
goroutine of a run starts the process, waits for it to exit or be canceled,
terminates, kills after the grace period, and writes the status under a mutex of
its own; the probe worker reports through the same status.  `ForceRun` is what a
build of a local resource does: it takes the mutex twice and waits in between
without it.  Kinds: the command of a local resource (only `ForceRun` runs it),
one that waits for a start button, and a plain one.

Not in the module: `TearDown`, which cancels without the mutex
(`controller.go:103`), and the arguments that input choices add.  Behaviours that
no property forbids: a probe result that comes after the end makes a terminated
command ready (`controller.go:447` against `cmd_types.go:181`); the pending
disable status, which `disable.go:83-87` treats as disabled, does not hold back
a command; `ForceRun` returns at cancellation while the process is still being
killed.

### Local servers

The server controller reads state and then creates and deletes objects one call
at a time, while its own actions and those of the Cmd controller wait to be
reduced.  The work queue of the Cmd controller hands out each object once, in
order; that order is what `ServersDoNotOverlap` rests on.  Cmd has the details of
one object; here its reconciliation is start, stop, report and dispatch.

Not in the module: errors of the API server, after which the memory of the last
creation is never cleared, and a resource that is removed and added again, which
may leave an object nobody owns (`servercontroller.go:85-92`).

### Live updates

One resource with an image for each source, the deployed one built on the
others.  `Reconcile` reads the file watches, the images, the pod states and the trigger queue
into its monitor, garbage-collects, and when something has changed passes over
the containers (`maybeSync`): each has a mark up to which it has received
changes and, when it failed, a low water mark and a reason.  Copies are dispatched
as a build of their own source.  Beside it, the build scheduler decides, with the
live update holds, from the engine's pending changes, from the last status of the
live update it was told of and from the reason to build; a full build reads the files, makes the
images in order, records their times, and deploys, whereupon a new container
comes and the old one goes.  Scenarios fix the mode (automatic or manual, with or
without initial sync), the stop files and the bounds.

`Ordered` says that the file watches of a resource are reconciled in the order of
their events, which nothing in the code enforces; without it
`MarksAreHonest` fails: the mark passes over a change that becomes known late.
Other behaviours that no property forbids: after an error in
`reconcileKubernetesResource` the file changes that were read are not acted upon
until something else changes (`reconciler.go:163-182`); a failure in one container leaves the
containers after it as they are; in manual mode a config map that lags behind
lets a second edit be copied without a click; a click in manual mode that meets
a failed live update may wait for the next change (`build_control.go:696-706`);
`lastFileTimeSynced` may be the time of an initial sync, although it "Must match the
timestamp in a FileEvent" (`liveupdate_types.go:410`).

## 3. The runs

Every instance has a bound on its environment, and a program nobody asks
anything of waits.  All configurations therefore say `CHECK_DEADLOCK FALSE`; that nothing waits when it should not is what
`WaitersSound`, `NoStrandedWork`, `NeverWedged` and the liveness
properties are about.

### Passing

| run | instance | shows |
|---|---|---|
| store | 2 producers, one a subscriber with the read lock, 1 send each of any kind, a reducer that logs, Close, cancellation | `TypeOK`, `WaitersSound`, `NoStrandedWork`, `BudgetSound`, `IsActionStream`, `DispatchReturns`, `AcceptedIsReduced`, `LoopReturns` |
| subscribers_safety | 2 static and 1 dynamic, SetUp may fail, 2 changes, backoff to 3 | `TypeOK`, `NotificationsSound`, `BackoffIsKept`, `LifecycleSound`, `NotTornDownInUse` |
| subscribers_progress | 1 static and 1 dynamic, 2 changes | `NobodyIsStuck` |
| build_schedule | a resource and the unresourced YAML, 1 slot, any two of 2 triggers, a reload, a stop, an upsert | `TypeOK`, `SchedulingSound`, `NeverWedged`, `SlotsAreReturned` |
| build_progress | a resource that depends on a local one, failing builds, 2 slots, 1 edit, 1 trigger | `NoEditLost`, `HoldsAreKept`, `EverythingIsBuilt` |
| filewatch | 2 specs, history of 2; 1 change with 2 incidents, 2 with 1, or 3 with none | `TypeOK`, `OnlyOneWatch`, `NoFalseAlarm`, `NoChangeTwice`, `ReportsSettle`, `WatchComesBack` |
| cmd | 3 kinds, 3 probes, 2 specs, 2 events (1 for a plain command) | `TypeOK`, `OneProcess`, `RunsHaveCauses`, `ForcedResultIsOwn`, `CommandSettles`, `ClicksAreServed` |
| local_serve | 2 events: redeployed, disabled, enabled, removed, a build beginning, a process that dies | `TypeOK`, `ServersDoNotOverlap`, `OneCmd`, `ServerFollows` |
| live_update | 2 images; scenarios with 2 edits, an edit and a crash, initial syncs with trouble, a refused update, manual mode | `TypeOK`, `MarksAreHonest`, `EditsArrive` |

Some of these are conjunctions of properties that stand on their own in the
modules: `WaitersSound` (waiting is justified, the reducer never waits),
`BudgetSound` (the count is exact, the overshoot at most one payload),
`NotificationsSound` (one goroutine per pending change, no change lost),
`LifecycleSound` (SetUp first, TearDown once, in LIFO order), `NobodyIsStuck`
(changes are delivered, removals and the teardown end), `SchedulingSound` (slots,
one build per resource, triggers in step with their queue), `HoldsAreKept`
(dependencies first, local builds alone), `EverythingIsBuilt` (changes and
triggers), `ReportsSettle` (the last event is told, the status settles),
`CommandSettles` (stops return, disabled commands stop, the status settles),
`ServerFollows` (the wanted server is current, a disabled one stops).

Why the bounds are enough for the interesting cases:

* Store: two producers are the least with which one can wait for budget while
  another takes it again; with the loop, whose reducer logs too, there are three
  dispatchers.  One send each keeps all kinds of actions, both endings and
  liveness in one run; store_lock_triangle has three sends, and the proofs cover
  any number.  With a budget of 0 every payload overshoots; the proofs cover all
  other budgets and payloads.
* Subscribers: two changes give one that is handled or requeued and one that is
  merged with it, and its backoff grows twice.  With two static and one dynamic
  subscriber every order of set-up and teardown occurs.
* Build scheduler: with one slot every decision competes for it, and two events
  (a constraint of the run) suffice to hit one build before its start and another
  during it, or to drop a resource and add or trigger it again.  Two slots, in
  build_progress, let one build run while the next is decided on.  The proofs
  cover any number of resources, slots and events.
* File watches: an incident is a change of the spec, a toggle, a deletion, an
  error, or a notifier that closes by itself.  Two of them replace a watch while
  its replacement is failing or starting; three changes are one more than the
  status of the run keeps.
* Commands: two events let a click, an update, a toggle, a build or a deletion
  fall into any step of what another has begun, such as the stop with the mutex
  held.  A plain command runs by itself, so one event suffices.
* Local servers: a redeploy and one more event give three Cmd objects whose
  creations, statuses and deletions are under way at once.
* Live updates: two sources with different times are the least that can overtake
  each other; a crash, a failure or a conflict falls into any step of the
  reconciliation or of the full build.

### Violations: where the code does not do what it says

| run | property | what happens |
|---|---|---|
| store_lock_triangle | `LockIsGranted` | a reader refills the queue behind a released batch and waits for budget with the read lock, the loop waits for the write lock: the triangle that `store.go:270-273` means to prevent |
| build_lost_edit | `NoEditLost` | with two targets, an event between decision and start is consumed by a build that was not told of it (the race that `engine_state.go:754-757` guards against later on) |
| live_update_fallback | `EditsArrive` | a copy into the container fails; the completion of that live update consumes the change, so the full build that `reconciler.go:1028-1029` leaves it to never comes |

`NoEditLost` holds in build_progress (one target per resource: every build rebuilds
it) and fails in build_lost_edit (two targets).  PROJECT.json quotes the lines
these contradict.

BuildControl has more behaviours that no property forbids, and that a reader
should not mistake for promises: a failed build consumes the changes it did not
get to (`reducers.go:86`); a trigger that is reduced after its resource was
disabled builds it (`build_control.go:97`); a stop that is noticed before the
goroutine of the build has registered its cancel function is not acted on
(`buildcontroller.go:178`); a resource that the Tiltfile drops and adds again
while it is built may be built a second time at once, and the completion of the
old build counts as the first build of the new resource (`reducers.go:205`);
the deferred clean-up of a completed build cancels the next build of the same
resource if that has registered by then (`buildcontroller.go:131`).
`SchedulingSound` is therefore stated until the first reload.  In Subscribers, a
goroutine of `notify` that was started before a removal gets the mutex after it
and calls `OnChange` after `TearDown`, although `websocket.go:353-354` says
otherwise.

### Fairness

* Store: weak fairness of each goroutine's steps.  Goroutines that can run do
  run; nothing obliges a producer to dispatch, anybody to close the store, or
  the context to end.  `MaxSends` bounds the load: with unbounded load a
  dispatcher could be overtaken forever at the condition variable, and
  `DispatchReturns` says nothing about that.  With one send each the triangle of
  store_lock_triangle cannot close.
* Subscribers: strong fairness of the steps that acquire a mutex, since Go's
  mutex hands itself to a waiter that has starved for a millisecond; weak
  fairness of the rest.  `OnChange` returns, a sleep ends.
* Build scheduler: weak fairness of `OnChange` (the subscriber list delivers:
  `NobodyIsStuck`), of the goroutines of builds (builds end) and of the
  reducers (the store reduces: `AcceptedIsReduced`).  None for users, files or
  the Tiltfile.
* File watches: weak fairness of `Reconcile` (the work queue runs what was added),
  of the copy of the client catching up, of the backoff and of the loops; strong
  fairness of the clean-up of a loop, which waits for the mutex that `Reconcile`
  takes again and again.  None for files, users and errors.
* Commands: weak fairness of `Reconcile`, of the goroutines of a process and of
  the copy catching up; strong fairness of `ForceRun` getting the mutex.  A
  killed process dies; nothing obliges any other process to end.
* Local servers: weak fairness of the store, of `OnChange`, of the work queue and
  of the goroutines; a killed process dies and a build ends.
* Live updates: weak fairness of the file watch controller, of the reducers, of
  the subscriber that writes the trigger queue, of the reconciler and of full
  builds; containers come, go and are restarted.  None for edits, clicks, crashes
  and failures.

## 4. The proofs

All theorems hold for every value of the constants that satisfies the named
assumptions.  Each follows the same argument: `Init => IInv`,
`IInv /\ [Next]_vars => IInv'`, and `IInv` implies the property.

| theorem | property | from |
|---|---|---|
| `StoreTypes`, `NoLostBudgetWakeup`, `NoLostWorkerWakeup`, `LogBudgetSound`, `StateLockIsSound` | `TypeOK`, `WaitersSound`, `NoStrandedWork`, `BudgetSound`, `StateLockSound` | `StoreProperties!IInv` |
| `StoreIsActionStream` | `IsActionStream` | `IInv`, and each step maps to a step of `ActionStream` or a stutter |
| `SubscribersTypes`, `NotificationsAreSound`, `BackoffSurvivesMerging` | `TypeOK`, `NotificationsSound`, `BackoffIsKept` | `SubscribersProperties!IInv` |
| `LifecycleIsSound`, `TearDownIsExclusive` | `LifecycleSound`, `NotTornDownInUse` | `SubscribersProperties!LifecycleInv` |
| `BuildControlTypes`, `SchedulerNeverWedged`, `NoSlotLeaks` | `TypeOK`, `NeverWedged`, `SlotsAreReturned` | `BuildControlProofs!IInv` |
| `SchedulingIsSound` | `SchedulingSound` | `SchedulingProofs!QuietInv` and `BuildControlProofs!IInv` |
| `HoldsAreRespected` | `HoldsAreKept` | `SchedulingProofs!HoldsInv`, which has `QuietInv` |
| `EditsAreBuilt` | `NoEditLost` | `SchedulingProofs!EditsInv`, which has `QuietInv` |
| `FileWatchTypes`, `NoWatchIsLeaked`, `NoAlarmIsFalse` | `TypeOK`, `OnlyOneWatch`, `NoFalseAlarm` | `FileWatchProperties!IInv` |
| `ChangesAreRecordedOnce` | `NoChangeTwice` | `FileWatchProperties!HistoryInv` |
| `CmdTypes`, `OneProcessPerCommand`, `BuildsGetTheirResult` | `TypeOK`, `OneProcess`, `ForcedResultIsOwn` | `CmdProperties!IInv` |
| `EveryRunHasACause` | `RunsHaveCauses` | `CmdProperties!CausesInv` |
| `LocalServeTypes`, `NeverTwoCmds` | `TypeOK`, `OneCmd` | `LocalServeProperties!IInv` |
| `ServersTakeTurns` | `ServersDoNotOverlap` | `LocalServeProperties!QueueInv` |
| `LiveUpdateTypes` | `TypeOK` | `LiveUpdateProperties!IInv` |
| `MarksPassOverNothing` | `MarksAreHonest` | `LiveUpdateProperties!IInv` and `OrderInv` |

* **Store.**  The invariants are not inductive alone.  `NoStrandedWork` needs
  `TokenComes`: from the moment the worker has taken the queue, whatever is added
  comes with a token or somebody who is about to leave it.  The accounting
  invariants need to know which of the batches is still charged at each point of
  the loop (`WorkerShape`, `LoopShape`).  `StoreProofs` begins with facts about the
  bytes of a batch, with cardinalities instead of sums so that no induction is
  needed.
* **Subscribers.**  The waiting goroutines are counted against the pending
  summary (`OnePendingGoroutine` itself) and whoever holds the active mutex has
  a change in hand (`InHand`); the rest are lemmas on `Merge` and `NextBackoff`.
  `LifecycleInv` is about what has been called so far: at each point of the loop,
  which subscribers were set up (`SetUpsSoFar`) and torn down (`TearDownsSoFar`),
  that whoever is being added or removed has the list to itself (`ListIsHeld`),
  and that only who was set up is told anything (`ToldAfterSetUp`).
* **Build scheduler.**  `StartIsCounted`: at most one start is decided on or in
  the queue, and `startedCount` exceeds `startCount` by exactly that one; this
  holds because the store counts also the start of a resource that is gone.
  `SlotsAreHeld`: for whoever has a slot, or will get one when a queued start is
  reduced, there is a build under way or a completion that comes later in the
  queue; it uses that the controller's actions are reduced in order.
* **Until a reload.**  `SchedulingSound` says what holds as long as the Tiltfile
  is not loaded again; afterwards a resource may be built twice (see above).  That
  builds with the same name do not overlap is
  not inductive, since a resource has one more place to be than in its build:
  between the decision and the reduction of the start there is no build in the
  engine state, and between the end and the reduction of the completion there is
  still one.  `OneInFlight` says that at most one of all these places is taken,
  and that the engine state says so where the controller looks.
  `SlotsSuffice` counts the resources that are decided on or built against the
  slots; it needs `OneInFlight`, because counting names counts builds only if no
  name occurs twice.
* **Holds.**  `NextTargetToBuild` looks at what holds a resource back before the
  build starts.  When it may decide no start is on its way, so the engine state
  shows every build that is under way (`AllIsShown`); and from the decision on a
  resource is `Engaged`, which only a decision brings about and which keeps its
  dependencies ready (`EngagedAreReady`).  The theorem excludes that a resource
  was disabled and one was triggered, since holds are computed only for the
  targets that need a build, and a disabled resource is none of them: a trigger
  that was on its way when the resource was disabled puts it into the trigger
  queue, and it is built although its dependencies are not ready (until OnChange
  cancels the build the next time it runs).  TLC finds this in 15 states with
  one trigger and one update, so the restriction cannot be dropped.
* **Edits.**  `EditsAreKnown` says that an edit is among the changes unless it is
  older than the last build, or than the one under way.  A completion consumes the
  changes before the build in the engine state, so no edit is lost if the build
  that completed began no earlier (`BuildsAreLatest`, which needs `OneInFlight`)
  and was told to build every target (`BuildsAreWhole`).  The latter holds if each
  resource is local or has one target, which is the hypothesis
  `NoPartialBuilds`; without it build_lost_edit violates the property.  Disabling
  forgets the changes of a resource, and a build that ends after that leaves the
  record of a build, so the theorem excludes it (TLC: 11 states).
* **File watches.**  `DoneIsClosed` says that a watcher that is done has closed its
  notifier, and that while one watcher replaces another the new one is not done
  and the old one is closed before the status is assigned.  `LoopsEndDone` says that
  only a done watcher's loop ends unless a notifier closed by itself, which is why
  no loop can report an alarm that the controller itself has caused.  `NoChangeTwice`
  needs that the changes in a watcher's events and then in its notifier's buffer
  are in the order of their times, none ahead of the last change there was
  (`InOrder`), so that a new watcher takes over the events without repeating any.
* **Commands.**  `NothingIsLeft` relates the phase of the last run to the processes:
  before it has started and after it has ended, all that is alive has been killed.
  `BuildOwnsRun` says that Reconcile neither starts nor forgets runs of a local
  resource, so the last run is that of the build from `ForceStart` to `ForceRead`,
  although the mutex is free in between.  `CausesInv` counts: besides each run that
  there was, a run that Reconcile is stopping the last one for (`AboutToRun`), one
  that is due (`RunIsDue`) and one for a spec that the client has not seen each
  have a cause of their own.
* **Local servers.**  Three invariants follow the news of an object around: names
  that are spoken of were created (`NamesAreOld`), the engine knows every existing
  object but the one created last (`EngineKnows`), and what `OnChange` has read
  covers what exists until everything is deleted (`SnapshotCovers`).  Servers do not
  overlap because of the order of the work queue: an object that is gone and
  whose process is in use comes before every object that is there (`StopsFirst`),
  which holds since new objects go to the end (`QueueIsOld`).
* **Live updates.**  `MarksAreHonest` is about the changes the reconciler knows of,
  and a mark may be made while another change is recorded, published or about to
  be read.  `MarksCoverWhatComes` says that marks are honest about those too.
  With `Ordered`, the hypothesis of the theorem, no change overtakes another
  (`ChangesComeInOrder`), so what comes is newer than any mark; `CopyIsMarked` says
  that the mark of a copy is the time of a change in it unless everything is
  copied, and `NamesAreNew` that a new container has no mark.  The least of a set
  of times exists by the well-foundedness of the naturals (`WFMin`).

The inductive invariants of Store, Subscribers, FileWatch, Cmd, LocalServe and
LiveUpdate are in their properties modules and hold on the instances of the runs;
those of the scheduler are in the proof modules, and hold on an instance with a
local resource of two targets that another one depends on.  `Ordered` and
`NoPartialBuilds` are hypotheses of one theorem each; the others have the named
assumptions on the constants only.

Every safety invariant of the passing runs is stated by a theorem.  Only
model-checked: everything under fairness, since liveness and ENABLED are beyond the
prover.  The findings are counterexamples and nothing to prove.

## 5. The plan

Not modelled, in the order in which it is worth modelling:

1. **Proofs**: what is left of `SchedulingSound` after a reload; abstract
   specifications of a file watch and of a command, and that the modules
   implement them.
2. **Tiltfile** runs (`controllers/core/tiltfile`): in progress, restarted,
   canceled, and published; composes with `HandleConfigsReloaded`.
3. **KubernetesApply** (`controllers/core/kubernetesapply`): forced applies of builds
   against reconciled ones, restarts, deletion and garbage collection, disabling.
4. **Shared targets**: images in common, dependency changes, `TargetQueue` as a
   recursive function against a reference definition of reuse.
5. **Composition** of Store and Subscribers: dispatch from `OnChange` under the
   active mutex, with `Remove` holding the list mutex.
6. **Session**, **pod log streams and port forwards**, **log store**.
7. In the modules there are: `TearDown` of commands, errors of the API in the server
   controller and resources added again, Docker Compose and failing run steps in
   live updates.

Not planned, because nothing in it is left to check but input, output or a function
of one object: the Tiltfile interpreter, the Kubernetes and Docker clients, the
terminal HUD and command line, the API types and generated code (most of the lines
of the repository), the small API objects, and the projections for the user
interface.

For each new module: an MC module, runs on two or three actors with the smallest
numbers of events that race, the type invariant and the main safety invariant
proved.
