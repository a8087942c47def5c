------------------------------ MODULE FileWatch ------------------------------
(***************************************************************************)
(* The controller of one FileWatch object (internal/controllers/core/      *)
(* filewatch), the goroutines of its watchers, and the reducer that gets   *)
(* the status (action.go).                                                 *)
(*                                                                         *)
(* A change of a watched file is a number, given in the order of the       *)
(* changes; an event is a set of changes.  Reconcile runs under the mutex  *)
(* of the controller; what it does with one watcher under the mutex of     *)
(* that watcher is one step.  The API server holds the object, the client  *)
(* reads a copy that may lag behind, and an update that is based on an     *)
(* older object is refused.  Every start makes a new watcher.              *)
(***************************************************************************)
EXTENDS Integers, Sequences, FiniteSets, SequencesExt

CONSTANTS Specs,             \* what there is to watch
          MaxFileEventHistory,
          Slack,             \* bound: unused room behind a history
          Bounds             \* how much may happen

ASSUME FileWatchAssumption ==
  /\ Specs # {} /\ MaxFileEventHistory \in Nat \ {0} /\ Slack \in Nat
  /\ Bounds \subseteq [changes : Nat, incidents : Nat]
  /\ \E b \in Bounds : \A c \in Bounds : c.incidents <= b.incidents

VARIABLES
  object, cached, stale,  \* on the API server, in the client, do they differ
  disabled,               \* the config map
  queued, delayed,        \* the request in the work queue, or in some time
  step, req,              \* Reconcile
  watchers, made, current, \* all watchers, their number, targetWatches
  told,                   \* changes given to AddPendingFileChange
  skipped,                \* history: changes of events that another event
                          \* followed before the engine was told of them
  crashed,                \* a nil dereference
  used                    \* changes and incidents so far; has a notifier
                          \* closed by itself, has a loop written into the
                          \* history of a newer watcher?

engine == <<told, skipped, crashed>>
api    == <<object, cached, stale, disabled>>
vars   == <<api, queued, delayed, step, req, watchers, made, current, engine,
            used>>

\* A watcher is made at the start, and for every update and every restart.
MaxWatchers == 1 + Max({b.incidents : b \in Bounds})

Ids == 1..MaxWatchers

NoStatus == [monitor |-> 0, events |-> <<>>, error |-> "", disabled |-> FALSE]

Gone == [exists |-> FALSE, spec |-> CHOOSE s \in Specs : TRUE,
         status |-> NoStatus]

\* A watcher: its goroutine, its notifier, and what it has to tell.
\* Its history may be a slice of an array that other watchers have slices of, too,
\* with room for some more events behind it; array 0 is one it has to itself.
NoWatcher ==
  [spec |-> Gone.spec, loop |-> "none", open |-> FALSE, buffer |-> <<>>,
   failed |-> FALSE, status |-> NoStatus, array |-> 0, room |-> 0,
   done |-> FALSE, backingOff |-> FALSE, canceled |-> FALSE]

\* What Reconcile has read: the object, whether an update of it would be
\* accepted, the config map, and whether to come back after the backoff.
NoRequest == [fw |-> Gone, fresh |-> FALSE, disabled |-> FALSE,
              after |-> FALSE]

\* The specs are interchangeable: the first one is no choice.
Init ==
  /\ object = [Gone EXCEPT !.exists = TRUE]
  /\ cached = object /\ stale = FALSE /\ disabled \in BOOLEAN
  /\ queued = TRUE /\ delayed = FALSE
  /\ step = "idle" /\ req = NoRequest
  /\ watchers = [k \in Ids |-> NoWatcher] /\ made = 0 /\ current = 0
  /\ told = {} /\ skipped = {} /\ crashed = FALSE
  /\ used = [changes |-> 0, incidents |-> 0, closed |-> FALSE, mixed |-> FALSE]

Use(u) ==
  /\ \E b \in Bounds : u.changes <= b.changes /\ u.incidents <= b.incidents
  /\ used' = u

\* One incident more: an error of the operating system, a notifier that closes
\* or cannot be started, an update.
Happens == Use([used EXCEPT !.incidents = @ + 1])

-----------------------------------------------------------------------------
(* Watchers *)

\* cleanupWatch, with a context that may have been canceled.
CleanedUp(w, canceled) ==
  IF w.done THEN w
  ELSE [w EXCEPT !.open = FALSE, !.done = TRUE, !.backingOff = TRUE,
                 !.canceled = TRUE,
                 !.status.error = IF ~canceled /\ @ = "" THEN "closed" ELSE @]

\* Mutant: the history is cut too late.
MutTruncated(events) ==
  IF Len(events) <= MaxFileEventHistory + 1 THEN events
  ELSE SubSeq(events, Len(events) - MaxFileEventHistory + 1, Len(events))

Truncated(events) ==
  IF Len(events) <= MaxFileEventHistory THEN events
  ELSE SubSeq(events, Len(events) - MaxFileEventHistory + 1, Len(events))

\* addOrReplace has made a watcher and not assigned its status yet.
Replacing == step \in {"start", "swap", "assign"}

Unset(k) == Replacing /\ k = made

Running(k) == ~crashed /\ k <= made /\ watchers[k].loop = "run"

\* append finds room behind the history, in an array that others have, too.
InPlace(k) == watchers[k].array # 0 /\ watchers[k].room > 0

\* The history of j when k appends an event: what lies in the same array at the
\* place of the event is overwritten.
Overwritten(j, k, event) ==
  LET events == watchers[j].status.events
      i == Len(events) - (watchers[k].room - 1 - watchers[j].room)
  IN IF InPlace(k) /\ watchers[j].array = watchers[k].array /\ i \in DOMAIN events
     THEN [events EXCEPT ![i] = event] ELSE events

\* What recordEvent does with the first n changes that have been coalesced.
Recorded(k, n) ==
  LET event == ToSet(SubSeq(watchers[k].buffer, 1, n))
  IN [j \in Ids |->
       IF j = k
       THEN [watchers[k] EXCEPT
              !.buffer = SubSeq(@, n + 1, Len(@)),
              !.status.events = Truncated(Append(@, event)),
              !.status.error = "",
              !.array = IF InPlace(k) THEN @ ELSE 0,
              !.room = IF InPlace(k) THEN @ - 1 ELSE 0]
       ELSE [watchers[j] EXCEPT !.status.events = Overwritten(j, k, event)]]

\* The changes that the engine is not told of, because the newest watcher has
\* another event behind them.
PassedOver(k) ==
  LET events == watchers[k].status.events IN
  IF k # made \/ events = <<>> THEN {} ELSE events[Len(events)] \ told

\* Mutant: the loop does not ask for a reconciliation.
MutRecordEvent(k) ==
  /\ Running(k) /\ watchers[k].buffer # <<>>
  /\ \E n \in 1..Len(watchers[k].buffer) : watchers' = Recorded(k, n)
  /\ skipped' = skipped \cup PassedOver(k)
  /\ used' = used
  /\ crashed' = Unset(k)
  /\ UNCHANGED <<api, queued, delayed, step, req, made, current, told>>

\* The loop takes what has been coalesced into one event.  Before the watcher
\* has a status it dereferences nil.
RecordEvent(k) ==
  /\ Running(k) /\ watchers[k].buffer # <<>>
  /\ \E n \in 1..Len(watchers[k].buffer) : watchers' = Recorded(k, n)
  /\ skipped' = skipped \cup PassedOver(k)
  /\ used' = [used EXCEPT !.mixed = @ \/ \E j \in Ids :
       j > k /\ watchers'[j].status.events # watchers[j].status.events]
  /\ crashed' = Unset(k)
  /\ queued' = TRUE
  /\ UNCHANGED <<api, delayed, step, req, made, current, told>>

RecordError(k) ==
  /\ Running(k) /\ watchers[k].failed
  /\ watchers' = [watchers EXCEPT ![k].failed = FALSE,
                                  ![k].status.error = "os"]
  /\ crashed' = Unset(k)
  /\ queued' = TRUE
  /\ UNCHANGED <<api, delayed, step, req, made, current, told, skipped, used>>

\* Its context is canceled, or the notifier has closed its channels.
LoopEnds(k) ==
  /\ Running(k)
  /\ watchers[k].canceled \/ ~watchers[k].open
  /\ watchers' = [watchers EXCEPT ![k].loop = "exiting"]
  /\ UNCHANGED <<api, queued, delayed, step, req, made, current, engine, used>>

\* Mutant: nobody is told that the loop has ended.
MutLoopCleansUp(k) ==
  /\ ~crashed /\ step = "idle"
  /\ k <= made /\ watchers[k].loop = "exiting"
  /\ watchers' = [watchers EXCEPT
       ![k] = [CleanedUp(@, @.canceled) EXCEPT !.loop = "none"]]
  /\ UNCHANGED <<api, queued, delayed, step, req, made, current, engine, used>>

\* The deferred function waits for the mutex of the controller.
LoopCleansUp(k) ==
  /\ ~crashed /\ step = "idle"
  /\ k <= made /\ watchers[k].loop = "exiting"
  /\ watchers' = [watchers EXCEPT
       ![k] = [CleanedUp(@, @.canceled) EXCEPT !.loop = "none"]]
  /\ queued' = TRUE
  /\ UNCHANGED <<api, delayed, step, req, made, current, engine, used>>

\* The backoff of the current watcher is over ...
BackoffElapses ==
  /\ ~crashed /\ current # 0
  /\ watchers[current].backingOff
  /\ watchers' = [watchers EXCEPT ![current].backingOff = FALSE]
  /\ UNCHANGED <<api, queued, delayed, step, req, made, current, engine, used>>

\* ... and the request that was to wait for it is due.
RequeueAfter ==
  /\ ~crashed /\ delayed
  /\ current # 0 => ~watchers[current].backingOff
  /\ queued' = TRUE /\ delayed' = FALSE
  /\ UNCHANGED <<api, step, req, watchers, made, current, engine, used>>

-----------------------------------------------------------------------------
(* Reconcile *)

\* Mutant: the watcher is stopped, but not forgotten.
MutRemoveWatch ==
  /\ watchers' = [k \in Ids |-> IF k = current
                                THEN CleanedUp(watchers[k], FALSE)
                                ELSE watchers[k]]
  /\ UNCHANGED current

\* Stops the watcher there is, and forgets it.
RemoveWatch ==
  /\ watchers' = [k \in Ids |-> IF k = current
                                THEN CleanedUp(watchers[k], FALSE)
                                ELSE watchers[k]]
  /\ current' = 0

\* Is a new watcher needed?
ShouldRestart(spec) ==
  \/ current = 0 \/ watchers[current].spec # spec
  \/ watchers[current].done /\ ~watchers[current].backingOff

Fetch ==
  /\ ~crashed /\ step = "idle" /\ queued
  /\ queued' = FALSE
  /\ IF ~cached.exists
     THEN RemoveWatch /\ UNCHANGED <<step, req>>
     ELSE /\ req' = [fw |-> cached, fresh |-> ~stale, disabled |-> disabled,
                     after |-> ~disabled /\ ~ShouldRestart(cached.spec)
                                 /\ watchers[current].done]
          /\ IF disabled
             THEN RemoveWatch /\ step' = "report"
             ELSE /\ step' = IF ShouldRestart(cached.spec) THEN "copy"
                             ELSE "report"
                  /\ UNCHANGED <<watchers, current>>
  /\ UNCHANGED <<api, delayed, made, engine, used>>

\* What addOrReplace takes over from the watcher it replaces: the events, and
\* the error if it is only restarted.
Inherited ==
  IF current = 0 THEN NoStatus
  ELSE [NoStatus EXCEPT
          !.events = watchers[current].status.events,
          !.error = IF watchers[current].spec = req.fw.spec
                    THEN watchers[current].status.error ELSE ""]

\* The array behind the history of k: the one that it has been sharing, or one
\* with this much room, if it has any.
Arrays(k) ==
  IF watchers[k].array # 0
  THEN {[array |-> watchers[k].array, room |-> watchers[k].room]}
  ELSE {[array |-> IF r = 0 THEN 0 ELSE made + 1, room |-> r] : r \in 0..Slack}

\* addOrReplace makes a new status: its history is a slice of the same array as
\* the old one, with the same room behind it, if there is any at all ...
CopyStatus ==
  /\ ~crashed /\ step = "copy" /\ made < MaxWatchers
  /\ made' = made + 1
  /\ LET new == [NoWatcher EXCEPT !.spec = req.fw.spec, !.status = Inherited] IN
     IF Inherited.events = <<>>
     THEN watchers' = [watchers EXCEPT ![made + 1] = new]
     ELSE \E shared \in Arrays(current) :
            watchers' = [watchers EXCEPT
              ![made + 1] = [new EXCEPT !.array = shared.array,
                                        !.room = shared.room],
              ![current].array = shared.array, ![current].room = shared.room]
  /\ step' = "start"
  /\ UNCHANGED <<api, queued, delayed, req, current, engine, used>>

\* ... starts the new notifier, which may fail ...
StartNotify ==
  /\ ~crashed /\ step = "start"
  /\ \/ /\ watchers' = [watchers EXCEPT ![made].open = TRUE,
                                        ![made].status.monitor = made]
        /\ UNCHANGED used
     \/ /\ Happens
        /\ watchers' = [watchers EXCEPT ![made].status.error = "init"]
  /\ step' = "swap"
  /\ UNCHANGED <<api, queued, delayed, req, made, current, engine>>

\* Mutant: the old watcher is replaced but not stopped.
MutSwap ==
  /\ ~crashed /\ step = "swap"
  /\ watchers' = [watchers EXCEPT
       ![made].loop = IF @ = "none" /\ watchers[made].open
                      THEN "run" ELSE @]
  /\ step' = "assign"
  /\ UNCHANGED <<api, queued, delayed, req, made, current, engine, used>>

\* Mutant: the status is copied when the new notifier is already open.
MutLateCopy ==
  /\ ~crashed /\ step = "swap"
  /\ watchers' = [k \in Ids |->
       IF k = made
       THEN [watchers[k] EXCEPT !.loop = IF watchers[k].open THEN "run" ELSE @,
                                !.status = Inherited]
       ELSE IF k = current THEN CleanedUp(watchers[k], FALSE)
       ELSE watchers[k]]
  /\ step' = "assign"
  /\ UNCHANGED <<api, queued, delayed, req, made, current, engine, used>>

\* ... stops the old watcher and lets the new loop go ...
Swap ==
  /\ ~crashed /\ step = "swap"
  /\ watchers' = [k \in Ids |->
       IF k = made
       THEN [watchers[k] EXCEPT !.loop = IF watchers[k].open THEN "run" ELSE @]
       ELSE IF k = current THEN CleanedUp(watchers[k], FALSE)
       ELSE watchers[k]]
  /\ step' = "assign"
  /\ UNCHANGED <<api, queued, delayed, req, made, current, engine, used>>

\* ... and only then assigns the status.
AssignStatus ==
  /\ ~crashed /\ step = "assign"
  /\ current' = made
  /\ step' = "report"
  /\ UNCHANGED <<api, queued, delayed, req, watchers, made, engine, used>>

\* The status to report.
Wanted ==
  [(IF current = 0 THEN NoStatus ELSE watchers[current].status)
     EXCEPT !.disabled = req.disabled]

\* processFileWatchStatus: of the last event only, and of none as long as
\* there is an error.
ProcessStatus(status) ==
  IF status.error # "" \/ status.events = <<>> THEN {}
  ELSE status.events[Len(status.events)]

\* maybeUpdateObjectStatus; a refused update is tried again.
Report ==
  /\ ~crashed /\ step = "report"
  /\ step' = "idle" /\ req' = NoRequest
  /\ IF Wanted = req.fw.status
     THEN /\ delayed' = (delayed \/ req.after)
          /\ UNCHANGED <<object, stale, queued, told>>
     ELSE IF req.fresh /\ object.exists
     THEN /\ object' = [object EXCEPT !.status = Wanted] /\ stale' = TRUE
          /\ told' = told \cup ProcessStatus(Wanted)
          /\ delayed' = (delayed \/ req.after)
          /\ UNCHANGED queued
     ELSE queued' = TRUE /\ UNCHANGED <<object, stale, delayed, told>>
  /\ UNCHANGED <<cached, disabled, watchers, made, current, skipped, crashed,
                 used>>

Reconcile == \/ Fetch \/ CopyStatus \/ StartNotify \/ Swap \/ AssignStatus
             \/ Report

-----------------------------------------------------------------------------
(* The world *)

\* The client learns what is on the server, and the object is reconciled.
CatchUp ==
  /\ ~crashed /\ stale
  /\ cached' = object /\ stale' = FALSE /\ queued' = TRUE
  /\ UNCHANGED <<object, disabled, delayed, step, req, watchers, made, current,
                 engine, used>>

\* Others change the spec or delete the object.
Write(new) ==
  /\ object' = new /\ stale' = TRUE
  /\ req' = [req EXCEPT !.fresh = FALSE]
  /\ UNCHANGED <<cached, disabled, queued, delayed, step, watchers, made,
                 current, engine>>

UpdateSpec ==
  /\ ~crashed /\ object.exists /\ Happens
  /\ \E s \in Specs \ {object.spec} : Write([object EXCEPT !.spec = s])

DeleteObject ==
  /\ ~crashed /\ object.exists /\ Happens
  /\ Write(Gone)

\* The config map changes, which the index maps to the object.
ToggleDisabled ==
  /\ ~crashed /\ Happens
  /\ disabled' = ~disabled /\ queued' = TRUE
  /\ UNCHANGED <<object, cached, stale, delayed, step, req, watchers, made,
                 current, engine>>

Open == {k \in Ids : watchers[k].open}

\* A file changes: every open notifier sees it.
ChangeFile ==
  /\ ~crashed /\ Use([used EXCEPT !.changes = @ + 1])
  /\ watchers' = [k \in Ids |-> IF k \in Open
       THEN [watchers[k] EXCEPT !.buffer = Append(@, used.changes + 1)]
       ELSE watchers[k]]
  /\ UNCHANGED <<api, queued, delayed, step, req, made, current, engine>>

\* The operating system reports an error, for example an overflow.
Fail(k) ==
  /\ ~crashed /\ k \in Open /\ Happens
  /\ watchers' = [watchers EXCEPT ![k].failed = TRUE]
  /\ UNCHANGED <<api, queued, delayed, step, req, made, current, engine>>

\* A notifier closes by itself.
CloseByItself(k) ==
  /\ ~crashed /\ k \in Open /\ watchers[k].loop = "run"
  /\ Use([used EXCEPT !.incidents = @ + 1, !.closed = TRUE])
  /\ watchers' = [watchers EXCEPT ![k].open = FALSE]
  /\ UNCHANGED <<api, queued, delayed, step, req, made, current, engine>>

Loop(k) == RecordEvent(k) \/ RecordError(k) \/ LoopEnds(k) \/ LoopCleansUp(k)

World == \/ UpdateSpec \/ DeleteObject \/ ToggleDisabled \/ ChangeFile
         \/ \E k \in Ids : Fail(k) \/ CloseByItself(k)

Next == \/ Reconcile \/ CatchUp \/ BackoffElapses \/ RequeueAfter \/ World
        \/ \E k \in Ids : Loop(k)

Spec == Init /\ [][Next]_vars

\* Work queues are worked off, caches catch up, time passes, goroutines run.
Fairness ==
  /\ WF_vars(Reconcile) /\ WF_vars(CatchUp) /\ WF_vars(BackoffElapses)
  /\ WF_vars(RequeueAfter)
  /\ \A k \in Ids : WF_vars(RecordEvent(k)) /\ WF_vars(RecordError(k))
                    /\ WF_vars(LoopEnds(k)) /\ SF_vars(LoopCleansUp(k))

FairSpec == Spec /\ Fairness
=============================================================================
