------------------------- MODULE FileWatchProperties -------------------------
(***************************************************************************)
(* What the controller of file watches promises.                           *)
(***************************************************************************)
EXTENDS FileWatch

Errors == {"", "init", "os", "closed"}

Status == [monitor : 0..MaxWatchers, events : Seq(SUBSET Nat),
           error : Errors, disabled : BOOLEAN]

Object == [exists : BOOLEAN, spec : Specs, status : Status]

Watcher == [spec : Specs, loop : {"none", "run", "exiting"}, open : BOOLEAN,
            buffer : Seq(Nat), failed : BOOLEAN, status : Status,
            array : Nat, room : Nat, done : BOOLEAN, backingOff : BOOLEAN,
            canceled : BOOLEAN]

Request == [fw : Object, fresh : BOOLEAN, disabled : BOOLEAN, after : BOOLEAN]

\* The types of the state.  The history in a status is bounded.
TypeOK ==
  /\ object \in Object /\ cached \in Object
  /\ stale \in BOOLEAN /\ disabled \in BOOLEAN /\ crashed \in BOOLEAN
  /\ queued \in BOOLEAN /\ delayed \in BOOLEAN
  /\ step \in {"idle", "copy", "start", "swap", "assign", "report"}
  /\ req \in Request
  /\ watchers \in [Ids -> Watcher]
  /\ \A k \in Ids : Len(watchers[k].status.events) <= MaxFileEventHistory
  /\ made \in 0..MaxWatchers /\ current \in 0..made
  /\ told \subseteq Nat /\ skipped \subseteq Nat
  /\ used \in [changes : Nat, incidents : Nat, closed : BOOLEAN,
               mixed : BOOLEAN]

\* A notifier is open only as long as its watcher is the current one, or about
\* to become it: however watches are replaced, disabled, deleted and restarted,
\* none is left open (the resources that TestController_Watcher_Cancel and
\* TestController_Reconcile_Delete look after).
OnlyOneWatch ==
  \A k \in Open : k = current \/ (Replacing /\ k = made)

\* No status says that a watch was closed unexpectedly unless one was: that
\* the controller closes the old notifier itself never shows in the new status,
\* which takes over the error of the old one.
NoFalseAlarm ==
  ~used.closed =>
    \A k \in Ids : \/ watchers[k].status.error # "closed"
                   \/ watchers[k].done /\ (k # current \/ Replacing)

\* The history in the status has every change at most once, in order, although
\* two watchers see the changes while one replaces the other, unless the loop of
\* the old one wrote into the new history: both append to the array that the
\* new one took over (controller.go:196, watcher.go:108).
NoChangeTwice ==
  LET events == object.status.events IN
  ~used.mixed =>
    \A i, j \in DOMAIN events :
      i < j => \A c \in events[i], d \in events[j] : c < d

-----------------------------------------------------------------------------
(* Why OnlyOneWatch and NoFalseAlarm hold *)

\* A watcher that is done is closed, one that is being started is not done and
\* comes after the current one, which is closed when the status is assigned.
DoneIsClosed ==
  /\ \A k \in Open : ~watchers[k].done
  /\ Replacing => current < made /\ ~watchers[made].done
  /\ step = "assign" => Open \subseteq {made}

\* A watcher is canceled because it is done, and unless a notifier has closed by
\* itself, a loop ends because its watcher is done.
LoopsEndDone ==
  /\ \A k \in Ids : watchers[k].canceled => watchers[k].done
  /\ ~used.closed =>
       \A k \in Ids :
         /\ watchers[k].loop = "exiting" => watchers[k].done
         /\ watchers[k].loop = "run" => watchers[k].open \/ watchers[k].done

\* Together they are inductive.
IInv == /\ TypeOK /\ OnlyOneWatch /\ NoFalseAlarm
        /\ DoneIsClosed /\ LoopsEndDone

\* Why NoChangeTwice holds: what a watcher has recorded is in order and comes
\* before what its notifier is still collecting, and nothing is ahead of the
\* changes there have been, so that a watcher that takes over the events of
\* another only sees later changes itself.
InOrder(events, buffer, n) ==
  /\ \A i, j \in DOMAIN events :
       i < j => \A c \in events[i], d \in events[j] : c < d
  /\ \A i, j \in DOMAIN buffer : i < j => buffer[i] < buffer[j]
  /\ \A i \in DOMAIN events, j \in DOMAIN buffer :
       \A c \in events[i] : c < buffer[j]
  /\ \A i \in DOMAIN events : \A c \in events[i] : c <= n
  /\ \A j \in DOMAIN buffer : buffer[j] <= n

\* That is so for the current watcher and the one that is about to replace it.
\* Of all that may write into the history of one of them, only the newest comes
\* after it, which has no status yet and ends the program; an older one is mixed.
Latest == {k \in Ids : k = current \/ (Replacing /\ k = made)}

LatestInv == current \in {0, IF Replacing THEN made - 1 ELSE made}

HistoryInv ==
  /\ NoChangeTwice /\ LatestInv
  /\ crashed \/ used.mixed \/ \A k \in Latest :
       InOrder(watchers[k].status.events, watchers[k].buffer, used.changes)

-----------------------------------------------------------------------------
\* In the end what the current watcher has seen is recorded, and every event in
\* its history has got to the engine, unless there is an error, or the event was
\* followed by another one before the engine was told of it: the engine looks
\* at the last event of a status only (action.go:41), and several can be
\* recorded before one reconciliation.  No other event is missed: no request for
\* a reconciliation is lost between the loop, a running reconciliation, stale
\* copies and refused updates.
EventsAreTold ==
  <>[](\/ crashed \/ ~object.exists \/ current = 0 \/ used.mixed
       \/ watchers[current].status.error # ""
       \/ /\ watchers[current].buffer = <<>>
          /\ \A i \in DOMAIN watchers[current].status.events :
               watchers[current].status.events[i] \subseteq told \cup skipped)

\* In the end the object says what the watcher says.
StatusSettles ==
  <>[](\/ crashed \/ ~object.exists
       \/ /\ object.status.disabled = disabled
          /\ current # 0 => [object.status EXCEPT !.disabled = FALSE]
                              = watchers[current].status)

\* So the object gets to know what the current watcher knows, and the engine all
\* of it but the events that were overtaken by the next one.
ReportsSettle == EventsAreTold /\ StatusSettles

\* A watch that closed by itself is started again after its backoff, or the
\* attempt fails, or it is no longer wanted.
WatchComesBack ==
  (current # 0 /\ watchers[current].done)
    ~> \/ crashed \/ disabled \/ ~object.exists
       \/ current # 0 /\ (watchers[current].open
                          \/ watchers[current].status.error = "init")
=============================================================================
