------------------------ MODULE SubscribersProperties ------------------------
(***************************************************************************)
(* What the list of subscribers promises to a subscriber.                  *)
(***************************************************************************)
EXTENDS Subscribers

\* The types of the variables.
TypeOK ==
  /\ list \in Seq(Subs) /\ setup \in BOOLEAN /\ listMu \in SUBSET Dynamic
  /\ pending \in [Subs -> Summary]
  /\ queued \in [Subs -> Nat]
  /\ active \in [Subs -> {"free", "onchange", "backoff"}]
  /\ activeChange \in [Subs -> Summary]
  /\ member \in [Dynamic -> {"out", "adding", "in", "removing", "gone"}]
  /\ loop \in {"start", "settingUp", "failed", "run", "notify", "teardown",
               "done"}
  /\ todo \in Seq(Subs) /\ changes \in 0..MaxChanges /\ ctxDone \in BOOLEAN
  /\ setUps \in [Subs -> Nat] /\ tearDowns \in [Subs -> Nat]
  /\ told \in [Subs -> SUBSET Change] /\ handled \in [Subs -> SUBSET Change]
  /\ due \in [Subs -> SUBSET Change]

\* At most one goroutine waits for the turn of a subscriber, and it does so
\* exactly when there is a pending change: notify (subscriber.go:195) never
\* dereferences a nil pendingChange, and no pending change is left without a
\* goroutine to deliver it, whatever NotifyAll and a requeue after a backoff
\* do in between.
OnePendingGoroutine ==
  \A s \in Subs : queued[s] = IF pending[s] = Nil THEN 0 ELSE 1

\* Until the context is finished, a change that a subscriber was told of is
\* either handled, or being handled, or pending: merging summaries and
\* retrying after errors lose nothing.
NoChangeLost ==
  ~ctxDone => \A s \in Subs :
    told[s] \subseteq handled[s] \cup pending[s].what \cup activeChange[s].what

\* So every change is delivered once at least, by one goroutine at a time.
NotificationsSound == OnePendingGoroutine /\ NoChangeLost

\* A subscriber with a SetUp sees no OnChange before its SetUp returned, when
\* it was registered before Loop and when it came while Loop was running.
SetUpComesFirst ==
  \A s \in SetUppers :
    (active[s] # "free" \/ handled[s] # {}) => setUps[s] = 1

\* Whether the loop ends before, after or while a subscriber is removed, it is
\* torn down once at most; and it was if it was registered all along.
TornDownOnce ==
  /\ \A s \in Subs : tearDowns[s] <= 1
  /\ loop = "done" => \A s \in TearDowners \ Dynamic : tearDowns[s] = 1

\* SetUp is called in FIFO order while TearDown is LIFO (subscriber.go:40-42):
\* a subscriber outlives everything that was set up after it.
LifecycleOrder ==
  \A i, j \in DOMAIN Static : i < j =>
    /\ Static[i] \in SetUppers /\ setUps[Static[j]] > 0
         => setUps[Static[i]] > 0
    /\ Static[j] \in TearDowners /\ tearDowns[Static[i]] > 0
         => tearDowns[Static[j]] > 0

\* So no OnChange comes before SetUp, no TearDown twice, and several subscribers
\* are set up and torn down in their order.  Nothing here says that the last
\* OnChange comes before TearDown: a goroutine that waits for the active mutex,
\* or a notification that copied the list before a removal, still calls
\* OnChange after it, although websocket.go:353-354 says that the Store waits
\* for any outstanding OnChange events and then calls TearDown.
LifecycleSound == SetUpComesFirst /\ TornDownOnce /\ LifecycleOrder

\* The loop has yet to get to a subscriber with the last notification.
StillToNotify(s) == loop = "notify" /\ s \in ToSet(todo)

\* A subscriber is told of exactly the changes that the loop notified while it
\* was registered, however Add and Remove interleave with the notifications,
\* each of which goes through a copy of the list (subscriber.go:126).  So
\* whatever OnChange is called for, after TearDown as well, is a change from
\* the time of the registration.
ToldExactlyWhatIsDue ==
  \A s \in Subs :
    /\ told[s] = due[s] \ (IF StillToNotify(s) THEN {changes} ELSE {})
    /\ pending[s].what \cup activeChange[s].what \subseteq due[s]

\* A change that failed takes its backoff along when it is requeued, and
\* newer changes, which have none, do not take it away while they are merged
\* in: a subscriber that keeps failing is retried more and more slowly,
\* whatever notifications arrive meanwhile.
BackoffIsKept ==
  [][\A s \in Subs :
       /\ active[s] = "backoff" /\ active'[s] = "free"
            => pending'[s].backoff >= activeChange[s].backoff
       /\ pending'[s] # Nil => pending'[s].backoff >= pending[s].backoff]_vars

\* What holds the two of them together: exactly who has the active mutex for
\* an OnChange or a backoff has a change in hand, and the loop only notifies
\* of a change it counted.
InHand == \A s \in Subs : active[s] = "free" <=> activeChange[s] = Nil
Counted == loop = "notify" => changes \in Change

\* The inductive invariant of the notifications.
IInv == TypeOK /\ InHand /\ Counted /\ OnePendingGoroutine /\ NoChangeLost

\* Where the subscribers are in the list: those registered before Loop come
\* first and stay, the others are there only between Add and Remove.
ListShape ==
  /\ IsInjective(list)
  /\ Len(Static) <= Len(list)
  /\ \A i \in DOMAIN Static : list[i] = Static[i]
  /\ \A i \in DOMAIN list :
       list[i] \in Dynamic => member[list[i]] \in {"adding", "in"}
  /\ loop = "start" => list = Static /\ \A d \in Dynamic : member[d] = "out"

\* Who sets up or tears down an added or removed subscriber has the list to
\* itself, while the loop is neither before its set-up nor after its teardown.
ListIsHeld ==
  /\ setup <=> loop \in {"settingUp", "failed", "run", "notify"}
  /\ \A d \in Dynamic :
       member[d] \in {"adding", "removing"} => listMu = {d} /\ setup

\* How many of the subscribers in Static the loop has set up and, from the
\* end, has yet to tear down.
SetUpCount == IF loop = "start" THEN 0
              ELSE IF loop \in {"settingUp", "failed"}
                   THEN Len(Static) - Len(todo) ELSE Len(Static)
StillUp == IF loop \in {"teardown", "done"} THEN Len(todo) ELSE Len(Static)

\* Which set-ups there have been when.
SetUpsSoFar ==
  /\ \A s \in Subs \ SetUppers : setUps[s] = 0
  /\ loop \in {"settingUp", "failed"} =>
       /\ Len(todo) <= Len(Static)
       /\ \A i \in DOMAIN todo : todo[i] = Static[Len(Static) - Len(todo) + i]
  /\ \A i \in DOMAIN Static : Static[i] \in SetUppers =>
       setUps[Static[i]] = IF i <= SetUpCount THEN 1 ELSE 0
  /\ \A d \in Dynamic \cap SetUppers :
       /\ member[d] \in {"out", "adding"} => setUps[d] = 0
       /\ loop \notin {"teardown", "done"} =>
            (member[d] \in {"in", "removing", "gone"} => setUps[d] = 1)

\* Which teardowns there have been when.
TearDownsSoFar ==
  /\ loop = "done" => todo = <<>>
  /\ loop = "teardown" =>
       /\ IsInjective(todo)
       /\ \A j \in DOMAIN todo : tearDowns[todo[j]] = 0
       /\ \A i \in DOMAIN Static :
            i <= Len(todo) => todo[Len(todo) + 1 - i] = Static[i]
  /\ \A i \in DOMAIN Static : tearDowns[Static[i]] =
       IF Static[i] \in TearDowners /\ i > StillUp THEN 1 ELSE 0
  /\ \A d \in Dynamic :
       /\ tearDowns[d] <= 1
       /\ loop \notin {"teardown", "done"} /\ member[d] # "gone"
            => tearDowns[d] = 0

\* Whatever is pending, in hand or handled was told, and only subscribers that
\* are set up are told anything.
ToldAfterSetUp ==
  /\ \A s \in Subs :
       /\ pending[s].what \cup activeChange[s].what \cup handled[s]
            \subseteq told[s]
       /\ pending[s] # Nil => pending[s].what # {}
       /\ activeChange[s] # Nil => activeChange[s].what # {}
       /\ s \in SetUppers /\ told[s] # {} => setUps[s] = 1
  /\ loop = "notify" => \A i \in DOMAIN todo :
       todo[i] \in SetUppers => setUps[todo[i]] = 1

\* The inductive invariant of the lifecycle.
LifecycleInv == /\ ListShape /\ ListIsHeld /\ SetUpsSoFar /\ TearDownsSoFar
                /\ ToldAfterSetUp

\* What the notifications make of the list: it has all who are registered, and
\* the copy of a notification has each of those still to be told once.
DueInv ==
  /\ \A s \in Subs : Registered(s) => s \in ToSet(list)
  /\ \A s \in Subs : due[s] \subseteq 1..changes
  /\ loop = "notify" => IsInjective(todo)
  /\ \A s \in Subs : StillToNotify(s) => changes \in due[s]
  /\ \A s \in Subs :
       told[s] = due[s] \ (IF StillToNotify(s) THEN {changes} ELSE {})

-----------------------------------------------------------------------------
\* Every notification is delivered, in a finite time after the OnChange, the
\* backoff, the SetUp or the TearDown that has the subscriber's mutex.
ChangesAreDelivered ==
  \A s \in Subs : pending[s] # Nil ~> active[s] = "onchange"

RemovalEnds  == \A d \in Dynamic : member[d] = "removing" ~> member[d] = "gone"
TeardownEnds == loop = "teardown" ~> loop = "done"

\* A handler that removes its subscriber returns, and so does Loop, although
\* both wait for OnChange calls and the former for the list mutex, too.
LifecycleEnds == RemovalEnds /\ TeardownEnds

\* So whoever has to wait for a subscriber goes on in the end.
NobodyIsStuck == ChangesAreDelivered /\ LifecycleEnds

=============================================================================
