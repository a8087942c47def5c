----------------------------- MODULE Subscribers ----------------------------
(***************************************************************************)
(* The list of subscribers of the Store (internal/store/subscriber.go):    *)
(* the control loop sets the subscribers up, notifies them of every change *)
(* and tears them down, while other goroutines add and remove subscribers  *)
(* (the web socket handlers of internal/hud/server/websocket.go) and a     *)
(* goroutine per notification calls OnChange, retrying after a backoff.    *)
(*                                                                         *)
(* A change summary is the set of changes merged into it and its           *)
(* LastBackoff, in seconds.  The mutexes that are held while something can *)
(* block are modelled: subscriberList.mu and each entry's activeMu.  The   *)
(* critical sections of subscriberEntry.stateMu are single steps.          *)
(***************************************************************************)
EXTENDS Integers, Sequences, SequencesExt

CONSTANTS Subs,        \* the subscribers there may be
          Static,      \* those registered before Loop, in order
          SetUppers,   \* those that have a SetUp method
          TearDowners, \* those that have a TearDown method
          MaxBackoff,  \* MaxBackoff, in seconds
          MaxChanges,  \* bound: calls of NotifyAll
          Failing,     \* those whose OnChange can return an error
          SetUpMayFail \* can a SetUp return an error?

ASSUME SubscriberAssumption ==
  /\ Static \in Seq(Subs) /\ IsInjective(Static)
  /\ SetUppers \subseteq Subs /\ TearDowners \subseteq Subs
  /\ Failing \subseteq Subs
ASSUME BoundAssumption == MaxBackoff \in Nat \ {0} /\ MaxChanges \in Nat
ASSUME SetUpAssumption == SetUpMayFail \in BOOLEAN

\* The subscribers that a goroutine of their own adds and removes.
Dynamic == Subs \ ToSet(Static)

Change == 1..MaxChanges
Summary == [what : SUBSET Change, backoff : 0..MaxBackoff]

\* No summary: pendingChange = nil, or nobody holds activeMu.
Nil == [what |-> {}, backoff |-> 0]

VARIABLES
  list, setup, listMu,   \* subscriberList: subscribers, setup, who holds mu
  pending,               \* pendingChange of each entry
  queued,                \* goroutines in notify that wait for activeMu
  active, activeChange,  \* what the holder of activeMu does, and with what
  member,                \* progress of the goroutine of a dynamic subscriber
  loop, todo, changes,   \* Loop: pc, the rest of its snapshot, NotifyAll calls
  ctxDone,               \* the context of Loop
  setUps, tearDowns,     \* history: calls of SetUp and TearDown
  told, handled,         \* history: changes notified, and successfully handled
  due                    \* history: changes notified while it was registered

lifecycle == <<list, setup, listMu, member, setUps, tearDowns>>
entries   == <<pending, queued, active, activeChange>>
loopvars  == <<loop, todo, changes, ctxDone>>
history   == <<told, handled, due>>
vars      == <<lifecycle, entries, loopvars, history>>

Init ==
  /\ list = Static /\ setup = FALSE /\ listMu = {}
  /\ pending = [s \in Subs |-> Nil]
  /\ queued = [s \in Subs |-> 0]
  /\ active = [s \in Subs |-> "free"]
  /\ activeChange = [s \in Subs |-> Nil]
  /\ member = [d \in Dynamic |-> "out"]
  /\ loop = "start" /\ todo = <<>> /\ changes = 0 /\ ctxDone = FALSE
  /\ setUps = [s \in Subs |-> 0]
  /\ tearDowns = [s \in Subs |-> 0]
  /\ told = [s \in Subs |-> {}]
  /\ handled = [s \in Subs |-> {}]
  /\ due = [s \in Subs |-> {}]

-----------------------------------------------------------------------------
(* ChangeSummary.Add, claimPending and the goroutines of notify *)

Larger(a, b) == IF a > b THEN a ELSE b

\* Mutant: the merged summary keeps the backoff of the newer change.
MutMerge(c, d) == [what |-> c.what \cup d.what, backoff |-> d.backoff]

Merge(c, d) == [what |-> c.what \cup d.what,
                backoff |-> Larger(c.backoff, d.backoff)]

\* Mutant: a change that arrives while another is pending replaces it.
MutClaimPending(s, c) ==
  /\ pending' = [pending EXCEPT ![s] = c]
  /\ queued' = [queued EXCEPT ![s] = IF pending[s] = Nil THEN @ + 1 ELSE @]

\* Merge a summary into the pending one, or become the pending goroutine.
ClaimPending(s, c) ==
  /\ pending' = [pending EXCEPT ![s] = Merge(@, c)]
  /\ queued' = [queued EXCEPT ![s] = IF pending[s] = Nil THEN @ + 1 ELSE @]

\* activeMu.Lock and movePendingToActive.
Activate(s) ==
  /\ queued[s] > 0
  /\ active[s] = "free"
  /\ active' = [active EXCEPT ![s] = "onchange"]
  /\ activeChange' = [activeChange EXCEPT ![s] = pending[s]]
  /\ pending' = [pending EXCEPT ![s] = Nil]
  /\ queued' = [queued EXCEPT ![s] = @ - 1]
  /\ UNCHANGED <<lifecycle, loopvars, history>>

Finish(s) == /\ active' = [active EXCEPT ![s] = "free"]
             /\ activeChange' = [activeChange EXCEPT ![s] = Nil]

OnChangeSucceeds(s) ==
  /\ active[s] = "onchange"
  /\ Finish(s)
  /\ handled' = [handled EXCEPT ![s] = @ \cup activeChange[s].what]
  /\ UNCHANGED <<lifecycle, pending, queued, loopvars, told, due>>

\* An error when the context is finished is not retried.
OnChangeFailsLast(s) ==
  /\ s \in Failing
  /\ active[s] = "onchange"
  /\ ctxDone
  /\ Finish(s)
  /\ UNCHANGED <<lifecycle, pending, queued, loopvars, history>>

\* Mutant: the backoff doubles without limit.
MutNextBackoff(b) == IF b = 0 THEN 1 ELSE 2 * b

NextBackoff(b) == IF b = 0 THEN 1
                  ELSE IF 2 * b > MaxBackoff THEN MaxBackoff ELSE 2 * b

\* activeMu stays locked during the sleep.
OnChangeFails(s) ==
  /\ s \in Failing
  /\ active[s] = "onchange"
  /\ ~ctxDone
  /\ active' = [active EXCEPT ![s] = "backoff"]
  /\ activeChange' =
       [activeChange EXCEPT ![s].backoff = NextBackoff(@)]
  /\ UNCHANGED <<lifecycle, pending, queued, loopvars, history>>

\* Mutant: the requeued change has no goroutine of its own.
MutRequeue(s) ==
  /\ active[s] = "backoff"
  /\ pending' = [pending EXCEPT ![s] = Merge(@, activeChange[s])]
  /\ Finish(s)
  /\ UNCHANGED <<queued, lifecycle, loopvars, history>>

\* The sleep ends, by itself or because the context is finished.
Requeue(s) ==
  /\ active[s] = "backoff"
  /\ ClaimPending(s, activeChange[s])
  /\ Finish(s)
  /\ UNCHANGED <<lifecycle, loopvars, history>>

-----------------------------------------------------------------------------
(* Add and Remove, by the goroutine of a dynamic subscriber *)

\* maybeSetUp and maybeTeardown: with activeMu, if there is such a method.
CallSetUp(s) ==
  /\ s \in SetUppers => active[s] = "free"
  /\ setUps' = IF s \in SetUppers THEN [setUps EXCEPT ![s] = @ + 1] ELSE setUps

CallTearDown(s) ==
  /\ s \in TearDowners => active[s] = "free"
  /\ tearDowns' = IF s \in TearDowners
                  THEN [tearDowns EXCEPT ![s] = @ + 1] ELSE tearDowns

\* The list stays locked while an added subscriber is set up, which it is
\* only if the rest of the list already is.  Web sockets are served by a
\* server that a SetUp starts.
AddSubscriber(d) ==
  /\ member[d] = "out" /\ listMu = {}
  /\ loop # "start"
  /\ list' = Append(list, d)
  /\ member' = [member EXCEPT ![d] = IF setup THEN "adding" ELSE "in"]
  /\ listMu' = IF setup THEN {d} ELSE {}
  /\ UNCHANGED <<setup, setUps, tearDowns, entries, loopvars, history>>

AddSetUp(d) ==
  /\ member[d] = "adding"
  /\ CallSetUp(d)
  /\ member' = [member EXCEPT ![d] = "in"]
  /\ listMu' = {}
  /\ UNCHANGED <<list, setup, tearDowns, entries, loopvars, history>>

\* Mutant: a removed subscriber is torn down whatever the state of the list.
MutRemoveSubscriber(d) ==
  /\ member[d] = "in" /\ listMu = {}
  /\ \E i \in DOMAIN list : list[i] = d /\ list' = RemoveAt(list, i)
  /\ member' = [member EXCEPT ![d] = "removing"]
  /\ listMu' = {d}
  /\ UNCHANGED <<setup, setUps, tearDowns, entries, loopvars, history>>

\* Mutant: the loop goes through the list itself and not through a copy.
MutRemoveFromSnapshot(d) ==
  /\ member[d] = "in" /\ listMu = {}
  /\ \E i \in DOMAIN list : list[i] = d /\ list' = RemoveAt(list, i)
  /\ todo' = SelectSeq(todo, LAMBDA s : s # d)
  /\ member' = [member EXCEPT ![d] = IF setup THEN "removing" ELSE "gone"]
  /\ listMu' = IF setup THEN {d} ELSE {}
  /\ UNCHANGED <<setup, setUps, tearDowns, entries, loop, changes, ctxDone,
                 history>>

\* The list stays locked while a removed subscriber is torn down.
RemoveSubscriber(d) ==
  /\ member[d] = "in" /\ listMu = {}
  /\ \E i \in DOMAIN list : list[i] = d /\ list' = RemoveAt(list, i)
  /\ member' = [member EXCEPT ![d] = IF setup THEN "removing" ELSE "gone"]
  /\ listMu' = IF setup THEN {d} ELSE {}
  /\ UNCHANGED <<setup, setUps, tearDowns, entries, loopvars, history>>

RemoveTearDown(d) ==
  /\ member[d] = "removing"
  /\ CallTearDown(d)
  /\ member' = [member EXCEPT ![d] = "gone"]
  /\ listMu' = {}
  /\ UNCHANGED <<list, setup, setUps, entries, loopvars, history>>

-----------------------------------------------------------------------------
(* SetUp, NotifyAll and TeardownAll, by the control loop *)

SetUpAll ==
  /\ loop = "start" /\ listMu = {}
  /\ todo' = list
  /\ setup' = TRUE
  /\ loop' = "settingUp"
  /\ UNCHANGED <<list, listMu, member, setUps, tearDowns, entries, changes,
                 ctxDone, history>>

\* maybeSetUp of the next subscriber; an error ends the loop on the spot.
SetUpNext ==
  /\ loop = "settingUp" /\ todo # <<>>
  /\ CallSetUp(Head(todo))
  /\ todo' = Tail(todo)
  /\ \/ loop' = loop
     \/ /\ SetUpMayFail /\ Head(todo) \in SetUppers
        /\ loop' = "failed"
  /\ UNCHANGED <<list, setup, listMu, member, tearDowns, entries, changes,
                 ctxDone, history>>

SetUpDone ==
  /\ loop = "settingUp" /\ todo = <<>>
  /\ loop' = "run"
  /\ UNCHANGED <<lifecycle, entries, todo, changes, ctxDone, history>>

\* Between its Add and its Remove; those in Static always are.
Registered(s) == s \in Dynamic => member[s] \in {"adding", "in"}

\* A batch of actions has been reduced.
NotifyAll ==
  /\ loop = "run" /\ listMu = {}
  /\ changes < MaxChanges
  /\ changes' = changes + 1
  /\ todo' = list
  /\ due' = [s \in Subs |-> IF Registered(s) THEN due[s] \cup {changes + 1}
                            ELSE due[s]]
  /\ loop' = "notify"
  /\ UNCHANGED <<lifecycle, entries, ctxDone, told, handled>>

NotifyNext ==
  /\ loop = "notify" /\ todo # <<>>
  /\ ClaimPending(Head(todo), [what |-> {changes}, backoff |-> 0])
  /\ told' = [told EXCEPT ![Head(todo)] = @ \cup {changes}]
  /\ todo' = Tail(todo)
  /\ UNCHANGED <<lifecycle, active, activeChange, loop, changes, ctxDone,
                 handled, due>>

NotifyDone ==
  /\ loop = "notify" /\ todo = <<>>
  /\ loop' = "run"
  /\ UNCHANGED <<lifecycle, entries, todo, changes, ctxDone, history>>

CancelContext ==
  /\ ~ctxDone
  /\ ctxDone' = TRUE
  /\ UNCHANGED <<lifecycle, entries, loop, todo, changes, history>>

\* The loop is over, for one of the reasons module Store has.
TeardownAll ==
  /\ loop = "run" /\ listMu = {}
  /\ todo' = Reverse(list)
  /\ setup' = FALSE
  /\ loop' = "teardown"
  /\ UNCHANGED <<list, listMu, member, setUps, tearDowns, entries, changes,
                 ctxDone, history>>

TeardownNext ==
  /\ loop = "teardown" /\ todo # <<>>
  /\ CallTearDown(Head(todo))
  /\ todo' = Tail(todo)
  /\ UNCHANGED <<list, setup, listMu, member, setUps, entries, loop, changes,
                 ctxDone, history>>

TeardownDone ==
  /\ loop = "teardown" /\ todo = <<>>
  /\ loop' = "done"
  /\ UNCHANGED <<lifecycle, entries, todo, changes, ctxDone, history>>

-----------------------------------------------------------------------------
EntryStep(s) == \/ Activate(s) \/ OnChangeSucceeds(s) \/ OnChangeFailsLast(s)
                \/ OnChangeFails(s) \/ Requeue(s)

MemberStep(d) == \/ AddSubscriber(d) \/ AddSetUp(d)
                 \/ RemoveSubscriber(d) \/ RemoveTearDown(d)

LoopStep == \/ SetUpAll \/ SetUpNext \/ SetUpDone \/ NotifyAll \/ NotifyNext
            \/ NotifyDone \/ TeardownAll \/ TeardownNext \/ TeardownDone

Next == \/ \E s \in Subs : EntryStep(s)
        \/ \E d \in Dynamic : MemberStep(d)
        \/ LoopStep \/ CancelContext

Spec == Init /\ [][Next]_vars

\* Goroutines run, OnChange returns, and a sleep ends.  Go's mutexes serve a
\* waiter in the end, whoever else asks for them (starvation mode): strong
\* fairness of the steps that take one.  Nothing obliges the loop to end,
\* anybody to cancel, or a subscriber to come or go.
Fairness ==
  /\ \A s \in Subs :
       /\ SF_vars(Activate(s))
       /\ WF_vars(OnChangeSucceeds(s) \/ OnChangeFails(s)
                    \/ OnChangeFailsLast(s))
       /\ WF_vars(Requeue(s))
  /\ \A d \in Dynamic : SF_vars(AddSetUp(d)) /\ SF_vars(RemoveTearDown(d))
  /\ SF_vars(SetUpNext) /\ SF_vars(TeardownNext)
  /\ WF_vars(SetUpDone \/ NotifyNext \/ NotifyDone \/ TeardownDone)

FairSpec == Spec /\ Fairness
=============================================================================
