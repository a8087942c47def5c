-------------------------- MODULE SubscribersProofs --------------------------
(***************************************************************************)
(* Proofs about the notifications and the lifecycle of subscribers, for    *)
(* any set of them and any number of changes.                              *)
(***************************************************************************)
EXTENDS SubscribersProperties, SequenceTheorems, TLAPS

\* No summary, and the summary of one change, are summaries.
LEMMA NilIsSummary == Nil \in Summary
  BY BoundAssumption DEF Nil, Summary

\* Merging summaries gives a summary, which is one if one of them was, has
\* the changes of both, and the larger backoff.
LEMMA MergeRules ==
  ASSUME NEW c \in Summary, NEW d \in Summary
  PROVE  /\ Merge(c, d) \in Summary
         /\ Merge(c, d).what = c.what \cup d.what
         /\ Merge(c, d).backoff >= c.backoff
         /\ Merge(c, d).backoff >= d.backoff
         /\ d # Nil => Merge(c, d) # Nil
  <1>1. /\ c.what \subseteq Change /\ d.what \subseteq Change
        /\ c.backoff \in 0..MaxBackoff /\ d.backoff \in 0..MaxBackoff
        /\ d = [what |-> d.what, backoff |-> d.backoff]
    BY DEF Summary
  <1>2. /\ Larger(c.backoff, d.backoff) \in 0..MaxBackoff
        /\ Larger(c.backoff, d.backoff) >= c.backoff
        /\ Larger(c.backoff, d.backoff) >= d.backoff
    BY <1>1, BoundAssumption DEF Larger
  <1>3. /\ Merge(c, d).what = c.what \cup d.what
        /\ Merge(c, d).backoff = Larger(c.backoff, d.backoff)
    BY DEF Merge
  <1>4. Merge(c, d) \in Summary
    BY <1>1, <1>2 DEF Merge, Summary
  <1>5. d # Nil => Merge(c, d) # Nil
    <2>1. SUFFICES ASSUME Merge(c, d) = Nil PROVE d = Nil
      OBVIOUS
    <2>2. d.what = {} /\ Larger(c.backoff, d.backoff) = 0
      BY <2>1, <1>3 DEF Nil
    <2>3. d.backoff = 0
      BY <2>2, <1>1, <1>2, BoundAssumption
    <2>4. QED
      BY <2>2, <2>3, <1>1 DEF Nil
  <1>6. QED
    BY <1>2, <1>3, <1>4, <1>5

\* The backoff after a failure is positive and bounded.
LEMMA NextBackoffRules ==
  ASSUME NEW b \in 0..MaxBackoff
  PROVE  NextBackoff(b) \in 1..MaxBackoff
  BY BoundAssumption DEF NextBackoff

\* The elements of a sequence without one of them, and in reverse.
LEMMA SequenceRules ==
  ASSUME NEW q \in Seq(Subs)
  PROVE  /\ \A i \in DOMAIN q : RemoveAt(q, i) \in Seq(Subs)
         /\ Reverse(q) \in Seq(Subs)
         /\ \A s \in Subs : Append(q, s) \in Seq(Subs)
         /\ q # <<>> => Head(q) \in Subs /\ Tail(q) \in Seq(Subs)
  <1>1. \A i \in DOMAIN q : RemoveAt(q, i) \in Seq(Subs)
    <2>1. SUFFICES ASSUME NEW i \in DOMAIN q PROVE RemoveAt(q, i) \in Seq(Subs)
      OBVIOUS
    <2>2. i \in 1..Len(q) /\ Len(q) \in Nat
      BY <2>1
    <2>3. SubSeq(q, 1, i-1) \in Seq(Subs) /\ SubSeq(q, i+1, Len(q)) \in Seq(Subs)
      BY <2>2
    <2>4. QED
      BY <2>3 DEF RemoveAt
  <1>2. Reverse(q) \in Seq(Subs)
    <2>1. \A i \in 1..Len(q) : q[(Len(q) - i) + 1] \in Subs
      OBVIOUS
    <2>2. Reverse(q) \in [1..Len(q) -> Subs]
      BY <2>1 DEF Reverse
    <2>3. QED
      BY <2>2, IsASeq, LenProperties
  <1>3. QED
    BY <1>1, <1>2

-----------------------------------------------------------------------------
\* At the start there is no change, and nobody to handle one.
LEMMA InitIInv == Init => IInv
  <1>1. SUFFICES ASSUME Init PROVE IInv
    OBVIOUS
  <1>2. /\ pending \in [Subs -> Summary] /\ activeChange \in [Subs -> Summary]
        /\ list \in Seq(Subs) /\ todo \in Seq(Subs)
    BY <1>1, NilIsSummary, SubscriberAssumption DEF Init
  <1>3. /\ setup = FALSE /\ listMu = {} /\ loop = "start" /\ changes = 0
        /\ ctxDone = FALSE
        /\ queued = [s \in Subs |-> 0]
        /\ active = [s \in Subs |-> "free"]
        /\ member = [d \in Dynamic |-> "out"]
        /\ setUps = [s \in Subs |-> 0] /\ tearDowns = [s \in Subs |-> 0]
        /\ told = [s \in Subs |-> {}] /\ handled = [s \in Subs |-> {}]
        /\ due = [s \in Subs |-> {}]
    BY <1>1 DEF Init
  <1>4. setup \in BOOLEAN /\ ctxDone \in BOOLEAN
    BY <1>3
  <1>5. TypeOK
    BY <1>2, <1>3, <1>4, BoundAssumption DEF TypeOK
  <1>6. QED
    BY <1>1, <1>5
    DEF Init, IInv, InHand, Counted, OnePendingGoroutine, NoChangeLost, Nil

\* claimPending keeps pending changes and pending goroutines together.
LEMMA ClaimPendingRules ==
  ASSUME TypeOK, OnePendingGoroutine,
         NEW s \in Subs, NEW c \in Summary, c # Nil, ClaimPending(s, c)
  PROVE  /\ pending' \in [Subs -> Summary] /\ queued' \in [Subs -> Nat]
         /\ OnePendingGoroutine'
         /\ pending'[s].what = pending[s].what \cup c.what
         /\ pending'[s].backoff >= pending[s].backoff
         /\ pending'[s].backoff >= c.backoff
         /\ \A t \in Subs \ {s} : pending'[t] = pending[t]
  <1>1. pending[s] \in Summary /\ queued[s] \in Nat
    BY DEF TypeOK
  <1>2. pending'[s] = Merge(pending[s], c)
    BY DEF ClaimPending, TypeOK
  <1>3. \A t \in Subs \ {s} : pending'[t] = pending[t] /\ queued'[t] = queued[t]
    BY DEF ClaimPending, TypeOK
  <1>4. pending' \in [Subs -> Summary]
    BY <1>1, MergeRules DEF ClaimPending, TypeOK
  <1>5. queued' \in [Subs -> Nat]
    BY <1>1 DEF ClaimPending, TypeOK
  <1>6. pending'[s] # Nil /\ queued'[s] = 1
    <2>1. pending'[s] # Nil
      BY <1>1, <1>2, MergeRules
    <2>2. queued'[s] = 1
      BY <1>1 DEF ClaimPending, OnePendingGoroutine, TypeOK
    <2>3. QED
      BY <2>1, <2>2
  <1>7. OnePendingGoroutine'
    BY <1>3, <1>6 DEF OnePendingGoroutine
  <1>8. QED
    BY <1>1, <1>2, <1>3, <1>4, <1>5, <1>7, MergeRules

-----------------------------------------------------------------------------
(* One lemma for each group of actions *)

LEMMA ActivateIInv ==
  ASSUME IInv, NEW s \in Subs, Activate(s)
  PROVE  IInv'
  <1>1. /\ pending[s] \in Summary /\ queued[s] \in Nat
        /\ queued[s] = IF pending[s] = Nil THEN 0 ELSE 1
    BY DEF IInv, TypeOK, OnePendingGoroutine
  <1>2. pending[s] # Nil /\ queued[s] = 1
    BY <1>1 DEF Activate
  <1>3. TypeOK'
    BY <1>1, <1>2, NilIsSummary
    DEF IInv, TypeOK, Activate, lifecycle, loopvars, history
  <1>4. InHand'
    BY <1>2 DEF IInv, TypeOK, InHand, Activate
  <1>5. Counted'
    BY DEF IInv, Counted, Activate, loopvars
  <1>6. OnePendingGoroutine'
    BY <1>1, <1>2 DEF IInv, TypeOK, OnePendingGoroutine, Activate
  <1>7. NoChangeLost'
    <2>1. activeChange[s] = Nil
      BY DEF IInv, InHand, Activate
    <2>2. activeChange[s].what = {}
      BY <2>1 DEF Nil
    <2>3. activeChange'[s] = pending[s]
      BY DEF IInv, TypeOK, Activate
    <2>4. \A t \in Subs \ {s} : /\ activeChange'[t] = activeChange[t]
                               /\ pending'[t] = pending[t]
      BY DEF IInv, TypeOK, Activate
    <2>5. UNCHANGED <<told, handled, ctxDone>>
      BY DEF Activate, loopvars, history
    <2>6. QED
      BY <2>2, <2>3, <2>4, <2>5 DEF IInv, NoChangeLost
  <1>8. QED
    BY <1>3, <1>4, <1>5, <1>6, <1>7 DEF IInv

\* The three ways in which a goroutine is done with a change.
LEMMA FinishIInv ==
  ASSUME IInv, NEW s \in Subs,
         OnChangeSucceeds(s) \/ OnChangeFailsLast(s) \/ Requeue(s)
  PROVE  IInv'
  <1>1. /\ activeChange' = [activeChange EXCEPT ![s] = Nil]
        /\ active' = [active EXCEPT ![s] = "free"]
        /\ active[s] # "free"
        /\ UNCHANGED <<lifecycle, loopvars, told>>
    BY DEF OnChangeSucceeds, OnChangeFailsLast, Requeue, Finish, history
  <1>2. /\ activeChange[s] \in Summary /\ activeChange[s] # Nil
        /\ activeChange[s].what \subseteq Change
    BY <1>1 DEF IInv, TypeOK, InHand, Summary
  <1>3. /\ activeChange' \in [Subs -> Summary]
        /\ active' \in [Subs -> {"free", "onchange", "backoff"}]
    BY <1>1, NilIsSummary DEF IInv, TypeOK
  <1>4. handled' \in [Subs -> SUBSET Change]
    BY <1>2 DEF IInv, TypeOK, OnChangeSucceeds, OnChangeFailsLast, Requeue,
                history
  <1>5. /\ pending' \in [Subs -> Summary] /\ queued' \in [Subs -> Nat]
        /\ OnePendingGoroutine'
    <2>1. CASE UNCHANGED <<pending, queued>>
      BY <2>1 DEF IInv, TypeOK, OnePendingGoroutine
    <2>2. CASE Requeue(s)
      BY <2>2, <1>2, ClaimPendingRules DEF IInv, Requeue
    <2>3. QED
      BY <2>1, <2>2 DEF OnChangeSucceeds, OnChangeFailsLast
  <1>6. TypeOK'
    <2>1. due' = due
      BY DEF OnChangeSucceeds, OnChangeFailsLast, Requeue, history
    <2>2. QED
      BY <1>1, <1>3, <1>4, <1>5, <2>1 DEF IInv, TypeOK, lifecycle, loopvars
  <1>7. InHand'
    BY <1>1 DEF IInv, TypeOK, InHand
  <1>8. Counted'
    BY <1>1 DEF IInv, Counted, loopvars
  <1>9. NoChangeLost'
    <2>1. \A t \in Subs \ {s} : activeChange'[t] = activeChange[t]
      BY <1>1 DEF IInv, TypeOK
    <2>2. CASE OnChangeSucceeds(s)
      <3>1. handled'[s] = handled[s] \cup activeChange[s].what
        BY <2>2 DEF IInv, TypeOK, OnChangeSucceeds
      <3>2. \A t \in Subs \ {s} : handled'[t] = handled[t]
        BY <2>2 DEF IInv, TypeOK, OnChangeSucceeds
      <3>3. UNCHANGED <<told, ctxDone, pending>>
        BY <2>2 DEF OnChangeSucceeds, loopvars
      <3>4. QED
        BY <2>1, <3>1, <3>2, <3>3 DEF IInv, NoChangeLost
    <2>3. CASE OnChangeFailsLast(s)
      BY <2>3 DEF OnChangeFailsLast, loopvars, NoChangeLost
    <2>4. CASE Requeue(s)
      <3>1. /\ pending'[s].what = pending[s].what \cup activeChange[s].what
            /\ \A t \in Subs \ {s} : pending'[t] = pending[t]
        BY <2>4, <1>2, ClaimPendingRules DEF IInv, Requeue
      <3>2. UNCHANGED <<told, ctxDone, handled>>
        BY <2>4 DEF Requeue, loopvars, history
      <3>3. QED
        BY <2>1, <3>1, <3>2 DEF IInv, NoChangeLost
    <2>5. QED
      BY <2>2, <2>3, <2>4
  <1>10. QED
    BY <1>5, <1>6, <1>7, <1>8, <1>9 DEF IInv

\* A failed OnChange keeps its change, with a larger backoff.
LEMMA BackoffIInv ==
  ASSUME IInv, NEW s \in Subs, OnChangeFails(s)
  PROVE  IInv'
  <1> DEFINE b == NextBackoff(activeChange[s].backoff)
  <1>1. /\ activeChange[s] \in Summary
        /\ activeChange[s].what \in SUBSET Change
        /\ activeChange[s].backoff \in 0..MaxBackoff
    BY DEF IInv, TypeOK, Summary
  <1>2. b \in 1..MaxBackoff
    BY <1>1, NextBackoffRules
  <1>3. activeChange'[s] = [activeChange[s] EXCEPT !.backoff = b]
    BY DEF IInv, TypeOK, OnChangeFails
  <1>4. \A t \in Subs \ {s} : activeChange'[t] = activeChange[t]
    BY DEF IInv, TypeOK, OnChangeFails
  <1>5. /\ activeChange'[s].what = activeChange[s].what
        /\ activeChange'[s].backoff = b
        /\ activeChange'[s] \in Summary
    BY <1>1, <1>2, <1>3 DEF Summary
  <1>6. activeChange'[s] # Nil
    BY <1>2, <1>5 DEF Nil
  <1>7. activeChange' \in [Subs -> Summary]
    BY <1>4, <1>5 DEF IInv, TypeOK, OnChangeFails
  <1>8. TypeOK'
    BY <1>7 DEF IInv, TypeOK, OnChangeFails, lifecycle, loopvars, history
  <1>9. InHand'
    BY <1>4, <1>6 DEF IInv, TypeOK, InHand, OnChangeFails
  <1>10. Counted' /\ OnePendingGoroutine'
    BY DEF IInv, Counted, OnePendingGoroutine, OnChangeFails, loopvars
  <1>11. NoChangeLost'
    BY <1>4, <1>5 DEF IInv, NoChangeLost, OnChangeFails, loopvars, history
  <1>12. QED
    BY <1>8, <1>9, <1>10, <1>11 DEF IInv

\* The loop notifies one subscriber of the change it counted.
LEMMA NotifyIInv ==
  ASSUME IInv, NotifyNext
  PROVE  IInv'
  <1> DEFINE s == Head(todo)
             c == [what |-> {changes}, backoff |-> 0]
  <1>1. s \in Subs /\ Tail(todo) \in Seq(Subs)
    BY SequenceRules DEF IInv, TypeOK, NotifyNext
  <1>2. changes \in Change
    BY DEF IInv, Counted, NotifyNext
  <1>3. c \in Summary /\ c # Nil
    BY <1>2, BoundAssumption DEF Summary, Nil
  <1>4. /\ pending' \in [Subs -> Summary] /\ queued' \in [Subs -> Nat]
        /\ OnePendingGoroutine'
        /\ pending'[s].what = pending[s].what \cup {changes}
        /\ \A t \in Subs \ {s} : pending'[t] = pending[t]
    BY <1>1, <1>3, ClaimPendingRules DEF IInv, NotifyNext
  <1>5. /\ told' \in [Subs -> SUBSET Change]
        /\ told'[s] = told[s] \cup {changes}
        /\ \A t \in Subs \ {s} : told'[t] = told[t]
    BY <1>1, <1>2 DEF IInv, TypeOK, NotifyNext
  <1>6. UNCHANGED <<lifecycle, active, activeChange, loop, changes, ctxDone,
                    handled, due>> /\ todo' = Tail(todo)
    BY DEF NotifyNext
  <1>7. TypeOK'
    BY <1>1, <1>4, <1>5, <1>6 DEF IInv, TypeOK, lifecycle
  <1>8. InHand' /\ Counted'
    BY <1>6 DEF IInv, InHand, Counted
  <1>9. NoChangeLost'
    BY <1>1, <1>4, <1>5, <1>6 DEF IInv, NoChangeLost
  <1>10. QED
    BY <1>4, <1>7, <1>8, <1>9 DEF IInv
\* A goroutine that comes or goes only touches the list.
LEMMA MemberIInv ==
  ASSUME IInv, NEW d \in Dynamic, MemberStep(d)
  PROVE  IInv'
  <1>1. d \in Subs /\ list \in Seq(Subs)
    BY DEF IInv, TypeOK, Dynamic
  <1>2. UNCHANGED <<entries, loopvars, history>>
    BY DEF MemberStep, AddSubscriber, AddSetUp, RemoveSubscriber, RemoveTearDown
  <1>3. /\ list' \in Seq(Subs)
        /\ setup' \in BOOLEAN /\ listMu' \in SUBSET Dynamic
        /\ member' \in [Dynamic -> {"out", "adding", "in", "removing", "gone"}]
        /\ setUps' \in [Subs -> Nat] /\ tearDowns' \in [Subs -> Nat]
    <2>1. CASE AddSubscriber(d)
      BY <1>1, <2>1, SequenceRules DEF IInv, TypeOK, AddSubscriber
    <2>2. CASE AddSetUp(d)
      BY <1>1, <2>2 DEF IInv, TypeOK, AddSetUp, CallSetUp
    <2>3. CASE RemoveSubscriber(d)
      BY <1>1, <2>3, SequenceRules DEF IInv, TypeOK, RemoveSubscriber
    <2>4. CASE RemoveTearDown(d)
      BY <1>1, <2>4 DEF IInv, TypeOK, RemoveTearDown, CallTearDown
    <2>5. QED
      BY <2>1, <2>2, <2>3, <2>4 DEF MemberStep
  <1>4. TypeOK'
    BY <1>2, <1>3 DEF IInv, TypeOK, entries, loopvars, history
  <1>5. QED
    BY <1>2, <1>4 DEF IInv, InHand, Counted, OnePendingGoroutine, NoChangeLost,
                      entries, loopvars, history

\* Every other step of the loop only touches its own progress and the list.
LEMMA LoopIInv ==
  ASSUME IInv, LoopStep \/ CancelContext, ~NotifyNext
  PROVE  IInv'
  <1>1. /\ list \in Seq(Subs) /\ todo \in Seq(Subs)
        /\ todo # <<>> => Head(todo) \in Subs /\ Tail(todo) \in Seq(Subs)
        /\ Reverse(list) \in Seq(Subs)
    BY SequenceRules DEF IInv, TypeOK
  <1>2. UNCHANGED <<entries, told, handled, list, listMu, member>>
    BY DEF LoopStep, SetUpAll, SetUpNext, SetUpDone, NotifyAll, NotifyDone,
           TeardownAll, TeardownNext, TeardownDone, CancelContext, lifecycle,
           history
  <1>3. setUps' \in [Subs -> Nat] /\ tearDowns' \in [Subs -> Nat]
    <2>1. CASE SetUpNext
      <3>1. Head(todo) \in Subs /\ CallSetUp(Head(todo)) /\ UNCHANGED tearDowns
        BY <1>1, <2>1 DEF SetUpNext
      <3>2. QED
        BY SMTT(30), <3>1 DEF IInv, TypeOK, CallSetUp
    <2>2. CASE TeardownNext
      <3>1. Head(todo) \in Subs /\ CallTearDown(Head(todo)) /\ UNCHANGED setUps
        BY <1>1, <2>2 DEF TeardownNext
      <3>2. QED
        BY <3>1 DEF IInv, TypeOK, CallTearDown
    <2>3. CASE UNCHANGED <<setUps, tearDowns>>
      BY <2>3 DEF IInv, TypeOK
    <2>4. QED
      BY <2>1, <2>2, <2>3
      DEF LoopStep, SetUpAll, SetUpDone, NotifyAll, NotifyDone, TeardownAll,
          TeardownDone, CancelContext, lifecycle
  <1>4. todo' \in Seq(Subs)
    BY <1>1 DEF LoopStep, SetUpAll, SetUpNext, SetUpDone, NotifyAll, NotifyDone,
                TeardownAll, TeardownNext, TeardownDone, CancelContext
  <1>5. setup' \in BOOLEAN /\ ctxDone' \in BOOLEAN
    BY DEF IInv, TypeOK, LoopStep, SetUpAll, SetUpNext, SetUpDone, NotifyAll,
           NotifyDone, TeardownAll, TeardownNext, TeardownDone, CancelContext,
           lifecycle
  <1>6. /\ changes' \in 0..MaxChanges
        /\ loop' = "notify" => changes' \in Change
        /\ loop' \in {"start", "settingUp", "failed", "run", "notify",
                      "teardown", "done"}
    BY BoundAssumption
    DEF IInv, TypeOK, Counted, Change, LoopStep, SetUpAll, SetUpNext, SetUpDone,
        NotifyAll, NotifyDone, TeardownAll, TeardownNext, TeardownDone,
        CancelContext
  <1>11. due' \in [Subs -> SUBSET Change]
    <2>1. CASE NotifyAll
      <3>1. /\ due' = [s \in Subs |-> IF Registered(s)
                         THEN due[s] \cup {changes'} ELSE due[s]]
            /\ changes' \in Change
        BY <2>1, <1>6 DEF NotifyAll
      <3>2. QED
        BY <3>1 DEF IInv, TypeOK
    <2>2. CASE ~NotifyAll
      <3>1. due' = due
        BY <2>2 DEF LoopStep, SetUpAll, SetUpNext, SetUpDone, NotifyDone,
             TeardownAll, TeardownNext, TeardownDone, CancelContext, history
      <3>2. QED
        BY <3>1 DEF IInv, TypeOK
    <2>3. QED
      BY <2>1, <2>2
  <1>7. TypeOK'
    BY <1>2, <1>3, <1>4, <1>5, <1>6, <1>11 DEF IInv, TypeOK, entries
  <1>8. ctxDone => ctxDone'
    BY DEF LoopStep, SetUpAll, SetUpNext, SetUpDone, NotifyAll, NotifyDone,
           TeardownAll, TeardownNext, TeardownDone, CancelContext
  <1>9. InHand' /\ OnePendingGoroutine' /\ NoChangeLost'
    BY <1>2, <1>8 DEF IInv, InHand, OnePendingGoroutine, NoChangeLost,
                      entries
  <1>10. QED
    BY <1>6, <1>7, <1>9 DEF IInv, Counted

-----------------------------------------------------------------------------
\* The invariant of the notifications is inductive.
LEMMA NextIInv == IInv /\ [Next]_vars => IInv'
  <1>1. SUFFICES ASSUME IInv, [Next]_vars PROVE IInv'
    OBVIOUS
  <1>2. ASSUME NEW s \in Subs, EntryStep(s) PROVE IInv'
    BY <1>1, <1>2, ActivateIInv, FinishIInv, BackoffIInv DEF EntryStep
  <1>3. ASSUME NEW d \in Dynamic, MemberStep(d) PROVE IInv'
    BY <1>1, <1>3, MemberIInv
  <1>4. CASE LoopStep \/ CancelContext
    BY <1>1, <1>4, NotifyIInv, LoopIInv
  <1>5. CASE UNCHANGED vars
    BY <1>1, <1>5
    DEF IInv, TypeOK, InHand, Counted, OnePendingGoroutine, NoChangeLost, vars,
        lifecycle, entries, loopvars, history
  <1>6. QED
    BY <1>1, <1>2, <1>3, <1>4, <1>5 DEF Next

\* Every state of the subscriber list satisfies the invariant.
THEOREM SubscribersInvariant == Spec => []IInv
  BY InitIInv, NextIInv, PTL DEF Spec

\* Every variable of the subscriber list has its type.
THEOREM SubscribersTypes == Spec => []TypeOK
  <1>1. IInv => TypeOK
    BY DEF IInv
  <1>2. QED
    BY <1>1, SubscribersInvariant, PTL

\* A subscriber has one pending goroutine exactly while it has a pending
\* change, so notify never finds pendingChange to be nil.
THEOREM NotifyFindsItsChange == Spec => []OnePendingGoroutine
  <1>1. IInv => OnePendingGoroutine
    BY DEF IInv
  <1>2. QED
    BY <1>1, SubscribersInvariant, PTL

\* Merging, failing and requeueing lose no change before the context ends.
THEOREM ChangesSurviveRetries == Spec => []NoChangeLost
  <1>1. IInv => NoChangeLost
    BY DEF IInv
  <1>2. QED
    BY <1>1, SubscribersInvariant, PTL

\* Both together.
THEOREM NotificationsAreSound == Spec => []NotificationsSound
  <1>1. NotificationsSound <=> OnePendingGoroutine /\ NoChangeLost
    BY DEF NotificationsSound
  <1>2. QED
    BY <1>1, NotifyFindsItsChange, ChangesSurviveRetries, PTL

\* A requeued change keeps its backoff, and so does a pending one, whatever is
\* merged into it.
THEOREM BackoffSurvivesMerging == Spec => BackoffIsKept
  <1> DEFINE Kept(s) ==
        /\ active[s] = "backoff" /\ active'[s] = "free"
             => pending'[s].backoff >= activeChange[s].backoff
        /\ pending'[s] # Nil => pending'[s].backoff >= pending[s].backoff
  <1>1. ASSUME IInv, Next, NEW s \in Subs PROVE Kept(s)
    <2>1. pending[s] \in Summary /\ pending[s].backoff \in Nat
      BY <1>1, BoundAssumption DEF IInv, TypeOK, Summary
    <2>2. ASSUME NEW t \in Subs, Requeue(t) PROVE Kept(s)
      <3>1. activeChange[t] \in Summary /\ activeChange[t] # Nil
        BY <1>1, <2>2 DEF IInv, TypeOK, InHand, Requeue
      <3>2. /\ pending'[t].backoff >= pending[t].backoff
            /\ pending'[t].backoff >= activeChange[t].backoff
            /\ \A u \in Subs \ {t} : pending'[u] = pending[u]
        BY <1>1, <2>2, <3>1, ClaimPendingRules DEF IInv, Requeue
      <3>3. \A u \in Subs \ {t} : active'[u] = active[u]
        BY <1>1, <2>2 DEF IInv, TypeOK, Requeue, Finish
      <3>4. CASE s = t
        BY <3>2, <3>4
      <3>5. CASE s # t
        BY <2>1, <3>2, <3>3, <3>5
      <3>6. QED
        BY <3>4, <3>5
    <2>3. ASSUME NEW t \in Subs, Activate(t) PROVE Kept(s)
      BY <1>1, <2>1, <2>3 DEF IInv, TypeOK, Activate
    <2>4. CASE NotifyNext
      <3> DEFINE c == [what |-> {changes}, backoff |-> 0]
      <3>1. Head(todo) \in Subs /\ c \in Summary /\ c # Nil
        <4>1. Head(todo) \in Subs
          BY <1>1, <2>4, SequenceRules DEF IInv, TypeOK, NotifyNext
        <4>2. changes \in Change
          BY <1>1, <2>4 DEF IInv, Counted, NotifyNext
        <4>3. QED
          BY <4>1, <4>2, BoundAssumption DEF Summary, Nil
      <3>2. /\ pending'[Head(todo)].backoff >= pending[Head(todo)].backoff
            /\ \A u \in Subs \ {Head(todo)} : pending'[u] = pending[u]
        BY <1>1, <2>4, <3>1, ClaimPendingRules DEF IInv, NotifyNext
      <3>3. active' = active
        BY <2>4 DEF NotifyNext
      <3>4. pending'[s].backoff >= pending[s].backoff
        BY <2>1, <3>2
      <3>5. QED
        BY <3>3, <3>4
    <2>5. CASE /\ pending' = pending
               /\ active[s] = "backoff" => active'[s] = "backoff"
      BY <2>1, <2>5
    <2>6. ASSUME NEW t \in Subs,
                 OnChangeSucceeds(t) \/ OnChangeFails(t) \/ OnChangeFailsLast(t)
          PROVE  Kept(s)
      <3>1. pending' = pending
        BY <2>6 DEF OnChangeSucceeds, OnChangeFails, OnChangeFailsLast
      <3>2. active[s] = "backoff" => active'[s] = "backoff"
        BY <1>1, <2>6 DEF IInv, TypeOK, OnChangeSucceeds, OnChangeFails,
                          OnChangeFailsLast, Finish
      <3>3. QED
        BY <2>5, <3>1, <3>2
    <2>7. CASE UNCHANGED entries
      BY <2>5, <2>7 DEF entries
    <2>8. ASSUME NEW d \in Dynamic, MemberStep(d) PROVE UNCHANGED entries
      BY <2>8 DEF MemberStep, AddSubscriber, AddSetUp, RemoveSubscriber,
                  RemoveTearDown
    <2>9. ASSUME LoopStep \/ CancelContext, ~NotifyNext PROVE UNCHANGED entries
      BY <2>9 DEF LoopStep, SetUpAll, SetUpNext, SetUpDone, NotifyAll,
                  NotifyDone, TeardownAll, TeardownNext, TeardownDone,
                  CancelContext
    <2>10. QED
      BY <1>1, <2>2, <2>3, <2>4, <2>6, <2>7, <2>8, <2>9 DEF Next, EntryStep
  <1>2. IInv /\ [Next]_vars => [\A s \in Subs : Kept(s)]_vars
    BY <1>1
  <1>3. QED
    BY <1>2, SubscribersInvariant, PTL DEF Spec, BackoffIsKept

-----------------------------------------------------------------------------
(* The lifecycle: the same argument for LifecycleInv, on top of IInv *)

\* Where the elements of a sequence are after it lost one, in its reverse,
\* after an append and in its tail.
LEMMA PositionRules ==
  ASSUME NEW q \in Seq(Subs)
  PROVE  /\ \A i \in DOMAIN q :
              /\ Len(RemoveAt(q, i)) = Len(q) - 1
              /\ \A j \in 1..(Len(q) - 1) :
                   RemoveAt(q, i)[j] = q[IF j < i THEN j ELSE j + 1]
         /\ Len(Reverse(q)) = Len(q)
         /\ \A j \in 1..Len(q) : Reverse(q)[j] = q[Len(q) - j + 1]
         /\ \A s \in Subs :
              /\ Len(Append(q, s)) = Len(q) + 1
              /\ \A j \in 1..Len(q) : Append(q, s)[j] = q[j]
              /\ Append(q, s)[Len(q) + 1] = s
         /\ q # <<>> =>
              /\ Len(q) > 0 /\ Head(q) = q[1] /\ Len(Tail(q)) = Len(q) - 1
              /\ \A j \in 1..(Len(q) - 1) : Tail(q)[j] = q[j + 1]
         /\ Len(q) \in Nat /\ DOMAIN q = 1..Len(q)
  <1>1. ASSUME NEW i \in DOMAIN q
        PROVE  /\ Len(RemoveAt(q, i)) = Len(q) - 1
               /\ \A j \in 1..(Len(q) - 1) :
                    RemoveAt(q, i)[j] = q[IF j < i THEN j ELSE j + 1]
    <2> DEFINE a == SubSeq(q, 1, i - 1)
               b == SubSeq(q, i + 1, Len(q))
    <2> HIDE DEF a, b
    <2>1. i \in 1..Len(q) /\ Len(q) \in Nat
      OBVIOUS
    <2>2. /\ a \in Seq(Subs) /\ Len(a) = i - 1
          /\ \A j \in 1..(i - 1) : a[j] = q[j]
      BY <2>1 DEF a
    <2>3. /\ b \in Seq(Subs) /\ Len(b) = Len(q) - i
          /\ \A j \in 1..(Len(q) - i) : b[j] = q[i + j]
      BY <2>1 DEF b
    <2>4. RemoveAt(q, i) = a \o b
      BY DEF RemoveAt, a, b
    <2>5. Len(a \o b) = Len(q) - 1
      BY <2>1, <2>2, <2>3
    <2>6. ASSUME NEW j \in 1..(Len(q) - 1)
          PROVE  (a \o b)[j] = q[IF j < i THEN j ELSE j + 1]
      <3>1. CASE j < i
        BY <2>1, <2>2, <2>3, <3>1
      <3>2. CASE j >= i
        <4>1. (a \o b)[j] = b[j - (i - 1)]
          BY <2>1, <2>2, <2>3, <3>2
        <4>2. j - (i - 1) \in 1..(Len(q) - i) /\ i + (j - (i - 1)) = j + 1
          BY <2>1, <3>2
        <4>3. b[j - (i - 1)] = q[j + 1]
          BY <2>3, <4>2
        <4>4. QED
          BY <2>1, <3>2, <4>1, <4>3
      <3>3. j < i \/ j >= i
        BY <2>1
      <3>4. QED
        BY <3>1, <3>2, <3>3
    <2>7. QED
      BY <2>4, <2>5, <2>6
  <1>2. /\ Len(Reverse(q)) = Len(q)
        /\ \A j \in 1..Len(q) : Reverse(q)[j] = q[Len(q) - j + 1]
    BY SequenceRules, LenProperties DEF Reverse
  <1>3. QED
    BY <1>1, <1>2

\* A subscriber is static or dynamic, and never both.
LEMMA StaticRules ==
  /\ Len(Static) \in Nat /\ DOMAIN Static = 1..Len(Static)
  /\ \A i \in DOMAIN Static : Static[i] \in Subs /\ Static[i] \notin Dynamic
  /\ \A i, j \in DOMAIN Static : Static[i] = Static[j] => i = j
  /\ \A s \in Subs : s \in Dynamic \/ \E i \in DOMAIN Static : s = Static[i]
  /\ Dynamic \subseteq Subs
  <1>1. ToSet(Static) = {Static[i] : i \in DOMAIN Static}
    BY DEF ToSet
  <1>2. QED
    BY <1>1, SubscriberAssumption DEF Dynamic, IsInjective

\* At the start nobody was set up, told of a change or torn down.
LEMMA InitLifecycle == Init => LifecycleInv
  <1>1. SUFFICES ASSUME Init PROVE LifecycleInv
    OBVIOUS
  <1>2. ListShape
    BY <1>1, StaticRules, SubscriberAssumption DEF Init, ListShape
  <1>3. ListIsHeld
    BY <1>1 DEF Init, ListIsHeld
  <1>4. SetUpsSoFar
    BY <1>1, StaticRules, SubscriberAssumption
    DEF Init, SetUpsSoFar, SetUpCount
  <1>5. TearDownsSoFar
    BY <1>1, StaticRules DEF Init, TearDownsSoFar, StillUp
  <1>6. ToldAfterSetUp
    BY <1>1 DEF Init, ToldAfterSetUp, Nil
  <1>7. QED
    BY <1>2, <1>3, <1>4, <1>5, <1>6 DEF LifecycleInv

\* A goroutine of notify passes a change on to itself or to OnChange.
LEMMA EntryLifecycle ==
  ASSUME IInv, LifecycleInv, NEW s \in Subs, EntryStep(s)
  PROVE  LifecycleInv'
  <1> USE DEF IInv, TypeOK
  <1>1. UNCHANGED <<lifecycle, loopvars, told>>
    BY DEF EntryStep, Activate, OnChangeSucceeds, OnChangeFailsLast,
           OnChangeFails, Requeue, history
  <1>2. ListShape' /\ ListIsHeld' /\ SetUpsSoFar' /\ TearDownsSoFar'
    BY <1>1 DEF LifecycleInv, ListShape, ListIsHeld, SetUpsSoFar,
                SetUpCount, TearDownsSoFar, StillUp, lifecycle, loopvars
  <1>3. ASSUME NEW t \in Subs
        PROVE  /\ pending'[t].what \cup activeChange'[t].what \cup handled'[t]
                    \subseteq told[t]
               /\ pending'[t] # Nil => pending'[t].what # {}
               /\ activeChange'[t] # Nil => activeChange'[t].what # {}
    <2>1. /\ pending[t].what \cup activeChange[t].what \cup handled[t]
               \subseteq told[t]
          /\ pending[t] # Nil => pending[t].what # {}
          /\ activeChange[t] # Nil => activeChange[t].what # {}
          /\ Nil.what = {}
      BY DEF LifecycleInv, ToldAfterSetUp, Nil
    <2>2. CASE t # s
      <3>1. UNCHANGED <<pending[t], activeChange[t], handled[t]>>
        BY <2>2 DEF EntryStep, Activate, OnChangeSucceeds, OnChangeFailsLast,
                    OnChangeFails, Requeue, ClaimPending, Finish, history
      <3>2. QED
        BY <2>1, <3>1
    <2>3. CASE t = s /\ Activate(s)
      BY <2>1, <2>3 DEF Activate, history
    <2>4. CASE t = s /\ (OnChangeSucceeds(s) \/ OnChangeFailsLast(s))
      BY <2>1, <2>4 DEF OnChangeSucceeds, OnChangeFailsLast, Finish, history
    <2>5. CASE t = s /\ OnChangeFails(s)
      <3>1. activeChange[s] \in Summary /\ activeChange[s] # Nil
        BY <2>5 DEF InHand, OnChangeFails
      <3>2. /\ activeChange'[s].what = activeChange[s].what
            /\ UNCHANGED <<pending, handled>>
        BY <2>5, <3>1 DEF OnChangeFails, Summary, history
      <3>3. QED
        BY <2>1, <2>5, <3>1, <3>2
    <2>6. CASE t = s /\ Requeue(s)
      <3>1. activeChange[s] \in Summary /\ activeChange[s] # Nil
        BY <2>6 DEF InHand, Requeue
      <3>2. pending'[s].what = pending[s].what \cup activeChange[s].what
        BY <2>6, <3>1, ClaimPendingRules DEF Requeue
      <3>3. activeChange'[s] = Nil /\ UNCHANGED handled
        BY <2>6 DEF Requeue, Finish, history
      <3>4. QED
        BY <2>1, <2>6, <3>1, <3>2, <3>3
    <2>7. QED
      BY <2>2, <2>3, <2>4, <2>5, <2>6 DEF EntryStep
  <1>4. ToldAfterSetUp'
    BY <1>1, <1>3 DEF LifecycleInv, ToldAfterSetUp, lifecycle, loopvars
  <1>5. QED
    BY <1>2, <1>4 DEF LifecycleInv

\* Whoever comes or goes keeps the places of the others in the list.
LEMMA MemberListShape ==
  ASSUME IInv, LifecycleInv, NEW d \in Dynamic, MemberStep(d)
  PROVE  ListShape'
  <1>1. /\ list \in Seq(Subs) /\ d \in Subs
        /\ Len(list) \in Nat /\ DOMAIN list = 1..Len(list)
        /\ Len(Static) \in Nat /\ DOMAIN Static = 1..Len(Static)
        /\ \A i \in DOMAIN Static : Static[i] \notin Dynamic
    BY PositionRules, StaticRules DEF IInv, TypeOK
  <1>2. /\ \A i, j \in DOMAIN list : list[i] = list[j] => i = j
        /\ Len(Static) <= Len(list)
        /\ \A i \in DOMAIN Static : list[i] = Static[i]
        /\ \A i \in DOMAIN list :
             list[i] \in Dynamic => member[list[i]] \in {"adding", "in"}
        /\ loop = "start" => list = Static /\ \A e \in Dynamic : member[e] = "out"
    BY DEF LifecycleInv, ListShape, IsInjective
  <1>3. loop' = loop /\ (loop = "start" => FALSE)
    BY <1>2 DEF MemberStep, AddSubscriber, AddSetUp, RemoveSubscriber,
                RemoveTearDown, loopvars
  <1>4. \A e \in Dynamic \ {d} : member'[e] = member[e]
    BY DEF IInv, TypeOK, MemberStep, AddSubscriber, AddSetUp, RemoveSubscriber, RemoveTearDown
  <1>5. CASE AddSubscriber(d)
    <2>1. /\ list' \in Seq(Subs) /\ Len(list') = Len(list) + 1
          /\ \A j \in 1..Len(list) : list'[j] = list[j]
          /\ list'[Len(list) + 1] = d
          /\ DOMAIN list' = 1..(Len(list) + 1)
      BY <1>1, <1>5, PositionRules, SequenceRules DEF AddSubscriber
    <2>2. member[d] = "out" /\ member'[d] \in {"adding", "in"}
      BY <1>5 DEF IInv, TypeOK, AddSubscriber
    <2>3. \A j \in 1..Len(list) : list'[j] # d
      BY <1>1, <1>2, <2>1, <2>2
    <2>4. \A i, j \in DOMAIN list' : list'[i] = list'[j] => i = j
      BY <1>1, <1>2, <2>1, <2>3
    <2>5. /\ Len(Static) <= Len(list')
          /\ \A i \in DOMAIN Static : list'[i] = Static[i]
      BY <1>1, <1>2, <2>1
    <2>6. \A i \in DOMAIN list' :
            list'[i] \in Dynamic => member'[list'[i]] \in {"adding", "in"}
      BY <1>1, <1>2, <1>4, <2>1, <2>2, <2>3
    <2>7. QED
      BY <1>3, <2>4, <2>5, <2>6 DEF ListShape, IsInjective
  <1>6. CASE RemoveSubscriber(d)
    <2>1. PICK i \in DOMAIN list : list[i] = d /\ list' = RemoveAt(list, i)
      BY <1>6 DEF RemoveSubscriber
    <2>2. /\ list' \in Seq(Subs) /\ Len(list') = Len(list) - 1
          /\ \A j \in 1..(Len(list) - 1) :
               list'[j] = list[IF j < i THEN j ELSE j + 1]
          /\ DOMAIN list' = 1..(Len(list) - 1)
      <3>1. list' \in Seq(Subs)
        BY <1>1, <2>1, SequenceRules
      <3>2. /\ Len(list') = Len(list) - 1
            /\ \A j \in 1..(Len(list) - 1) :
                 list'[j] = list[IF j < i THEN j ELSE j + 1]
        <4>1. /\ Len(RemoveAt(list, i)) = Len(list) - 1
              /\ \A j \in 1..(Len(list) - 1) :
                   RemoveAt(list, i)[j] = list[IF j < i THEN j ELSE j + 1]
          BY <1>1, PositionRules
        <4>2. QED
          BY <2>1, <4>1
      <3>3. DOMAIN list' = 1..Len(list')
        BY <3>1, PositionRules
      <3>4. QED
        BY <3>1, <3>2, <3>3
    <2>3. i > Len(Static)
      BY <1>1, <1>2, <2>1
    <2>4. \A j, k \in DOMAIN list' : list'[j] = list'[k] => j = k
      <3>1. SUFFICES ASSUME NEW j \in 1..(Len(list) - 1),
                            NEW k \in 1..(Len(list) - 1), list'[j] = list'[k]
                     PROVE  j = k
        BY <2>2
      <3> DEFINE old(m) == IF m < i THEN m ELSE m + 1
      <3>2. old(j) \in DOMAIN list /\ old(k) \in DOMAIN list
        BY <1>1, <2>1
      <3>3. list[old(j)] = list[old(k)]
        BY <2>2, <3>1
      <3>4. old(j) = old(k)
        BY <1>2, <3>2, <3>3
      <3>5. QED
        BY <1>1, <2>1, <3>4
    <2>5. /\ Len(Static) <= Len(list')
          /\ \A j \in DOMAIN Static : list'[j] = Static[j]
      BY <1>1, <1>2, <2>1, <2>2, <2>3
    <2>6. ASSUME NEW j \in DOMAIN list', list'[j] \in Dynamic
          PROVE  member'[list'[j]] \in {"adding", "in"}
      <3> DEFINE k == IF j < i THEN j ELSE j + 1
      <3>1. k \in DOMAIN list /\ k # i /\ list'[j] = list[k]
        BY <1>1, <2>1, <2>2, <2>6
      <3>2. list'[j] # d
        BY <1>2, <2>1, <3>1
      <3>3. QED
        BY <1>2, <1>4, <2>6, <3>1, <3>2
    <2>7. QED
      BY <1>3, <2>4, <2>5, <2>6 DEF ListShape, IsInjective
  <1>7. CASE AddSetUp(d) \/ RemoveTearDown(d)
    <2>1. list' = list /\ member[d] # "in"
          /\ member'[d] = (IF member[d] = "adding" THEN "in" ELSE "gone")
          /\ member[d] \in {"adding", "removing"}
      BY <1>7 DEF IInv, TypeOK, AddSetUp, RemoveTearDown
    <2>2. QED
      BY <1>2, <1>3, <1>4, <2>1 DEF ListShape, IsInjective
  <1>8. QED
    BY <1>5, <1>6, <1>7 DEF MemberStep

\* Whoever comes or goes is set up and torn down once at most.
LEMMA MemberLifecycle ==
  ASSUME IInv, LifecycleInv, NEW d \in Dynamic, MemberStep(d)
  PROVE  LifecycleInv'
  <1> USE DEF IInv, TypeOK
  <1>1. UNCHANGED <<entries, loopvars, history, setup>> /\ loop # "start"
    <2>1. loop = "start" => member[d] = "out"
      BY DEF LifecycleInv, ListShape
    <2>2. QED
      BY <2>1 DEF MemberStep, AddSubscriber, AddSetUp, RemoveSubscriber,
                  RemoveTearDown
  <1>2. /\ setup <=> loop \in {"settingUp", "failed", "run", "notify"}
        /\ \A e \in Dynamic :
             member[e] \in {"adding", "removing"} => listMu = {e} /\ setup
    BY DEF LifecycleInv, ListIsHeld
  <1>3. \A e \in Dynamic \ {d} : member'[e] = member[e]
    BY DEF MemberStep, AddSubscriber, AddSetUp, RemoveSubscriber, RemoveTearDown
  <1>4. ListIsHeld'
    <2>1. ASSUME NEW e \in Dynamic, member'[e] \in {"adding", "removing"}
          PROVE  listMu' = {e} /\ setup
      <3>1. CASE e = d
        BY <1>1, <1>2, <2>1, <3>1
        DEF MemberStep, AddSubscriber, AddSetUp, RemoveSubscriber, RemoveTearDown
      <3>2. CASE e # d
        <4>1. member[e] \in {"adding", "removing"} /\ listMu = {e}
          BY <1>2, <1>3, <2>1, <3>2
        <4>2. member[d] \notin {"adding", "removing"} /\ listMu # {}
          BY <1>2, <3>2, <4>1
        <4>3. QED
          BY <4>2 DEF MemberStep, AddSubscriber, AddSetUp, RemoveSubscriber,
                      RemoveTearDown
      <3>3. QED
        BY <3>1, <3>2
    <2>2. QED
      BY <1>1, <1>2, <2>1 DEF ListIsHeld, loopvars
  <1>5. d \in Subs /\ \A i \in DOMAIN Static : Static[i] # d /\ Static[i] \in Subs
    BY StaticRules
  <1>6. /\ \A s \in Subs \ {d} : setUps'[s] = setUps[s] /\ tearDowns'[s] = tearDowns[s]
        /\ setUps'[d] = IF AddSetUp(d) /\ d \in SetUppers
                        THEN setUps[d] + 1 ELSE setUps[d]
        /\ tearDowns'[d] = IF RemoveTearDown(d) /\ d \in TearDowners
                           THEN tearDowns[d] + 1 ELSE tearDowns[d]
    BY <1>5 DEF MemberStep, AddSubscriber, AddSetUp, RemoveSubscriber,
                RemoveTearDown, CallSetUp, CallTearDown
  <1>7. SetUpsSoFar'
    <2>1. SetUpsSoFar
      BY DEF LifecycleInv
    <2>2. loop' = loop /\ todo' = todo /\ SetUpCount' = SetUpCount
      BY <1>1 DEF loopvars, SetUpCount
    <2>3. \A s \in Subs \ SetUppers : setUps'[s] = 0
      BY <1>6, <2>1 DEF SetUpsSoFar
    <2>4. \A i \in DOMAIN Static : setUps'[Static[i]] = setUps[Static[i]]
      BY <1>5, <1>6
    <2>5. ASSUME NEW e \in Dynamic \cap SetUppers
          PROVE  /\ member'[e] \in {"out", "adding"} => setUps'[e] = 0
                 /\ loop \notin {"teardown", "done"} =>
                      (member'[e] \in {"in", "removing", "gone"}
                         => setUps'[e] = 1)
      <3>1. /\ member[e] \in {"out", "adding"} => setUps[e] = 0
            /\ loop \notin {"teardown", "done"} =>
                 (member[e] \in {"in", "removing", "gone"} => setUps[e] = 1)
        BY <2>1 DEF SetUpsSoFar
      <3>2. CASE e # d
        <4>1. setUps'[e] = setUps[e]
          BY <1>6, <3>2 DEF Dynamic
        <4>2. QED
          BY <1>3, <3>1, <3>2, <4>1
      <3>3. CASE e = d /\ AddSubscriber(d)
        <4>1. /\ ~AddSetUp(d) /\ member[d] = "out"
              /\ member'[d] = IF setup THEN "adding" ELSE "in"
          BY <3>3 DEF AddSubscriber, AddSetUp
        <4>2. setup \/ loop \in {"teardown", "done"}
          BY <1>1, <1>2
        <4>3. QED
          BY <1>6, <3>1, <3>3, <4>1, <4>2
      <3>4. CASE e = d /\ AddSetUp(d)
        <4>1. member[d] = "adding" /\ member'[d] = "in"
          BY <3>4 DEF AddSetUp
        <4>2. QED
          BY <1>6, <3>1, <3>4, <4>1
      <3>5. CASE e = d /\ (RemoveSubscriber(d) \/ RemoveTearDown(d))
        <4>1. /\ ~AddSetUp(d) /\ member[d] \in {"in", "removing"}
              /\ member'[d] \in {"removing", "gone"}
          BY <3>5 DEF RemoveSubscriber, RemoveTearDown, AddSetUp
        <4>2. QED
          BY <1>6, <3>1, <3>5, <4>1
      <3>6. QED
        BY <3>2, <3>3, <3>4, <3>5 DEF MemberStep
    <2>6. QED
      BY <2>1, <2>2, <2>3, <2>4, <2>5 DEF SetUpsSoFar
  <1>8. TearDownsSoFar'
    <2>1. TearDownsSoFar
      BY DEF LifecycleInv
    <2>2. loop' = loop /\ todo' = todo /\ StillUp' = StillUp
      BY <1>1 DEF loopvars, StillUp
    <2>3. CASE RemoveTearDown(d)
      <3>1. member[d] = "removing" /\ member'[d] = "gone"
        BY <2>3 DEF RemoveTearDown
      <3>2. loop \notin {"teardown", "done"} /\ tearDowns[d] = 0
        BY <1>2, <2>1, <3>1 DEF TearDownsSoFar
      <3>3. tearDowns'[d] <= 1
        BY <1>6, <3>2
      <3>4. QED
        BY <1>3, <1>5, <1>6, <2>1, <2>2, <3>1, <3>2, <3>3, StaticRules
        DEF TearDownsSoFar
    <2>4. CASE ~RemoveTearDown(d)
      <3>1. \A s \in Subs : tearDowns'[s] = tearDowns[s]
        BY <1>6, <2>4
      <3>2. tearDowns' = tearDowns
        BY <2>4 DEF MemberStep, AddSubscriber, AddSetUp, RemoveSubscriber
      <3>3. member'[d] # "gone" => member[d] # "gone"
        BY <2>4 DEF MemberStep, AddSubscriber, AddSetUp, RemoveSubscriber
      <3>4. QED
        BY <1>3, <2>1, <2>2, <3>2, <3>3 DEF TearDownsSoFar
    <2>5. QED
      BY <2>3, <2>4
  <1>9. ToldAfterSetUp'
    <2>1. \A s \in SetUppers : setUps[s] = 1 => setUps'[s] = 1
      <3>1. AddSetUp(d) /\ d \in SetUppers => setUps[d] = 0
        BY DEF LifecycleInv, SetUpsSoFar, AddSetUp
      <3>2. QED
        BY <1>6, <3>1, SubscriberAssumption
    <2>2. QED
      BY <1>1, <2>1 DEF LifecycleInv, ToldAfterSetUp, entries, loopvars, history
  <1>10. QED
    BY <1>4, <1>7, <1>8, <1>9, MemberListShape DEF LifecycleInv

\* The loop sets the subscribers up in their order, each of them once.
LEMMA SetUpLifecycle ==
  ASSUME IInv, LifecycleInv, SetUpAll \/ SetUpNext \/ SetUpDone
  PROVE  LifecycleInv'
  <1>1. /\ list \in Seq(Subs) /\ todo \in Seq(Subs)
        /\ setUps \in [Subs -> Nat] /\ told \in [Subs -> SUBSET Change]
        /\ setup \in BOOLEAN
    BY DEF IInv, TypeOK
  <1>2. /\ UNCHANGED <<list, listMu, member, tearDowns, entries, history>>
        /\ loop \in {"start", "settingUp"}
        /\ loop' \in {"settingUp", "failed", "run"}
    BY DEF SetUpAll, SetUpNext, SetUpDone, lifecycle
  <1>3. ListShape'
    BY <1>2 DEF LifecycleInv, ListShape
  <1>4. ListIsHeld'
    <2>1. setup'
      BY DEF LifecycleInv, ListIsHeld, SetUpAll, SetUpNext, SetUpDone, lifecycle
    <2>2. QED
      BY <1>2, <2>1 DEF LifecycleInv, ListIsHeld
  <1>5. TearDownsSoFar'
    BY <1>2 DEF LifecycleInv, TearDownsSoFar, StillUp
  <1>6. SetUpsSoFar' /\ (\A s \in SetUppers : setUps[s] = 1 => setUps'[s] = 1)
    <2>1. SetUpsSoFar
      BY DEF LifecycleInv
    <2>2. CASE SetUpAll
      <3>1. /\ todo' = Static /\ setUps' = setUps
            /\ loop = "start" /\ loop' = "settingUp"
        BY <2>2 DEF SetUpAll, LifecycleInv, ListShape
      <3>2. SetUpCount = 0 /\ SetUpCount' = 0
        BY <3>1, StaticRules DEF SetUpCount
      <3>3. QED
        BY <1>2, <2>1, <3>1, <3>2, StaticRules DEF SetUpsSoFar
    <2>3. CASE SetUpNext
      <3> DEFINE h == Head(todo)
                 k == Len(Static) - Len(todo)
      <3>1. /\ loop = "settingUp" /\ todo # <<>> /\ todo' = Tail(todo)
            /\ loop' \in {"settingUp", "failed"} /\ CallSetUp(h)
        BY <2>3 DEF SetUpNext
      <3>2. /\ Len(todo) \in Nat /\ Len(todo) > 0 /\ h = todo[1]
            /\ DOMAIN todo = 1..Len(todo)
            /\ Len(todo') = Len(todo) - 1 /\ todo' \in Seq(Subs)
            /\ \A j \in 1..(Len(todo) - 1) : todo'[j] = todo[j + 1]
        BY <1>1, <3>1, PositionRules, SequenceRules
      <3>3. DOMAIN todo' = 1..(Len(todo) - 1)
        BY <3>2, PositionRules
      <3>4. /\ Len(todo) <= Len(Static)
            /\ \A i \in DOMAIN todo : todo[i] = Static[k + i]
        BY <2>1, <3>1 DEF SetUpsSoFar
      <3>5. k + 1 \in DOMAIN Static /\ h = Static[k + 1]
        BY <3>2, <3>4, StaticRules
      <3>6. /\ Len(todo') <= Len(Static)
            /\ \A i \in DOMAIN todo' :
                 todo'[i] = Static[Len(Static) - Len(todo') + i]
        <4>1. Len(todo') <= Len(Static)
          BY <3>2, <3>4, StaticRules
        <4>2. ASSUME NEW i \in 1..(Len(todo) - 1)
              PROVE  todo'[i] = Static[Len(Static) - Len(todo') + i]
          <5>1. todo'[i] = todo[i + 1] /\ i + 1 \in DOMAIN todo
            BY <3>2
          <5>2. todo[i + 1] = Static[k + (i + 1)]
            BY <3>4, <5>1
          <5>3. k + (i + 1) = Len(Static) - Len(todo') + i
            BY <3>2, StaticRules
          <5>4. QED
            BY <5>1, <5>2, <5>3
        <4>3. QED
          BY <3>3, <4>1, <4>2
      <3>7. SetUpCount = k /\ SetUpCount' = k + 1
        BY <3>1, <3>2, StaticRules DEF SetUpCount
      <3>8. /\ \A s \in Subs \ {h} : setUps'[s] = setUps[s]
            /\ setUps'[h] = IF h \in SetUppers THEN setUps[h] + 1 ELSE setUps[h]
        BY <1>1, <3>1, <3>5, StaticRules DEF CallSetUp
      <3>9. h \in SetUppers => setUps[h] = 0
        BY <2>1, <3>2, <3>5, <3>7, StaticRules DEF SetUpsSoFar
      <3>10. ASSUME NEW i \in DOMAIN Static, Static[i] \in SetUppers
             PROVE  setUps'[Static[i]] = IF i <= SetUpCount' THEN 1 ELSE 0
        <4>1. setUps[Static[i]] = IF i <= k THEN 1 ELSE 0
          BY <2>1, <3>7, <3>10 DEF SetUpsSoFar
        <4>2. CASE i = k + 1
          BY <3>5, <3>7, <3>8, <3>9, <3>10, <4>2, StaticRules
        <4>3. CASE i # k + 1
          <5>1. Static[i] # h /\ Static[i] \in Subs
            BY <3>5, <4>3, StaticRules
          <5>2. setUps'[Static[i]] = setUps[Static[i]]
            BY <3>8, <5>1
          <5>3. QED
            BY <3>2, <3>7, <4>1, <4>3, <5>2, StaticRules
        <4>4. QED
          BY <4>2, <4>3
      <3>11. \A d \in Dynamic : setUps'[d] = setUps[d] /\ member'[d] = member[d]
        BY <1>2, <3>5, <3>8, StaticRules
      <3>12. \A s \in Subs \ SetUppers : setUps'[s] = 0
        BY <2>1, <3>8 DEF SetUpsSoFar
      <3>13. SetUpsSoFar'
        BY <1>2, <2>1, <3>1, <3>6, <3>10, <3>11, <3>12 DEF SetUpsSoFar
      <3>14. \A s \in SetUppers : setUps[s] = 1 => setUps'[s] = 1
        BY <3>8, <3>9, SubscriberAssumption
      <3>15. QED
        BY <3>13, <3>14
    <2>4. CASE SetUpDone
      <3>1. /\ loop = "settingUp" /\ loop' = "run" /\ todo = <<>>
            /\ setUps' = setUps
        BY <2>4 DEF SetUpDone, lifecycle
      <3>2. SetUpCount = Len(Static) /\ SetUpCount' = Len(Static)
        BY <3>1, StaticRules DEF SetUpCount
      <3>3. QED
        BY <1>2, <2>1, <3>1, <3>2 DEF SetUpsSoFar
    <2>5. QED
      BY <2>2, <2>3, <2>4
  <1>7. ToldAfterSetUp'
    BY <1>2, <1>6 DEF LifecycleInv, ToldAfterSetUp, entries, history
  <1>8. QED
    BY <1>3, <1>4, <1>5, <1>6, <1>7 DEF LifecycleInv

\* The loop notifies subscribers that are set up.
LEMMA NotifyLifecycle ==
  ASSUME IInv, LifecycleInv,
         NotifyAll \/ NotifyNext \/ NotifyDone \/ CancelContext
  PROVE  LifecycleInv'
  <1>1. /\ list \in Seq(Subs) /\ todo \in Seq(Subs)
        /\ told \in [Subs -> SUBSET Change]
        /\ pending \in [Subs -> Summary]
    BY DEF IInv, TypeOK
  <1>2. UNCHANGED <<lifecycle, active, activeChange, handled>>
    BY DEF NotifyAll, NotifyNext, NotifyDone, CancelContext, entries, history
  <1>3. \/ loop \in {"run", "notify"} /\ loop' \in {"run", "notify"}
        \/ UNCHANGED <<loop, todo>>
    BY DEF NotifyAll, NotifyNext, NotifyDone, CancelContext
  <1>4. ListShape' /\ ListIsHeld' /\ SetUpsSoFar' /\ TearDownsSoFar'
    BY <1>2, <1>3
    DEF LifecycleInv, ListShape, ListIsHeld, SetUpsSoFar, SetUpCount,
        TearDownsSoFar, StillUp, lifecycle
  <1>5. setUps' = setUps
    BY <1>2 DEF lifecycle
  <1>6. ASSUME NEW t \in Subs
        PROVE  /\ pending'[t].what \cup activeChange'[t].what \cup handled'[t]
                    \subseteq told'[t]
               /\ pending'[t] # Nil => pending'[t].what # {}
               /\ t \in SetUppers /\ told'[t] # {} => setUps[t] = 1
    <2>1. /\ pending[t].what \cup activeChange[t].what \cup handled[t]
               \subseteq told[t]
          /\ pending[t] # Nil => pending[t].what # {}
          /\ t \in SetUppers /\ told[t] # {} => setUps[t] = 1
      BY DEF LifecycleInv, ToldAfterSetUp
    <2>2. CASE NotifyNext
      <3> DEFINE h == Head(todo)
                 c == [what |-> {changes}, backoff |-> 0]
      <3>1. /\ h \in Subs /\ h = todo[1] /\ 1 \in DOMAIN todo
            /\ loop = "notify" /\ ClaimPending(h, c)
        BY <1>1, <2>2, SequenceRules, PositionRules DEF NotifyNext
      <3>2. c \in Summary /\ c # Nil
        BY <3>1, BoundAssumption DEF IInv, Counted, Summary, Nil
      <3>3. /\ pending'[h].what = pending[h].what \cup {changes}
            /\ \A u \in Subs \ {h} : pending'[u] = pending[u]
        BY <3>1, <3>2, ClaimPendingRules DEF IInv
      <3>4. /\ told'[h] = told[h] \cup {changes}
            /\ \A u \in Subs \ {h} : told'[u] = told[u]
        BY <1>1, <2>2, <3>1 DEF NotifyNext
      <3>5. h \in SetUppers => setUps[h] = 1
        BY <3>1 DEF LifecycleInv, ToldAfterSetUp
      <3>6. CASE t = h
        BY <1>2, <2>1, <3>3, <3>4, <3>5, <3>6
      <3>7. CASE t # h
        BY <1>2, <2>1, <3>3, <3>4, <3>7
      <3>8. QED
        BY <3>6, <3>7
    <2>3. CASE ~NotifyNext
      <3>1. UNCHANGED <<pending, told>>
        BY <2>3 DEF NotifyAll, NotifyDone, CancelContext, entries, history
      <3>2. QED
        BY <1>2, <2>1, <3>1
    <2>4. QED
      BY <2>2, <2>3
  <1>7. ASSUME loop' = "notify", NEW i \in DOMAIN todo', todo'[i] \in SetUppers
        PROVE  setUps[todo'[i]] = 1
    <2>1. CASE NotifyAll
      <3>1. todo' = list /\ loop = "run" /\ listMu = {}
        BY <2>1 DEF NotifyAll
      <3>2. list[i] \in Subs /\ list[i] \in SetUppers
        BY <1>1, <1>7, <3>1
      <3>3. CASE list[i] \in Dynamic
        <4>1. member[list[i]] = "in"
          BY <1>7, <3>1, <3>3 DEF LifecycleInv, ListShape, ListIsHeld
        <4>2. QED
          BY <3>1, <3>2, <3>3, <4>1 DEF LifecycleInv, SetUpsSoFar
      <3>4. CASE \E j \in DOMAIN Static : list[i] = Static[j]
        <4>1. SetUpCount = Len(Static)
          BY <3>1 DEF SetUpCount
        <4>2. QED
          BY <3>1, <3>2, <3>4, <4>1, StaticRules DEF LifecycleInv, SetUpsSoFar
      <3>5. QED
        BY <3>2, <3>3, <3>4, StaticRules
    <2>2. CASE NotifyNext
      <3>1. todo' = Tail(todo) /\ todo # <<>> /\ loop = "notify"
        BY <2>2 DEF NotifyNext
      <3>2. /\ Len(todo') = Len(todo) - 1 /\ todo' \in Seq(Subs)
            /\ \A j \in 1..(Len(todo) - 1) : todo'[j] = todo[j + 1]
            /\ Len(todo) \in Nat /\ DOMAIN todo = 1..Len(todo)
        BY <1>1, <3>1, PositionRules, SequenceRules
      <3>3. i \in 1..(Len(todo) - 1)
        BY <1>7, <3>2, PositionRules
      <3>4. i + 1 \in DOMAIN todo /\ todo'[i] = todo[i + 1]
        BY <3>2, <3>3
      <3>5. QED
        BY <1>7, <3>1, <3>4 DEF LifecycleInv, ToldAfterSetUp
    <2>3. CASE NotifyDone \/ CancelContext
      BY <1>7, <2>3 DEF LifecycleInv, ToldAfterSetUp, NotifyDone, CancelContext
    <2>4. QED
      BY <2>1, <2>2, <2>3
  <1>8. ToldAfterSetUp'
    BY <1>2, <1>5, <1>6, <1>7 DEF LifecycleInv, ToldAfterSetUp
  <1>9. QED
    BY <1>4, <1>8 DEF LifecycleInv

\* The loop tears the subscribers down in the reverse order, each of them once.
LEMMA TearDownLifecycle ==
  ASSUME IInv, LifecycleInv, TeardownAll \/ TeardownNext \/ TeardownDone
  PROVE  LifecycleInv'
  <1>1. /\ list \in Seq(Subs) /\ todo \in Seq(Subs)
        /\ tearDowns \in [Subs -> Nat]
        /\ setup \in BOOLEAN
        /\ Len(Static) \in Nat /\ DOMAIN Static = 1..Len(Static)
    BY StaticRules DEF IInv, TypeOK
  <1>2. /\ UNCHANGED <<list, listMu, member, setUps, entries, history>>
        /\ loop \in {"run", "teardown"} /\ loop' \in {"teardown", "done"}
    BY DEF TeardownAll, TeardownNext, TeardownDone, lifecycle
  <1>3. ListShape'
    BY <1>2 DEF LifecycleInv, ListShape
  <1>4. ListIsHeld'
    <2>1. ~setup' /\ \A d \in Dynamic : member[d] \notin {"adding", "removing"}
      BY DEF LifecycleInv, ListIsHeld, TeardownAll, TeardownNext, TeardownDone,
             lifecycle
    <2>2. QED
      BY <1>2, <2>1 DEF ListIsHeld
  <1>5. SetUpsSoFar'
    <2>1. SetUpCount = Len(Static) /\ SetUpCount' = Len(Static)
      BY <1>2 DEF SetUpCount
    <2>2. QED
      BY <1>2, <2>1 DEF LifecycleInv, SetUpsSoFar
  <1>6. ToldAfterSetUp'
    BY <1>2 DEF LifecycleInv, ToldAfterSetUp, entries, history
  <1>7. TearDownsSoFar'
    <2>1. TearDownsSoFar
      BY DEF LifecycleInv
    <2>2. CASE TeardownAll
      <3>1. /\ todo' = Reverse(list) /\ tearDowns' = tearDowns /\ listMu = {}
            /\ loop = "run" /\ loop' = "teardown"
        BY <2>2 DEF TeardownAll
      <3>2. /\ Len(todo') = Len(list) /\ Len(list) \in Nat
            /\ \A j \in 1..Len(list) : todo'[j] = list[Len(list) - j + 1]
            /\ DOMAIN list = 1..Len(list)
        BY <1>1, <3>1, PositionRules
      <3>3. DOMAIN todo' = 1..Len(list)
        <4>1. todo' \in Seq(Subs)
          BY <1>1, <3>1, SequenceRules
        <4>2. QED
          BY <3>2, <4>1, PositionRules
      <3>4. /\ \A i, j \in DOMAIN list : list[i] = list[j] => i = j
            /\ Len(Static) <= Len(list)
            /\ \A i \in DOMAIN Static : list[i] = Static[i]
            /\ \A i \in DOMAIN list :
                 list[i] \in Dynamic => member[list[i]] = "in"
        BY <3>1 DEF LifecycleInv, ListShape, IsInjective, ListIsHeld
      <3>5. \A i \in DOMAIN Static : tearDowns[Static[i]] = 0
        BY <1>1, <2>1, <3>1 DEF TearDownsSoFar, StillUp
      <3>6. \A j \in DOMAIN list : tearDowns[list[j]] = 0
        <4>1. SUFFICES ASSUME NEW j \in DOMAIN list
                       PROVE  tearDowns[list[j]] = 0
          OBVIOUS
        <4>2. CASE list[j] \in Dynamic
          BY <2>1, <3>1, <3>4, <4>2 DEF TearDownsSoFar
        <4>3. CASE \E i \in DOMAIN Static : list[j] = Static[i]
          BY <3>5, <4>3
        <4>4. list[j] \in Subs
          BY <1>1
        <4>5. QED
          BY <4>2, <4>3, <4>4, StaticRules
      <3>7. ASSUME NEW j \in 1..Len(list)
            PROVE  /\ Len(list) - j + 1 \in DOMAIN list
                   /\ todo'[j] = list[Len(list) - j + 1]
        BY <3>2
      <3>8. IsInjective(todo')
        <4>1. ASSUME NEW i \in 1..Len(list), NEW j \in 1..Len(list),
                     todo'[i] = todo'[j]
              PROVE  i = j
          <5>1. list[Len(list) - i + 1] = list[Len(list) - j + 1]
            BY <3>7, <4>1
          <5>2. Len(list) - i + 1 \in DOMAIN list /\ Len(list) - j + 1 \in DOMAIN list
            BY <3>7
          <5>3. Len(list) - i + 1 = Len(list) - j + 1
            BY <3>4, <5>1, <5>2
          <5>4. Len(list) \in Nat
            BY <3>2
          <5>5. QED
            BY <5>3, <5>4
        <4>2. QED
          BY <3>3, <4>1 DEF IsInjective
      <3>9. \A j \in DOMAIN todo' : tearDowns'[todo'[j]] = 0
        BY <3>1, <3>3, <3>6, <3>7
      <3>10. \A i \in DOMAIN Static : todo'[Len(todo') + 1 - i] = Static[i]
        <4>1. SUFFICES ASSUME NEW i \in DOMAIN Static
                       PROVE  todo'[Len(list) + 1 - i] = Static[i]
          BY <3>2
        <4>2. /\ Len(list) + 1 - i \in 1..Len(list)
              /\ Len(list) - (Len(list) + 1 - i) + 1 = i
          <5>1. /\ i \in 1..Len(Static) /\ Len(Static) \in Nat
                /\ Len(list) \in Nat /\ Len(Static) <= Len(list)
            BY <1>1, <3>2, <3>4
          <5>2. QED
            BY <5>1
        <4>3. todo'[Len(list) + 1 - i] = list[i]
          BY <3>7, <4>2
        <4>4. QED
          BY <3>4, <4>3
      <3>11. \A i \in DOMAIN Static : tearDowns'[Static[i]] =
               IF Static[i] \in TearDowners /\ i > StillUp' THEN 1 ELSE 0
        <4>1. StillUp' = Len(list)
          BY <3>1, <3>2 DEF StillUp
        <4>2. \A i \in DOMAIN Static : ~(i > StillUp')
          BY <1>1, <3>2, <3>4, <4>1
        <4>3. QED
          BY <3>1, <3>5, <4>2
      <3>12. QED
        BY <2>1, <3>1, <3>8, <3>9, <3>10, <3>11 DEF TearDownsSoFar
    <2>3. CASE TeardownNext
      <3> DEFINE h == Head(todo)
      <3>1. /\ loop = "teardown" /\ loop' = "teardown" /\ todo # <<>>
            /\ todo' = Tail(todo) /\ CallTearDown(h) /\ member' = member
        BY <2>3 DEF TeardownNext
      <3>2. /\ Len(todo) \in Nat /\ Len(todo) > 0 /\ h = todo[1] /\ h \in Subs
            /\ DOMAIN todo = 1..Len(todo)
            /\ Len(todo') = Len(todo) - 1 /\ todo' \in Seq(Subs)
            /\ \A j \in 1..(Len(todo) - 1) : todo'[j] = todo[j + 1]
        BY <1>1, <3>1, PositionRules, SequenceRules
      <3>3. DOMAIN todo' = 1..(Len(todo) - 1)
        BY <3>2, PositionRules
      <3>4. /\ \A i, j \in DOMAIN todo : todo[i] = todo[j] => i = j
            /\ \A j \in DOMAIN todo : tearDowns[todo[j]] = 0
            /\ \A i \in DOMAIN Static :
                 i <= Len(todo) => todo[Len(todo) + 1 - i] = Static[i]
        BY <2>1, <3>1 DEF TearDownsSoFar, IsInjective
      <3>5. /\ \A s \in Subs \ {h} : tearDowns'[s] = tearDowns[s]
            /\ tearDowns'[h] = IF h \in TearDowners THEN 1 ELSE 0
        BY <1>1, <3>1, <3>2, <3>4 DEF CallTearDown
      <3>6. IsInjective(todo')
        BY <3>2, <3>3, <3>4 DEF IsInjective
      <3>7. \A j \in DOMAIN todo' : tearDowns'[todo'[j]] = 0
        <4>1. SUFFICES ASSUME NEW j \in 1..(Len(todo) - 1)
                       PROVE  tearDowns'[todo'[j]] = 0
          BY <3>3
        <4>2. todo'[j] = todo[j + 1] /\ j + 1 \in DOMAIN todo /\ j + 1 # 1
          <5>1. Len(todo) \in Nat
            BY <3>2
          <5>2. j + 1 \in 1..Len(todo) /\ j + 1 # 1
            BY <5>1
          <5>3. QED
            BY <3>2, <5>2
        <4>3. todo[j + 1] # h /\ todo[j + 1] \in Subs
          <5>1. 1 \in DOMAIN todo
            BY <3>2
          <5>2. todo[j + 1] # todo[1]
            BY <3>4, <4>2, <5>1
          <5>3. todo[j + 1] \in Subs
            BY <1>1, <4>2
          <5>4. QED
            BY <3>2, <5>2, <5>3
        <4>4. QED
          BY <3>4, <3>5, <4>2, <4>3
      <3>8. \A i \in DOMAIN Static :
              i <= Len(todo') => todo'[Len(todo') + 1 - i] = Static[i]
        <4>1. SUFFICES ASSUME NEW i \in DOMAIN Static, i <= Len(todo) - 1
                       PROVE  todo'[Len(todo') + 1 - i] = Static[i]
          BY <3>2
        <4>2. /\ Len(todo') + 1 - i = Len(todo) - i
              /\ Len(todo) - i \in 1..(Len(todo) - 1)
              /\ (Len(todo) - i) + 1 = Len(todo) + 1 - i
          <5>1. /\ i \in 1..Len(Static) /\ Len(Static) \in Nat
                /\ Len(todo) \in Nat /\ Len(todo') = Len(todo) - 1
            BY <1>1, <3>2
          <5>2. QED
            BY <4>1, <5>1
        <4>3. todo'[Len(todo) - i] = todo[Len(todo) + 1 - i]
          BY <3>2, <4>2
        <4>4. i <= Len(todo)
          BY <1>1, <3>2, <4>1
        <4>5. QED
          BY <3>4, <4>2, <4>3, <4>4
      <3>9. StillUp = Len(todo) /\ StillUp' = Len(todo) - 1
        BY <3>1, <3>2 DEF StillUp
      <3>10. ASSUME NEW i \in DOMAIN Static
             PROVE  tearDowns'[Static[i]] =
                      IF Static[i] \in TearDowners /\ i > StillUp'
                      THEN 1 ELSE 0
        <4>1. tearDowns[Static[i]] =
                IF Static[i] \in TearDowners /\ i > Len(todo) THEN 1 ELSE 0
          BY <2>1, <3>9 DEF TearDownsSoFar
        <4>2. CASE i = Len(todo)
          <5>1. Static[i] = h
            BY <3>2, <3>4, <4>2
          <5>2. i > StillUp'
            BY <3>2, <3>9, <4>2
          <5>3. QED
            BY <3>5, <5>1, <5>2
        <4>3. CASE i < Len(todo)
          <5>1. /\ Len(todo) + 1 - i \in DOMAIN todo /\ Len(todo) + 1 - i # 1
                /\ i <= Len(todo)
            BY <1>1, <3>2, <4>3
          <5>2. Static[i] # h /\ Static[i] \in Subs
            BY <3>2, <3>4, <5>1, StaticRules
          <5>3. ~(i > Len(todo)) /\ ~(i > StillUp')
            BY <1>1, <3>2, <3>9, <4>3
          <5>4. QED
            BY <3>5, <4>1, <5>2, <5>3
        <4>4. CASE i > Len(todo)
          <5>1. i > StillUp'
            BY <1>1, <3>2, <3>9, <4>4
          <5>2. CASE Static[i] = h
            BY <3>5, <5>1, <5>2
          <5>3. CASE Static[i] # h
            BY <3>5, <4>1, <4>4, <5>1, <5>3, StaticRules
          <5>4. QED
            BY <5>2, <5>3
        <4>5. i \in 1..Len(Static) /\ Len(Static) \in Nat /\ Len(todo) \in Nat
          BY <1>1, <3>2
        <4>6. i = Len(todo) \/ i < Len(todo) \/ i > Len(todo)
          BY <4>5
        <4>7. QED
          BY <4>2, <4>3, <4>4, <4>6
      <3>11. \A d \in Dynamic : tearDowns'[d] <= 1
        <4>1. SUFFICES ASSUME NEW d \in Dynamic PROVE tearDowns'[d] <= 1
          OBVIOUS
        <4>2. d \in Subs /\ tearDowns[d] <= 1
          BY <2>1, StaticRules DEF TearDownsSoFar
        <4>3. CASE d = h
          BY <3>5, <4>3
        <4>4. CASE d # h
          BY <3>5, <4>2, <4>4
        <4>5. QED
          BY <4>3, <4>4
      <3>12. QED
        BY <2>1, <3>1, <3>6, <3>7, <3>8, <3>10, <3>11 DEF TearDownsSoFar
    <2>4. CASE TeardownDone
      <3>1. /\ loop = "teardown" /\ loop' = "done" /\ todo = <<>>
            /\ todo' = todo /\ tearDowns' = tearDowns /\ member' = member
        BY <2>4 DEF TeardownDone, lifecycle
      <3>2. StillUp' = StillUp
        BY <3>1 DEF StillUp
      <3>3. QED
        BY <2>1, <3>1, <3>2 DEF TearDownsSoFar
    <2>5. QED
      BY <2>2, <2>3, <2>4
  <1>8. QED
    BY <1>3, <1>4, <1>5, <1>6, <1>7 DEF LifecycleInv

\* The invariant of the lifecycle is inductive, given that of the notifications.
LEMMA NextLifecycle == IInv /\ LifecycleInv /\ [Next]_vars => LifecycleInv'
  <1>1. SUFFICES ASSUME IInv, LifecycleInv, [Next]_vars PROVE LifecycleInv'
    OBVIOUS
  <1>2. CASE UNCHANGED vars
    BY <1>1, <1>2
    DEF LifecycleInv, ListShape, ListIsHeld, SetUpsSoFar, SetUpCount,
        TearDownsSoFar, StillUp, ToldAfterSetUp, vars, lifecycle, entries,
        loopvars, history
  <1>3. CASE LoopStep \/ CancelContext
    BY <1>1, <1>3, SetUpLifecycle, NotifyLifecycle, TearDownLifecycle
    DEF LoopStep
  <1>4. QED
    BY <1>1, <1>2, <1>3, EntryLifecycle, MemberLifecycle DEF Next

\* Every state of the subscriber list satisfies that invariant, too.
THEOREM LifecycleInvariant == Spec => [](IInv /\ LifecycleInv)
  BY InitIInv, InitLifecycle, NextIInv, NextLifecycle, PTL DEF Spec

\* OnChange comes after SetUp, TearDown comes once, set-ups are in the order of
\* the registrations and teardowns in the reverse one.
THEOREM LifecycleIsSound == Spec => []LifecycleSound
  <1>1. ASSUME IInv, LifecycleInv PROVE LifecycleSound
    <2>1. SetUpComesFirst
      <3>1. \A s \in Subs : active[s] # "free" => activeChange[s] # Nil
        BY <1>1 DEF IInv, InHand
      <3>2. \A s \in SetUppers :
              active[s] # "free" \/ handled[s] # {} => told[s] # {}
        BY <1>1, <3>1, SubscriberAssumption DEF LifecycleInv, ToldAfterSetUp
      <3>3. QED
        BY <1>1, <3>2, SubscriberAssumption
        DEF LifecycleInv, ToldAfterSetUp, SetUpComesFirst
    <2>2. TornDownOnce
      <3>1. \A i \in DOMAIN Static : tearDowns[Static[i]] \in {0, 1}
        BY <1>1 DEF LifecycleInv, TearDownsSoFar
      <3>2. \A s \in Subs : tearDowns[s] <= 1
        BY <1>1, <3>1, StaticRules DEF LifecycleInv, TearDownsSoFar
      <3>3. ASSUME loop = "done", NEW s \in TearDowners \ Dynamic
            PROVE  tearDowns[s] = 1
        <4>1. StillUp = 0
          BY <1>1, <3>3 DEF LifecycleInv, TearDownsSoFar, StillUp
        <4>2. PICK i \in DOMAIN Static : s = Static[i]
          BY StaticRules, SubscriberAssumption
        <4>3. i > StillUp
          BY <4>1, <4>2, StaticRules
        <4>4. QED
          BY <1>1, <4>2, <4>3 DEF LifecycleInv, TearDownsSoFar
      <3>4. QED
        BY <3>2, <3>3 DEF TornDownOnce
    <2>3. LifecycleOrder
      <3>1. SUFFICES ASSUME NEW i \in DOMAIN Static, NEW j \in DOMAIN Static,
                            i < j
                     PROVE  /\ Static[i] \in SetUppers /\ setUps[Static[j]] > 0
                                 => setUps[Static[i]] > 0
                            /\ Static[j] \in TearDowners
                                 /\ tearDowns[Static[i]] > 0
                                 => tearDowns[Static[j]] > 0
        BY DEF LifecycleOrder
      <3>2. /\ SetUpCount \in Int /\ StillUp \in Int
            /\ i \in Int /\ j \in Int
            /\ Static[i] \in Subs /\ Static[j] \in Subs
        BY <1>1, StaticRules
        DEF IInv, TypeOK, SetUpCount, StillUp
      <3>3. ASSUME Static[i] \in SetUppers, setUps[Static[j]] > 0
            PROVE  setUps[Static[i]] > 0
        <4>1. Static[j] \in SetUppers
          BY <1>1, <3>2, <3>3 DEF LifecycleInv, SetUpsSoFar
        <4>2. j <= SetUpCount
          BY <1>1, <3>3, <4>1 DEF LifecycleInv, SetUpsSoFar
        <4>3. i <= SetUpCount
          BY <3>1, <3>2, <4>2
        <4>4. QED
          BY <1>1, <3>3, <4>3 DEF LifecycleInv, SetUpsSoFar
      <3>4. ASSUME Static[j] \in TearDowners, tearDowns[Static[i]] > 0
            PROVE  tearDowns[Static[j]] > 0
        <4>1. i > StillUp
          BY <1>1, <3>4 DEF LifecycleInv, TearDownsSoFar
        <4>2. j > StillUp
          BY <3>1, <3>2, <4>1
        <4>3. QED
          BY <1>1, <3>4, <4>2 DEF LifecycleInv, TearDownsSoFar
      <3>5. QED
        BY <3>3, <3>4
    <2>4. QED
      BY <2>1, <2>2, <2>3 DEF LifecycleSound
  <1>2. QED
    BY <1>1, LifecycleInvariant, PTL

-----------------------------------------------------------------------------
(* Notifications and the list: the same argument for DueInv *)

\* The elements of a tail, of a sequence with one more, and with one less.
LEMMA ToSetRules ==
  ASSUME NEW q \in Seq(Subs)
  PROVE  /\ q # <<>> /\ IsInjective(q) =>
              /\ ToSet(Tail(q)) = ToSet(q) \ {Head(q)}
              /\ IsInjective(Tail(q))
         /\ \A s \in Subs : ToSet(Append(q, s)) = ToSet(q) \cup {s}
         /\ \A i \in DOMAIN q : ToSet(q) \subseteq
              ToSet(RemoveAt(q, i)) \cup {q[i]}
  <1>1. Len(q) \in Nat /\ DOMAIN q = 1..Len(q)
    BY LenProperties
  <1>2. ASSUME q # <<>>, IsInjective(q)
        PROVE  ToSet(Tail(q)) = ToSet(q) \ {Head(q)} /\ IsInjective(Tail(q))
    <2>1. /\ Tail(q) \in Seq(Subs) /\ Len(Tail(q)) = Len(q) - 1
          /\ Len(q) > 0 /\ Head(q) = q[1]
          /\ \A j \in 1..(Len(q) - 1) : Tail(q)[j] = q[j + 1]
      BY <1>2, PositionRules, SequenceRules
    <2>2. DOMAIN Tail(q) = 1..(Len(q) - 1)
      BY <2>1, LenProperties
    <2>3. \A i, j \in 1..Len(q) : q[i] = q[j] => i = j
      BY <1>1, <1>2 DEF IsInjective
    <2>4. ASSUME NEW j \in 1..(Len(q) - 1)
          PROVE  Tail(q)[j] \in ToSet(q) \ {Head(q)}
      <3>1. j + 1 \in 1..Len(q) /\ 1 \in 1..Len(q) /\ j + 1 # 1
        BY <1>1, <2>1
      <3>2. q[j + 1] # q[1]
        BY <2>3, <3>1
      <3>3. QED
        BY <1>1, <2>1, <3>1, <3>2 DEF ToSet
    <2>5. ASSUME NEW i \in 1..Len(q), i # 1
          PROVE  q[i] \in ToSet(Tail(q))
      <3>1. i - 1 \in 1..(Len(q) - 1) /\ (i - 1) + 1 = i
        BY <1>1, <2>5
      <3>2. Tail(q)[i - 1] = q[i]
        BY <2>1, <3>1
      <3>3. QED
        BY <2>2, <3>1, <3>2 DEF ToSet
    <2>6. ToSet(Tail(q)) \subseteq ToSet(q) \ {Head(q)}
      BY <2>2, <2>4 DEF ToSet
    <2>7. ToSet(q) \ {Head(q)} \subseteq ToSet(Tail(q))
      BY <1>1, <2>1, <2>5 DEF ToSet
    <2>8. IsInjective(Tail(q))
      <3>1. ASSUME NEW i \in 1..(Len(q) - 1), NEW j \in 1..(Len(q) - 1),
                   Tail(q)[i] = Tail(q)[j]
            PROVE  i = j
        <4>1. /\ i + 1 \in 1..Len(q) /\ j + 1 \in 1..Len(q)
              /\ i \in Int /\ j \in Int
          BY <1>1
        <4>2. q[i + 1] = q[j + 1]
          BY <2>1, <3>1
        <4>3. i + 1 = j + 1
          BY <2>3, <4>1, <4>2
        <4>4. QED
          BY <4>1, <4>3
      <3>2. QED
        BY <2>2, <3>1 DEF IsInjective
    <2>9. QED
      BY <2>6, <2>7, <2>8
  <1>3. ASSUME NEW s \in Subs PROVE ToSet(Append(q, s)) = ToSet(q) \cup {s}
    <2>1. /\ Append(q, s) \in Seq(Subs) /\ Len(Append(q, s)) = Len(q) + 1
          /\ \A j \in 1..Len(q) : Append(q, s)[j] = q[j]
          /\ Append(q, s)[Len(q) + 1] = s
      BY PositionRules
    <2>2. DOMAIN Append(q, s) = 1..(Len(q) + 1)
      BY <2>1, LenProperties
    <2>3. \A j \in 1..(Len(q) + 1) : j \in 1..Len(q) \/ j = Len(q) + 1
      BY <1>1
    <2>4. \A j \in 1..Len(q) : j \in 1..(Len(q) + 1)
      BY <1>1
    <2>5. Len(q) + 1 \in 1..(Len(q) + 1)
      BY <1>1
    <2>6. QED
      BY <1>1, <2>1, <2>2, <2>3, <2>4, <2>5 DEF ToSet
  <1>4. ASSUME NEW i \in DOMAIN q, NEW s \in ToSet(q), s # q[i]
        PROVE  s \in ToSet(RemoveAt(q, i))
    <2>1. PICK k \in 1..Len(q) : s = q[k] /\ k # i
      BY <1>1, <1>4 DEF ToSet
    <2>2. /\ RemoveAt(q, i) \in Seq(Subs)
          /\ Len(RemoveAt(q, i)) = Len(q) - 1
          /\ \A j \in 1..(Len(q) - 1) :
               RemoveAt(q, i)[j] = q[IF j < i THEN j ELSE j + 1]
      BY <1>1, PositionRules, SequenceRules
    <2>3. DOMAIN RemoveAt(q, i) = 1..(Len(q) - 1)
      BY <2>2, LenProperties
    <2>4. CASE k < i
      <3>1. k \in 1..(Len(q) - 1)
        BY <1>1, <2>1, <2>4
      <3>2. RemoveAt(q, i)[k] = s
        BY <2>1, <2>2, <2>4, <3>1
      <3>3. QED
        BY <2>3, <3>1, <3>2 DEF ToSet
    <2>5. CASE k > i
      <3>1. k - 1 \in 1..(Len(q) - 1) /\ ~(k - 1 < i) /\ (k - 1) + 1 = k
        BY <1>1, <2>1, <2>5
      <3>2. RemoveAt(q, i)[k - 1] = s
        BY <2>1, <2>2, <3>1
      <3>3. QED
        BY <2>3, <3>1, <3>2 DEF ToSet
    <2>6. QED
      BY <1>1, <2>1, <2>4, <2>5
  <1>5. QED
    BY <1>2, <1>3, <1>4

\* Nobody has been told of anything, and the list is that of the registered.
LEMMA InitDue == Init => DueInv
  <1>1. SUFFICES ASSUME Init PROVE DueInv
    OBVIOUS
  <1>2. ASSUME NEW s \in Subs, Registered(s) PROVE s \in ToSet(list)
    <2>1. s \notin Dynamic
      BY <1>1, <1>2 DEF Init, Registered
    <2>2. QED
      BY <1>1, <2>1 DEF Init, Dynamic
  <1>3. \A s \in Subs : ~StillToNotify(s) /\ told[s] = {} /\ due[s] = {}
    BY <1>1 DEF Init, StillToNotify
  <1>4. loop # "notify"
    BY <1>1 DEF Init
  <1>5. QED
    BY <1>2, <1>3, <1>4 DEF DueInv

\* Coming and going changes the list and who is registered together.
LEMMA MemberDue ==
  ASSUME IInv, DueInv, NEW d \in Dynamic, MemberStep(d)
  PROVE  DueInv'
  <1>1. UNCHANGED <<loopvars, history>>
    BY DEF MemberStep, AddSubscriber, AddSetUp, RemoveSubscriber, RemoveTearDown
  <1>2. d \in Subs /\ list \in Seq(Subs) /\ member \in
          [Dynamic -> {"out", "adding", "in", "removing", "gone"}]
    BY StaticRules DEF IInv, TypeOK
  <1>3. \A e \in Dynamic \ {d} : member'[e] = member[e]
    BY <1>2 DEF MemberStep, AddSubscriber, AddSetUp, RemoveSubscriber,
                RemoveTearDown
  <1>4. ASSUME NEW s \in Subs, Registered(s)' PROVE s \in ToSet(list')
    <2>1. ASSUME s # d PROVE Registered(s) /\ s \in ToSet(list)
      BY <1>3, <1>4, <2>1 DEF Registered, DueInv
    <2>2. CASE AddSubscriber(d)
      BY <1>2, <2>1, <2>2, ToSetRules DEF AddSubscriber
    <2>3. CASE AddSetUp(d)
      BY <1>2, <1>4, <2>1, <2>3 DEF AddSetUp, DueInv, Registered
    <2>4. CASE RemoveSubscriber(d)
      <3>1. member'[d] \in {"removing", "gone"}
        BY <1>2, <2>4 DEF RemoveSubscriber
      <3>2. s # d
        BY <1>4, <3>1 DEF Registered
      <3>3. PICK i \in DOMAIN list : list[i] = d /\ list' = RemoveAt(list, i)
        BY <2>4 DEF RemoveSubscriber
      <3>4. QED
        BY <1>2, <2>1, <3>2, <3>3, ToSetRules
    <2>5. CASE RemoveTearDown(d)
      <3>1. member'[d] = "gone" /\ list' = list
        BY <1>2, <2>5 DEF RemoveTearDown
      <3>2. s # d
        BY <1>4, <3>1 DEF Registered
      <3>3. QED
        BY <2>1, <3>1, <3>2
    <2>6. QED
      BY <2>2, <2>3, <2>4, <2>5 DEF MemberStep
  <1>5. \A s \in Subs : StillToNotify(s)' <=> StillToNotify(s)
    BY <1>1 DEF StillToNotify, loopvars
  <1>6. QED
    BY <1>1, <1>4, <1>5 DEF DueInv, loopvars, history

\* A notification makes the change due for those in its copy of the list.
LEMMA NotifyAllDue ==
  ASSUME IInv, LifecycleInv, DueInv, NotifyAll
  PROVE  DueInv'
  <1>1. /\ loop = "run" /\ changes' = changes + 1 /\ todo' = list
        /\ due' = [s \in Subs |-> IF Registered(s) THEN due[s] \cup {changes + 1}
                                  ELSE due[s]]
        /\ loop' = "notify" /\ told' = told /\ list' = list /\ member' = member
    BY DEF NotifyAll, lifecycle
  <1>2. changes \in Nat /\ changes + 1 \in Nat
    BY BoundAssumption DEF IInv, TypeOK
  <1>3. \A s \in Subs : ~StillToNotify(s)
    BY <1>1 DEF StillToNotify
  <1>4. ASSUME NEW s \in Subs
        PROVE  /\ told[s] = due[s] /\ due[s] \subseteq 1..changes
               /\ due'[s] = IF Registered(s) THEN due[s] \cup {changes + 1}
                            ELSE due[s]
    BY <1>1, <1>3 DEF DueInv
  <1>5. ASSUME NEW s \in Subs PROVE Registered(s) <=> s \in ToSet(list)
    <2>1. Registered(s) => s \in ToSet(list)
      BY DEF DueInv
    <2>2. s \in ToSet(list) => Registered(s)
      BY DEF LifecycleInv, ListShape, ToSet, Registered
    <2>3. QED
      BY <2>1, <2>2
  <1>6. ASSUME NEW s \in Subs PROVE StillToNotify(s)' <=> Registered(s)
    BY <1>1, <1>5 DEF StillToNotify
  <1>7. ASSUME NEW s \in Subs
        PROVE  /\ due'[s] \subseteq 1..(changes + 1)
               /\ Registered(s) => changes + 1 \in due'[s]
               /\ told'[s] = due'[s] \
                    (IF Registered(s) THEN {changes + 1} ELSE {})
    <2>1. changes + 1 \notin 1..changes /\ 1..changes \subseteq 1..(changes + 1)
          /\ changes + 1 \in 1..(changes + 1)
      BY <1>2
    <2>2. QED
      BY <1>1, <1>4, <2>1
  <1>8. IsInjective(todo')
    BY <1>1 DEF LifecycleInv, ListShape
  <1>9. \A s \in Subs : Registered(s)' => s \in ToSet(list')
    BY <1>1, <1>5 DEF Registered
  <1>10. QED
    BY <1>1, <1>6, <1>7, <1>8, <1>9 DEF DueInv

\* One of those in the copy is told, and is no longer in the rest of it.
LEMMA NotifyNextDue ==
  ASSUME IInv, DueInv, NotifyNext
  PROVE  DueInv'
  <1> DEFINE h == Head(todo)
  <1>1. /\ loop = "notify" /\ todo # <<>> /\ todo' = Tail(todo)
        /\ told' = [told EXCEPT ![h] = @ \cup {changes}]
        /\ UNCHANGED <<list, member, loop, changes, due>>
    BY DEF NotifyNext, lifecycle
  <1>2. /\ todo \in Seq(Subs) /\ h \in Subs /\ h \in ToSet(todo)
        /\ told \in [Subs -> SUBSET Change]
    <2>1. todo \in Seq(Subs) /\ told \in [Subs -> SUBSET Change]
      BY DEF IInv, TypeOK
    <2>2. 1 \in DOMAIN todo /\ h = todo[1] /\ h \in Subs
      BY <1>1, <2>1, SequenceRules
    <2>3. QED
      BY <2>1, <2>2 DEF ToSet
  <1>3. ToSet(todo') = ToSet(todo) \ {h} /\ IsInjective(todo')
    BY <1>1, <1>2, ToSetRules DEF DueInv
  <1>4. \A s \in Subs : StillToNotify(s)' <=> StillToNotify(s) /\ s # h
    BY <1>1, <1>3 DEF StillToNotify
  <1>5. StillToNotify(h) /\ changes \in due[h]
    BY <1>1, <1>2 DEF StillToNotify, DueInv
  <1>6. ASSUME NEW s \in Subs
        PROVE  told'[s] = due[s] \ (IF StillToNotify(s)' THEN {changes} ELSE {})
    <2>1. told[s] = due[s] \ (IF StillToNotify(s) THEN {changes} ELSE {})
      BY DEF DueInv
    <2>2. CASE s = h
      BY <1>1, <1>2, <1>4, <1>5, <2>1, <2>2
    <2>3. CASE s # h
      BY <1>1, <1>2, <1>4, <2>1, <2>3
    <2>4. QED
      BY <2>2, <2>3
  <1>7. \A s \in Subs : Registered(s)' => s \in ToSet(list')
    BY <1>1 DEF Registered, DueInv
  <1>8. \A s \in Subs : StillToNotify(s)' => changes' \in due'[s]
    BY <1>1, <1>4 DEF DueInv
  <1>9. QED
    BY <1>1, <1>3, <1>6, <1>7, <1>8 DEF DueInv

\* No other step of the loop, and no OnChange, touches any of this.
LEMMA NextDue == IInv /\ LifecycleInv /\ DueInv /\ [Next]_vars => DueInv'
  <1>1. SUFFICES ASSUME IInv, LifecycleInv, DueInv, [Next]_vars PROVE DueInv'
    OBVIOUS
  <1> DEFINE Same == UNCHANGED <<list, member, told, due, changes>>
             Still == \/ loop' = loop /\ todo' = todo
                      \/ loop' # "notify" /\ (loop = "notify" => todo = <<>>)
  <1>2. ASSUME Same, Still PROVE DueInv'
    <2>1. \A s \in Subs : StillToNotify(s)' <=> StillToNotify(s)
      BY <1>2 DEF StillToNotify, ToSet
    <2>2. \A s \in Subs : Registered(s)' <=> Registered(s)
      BY <1>2 DEF Registered
    <2>3. loop' = "notify" => loop = "notify" /\ todo' = todo
      BY <1>2
    <2>4. QED
      BY <1>1, <1>2, <2>1, <2>2, <2>3 DEF DueInv, Same
  <1> HIDE DEF Same, Still
  <1>3. CASE UNCHANGED vars
    <2>1. UNCHANGED <<list, member, told, due, changes, loop, todo>>
      BY <1>3 DEF vars, lifecycle, loopvars, history
    <2>2. Same /\ Still
      BY <2>1 DEF Same, Still
    <2>3. QED
      BY <1>2, <2>1, <2>2
  <1>4. ASSUME NEW s \in Subs, EntryStep(s) PROVE DueInv'
    <2>1. UNCHANGED <<list, member, told, due, changes, loop, todo>>
      BY <1>4 DEF EntryStep, Activate, OnChangeSucceeds, OnChangeFailsLast,
        OnChangeFails, Requeue, lifecycle, loopvars, history
    <2>2. Same /\ Still
      BY <2>1 DEF Same, Still
    <2>3. QED
      BY <1>2, <2>1, <2>2
  <1>5. ASSUME LoopStep \/ CancelContext, ~NotifyAll, ~NotifyNext PROVE DueInv'
    <2>1. Same
      BY <1>5 DEF Same, LoopStep, SetUpAll, SetUpNext, SetUpDone, NotifyDone,
        TeardownAll, TeardownNext, TeardownDone, CancelContext, lifecycle,
        history
    <2>2. Still
      BY <1>5 DEF Still, LoopStep, SetUpAll, SetUpNext, SetUpDone, NotifyDone,
        TeardownAll, TeardownNext, TeardownDone, CancelContext
    <2>3. QED
      BY <1>2, <2>1, <2>2
  <1>6. QED
    BY <1>1, <1>3, <1>4, <1>5, MemberDue, NotifyAllDue, NotifyNextDue
    DEF Next, LoopStep

\* For any subscribers that come and go while the list is notified: each is told
\* of exactly the changes that were notified while it was registered, and
\* OnChange is called for no other.
THEOREM MembersAreTold == Spec => []ToldExactlyWhatIsDue
  <1>1. ASSUME LifecycleInv, DueInv PROVE ToldExactlyWhatIsDue
    BY <1>1, Zenon DEF LifecycleInv, ToldAfterSetUp, DueInv, ToldExactlyWhatIsDue
  <1>2. QED
    BY <1>1, LifecycleInvariant, InitDue, NextDue, PTL DEF Spec

=============================================================================
