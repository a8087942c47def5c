---------------------------- MODULE FileWatchProofs ----------------------------
(***************************************************************************)
(* Proofs about the watchers of one FileWatch object, however often they   *)
(* are replaced, disabled, closed and started again.                       *)
(***************************************************************************)
EXTENDS FileWatchProperties, SequenceTheorems, TLAPS

\* The numbers of the watchers.
LEMMA IdRules == MaxWatchers \in Nat \ {0} /\ Ids = 1..MaxWatchers /\ 0 \notin Ids
  <1> DEFINE S == {b.incidents : b \in Bounds}
  <1>1. PICK b \in Bounds : \A c \in Bounds : c.incidents <= b.incidents
    BY FileWatchAssumption
  <1>2. S \subseteq Nat
    BY FileWatchAssumption
  <1>3. b.incidents \in S /\ \A x \in S : b.incidents >= x
    BY <1>1, <1>2
  <1>4. Max(S) \in S
    BY <1>3 DEF Max
  <1>5. Max(S) \in Nat
    BY <1>2, <1>4
  <1>6. MaxWatchers = 1 + Max(S)
    BY DEF MaxWatchers
  <1>7. MaxWatchers \in Nat \ {0}
    BY <1>5, <1>6
  <1>8. QED
    BY <1>7 DEF Ids

\* The history that is kept.
LEMMA HistoryRules ==
  ASSUME NEW events \in Seq(SUBSET Nat), NEW e \in SUBSET Nat
  PROVE  /\ Truncated(Append(events, e)) \in Seq(SUBSET Nat)
         /\ Len(Truncated(Append(events, e))) <= MaxFileEventHistory
  <1> DEFINE s == Append(events, e)
             from == Len(s) - MaxFileEventHistory + 1
  <1>1. s \in Seq(SUBSET Nat) /\ Len(s) \in Nat
    BY AppendProperties
  <1>2. MaxFileEventHistory \in Nat \ {0}
    BY FileWatchAssumption
  <1>3. CASE Len(s) <= MaxFileEventHistory
    BY <1>1, <1>3 DEF Truncated
  <1>4. CASE ~(Len(s) <= MaxFileEventHistory)
    <2>1. from \in 1..(Len(s) + 1)
      BY <1>1, <1>2, <1>4
    <2>2. /\ SubSeq(s, from, Len(s)) \in Seq(SUBSET Nat)
          /\ Len(SubSeq(s, from, Len(s))) =
               IF from <= Len(s) THEN Len(s) - from + 1 ELSE 0
      BY <1>1, <2>1, SubSeqProperties
    <2>3. Len(SubSeq(s, from, Len(s))) <= MaxFileEventHistory
      BY <1>1, <1>2, <1>4, <2>1, <2>2
    <2>4. QED
      BY <1>4, <2>2, <2>3 DEF Truncated
  <1>5. QED
    BY <1>3, <1>4

\* The first values of objects, requests and watchers.
LEMMA FirstValues ==
  /\ NoStatus \in Status /\ Gone \in Object /\ NoWatcher \in Watcher
  /\ NoRequest \in Request
  /\ NoStatus.error = "" /\ NoStatus.events = <<>>
  /\ NoWatcher.status = NoStatus /\ NoWatcher.loop = "none" /\ ~NoWatcher.open
  /\ ~NoWatcher.done /\ ~NoWatcher.canceled
  <1>1. MaxWatchers \in Nat
    BY IdRules
  <1>2. NoStatus \in Status
    BY <1>1 DEF NoStatus, Status, Errors
  <1>3. (CHOOSE s \in Specs : TRUE) \in Specs
    BY FileWatchAssumption
  <1>4. Gone \in Object /\ Gone.spec \in Specs
    BY <1>2, <1>3 DEF Gone, Object
  <1>5. NoWatcher \in Watcher
    BY <1>2, <1>4 DEF NoWatcher, Watcher
  <1>6. NoRequest \in Request
    BY <1>4 DEF NoRequest, Request
  <1>7. QED
    BY <1>2, <1>4, <1>5, <1>6 DEF NoStatus, NoWatcher

\* cleanupWatch closes what is open, and says so only if nobody has canceled
\* the watch and nothing worse is known.
LEMMA CleanUpRules ==
  ASSUME NEW w \in Watcher, NEW c \in BOOLEAN, w.open => ~w.done
  PROVE  /\ CleanedUp(w, c) \in Watcher
         /\ CleanedUp(w, c).status.events = w.status.events
         /\ ~CleanedUp(w, c).open /\ CleanedUp(w, c).done
         /\ CleanedUp(w, c).loop = w.loop
         /\ w.done => CleanedUp(w, c) = w
         /\ CleanedUp(w, c).status.error = "closed" =>
              w.status.error = "closed" \/ (~c /\ ~w.done)
  <1>1. CASE w.done
    BY <1>1 DEF CleanedUp, Watcher
  <1>2. CASE ~w.done
    <2> DEFINE e == IF ~c /\ w.status.error = "" THEN "closed"
                    ELSE w.status.error
    <2>1. e \in Errors
      BY DEF Watcher, Status, Errors
    <2> DEFINE p == [w EXCEPT !.open = FALSE, !.done = TRUE, !.backingOff = TRUE,
                              !.canceled = TRUE]
    <2>2. CleanedUp(w, c) = [p EXCEPT !.status.error = e]
      BY <1>2 DEF CleanedUp
    <2>3. e = "closed" => w.status.error = "closed" \/ (~c /\ ~w.done)
      BY <1>2
    <2>4. /\ p \in Watcher /\ ~p.open /\ p.done /\ p.loop = w.loop
          /\ p.status = w.status
      BY DEF Watcher
    <2> HIDE DEF e, p
    <2>5. /\ CleanedUp(w, c) \in Watcher
          /\ ~CleanedUp(w, c).open /\ CleanedUp(w, c).done
          /\ CleanedUp(w, c).loop = w.loop
      BY <2>1, <2>2, <2>4 DEF Watcher, Status
    <2>6. /\ CleanedUp(w, c).status.events = w.status.events
          /\ CleanedUp(w, c).status.error = e
      BY <2>1, <2>2, <2>4 DEF Watcher, Status
    <2>7. QED
      BY <1>2, <2>3, <2>5, <2>6
  <1>3. QED
    BY <1>1, <1>2

LEMMA InitIInv == Init => IInv
  <1>1. SUFFICES ASSUME Init PROVE IInv
    OBVIOUS
  <1>2. object \in Object /\ cached = object
    BY <1>1, FirstValues DEF Init, Object
  <1>3. /\ \A k \in Ids : watchers[k] = NoWatcher
        /\ watchers \in [Ids -> Watcher] /\ made = 0 /\ current = 0
        /\ step = "idle" /\ used = [changes |-> 0, incidents |-> 0,
                                    closed |-> FALSE, mixed |-> FALSE]
    BY <1>1, FirstValues DEF Init
  <1>4. made \in 0..MaxWatchers /\ current \in 0..made
    BY <1>3, IdRules
  <1>5. \A k \in Ids : Len(watchers[k].status.events) <= MaxFileEventHistory
    <2>1. Len(<<>>) = 0 /\ MaxFileEventHistory \in Nat
      BY FileWatchAssumption
    <2>2. \A k \in Ids : watchers[k].status.events = <<>>
      BY <1>3, FirstValues
    <2>3. QED
      BY <2>1, <2>2
  <1>6. /\ stale \in BOOLEAN /\ disabled \in BOOLEAN /\ crashed \in BOOLEAN
        /\ queued \in BOOLEAN /\ delayed \in BOOLEAN /\ req \in Request
        /\ told \subseteq Nat /\ skipped \subseteq Nat
        /\ used \in [changes : Nat, incidents : Nat, closed : BOOLEAN,
                    mixed : BOOLEAN]
    BY <1>1, FirstValues DEF Init
  <1>7. TypeOK
    BY <1>2, <1>3, <1>4, <1>5, <1>6 DEF TypeOK
  <1>8. Open = {} /\ ~Replacing
    BY <1>3, FirstValues DEF Open, Replacing
  <1>9. QED
    BY <1>3, <1>7, <1>8, FirstValues
    DEF IInv, OnlyOneWatch, NoFalseAlarm, DoneIsClosed, LoopsEndDone

-----------------------------------------------------------------------------
\* Steps that open, close, replace and clean up nothing.
LEMMA OtherSteps ==
  ASSUME IInv, TypeOK', UNCHANGED <<made, current>>,
         Replacing' <=> Replacing, step' = "assign" => step = "assign",
         used'.closed = used.closed,
         \A k \in Ids :
           /\ watchers'[k].open = watchers[k].open
           /\ watchers'[k].done = watchers[k].done
           /\ watchers'[k].canceled = watchers[k].canceled
           /\ watchers'[k].loop = watchers[k].loop
           /\ watchers'[k].status.error = "closed" =>
                watchers[k].status.error = "closed"
  PROVE  IInv'
  <1>1. Open' = Open
    BY DEF Open
  <1>2. OnlyOneWatch'
    BY <1>1 DEF IInv, OnlyOneWatch
  <1>3. NoFalseAlarm'
    BY DEF IInv, NoFalseAlarm
  <1>4. DoneIsClosed'
    <2>1. Replacing => made \in Ids
      BY IdRules DEF IInv, TypeOK, DoneIsClosed
    <2>2. QED
      BY <1>1, <2>1 DEF IInv, DoneIsClosed, Open
  <1>5. LoopsEndDone'
    BY DEF IInv, LoopsEndDone
  <1>6. QED
    BY <1>2, <1>3, <1>4, <1>5 DEF IInv

-----------------------------------------------------------------------------
(* The goroutine of a watcher *)

\* Only the watcher that records changes more than an event that lies in an array
\* it shares.
LEMMA RecordedRules ==
  ASSUME IInv, NEW k \in Ids, NEW n \in 1..Len(watchers[k].buffer)
  PROVE  /\ Recorded(k, n) \in [Ids -> Watcher]
         /\ \A j \in Ids :
              /\ Recorded(k, n)[j].open = watchers[j].open
              /\ Recorded(k, n)[j].done = watchers[j].done
              /\ Recorded(k, n)[j].canceled = watchers[j].canceled
              /\ Recorded(k, n)[j].loop = watchers[j].loop
              /\ Recorded(k, n)[j].status.error = "closed" =>
                   watchers[j].status.error = "closed"
              /\ Len(Recorded(k, n)[j].status.events) <= MaxFileEventHistory
              /\ j # k => Recorded(k, n)[j].buffer = watchers[j].buffer
         /\ Recorded(k, n)[k].buffer =
              SubSeq(watchers[k].buffer, n + 1, Len(watchers[k].buffer))
         /\ Recorded(k, n)[k].status.events =
              Truncated(Append(watchers[k].status.events,
                               ToSet(SubSeq(watchers[k].buffer, 1, n))))
  <1>1. /\ watchers \in [Ids -> Watcher] /\ watchers[k] \in Watcher
        /\ \A j \in Ids : Len(watchers[j].status.events) <= MaxFileEventHistory
    BY DEF IInv, TypeOK
  <1> DEFINE b == watchers[k].buffer
             event == ToSet(SubSeq(b, 1, n))
             rest == SubSeq(b, n + 1, Len(b))
             events == Truncated(Append(watchers[k].status.events, event))
             array == IF InPlace(k) THEN watchers[k].array ELSE 0
             room == IF InPlace(k) THEN watchers[k].room - 1 ELSE 0
             kept(j) == Overwritten(j, k, event)
  <1>2. b \in Seq(Nat) /\ watchers[k].status.events \in Seq(SUBSET Nat)
    BY <1>1 DEF Watcher, Status
  <1>3. event \in SUBSET Nat /\ rest \in Seq(Nat)
    <2>1. /\ Len(b) \in Nat /\ n \in 1..Len(b) /\ n \in Int /\ n + 1 \in Int
          /\ 1 \in Int /\ Len(b) \in Int
      BY <1>2
    <2>2. /\ \A i \in 1..n : b[i] \in Nat
          /\ \A i \in (n + 1)..Len(b) : b[i] \in Nat
      BY SMTT(30), <1>2, <2>1, ElementOfSeq
    <2>3. SubSeq(b, 1, n) \in Seq(Nat) /\ rest \in Seq(Nat)
      BY <2>1, <2>2, SubSeqProperties
    <2>4. QED
      BY <2>3 DEF ToSet
  <1>4. events \in Seq(SUBSET Nat) /\ Len(events) <= MaxFileEventHistory
    BY <1>2, <1>3, HistoryRules
  <1>5. array \in Nat /\ room \in Nat
    BY <1>1 DEF InPlace, Watcher
  <1>6. ASSUME NEW j \in Ids
        PROVE  /\ kept(j) \in Seq(SUBSET Nat)
               /\ Len(kept(j)) <= MaxFileEventHistory
    <2> DEFINE old == watchers[j].status.events
               i == Len(old) - (watchers[k].room - 1 - watchers[j].room)
    <2>1. watchers[j] \in Watcher /\ old \in Seq(SUBSET Nat)
      BY <1>1 DEF Watcher, Status
    <2>2. Len(old) <= MaxFileEventHistory
      BY <1>1
    <2>3. kept(j) = old \/ (i \in DOMAIN old /\ kept(j) = [old EXCEPT ![i] = event])
      BY DEF Overwritten
    <2> HIDE DEF kept, i, event
    <2>4. CASE i \in DOMAIN old /\ kept(j) = [old EXCEPT ![i] = event]
      <3>1. i \in 1..Len(old)
        BY <2>1, <2>4, LenProperties
      <3>2. kept(j) \in Seq(SUBSET Nat) /\ Len(kept(j)) = Len(old)
        BY <1>3, <2>1, <2>4, <3>1, ExceptSeq
      <3>3. QED
        BY <2>2, <3>2
    <2>5. QED
      BY <2>1, <2>2, <2>3, <2>4
  <1> DEFINE w == [watchers[k] EXCEPT !.buffer = rest, !.array = array,
                                      !.room = room]
             v == [w EXCEPT !.status.events = events, !.status.error = ""]
             o(j) == [watchers[j] EXCEPT !.status.events = kept(j)]
  <1>7. Recorded(k, n) = [j \in Ids |-> IF j = k THEN v ELSE o(j)]
    <2> DEFINE r == [watchers[k] EXCEPT
                      !.buffer = SubSeq(@, n + 1, Len(@)),
                      !.status.events = Truncated(Append(@, event)),
                      !.status.error = "",
                      !.array = IF InPlace(k) THEN @ ELSE 0,
                      !.room = IF InPlace(k) THEN @ - 1 ELSE 0]
    <2>1. Recorded(k, n) = [j \in Ids |-> IF j = k THEN r ELSE o(j)]
      BY Zenon DEF Recorded
    <2>2. r = v
      BY <1>1 DEF Watcher, Status
    <2> HIDE DEF r, v, o
    <2>3. QED
      BY <2>1, <2>2
  <1> HIDE DEF kept, event, rest, events, array, room
  <1>8. ASSUME NEW j \in Ids
        PROVE  /\ o(j) \in Watcher
               /\ o(j).open = watchers[j].open
               /\ o(j).done = watchers[j].done
               /\ o(j).canceled = watchers[j].canceled
               /\ o(j).loop = watchers[j].loop
               /\ o(j).buffer = watchers[j].buffer
               /\ o(j).status.error = watchers[j].status.error
               /\ o(j).status.events = kept(j)
    <2>1. watchers[j] \in Watcher /\ kept(j) \in Seq(SUBSET Nat)
      BY <1>1, <1>6
    <2>2. QED
      BY <2>1 DEF Watcher, Status
  <1>9. /\ w \in Watcher /\ w.open = watchers[k].open
        /\ w.done = watchers[k].done /\ w.canceled = watchers[k].canceled
        /\ w.loop = watchers[k].loop /\ w.buffer = rest
    BY <1>1, <1>3, <1>5 DEF Watcher
  <1> HIDE DEF w
  <1>10. /\ v \in Watcher /\ v.open = w.open /\ v.done = w.done
         /\ v.canceled = w.canceled /\ v.loop = w.loop /\ v.buffer = w.buffer
    BY <1>4, <1>9 DEF Watcher, Status, Errors
  <1>11. v.status.error = "" /\ v.status.events = events
    BY <1>9 DEF Watcher, Status
  <1> HIDE DEF v, o
  <1>12. /\ Recorded(k, n) \in [Ids -> Watcher]
         /\ Recorded(k, n)[k] = v
         /\ \A j \in Ids \ {k} : Recorded(k, n)[j] = o(j)
    BY <1>7, <1>8, <1>10
  <1>13. ASSUME NEW j \in Ids
         PROVE  /\ Recorded(k, n)[j].open = watchers[j].open
                /\ Recorded(k, n)[j].done = watchers[j].done
                /\ Recorded(k, n)[j].canceled = watchers[j].canceled
                /\ Recorded(k, n)[j].loop = watchers[j].loop
                /\ Recorded(k, n)[j].status.error = "closed" =>
                     watchers[j].status.error = "closed"
                /\ Len(Recorded(k, n)[j].status.events) <= MaxFileEventHistory
                /\ j # k => Recorded(k, n)[j].buffer = watchers[j].buffer
    <2>1. CASE j = k
      BY <1>4, <1>9, <1>10, <1>11, <1>12, <2>1
    <2>2. CASE j # k
      BY <1>6, <1>8, <1>12, <2>2
    <2>3. QED
      BY <2>1, <2>2
  <1>14. /\ Recorded(k, n)[k].buffer = rest
         /\ Recorded(k, n)[k].status.events = events
    BY <1>9, <1>10, <1>11, <1>12
  <1>15. QED
    BY <1>12, <1>13, <1>14 DEF events, rest, event

LEMMA RecordKeepsIInv ==
  ASSUME IInv, NEW k \in Ids, RecordEvent(k) \/ RecordError(k)
  PROVE  IInv'
  <1>1. /\ watchers \in [Ids -> Watcher] /\ watchers[k] \in Watcher
        /\ \A j \in Ids : Len(watchers[j].status.events) <= MaxFileEventHistory
        /\ used \in [changes : Nat, incidents : Nat, closed : BOOLEAN,
                    mixed : BOOLEAN]
        /\ skipped \subseteq Nat
    BY SMTT(30) DEF IInv, TypeOK, Watcher
  <1>2. UNCHANGED <<object, cached, stale, disabled, delayed, step, req, made,
                    current, told>>
    BY ZenonT(60) DEF RecordEvent, RecordError, api
  <1>3. crashed' \in BOOLEAN /\ queued' = TRUE
    BY DEF RecordEvent, RecordError, Unset
  <1>4. /\ watchers' \in [Ids -> Watcher]
        /\ \A j \in Ids :
             /\ watchers'[j].open = watchers[j].open
             /\ watchers'[j].done = watchers[j].done
             /\ watchers'[j].canceled = watchers[j].canceled
             /\ watchers'[j].loop = watchers[j].loop
             /\ watchers'[j].status.error = "closed" =>
                  watchers[j].status.error = "closed"
             /\ Len(watchers'[j].status.events) <= MaxFileEventHistory
    <2>1. CASE RecordEvent(k)
      <3>1. PICK n \in 1..Len(watchers[k].buffer) : watchers' = Recorded(k, n)
        BY <2>1 DEF RecordEvent
      <3>2. QED
        BY <3>1, RecordedRules
    <2>2. CASE RecordError(k)
      <3> DEFINE v == [watchers[k] EXCEPT !.failed = FALSE,
                                          !.status.error = "os"]
      <3>1. watchers' = [watchers EXCEPT ![k] = v]
        BY <1>1, <2>2 DEF RecordError
      <3>2. /\ v \in Watcher /\ v.open = watchers[k].open
            /\ v.done = watchers[k].done /\ v.canceled = watchers[k].canceled
            /\ v.loop = watchers[k].loop
        BY <1>1 DEF Watcher, Status, Errors
      <3>3. v.status.error = "os" /\ v.status.events = watchers[k].status.events
        BY <1>1 DEF Watcher, Status
      <3> HIDE DEF v
      <3>4. QED
        BY <1>1, <3>1, <3>2, <3>3
    <2>3. QED
      BY <2>1, <2>2
  <1>5. /\ skipped' \subseteq Nat
        /\ used' \in [changes : Nat, incidents : Nat, closed : BOOLEAN,
                     mixed : BOOLEAN]
        /\ used'.closed = used.closed
    <2>1. CASE RecordEvent(k)
      <3>1. PassedOver(k) \subseteq Nat
        <4> DEFINE events == watchers[k].status.events
        <4>1. events \in Seq(SUBSET Nat)
          BY <1>1 DEF Watcher, Status
        <4>2. CASE events = <<>>
          BY <4>2 DEF PassedOver
        <4>3. CASE events # <<>>
          <5>1. Len(events) \in 1..Len(events)
            BY <4>1, <4>3, EmptySeq, LenProperties
          <5>2. events[Len(events)] \in SUBSET Nat
            BY <4>1, <5>1, ElementOfSeq
          <5>3. QED
            BY <5>2 DEF PassedOver
        <4>4. QED
          BY <4>2, <4>3
      <3>2. skipped' = skipped \cup PassedOver(k)
        BY <2>1 DEF RecordEvent
      <3>3. PICK m \in BOOLEAN : used' = [used EXCEPT !.mixed = m]
        <4> DEFINE m == used.mixed \/ \E j \in Ids :
              j > k /\ watchers'[j].status.events # watchers[j].status.events
        <4>1. used' = [used EXCEPT !.mixed = m]
          BY <2>1 DEF RecordEvent
        <4>2. m \in BOOLEAN
          OBVIOUS
        <4>3. QED
          BY <4>1, <4>2
      <3>4. QED
        BY <1>1, <3>1, <3>2, <3>3
    <2>2. CASE RecordError(k)
      BY <1>1, <2>2 DEF RecordError
    <2>3. QED
      BY <2>1, <2>2
  <1>6. TypeOK'
    BY <1>1, <1>2, <1>3, <1>4, <1>5 DEF IInv, TypeOK
  <1>7. QED
    BY <1>2, <1>4, <1>5, <1>6, OtherSteps DEF Replacing

LEMMA LoopEndsKeepsIInv ==
  ASSUME IInv, NEW k \in Ids, LoopEnds(k)
  PROVE  IInv'
  <1>1. /\ watchers \in [Ids -> Watcher] /\ watchers[k] \in Watcher
        /\ watchers' = [watchers EXCEPT ![k].loop = "exiting"]
        /\ watchers[k].loop = "run"
        /\ watchers[k].canceled \/ ~watchers[k].open
    BY DEF IInv, TypeOK, LoopEnds, Running
  <1>2. UNCHANGED <<object, cached, stale, disabled, queued, delayed, step, req,
                    made, current, told, skipped, crashed, used>>
    BY DEF LoopEnds, api, engine
  <1>3. /\ watchers' \in [Ids -> Watcher]
        /\ \A j \in Ids : /\ watchers'[j].open = watchers[j].open
                          /\ watchers'[j].done = watchers[j].done
                          /\ watchers'[j].canceled = watchers[j].canceled
                          /\ watchers'[j].status = watchers[j].status
                          /\ j # k => watchers'[j].loop = watchers[j].loop
        /\ watchers'[k].loop = "exiting"
    BY <1>1 DEF Watcher
  <1>4. TypeOK'
    BY <1>2, <1>3 DEF IInv, TypeOK
  <1>5. Open' = Open
    BY <1>3 DEF Open
  <1>6. Replacing => made \in Ids
    BY IdRules DEF IInv, TypeOK, DoneIsClosed
  <1>7. OnlyOneWatch' /\ NoFalseAlarm' /\ DoneIsClosed'
    BY <1>2, <1>3, <1>5, <1>6
    DEF IInv, OnlyOneWatch, NoFalseAlarm, DoneIsClosed, Replacing, Open
  <1>8. LoopsEndDone'
    BY <1>1, <1>2, <1>3 DEF IInv, LoopsEndDone
  <1>9. QED
    BY <1>4, <1>7, <1>8 DEF IInv

LEMMA LoopCleansUpKeepsIInv ==
  ASSUME IInv, NEW k \in Ids, LoopCleansUp(k)
  PROVE  IInv'
  <1> DEFINE w == watchers[k]
             c == CleanedUp(w, w.canceled)
  <1>1. /\ watchers \in [Ids -> Watcher] /\ w \in Watcher
        /\ watchers' = [watchers EXCEPT ![k] = [c EXCEPT !.loop = "none"]]
        /\ w.loop = "exiting" /\ step = "idle" /\ queued' = TRUE
        /\ w.canceled \in BOOLEAN
    BY DEF IInv, TypeOK, LoopCleansUp, Watcher
  <1>2. UNCHANGED <<object, cached, stale, disabled, delayed, step, req, made,
                    current, told, skipped, crashed, used>>
    BY DEF LoopCleansUp, api, engine
  <1>3. w.open => ~w.done
    BY DEF IInv, DoneIsClosed, Open
  <1>4. /\ c \in Watcher /\ c.status.events = w.status.events /\ ~c.open /\ c.done
        /\ w.done => c = w
    BY <1>1, <1>3, CleanUpRules
  <1> HIDE DEF c
  <1>5. /\ watchers'[k] \in Watcher /\ watchers'[k].loop = "none"
        /\ watchers'[k].status = c.status /\ ~watchers'[k].open
        /\ watchers'[k].done
        /\ \A j \in Ids \ {k} : watchers'[j] = watchers[j]
        /\ watchers' \in [Ids -> Watcher]
    BY <1>1, <1>4 DEF Watcher
  <1>6. TypeOK'
    <2>1. \A j \in Ids : Len(watchers'[j].status.events) <= MaxFileEventHistory
      BY <1>4, <1>5 DEF IInv, TypeOK
    <2>2. QED
      BY <1>1, <1>2, <1>5, <2>1 DEF IInv, TypeOK
  <1>7. Open' \subseteq Open \ {k}
    BY <1>5 DEF Open
  <1>8. ~Replacing /\ ~Replacing' /\ step' = "idle"
    BY <1>1, <1>2 DEF Replacing
  <1>9. OnlyOneWatch' /\ DoneIsClosed'
    BY <1>2, <1>5, <1>7, <1>8 DEF IInv, OnlyOneWatch, DoneIsClosed, Open
  \* If no notifier has closed by itself the watcher was done before.
  <1>10. ~used.closed => watchers'[k].status = w.status /\ w.done
    BY <1>1, <1>4, <1>5 DEF IInv, LoopsEndDone
  <1>11. NoFalseAlarm' /\ LoopsEndDone'
    BY <1>2, <1>5, <1>8, <1>10 DEF IInv, NoFalseAlarm, LoopsEndDone
  <1>12. QED
    BY <1>6, <1>9, <1>11 DEF IInv

-----------------------------------------------------------------------------
(* Reconcile *)

\* What stopping the current watcher changes.
LEMMA StopRules ==
  ASSUME IInv
  PROVE  LET stopped == [k \in Ids |-> IF k = current
                                       THEN CleanedUp(watchers[k], FALSE)
                                       ELSE watchers[k]]
         IN /\ stopped \in [Ids -> Watcher]
            /\ \A k \in Ids :
                 /\ Len(stopped[k].status.events) <= MaxFileEventHistory
                 /\ k # current => stopped[k] = watchers[k]
                 /\ k = current => ~stopped[k].open /\ stopped[k].done
                 /\ stopped[k].loop = watchers[k].loop
  <1>1. /\ watchers \in [Ids -> Watcher]
        /\ \A k \in Ids : Len(watchers[k].status.events) <= MaxFileEventHistory
    BY DEF IInv, TypeOK
  <1>2. \A k \in Ids : watchers[k].open => ~watchers[k].done
    BY DEF IInv, DoneIsClosed, Open
  <1>3. \A k \in Ids :
          LET c == CleanedUp(watchers[k], FALSE) IN
          /\ c \in Watcher /\ c.status.events = watchers[k].status.events
          /\ ~c.open /\ c.done /\ c.loop = watchers[k].loop
    <2>1. SUFFICES ASSUME NEW k \in Ids
                   PROVE LET c == CleanedUp(watchers[k], FALSE) IN
                         /\ c \in Watcher
                         /\ c.status.events = watchers[k].status.events
                         /\ ~c.open /\ c.done /\ c.loop = watchers[k].loop
      OBVIOUS
    <2>2. watchers[k] \in Watcher /\ FALSE \in BOOLEAN
      BY <1>1
    <2>3. QED
      BY <1>2, <2>2, CleanUpRules
  <1>4. QED
    BY <1>1, <1>3

LEMMA RemoveWatchKeepsIInv ==
  ASSUME IInv, TypeOK', RemoveWatch, step = "idle", step' \in {"idle", "report"},
         UNCHANGED <<made, used>>
  PROVE  IInv'
  <1>1. /\ \A k \in Ids : /\ k # current => watchers'[k] = watchers[k]
                          /\ k = current => ~watchers'[k].open
                                            /\ watchers'[k].done
                          /\ watchers'[k].loop = watchers[k].loop
        /\ current' = 0
    BY StopRules DEF RemoveWatch
  <1>2. ~Replacing /\ ~Replacing' /\ step' # "assign"
    BY DEF Replacing
  <1>3. Open' = {}
    BY <1>1, <1>2 DEF IInv, OnlyOneWatch, Open
  <1>4. OnlyOneWatch' /\ DoneIsClosed'
    BY <1>2, <1>3 DEF OnlyOneWatch, DoneIsClosed
  <1>5. NoFalseAlarm' /\ LoopsEndDone'
    BY <1>1, <1>2, IdRules DEF IInv, NoFalseAlarm, LoopsEndDone
  <1>6. QED
    BY <1>4, <1>5 DEF IInv

LEMMA FetchKeepsIInv ==
  ASSUME IInv, Fetch
  PROVE  IInv'
  <1>1. /\ watchers \in [Ids -> Watcher] /\ cached \in Object
        /\ disabled \in BOOLEAN
        /\ current \in 0..made /\ made \in 0..MaxWatchers /\ step = "idle"
    BY DEF IInv, TypeOK, Fetch
  <1>2. UNCHANGED <<object, cached, stale, disabled, delayed, made, told, skipped, crashed,
                    used>>
        /\ queued' = FALSE
    BY DEF Fetch, api, engine
  <1>3. \/ step' = step /\ req' = req
        \/ /\ \E b, c \in BOOLEAN :
                req' = [fw |-> cached, fresh |-> b, disabled |-> disabled,
                        after |-> c]
           /\ step' \in {"report", "copy"}
    <2>1. (~stale) \in BOOLEAN
      OBVIOUS
    <2>2. (~disabled /\ ~ShouldRestart(cached.spec) /\ watchers[current].done)
            \in BOOLEAN
      OBVIOUS
    <2>3. CASE ~cached.exists
      BY <2>3 DEF Fetch
    <2>4. CASE cached.exists
      <3>1. req' = [fw |-> cached, fresh |-> ~stale, disabled |-> disabled,
                    after |-> ~disabled /\ ~ShouldRestart(cached.spec)
                                /\ watchers[current].done]
        BY <2>4 DEF Fetch
      <3>2. step' \in {"report", "copy"}
        BY <2>4 DEF Fetch
      <3>3. QED
        BY <2>1, <2>2, <3>1, <3>2
    <2>5. QED
      BY <2>3, <2>4
  <1>4. req' \in Request
    <2>1. req \in Request
      BY DEF IInv, TypeOK
    <2>2. QED
      BY <1>1, <1>3, <2>1 DEF Request
  <1>5. CASE RemoveWatch /\ step' \in {"idle", "report"}
    <2>1. /\ watchers' \in [Ids -> Watcher] /\ current' = 0
          /\ \A k \in Ids :
               Len(watchers'[k].status.events) <= MaxFileEventHistory
      BY <1>5, StopRules DEF RemoveWatch
    <2>2. 0 \in 0..made
      BY <1>1
    <2>3. TypeOK'
      BY <1>2, <1>4, <1>5, <2>1, <2>2 DEF IInv, TypeOK
    <2>4. QED
      BY <1>1, <1>2, <1>5, <2>3, RemoveWatchKeepsIInv
  <1>6. CASE /\ UNCHANGED <<watchers, current>>
             /\ step' \in {"report", "copy"}
    <2>1. TypeOK'
      BY <1>2, <1>4, <1>6 DEF IInv, TypeOK
    <2>2. ~Replacing /\ ~Replacing'
      BY <1>1, <1>6 DEF Replacing
    <2>3. QED
      BY <1>2, <1>6, <2>1, <2>2, OtherSteps
  <1>7. QED
    <2>1. \/ RemoveWatch /\ step' \in {"idle", "report"}
          \/ /\ UNCHANGED <<watchers, current>>
             /\ step' \in {"report", "copy"}
      <3>1. CASE ~cached.exists
        BY <1>1, <3>1 DEF Fetch
      <3>2. CASE cached.exists /\ disabled
        BY <3>2 DEF Fetch
      <3>3. CASE cached.exists /\ ~disabled
        BY <3>3 DEF Fetch
      <3>4. QED
        BY <3>1, <3>2, <3>3
    <2>2. QED
      BY <1>5, <1>6, <2>1

\* What is taken over is a status, and its error is a true alarm.
LEMMA InheritedRules ==
  ASSUME IInv, step = "copy"
  PROVE  /\ Inherited \in Status
         /\ Len(Inherited.events) <= MaxFileEventHistory
         /\ ~used.closed => Inherited.error # "closed"
         /\ Inherited.events = IF current = 0 THEN <<>>
                               ELSE watchers[current].status.events
  <1>1. /\ watchers \in [Ids -> Watcher] /\ req \in Request
        /\ made \in 0..MaxWatchers /\ current \in 0..made
        /\ \A k \in Ids : Len(watchers[k].status.events) <= MaxFileEventHistory
    BY DEF IInv, TypeOK
  <1>2. CASE current = 0
    <2>1. Inherited = NoStatus /\ Len(<<>>) = 0 /\ MaxFileEventHistory \in Nat
      BY <1>2, FileWatchAssumption DEF Inherited
    <2>2. Inherited.events = <<>> /\ Inherited.error = ""
      BY <2>1, FirstValues
    <2>3. Len(Inherited.events) = 0
      BY <2>1, <2>2
    <2>4. Len(Inherited.events) <= MaxFileEventHistory
      BY <2>1, <2>3
    <2>5. Inherited \in Status
      BY <2>1, FirstValues
    <2>6. QED
      BY <1>2, <2>2, <2>4, <2>5
  <1>3. CASE current # 0
    <2> DEFINE s == watchers[current].status
               e == IF watchers[current].spec = req.fw.spec THEN s.error ELSE ""
    <2>1. s \in Status /\ watchers[current] \in Watcher /\ current \in Ids
      BY <1>1, <1>3, IdRules DEF Watcher
    <2>2. Inherited = [NoStatus EXCEPT !.events = s.events, !.error = e]
      BY <1>3 DEF Inherited
    <2>3. e \in Errors /\ (e = s.error \/ e = "")
      BY <2>1 DEF Status, Errors
    <2>4. ~used.closed => s.error # "closed"
      BY <2>1 DEF IInv, NoFalseAlarm, Replacing
    <2>5. Len(s.events) <= MaxFileEventHistory
      BY <1>1, <2>1
    <2> HIDE DEF e
    <2>6. /\ Inherited \in Status /\ Inherited.events = s.events
          /\ Inherited.error = e
      BY <2>1, <2>2, <2>3, FirstValues DEF Status
    <2>7. QED
      BY <1>3, <2>3, <2>4, <2>5, <2>6
  <1>4. QED
    BY <1>2, <1>3

\* The new watcher, and that the old ones only get to share their arrays.
LEMMA CopyRules ==
  ASSUME IInv, CopyStatus
  PROVE  /\ watchers' \in [Ids -> Watcher] /\ made + 1 \in Ids
         /\ watchers'[made + 1].status = Inherited
         /\ ~watchers'[made + 1].open /\ ~watchers'[made + 1].done
         /\ watchers'[made + 1].loop = "none"
         /\ ~watchers'[made + 1].canceled
         /\ watchers'[made + 1].buffer = <<>>
         /\ \A k \in Ids \ {made + 1} :
              /\ watchers'[k].open = watchers[k].open
              /\ watchers'[k].done = watchers[k].done
              /\ watchers'[k].canceled = watchers[k].canceled
              /\ watchers'[k].loop = watchers[k].loop
              /\ watchers'[k].status = watchers[k].status
              /\ watchers'[k].buffer = watchers[k].buffer
  <1> DEFINE new == made + 1
             w == [NoWatcher EXCEPT !.spec = req.fw.spec, !.status = Inherited]
  <1>1. /\ watchers \in [Ids -> Watcher] /\ req \in Request /\ step = "copy"
        /\ made \in 0..MaxWatchers /\ current \in 0..made /\ made < MaxWatchers
    BY DEF IInv, TypeOK, CopyStatus
  <1>2. new \in Ids /\ new \in Nat /\ current # new
    BY <1>1, IdRules
  <1>3. Inherited \in Status
    BY <1>1, InheritedRules
  <1>4. /\ w \in Watcher /\ w.status = Inherited /\ ~w.open /\ ~w.done
        /\ w.loop = "none" /\ ~w.canceled /\ w.buffer = <<>>
    BY <1>1, <1>3, FirstValues DEF Watcher, Request, Object, NoWatcher
  <1> HIDE DEF new
  <1>5. CASE watchers' = [watchers EXCEPT ![new] = w]
    <2> HIDE DEF w
    <2>1. QED
      BY <1>1, <1>2, <1>4, <1>5 DEF new
  <1>6. CASE \E shared \in Arrays(current) :
               /\ current # 0
               /\ watchers' = [watchers EXCEPT
                    ![new] = [w EXCEPT !.array = shared.array,
                                       !.room = shared.room],
                    ![current].array = shared.array,
                    ![current].room = shared.room]
    <2>1. PICK shared \in Arrays(current) :
            watchers' = [watchers EXCEPT
              ![new] = [w EXCEPT !.array = shared.array, !.room = shared.room],
              ![current].array = shared.array, ![current].room = shared.room]
      BY <1>6
    <2>2. current \in Ids /\ watchers[current] \in Watcher
      BY <1>1, <1>6, IdRules
    <2>3. shared.array \in Nat /\ shared.room \in Nat
      <3>1. CASE watchers[current].array # 0
        <4>1. shared = [array |-> watchers[current].array,
                        room |-> watchers[current].room]
          BY <3>1 DEF Arrays
        <4>2. QED
          BY <2>2, <4>1 DEF Watcher
      <3>2. CASE watchers[current].array = 0
        <4>1. PICK r \in 0..Slack :
                shared = [array |-> IF r = 0 THEN 0 ELSE made + 1, room |-> r]
          BY <3>2 DEF Arrays
        <4>2. QED
          BY <1>1, <4>1, FileWatchAssumption
      <3>3. QED
        BY <3>1, <3>2
    <2> DEFINE v == [w EXCEPT !.array = shared.array, !.room = shared.room]
               u == [watchers[current] EXCEPT !.array = shared.array,
                                              !.room = shared.room]
    <2>4. watchers' = [watchers EXCEPT ![new] = v, ![current] = u]
      <3>1. watchers' = [[watchers EXCEPT ![new] = v] EXCEPT
              ![current].array = shared.array, ![current].room = shared.room]
        BY <2>1
      <3>2. [watchers EXCEPT ![new] = v][current] = watchers[current]
        BY <1>2, <2>2
      <3> HIDE DEF v
      <3>3. watchers' = [[watchers EXCEPT ![new] = v] EXCEPT ![current] = u]
        BY <1>1, <2>2, <3>1, <3>2
      <3>4. QED
        BY <3>3
    <2> HIDE DEF w
    <2>5. /\ v \in Watcher /\ v.status = Inherited /\ ~v.open /\ ~v.done
          /\ v.loop = "none" /\ ~v.canceled /\ v.buffer = <<>>
      BY <1>4, <2>3 DEF Watcher
    <2>6. /\ u \in Watcher /\ u.open = watchers[current].open
          /\ u.done = watchers[current].done
          /\ u.canceled = watchers[current].canceled
          /\ u.loop = watchers[current].loop
          /\ u.status = watchers[current].status
          /\ u.buffer = watchers[current].buffer
      BY <2>2, <2>3 DEF Watcher
    <2> HIDE DEF v, u
    <2>7. /\ watchers' \in [Ids -> Watcher] /\ watchers'[new] = v
          /\ watchers'[current] = u
          /\ \A k \in Ids \ {new, current} : watchers'[k] = watchers[k]
      BY <1>1, <1>2, <2>2, <2>4, <2>5, <2>6
    <2>8. QED
      BY <1>2, <2>5, <2>6, <2>7 DEF new
  <1>7. QED
    <2>1. Inherited.events = IF current = 0 THEN <<>>
                             ELSE watchers[current].status.events
      BY <1>1, InheritedRules
    <2>2. QED
      BY <1>5, <1>6, <2>1 DEF CopyStatus, new

LEMMA CopyStatusKeepsIInv ==
  ASSUME IInv, CopyStatus
  PROVE  IInv'
  <1> DEFINE new == made + 1
  <1>1. /\ made \in 0..MaxWatchers /\ current \in 0..made /\ made < MaxWatchers
        /\ step = "copy" /\ step' = "start" /\ made' = new
        /\ \A k \in Ids : Len(watchers[k].status.events) <= MaxFileEventHistory
    BY DEF IInv, TypeOK, CopyStatus
  <1>2. UNCHANGED <<object, cached, stale, disabled, queued, delayed, req,
                    current, told, skipped, crashed, used>>
    BY DEF CopyStatus, api, engine
  <1>3. /\ new \in Ids /\ new \in 0..MaxWatchers /\ current \in 0..new
        /\ current < new /\ current \in Ids \cup {0}
    BY <1>1, IdRules
  <1>4. ~Replacing /\ Replacing' /\ step' # "assign"
    BY <1>1 DEF Replacing
  <1>5. /\ Len(Inherited.events) <= MaxFileEventHistory
        /\ ~used.closed => Inherited.error # "closed"
    BY <1>1, InheritedRules
  <1>6. /\ watchers' \in [Ids -> Watcher] /\ watchers'[new].status = Inherited
        /\ ~watchers'[new].open /\ ~watchers'[new].done
        /\ watchers'[new].loop = "none" /\ ~watchers'[new].canceled
        /\ \A k \in Ids \ {new} :
             /\ watchers'[k].open = watchers[k].open
             /\ watchers'[k].done = watchers[k].done
             /\ watchers'[k].canceled = watchers[k].canceled
             /\ watchers'[k].loop = watchers[k].loop
             /\ watchers'[k].status = watchers[k].status
    BY CopyRules
  <1> HIDE DEF new
  <1>7. TypeOK'
    <2>1. \A k \in Ids : Len(watchers'[k].status.events) <= MaxFileEventHistory
      BY <1>1, <1>5, <1>6
    <2>2. QED
      BY <1>1, <1>2, <1>3, <1>6, <2>1 DEF IInv, TypeOK
  <1>8. Open' \subseteq Open
    BY <1>6 DEF Open
  <1>9. OnlyOneWatch'
    BY <1>2, <1>4, <1>8 DEF IInv, OnlyOneWatch
  <1>10. DoneIsClosed'
    BY <1>1, <1>2, <1>3, <1>4, <1>6, <1>8 DEF IInv, DoneIsClosed, Open
  <1>11. NoFalseAlarm' /\ LoopsEndDone'
    BY <1>2, <1>4, <1>5, <1>6 DEF IInv, NoFalseAlarm, LoopsEndDone
  <1>12. QED
    BY <1>7, <1>9, <1>10, <1>11 DEF IInv

LEMMA StartNotifyKeepsIInv ==
  ASSUME IInv, StartNotify
  PROVE  IInv'
  <1>1. /\ watchers \in [Ids -> Watcher] /\ step = "start" /\ step' = "swap"
        /\ made \in 0..MaxWatchers /\ current \in 0..made
        /\ \A k \in Ids : Len(watchers[k].status.events) <= MaxFileEventHistory
        /\ used \in [changes : Nat, incidents : Nat, closed : BOOLEAN,
                    mixed : BOOLEAN]
    BY DEF IInv, TypeOK, StartNotify
  <1>2. UNCHANGED <<object, cached, stale, disabled, queued, delayed, req, made,
                    current, told, skipped, crashed>>
    BY DEF StartNotify, api, engine
  <1>3. /\ Replacing /\ Replacing' /\ current < made /\ made \in Ids
        /\ watchers[made] \in Watcher /\ ~watchers[made].done
    BY <1>1, IdRules DEF Replacing, IInv, DoneIsClosed
  <1>4. \/ /\ used' = used
           /\ watchers' = [watchers EXCEPT ![made].open = TRUE,
                                           ![made].status.monitor = made]
        \/ /\ used' = [used EXCEPT !.incidents = @ + 1]
           /\ watchers' = [watchers EXCEPT ![made].status.error = "init"]
    BY DEF StartNotify, Happens, Use
  <1>5. /\ used' \in [changes : Nat, incidents : Nat, closed : BOOLEAN,
                    mixed : BOOLEAN]
        /\ used'.closed = used.closed
    BY <1>1, <1>4
  <1>6. /\ watchers' \in [Ids -> Watcher]
        /\ \A k \in Ids \ {made} : watchers'[k] = watchers[k]
        /\ watchers'[made].done = watchers[made].done
        /\ watchers'[made].loop = watchers[made].loop
        /\ watchers'[made].canceled = watchers[made].canceled
        /\ watchers[made].open => watchers'[made].open
        /\ watchers'[made].status.events = watchers[made].status.events
        /\ watchers'[made].status.error = "closed" =>
             watchers[made].status.error = "closed"
    <2>1. CASE watchers' = [watchers EXCEPT ![made].open = TRUE,
                                            ![made].status.monitor = made]
      <3> DEFINE w == [watchers[made] EXCEPT !.open = TRUE]
                 v == [w EXCEPT !.status.monitor = made]
      <3>1. watchers' = [watchers EXCEPT ![made] = v]
        BY <1>1, <1>3, <2>1
      <3>2. /\ w \in Watcher /\ w.done = watchers[made].done /\ w.open
            /\ w.loop = watchers[made].loop
            /\ w.canceled = watchers[made].canceled
            /\ w.status = watchers[made].status
        BY <1>3 DEF Watcher
      <3> HIDE DEF w
      <3>3. /\ v \in Watcher /\ v.done = w.done /\ v.open /\ v.loop = w.loop
            /\ v.canceled = w.canceled
        BY <1>1, <3>2 DEF Watcher, Status
      <3>4. v.status.events = w.status.events /\ v.status.error = w.status.error
        BY <3>2 DEF Watcher, Status
      <3> HIDE DEF v
      <3>5. QED
        BY <1>1, <1>3, <3>1, <3>2, <3>3, <3>4
    <2>2. CASE watchers' = [watchers EXCEPT ![made].status.error = "init"]
      <3> DEFINE v == [watchers[made] EXCEPT !.status.error = "init"]
      <3>1. watchers' = [watchers EXCEPT ![made] = v]
        BY <1>1, <1>3, <2>2
      <3>2. /\ v \in Watcher /\ v.done = watchers[made].done
            /\ v.open = watchers[made].open
            /\ v.loop = watchers[made].loop
            /\ v.canceled = watchers[made].canceled
        BY <1>3 DEF Watcher, Status, Errors
      <3>3. v.status.events = watchers[made].status.events
            /\ v.status.error = "init"
        BY <1>3 DEF Watcher, Status
      <3> HIDE DEF v
      <3>4. QED
        BY <1>1, <1>3, <3>1, <3>2, <3>3
    <2>3. QED
      BY <1>4, <2>1, <2>2
  <1>7. TypeOK'
    <2>1. \A k \in Ids : Len(watchers'[k].status.events) <= MaxFileEventHistory
      BY <1>1, <1>6
    <2>2. QED
      BY <1>1, <1>2, <1>5, <1>6, <2>1 DEF IInv, TypeOK
  <1>8. Open' \subseteq Open \cup {made}
    BY <1>6 DEF Open
  <1>9. OnlyOneWatch'
    BY <1>2, <1>3, <1>8 DEF IInv, OnlyOneWatch
  <1>10. DoneIsClosed'
    BY <1>1, <1>2, <1>3, <1>6, <1>8 DEF IInv, DoneIsClosed, Open
  <1>11. NoFalseAlarm' /\ LoopsEndDone'
    BY <1>2, <1>3, <1>5, <1>6 DEF IInv, NoFalseAlarm, LoopsEndDone
  <1>12. QED
    BY <1>7, <1>9, <1>10, <1>11 DEF IInv

LEMMA SwapKeepsIInv ==
  ASSUME IInv, Swap
  PROVE  IInv'
  <1> DEFINE started ==
        [watchers[made] EXCEPT !.loop = IF watchers[made].open THEN "run" ELSE @]
  <1>1. /\ watchers \in [Ids -> Watcher] /\ step = "swap" /\ step' = "assign"
        /\ made \in 0..MaxWatchers /\ current \in 0..made
        /\ \A k \in Ids : Len(watchers[k].status.events) <= MaxFileEventHistory
    BY DEF IInv, TypeOK, Swap
  <1>2. UNCHANGED <<object, cached, stale, disabled, queued, delayed, req, made,
                    current, told, skipped, crashed, used>>
    BY DEF Swap, api, engine
  <1>3. /\ Replacing /\ Replacing' /\ current < made /\ made \in Ids
        /\ current # made /\ watchers[made] \in Watcher /\ ~watchers[made].done
    BY <1>1, IdRules DEF Replacing, IInv, DoneIsClosed
  <1>4. watchers' = [k \in Ids |->
          IF k = made THEN started
          ELSE IF k = current THEN CleanedUp(watchers[k], FALSE)
          ELSE watchers[k]]
    BY DEF Swap
  <1>5. /\ started \in Watcher /\ started.open = watchers[made].open
        /\ started.done = watchers[made].done
        /\ started.canceled = watchers[made].canceled
        /\ started.status = watchers[made].status
        /\ \/ started.loop = watchers[made].loop
           \/ started.loop = "run" /\ started.open
    BY <1>3 DEF Watcher
  <1> HIDE DEF started
  <1>6. /\ watchers' \in [Ids -> Watcher] /\ watchers'[made] = started
        /\ \A k \in Ids \ {made} :
             /\ Len(watchers'[k].status.events) <= MaxFileEventHistory
             /\ k # current => watchers'[k] = watchers[k]
             /\ k = current => ~watchers'[k].open /\ watchers'[k].done
             /\ watchers'[k].loop = watchers[k].loop
    BY <1>3, <1>4, <1>5, StopRules
  <1>7. TypeOK'
    <2>1. \A k \in Ids : Len(watchers'[k].status.events) <= MaxFileEventHistory
      BY <1>1, <1>3, <1>5, <1>6
    <2>2. QED
      BY <1>1, <1>2, <1>6, <2>1 DEF IInv, TypeOK
  <1>8. /\ Open' \subseteq {made}
        /\ made \in Open' <=> made \in Open
    BY <1>3, <1>5, <1>6 DEF IInv, OnlyOneWatch, Open
  <1>9. OnlyOneWatch'
    BY <1>2, <1>3, <1>8 DEF OnlyOneWatch
  <1>10. DoneIsClosed'
    BY <1>2, <1>3, <1>5, <1>6, <1>8 DEF IInv, DoneIsClosed, Open
  <1>11. NoFalseAlarm'
    BY <1>2, <1>3, <1>5, <1>6 DEF IInv, NoFalseAlarm
  <1>12. LoopsEndDone'
    <2>1. \A k \in Ids \ {made} :
            k # current => watchers'[k] = watchers[k]
      BY <1>6
    <2>2. watchers'[made].canceled => watchers'[made].done
      BY <1>3, <1>5, <1>6 DEF IInv, LoopsEndDone
    <2>3. \A k \in Ids : watchers'[k].canceled => watchers'[k].done
      BY <1>6, <2>1, <2>2 DEF IInv, LoopsEndDone
    <2>4. ~used.closed =>
            /\ watchers'[made].loop = "exiting" => watchers'[made].done
            /\ watchers'[made].loop = "run" =>
                 watchers'[made].open \/ watchers'[made].done
      BY <1>3, <1>5, <1>6 DEF IInv, LoopsEndDone
    <2>5. QED
      BY <1>2, <1>6, <2>1, <2>3, <2>4 DEF IInv, LoopsEndDone
  <1>13. QED
    BY <1>7, <1>9, <1>10, <1>11, <1>12 DEF IInv

LEMMA AssignStatusKeepsIInv ==
  ASSUME IInv, AssignStatus
  PROVE  IInv'
  <1>1. /\ watchers \in [Ids -> Watcher] /\ step = "assign" /\ step' = "report"
        /\ made \in 0..MaxWatchers /\ current' = made
        /\ watchers' = watchers
        /\ \A k \in Ids : Len(watchers[k].status.events) <= MaxFileEventHistory
    BY DEF IInv, TypeOK, AssignStatus
  <1>2. UNCHANGED <<object, cached, stale, disabled, queued, delayed, req, made,
                    told, skipped, crashed, used>>
    BY DEF AssignStatus, api, engine
  <1>3. /\ Replacing /\ ~Replacing' /\ made \in Ids /\ made \in 0..made
        /\ ~watchers[made].done /\ Open \subseteq {made}
    <2>1. current \in 0..made /\ current < made
      BY <1>1 DEF IInv, TypeOK, DoneIsClosed, Replacing
    <2>2. QED
      BY <1>1, <2>1, IdRules DEF Replacing, IInv, DoneIsClosed
  <1>4. /\ watchers' \in [Ids -> Watcher]
        /\ \A k \in Ids : /\ watchers'[k].open = watchers[k].open
                          /\ watchers'[k].done = watchers[k].done
                          /\ watchers'[k].canceled = watchers[k].canceled
                          /\ watchers'[k].loop = watchers[k].loop
                          /\ watchers'[k].status = watchers[k].status
    BY <1>1
  <1>5. TypeOK'
    <2>1. \A k \in Ids : Len(watchers'[k].status.events) <= MaxFileEventHistory
      BY <1>1, <1>4
    <2>2. QED
      BY <1>1, <1>2, <1>3, <1>4, <2>1 DEF IInv, TypeOK
  <1>6. Open' = Open
    BY <1>4 DEF Open
  <1>7. OnlyOneWatch'
    BY <1>1, <1>2, <1>3, <1>6 DEF OnlyOneWatch
  <1>8. DoneIsClosed'
    BY <1>1, <1>3, <1>4, <1>6 DEF IInv, DoneIsClosed, Open
  \* The new watcher has no false alarm, and the others are done.
  <1>9. NoFalseAlarm'
    BY <1>1, <1>2, <1>3, <1>4 DEF IInv, NoFalseAlarm
  <1>10. LoopsEndDone'
    BY <1>2, <1>4 DEF IInv, LoopsEndDone
  <1>11. QED
    BY <1>5, <1>7, <1>8, <1>9, <1>10 DEF IInv

LEMMA ReportKeepsIInv ==
  ASSUME IInv, Report
  PROVE  IInv'
  <1>1. /\ object \in Object /\ req \in Request /\ step = "report"
        /\ step' = "idle" /\ req' = NoRequest
        /\ queued \in BOOLEAN /\ delayed \in BOOLEAN /\ stale \in BOOLEAN
        /\ told \subseteq Nat /\ skipped \subseteq Nat /\ watchers \in [Ids -> Watcher]
        /\ made \in 0..MaxWatchers /\ current \in 0..made
    BY DEF IInv, TypeOK, Report
  <1>2. UNCHANGED <<cached, disabled, watchers, made, current, skipped, crashed,
                    used>>
    BY DEF Report
  <1>3. Wanted \in Status
    <2> DEFINE s == IF current = 0 THEN NoStatus ELSE watchers[current].status
    <2>1. current # 0 => watchers[current] \in Watcher
      BY <1>1, IdRules
    <2>2. s \in Status
      BY <2>1, FirstValues DEF Watcher
    <2>3. Wanted = [s EXCEPT !.disabled = req.disabled]
      BY DEF Wanted
    <2> HIDE DEF s
    <2>4. req.disabled \in BOOLEAN
      BY <1>1 DEF Request
    <2>5. QED
      BY <2>2, <2>3, <2>4 DEF Status
  <1>4. ProcessStatus(Wanted) \subseteq Nat
    <2>1. Wanted.events \in Seq(SUBSET Nat)
      BY <1>3 DEF Status
    <2>2. CASE Wanted.events = <<>>
      BY <2>2 DEF ProcessStatus
    <2>3. CASE Wanted.events # <<>>
      <3>1. Len(Wanted.events) \in 1..Len(Wanted.events)
        BY <2>1, <2>3, EmptySeq, LenProperties
      <3>2. Wanted.events[Len(Wanted.events)] \in SUBSET Nat
        BY <2>1, <3>1, ElementOfSeq
      <3>3. QED
        BY <3>2 DEF ProcessStatus
    <2>4. QED
      BY <2>2, <2>3
  <1>5. /\ object' = object \/ object' = [object EXCEPT !.status = Wanted]
        /\ stale' \in {stale, TRUE} /\ queued' \in {queued, TRUE}
        /\ delayed' \in {delayed, delayed \/ req.after}
        /\ told' = told \/ told' = told \cup ProcessStatus(Wanted)
    BY DEF Report
  <1>6. /\ object' \in Object /\ stale' \in BOOLEAN /\ queued' \in BOOLEAN
        /\ delayed' \in BOOLEAN /\ told' \subseteq Nat
    <2>1. object' \in Object
      BY <1>1, <1>3, <1>5 DEF Object
    <2>2. (delayed \/ req.after) \in BOOLEAN
      OBVIOUS
    <2>3. QED
      BY <1>1, <1>4, <1>5, <2>1, <2>2
  <1>7. TypeOK'
    BY <1>1, <1>2, <1>6, FirstValues DEF IInv, TypeOK
  <1>8. QED
    BY <1>1, <1>2, <1>7, OtherSteps DEF Replacing

-----------------------------------------------------------------------------
(* The client, time, and the world *)

LEMMA ClientKeepsIInv ==
  ASSUME IInv, \/ BackoffElapses \/ RequeueAfter \/ CatchUp \/ UpdateSpec
               \/ DeleteObject \/ ToggleDisabled
  PROVE  IInv'
  <1>1. /\ object \in Object /\ req \in Request /\ disabled \in BOOLEAN
        /\ queued \in BOOLEAN /\ delayed \in BOOLEAN /\ stale \in BOOLEAN
        /\ cached \in Object /\ watchers \in [Ids -> Watcher]
        /\ made \in 0..MaxWatchers /\ current \in 0..made
        /\ used \in [changes : Nat, incidents : Nat, closed : BOOLEAN,
                    mixed : BOOLEAN]
        /\ \A k \in Ids : Len(watchers[k].status.events) <= MaxFileEventHistory
    BY DEF IInv, TypeOK
  <1>2. UNCHANGED <<step, made, current, told, skipped, crashed>>
    BY DEF BackoffElapses, RequeueAfter, CatchUp, UpdateSpec, DeleteObject,
           ToggleDisabled, Write, engine
  <1>3. /\ used' \in [changes : Nat, incidents : Nat, closed : BOOLEAN,
                    mixed : BOOLEAN]
        /\ used'.closed = used.closed
    <2>1. used' = used \/ used' = [used EXCEPT !.incidents = @ + 1]
      BY DEF BackoffElapses, RequeueAfter, CatchUp, UpdateSpec, DeleteObject,
             ToggleDisabled, Happens, Use
    <2>2. QED
      BY <1>1, <2>1
  <1>4. /\ watchers' \in [Ids -> Watcher]
        /\ \A k \in Ids : /\ watchers'[k].open = watchers[k].open
                          /\ watchers'[k].done = watchers[k].done
                          /\ watchers'[k].canceled = watchers[k].canceled
                          /\ watchers'[k].loop = watchers[k].loop
                          /\ watchers'[k].status = watchers[k].status
    <2>1. CASE BackoffElapses
      <3>1. /\ current \in Ids
            /\ watchers' = [watchers EXCEPT ![current].backingOff = FALSE]
        BY <1>1, <2>1, IdRules DEF BackoffElapses
      <3>2. QED
        BY ZenonT(60), <1>1, <3>1 DEF Watcher
    <2>2. CASE ~BackoffElapses
      <3>1. watchers' = watchers
        BY <2>2 DEF RequeueAfter, CatchUp, UpdateSpec, DeleteObject,
                    ToggleDisabled, Write
      <3>2. QED
        BY <1>1, <3>1
    <2>3. QED
      BY <2>1, <2>2
  <1>5. /\ object' \in Object /\ cached' \in Object /\ req' \in Request
        /\ stale' \in BOOLEAN /\ disabled' \in BOOLEAN /\ queued' \in BOOLEAN
        /\ delayed' \in BOOLEAN
    <2>1. CASE BackoffElapses \/ RequeueAfter
      BY <1>1, <2>1 DEF BackoffElapses, RequeueAfter, api
    <2>2. CASE CatchUp
      BY <1>1, <2>2 DEF CatchUp
    <2>3. CASE UpdateSpec
      <3>1. PICK s \in Specs : object' = [object EXCEPT !.spec = s]
        BY <2>3 DEF UpdateSpec, Write
      <3>2. object' \in Object
        BY <1>1, <3>1 DEF Object
      <3>3. /\ stale' = TRUE /\ req' = [req EXCEPT !.fresh = FALSE]
            /\ UNCHANGED <<cached, disabled, queued, delayed>>
        BY <2>3 DEF UpdateSpec, Write
      <3>4. QED
        BY <1>1, <3>2, <3>3 DEF Request
    <2>4. CASE DeleteObject
      <3>1. /\ object' = Gone /\ stale' = TRUE
            /\ req' = [req EXCEPT !.fresh = FALSE]
            /\ UNCHANGED <<cached, disabled, queued, delayed>>
        BY <2>4 DEF DeleteObject, Write
      <3>2. QED
        BY <1>1, <3>1, FirstValues DEF Request
    <2>5. CASE ToggleDisabled
      BY <1>1, <2>5 DEF ToggleDisabled
    <2>6. QED
      BY <2>1, <2>2, <2>3, <2>4, <2>5
  <1>6. TypeOK'
    <2>1. \A k \in Ids : Len(watchers'[k].status.events) <= MaxFileEventHistory
      BY <1>1, <1>4
    <2>2. QED
      BY <1>2, <1>3, <1>4, <1>5, <2>1 DEF IInv, TypeOK
  <1>7. QED
    BY <1>2, <1>3, <1>4, <1>6, OtherSteps DEF Replacing

LEMMA FilesKeepIInv ==
  ASSUME IInv, ChangeFile \/ \E k \in Ids : Fail(k)
  PROVE  IInv'
  <1>1. /\ watchers \in [Ids -> Watcher]
        /\ used \in [changes : Nat, incidents : Nat, closed : BOOLEAN,
                    mixed : BOOLEAN]
        /\ \A k \in Ids : Len(watchers[k].status.events) <= MaxFileEventHistory
    BY DEF IInv, TypeOK
  <1>2. UNCHANGED <<object, cached, stale, disabled, queued, delayed, step, req,
                    made, current, told, skipped, crashed>>
    BY DEF ChangeFile, Fail, api, engine
  <1>3. /\ used' \in [changes : Nat, incidents : Nat, closed : BOOLEAN,
                    mixed : BOOLEAN]
        /\ used'.closed = used.closed
    BY <1>1 DEF ChangeFile, Fail, Happens, Use
  <1>4. /\ watchers' \in [Ids -> Watcher]
        /\ \A k \in Ids : /\ watchers'[k].open = watchers[k].open
                          /\ watchers'[k].done = watchers[k].done
                          /\ watchers'[k].canceled = watchers[k].canceled
                          /\ watchers'[k].loop = watchers[k].loop
                          /\ watchers'[k].status = watchers[k].status
    <2>1. CASE ChangeFile
      <3> DEFINE n == used.changes + 1
      <3>1. n \in Nat
        BY <1>1
      <3>2. watchers' = [k \in Ids |-> IF k \in Open
              THEN [watchers[k] EXCEPT !.buffer = Append(@, n)]
              ELSE watchers[k]]
        BY <2>1 DEF ChangeFile
      <3> HIDE DEF n
      <3>3. SUFFICES ASSUME NEW k \in Ids
                     PROVE  /\ watchers'[k] \in Watcher
                            /\ watchers'[k].open = watchers[k].open
                            /\ watchers'[k].done = watchers[k].done
                            /\ watchers'[k].canceled = watchers[k].canceled
                            /\ watchers'[k].loop = watchers[k].loop
                            /\ watchers'[k].status = watchers[k].status
        BY <3>2
      <3>4. watchers[k] \in Watcher /\ watchers[k].buffer \in Seq(Nat)
        BY <1>1 DEF Watcher
      <3> DEFINE b == Append(watchers[k].buffer, n)
      <3>5. b \in Seq(Nat)
        BY <3>1, <3>4
      <3>6. watchers'[k] \in {watchers[k], [watchers[k] EXCEPT !.buffer = b]}
        BY <3>2
      <3> HIDE DEF b
      <3>7. QED
        BY <3>4, <3>5, <3>6 DEF Watcher
    <2>2. CASE \E k \in Ids : Fail(k)
      <3>1. PICK j \in Ids : watchers' = [watchers EXCEPT ![j].failed = TRUE]
        BY <2>2 DEF Fail
      <3>2. QED
        BY ZenonT(60), <1>1, <3>1 DEF Watcher
    <2>3. QED
      BY <2>1, <2>2
  <1>5. TypeOK'
    <2>1. \A k \in Ids : Len(watchers'[k].status.events) <= MaxFileEventHistory
      BY <1>1, <1>4
    <2>2. QED
      BY <1>2, <1>3, <1>4, <2>1 DEF IInv, TypeOK
  <1>6. QED
    BY <1>2, <1>3, <1>4, <1>5, OtherSteps DEF Replacing

LEMMA CloseByItselfKeepsIInv ==
  ASSUME IInv, NEW k \in Ids, CloseByItself(k)
  PROVE  IInv'
  <1>1. /\ watchers \in [Ids -> Watcher]
        /\ watchers' = [watchers EXCEPT ![k].open = FALSE]
        /\ used \in [changes : Nat, incidents : Nat, closed : BOOLEAN,
                    mixed : BOOLEAN]
        /\ used' = [used EXCEPT !.incidents = @ + 1, !.closed = TRUE]
        /\ \A j \in Ids : Len(watchers[j].status.events) <= MaxFileEventHistory
    BY DEF IInv, TypeOK, CloseByItself, Use
  <1>2. UNCHANGED <<object, cached, stale, disabled, queued, delayed, step, req,
                    made, current, told, skipped, crashed>>
    BY DEF CloseByItself, api, engine
  <1>3. /\ used' \in [changes : Nat, incidents : Nat, closed : BOOLEAN,
                    mixed : BOOLEAN]
        /\ used'.closed
    <2>1. used.incidents + 1 \in Nat
      BY <1>1
    <2>2. used' = [changes |-> used.changes, incidents |-> used.incidents + 1,
                   closed |-> TRUE, mixed |-> used.mixed]
      BY <1>1
    <2>3. QED
      BY <1>1, <2>1, <2>2
  <1>4. /\ watchers' \in [Ids -> Watcher]
        /\ \A j \in Ids : /\ watchers'[j].open => watchers[j].open
                          /\ watchers'[j].done = watchers[j].done
                          /\ watchers'[j].canceled = watchers[j].canceled
                          /\ watchers'[j].status = watchers[j].status
    BY ZenonT(60), <1>1 DEF Watcher
  <1>5. TypeOK'
    <2>1. \A j \in Ids : Len(watchers'[j].status.events) <= MaxFileEventHistory
      BY <1>1, <1>4
    <2>2. QED
      BY <1>2, <1>3, <1>4, <2>1 DEF IInv, TypeOK
  <1>6. Open' \subseteq Open
    BY <1>4 DEF Open
  <1>7. Replacing => made \in Ids
    BY IdRules DEF IInv, TypeOK, DoneIsClosed
  <1>8. OnlyOneWatch' /\ DoneIsClosed'
    BY <1>2, <1>4, <1>6, <1>7
    DEF IInv, OnlyOneWatch, DoneIsClosed, Replacing, Open
  <1>9. NoFalseAlarm' /\ LoopsEndDone'
    BY <1>3, <1>4 DEF IInv, NoFalseAlarm, LoopsEndDone
  <1>10. QED
    BY <1>5, <1>8, <1>9 DEF IInv

-----------------------------------------------------------------------------
\* Every step of the specification, and every step that changes nothing, keeps
\* the invariant.
LEMMA IInvIsInductive == IInv /\ [Next]_vars => IInv'
  <1>1. SUFFICES ASSUME IInv, [Next]_vars PROVE IInv'
    OBVIOUS
  <1>2. CASE Reconcile
    BY <1>1, <1>2, FetchKeepsIInv, CopyStatusKeepsIInv, StartNotifyKeepsIInv,
       SwapKeepsIInv, AssignStatusKeepsIInv, ReportKeepsIInv DEF Reconcile
  <1>3. CASE CatchUp \/ BackoffElapses \/ RequeueAfter \/ World
    BY <1>1, <1>3, ClientKeepsIInv, FilesKeepIInv, CloseByItselfKeepsIInv
    DEF World
  <1>4. CASE \E k \in Ids : Loop(k)
    BY <1>1, <1>4, RecordKeepsIInv, LoopEndsKeepsIInv, LoopCleansUpKeepsIInv
    DEF Loop
  <1>5. CASE UNCHANGED vars
    <2>1. UNCHANGED <<object, cached, stale, disabled, queued, delayed, step, req,
                      watchers, made, current, told, skipped, crashed, used>>
      BY <1>5 DEF vars, api, engine
    <2>2. TypeOK'
      BY <1>1, <2>1 DEF IInv, TypeOK
    <2>3. QED
      BY <1>1, <2>1, <2>2, OtherSteps DEF Replacing
  <1>6. QED
    BY <1>1, <1>2, <1>3, <1>4, <1>5 DEF Next

\* The types of the watchers, and the bound of the history in a status.
THEOREM FileWatchTypes == Spec => []TypeOK
  <1>1. IInv => TypeOK
    BY DEF IInv
  <1>2. QED
    BY <1>1, InitIInv, IInvIsInductive, PTL DEF Spec

\* However often a watch is replaced, disabled, deleted, closed and started
\* again, no notifier is left open but that of the current watcher.
THEOREM NoWatchIsLeaked == Spec => []OnlyOneWatch
  <1>1. IInv => OnlyOneWatch
    BY DEF IInv
  <1>2. QED
    BY <1>1, InitIInv, IInvIsInductive, PTL DEF Spec

\* The controller never takes the end of a watch that it has stopped itself for
\* an unexpected one.
THEOREM NoAlarmIsFalse == Spec => []NoFalseAlarm
  <1>1. IInv => NoFalseAlarm
    BY DEF IInv
  <1>2. QED
    BY <1>1, InitIInv, IInvIsInductive, PTL DEF Spec

-----------------------------------------------------------------------------
\* The history that is kept is a suffix of the whole one.
LEMMA TruncatedIsSuffix ==
  ASSUME NEW s \in Seq(SUBSET Nat)
  PROVE  \E off \in Nat :
           /\ Len(Truncated(s)) = Len(s) - off
           /\ DOMAIN Truncated(s) = 1..(Len(s) - off)
           /\ \A i \in 1..(Len(s) - off) : Truncated(s)[i] = s[i + off]
  <1> DEFINE off == IF Len(s) <= MaxFileEventHistory THEN 0
                    ELSE Len(s) - MaxFileEventHistory
             t == Truncated(s)
  <1>1. Len(s) \in Nat /\ MaxFileEventHistory \in Nat \ {0} /\ DOMAIN s = 1..Len(s)
    BY FileWatchAssumption, LenProperties
  <1>2. CASE Len(s) <= MaxFileEventHistory
    <2>1. t = s /\ Len(s) - 0 = Len(s) /\ \A i \in 1..Len(s) : i + 0 = i
      BY <1>1, <1>2 DEF Truncated
    <2>2. 0 \in Nat
      OBVIOUS
    <2> HIDE DEF t
    <2>3. /\ Len(t) = Len(s) - 0 /\ DOMAIN t = 1..(Len(s) - 0)
          /\ \A i \in 1..(Len(s) - 0) : t[i] = s[i + 0]
      BY <1>1, <2>1
    <2>4. QED
      BY <2>2, <2>3 DEF t
  <1>3. CASE ~(Len(s) <= MaxFileEventHistory)
    <2> DEFINE o == Len(s) - MaxFileEventHistory
    <2>1. o \in Nat /\ o + 1 \in Int /\ Len(s) \in Int /\ o + 1 <= Len(s)
      BY <1>1, <1>3
    <2>2. \A i \in (o + 1)..Len(s) : s[i] \in SUBSET Nat
      BY <1>1, <2>1, ElementOfSeq
    <2>3. t = SubSeq(s, o + 1, Len(s))
      BY <1>3 DEF Truncated
    <2>4. /\ SubSeq(s, o + 1, Len(s)) \in Seq(SUBSET Nat)
          /\ Len(SubSeq(s, o + 1, Len(s))) = Len(s) - (o + 1) + 1
          /\ \A i \in 1..(Len(s) - (o + 1) + 1) :
               SubSeq(s, o + 1, Len(s))[i] = s[(o + 1) + i - 1]
      BY <2>1, <2>2, SubSeqProperties
    <2>5. /\ Len(s) - (o + 1) + 1 = Len(s) - o
          /\ \A i \in Int : (o + 1) + i - 1 = i + o
      BY <2>1
    <2>6. t \in Seq(SUBSET Nat) /\ Len(t) = Len(s) - o
      BY <2>3, <2>4, <2>5
    <2>7. DOMAIN t = 1..(Len(s) - o)
      BY <2>6, LenProperties
    <2>8. ASSUME NEW i \in 1..(Len(s) - o) PROVE t[i] = s[i + o]
      <3>1. i \in 1..(Len(s) - (o + 1) + 1) /\ (o + 1) + i - 1 = i + o
        BY <2>1, <2>5
      <3>2. SubSeq(s, o + 1, Len(s))[i] = s[(o + 1) + i - 1]
        BY <2>4, <3>1
      <3>3. QED
        BY <2>3, <3>1, <3>2
    <2>9. QED
      BY <2>1, <2>6, <2>7, <2>8
  <1>4. QED
    BY <1>2, <1>3

\* Recording the first changes of the buffer as an event keeps the order.
LEMMA RecordingIsInOrder ==
  ASSUME NEW events \in Seq(SUBSET Nat), NEW buffer \in Seq(Nat), NEW m \in Nat,
         InOrder(events, buffer, m), NEW n \in 1..Len(buffer)
  PROVE  InOrder(Truncated(Append(events, ToSet(SubSeq(buffer, 1, n)))),
                 SubSeq(buffer, n + 1, Len(buffer)), m)
  <1> DEFINE e == ToSet(SubSeq(buffer, 1, n))
             rest == SubSeq(buffer, n + 1, Len(buffer))
             s == Append(events, e)
             t == Truncated(s)
  <1>0. /\ Len(buffer) \in Nat /\ n \in Int /\ n >= 1 /\ n <= Len(buffer)
    BY LenProperties
  <1>1. /\ Len(buffer) \in Nat /\ DOMAIN buffer = 1..Len(buffer)
        /\ Len(events) \in Nat /\ DOMAIN events = 1..Len(events)
        /\ n \in Int /\ n + 1 \in Int /\ 1 \in Int /\ Len(buffer) \in Int
        /\ n >= 1 /\ n <= Len(buffer)
    BY LenProperties
  <1>2. /\ \A i, j \in DOMAIN events :
             i < j => \A c \in events[i], d \in events[j] : c < d
        /\ \A i, j \in DOMAIN buffer : i < j => buffer[i] < buffer[j]
        /\ \A i \in DOMAIN events, j \in DOMAIN buffer :
             \A c \in events[i] : c < buffer[j]
        /\ \A i \in DOMAIN events : \A c \in events[i] : c <= m
        /\ \A j \in DOMAIN buffer : buffer[j] <= m
    BY DEF InOrder
  \* The event has the first n changes ...
  <1>3. e \in SUBSET Nat /\ \A c \in e : \E i \in 1..n : c = buffer[i]
    <2>1. \A i \in 1..n : buffer[i] \in Nat
      BY <1>1, ElementOfSeq
    <2>2. n - 1 + 1 = n /\ \A i \in 1..n : 1 + i - 1 = i
      BY <1>1
    <2>3. /\ SubSeq(buffer, 1, n) \in Seq(Nat)
          /\ Len(SubSeq(buffer, 1, n)) = n
          /\ \A i \in 1..n : SubSeq(buffer, 1, n)[i] = buffer[i]
      BY <1>1, <2>1, <2>2, SubSeqProperties
    <2>4. DOMAIN SubSeq(buffer, 1, n) = 1..n
      BY <2>3, LenProperties
    <2>5. QED
      BY <2>1, <2>3, <2>4 DEF ToSet
  \* ... and the buffer keeps the others.
  <1>4. /\ DOMAIN rest = 1..(Len(buffer) - n)
        /\ \A i \in 1..(Len(buffer) - n) : rest[i] = buffer[i + n]
    <2>1. \A i \in (n + 1)..Len(buffer) : buffer[i] \in Nat
      BY <1>1, ElementOfSeq
    <2>2. /\ (IF n + 1 <= Len(buffer) THEN Len(buffer) - (n + 1) + 1 ELSE 0)
               = Len(buffer) - n
          /\ Len(buffer) - (n + 1) + 1 = Len(buffer) - n
          /\ \A i \in Int : (n + 1) + i - 1 = i + n
      BY <1>0
    <2>3. /\ rest \in Seq(Nat)
          /\ Len(rest) = IF n + 1 <= Len(buffer)
                         THEN Len(buffer) - (n + 1) + 1 ELSE 0
          /\ \A i \in 1..(Len(buffer) - (n + 1) + 1) :
               rest[i] = buffer[(n + 1) + i - 1]
      BY <1>1, <2>1, SubSeqProperties
    <2> HIDE DEF rest
    <2>4. Len(rest) = Len(buffer) - n
      BY <2>2, <2>3
    <2>5. DOMAIN rest = 1..(Len(buffer) - n)
      BY <2>3, <2>4, LenProperties
    <2>6. ASSUME NEW i \in 1..(Len(buffer) - n) PROVE rest[i] = buffer[i + n]
      <3>1. /\ i \in 1..(Len(buffer) - (n + 1) + 1) /\ i \in Int
            /\ (n + 1) + i - 1 = i + n
        BY <1>0
      <3>2. rest[i] = buffer[(n + 1) + i - 1]
        BY <2>3, <3>1
      <3>3. QED
        BY <3>1, <3>2
    <2>7. QED
      BY <2>5, <2>6
  <1>5. /\ s \in Seq(SUBSET Nat) /\ Len(s) = Len(events) + 1
        /\ \A i \in 1..Len(events) : s[i] = events[i]
        /\ s[Len(events) + 1] = e
    BY <1>1, <1>3, AppendProperties
  <1> HIDE DEF e, rest, s
  \* With the event the history is in order and ahead of the rest.
  <1>6. ASSUME NEW i \in 1..(Len(events) + 1), NEW c \in s[i]
        PROVE  /\ c \in Nat /\ c <= m
               /\ \A j \in DOMAIN rest : c < rest[j]
               /\ \A k \in 1..(Len(events) + 1) : i < k => \A d \in s[k] : c < d
    <2>1. CASE i = Len(events) + 1
      <3>1. PICK x \in 1..n : c = buffer[x]
        BY <1>3, <1>5, <1>6, <2>1
      <3>2. x \in DOMAIN buffer /\ buffer[x] \in Nat /\ buffer[x] <= m
        <4>1. x \in DOMAIN buffer
          BY <1>1
        <4>2. QED
          BY <1>1, <1>2, <4>1, ElementOfSeq
      <3>3. ASSUME NEW j \in DOMAIN rest PROVE c < rest[j]
        <4>1. j \in 1..(Len(buffer) - n)
          BY <1>4
        <4>2. j + n \in 1..Len(buffer) /\ x < j + n
          BY <1>0, <4>1
        <4>3. rest[j] = buffer[j + n]
          BY <1>4, <4>1
        <4>4. QED
          BY <1>1, <1>2, <3>1, <3>2, <4>2, <4>3
      <3>4. \A k \in 1..(Len(events) + 1) : ~(i < k)
        BY <1>1, <2>1
      <3>5. QED
        BY <3>1, <3>2, <3>3, <3>4
    <2>2. CASE i # Len(events) + 1
      <3>1. i \in DOMAIN events /\ c \in events[i]
        <4>1. i \in 1..Len(events)
          BY <1>1, <2>2
        <4>2. QED
          BY <1>1, <1>5, <1>6, <4>1
      <3>2. c \in Nat /\ c <= m
        <4>1. events[i] \in SUBSET Nat
          BY <1>1, <3>1, ElementOfSeq
        <4>2. QED
          BY <1>2, <3>1, <4>1
      <3>3. ASSUME NEW j \in DOMAIN rest PROVE c < rest[j]
        <4>1. j \in 1..(Len(buffer) - n)
          BY <1>4
        <4>2. j + n \in 1..Len(buffer)
          BY <1>0, <4>1
        <4>3. rest[j] = buffer[j + n]
          BY <1>4, <4>1
        <4>4. QED
          BY <1>1, <1>2, <3>1, <4>2, <4>3
      <3>4. ASSUME NEW k \in 1..(Len(events) + 1), i < k, NEW d \in s[k]
            PROVE  c < d
        <4>1. CASE k = Len(events) + 1
          <5>1. PICK x \in 1..n : d = buffer[x]
            BY <1>3, <1>5, <3>4, <4>1
          <5>2. x \in DOMAIN buffer
            BY <1>1
          <5>3. QED
            BY <1>2, <3>1, <5>1, <5>2
        <4>2. CASE k # Len(events) + 1
          <5>1. k \in 1..Len(events)
            BY <1>1, <4>2
          <5>2. k \in DOMAIN events /\ d \in events[k]
            BY <1>1, <1>5, <3>4, <5>1
          <5>3. QED
            BY <1>2, <3>1, <3>4, <5>2
        <4>3. QED
          BY <4>1, <4>2
      <3>5. QED
        BY <3>2, <3>3, <3>4
    <2>3. QED
      BY <2>1, <2>2
  \* So is what is kept of it.
  <1>7. PICK off \in Nat :
          /\ DOMAIN t = 1..(Len(s) - off)
          /\ \A i \in 1..(Len(s) - off) : t[i] = s[i + off]
    BY <1>5, TruncatedIsSuffix
  <1> HIDE DEF t
  <1>8. ASSUME NEW i \in DOMAIN t
        PROVE  i + off \in 1..(Len(events) + 1) /\ t[i] = s[i + off] /\ i \in Int
    <2>1. i \in 1..(Len(s) - off) /\ Len(s) = Len(events) + 1
      BY <1>5, <1>7
    <2>2. i + off \in 1..(Len(events) + 1)
      BY <1>1, <2>1
    <2>3. QED
      BY <1>7, <2>1, <2>2
  <1>9. ASSUME NEW i \in DOMAIN t, NEW j \in DOMAIN t, i < j,
               NEW c \in t[i], NEW d \in t[j]
        PROVE  c < d
    <2>1. i + off < j + off
      BY <1>8, <1>9
    <2>2. QED
      BY <1>6, <1>8, <1>9, <2>1
  <1>10. ASSUME NEW i \in DOMAIN rest, NEW j \in DOMAIN rest, i < j
         PROVE  rest[i] < rest[j]
    <2>1. /\ i + n \in DOMAIN buffer /\ j + n \in DOMAIN buffer /\ i + n < j + n
          /\ rest[i] = buffer[i + n] /\ rest[j] = buffer[j + n]
      BY <1>1, <1>4, <1>10
    <2>2. QED
      BY <1>2, <2>1
  <1>11. ASSUME NEW j \in DOMAIN rest PROVE rest[j] <= m
    <2>1. j + n \in DOMAIN buffer /\ rest[j] = buffer[j + n]
      BY <1>1, <1>4
    <2>2. QED
      BY <1>2, <2>1
  <1>12. ASSUME NEW i \in DOMAIN t, NEW c \in t[i]
         PROVE  c <= m /\ \A j \in DOMAIN rest : c < rest[j]
    BY <1>6, <1>8, <1>12
  <1>13. InOrder(t, rest, m)
    BY <1>9, <1>10, <1>11, <1>12 DEF InOrder
  <1>14. QED
    BY <1>13 DEF t, rest, s, e

\* Steps in which no watcher records or collects anything.
LEMMA SameHistories ==
  ASSUME IInv, HistoryInv, ~crashed, NoChangeTwice', LatestInv',
         Latest' \subseteq Latest,
         used'.changes = used.changes, used'.mixed = used.mixed,
         \A k \in Ids :
           /\ watchers'[k].status.events = watchers[k].status.events
           /\ watchers'[k].buffer = watchers[k].buffer
  PROVE  HistoryInv'
  <1>1. \A k \in Latest' : k \in Latest /\ k \in Ids
    BY DEF Latest
  <1>2. QED
    BY <1>1 DEF HistoryInv

\* No step but addOrReplace makes a watcher the latest one.
LEMMA LatestStays ==
  ASSUME IInv, LatestInv,
         \/ \E k \in Ids : Loop(k)
         \/ BackoffElapses \/ RequeueAfter \/ CatchUp \/ World \/ Fetch
         \/ StartNotify \/ Swap \/ AssignStatus \/ Report
  PROVE  LatestInv' /\ Latest' \subseteq Latest /\ ~crashed
  <1>1. made \in 0..MaxWatchers /\ current \in 0..made
    BY DEF IInv, TypeOK
  <1>2. ~crashed
    BY ZenonT(60)
    DEF Loop, RecordEvent, RecordError, LoopEnds, LoopCleansUp, BackoffElapses,
        RequeueAfter, CatchUp, World, UpdateSpec, DeleteObject, ToggleDisabled,
        ChangeFile, Fail, CloseByItself, Fetch, StartNotify, Swap, AssignStatus,
        Report, Running
  <1>3. CASE /\ UNCHANGED <<made, current>> /\ (Replacing' <=> Replacing)
    BY <1>2, <1>3 DEF LatestInv, Latest
  <1>4. CASE \/ \E k \in Ids : Loop(k)
             \/ BackoffElapses \/ RequeueAfter \/ CatchUp \/ World
    <2>1. UNCHANGED <<made, current, step>>
      BY ZenonT(60), <1>4
      DEF Loop, RecordEvent, RecordError, LoopEnds, LoopCleansUp,
          BackoffElapses, RequeueAfter, CatchUp, World, UpdateSpec,
          DeleteObject, ToggleDisabled, ChangeFile, Fail, CloseByItself, Write
    <2>2. QED
      BY <1>3, <2>1 DEF Replacing
  <1>5. CASE StartNotify \/ Swap \/ Report
    <2>1. /\ UNCHANGED <<made, current>>
          /\ \/ step = "start" /\ step' = "swap"
             \/ step = "swap" /\ step' = "assign"
             \/ step = "report" /\ step' = "idle"
      BY <1>5 DEF StartNotify, Swap, Report
    <2>2. QED
      BY <1>3, <2>1 DEF Replacing
  <1>6. CASE AssignStatus
    <2>1. made' = made /\ current' = made /\ Replacing /\ ~Replacing'
      BY <1>6 DEF AssignStatus, Replacing
    <2>2. QED
      BY <1>1, <1>2, <2>1 DEF LatestInv, Latest
  <1>7. CASE Fetch
    <2>1. /\ made' = made /\ current' \in {0, current}
          /\ ~Replacing /\ ~Replacing'
      BY <1>7 DEF Fetch, RemoveWatch, Replacing
    <2>2. QED
      BY <1>2, <2>1, IdRules DEF LatestInv, Latest
  <1>8. QED
    BY <1>4, <1>5, <1>6, <1>7

\* Stopping a watcher drops nothing of either.
LEMMA CleanUpKeepsHistory ==
  ASSUME NEW w \in Watcher, NEW c \in BOOLEAN
  PROVE  /\ CleanedUp(w, c).status.events = w.status.events
         /\ CleanedUp(w, c).buffer = w.buffer
         /\ CleanedUp(w, c) \in Watcher
  <1>1. CASE w.done
    BY <1>1 DEF CleanedUp
  <1>2. CASE ~w.done
    <2> DEFINE e == IF ~c /\ w.status.error = "" THEN "closed"
                    ELSE w.status.error
               p == [w EXCEPT !.open = FALSE, !.done = TRUE, !.backingOff = TRUE,
                              !.canceled = TRUE]
    <2>1. CleanedUp(w, c) = [p EXCEPT !.status.error = e]
      BY <1>2 DEF CleanedUp
    <2>2. /\ p \in Watcher /\ p.status = w.status /\ p.buffer = w.buffer
          /\ e \in Errors
      BY DEF Watcher, Status, Errors
    <2> HIDE DEF e, p
    <2>3. CleanedUp(w, c).buffer = w.buffer
      <3>1. CleanedUp(w, c).buffer = p.buffer
        BY <2>1, <2>2 DEF Watcher
      <3>2. QED
        BY <2>2, <3>1
    <2>5. CleanedUp(w, c) \in Watcher
      <3> DEFINE st == [p.status EXCEPT !.error = e]
      <3>1. st \in Status
        BY <2>2 DEF Watcher, Status
      <3>2. CleanedUp(w, c) = [p EXCEPT !.status = st]
        BY <2>1, <2>2 DEF Watcher
      <3> HIDE DEF st
      <3>3. QED
        BY <2>2, <3>1, <3>2 DEF Watcher
    <2>4. CleanedUp(w, c).status.events = w.status.events
      BY <2>1, <2>2 DEF Watcher, Status
    <2>6. QED
      BY <2>3, <2>4, <2>5
  <1>3. QED
    BY <1>1, <1>2

\* An event goes behind those before it.  If it is written into an array that the
\* other of the two latest watchers has a slice of, too, then that one is newer.
LEMMA RecordKeepsHistory ==
  ASSUME IInv, HistoryInv, NEW k \in Ids, RecordEvent(k)
  PROVE  HistoryInv'
  <1> DEFINE b == watchers[k].buffer
             evs == watchers[k].status.events
  <1>1. /\ watchers \in [Ids -> Watcher] /\ watchers[k] \in Watcher
        /\ b \in Seq(Nat) /\ evs \in Seq(SUBSET Nat) /\ used.changes \in Nat
        /\ made \in 0..MaxWatchers /\ current \in 0..made
        /\ used \in [changes : Nat, incidents : Nat, closed : BOOLEAN,
                    mixed : BOOLEAN]
        /\ made \in Nat /\ current \in Nat /\ k \in Nat /\ k <= made
    BY IdRules DEF IInv, TypeOK, Watcher, Status, RecordEvent, Running
  <1>2. PICK n \in 1..Len(b) : watchers' = Recorded(k, n)
    BY DEF RecordEvent
  <1> DEFINE rest == SubSeq(b, n + 1, Len(b))
             events == Truncated(Append(evs, ToSet(SubSeq(b, 1, n))))
             mixes == \E j \in Ids :
               j > k /\ watchers'[j].status.events # watchers[j].status.events
  <1>3. /\ watchers'[k].buffer = rest /\ watchers'[k].status.events = events
        /\ \A j \in Ids \ {k} : watchers'[j].buffer = watchers[j].buffer
    BY <1>2, RecordedRules
  <1>4. LatestInv' /\ Latest' \subseteq Latest /\ ~crashed /\ LatestInv
    BY LatestStays DEF Loop, HistoryInv
  <1>5. /\ used' = [used EXCEPT !.mixed = @ \/ mixes]
        /\ object' = object /\ crashed' = Unset(k)
    BY ZenonT(60) DEF RecordEvent, api
  <1> HIDE DEF mixes
  <1>6. /\ used'.changes = used.changes
        /\ used'.mixed <=> (used.mixed \/ mixes)
    BY <1>1, <1>5
  <1>7. NoChangeTwice'
    BY <1>5, <1>6 DEF HistoryInv, NoChangeTwice
  <1>8. SUFFICES ASSUME ~crashed', ~used'.mixed, NEW j \in Latest'
                 PROVE  InOrder(watchers'[j].status.events,
                                watchers'[j].buffer, used.changes)
    BY <1>4, <1>6, <1>7 DEF HistoryInv
  <1>9. j \in Ids /\ j \in Latest
    BY <1>4, <1>8 DEF Latest
  <1>10. InOrder(watchers[j].status.events, watchers[j].buffer, used.changes)
    BY <1>4, <1>6, <1>8, <1>9 DEF HistoryInv
  <1>11. CASE j = k
    <2>1. InOrder(events, rest, used.changes)
      BY <1>1, <1>10, <1>11, RecordingIsInOrder
    <2>2. QED
      BY <1>3, <1>11, <2>1
  <1>12. CASE j # k
    <2>1. j > k
      <3>1. ~(Replacing /\ k = made)
        BY <1>5, <1>8 DEF Unset
      <3>2. j = current \/ (Replacing /\ j = made)
        BY <1>9 DEF Latest
      <3>3. CASE Replacing /\ j = made
        BY <1>1, <1>12, <3>3
      <3>4. CASE j = current
        <4>1. j # 0
          BY <1>9, IdRules
        <4>2. CASE Replacing
          BY <1>1, <1>4, <1>12, <3>1, <3>4, <4>1, <4>2 DEF LatestInv
        <4>3. CASE ~Replacing
          BY <1>1, <1>4, <1>12, <3>4, <4>1, <4>3 DEF LatestInv
        <4>4. QED
          BY <4>2, <4>3
      <3>5. QED
        BY <3>2, <3>3, <3>4
    <2>2. ~mixes
      BY <1>6, <1>8
    <2>3. watchers'[j].status.events = watchers[j].status.events
      BY <1>9, <2>1, <2>2 DEF mixes
    <2>4. QED
      BY <1>3, <1>9, <1>10, <1>12, <2>3
  <1>13. QED
    BY <1>11, <1>12

\* A new watcher takes over what is older than what it will see.
LEMMA CopyKeepsHistory ==
  ASSUME IInv, HistoryInv, CopyStatus
  PROVE  HistoryInv'
  <1>1. /\ watchers \in [Ids -> Watcher] /\ made + 1 \in Ids
        /\ current \in Ids \cup {0} /\ made \in Nat /\ current \in Nat
        /\ step = "copy" /\ step' = "start" /\ made' = made + 1
        /\ ~Replacing /\ Replacing' /\ ~crashed
    <2>1. /\ watchers \in [Ids -> Watcher] /\ made \in 0..MaxWatchers
          /\ current \in 0..made
      BY DEF IInv, TypeOK
    <2>2. /\ step = "copy" /\ step' = "start" /\ made' = made + 1 /\ ~crashed
          /\ made < MaxWatchers
      BY DEF CopyStatus
    <2>3. QED
      BY <2>1, <2>2, IdRules DEF Replacing
  <1>2. UNCHANGED <<object, used, current>>
    BY DEF CopyStatus, api
  <1>3. /\ watchers'[made + 1].buffer = <<>>
        /\ watchers'[made + 1].status = Inherited
        /\ \A k \in Ids \ {made + 1} :
             /\ watchers'[k].status = watchers[k].status
             /\ watchers'[k].buffer = watchers[k].buffer
    BY CopyRules
  <1>4. Inherited.events = IF current = 0 THEN <<>>
                           ELSE watchers[current].status.events
    BY <1>1, InheritedRules
  <1>5. LatestInv'
    BY <1>1, <1>2 DEF HistoryInv, LatestInv
  <1>6. current # made + 1
    BY <1>1 DEF IInv, TypeOK
  <1>7. Latest' \subseteq Latest \cup {made + 1}
    BY <1>1, <1>2 DEF Latest
  <1>8. NoChangeTwice'
    BY <1>2 DEF HistoryInv, NoChangeTwice
  <1>9. SUFFICES ASSUME ~used.mixed, NEW k \in Latest'
                 PROVE  InOrder(watchers'[k].status.events,
                                watchers'[k].buffer, used.changes)
    BY <1>2, <1>5, <1>8 DEF HistoryInv
  <1>10. \A j \in Latest :
           InOrder(watchers[j].status.events, watchers[j].buffer, used.changes)
    BY <1>1, <1>9 DEF HistoryInv
  <1>11. CASE k = made + 1
    <2>1. InOrder(<<>>, <<>>, used.changes)
      BY DEF InOrder
    <2>2. ASSUME current # 0
          PROVE  InOrder(watchers[current].status.events, <<>>, used.changes)
      <3>1. current \in Latest
        BY <1>1, <2>2 DEF Latest
      <3>2. QED
        BY <1>10, <3>1 DEF InOrder
    <2>3. QED
      BY <1>3, <1>4, <1>11, <2>1, <2>2
  <1>12. CASE k # made + 1
    <2>1. k \in Latest /\ k \in Ids
      BY <1>7, <1>9, <1>12 DEF Latest
    <2>2. QED
      BY <1>3, <1>10, <1>12, <2>1
  <1>13. QED
    BY <1>11, <1>12

\* A change comes after all that were seen before.
LEMMA ChangeKeepsHistory ==
  ASSUME IInv, HistoryInv, ChangeFile
  PROVE  HistoryInv'
  <1> DEFINE n == used.changes
  <1>1. /\ watchers \in [Ids -> Watcher] /\ n \in Nat
        /\ used' = [used EXCEPT !.changes = @ + 1] /\ object' = object
        /\ watchers' = [k \in Ids |-> IF k \in Open
             THEN [watchers[k] EXCEPT !.buffer = Append(@, n + 1)]
             ELSE watchers[k]]
    BY DEF IInv, TypeOK, ChangeFile, Use, api
  <1>2. used'.changes = n + 1 /\ used'.mixed = used.mixed
    BY <1>1 DEF IInv, TypeOK
  <1>3. ASSUME NEW k \in Ids,
               InOrder(watchers[k].status.events, watchers[k].buffer, n)
        PROVE  InOrder(watchers'[k].status.events, watchers'[k].buffer, n + 1)
    <2> DEFINE b == watchers[k].buffer
               evs == watchers[k].status.events
               c == Append(b, n + 1)
    <2>1. /\ watchers[k] \in Watcher /\ b \in Seq(Nat)
          /\ evs \in Seq(SUBSET Nat) /\ InOrder(evs, b, n)
      BY <1>1, <1>3 DEF Watcher, Status
    <2>2. /\ Len(b) \in Nat /\ DOMAIN b = 1..Len(b)
          /\ DOMAIN evs = 1..Len(evs)
          /\ \A j \in DOMAIN b : b[j] \in Nat /\ b[j] <= n
          /\ \A i \in DOMAIN evs : \A e \in evs[i] : e \in Nat /\ e <= n
      <3>1. DOMAIN b = 1..Len(b) /\ Len(b) \in Nat /\ DOMAIN evs = 1..Len(evs)
        BY <2>1, LenProperties
      <3>2. \A j \in DOMAIN b : b[j] \in Nat
        BY <2>1, <3>1, ElementOfSeq
      <3>3. \A i \in DOMAIN evs : evs[i] \in SUBSET Nat
        BY <2>1, <3>1, ElementOfSeq
      <3>4. QED
        BY <2>1, <3>1, <3>2, <3>3 DEF InOrder
    <2>3. /\ DOMAIN c = 1..(Len(b) + 1)
          /\ \A i \in DOMAIN b : c[i] = b[i]
          /\ c[Len(b) + 1] = n + 1
      <3>1. n + 1 \in Nat
        BY <1>1
      <3>2. /\ c \in Seq(Nat) /\ Len(c) = Len(b) + 1
            /\ \A i \in 1..Len(b) : c[i] = b[i] /\ c[Len(b) + 1] = n + 1
            /\ c[Len(b) + 1] = n + 1
        BY <2>1, <3>1, AppendProperties
      <3>3. DOMAIN c = 1..Len(c)
        BY <3>2, LenProperties
      <3>4. QED
        BY <2>2, <3>2, <3>3
    <2> HIDE DEF c
    <2>4. InOrder(evs, b, n + 1)
      <3>1. \A x \in Nat : x <= n => x <= n + 1
        BY <1>1
      <3>2. QED
        BY <2>1, <2>2, <3>1 DEF InOrder
    <2>5. InOrder(evs, c, n + 1)
      <3>1. \A j \in DOMAIN c : j \in DOMAIN b \/ j = Len(b) + 1
        BY <2>2, <2>3
      <3>2. ASSUME NEW i \in DOMAIN c, NEW j \in DOMAIN c, i < j
            PROVE  c[i] < c[j]
        <4>1. i \in DOMAIN b
          BY <2>2, <2>3, <3>2
        <4>2. CASE j \in DOMAIN b
          BY <2>1, <2>3, <3>2, <4>1, <4>2 DEF InOrder
        <4>3. CASE j = Len(b) + 1
          <5>1. c[i] \in Nat /\ c[i] <= n /\ c[j] = n + 1
            BY <2>2, <2>3, <4>1, <4>3
          <5>2. QED
            BY <1>1, <5>1
        <4>4. QED
          BY <3>1, <4>2, <4>3
      <3>3. ASSUME NEW i \in DOMAIN evs, NEW j \in DOMAIN c, NEW e \in evs[i]
            PROVE  e < c[j]
        <4>1. CASE j \in DOMAIN b
          BY <2>1, <2>3, <3>3, <4>1 DEF InOrder
        <4>2. CASE j = Len(b) + 1
          <5>1. e \in Nat /\ e <= n /\ c[j] = n + 1
            BY <2>2, <2>3, <3>3, <4>2
          <5>2. QED
            BY <1>1, <5>1
        <4>3. QED
          BY <3>1, <4>1, <4>2
      <3>4. ASSUME NEW j \in DOMAIN c PROVE c[j] <= n + 1
        <4>1. CASE j \in DOMAIN b
          <5>1. c[j] \in Nat /\ c[j] <= n
            BY <2>2, <2>3, <4>1
          <5>2. QED
            BY <1>1, <5>1
        <4>2. CASE j = Len(b) + 1
          BY <1>1, <2>3, <4>2
        <4>3. QED
          BY <3>1, <4>1, <4>2
      <3>5. QED
        BY <2>4, <3>2, <3>3, <3>4 DEF InOrder
    <2>6. CASE k \in Open
      <3>1. watchers'[k] = [watchers[k] EXCEPT !.buffer = c]
        BY <1>1, <2>6 DEF c
      <3>2. watchers'[k].buffer = c /\ watchers'[k].status = watchers[k].status
        BY <2>1, <3>1 DEF Watcher
      <3>3. QED
        BY <2>5, <3>2
    <2>7. CASE k \notin Open
      BY <1>1, <2>4, <2>7
    <2>8. QED
      BY <2>6, <2>7
  <1>4. NoChangeTwice'
    BY <1>1, <1>2 DEF HistoryInv, NoChangeTwice
  <1>5. LatestInv' /\ Latest' \subseteq Latest /\ ~crashed
    BY LatestStays DEF World, HistoryInv
  <1>6. \A k \in Latest' : k \in Ids /\ k \in Latest
    BY <1>5 DEF Latest
  <1>7. QED
    BY <1>2, <1>3, <1>4, <1>5, <1>6 DEF HistoryInv

\* What is reported is the history of a watcher, or none.
LEMMA ReportKeepsHistory ==
  ASSUME IInv, HistoryInv, Report
  PROVE  HistoryInv'
  <1>1. /\ object \in Object /\ watchers \in [Ids -> Watcher]
        /\ made \in 0..MaxWatchers /\ current \in 0..made
        /\ UNCHANGED <<watchers, used>>
    BY DEF IInv, TypeOK, Report
  <1>2. object' = object \/ object' = [object EXCEPT !.status = Wanted]
    BY DEF Report
  <1>3. /\ Wanted.events = IF current = 0 THEN <<>>
                           ELSE watchers[current].status.events
    <2> DEFINE s == IF current = 0 THEN NoStatus ELSE watchers[current].status
    <2>1. current # 0 => watchers[current] \in Watcher
      BY <1>1, IdRules
    <2>2. s \in Status /\ s.events = IF current = 0 THEN <<>>
                                     ELSE watchers[current].status.events
      BY <2>1, FirstValues DEF Watcher
    <2>3. Wanted = [s EXCEPT !.disabled = req.disabled]
      BY DEF Wanted
    <2> HIDE DEF s
    <2>4. QED
      BY <2>2, <2>3 DEF Status
  <1>0. LatestInv' /\ Latest' \subseteq Latest /\ ~crashed
    BY LatestStays DEF HistoryInv
  <1>4. CASE object' = object
    <2>1. NoChangeTwice'
      BY <1>1, <1>4 DEF HistoryInv, NoChangeTwice
    <2>2. QED
      BY <1>0, <1>1, <2>1, SameHistories
  <1>5. CASE object' = [object EXCEPT !.status = Wanted]
    <2>1. object'.status.events = IF current = 0 THEN <<>>
                                  ELSE watchers[current].status.events
      BY <1>1, <1>3, <1>5 DEF Object
    <2>2. NoChangeTwice'
      <3>1. CASE current = 0
        BY <2>1, <3>1 DEF NoChangeTwice
      <3>2. CASE current # 0
        <4>1. current \in Latest
          BY <1>1, <3>2, IdRules DEF Latest
        <4>2. ~used.mixed => InOrder(watchers[current].status.events,
                                     watchers[current].buffer, used.changes)
          BY <1>0, <4>1 DEF HistoryInv
        <4>3. QED
          BY <1>1, <2>1, <3>2, <4>2 DEF NoChangeTwice, InOrder
      <3>3. QED
        BY <3>1, <3>2
    <2>3. QED
      BY <1>0, <1>1, <2>2, SameHistories
  <1>6. QED
    BY <1>2, <1>4, <1>5

\* The steps of reconciliations that stop and start watchers.
LEMMA ReplacingKeepsHistory ==
  ASSUME IInv, HistoryInv, Fetch \/ StartNotify \/ Swap \/ AssignStatus
  PROVE  HistoryInv'
  <1>1. /\ watchers \in [Ids -> Watcher] /\ made \in 0..MaxWatchers
        /\ FALSE \in BOOLEAN
    BY DEF IInv, TypeOK
  <1>2. /\ used'.changes = used.changes /\ used'.mixed = used.mixed
        /\ object' = object
    <2>1. used' = used \/ used' = [used EXCEPT !.incidents = @ + 1]
      BY DEF Fetch, StartNotify, Swap, AssignStatus, Happens, Use
    <2>2. used \in [changes : Nat, incidents : Nat, closed : BOOLEAN,
                    mixed : BOOLEAN]
      BY DEF IInv, TypeOK
    <2>3. QED
      BY <2>1, <2>2 DEF Fetch, StartNotify, Swap, AssignStatus, api
  <1>3. ASSUME NEW k \in Ids
        PROVE  /\ watchers'[k].status.events = watchers[k].status.events
               /\ watchers'[k].buffer = watchers[k].buffer
    <2>1. watchers[k] \in Watcher
      BY <1>1
    <2>2. CASE watchers'[k] = watchers[k]
      BY <2>2
    <2>3. CASE watchers'[k] = CleanedUp(watchers[k], FALSE)
      BY <1>1, <2>1, <2>3, CleanUpKeepsHistory
    <2>4. CASE Fetch
      <3>1. RemoveWatch \/ watchers' = watchers
        BY <2>4 DEF Fetch
      <3>2. QED
        BY <2>2, <2>3, <3>1 DEF RemoveWatch
    <2>5. CASE StartNotify
      <3>1. CASE watchers' = [watchers EXCEPT ![made].open = TRUE,
                                              ![made].status.monitor = made]
        <4> DEFINE w == [watchers[k] EXCEPT !.open = TRUE]
                   v == [w EXCEPT !.status.monitor = made]
        <4>1. watchers'[k] \in {watchers[k], v}
          BY <1>1, <3>1
        <4>2. /\ w \in Watcher /\ w.status = watchers[k].status
              /\ w.buffer = watchers[k].buffer
          BY <2>1 DEF Watcher
        <4> HIDE DEF w
        <4>3. v.status.events = w.status.events /\ v.buffer = w.buffer
          BY <4>2 DEF Watcher, Status
        <4> HIDE DEF v
        <4>4. QED
          BY <4>1, <4>2, <4>3
      <3>2. CASE watchers' = [watchers EXCEPT ![made].status.error = "init"]
        <4>1. \/ watchers'[k] = watchers[k]
              \/ watchers'[k] = [watchers[k] EXCEPT !.status.error = "init"]
          BY <1>1, <3>2
        <4> DEFINE v == [watchers[k] EXCEPT !.status.error = "init"]
        <4>2. /\ v.status.events = watchers[k].status.events
              /\ v.buffer = watchers[k].buffer
          BY <2>1 DEF Watcher, Status
        <4> HIDE DEF v
        <4>3. QED
          BY <4>1, <4>2 DEF v
      <3>3. QED
        BY <2>5, <3>1, <3>2 DEF StartNotify
    <2>6. CASE Swap
      <3>1. \/ \E l \in {"none", "run", "exiting"} :
                 watchers'[k] = [watchers[k] EXCEPT !.loop = l]
            \/ watchers'[k] = CleanedUp(watchers[k], FALSE)
            \/ watchers'[k] = watchers[k]
        BY <2>1, <2>6 DEF Swap, Watcher
      <3>2. QED
        BY <2>1, <2>2, <2>3, <3>1 DEF Watcher
    <2>7. CASE AssignStatus
      BY <2>2, <2>7 DEF AssignStatus
    <2>8. QED
      BY <2>4, <2>5, <2>6, <2>7
  <1>4. NoChangeTwice'
    BY <1>2 DEF HistoryInv, NoChangeTwice
  <1>5. LatestInv' /\ Latest' \subseteq Latest /\ ~crashed
    BY LatestStays DEF HistoryInv
  <1>6. QED
    BY <1>2, <1>3, <1>4, <1>5, SameHistories

\* The ends of loops, the client, time and the rest of the world.
LEMMA OthersKeepHistory ==
  ASSUME IInv, HistoryInv,
         \/ \E k \in Ids : RecordError(k) \/ LoopEnds(k) \/ LoopCleansUp(k)
         \/ BackoffElapses \/ RequeueAfter \/ CatchUp \/ UpdateSpec
         \/ DeleteObject \/ ToggleDisabled
         \/ \E k \in Ids : Fail(k) \/ CloseByItself(k)
  PROVE  HistoryInv'
  <1>1. /\ watchers \in [Ids -> Watcher] /\ object \in Object
        /\ used \in [changes : Nat, incidents : Nat, closed : BOOLEAN,
                    mixed : BOOLEAN]
    BY DEF IInv, TypeOK
  <1>2. used'.changes = used.changes /\ used'.mixed = used.mixed
    <2>1. \/ used' = used \/ used' = [used EXCEPT !.incidents = @ + 1]
          \/ used' = [used EXCEPT !.incidents = @ + 1, !.closed = TRUE]
      BY ZenonT(60)
      DEF RecordError, LoopEnds, LoopCleansUp, BackoffElapses, RequeueAfter,
          CatchUp, UpdateSpec, DeleteObject, ToggleDisabled, Fail,
          CloseByItself, Happens, Use
    <2>2. QED
      BY <1>1, <2>1
  <1>3. NoChangeTwice'
    <2>1. \/ object' = object \/ object' = Gone
          \/ \E s \in Specs : object' = [object EXCEPT !.spec = s]
      BY ZenonT(60)
      DEF RecordError, LoopEnds, LoopCleansUp, BackoffElapses, RequeueAfter,
          CatchUp, UpdateSpec, DeleteObject, ToggleDisabled, Fail,
          CloseByItself, Write, api
    <2>2. Gone.status.events = <<>>
      BY FirstValues DEF Gone
    <2>3. object'.status = object.status \/ object'.status.events = <<>>
      BY <1>1, <2>1, <2>2 DEF Object
    <2>4. QED
      BY <1>2, <2>3 DEF HistoryInv, NoChangeTwice
  <1>4. ASSUME NEW j \in Ids
        PROVE  /\ watchers'[j].status.events = watchers[j].status.events
               /\ watchers'[j].buffer = watchers[j].buffer
    <2>1. watchers[j] \in Watcher /\ watchers[j].canceled \in BOOLEAN
      BY <1>1 DEF Watcher
    <2>2. CASE watchers' = watchers
      BY <2>2
    <2>3. CASE \E k \in Ids : RecordError(k)
      <3> DEFINE w == [watchers[j] EXCEPT !.failed = FALSE]
                 v == [w EXCEPT !.status.error = "os"]
      <3>1. watchers'[j] \in {watchers[j], v}
        BY <1>1, <2>3 DEF RecordError
      <3>2. /\ w \in Watcher /\ w.status = watchers[j].status
            /\ w.buffer = watchers[j].buffer
        BY <2>1 DEF Watcher
      <3> HIDE DEF w
      <3>3. v.status.events = w.status.events /\ v.buffer = w.buffer
        BY <3>2 DEF Watcher, Status
      <3> HIDE DEF v
      <3>4. QED
        BY <3>1, <3>2, <3>3
    <2>4. CASE \E k \in Ids : LoopEnds(k) \/ Fail(k) \/ CloseByItself(k)
      <3>1. PICK k \in Ids : LoopEnds(k) \/ Fail(k) \/ CloseByItself(k)
        BY <2>4
      <3>2. \/ watchers' = [watchers EXCEPT ![k].loop = "exiting"]
            \/ watchers' = [watchers EXCEPT ![k].failed = TRUE]
            \/ watchers' = [watchers EXCEPT ![k].open = FALSE]
        BY <3>1 DEF LoopEnds, Fail, CloseByItself
      <3>3. CASE watchers' = [watchers EXCEPT ![k].loop = "exiting"]
        BY <1>1, <2>1, <3>3 DEF Watcher
      <3>4. CASE watchers' = [watchers EXCEPT ![k].failed = TRUE]
        BY <1>1, <2>1, <3>4 DEF Watcher
      <3>5. CASE watchers' = [watchers EXCEPT ![k].open = FALSE]
        BY <1>1, <2>1, <3>5 DEF Watcher
      <3>6. QED
        BY <3>2, <3>3, <3>4, <3>5
    <2>5. CASE \E k \in Ids : LoopCleansUp(k)
      <3> DEFINE c == CleanedUp(watchers[j], watchers[j].canceled)
      <3>1. \/ watchers'[j] = [c EXCEPT !.loop = "none"]
            \/ watchers'[j] = watchers[j]
        BY <1>1, <2>5 DEF LoopCleansUp
      <3>2. /\ c \in Watcher /\ c.status.events = watchers[j].status.events
            /\ c.buffer = watchers[j].buffer
        BY <2>1, CleanUpKeepsHistory
      <3> HIDE DEF c
      <3>3. QED
        BY <3>1, <3>2 DEF Watcher
    <2>6. CASE BackoffElapses
      <3>1. \/ watchers'[j] = [watchers[j] EXCEPT !.backingOff = FALSE]
            \/ watchers'[j] = watchers[j]
        BY <1>1, <2>6 DEF BackoffElapses
      <3>2. QED
        BY <2>1, <3>1 DEF Watcher
    <2>7. CASE \/ RequeueAfter \/ CatchUp \/ UpdateSpec \/ DeleteObject
               \/ ToggleDisabled
      BY <2>2, <2>7 DEF RequeueAfter, CatchUp, UpdateSpec, DeleteObject,
                        ToggleDisabled, Write
    <2>8. QED
      BY <2>3, <2>4, <2>5, <2>6, <2>7
  <1>5. LatestInv' /\ Latest' \subseteq Latest /\ ~crashed
    BY LatestStays DEF HistoryInv, Loop, World
  <1>6. QED
    BY <1>2, <1>3, <1>4, <1>5, SameHistories

LEMMA HistoryIsInductive == IInv /\ HistoryInv /\ [Next]_vars => HistoryInv'
  <1>1. SUFFICES ASSUME IInv, HistoryInv, [Next]_vars PROVE HistoryInv'
    OBVIOUS
  <1>2. CASE UNCHANGED vars
    BY <1>1, <1>2 DEF HistoryInv, NoChangeTwice, LatestInv, Latest, Replacing,
                      vars, api, engine
  <1>3. CASE Reconcile
    BY <1>1, <1>3, CopyKeepsHistory, ReportKeepsHistory, ReplacingKeepsHistory
    DEF Reconcile
  <1>4. CASE CatchUp \/ BackoffElapses \/ RequeueAfter \/ World
    BY <1>1, <1>4, OthersKeepHistory, ChangeKeepsHistory DEF World
  <1>5. CASE \E k \in Ids : Loop(k)
    BY <1>1, <1>5, RecordKeepsHistory, OthersKeepHistory DEF Loop
  <1>6. QED
    BY <1>1, <1>2, <1>3, <1>4, <1>5 DEF Next

\* Whatever is merged, replaced and truncated, the object never has a change
\* twice in its history, or two in the wrong order.
THEOREM ChangesAreRecordedOnce == Spec => []NoChangeTwice
  <1>1. Init => HistoryInv
    <2>1. SUFFICES ASSUME Init PROVE HistoryInv
      OBVIOUS
    <2>2. object.status.events = <<>>
      BY <2>1, FirstValues DEF Init, Gone
    <2>3. \A k \in Ids : /\ watchers[k].status.events = <<>>
                         /\ watchers[k].buffer = <<>>
      BY <2>1 DEF Init, NoWatcher, NoStatus
    <2>4. LatestInv
      BY <2>1 DEF Init, LatestInv
    <2>5. \A k \in Latest : k \in Ids
      BY DEF Latest
    <2>6. QED
      BY <2>2, <2>3, <2>4, <2>5 DEF HistoryInv, NoChangeTwice, InOrder
  <1>2. HistoryInv => NoChangeTwice
    BY DEF HistoryInv
  <1>3. QED
    BY <1>1, <1>2, InitIInv, IInvIsInductive, HistoryIsInductive, PTL DEF Spec

=============================================================================
