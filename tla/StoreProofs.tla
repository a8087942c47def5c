----------------------------- MODULE StoreProofs ----------------------------
(***************************************************************************)
(* Proofs, for any number of producers and any budget, that the Store      *)
(* keeps its safety invariants and implements ActionStream.                *)
(***************************************************************************)
EXTENDS StoreProperties, FiniteSetTheorems, SequenceTheorems, TLAPS

-----------------------------------------------------------------------------
(* How the number of payload bytes of a batch behaves when batches are extended *)
(* and joined.  The bytes are counted for an arbitrary weight of the actions, so *)
(* that the same lemmas serve all payload and that of external dispatchers. *)

Weights == [Action -> 0..MaxPayload]

Weighed(s, w) == {ib \in (DOMAIN s) \X (1..MaxPayload) : ib[2] <= w[s[ib[1]]]}

\* The byte set of a batch is finite: it fits in the batch times the largest
\* payload.
LEMMA WeighedFinite ==
  ASSUME NEW s \in Seq(Action), NEW w \in Weights
  PROVE  /\ IsFiniteSet(Weighed(s, w))
         /\ Cardinality(Weighed(s, w)) \in Nat
<1>1. DOMAIN s = 1..Len(s) /\ Len(s) \in Nat
  BY LenProperties
<1>2. IsFiniteSet(1..Len(s)) /\ IsFiniteSet(1..MaxPayload)
  BY <1>1, FS_Interval, BudgetAssumption
<1>3. IsFiniteSet((1..Len(s)) \X (1..MaxPayload))
  BY <1>2, FS_Product
<1>4. Weighed(s, w) \in SUBSET ((1..Len(s)) \X (1..MaxPayload))
  BY <1>1 DEF Weighed
<1> QED
  BY <1>3, <1>4, FS_Subset, FS_CardinalityType

\* The empty batch has no bytes.
LEMMA WeighedEmpty ==
  ASSUME NEW w \in Weights
  PROVE  Cardinality(Weighed(<<>>, w)) = 0
<1>1. Weighed(<<>>, w) = {}
  BY DEF Weighed
<1> QED
  BY <1>1, FS_EmptySet

\* The bytes of two batches joined are those of both.
LEMMA WeighedConcat ==
  ASSUME NEW s \in Seq(Action), NEW t \in Seq(Action), NEW w \in Weights
  PROVE  Cardinality(Weighed(s \o t, w))
           = Cardinality(Weighed(s, w)) + Cardinality(Weighed(t, w))
<1> DEFINE n == Len(s)
           A == Weighed(s, w)
           B == Weighed(t, w)
           C == {ib \in Weighed(s \o t, w) : ib[1] > n}
           shift == [ib \in B |-> <<ib[1] + n, ib[2]>>]
<1>1. /\ n \in Nat /\ DOMAIN s = 1..n
      /\ Len(t) \in Nat /\ DOMAIN t = 1..Len(t)
  BY LenProperties
<1>2. /\ s \o t \in Seq(Action)
      /\ DOMAIN (s \o t) = 1..(n + Len(t))
      /\ \A i \in 1..(n + Len(t)) :
            (s \o t)[i] = IF i <= n THEN s[i] ELSE t[i - n]
  BY <1>1, ConcatProperties, LenProperties
<1>3. IsFiniteSet(A) /\ IsFiniteSet(B) /\ IsFiniteSet(Weighed(s \o t, w))
  BY <1>2, WeighedFinite
<1>4. IsFiniteSet(C)
  BY <1>3, FS_Subset
<1>5. Weighed(s \o t, w) = A \cup C
  <2>1. ASSUME NEW ib \in (1..(n + Len(t))) \X (1..MaxPayload), ib[1] <= n
        PROVE  ib \in Weighed(s \o t, w) <=> ib \in A
    BY <1>1, <1>2, <2>1 DEF Weighed
  <2>2. A \subseteq (1..(n + Len(t))) \X (1..MaxPayload)
    BY <1>1 DEF Weighed
  <2>3. \A ib \in A : ib[1] <= n
    BY <1>1 DEF Weighed
  <2>4. Weighed(s \o t, w) \subseteq (1..(n + Len(t))) \X (1..MaxPayload)
    BY <1>2 DEF Weighed
  <2>5. \A ib \in Weighed(s \o t, w) : ib[1] \in Nat
    BY <1>1, <2>4
  <2> QED
    BY <2>1, <2>2, <2>3, <2>4, <2>5, <1>1
<1>6. A \cap C = {}
  BY <1>1 DEF Weighed
<1>7. shift \in Bijection(B, C)
  <2>1. \A ib \in B : shift[ib] \in C
    BY <1>1, <1>2 DEF Weighed
  <2>2. \A x, y \in B : shift[x] = shift[y] => x = y
    BY <1>1 DEF Weighed
  <2>3. \A c \in C : \E ib \in B : shift[ib] = c
    <3>1. TAKE c \in C
    <3>2. <<c[1] - n, c[2]>> \in B
      BY <1>1, <1>2 DEF Weighed
    <3>3. shift[<<c[1] - n, c[2]>>] = <<c[1], c[2]>>
      BY <3>2, <1>1, <1>2 DEF Weighed
    <3>4. c = <<c[1], c[2]>>
      BY DEF Weighed
    <3> QED
      BY <3>2, <3>3, <3>4
  <2> QED
    BY <2>1, <2>2, <2>3 DEF Bijection, Injection, Surjection, IsInjective
<1>8. Cardinality(C) = Cardinality(B)
  BY <1>3, <1>7, FS_Bijection DEF ExistsBijection
<1>9. Cardinality(A \cup C) = Cardinality(A) + Cardinality(C)
  <2> HIDE DEF A, C
  <2>1. Cardinality(A \cap C) = 0
    BY <1>6, FS_EmptySet
  <2>2. Cardinality(A) \in Nat /\ Cardinality(C) \in Nat
    BY <1>3, <1>4, FS_CardinalityType
  <2>3. Cardinality(A \cup C)
          = Cardinality(A) + Cardinality(C) - Cardinality(A \cap C)
    BY <1>3, <1>4, FS_Union
  <2> QED
    BY <2>1, <2>2, <2>3
<1> QED
  BY <1>5, <1>8, <1>9

\* One more action adds its weight.
LEMMA WeighedAppend ==
  ASSUME NEW s \in Seq(Action), NEW a \in Action, NEW w \in Weights
  PROVE  Cardinality(Weighed(Append(s, a), w))
           = Cardinality(Weighed(s, w)) + w[a]
<1> DEFINE one == [b \in 1..w[a] |-> <<1, b>>]
<1>1. w[a] \in 0..MaxPayload /\ w[a] \in Nat
  BY BudgetAssumption DEF Weights
<1>2. <<a>> \in Seq(Action) /\ Append(s, a) = s \o <<a>>
  BY AppendIsConcat
<1>3. one \in Bijection(1..w[a], Weighed(<<a>>, w))
  <2>1. \A b \in 1..w[a] : one[b] \in Weighed(<<a>>, w)
    BY <1>1, BudgetAssumption DEF Weighed
  <2>2. \A c \in Weighed(<<a>>, w) : c[2] \in 1..w[a] /\ one[c[2]] = c
    BY <1>1 DEF Weighed
  <2>3. \A b, c \in 1..w[a] : one[b] = one[c] => b = c
    OBVIOUS
  <2> QED
    BY <2>1, <2>2, <2>3 DEF Bijection, Injection, Surjection, IsInjective
<1>4. Cardinality(Weighed(<<a>>, w)) = w[a]
  BY <1>1, <1>3, FS_CountingElements DEF ExistsBijection
<1> QED
  BY <1>2, <1>4, WeighedConcat

-----------------------------------------------------------------------------
PayloadWeight == [a \in Action |-> LogActionPayloadBytes(a)]
ExternalWeight ==
  [a \in Action |-> IF a.src # Loop THEN LogActionPayloadBytes(a) ELSE 0]

\* Both countings of the model are instances of the weighed one.
LEMMA BytesAreWeighed ==
  ASSUME NEW s \in Seq(Action)
  PROVE  /\ PayloadWeight \in Weights /\ ExternalWeight \in Weights
         /\ BytesOf(s) = Weighed(s, PayloadWeight)
         /\ BatchBytes(s) = Cardinality(Weighed(s, PayloadWeight))
         /\ ExternalBytes(s) = Cardinality(Weighed(s, ExternalWeight))
<1>1. \A a \in Action : LogActionPayloadBytes(a) \in 0..MaxPayload
  BY BudgetAssumption DEF Action, LogActionPayloadBytes
<1>2. PayloadWeight \in Weights /\ ExternalWeight \in Weights
  BY <1>1, BudgetAssumption DEF PayloadWeight, ExternalWeight, Weights
<1>3. DOMAIN s = 1..Len(s) /\ \A i \in 1..Len(s) : s[i] \in Action
  BY LenProperties, ElementOfSeq
<1>4. BytesOf(s) = Weighed(s, PayloadWeight)
  BY <1>3 DEF BytesOf, Weighed, PayloadWeight
<1>5. {ib \in BytesOf(s) : s[ib[1]].src # Loop} = Weighed(s, ExternalWeight)
  BY <1>3 DEF BytesOf, Weighed, ExternalWeight
<1> QED
  BY <1>2, <1>4, <1>5 DEF BatchBytes, ExternalBytes

\* The number of bytes of the empty batch, of an extended batch, and of two
\* batches joined.
LEMMA BatchBytesRules ==
  /\ BatchBytes(<<>>) = 0
  /\ \A s \in Seq(Action) : BatchBytes(s) \in Nat
  /\ \A s \in Seq(Action), a \in Action :
       BatchBytes(Append(s, a)) = BatchBytes(s) + LogActionPayloadBytes(a)
  /\ \A s, t \in Seq(Action) :
       BatchBytes(s \o t) = BatchBytes(s) + BatchBytes(t)
<1>1. BatchBytes(<<>>) = 0
  BY BytesAreWeighed, WeighedEmpty, EmptySeq
<1>2. \A s \in Seq(Action) : BatchBytes(s) \in Nat
  BY BytesAreWeighed, WeighedFinite
<1>3. ASSUME NEW s \in Seq(Action), NEW a \in Action
      PROVE  BatchBytes(Append(s, a))
               = BatchBytes(s) + LogActionPayloadBytes(a)
  <2>1. PayloadWeight[a] = LogActionPayloadBytes(a)
    BY DEF PayloadWeight
  <2>2. Append(s, a) \in Seq(Action)
    BY AppendProperties
  <2> QED
    BY <2>1, <2>2, BytesAreWeighed, WeighedAppend
<1>4. ASSUME NEW s \in Seq(Action), NEW t \in Seq(Action)
      PROVE  BatchBytes(s \o t) = BatchBytes(s) + BatchBytes(t)
  BY BytesAreWeighed, WeighedConcat, ConcatProperties
<1> QED
  BY <1>1, <1>2, <1>3, <1>4

\* The same for the bytes of external dispatchers, which are some of all.
LEMMA ExternalBytesRules ==
  /\ ExternalBytes(<<>>) = 0
  /\ \A s \in Seq(Action) :
       ExternalBytes(s) \in Nat /\ ExternalBytes(s) <= BatchBytes(s)
  /\ \A s \in Seq(Action), a \in Action :
       ExternalBytes(Append(s, a)) = ExternalBytes(s) +
         (IF a.src # Loop THEN LogActionPayloadBytes(a) ELSE 0)
  /\ \A s, t \in Seq(Action) :
       ExternalBytes(s \o t) = ExternalBytes(s) + ExternalBytes(t)
<1>1. ExternalBytes(<<>>) = 0
  BY BytesAreWeighed, WeighedEmpty, EmptySeq
<1>2. ASSUME NEW s \in Seq(Action)
      PROVE  ExternalBytes(s) \in Nat /\ ExternalBytes(s) <= BatchBytes(s)
  <2>1. IsFiniteSet(BytesOf(s))
    BY BytesAreWeighed, WeighedFinite
  <2> QED
    BY <2>1, FS_Subset, FS_CardinalityType DEF ExternalBytes, BatchBytes
<1>3. ASSUME NEW s \in Seq(Action), NEW a \in Action
      PROVE  ExternalBytes(Append(s, a)) = ExternalBytes(s) +
               (IF a.src # Loop THEN LogActionPayloadBytes(a) ELSE 0)
  <2>1. ExternalWeight[a] = 
            (IF a.src # Loop THEN LogActionPayloadBytes(a) ELSE 0)
    BY DEF ExternalWeight
  <2>2. Append(s, a) \in Seq(Action)
    BY AppendProperties
  <2> QED
    BY <2>1, <2>2, BytesAreWeighed, WeighedAppend
<1>4. ASSUME NEW s \in Seq(Action), NEW t \in Seq(Action)
      PROVE  ExternalBytes(s \o t) = ExternalBytes(s) + ExternalBytes(t)
  BY BytesAreWeighed, WeighedConcat, ConcatProperties
<1> QED
  BY <1>1, <1>2, <1>3, <1>4

-----------------------------------------------------------------------------
(* Invariants *)

\* Types are preserved; the release of a batch never takes more from the
\* budget than was charged for it.
LEMMA TypePreserved ==
  ASSUME TypeOK, AccountingExact, Next
  PROVE  TypeOK'
<1>1. ASSUME NEW p \in Producers, Begin(p) PROVE TypeOK'
  <2>0. Kinds[p][sent[p] + 1]
          \subseteq {"plain", "noisy", "log", "exit", "fatal", "panic"}
    <3>1. sent[p] \in Nat /\ sent[p] + 1 \in 1..Len(Kinds[p])
      BY <1>1, ModeAssumption DEF TypeOK, Begin, Threads
    <3> QED
      BY <3>1, ModeAssumption
  <2>1. PICK k \in Kinds[p][sent[p] + 1], b \in 1..MaxPayload :
          call' = [call EXCEPT ![p] = [src |-> p, n |-> sent[p] + 1, kind |-> k,
                                       bytes |-> IF k = "log" THEN b ELSE 0]]
    BY <1>1 DEF Begin
  <2>2. [src |-> p, n |-> sent[p] + 1, kind |-> k,
         bytes |-> IF k = "log" THEN b ELSE 0] \in Action
    BY <2>0, BudgetAssumption DEF TypeOK, Action, Threads
  <2>3. call' \in [Threads -> Action]
    BY <2>1, <2>2 DEF TypeOK
  <2>4. /\ pc' \in [Threads -> {"idle", "enter", "waiting", "woken", "signal",
                                "return"}]
        /\ sent' \in [Threads -> Nat]
    BY <1>1 DEF TypeOK, Begin, Threads
  <2>5. readers' \subseteq ReadLockers /\ notified' \subseteq Subscribers
    BY <1>1 DEF TypeOK, Begin
  <2> QED
    BY <1>1, <2>3, <2>4, <2>5
    DEF TypeOK, Begin, ingress, wrest, lrest, env
<1>2. ASSUME NEW t \in Threads, DispatchWait(t) PROVE TypeOK'
  BY <1>2 DEF TypeOK, Threads, ingress, locks, wrest, lrest, drest, env,
      DispatchWait
<1>3. ASSUME NEW t \in Threads, DispatchDrop(t) PROVE TypeOK'
  BY <1>3 DEF TypeOK, Threads, ingress, locks, wrest, lrest, drest, env,
      DispatchDrop
<1>4. ASSUME NEW t \in Threads, DispatchAccept(t) PROVE TypeOK'
  <2>1. LogActionPayloadBytes(call[t]) \in Nat /\ call[t] \in Action
    BY BudgetAssumption DEF TypeOK, Action, LogActionPayloadBytes
  <2>2. actionQueue' \in Seq(Action) /\ queuedLogBytes' \in Nat
    BY <1>4, <2>1, AppendProperties DEF TypeOK, DispatchAccept
  <2>3. pc' \in [Threads -> {"idle", "enter", "waiting", "woken", "signal",
                             "return"}]
    BY <1>4 DEF TypeOK, DispatchAccept
  <2> QED
    BY <1>4, <2>2, <2>3
    DEF TypeOK, DispatchAccept, StartWorker, locks, wrest, lrest, drest, env
<1>5. ASSUME NEW t \in Threads, DispatchSignal(t) PROVE TypeOK'
  BY <1>5 DEF TypeOK, Threads, ingress, locks, wrest, lrest, drest,
      DispatchSignal
<1>6. ASSUME NEW t \in Threads, Return(t) PROVE TypeOK'
  <2>1. NoAction \in Action
    BY BudgetAssumption DEF NoAction, Action, Threads
  <2>2. /\ pc' \in [Threads -> {"idle", "enter", "waiting", "woken", "signal",
                                "return"}]
        /\ call' \in [Threads -> Action]
    BY <1>6, <2>1 DEF TypeOK, Return
  <2> QED
    BY <1>6, <2>2 DEF TypeOK, Return, ingress, wrest, lrest, env
<1>7. ASSUME Close PROVE TypeOK'
  BY <1>7 DEF TypeOK, Threads, locks, wrest, lrest, drest, Close, StartWorker,
      WakeAll
<1>8. ASSUME CloseSignal PROVE TypeOK'
  BY <1>8 DEF TypeOK, Threads, ingress, locks, wrest, lrest, drest, CloseSignal
<1>9. ASSUME CancelContext PROVE TypeOK'
  BY <1>9 DEF TypeOK, Threads, ingress, locks, wrest, lrest, drest,
      CancelContext
<1>10. ASSUME WorkerWake PROVE TypeOK'
  <2>1. actionReady' \in BOOLEAN
    BY <1>10 DEF WorkerWake
  <2> QED
    BY <1>10, <2>1 DEF TypeOK, WorkerWake, ingress, locks, wrest, lrest, drest
<1>11. ASSUME WorkerSlept PROVE TypeOK'
  BY <1>11 DEF TypeOK, Threads, ingress, locks, wrest, lrest, drest, env,
      WorkerSlept
<1>12. ASSUME WorkerQuit PROVE TypeOK'
  BY <1>12 DEF TypeOK, Threads, ingress, locks, wrest, lrest, drest, env,
      WorkerQuit
<1>13. ASSUME WorkerTake PROVE TypeOK'
  BY <1>13 DEF TypeOK, Threads, locks, lrest, drest, env, WorkerTake
<1>14. ASSUME HandOff PROVE TypeOK'
  BY <1>14 DEF TypeOK, Threads, ingress, locks, drest, env, HandOff
<1>15. ASSUME WorkerRecheck PROVE TypeOK'
  BY <1>15 DEF TypeOK, Threads, ingress, locks, wrest, lrest, drest, env,
      WorkerRecheck
<1>16. ASSUME SetUp PROVE TypeOK'
  BY <1>16 DEF TypeOK, Threads, ingress, locks, wrest, drest, env, SetUp
<1>17. ASSUME LoopContextDone PROVE TypeOK'
  BY <1>17 DEF TypeOK, Threads, ingress, locks, wrest, drest, env,
      LoopContextDone, Leave
<1>18. ASSUME LoopClosed PROVE TypeOK'
  BY <1>18 DEF TypeOK, Threads, ingress, locks, wrest, drest, env, LoopClosed,
      Leave
<1>19. ASSUME ReleaseQueuedLogBytes PROVE TypeOK'
  <2>1. queuedLogBytes' \in Nat
    <3>1. workerBatch \o actionQueue \in Seq(Action)
      BY ConcatProperties DEF TypeOK
    <3>2. Charged = loopBatch \o (workerBatch \o actionQueue)
      BY <1>19 DEF ReleaseQueuedLogBytes, Charged, Pending
    <3>3. BatchBytes(Charged)
            = BatchBytes(loopBatch) + BatchBytes(workerBatch \o actionQueue)
      BY <3>1, <3>2, BatchBytesRules DEF TypeOK
    <3>4. /\ BatchBytes(loopBatch) \in Nat
          /\ BatchBytes(workerBatch \o actionQueue) \in Nat
      BY <3>1, BatchBytesRules DEF TypeOK
    <3>5. queuedLogBytes' = BatchBytes(Charged) - BatchBytes(loopBatch)
      BY <1>19 DEF ReleaseQueuedLogBytes, AccountingExact
    <3> QED
      BY <3>3, <3>4, <3>5
  <2>2. pc' \in [Threads -> {"idle", "enter", "waiting", "woken", "signal",
                             "return"}]
    BY <1>19 DEF TypeOK, ReleaseQueuedLogBytes, WakeAll
  <2> QED
    BY <1>19, <2>1, <2>2
    DEF TypeOK, ReleaseQueuedLogBytes, locks, wrest, lrest, drest, env
<1>20. ASSUME LoopLock PROVE TypeOK'
  BY <1>20 DEF TypeOK, Threads, ingress, locks, wrest, lrest, drest, env,
      LoopLock
<1>21. ASSUME LoopLocked PROVE TypeOK'
  BY <1>21 DEF TypeOK, Threads, ingress, wrest, lrest, drest, env, LoopLocked
<1>22. ASSUME Reduce PROVE TypeOK'
  <2>1. /\ loopBatch' \in Seq(Action) /\ reduced' \in Seq(Action)
    BY <1>22, HeadTailProperties, AppendProperties DEF TypeOK, Reduce
  <2>2. /\ pc' \in [Threads -> {"idle", "enter", "waiting", "woken", "signal",
                                "return"}]
        /\ sent' \in [Threads -> Nat]
    BY <1>22 DEF TypeOK, Reduce, Threads
  <2>3. \A n \in Nat, b \in 1..MaxPayload :
          [src |-> Loop, n |-> n, kind |-> "log", bytes |-> b] \in Action
    BY BudgetAssumption DEF Action, Threads
  <2>4. sent[Loop] + 1 \in Nat
    BY DEF TypeOK, Threads
  <2>5. call' \in [Threads -> Action]
    <3>1. CASE UNCHANGED call
      BY <3>1 DEF TypeOK
    <3>2. CASE \E b \in 1..MaxPayload :
                 call' = [call EXCEPT ![Loop] =
                   [src |-> Loop, n |-> sent[Loop] + 1, kind |-> "log",
                    bytes |-> b]]
      <4>1. PICK b \in 1..MaxPayload :
                 call' = [call EXCEPT ![Loop] =
                   [src |-> Loop, n |-> sent[Loop] + 1, kind |-> "log",
                    bytes |-> b]]
        BY <3>2
      <4>2. [src |-> Loop, n |-> sent[Loop] + 1, kind |-> "log",
             bytes |-> b] \in Action
        BY <2>3, <2>4
      <4> QED
        BY <4>1, <4>2 DEF TypeOK
    <3> QED
      BY <1>22, <3>1, <3>2 DEF Reduce
  <2>6. exits' \subseteq {"UserExited", "FatalError"}
    BY <1>22 DEF TypeOK, Reduce
  <2>7. /\ result' \in {"none", "setup", "context", "closed", "exited",
                         "fatal", "panic"}
        /\ loop' \in {"setup", "select", "release", "lock", "locking",
                       "reduce", "finish", "stop", "cancel", "teardown",
                       "returned"}
        /\ writeLocked' \in BOOLEAN
    BY <1>22 DEF TypeOK, Reduce, Leave
  <2> QED
    BY <1>22, <2>1, <2>2, <2>5, <2>6, <2>7 DEF TypeOK, Reduce, ingress, wrest, env
<1>23. ASSUME LoopUnlock PROVE TypeOK'
  <2>1. writeLocked' \in BOOLEAN
    BY <1>23 DEF LoopUnlock
  <2> QED
    BY <1>23, <2>1 DEF TypeOK, LoopUnlock, ingress, wrest, lrest, drest, env
<1>24. ASSUME LoopFinish PROVE TypeOK'
  BY <1>24 DEF TypeOK, Threads, ingress, locks, wrest, env, LoopFinish, Leave
<1>25. ASSUME StopDrainWorker PROVE TypeOK'
  BY <1>25 DEF TypeOK, Threads, locks, wrest, lrest, drest, env,
      StopDrainWorker, WakeAll
<1>26. ASSUME CancelWorker PROVE TypeOK'
  BY <1>26 DEF TypeOK, Threads, ingress, locks, wrest, lrest, drest, env,
      CancelWorker
<1>27. ASSUME LoopReturn PROVE TypeOK'
  BY <1>27 DEF TypeOK, Threads, ingress, locks, wrest, lrest, drest, env,
      LoopReturn
<1>28. ASSUME NEW p \in Subscribers, TearDown(p) PROVE TypeOK'
  BY <1>28 DEF TypeOK, Threads, ingress, locks, wrest, drest, env, TearDown
<1> QED
  BY <1>1, <1>2, <1>3, <1>4, <1>5, <1>6, <1>7, <1>8, <1>9, <1>10, <1>11, <1>12,
     <1>13, <1>14, <1>15, <1>16, <1>17, <1>18, <1>19, <1>20, <1>21, <1>22,
     <1>23, <1>24, <1>25, <1>26, <1>27, <1>28 DEF Next, DispatchStep,
     WorkerStep, LoopStep

\* The worker and its batch: what it has taken and not handed over.
LEMMA WorkerShapePreserved ==
  ASSUME TypeOK, WorkerShape, Next
  PROVE  WorkerShape'
<1>1. ASSUME NEW p \in Producers, Begin(p) PROVE WorkerShape'
  BY <1>1 DEF WorkerShape, ingress, wrest, Begin
<1>2. ASSUME NEW t \in Threads, DispatchWait(t) PROVE WorkerShape'
  BY <1>2 DEF WorkerShape, ingress, wrest, DispatchWait
<1>3. ASSUME NEW t \in Threads, DispatchDrop(t) PROVE WorkerShape'
  BY <1>3 DEF WorkerShape, ingress, wrest, DispatchDrop
<1>4. ASSUME NEW t \in Threads, DispatchAccept(t) PROVE WorkerShape'
  BY <1>4 DEF WorkerShape, wrest, DispatchAccept, StartWorker
<1>5. ASSUME NEW t \in Threads, DispatchSignal(t) PROVE WorkerShape'
  BY <1>5 DEF WorkerShape, ingress, wrest, DispatchSignal
<1>6. ASSUME NEW t \in Threads, Return(t) PROVE WorkerShape'
  BY <1>6 DEF WorkerShape, ingress, wrest, Return
<1>7. ASSUME Close PROVE WorkerShape'
  BY <1>7 DEF WorkerShape, wrest, Close, StartWorker, WakeAll
<1>8. ASSUME CloseSignal PROVE WorkerShape'
  BY <1>8 DEF WorkerShape, ingress, wrest, CloseSignal
<1>9. ASSUME CancelContext PROVE WorkerShape'
  BY <1>9 DEF WorkerShape, ingress, wrest, CancelContext
<1>10. ASSUME WorkerWake PROVE WorkerShape'
  BY <1>10 DEF WorkerShape, ingress, wrest, WorkerWake
<1>11. ASSUME WorkerSlept PROVE WorkerShape'
  BY <1>11 DEF WorkerShape, ingress, wrest, WorkerSlept
<1>12. ASSUME WorkerQuit PROVE WorkerShape'
  BY <1>12 DEF WorkerShape, ingress, wrest, WorkerQuit
<1>13. ASSUME WorkerTake PROVE WorkerShape'
  BY <1>13 DEF WorkerShape, WorkerTake
<1>14. ASSUME HandOff PROVE WorkerShape'
  BY <1>14 DEF WorkerShape, ingress, HandOff
<1>15. ASSUME WorkerRecheck PROVE WorkerShape'
  BY <1>15 DEF WorkerShape, ingress, wrest, WorkerRecheck
<1>16. ASSUME SetUp PROVE WorkerShape'
  BY <1>16 DEF WorkerShape, ingress, wrest, SetUp
<1>17. ASSUME LoopContextDone PROVE WorkerShape'
  BY <1>17 DEF WorkerShape, ingress, wrest, LoopContextDone, Leave
<1>18. ASSUME LoopClosed PROVE WorkerShape'
  BY <1>18 DEF WorkerShape, ingress, wrest, LoopClosed, Leave
<1>19. ASSUME ReleaseQueuedLogBytes PROVE WorkerShape'
  BY <1>19 DEF WorkerShape, wrest, ReleaseQueuedLogBytes, WakeAll
<1>20. ASSUME LoopLock PROVE WorkerShape'
  BY <1>20 DEF WorkerShape, ingress, wrest, LoopLock
<1>21. ASSUME LoopLocked PROVE WorkerShape'
  BY <1>21 DEF WorkerShape, ingress, wrest, LoopLocked
<1>22. ASSUME Reduce PROVE WorkerShape'
  BY <1>22 DEF WorkerShape, ingress, wrest, Reduce, Leave
<1>23. ASSUME LoopUnlock PROVE WorkerShape'
  BY <1>23 DEF WorkerShape, ingress, wrest, LoopUnlock
<1>24. ASSUME LoopFinish PROVE WorkerShape'
  BY <1>24 DEF WorkerShape, ingress, wrest, LoopFinish, Leave
<1>25. ASSUME StopDrainWorker PROVE WorkerShape'
  BY <1>25 DEF WorkerShape, wrest, StopDrainWorker, WakeAll
<1>26. ASSUME CancelWorker PROVE WorkerShape'
  BY <1>26 DEF WorkerShape, ingress, wrest, CancelWorker
<1>27. ASSUME LoopReturn PROVE WorkerShape'
  BY <1>27 DEF WorkerShape, ingress, wrest, LoopReturn
<1>28. ASSUME NEW p \in Subscribers, TearDown(p) PROVE WorkerShape'
  BY <1>28 DEF WorkerShape, ingress, wrest, TearDown
<1> QED
  BY <1>1, <1>2, <1>3, <1>4, <1>5, <1>6, <1>7, <1>8, <1>9, <1>10, <1>11, <1>12,
     <1>13, <1>14, <1>15, <1>16, <1>17, <1>18, <1>19, <1>20, <1>21, <1>22,
     <1>23, <1>24, <1>25, <1>26, <1>27, <1>28 DEF Next, DispatchStep,
     WorkerStep, LoopStep

\* The loop and its batch; its own thread only ever dispatches as itself.
LEMMA LoopShapePreserved ==
  ASSUME TypeOK, LoopShape, Next
  PROVE  LoopShape'
<1>1. ASSUME NEW p \in Producers, Begin(p) PROVE LoopShape'
  BY <1>1 DEF LoopShape, TypeOK, Threads, lrest, Begin
<1>2. ASSUME NEW t \in Threads, DispatchWait(t) PROVE LoopShape'
  BY <1>2 DEF LoopShape, TypeOK, Threads, lrest, drest, DispatchWait
<1>3. ASSUME NEW t \in Threads, DispatchDrop(t) PROVE LoopShape'
  BY <1>3 DEF LoopShape, TypeOK, Threads, lrest, drest, DispatchDrop
<1>4. ASSUME NEW t \in Threads, DispatchAccept(t) PROVE LoopShape'
  BY <1>4 DEF LoopShape, TypeOK, Threads, lrest, drest, DispatchAccept,
      StartWorker
<1>5. ASSUME NEW t \in Threads, DispatchSignal(t) PROVE LoopShape'
  BY <1>5 DEF LoopShape, TypeOK, Threads, lrest, drest, DispatchSignal
<1>6. ASSUME NEW t \in Threads, Return(t) PROVE LoopShape'
  BY <1>6 DEF LoopShape, Return, NoAction, TypeOK, Threads, lrest
<1>7. ASSUME Close PROVE LoopShape'
  BY <1>7 DEF LoopShape, TypeOK, Threads, lrest, drest, Close, StartWorker,
      WakeAll
<1>8. ASSUME CloseSignal PROVE LoopShape'
  BY <1>8 DEF LoopShape, TypeOK, Threads, lrest, drest, CloseSignal
<1>9. ASSUME CancelContext PROVE LoopShape'
  BY <1>9 DEF LoopShape, TypeOK, Threads, lrest, drest, CancelContext
<1>10. ASSUME WorkerWake PROVE LoopShape'
  BY <1>10 DEF LoopShape, TypeOK, Threads, lrest, drest, WorkerWake
<1>11. ASSUME WorkerSlept PROVE LoopShape'
  BY <1>11 DEF LoopShape, TypeOK, Threads, lrest, drest, WorkerSlept
<1>12. ASSUME WorkerQuit PROVE LoopShape'
  BY <1>12 DEF LoopShape, TypeOK, Threads, lrest, drest, WorkerQuit
<1>13. ASSUME WorkerTake PROVE LoopShape'
  BY <1>13 DEF LoopShape, TypeOK, Threads, lrest, drest, WorkerTake
<1>14. ASSUME HandOff PROVE LoopShape'
  BY <1>14 DEF LoopShape, TypeOK, Threads, drest, HandOff
<1>15. ASSUME WorkerRecheck PROVE LoopShape'
  BY <1>15 DEF LoopShape, TypeOK, Threads, lrest, drest, WorkerRecheck
<1>16. ASSUME SetUp PROVE LoopShape'
  BY <1>16 DEF LoopShape, TypeOK, Threads, drest, SetUp
<1>17. ASSUME LoopContextDone PROVE LoopShape'
  BY <1>17 DEF LoopShape, TypeOK, Threads, drest, LoopContextDone, Leave
<1>18. ASSUME LoopClosed PROVE LoopShape'
  BY <1>18 DEF LoopShape, TypeOK, Threads, drest, LoopClosed, Leave
<1>19. ASSUME ReleaseQueuedLogBytes PROVE LoopShape'
  BY <1>19 DEF LoopShape, TypeOK, Threads, lrest, drest, ReleaseQueuedLogBytes,
      WakeAll
<1>20. ASSUME LoopLock PROVE LoopShape'
  BY <1>20 DEF LoopShape, TypeOK, Threads, lrest, drest, LoopLock
<1>21. ASSUME LoopLocked PROVE LoopShape'
  BY <1>21 DEF LoopShape, TypeOK, Threads, lrest, drest, LoopLocked
<1>22. ASSUME Reduce PROVE LoopShape'
  BY SMTT(30), <1>22 DEF LoopShape, TypeOK, Threads, Reduce, Leave
<1>23. ASSUME LoopUnlock PROVE LoopShape'
  BY <1>23 DEF LoopShape, TypeOK, Threads, lrest, drest, LoopUnlock
<1>24. ASSUME LoopFinish PROVE LoopShape'
  BY <1>24 DEF LoopShape, TypeOK, Threads, LoopFinish, Leave
<1>25. ASSUME StopDrainWorker PROVE LoopShape'
  BY <1>25 DEF LoopShape, TypeOK, Threads, lrest, drest, StopDrainWorker,
      WakeAll
<1>26. ASSUME CancelWorker PROVE LoopShape'
  BY <1>26 DEF LoopShape, TypeOK, Threads, lrest, drest, CancelWorker
<1>27. ASSUME LoopReturn PROVE LoopShape'
  BY <1>27 DEF LoopShape, TypeOK, Threads, lrest, drest, LoopReturn
<1>28. ASSUME NEW p \in Subscribers, TearDown(p) PROVE LoopShape'
  BY <1>28 DEF LoopShape, TypeOK, Threads, drest, TearDown
<1> QED
  BY <1>1, <1>2, <1>3, <1>4, <1>5, <1>6, <1>7, <1>8, <1>9, <1>10, <1>11, <1>12,
     <1>13, <1>14, <1>15, <1>16, <1>17, <1>18, <1>19, <1>20, <1>21, <1>22,
     <1>23, <1>24, <1>25, <1>26, <1>27, <1>28 DEF Next, DispatchStep,
     WorkerStep, LoopStep

\* The write lock excludes readers and is held only while reducing.
LEMMA StateLockPreserved ==
  ASSUME TypeOK, StateLockSound, Next
  PROVE  StateLockSound'
<1>1. ASSUME NEW p \in Producers, Begin(p) PROVE StateLockSound'
  BY <1>1 DEF StateLockSound, Begin
<1>2. ASSUME NEW t \in Threads, DispatchWait(t) PROVE StateLockSound'
  BY <1>2 DEF StateLockSound, locks, DispatchWait
<1>3. ASSUME NEW t \in Threads, DispatchDrop(t) PROVE StateLockSound'
  BY <1>3 DEF StateLockSound, locks, DispatchDrop
<1>4. ASSUME NEW t \in Threads, DispatchAccept(t) PROVE StateLockSound'
  BY <1>4 DEF StateLockSound, locks, DispatchAccept, StartWorker
<1>5. ASSUME NEW t \in Threads, DispatchSignal(t) PROVE StateLockSound'
  BY <1>5 DEF StateLockSound, locks, DispatchSignal
<1>6. ASSUME NEW t \in Threads, Return(t) PROVE StateLockSound'
  BY <1>6 DEF StateLockSound, Return
<1>7. ASSUME Close PROVE StateLockSound'
  BY <1>7 DEF StateLockSound, locks, Close, StartWorker, WakeAll
<1>8. ASSUME CloseSignal PROVE StateLockSound'
  BY <1>8 DEF StateLockSound, locks, CloseSignal
<1>9. ASSUME CancelContext PROVE StateLockSound'
  BY <1>9 DEF StateLockSound, locks, CancelContext
<1>10. ASSUME WorkerWake PROVE StateLockSound'
  BY <1>10 DEF StateLockSound, locks, WorkerWake
<1>11. ASSUME WorkerSlept PROVE StateLockSound'
  BY <1>11 DEF StateLockSound, locks, WorkerSlept
<1>12. ASSUME WorkerQuit PROVE StateLockSound'
  BY <1>12 DEF StateLockSound, locks, WorkerQuit
<1>13. ASSUME WorkerTake PROVE StateLockSound'
  BY <1>13 DEF StateLockSound, locks, WorkerTake
<1>14. ASSUME HandOff PROVE StateLockSound'
  BY <1>14 DEF StateLockSound, locks, HandOff
<1>15. ASSUME WorkerRecheck PROVE StateLockSound'
  BY <1>15 DEF StateLockSound, locks, WorkerRecheck
<1>16. ASSUME SetUp PROVE StateLockSound'
  BY <1>16 DEF StateLockSound, locks, SetUp
<1>17. ASSUME LoopContextDone PROVE StateLockSound'
  BY <1>17 DEF StateLockSound, locks, LoopContextDone, Leave
<1>18. ASSUME LoopClosed PROVE StateLockSound'
  BY <1>18 DEF StateLockSound, locks, LoopClosed, Leave
<1>19. ASSUME ReleaseQueuedLogBytes PROVE StateLockSound'
  BY <1>19 DEF StateLockSound, locks, ReleaseQueuedLogBytes, WakeAll
<1>20. ASSUME LoopLock PROVE StateLockSound'
  BY <1>20 DEF StateLockSound, locks, LoopLock
<1>21. ASSUME LoopLocked PROVE StateLockSound'
  BY <1>21 DEF StateLockSound, LoopLocked
<1>22. ASSUME Reduce PROVE StateLockSound'
  BY <1>22 DEF StateLockSound, Reduce, Leave
<1>23. ASSUME LoopUnlock PROVE StateLockSound'
  BY <1>23 DEF StateLockSound, LoopUnlock
<1>24. ASSUME LoopFinish PROVE StateLockSound'
  BY <1>24 DEF StateLockSound, locks, LoopFinish, Leave
<1>25. ASSUME StopDrainWorker PROVE StateLockSound'
  BY <1>25 DEF StateLockSound, locks, StopDrainWorker, WakeAll
<1>26. ASSUME CancelWorker PROVE StateLockSound'
  BY <1>26 DEF StateLockSound, locks, CancelWorker
<1>27. ASSUME LoopReturn PROVE StateLockSound'
  BY <1>27 DEF StateLockSound, locks, LoopReturn
<1>28. ASSUME NEW p \in Subscribers, TearDown(p) PROVE StateLockSound'
  BY <1>28 DEF StateLockSound, locks, TearDown
<1> QED
  BY <1>1, <1>2, <1>3, <1>4, <1>5, <1>6, <1>7, <1>8, <1>9, <1>10, <1>11, <1>12,
     <1>13, <1>14, <1>15, <1>16, <1>17, <1>18, <1>19, <1>20, <1>21, <1>22,
     <1>23, <1>24, <1>25, <1>26, <1>27, <1>28 DEF Next, DispatchStep,
     WorkerStep, LoopStep

\* What the loop dispatches is exempt from the budget: it never waits.
LEMMA ReducerPreserved ==
  ASSUME TypeOK, LoopShape, ReducerNeverWaits, Next
  PROVE  ReducerNeverWaits'
<1>1. ASSUME NEW p \in Producers, Begin(p) PROVE ReducerNeverWaits'
  BY <1>1, ThreadAssumption DEF ReducerNeverWaits, TypeOK, Threads, Begin
<1>2. ASSUME NEW t \in Threads, DispatchWait(t) PROVE ReducerNeverWaits'
  BY <1>2 DEF ReducerNeverWaits, TypeOK, Threads, LoopShape, DispatchWait,
     MustWait, LogActionPayloadBytes, NonBlockingIngress
<1>3. ASSUME NEW t \in Threads, DispatchDrop(t) PROVE ReducerNeverWaits'
  BY <1>3 DEF ReducerNeverWaits, TypeOK, Threads, DispatchDrop
<1>4. ASSUME NEW t \in Threads, DispatchAccept(t) PROVE ReducerNeverWaits'
  BY <1>4 DEF ReducerNeverWaits, TypeOK, Threads, DispatchAccept, StartWorker
<1>5. ASSUME NEW t \in Threads, DispatchSignal(t) PROVE ReducerNeverWaits'
  BY <1>5 DEF ReducerNeverWaits, TypeOK, Threads, DispatchSignal
<1>6. ASSUME NEW t \in Threads, Return(t) PROVE ReducerNeverWaits'
  BY <1>6 DEF ReducerNeverWaits, TypeOK, Threads, Return
<1>7. ASSUME Close PROVE ReducerNeverWaits'
  BY <1>7 DEF ReducerNeverWaits, TypeOK, Threads, Close, StartWorker, WakeAll
<1>8. ASSUME CloseSignal PROVE ReducerNeverWaits'
  BY <1>8 DEF ReducerNeverWaits, TypeOK, Threads, CloseSignal
<1>9. ASSUME CancelContext PROVE ReducerNeverWaits'
  BY <1>9 DEF ReducerNeverWaits, TypeOK, Threads, CancelContext
<1>10. ASSUME WorkerWake PROVE ReducerNeverWaits'
  BY <1>10 DEF ReducerNeverWaits, TypeOK, Threads, WorkerWake
<1>11. ASSUME WorkerSlept PROVE ReducerNeverWaits'
  BY <1>11 DEF ReducerNeverWaits, TypeOK, Threads, WorkerSlept
<1>12. ASSUME WorkerQuit PROVE ReducerNeverWaits'
  BY <1>12 DEF ReducerNeverWaits, TypeOK, Threads, WorkerQuit
<1>13. ASSUME WorkerTake PROVE ReducerNeverWaits'
  BY <1>13 DEF ReducerNeverWaits, TypeOK, Threads, WorkerTake
<1>14. ASSUME HandOff PROVE ReducerNeverWaits'
  BY <1>14 DEF ReducerNeverWaits, TypeOK, Threads, HandOff
<1>15. ASSUME WorkerRecheck PROVE ReducerNeverWaits'
  BY <1>15 DEF ReducerNeverWaits, TypeOK, Threads, WorkerRecheck
<1>16. ASSUME SetUp PROVE ReducerNeverWaits'
  BY <1>16 DEF ReducerNeverWaits, TypeOK, Threads, SetUp
<1>17. ASSUME LoopContextDone PROVE ReducerNeverWaits'
  BY <1>17 DEF ReducerNeverWaits, TypeOK, Threads, LoopContextDone, Leave
<1>18. ASSUME LoopClosed PROVE ReducerNeverWaits'
  BY <1>18 DEF ReducerNeverWaits, TypeOK, Threads, LoopClosed, Leave
<1>19. ASSUME ReleaseQueuedLogBytes PROVE ReducerNeverWaits'
  BY <1>19 DEF ReducerNeverWaits, TypeOK, Threads, ReleaseQueuedLogBytes,
      WakeAll
<1>20. ASSUME LoopLock PROVE ReducerNeverWaits'
  BY <1>20 DEF ReducerNeverWaits, TypeOK, Threads, LoopLock
<1>21. ASSUME LoopLocked PROVE ReducerNeverWaits'
  BY <1>21 DEF ReducerNeverWaits, TypeOK, Threads, LoopLocked
<1>22. ASSUME Reduce PROVE ReducerNeverWaits'
  BY <1>22 DEF ReducerNeverWaits, TypeOK, Threads, Reduce, Leave
<1>23. ASSUME LoopUnlock PROVE ReducerNeverWaits'
  BY <1>23 DEF ReducerNeverWaits, TypeOK, Threads, LoopUnlock
<1>24. ASSUME LoopFinish PROVE ReducerNeverWaits'
  BY <1>24 DEF ReducerNeverWaits, TypeOK, Threads, LoopFinish, Leave
<1>25. ASSUME StopDrainWorker PROVE ReducerNeverWaits'
  BY <1>25 DEF ReducerNeverWaits, TypeOK, Threads, StopDrainWorker, WakeAll
<1>26. ASSUME CancelWorker PROVE ReducerNeverWaits'
  BY <1>26 DEF ReducerNeverWaits, TypeOK, Threads, CancelWorker
<1>27. ASSUME LoopReturn PROVE ReducerNeverWaits'
  BY <1>27 DEF ReducerNeverWaits, TypeOK, Threads, LoopReturn
<1>28. ASSUME NEW p \in Subscribers, TearDown(p) PROVE ReducerNeverWaits'
  BY <1>28 DEF ReducerNeverWaits, TypeOK, Threads, TearDown
<1> QED
  BY <1>1, <1>2, <1>3, <1>4, <1>5, <1>6, <1>7, <1>8, <1>9, <1>10, <1>11, <1>12,
     <1>13, <1>14, <1>15, <1>16, <1>17, <1>18, <1>19, <1>20, <1>21, <1>22,
     <1>23, <1>24, <1>25, <1>26, <1>27, <1>28 DEF Next, DispatchStep,
     WorkerStep, LoopStep

\* Whatever makes room, closes or stops wakes every waiter; whatever else
\* happens leaves the budget exhausted.
LEMMA BudgetWaitersPreserved ==
  ASSUME TypeOK, BudgetWaitersJustified, Next
  PROVE  BudgetWaitersJustified'
<1>1. ASSUME NEW p \in Producers, Begin(p) PROVE BudgetWaitersJustified'
  BY <1>1 DEF BudgetWaitersJustified, TypeOK, ingress, Begin
<1>2. ASSUME NEW t \in Threads, DispatchWait(t) PROVE BudgetWaitersJustified'
  BY <1>2 DEF BudgetWaitersJustified, TypeOK, DispatchWait, MustWait, ingress
<1>3. ASSUME NEW t \in Threads, DispatchDrop(t) PROVE BudgetWaitersJustified'
  BY <1>3 DEF BudgetWaitersJustified, TypeOK, ingress, DispatchDrop
<1>4. ASSUME NEW t \in Threads, DispatchAccept(t) PROVE BudgetWaitersJustified'
  <2>1. LogActionPayloadBytes(call[t]) \in Nat
    BY BudgetAssumption DEF TypeOK, Action, LogActionPayloadBytes
  <2> QED
    BY <1>4, <2>1, BudgetAssumption
    DEF BudgetWaitersJustified, TypeOK, DispatchAccept
<1>5. ASSUME NEW t \in Threads, DispatchSignal(t) PROVE BudgetWaitersJustified'
  BY <1>5 DEF BudgetWaitersJustified, TypeOK, ingress, DispatchSignal
<1>6. ASSUME NEW t \in Threads, Return(t) PROVE BudgetWaitersJustified'
  BY <1>6 DEF BudgetWaitersJustified, TypeOK, ingress, Return
<1>7. ASSUME Close PROVE BudgetWaitersJustified'
  BY <1>7 DEF BudgetWaitersJustified, TypeOK, Close, StartWorker, WakeAll
<1>8. ASSUME CloseSignal PROVE BudgetWaitersJustified'
  BY <1>8 DEF BudgetWaitersJustified, TypeOK, ingress, CloseSignal
<1>9. ASSUME CancelContext PROVE BudgetWaitersJustified'
  BY <1>9 DEF BudgetWaitersJustified, TypeOK, ingress, CancelContext
<1>10. ASSUME WorkerWake PROVE BudgetWaitersJustified'
  BY <1>10 DEF BudgetWaitersJustified, TypeOK, ingress, WorkerWake
<1>11. ASSUME WorkerSlept PROVE BudgetWaitersJustified'
  BY <1>11 DEF BudgetWaitersJustified, TypeOK, ingress, WorkerSlept
<1>12. ASSUME WorkerQuit PROVE BudgetWaitersJustified'
  BY <1>12 DEF BudgetWaitersJustified, TypeOK, ingress, WorkerQuit
<1>13. ASSUME WorkerTake PROVE BudgetWaitersJustified'
  BY <1>13 DEF BudgetWaitersJustified, TypeOK, WorkerTake
<1>14. ASSUME HandOff PROVE BudgetWaitersJustified'
  BY <1>14 DEF BudgetWaitersJustified, TypeOK, ingress, HandOff
<1>15. ASSUME WorkerRecheck PROVE BudgetWaitersJustified'
  BY <1>15 DEF BudgetWaitersJustified, TypeOK, ingress, WorkerRecheck
<1>16. ASSUME SetUp PROVE BudgetWaitersJustified'
  BY <1>16 DEF BudgetWaitersJustified, TypeOK, ingress, SetUp
<1>17. ASSUME LoopContextDone PROVE BudgetWaitersJustified'
  BY <1>17 DEF BudgetWaitersJustified, TypeOK, ingress, LoopContextDone, Leave
<1>18. ASSUME LoopClosed PROVE BudgetWaitersJustified'
  BY <1>18 DEF BudgetWaitersJustified, TypeOK, ingress, LoopClosed, Leave
<1>19. ASSUME ReleaseQueuedLogBytes PROVE BudgetWaitersJustified'
  <2>1. CASE BatchBytes(loopBatch) = 0
    BY <1>19, <2>1 DEF BudgetWaitersJustified, TypeOK, ReleaseQueuedLogBytes
  <2>2. CASE BatchBytes(loopBatch) # 0
    BY <1>19, <2>2
    DEF BudgetWaitersJustified, TypeOK, ReleaseQueuedLogBytes, WakeAll
  <2> QED
    BY <2>1, <2>2
<1>20. ASSUME LoopLock PROVE BudgetWaitersJustified'
  BY <1>20 DEF BudgetWaitersJustified, TypeOK, ingress, LoopLock
<1>21. ASSUME LoopLocked PROVE BudgetWaitersJustified'
  BY <1>21 DEF BudgetWaitersJustified, TypeOK, ingress, LoopLocked
<1>22. ASSUME Reduce PROVE BudgetWaitersJustified'
  BY <1>22 DEF BudgetWaitersJustified, TypeOK, ingress, Reduce, Leave
<1>23. ASSUME LoopUnlock PROVE BudgetWaitersJustified'
  BY <1>23 DEF BudgetWaitersJustified, TypeOK, ingress, LoopUnlock
<1>24. ASSUME LoopFinish PROVE BudgetWaitersJustified'
  BY <1>24 DEF BudgetWaitersJustified, TypeOK, ingress, LoopFinish, Leave
<1>25. ASSUME StopDrainWorker PROVE BudgetWaitersJustified'
  BY <1>25 DEF BudgetWaitersJustified, TypeOK, StopDrainWorker, WakeAll
<1>26. ASSUME CancelWorker PROVE BudgetWaitersJustified'
  BY <1>26 DEF BudgetWaitersJustified, TypeOK, ingress, CancelWorker
<1>27. ASSUME LoopReturn PROVE BudgetWaitersJustified'
  BY <1>27 DEF BudgetWaitersJustified, TypeOK, ingress, LoopReturn
<1>28. ASSUME NEW p \in Subscribers, TearDown(p) PROVE BudgetWaitersJustified'
  BY <1>28 DEF BudgetWaitersJustified, TypeOK, ingress, TearDown
<1> QED
  BY <1>1, <1>2, <1>3, <1>4, <1>5, <1>6, <1>7, <1>8, <1>9, <1>10, <1>11, <1>12,
     <1>13, <1>14, <1>15, <1>16, <1>17, <1>18, <1>19, <1>20, <1>21, <1>22,
     <1>23, <1>24, <1>25, <1>26, <1>27, <1>28 DEF Next, DispatchStep,
     WorkerStep, LoopStep

\* Work that is left behind is announced.
LEMMA TokenPreserved ==
  ASSUME TypeOK, WorkerShape, NoStrandedWork, TokenComes, Next
  PROVE  NoStrandedWork' /\ TokenComes'
<1>1. ASSUME NEW p \in Producers, Begin(p) PROVE NoStrandedWork' /\ TokenComes'
  BY <1>1 DEF NoStrandedWork, TokenComes, SignalComing, TypeOK, ingress, env,
      Begin
<1>2. ASSUME NEW t \in Threads, DispatchWait(t) PROVE NoStrandedWork' /\ TokenComes'
  BY <1>2 DEF NoStrandedWork, TokenComes, SignalComing, TypeOK, ingress, env,
      DispatchWait
<1>3. ASSUME NEW t \in Threads, DispatchDrop(t) PROVE NoStrandedWork' /\ TokenComes'
  BY <1>3 DEF NoStrandedWork, TokenComes, SignalComing, TypeOK, ingress, env,
      DispatchDrop
<1>4. ASSUME NEW t \in Threads, DispatchAccept(t) PROVE NoStrandedWork' /\ TokenComes'
  BY <1>4 DEF NoStrandedWork, TokenComes, SignalComing, TypeOK, env,
      DispatchAccept, StartWorker
<1>5. ASSUME NEW t \in Threads, DispatchSignal(t) PROVE NoStrandedWork' /\ TokenComes'
  BY <1>5 DEF NoStrandedWork, TokenComes, SignalComing, TypeOK, ingress,
      DispatchSignal
<1>6. ASSUME NEW t \in Threads, Return(t) PROVE NoStrandedWork' /\ TokenComes'
  BY <1>6 DEF NoStrandedWork, TokenComes, SignalComing, TypeOK, ingress, env,
      Return
<1>7. ASSUME Close PROVE NoStrandedWork' /\ TokenComes'
  BY <1>7 DEF NoStrandedWork, TokenComes, SignalComing, TypeOK, Close,
      StartWorker, WakeAll
<1>8. ASSUME CloseSignal PROVE NoStrandedWork' /\ TokenComes'
  BY <1>8 DEF NoStrandedWork, TokenComes, SignalComing, TypeOK, ingress,
      CloseSignal
<1>9. ASSUME CancelContext PROVE NoStrandedWork' /\ TokenComes'
  BY <1>9 DEF NoStrandedWork, TokenComes, SignalComing, TypeOK, ingress,
      CancelContext
<1>10. ASSUME WorkerWake PROVE NoStrandedWork' /\ TokenComes'
  BY <1>10 DEF NoStrandedWork, TokenComes, SignalComing, TypeOK, ingress,
      WorkerWake
<1>11. ASSUME WorkerSlept PROVE NoStrandedWork' /\ TokenComes'
  BY <1>11 DEF NoStrandedWork, TokenComes, SignalComing, TypeOK, ingress, env,
      WorkerSlept
<1>12. ASSUME WorkerQuit PROVE NoStrandedWork' /\ TokenComes'
  BY <1>12 DEF NoStrandedWork, TokenComes, SignalComing, TypeOK, ingress, env,
      WorkerQuit
<1>13. ASSUME WorkerTake PROVE NoStrandedWork' /\ TokenComes'
  BY <1>13 DEF NoStrandedWork, TokenComes, SignalComing, TypeOK, env,
      WorkerTake
<1>14. ASSUME HandOff PROVE NoStrandedWork' /\ TokenComes'
  BY <1>14 DEF NoStrandedWork, TokenComes, SignalComing, TypeOK, ingress, env,
      HandOff
<1>15. ASSUME WorkerRecheck PROVE NoStrandedWork' /\ TokenComes'
  BY <1>15 DEF NoStrandedWork, TokenComes, SignalComing, TypeOK, ingress, env,
      WorkerRecheck
<1>16. ASSUME SetUp PROVE NoStrandedWork' /\ TokenComes'
  BY <1>16 DEF NoStrandedWork, TokenComes, SignalComing, TypeOK, ingress, env,
      SetUp
<1>17. ASSUME LoopContextDone PROVE NoStrandedWork' /\ TokenComes'
  BY <1>17 DEF NoStrandedWork, TokenComes, SignalComing, TypeOK, ingress, env,
      LoopContextDone, Leave
<1>18. ASSUME LoopClosed PROVE NoStrandedWork' /\ TokenComes'
  BY <1>18 DEF NoStrandedWork, TokenComes, SignalComing, TypeOK, ingress, env,
      LoopClosed, Leave
<1>19. ASSUME ReleaseQueuedLogBytes PROVE NoStrandedWork' /\ TokenComes'
  BY <1>19 DEF NoStrandedWork, TokenComes, SignalComing, TypeOK, env,
      ReleaseQueuedLogBytes, WakeAll
<1>20. ASSUME LoopLock PROVE NoStrandedWork' /\ TokenComes'
  BY <1>20 DEF NoStrandedWork, TokenComes, SignalComing, TypeOK, ingress, env,
      LoopLock
<1>21. ASSUME LoopLocked PROVE NoStrandedWork' /\ TokenComes'
  BY <1>21 DEF NoStrandedWork, TokenComes, SignalComing, TypeOK, ingress, env,
      LoopLocked
<1>22. ASSUME Reduce PROVE NoStrandedWork' /\ TokenComes'
  BY <1>22 DEF NoStrandedWork, TokenComes, SignalComing, TypeOK, ingress, env,
      Reduce, Leave
<1>23. ASSUME LoopUnlock PROVE NoStrandedWork' /\ TokenComes'
  BY <1>23 DEF NoStrandedWork, TokenComes, SignalComing, TypeOK, ingress, env,
      LoopUnlock
<1>24. ASSUME LoopFinish PROVE NoStrandedWork' /\ TokenComes'
  BY <1>24 DEF NoStrandedWork, TokenComes, SignalComing, TypeOK, ingress, env,
      LoopFinish, Leave
<1>25. ASSUME StopDrainWorker PROVE NoStrandedWork' /\ TokenComes'
  BY <1>25 DEF NoStrandedWork, TokenComes, SignalComing, TypeOK, env,
      StopDrainWorker, WakeAll
<1>26. ASSUME CancelWorker PROVE NoStrandedWork' /\ TokenComes'
  BY <1>26 DEF NoStrandedWork, TokenComes, SignalComing, TypeOK, ingress, env,
      CancelWorker
<1>27. ASSUME LoopReturn PROVE NoStrandedWork' /\ TokenComes'
  BY <1>27 DEF NoStrandedWork, TokenComes, SignalComing, TypeOK, ingress, env,
      LoopReturn
<1>28. ASSUME NEW p \in Subscribers, TearDown(p) PROVE NoStrandedWork' /\ TokenComes'
  BY <1>28 DEF NoStrandedWork, TokenComes, SignalComing, TypeOK, ingress, env,
      TearDown
<1> QED
  BY <1>1, <1>2, <1>3, <1>4, <1>5, <1>6, <1>7, <1>8, <1>9, <1>10, <1>11, <1>12,
     <1>13, <1>14, <1>15, <1>16, <1>17, <1>18, <1>19, <1>20, <1>21, <1>22,
     <1>23, <1>24, <1>25, <1>26, <1>27, <1>28 DEF Next, DispatchStep,
     WorkerStep, LoopStep

\* How a step may change what is charged to the budget.
ChargeStep ==
  \/ Charged' = Charged /\ queuedLogBytes' = queuedLogBytes
  \/ \E t \in Threads :
       /\ DispatchAccept(t)
       /\ Charged' = Append(Charged, call[t])
       /\ queuedLogBytes' = queuedLogBytes + LogActionPayloadBytes(call[t])
  \/ /\ Charged = loopBatch \o Charged'
     /\ Charged' \in Seq(Action)
     /\ queuedLogBytes' = queuedLogBytes - BatchBytes(loopBatch)

\* Appending to the second part of a batch is appending to the whole.
LEMMA AppendOfConcat ==
  ASSUME NEW s \in Seq(Action), NEW t \in Seq(Action), NEW a \in Action
  PROVE  s \o Append(t, a) = Append(s \o t, a)
<1>1. <<a>> \in Seq(Action) /\ s \o t \in Seq(Action)
  BY ConcatProperties
<1>2. Append(t, a) = t \o <<a>> /\ Append(s \o t, a) = (s \o t) \o <<a>>
  BY <1>1, AppendIsConcat
<1> QED
  BY <1>1, <1>2, ConcatAssociative

\* A step leaves what is charged alone, or adds the action it admits, or
\* releases the batch of the loop.
LEMMA ChargeSteps ==
  ASSUME TypeOK, WorkerShape, LoopShape, Next
  PROVE  ChargeStep
<1>1. ASSUME NEW p \in Producers, Begin(p) PROVE ChargeStep
  BY <1>1 DEF ChargeStep, Charged, Pending, ingress, wrest, lrest, Begin
<1>2. ASSUME NEW t \in Threads, DispatchWait(t) PROVE ChargeStep
  BY <1>2 DEF ChargeStep, Charged, Pending, ingress, wrest, lrest, DispatchWait
<1>3. ASSUME NEW t \in Threads, DispatchDrop(t) PROVE ChargeStep
  BY <1>3 DEF ChargeStep, Charged, Pending, ingress, wrest, lrest, DispatchDrop
<1>4. ASSUME NEW t \in Threads, DispatchAccept(t) PROVE ChargeStep
  <2>1. call[t] \in Action
    BY DEF TypeOK
  <2>2. Charged' = Append(Charged, call[t])
    <3>1. workerBatch \o actionQueue \in Seq(Action)
      BY ConcatProperties DEF TypeOK
    <3>2. workerBatch \o Append(actionQueue, call[t])
            = Append(workerBatch \o actionQueue, call[t])
      BY <2>1, AppendOfConcat DEF TypeOK
    <3>3. loopBatch \o Append(workerBatch \o actionQueue, call[t])
            = Append(loopBatch \o (workerBatch \o actionQueue), call[t])
      BY <2>1, <3>1, AppendOfConcat DEF TypeOK
    <3> QED
      BY <1>4, <3>2, <3>3 DEF DispatchAccept, Charged, Pending, lrest, wrest
  <2>3. queuedLogBytes' = queuedLogBytes + LogActionPayloadBytes(call[t])
    BY <1>4 DEF DispatchAccept
  <2> QED
    BY <1>4, <2>2, <2>3 DEF ChargeStep
<1>5. ASSUME NEW t \in Threads, DispatchSignal(t) PROVE ChargeStep
  BY <1>5 DEF ChargeStep, Charged, Pending, ingress, wrest, lrest,
      DispatchSignal
<1>6. ASSUME NEW t \in Threads, Return(t) PROVE ChargeStep
  BY <1>6 DEF ChargeStep, Charged, Pending, ingress, wrest, lrest, Return
<1>7. ASSUME Close PROVE ChargeStep
  BY <1>7 DEF ChargeStep, Charged, Pending, wrest, lrest, Close, StartWorker,
      WakeAll
<1>8. ASSUME CloseSignal PROVE ChargeStep
  BY <1>8 DEF ChargeStep, Charged, Pending, ingress, wrest, lrest, CloseSignal
<1>9. ASSUME CancelContext PROVE ChargeStep
  BY <1>9 DEF ChargeStep, Charged, Pending, ingress, wrest, lrest,
      CancelContext
<1>10. ASSUME WorkerWake PROVE ChargeStep
  BY <1>10 DEF ChargeStep, Charged, Pending, ingress, wrest, lrest, WorkerWake
<1>11. ASSUME WorkerSlept PROVE ChargeStep
  BY <1>11 DEF ChargeStep, Charged, Pending, ingress, wrest, lrest, WorkerSlept
<1>12. ASSUME WorkerQuit PROVE ChargeStep
  BY <1>12 DEF ChargeStep, Charged, Pending, ingress, wrest, lrest, WorkerQuit
<1>13. ASSUME WorkerTake PROVE ChargeStep
  <2>1. workerBatch = <<>>
    BY <1>13 DEF WorkerShape, WorkerTake
  <2>2. workerBatch \o actionQueue = workerBatch' \o actionQueue'
    BY <1>13, <2>1, ConcatEmptySeq DEF TypeOK, WorkerTake
  <2> QED
    BY <1>13, <2>2 DEF ChargeStep, WorkerTake, Charged, Pending, lrest
<1>14. ASSUME HandOff PROVE ChargeStep
  <2>1. Charged = workerBatch \o actionQueue
    BY <1>14 DEF HandOff, Charged
  <2>2. <<>> \o actionQueue = actionQueue
    BY ConcatEmptySeq DEF TypeOK
  <2>3. Charged' = workerBatch \o (<<>> \o actionQueue)
    BY <1>14 DEF HandOff, Charged, Pending, ingress
  <2> QED
    BY <1>14, <2>1, <2>2, <2>3 DEF ChargeStep, HandOff, ingress
<1>15. ASSUME WorkerRecheck PROVE ChargeStep
  BY <1>15 DEF ChargeStep, Charged, Pending, ingress, wrest, lrest,
      WorkerRecheck
<1>16. ASSUME SetUp PROVE ChargeStep
  BY <1>16 DEF ChargeStep, Charged, Pending, ingress, wrest, SetUp
<1>17. ASSUME LoopContextDone PROVE ChargeStep
  BY <1>17 DEF ChargeStep, Charged, Pending, ingress, wrest, LoopContextDone,
      Leave
<1>18. ASSUME LoopClosed PROVE ChargeStep
  BY <1>18 DEF ChargeStep, Charged, Pending, ingress, wrest, LoopClosed, Leave
<1>19. ASSUME ReleaseQueuedLogBytes PROVE ChargeStep
  <2>1. Charged = loopBatch \o Charged'
    BY <1>19 DEF ReleaseQueuedLogBytes, Charged, Pending, wrest
  <2>2. Charged' = workerBatch \o actionQueue
    BY <1>19 DEF ReleaseQueuedLogBytes, Charged, wrest
  <2>3. Charged' \in Seq(Action)
    BY <2>2, ConcatProperties DEF TypeOK
  <2>4. queuedLogBytes' = queuedLogBytes - BatchBytes(loopBatch)
    BY <1>19 DEF ReleaseQueuedLogBytes
  <2> QED
    BY <2>1, <2>3, <2>4 DEF ChargeStep
<1>20. ASSUME LoopLock PROVE ChargeStep
  BY <1>20 DEF ChargeStep, Charged, Pending, ingress, wrest, lrest, LoopLock
<1>21. ASSUME LoopLocked PROVE ChargeStep
  BY <1>21 DEF ChargeStep, Charged, Pending, ingress, wrest, lrest, LoopLocked
<1>22. ASSUME Reduce PROVE ChargeStep
  BY <1>22 DEF ChargeStep, Charged, Pending, ingress, wrest, Reduce, Leave
<1>23. ASSUME LoopUnlock PROVE ChargeStep
  BY <1>23 DEF ChargeStep, Charged, Pending, ingress, wrest, lrest, LoopUnlock
<1>24. ASSUME LoopFinish PROVE ChargeStep
  BY <1>24 DEF ChargeStep, Charged, Pending, ingress, wrest, LoopFinish, Leave
<1>25. ASSUME StopDrainWorker PROVE ChargeStep
  BY <1>25 DEF ChargeStep, Charged, Pending, wrest, lrest, StopDrainWorker,
      WakeAll
<1>26. ASSUME CancelWorker PROVE ChargeStep
  BY <1>26 DEF ChargeStep, Charged, Pending, ingress, wrest, lrest,
      CancelWorker
<1>27. ASSUME LoopReturn PROVE ChargeStep
  BY <1>27 DEF ChargeStep, Charged, Pending, ingress, wrest, lrest, LoopReturn
<1>28. ASSUME NEW p \in Subscribers, TearDown(p) PROVE ChargeStep
  BY <1>28 DEF ChargeStep, Charged, Pending, ingress, wrest, TearDown
<1> QED
  BY <1>1, <1>2, <1>3, <1>4, <1>5, <1>6, <1>7, <1>8, <1>9, <1>10, <1>11, <1>12,
     <1>13, <1>14, <1>15, <1>16, <1>17, <1>18, <1>19, <1>20, <1>21, <1>22,
     <1>23, <1>24, <1>25, <1>26, <1>27, <1>28 DEF Next, DispatchStep,
     WorkerStep, LoopStep

\* The budget stays charged with exactly what waits, and external payload
\* exceeds it by at most one payload: it is only admitted while everything
\* charged, and therefore external payload, is within the budget.
LEMMA ChargePreserved ==
  ASSUME TypeOK, WorkerShape, LoopShape, AccountingExact, OvershootBounded,
         Next
  PROVE  AccountingExact' /\ OvershootBounded'
<1>1. Charged \in Seq(Action)
  BY ConcatProperties DEF TypeOK, Charged, Pending
<1>2. CASE Charged' = Charged /\ queuedLogBytes' = queuedLogBytes
  BY <1>2 DEF AccountingExact, OvershootBounded
<1>3. ASSUME NEW t \in Threads,
             DispatchAccept(t),
             Charged' = Append(Charged, call[t]),
             queuedLogBytes' = queuedLogBytes + LogActionPayloadBytes(call[t])
      PROVE  AccountingExact' /\ OvershootBounded'
  <2>1. call[t] \in Action /\ LogActionPayloadBytes(call[t]) \in 0..MaxPayload
    BY BudgetAssumption DEF TypeOK, Action, LogActionPayloadBytes
  <2>2. BatchBytes(Charged') = BatchBytes(Charged)
                                 + LogActionPayloadBytes(call[t])
    BY <1>1, <1>3, <2>1, BatchBytesRules
  <2>3. AccountingExact'
    BY <1>3, <2>2 DEF AccountingExact
  <2>4. /\ ExternalBytes(Charged) \in Nat
        /\ ExternalBytes(Charged) <= queuedLogBytes
    BY <1>1, ExternalBytesRules DEF AccountingExact
  <2>5. ExternalBytes(Charged') = ExternalBytes(Charged) +
          (IF call[t].src # Loop THEN LogActionPayloadBytes(call[t]) ELSE 0)
    BY <1>1, <1>3, <2>1, ExternalBytesRules
  <2>6. CASE call[t].src = Loop \/ LogActionPayloadBytes(call[t]) = 0
    <3>1. ExternalBytes(Charged') = ExternalBytes(Charged)
      BY <2>1, <2>4, <2>5, <2>6
    <3> QED
      BY <2>3, <3>1 DEF OvershootBounded
  <2>7. CASE call[t].src # Loop /\ LogActionPayloadBytes(call[t]) # 0
    <3>1. queuedLogBytes <= MaxQueuedLogBytes
      BY <1>3, <2>7, <2>1, BudgetAssumption
      DEF DispatchAccept, MustWait, NonBlockingIngress, TypeOK
    <3>2. ExternalBytes(Charged') <= MaxQueuedLogBytes + MaxPayload
      <4> HIDE DEF LogActionPayloadBytes, ExternalBytes
      <4> QED
        BY <3>1, <2>1, <2>4, <2>5, <2>7, BudgetAssumption DEF TypeOK
    <3> QED
      BY <2>3, <3>2 DEF OvershootBounded
  <2> QED
    BY <2>3, <2>6, <2>7
<1>4. ASSUME Charged = loopBatch \o Charged',
             Charged' \in Seq(Action),
             queuedLogBytes' = queuedLogBytes - BatchBytes(loopBatch)
      PROVE  AccountingExact' /\ OvershootBounded'
  <2>1. /\ BatchBytes(loopBatch) \in Nat /\ BatchBytes(Charged') \in Nat
        /\ BatchBytes(Charged) = BatchBytes(loopBatch) + BatchBytes(Charged')
    BY <1>4, BatchBytesRules DEF TypeOK
  <2>2. /\ ExternalBytes(loopBatch) \in Nat /\ ExternalBytes(Charged') \in Nat
        /\ ExternalBytes(Charged)
             = ExternalBytes(loopBatch) + ExternalBytes(Charged')
    BY <1>4, ExternalBytesRules DEF TypeOK
  <2>3. AccountingExact'
    <3>1. queuedLogBytes' = BatchBytes(Charged) - BatchBytes(loopBatch)
      BY <1>4 DEF AccountingExact
    <3>2. queuedLogBytes' = BatchBytes(Charged')
      BY <3>1, <2>1
    <3> QED
      BY <3>2 DEF AccountingExact
  <2>4. ExternalBytes(Charged') <= MaxQueuedLogBytes + MaxPayload
    BY <2>2, BudgetAssumption DEF OvershootBounded
  <2> QED
    BY <2>3, <2>4 DEF OvershootBounded
<1> QED
  BY <1>2, <1>3, <1>4, ChargeSteps DEF ChargeStep

-----------------------------------------------------------------------------
\* The inductive invariant of the Store.
THEOREM StoreInvariant == Spec => []IInv
<1>1. Init => IInv
  <2> SUFFICES ASSUME Init PROVE IInv
    OBVIOUS
  <2>1. NoAction \in Action
    BY BudgetAssumption DEF NoAction, Action, Threads
  <2>2. TypeOK
    BY <2>1, EmptySeq DEF Init, TypeOK, Threads
  <2>3. Charged = <<>>
    BY ConcatEmptySeq, EmptySeq DEF Init, Charged
  <2>4. AccountingExact /\ OvershootBounded
    BY <2>3, BatchBytesRules, ExternalBytesRules, BudgetAssumption
    DEF Init, AccountingExact, OvershootBounded
  <2>5. WorkerShape /\ LoopShape /\ StateLockSound
    BY DEF Init, WorkerShape, LoopShape, StateLockSound, NoAction, Threads
  <2>6. ReducerNeverWaits /\ BudgetWaitersJustified
    BY DEF Init, ReducerNeverWaits, BudgetWaitersJustified, Threads
  <2>7. NoStrandedWork /\ TokenComes
    BY DEF Init, NoStrandedWork, TokenComes
  <2> QED
    BY <2>2, <2>4, <2>5, <2>6, <2>7 DEF IInv
<1>2. IInv /\ [Next]_vars => IInv'
  <2> SUFFICES ASSUME IInv, [Next]_vars PROVE IInv'
    OBVIOUS
  <2>1. CASE Next
    BY <2>1, TypePreserved, WorkerShapePreserved, LoopShapePreserved,
       StateLockPreserved, ReducerPreserved, BudgetWaitersPreserved,
       TokenPreserved, ChargePreserved
    DEF IInv
  <2>2. CASE UNCHANGED vars
    <3>1. UNCHANGED <<ingress, locks, worker, wrest, loop, lrest, pc, drest,
                      env>>
      BY <2>2 DEF vars
    <3>2. TypeOK' /\ WorkerShape' /\ LoopShape' /\ StateLockSound'
      BY <3>1
      DEF IInv, TypeOK, WorkerShape, LoopShape, StateLockSound, ingress,
          locks, wrest, lrest, drest, env
    <3>3. ReducerNeverWaits' /\ BudgetWaitersJustified'
      BY <3>1 DEF IInv, ReducerNeverWaits, BudgetWaitersJustified, ingress
    <3>4. NoStrandedWork' /\ TokenComes'
      BY <3>1 DEF IInv, NoStrandedWork, TokenComes, SignalComing, ingress, env
    <3>5. AccountingExact' /\ OvershootBounded'
      BY <3>1
      DEF IInv, AccountingExact, OvershootBounded, Charged, Pending, ingress,
          wrest, lrest
    <3> QED
      BY <3>2, <3>3, <3>4, <3>5 DEF IInv
  <2> QED
    BY <2>1, <2>2
<1> QED
  BY <1>1, <1>2, PTL DEF Spec

\* The variables have their types, and the budget is never negative.
THEOREM StoreTypes == Spec => []TypeOK
<1>1. IInv => TypeOK
  BY DEF IInv
<1> QED
  BY <1>1, StoreInvariant, PTL

\* No dispatcher sleeps on the budget when there is room, or nothing left to
\* wait for; and the goroutine that makes room never sleeps on it.
THEOREM NoLostBudgetWakeup == Spec => []WaitersSound
<1>1. IInv => WaitersSound
  BY DEF IInv, WaitersSound
<1> QED
  BY <1>1, StoreInvariant, PTL

\* The worker does not sleep on work nobody will tell it of.
THEOREM NoLostWorkerWakeup == Spec => []NoStrandedWork
<1>1. IInv => NoStrandedWork
  BY DEF IInv
<1> QED
  BY <1>1, StoreInvariant, PTL

\* The budget is charged exactly, and external payload exceeds it by at most
\* one payload.
THEOREM LogBudgetSound == Spec => []BudgetSound
<1>1. IInv => BudgetSound
  BY DEF IInv, BudgetSound
<1> QED
  BY <1>1, StoreInvariant, PTL

\* The write lock excludes the readers and goes with the reduction, also when
\* that panics.
THEOREM StateLockIsSound == Spec => []StateLockSound
<1>1. IInv => StateLockSound
  BY DEF IInv
<1> QED
  BY <1>1, StoreInvariant, PTL

-----------------------------------------------------------------------------
(* The Store implements ActionStream. *)

\* What is joined to a nonempty batch comes after it.
LEMMA HeadTailOfConcat ==
  ASSUME NEW s \in Seq(Action), NEW t \in Seq(Action), s # <<>>
  PROVE  /\ s \o t # <<>>
         /\ Head(s \o t) = Head(s)
         /\ Tail(s \o t) = Tail(s) \o t
<1>1. /\ Len(s) \in Nat /\ Len(s) > 0 /\ Len(t) \in Nat
      /\ s \o t \in Seq(Action) /\ Len(s \o t) = Len(s) + Len(t)
      /\ \A i \in 1..(Len(s) + Len(t)) :
           (s \o t)[i] = IF i <= Len(s) THEN s[i] ELSE t[i - Len(s)]
  BY ConcatProperties, EmptySeq, LenProperties
<1>2. s \o t # <<>>
  BY <1>1, EmptySeq
<1>3. Head(s \o t) = Head(s)
  BY <1>1, <1>2
<1>4. /\ Tail(s) \in Seq(Action) /\ Len(Tail(s)) = Len(s) - 1
      /\ \A i \in 1..Len(Tail(s)) : Tail(s)[i] = s[i + 1]
  BY HeadTailProperties
<1>5. /\ Tail(s \o t) \in Seq(Action)
      /\ Len(Tail(s \o t)) = Len(s) + Len(t) - 1
      /\ \A i \in 1..Len(Tail(s \o t)) : Tail(s \o t)[i] = (s \o t)[i + 1]
  BY <1>1, <1>2, HeadTailProperties
<1>6. /\ Tail(s) \o t \in Seq(Action)
      /\ Len(Tail(s) \o t) = Len(s) - 1 + Len(t)
      /\ \A i \in 1..(Len(s) - 1 + Len(t)) :
           (Tail(s) \o t)[i] = IF i <= Len(s) - 1 THEN Tail(s)[i]
                               ELSE t[i - (Len(s) - 1)]
  BY <1>1, <1>4, ConcatProperties
<1>7. \A i \in 1..Len(Tail(s \o t)) : Tail(s \o t)[i] = (Tail(s) \o t)[i]
  BY <1>1, <1>4, <1>5, <1>6
<1>8. Tail(s \o t) = Tail(s) \o t
  BY <1>5, <1>6, <1>7, <1>1, SeqEqual
<1> QED
  BY <1>2, <1>3, <1>8

\* Every step of the Store is a step of the stream, or changes nothing of it.
LEMMA StreamStep ==
  ASSUME IInv, Next
  PROVE  [Stream!Next]_(Stream!vars)
<1>1. ASSUME NEW p \in Producers, Begin(p) PROVE [Stream!Next]_(Stream!vars)
  BY <1>1 DEF Pending, Stream!vars, ingress, wrest, lrest, Begin
<1>2. ASSUME NEW t \in Threads, DispatchWait(t) PROVE [Stream!Next]_(Stream!vars)
  BY <1>2 DEF Pending, Stream!vars, ingress, wrest, lrest, DispatchWait
<1>3. ASSUME NEW t \in Threads, DispatchDrop(t) PROVE [Stream!Next]_(Stream!vars)
  BY <1>3 DEF Pending, Stream!vars, ingress, wrest, lrest, DispatchDrop
<1>4. ASSUME NEW t \in Threads, DispatchAccept(t) PROVE [Stream!Next]_(Stream!vars)
  <2>1. call[t] \in Action
    BY DEF IInv, TypeOK
  <2>2. workerBatch \o actionQueue \in Seq(Action) /\ Pending \in Seq(Action)
    BY ConcatProperties DEF IInv, TypeOK, Pending
  <2>3. Pending' = Append(Pending, call[t])
    <3>1. workerBatch \o Append(actionQueue, call[t])
            = Append(workerBatch \o actionQueue, call[t])
      BY <2>1, AppendOfConcat DEF IInv, TypeOK
    <3>2. loopBatch \o Append(workerBatch \o actionQueue, call[t])
            = Append(loopBatch \o (workerBatch \o actionQueue), call[t])
      BY SMTT(30), <2>1, <2>2, AppendOfConcat DEF IInv, TypeOK
    <3> QED
      BY <1>4, <3>1, <3>2 DEF DispatchAccept, Pending, lrest, wrest
  <2>4. /\ Len(Pending') = Len(Pending) + 1
        /\ Pending'[Len(Pending')] = call[t]
    BY <2>1, <2>2, <2>3, AppendProperties, LenProperties
  <2>5. /\ reduced' = reduced /\ result' = result
        /\ closedStore' = closedStore /\ workerStopped' = workerStopped
        /\ ~closedStore /\ ~workerStopped
    BY <1>4 DEF DispatchAccept, lrest
  <2>6. Stream!Accept
    BY <2>1, <2>3, <2>4, <2>5 DEF Stream!Accept
  <2> QED
    BY <2>6 DEF Stream!Next
<1>5. ASSUME NEW t \in Threads, DispatchSignal(t) PROVE [Stream!Next]_(Stream!vars)
  BY <1>5 DEF Pending, Stream!vars, ingress, wrest, lrest, DispatchSignal
<1>6. ASSUME NEW t \in Threads, Return(t) PROVE [Stream!Next]_(Stream!vars)
  BY <1>6 DEF Pending, Stream!vars, ingress, wrest, lrest, Return
<1>7. ASSUME Close PROVE [Stream!Next]_(Stream!vars)
  <2>1. UNCHANGED <<Pending, reduced, result, workerStopped>> /\ closedStore'
    BY <1>7 DEF Close, Pending, lrest, wrest
  <2> QED
    BY <2>1 DEF Stream!vars, Stream!Next, Stream!Refuse
<1>8. ASSUME CloseSignal PROVE [Stream!Next]_(Stream!vars)
  BY <1>8 DEF Pending, Stream!vars, ingress, wrest, lrest, CloseSignal
<1>9. ASSUME CancelContext PROVE [Stream!Next]_(Stream!vars)
  BY <1>9 DEF Pending, Stream!vars, ingress, wrest, lrest, CancelContext
<1>10. ASSUME WorkerWake PROVE [Stream!Next]_(Stream!vars)
  BY <1>10 DEF Pending, Stream!vars, ingress, wrest, lrest, WorkerWake
<1>11. ASSUME WorkerSlept PROVE [Stream!Next]_(Stream!vars)
  BY <1>11 DEF Pending, Stream!vars, ingress, wrest, lrest, WorkerSlept
<1>12. ASSUME WorkerQuit PROVE [Stream!Next]_(Stream!vars)
  BY <1>12 DEF Pending, Stream!vars, ingress, wrest, lrest, WorkerQuit
<1>13. ASSUME WorkerTake PROVE [Stream!Next]_(Stream!vars)
  <2>1. workerBatch = <<>>
    BY <1>13 DEF IInv, WorkerShape, WorkerTake
  <2>2. workerBatch \o actionQueue = workerBatch' \o actionQueue'
    BY <1>13, <2>1, ConcatEmptySeq DEF IInv, TypeOK, WorkerTake
  <2> QED
    BY <1>13, <2>2 DEF WorkerTake, Pending, Stream!vars, lrest
<1>14. ASSUME HandOff PROVE [Stream!Next]_(Stream!vars)
  <2>1. loopBatch = <<>>
    BY <1>14 DEF IInv, LoopShape, HandOff
  <2>2. /\ <<>> \o actionQueue = actionQueue
        /\ <<>> \o (workerBatch \o actionQueue) = workerBatch \o actionQueue
    BY ConcatEmptySeq, ConcatProperties DEF IInv, TypeOK
  <2>3. Pending' = Pending
    BY <1>14, <2>1, <2>2 DEF HandOff, Pending, ingress
  <2> QED
    BY <1>14, <2>3 DEF HandOff, Stream!vars, ingress
<1>15. ASSUME WorkerRecheck PROVE [Stream!Next]_(Stream!vars)
  BY <1>15 DEF Pending, Stream!vars, ingress, wrest, lrest, WorkerRecheck
<1>16. ASSUME SetUp PROVE [Stream!Next]_(Stream!vars)
  <2>1. result = "none" /\ result' \in {"none", "setup"}
    BY <1>16 DEF IInv, LoopShape, SetUp
  <2>2. UNCHANGED <<Pending, reduced, closedStore, workerStopped>>
    BY <1>16 DEF SetUp, Pending, ingress, wrest
  <2> QED
    BY <2>1, <2>2 DEF Stream!vars, Stream!Next, Stream!Abort
<1>17. ASSUME LoopContextDone PROVE [Stream!Next]_(Stream!vars)
  <2>1. result = "none" /\ result' \notin {"none", "closed"}
    BY <1>17 DEF IInv, LoopShape, LoopContextDone, Leave
  <2>2. UNCHANGED <<Pending, reduced, closedStore, workerStopped>>
    BY <1>17 DEF LoopContextDone, Pending, ingress, wrest
  <2> QED
    BY <2>1, <2>2 DEF Stream!Next, Stream!Abort
<1>18. ASSUME LoopClosed PROVE [Stream!Next]_(Stream!vars)
  <2>1. /\ loopBatch = <<>> /\ workerBatch = <<>> /\ actionQueue = <<>>
        /\ closedStore /\ result = "none"
    BY <1>18 DEF IInv, LoopShape, WorkerShape, LoopClosed
  <2>2. Pending = <<>>
    BY <2>1, ConcatEmptySeq, EmptySeq DEF Pending
  <2>3. /\ result' = "closed"
        /\ UNCHANGED <<Pending, reduced, closedStore, workerStopped>>
    BY <1>18 DEF LoopClosed, Leave, Pending, ingress, wrest
  <2> QED
    BY <2>1, <2>2, <2>3 DEF Stream!Next, Stream!Drained
<1>19. ASSUME ReleaseQueuedLogBytes PROVE [Stream!Next]_(Stream!vars)
  BY <1>19 DEF Pending, Stream!vars, wrest, lrest, ReleaseQueuedLogBytes,
      WakeAll
<1>20. ASSUME LoopLock PROVE [Stream!Next]_(Stream!vars)
  BY <1>20 DEF Pending, Stream!vars, ingress, wrest, lrest, LoopLock
<1>21. ASSUME LoopLocked PROVE [Stream!Next]_(Stream!vars)
  BY <1>21 DEF Pending, Stream!vars, ingress, wrest, lrest, LoopLocked
<1>22. ASSUME Reduce PROVE [Stream!Next]_(Stream!vars)
  <2>1. result = "none" /\ result' \in {"none", "panic"}
    BY <1>22 DEF IInv, LoopShape, Reduce, Leave
  <2>2. workerBatch \o actionQueue \in Seq(Action)
    BY ConcatProperties DEF IInv, TypeOK
  <2>3. /\ Pending # <<>> /\ Head(Pending) = Head(loopBatch)
        /\ Tail(Pending) = Tail(loopBatch) \o (workerBatch \o actionQueue)
    BY <1>22, <2>2, HeadTailOfConcat DEF IInv, TypeOK, Reduce, Pending
  <2>4. /\ Pending' = Tail(Pending)
        /\ reduced' = Append(reduced, Head(Pending))
        /\ UNCHANGED <<closedStore, workerStopped>>
    BY <1>22, <2>3 DEF Reduce, Pending, ingress, wrest
  <2> QED
    BY <2>1, <2>3, <2>4 DEF Stream!Next, Stream!Apply, Stream!Crash
<1>23. ASSUME LoopUnlock PROVE [Stream!Next]_(Stream!vars)
  BY <1>23 DEF Pending, Stream!vars, ingress, wrest, lrest, LoopUnlock
<1>24. ASSUME LoopFinish PROVE [Stream!Next]_(Stream!vars)
  <2>1. result = "none" /\ result' \in {"none", "exited", "fatal"}
    BY <1>24 DEF IInv, LoopShape, LoopFinish, Leave
  <2>2. UNCHANGED <<Pending, reduced, closedStore, workerStopped>>
    BY <1>24 DEF LoopFinish, Pending, ingress, wrest
  <2> QED
    BY <2>1, <2>2 DEF Stream!vars, Stream!Next, Stream!Abort
<1>25. ASSUME StopDrainWorker PROVE [Stream!Next]_(Stream!vars)
  <2>1. UNCHANGED <<Pending, reduced, result, closedStore>> /\ workerStopped'
    BY <1>25 DEF StopDrainWorker, Pending, lrest, wrest
  <2> QED
    BY <2>1 DEF Stream!vars, Stream!Next, Stream!Refuse
<1>26. ASSUME CancelWorker PROVE [Stream!Next]_(Stream!vars)
  BY <1>26 DEF Pending, Stream!vars, ingress, wrest, lrest, CancelWorker
<1>27. ASSUME LoopReturn PROVE [Stream!Next]_(Stream!vars)
  BY <1>27 DEF Pending, Stream!vars, ingress, wrest, lrest, LoopReturn
<1>28. ASSUME NEW p \in Subscribers, TearDown(p) PROVE [Stream!Next]_(Stream!vars)
  BY <1>28 DEF Pending, Stream!vars, ingress, wrest, TearDown
<1> QED
  BY <1>1, <1>2, <1>3, <1>4, <1>5, <1>6, <1>7, <1>8, <1>9, <1>10, <1>11, <1>12,
     <1>13, <1>14, <1>15, <1>16, <1>17, <1>18, <1>19, <1>20, <1>21, <1>22,
     <1>23, <1>24, <1>25, <1>26, <1>27, <1>28 DEF Next, DispatchStep,
     WorkerStep, LoopStep

\* The Store implements ActionStream: no accepted action is lost, repeated or
\* overtaken while the loop runs, and Close drains what was accepted.
THEOREM StoreIsActionStream == Spec => IsActionStream
<1>1. Init => Stream!Init
  BY ConcatEmptySeq, EmptySeq DEF Init, Stream!Init, Pending
<1>2. IInv /\ [Next]_vars => [Stream!Next]_(Stream!vars)
  <2> SUFFICES ASSUME IInv, [Next]_vars PROVE [Stream!Next]_(Stream!vars)
    OBVIOUS
  <2>1. CASE Next
    BY <2>1, StreamStep
  <2>2. CASE UNCHANGED vars
    BY <2>2 DEF vars, ingress, wrest, lrest, Stream!vars, Pending
  <2> QED
    BY <2>1, <2>2
<1> QED
  BY <1>1, <1>2, StoreInvariant, PTL DEF Spec, IsActionStream, Stream!Spec
=============================================================================
