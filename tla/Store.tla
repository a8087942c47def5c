------------------------------- MODULE Store --------------------------------
(***************************************************************************)
(* The Redux-style store of internal/store/store.go: goroutines Dispatch   *)
(* actions into a queue, a drain worker hands the queue in batches to the  *)
(* control loop, and the loop reduces each batch under the write half of   *)
(* the state lock.  Log payloads are admitted against a byte budget that   *)
(* external dispatchers wait for on a condition variable.                  *)
(*                                                                         *)
(* A critical section of ingressMu is one step: it never blocks inside,    *)
(* except in Cond.Wait, which gives the mutex up.  Cond.Broadcast moves    *)
(* every waiter from "waiting" to "woken"; a woken goroutine takes the     *)
(* mutex again and repeats its check.  Everything else that can interleave *)
(* is a step of its own.  Store.mu is only contended by tests: left out.   *)
(***************************************************************************)
EXTENDS Integers, Sequences, FiniteSets

CONSTANTS Producers,          \* external goroutines that call Dispatch
          Subscribers,        \* those of them that do so from an OnChange
          ReadLockers,        \* those that hold the read lock meanwhile
          Loop,               \* the goroutine of Store.Loop
          MaxQueuedLogBytes,  \* maxQueuedLogBytes
          MaxPayload,         \* size of the largest log payload
          Kinds,              \* bound: the kinds of each producer's dispatches
          TerminalModeHUD,    \* state.TerminalMode = TerminalModeHUD
          Closing,            \* does some goroutine call Close?
          Cancelling          \* is the context of Loop ever cancelled?

ASSUME ThreadAssumption ==
  /\ Subscribers \subseteq Producers
  /\ ReadLockers \subseteq Producers
  /\ Loop \notin Producers
ASSUME BudgetAssumption ==
  /\ MaxQueuedLogBytes \in Nat
  /\ MaxPayload \in Nat \ {0}
ASSUME ModeAssumption ==
  /\ TerminalModeHUD \in BOOLEAN
  /\ Closing \in BOOLEAN /\ Cancelling \in BOOLEAN
  /\ Kinds \in [Producers ->
       Seq(SUBSET {"plain", "noisy", "log", "exit", "fatal", "panic"})]

Threads == Producers \cup {Loop}

(***************************************************************************)
(* An action is told apart by who dispatched it and by what the store does *)
(* with it: "log" carries a payload; "noisy" makes the reducer log;        *)
(* "exit", "fatal" and "panic" make the reducer set UserExited, set        *)
(* FatalError, and panic; "plain" is any other action.                     *)
(***************************************************************************)
Action == [src : Threads, n : Nat, bytes : 0..MaxPayload,
           kind : {"plain", "noisy", "log", "exit", "fatal", "panic"}]

NoAction == [src |-> Loop, n |-> 0, bytes |-> 0, kind |-> "plain"]

VARIABLES
  actionQueue, queuedLogBytes, closedStore, workerStopped,  \* under ingressMu
  actionReady,       \* is there a token in the channel of capacity one?
  ctxDone,           \* the context given to Loop
  readers, writeLocked,                       \* stateMu
  worker, workerBatch, workerClosed,          \* drainActions: pc and locals
  loop, loopBatch, exits, result, toTearDown, \* Loop: pc, batch, state, return
  pc, call, sent,    \* each thread's progress through Dispatch
  notified,          \* subscribers with a pending notification
  closer,            \* progress of the goroutine that calls Close
  reduced            \* history: what the reducer was given

ingress == <<actionQueue, queuedLogBytes, closedStore, workerStopped>>
locks   == <<readers, writeLocked>>
wrest   == <<workerBatch, workerClosed>>
lrest   == <<loopBatch, exits, result, toTearDown, reduced>>
drest   == <<call, sent, notified>>
env     == <<actionReady, ctxDone, closer>>
vars    == <<ingress, locks, worker, wrest, loop, lrest, pc, drest, env>>

-----------------------------------------------------------------------------
LogActionPayloadBytes(a) == IF a.kind = "log" THEN a.bytes ELSE 0

\* The reducer's own logger marks its actions; nobody else's are exempt.
NonBlockingIngress(a) == a.kind = "log" /\ a.src = Loop

\* The payload bytes of a batch, one element for each, and their number.
BytesOf(s) == {ib \in (DOMAIN s) \X (1..MaxPayload) :
                 ib[2] <= LogActionPayloadBytes(s[ib[1]])}

\* Mutant: charge every action of the batch with the largest payload.
MutBatchBytes(s) == Len(s) * MaxPayload

BatchBytes(s) == Cardinality(BytesOf(s))

\* Mutant: the Broadcast is missing.
MutWakeAll == pc

WakeAll == [t \in Threads |-> IF pc[t] = "waiting" THEN "woken" ELSE pc[t]]

MustWait(a) == /\ LogActionPayloadBytes(a) > 0
               /\ ~NonBlockingIngress(a)
               /\ queuedLogBytes > MaxQueuedLogBytes
               /\ ~closedStore
               /\ ~workerStopped

\* The worker's context is cancelled right after StopDrainWorker.
WorkerCtxDone == loop = "teardown" \/ (loop = "returned" /\ result # "setup")

StartWorker == worker' = IF worker = "none" THEN "wait" ELSE worker

Init ==
  /\ actionQueue = <<>> /\ queuedLogBytes = 0
  /\ closedStore = FALSE /\ workerStopped = FALSE
  /\ actionReady = FALSE /\ ctxDone = FALSE
  /\ readers = {} /\ writeLocked = FALSE
  /\ worker = "none" /\ workerBatch = <<>> /\ workerClosed = FALSE
  /\ loop = "setup" /\ loopBatch = <<>> /\ exits = {} /\ result = "none"
  /\ toTearDown = Subscribers
  /\ pc = [t \in Threads |-> "idle"]
  /\ call = [t \in Threads |-> NoAction]
  /\ sent = [t \in Threads |-> 0]
  /\ notified = {}
  /\ closer = "idle"
  /\ reduced = <<>>

-----------------------------------------------------------------------------
(* Dispatch *)

\* A producer decides to dispatch; a subscriber does so once per notification,
\* from OnChange; a reader first takes the read lock, for which a waiting
\* writer takes precedence (sync.RWMutex).
Begin(p) ==
  /\ pc[p] = "idle"
  /\ sent[p] < Len(Kinds[p])
  /\ p \in Subscribers => p \in notified
  /\ p \in ReadLockers => ~writeLocked /\ loop # "locking"
  /\ \E k \in Kinds[p][sent[p] + 1], b \in 1..MaxPayload :
       call' = [call EXCEPT ![p] = [src |-> p, n |-> sent[p] + 1, kind |-> k,
                                    bytes |-> IF k = "log" THEN b ELSE 0]]
  /\ pc' = [pc EXCEPT ![p] = "enter"]
  /\ sent' = [sent EXCEPT ![p] = @ + 1]
  /\ notified' = notified \ {p}
  /\ readers' = IF p \in ReadLockers THEN readers \cup {p} ELSE readers
  /\ UNCHANGED <<ingress, writeLocked, worker, wrest, loop, lrest, env>>

DispatchWait(t) ==
  /\ pc[t] \in {"enter", "woken"}
  /\ MustWait(call[t])
  /\ pc' = [pc EXCEPT ![t] = "waiting"]
  /\ UNCHANGED <<ingress, locks, worker, wrest, loop, lrest, drest, env>>

DispatchDrop(t) ==
  /\ pc[t] \in {"enter", "woken"}
  /\ closedStore \/ workerStopped
  /\ pc' = [pc EXCEPT ![t] = "return"]
  /\ UNCHANGED <<ingress, locks, worker, wrest, loop, lrest, drest, env>>

\* Mutant: exempt payload is not charged, though its release is.
MutDispatchAccept(t) ==
  /\ pc[t] \in {"enter", "woken"}
  /\ ~MustWait(call[t])
  /\ ~closedStore /\ ~workerStopped
  /\ queuedLogBytes' = queuedLogBytes +
       (IF NonBlockingIngress(call[t]) THEN 0 ELSE LogActionPayloadBytes(call[t]))
  /\ actionQueue' = Append(actionQueue, call[t])
  /\ StartWorker
  /\ pc' = [pc EXCEPT ![t] = "signal"]
  /\ UNCHANGED <<closedStore, workerStopped, locks, wrest, loop, lrest, drest,
                 env>>

DispatchAccept(t) ==
  /\ pc[t] \in {"enter", "woken"}
  /\ ~MustWait(call[t])
  /\ ~closedStore /\ ~workerStopped
  /\ queuedLogBytes' = queuedLogBytes + LogActionPayloadBytes(call[t])
  /\ actionQueue' = Append(actionQueue, call[t])
  /\ StartWorker
  /\ pc' = [pc EXCEPT ![t] = "signal"]
  /\ UNCHANGED <<closedStore, workerStopped, locks, wrest, loop, lrest, drest,
                 env>>

\* Mutant: the channel has no buffer, so only a waiting worker is told.
MutDispatchSignal(t) ==
  /\ pc[t] = "signal"
  /\ actionReady' = (worker = "wait")
  /\ pc' = [pc EXCEPT ![t] = "return"]
  /\ UNCHANGED <<ingress, locks, worker, wrest, loop, lrest, drest, ctxDone,
                 closer>>

DispatchSignal(t) ==
  /\ pc[t] = "signal"
  /\ actionReady' = TRUE
  /\ pc' = [pc EXCEPT ![t] = "return"]
  /\ UNCHANGED <<ingress, locks, worker, wrest, loop, lrest, drest, ctxDone,
                 closer>>

\* Dispatch returns; a reader releases the read lock.
Return(t) ==
  /\ pc[t] = "return"
  /\ pc' = [pc EXCEPT ![t] = "idle"]
  /\ call' = [call EXCEPT ![t] = NoAction]
  /\ readers' = readers \ {t}
  /\ UNCHANGED <<ingress, writeLocked, worker, wrest, loop, lrest, sent,
                 notified, env>>

-----------------------------------------------------------------------------
(* Close and the cancellation of the context given to Loop *)

Close ==
  /\ Closing /\ closer = "idle"
  /\ closedStore' = TRUE
  /\ pc' = WakeAll
  /\ IF workerStopped THEN UNCHANGED worker ELSE StartWorker
  /\ closer' = "signal"
  /\ UNCHANGED <<actionQueue, queuedLogBytes, workerStopped, locks, wrest,
                 loop, lrest, drest, actionReady, ctxDone>>

CloseSignal ==
  /\ closer = "signal"
  /\ actionReady' = TRUE
  /\ closer' = "done"
  /\ UNCHANGED <<ingress, locks, worker, wrest, loop, lrest, pc, drest,
                 ctxDone>>

CancelContext ==
  /\ Cancelling /\ ~ctxDone
  /\ ctxDone' = TRUE
  /\ UNCHANGED <<ingress, locks, worker, wrest, loop, lrest, pc, drest,
                 actionReady, closer>>

-----------------------------------------------------------------------------
(* drainActions: the worker *)

WorkerWake ==
  /\ worker = "wait"
  /\ actionReady
  /\ actionReady' = FALSE
  /\ worker' = "batch"
  /\ UNCHANGED <<ingress, locks, wrest, loop, lrest, pc, drest, ctxDone,
                 closer>>

\* The batching window ends with the context still alive.
WorkerSlept ==
  /\ worker = "batch"
  /\ ~WorkerCtxDone
  /\ worker' = "take"
  /\ UNCHANGED <<ingress, locks, wrest, loop, lrest, pc, drest, env>>

\* Every place where the worker looks at its context; a batch it holds is lost.
WorkerQuit ==
  /\ worker \in {"wait", "batch", "send"}
  /\ WorkerCtxDone
  /\ worker' = "cancelled"
  /\ UNCHANGED <<ingress, locks, wrest, loop, lrest, pc, drest, env>>

WorkerTake ==
  /\ worker = "take"
  /\ workerBatch' = actionQueue
  /\ actionQueue' = <<>>
  /\ workerClosed' = closedStore
  /\ worker' = IF actionQueue = <<>> THEN "recheck" ELSE "send"
  /\ UNCHANGED <<queuedLogBytes, closedStore, workerStopped, locks, loop,
                 lrest, pc, drest, env>>

\* The unbuffered channel actionCh: a send and a receive are one step.
HandOff ==
  /\ worker = "send" /\ loop = "select"
  /\ loopBatch' = workerBatch
  /\ workerBatch' = <<>>
  /\ worker' = "recheck"
  /\ loop' = "release"
  /\ UNCHANGED <<ingress, locks, workerClosed, exits, result, toTearDown,
                 reduced, pc, drest, env>>

\* Mutant: close the channel without looking at the queue again.
MutWorkerRecheck ==
  /\ worker = "recheck"
  /\ worker' = IF workerClosed \/ closedStore THEN "closed" ELSE "wait"
  /\ UNCHANGED <<ingress, locks, wrest, loop, lrest, pc, drest, env>>

WorkerRecheck ==
  /\ worker = "recheck"
  /\ worker' = IF (workerClosed \/ closedStore) /\ actionQueue = <<>>
                  THEN "closed" ELSE "wait"
  /\ UNCHANGED <<ingress, locks, wrest, loop, lrest, pc, drest, env>>

-----------------------------------------------------------------------------
(* Loop *)

\* An error of SetUp returns before any deferred function is registered.
SetUp ==
  /\ loop = "setup"
  /\ \/ loop' = "select" /\ UNCHANGED result
     \/ loop' = "returned" /\ result' = "setup"
  /\ UNCHANGED <<ingress, locks, worker, wrest, loopBatch, exits, toTearDown,
                 reduced, pc, drest, env>>

\* Mutant: the deferred functions run in the wrong order, TearDown first.
MutLeave(why) == loop' = "teardown" /\ result' = why

\* The deferred functions run next.
Leave(why) == loop' = "stop" /\ result' = why

LoopContextDone ==
  /\ loop = "select"
  /\ ctxDone
  /\ Leave("context")
  /\ UNCHANGED <<ingress, locks, worker, wrest, loopBatch, exits, toTearDown,
                 reduced, pc, drest, env>>

LoopClosed ==
  /\ loop = "select"
  /\ worker = "closed"
  /\ Leave("closed")
  /\ UNCHANGED <<ingress, locks, worker, wrest, loopBatch, exits, toTearDown,
                 reduced, pc, drest, env>>

ReleaseQueuedLogBytes ==
  /\ loop = "release"
  /\ queuedLogBytes' = queuedLogBytes - BatchBytes(loopBatch)
  /\ pc' = IF BatchBytes(loopBatch) = 0 THEN pc ELSE WakeAll
  /\ loop' = "lock"
  /\ UNCHANGED <<actionQueue, closedStore, workerStopped, locks, worker, wrest,
                 lrest, drest, env>>

\* stateMu.Lock, first half: from here on no reader gets in.
LoopLock ==
  /\ loop = "lock"
  /\ loop' = "locking"
  /\ UNCHANGED <<ingress, locks, worker, wrest, lrest, pc, drest, env>>

LoopLocked ==
  /\ loop = "locking"
  /\ readers = {}
  /\ writeLocked' = TRUE
  /\ loop' = "reduce"
  /\ UNCHANGED <<ingress, readers, worker, wrest, lrest, pc, drest, env>>

\* One call of the reducer.  After a fatal error it handles only the exit
\* action.  What it logs goes through Dispatch on the loop's own goroutine.
Reduce ==
  /\ loop = "reduce" /\ loopBatch # <<>> /\ pc[Loop] = "idle"
  /\ reduced' = Append(reduced, Head(loopBatch))
  /\ loopBatch' = Tail(loopBatch)
  /\ LET a == Head(loopBatch)
         ignored == "FatalError" \in exits /\ a.kind # "exit"
     IN /\ exits' = exits \cup (IF ignored THEN {} ELSE
                                IF a.kind = "exit" THEN {"UserExited"} ELSE
                                IF a.kind = "fatal" THEN {"FatalError"} ELSE {})
        /\ IF a.kind = "noisy" /\ ~ignored
             THEN /\ pc' = [pc EXCEPT ![Loop] = "enter"]
                  /\ sent' = [sent EXCEPT ![Loop] = @ + 1]
                  /\ \E b \in 1..MaxPayload :
                       call' = [call EXCEPT ![Loop] =
                         [src |-> Loop, n |-> sent[Loop] + 1, kind |-> "log",
                          bytes |-> b]]
             ELSE UNCHANGED <<pc, sent, call>>
        /\ IF a.kind = "panic" /\ ~ignored
             THEN Leave("panic") /\ writeLocked' = FALSE
             ELSE UNCHANGED <<loop, result, writeLocked>>
  /\ UNCHANGED <<ingress, readers, worker, wrest, toTearDown, notified, env>>

LoopUnlock ==
  /\ loop = "reduce" /\ loopBatch = <<>> /\ pc[Loop] = "idle"
  /\ writeLocked' = FALSE
  /\ loop' = "finish"
  /\ UNCHANGED <<ingress, readers, worker, wrest, lrest, pc, drest, env>>

\* maybeFinished, and NotifySubscribers when the loop goes on.  UserExited
\* stands for all that end Loop whatever the terminal mode: also PanicExited,
\* ExitSignal, and a FatalError that is context.Canceled.
LoopFinish ==
  /\ loop = "finish"
  /\ IF "UserExited" \in exits
       THEN Leave("exited") /\ UNCHANGED notified
     ELSE IF "FatalError" \in exits /\ ~TerminalModeHUD
       THEN Leave("fatal") /\ UNCHANGED notified
     ELSE loop' = "select" /\ notified' = Subscribers /\ UNCHANGED result
  /\ UNCHANGED <<ingress, locks, worker, wrest, loopBatch, exits, toTearDown,
                 reduced, pc, call, sent, env>>

StopDrainWorker ==
  /\ loop = "stop"
  /\ workerStopped' = TRUE
  /\ pc' = WakeAll
  /\ loop' = "cancel"
  /\ UNCHANGED <<actionQueue, queuedLogBytes, closedStore, locks, worker,
                 wrest, lrest, drest, env>>

CancelWorker ==
  /\ loop = "cancel"
  /\ loop' = "teardown"
  /\ UNCHANGED <<ingress, locks, worker, wrest, lrest, pc, drest, env>>

\* TearDown takes the mutex that is held during OnChange.
TearDown(p) ==
  /\ loop = "teardown"
  /\ p \in toTearDown
  /\ pc[p] = "idle"
  /\ toTearDown' = toTearDown \ {p}
  /\ UNCHANGED <<ingress, locks, worker, wrest, loop, loopBatch, exits, result,
                 reduced, pc, drest, env>>

LoopReturn ==
  /\ loop = "teardown"
  /\ toTearDown = {}
  /\ loop' = "returned"
  /\ UNCHANGED <<ingress, locks, worker, wrest, lrest, pc, drest, env>>

-----------------------------------------------------------------------------
DispatchStep(t) == \/ DispatchWait(t) \/ DispatchDrop(t) \/ DispatchAccept(t)
                   \/ DispatchSignal(t) \/ Return(t)

WorkerStep == \/ WorkerWake \/ WorkerSlept \/ WorkerQuit \/ WorkerTake
              \/ HandOff \/ WorkerRecheck

LoopStep == \/ SetUp \/ LoopContextDone \/ LoopClosed \/ ReleaseQueuedLogBytes
            \/ LoopLock \/ LoopLocked \/ Reduce \/ LoopUnlock \/ LoopFinish
            \/ StopDrainWorker \/ CancelWorker \/ LoopReturn
            \/ \E p \in Subscribers : TearDown(p)

Next == \/ \E p \in Producers : Begin(p)
        \/ \E t \in Threads : DispatchStep(t)
        \/ Close \/ CloseSignal \/ CancelContext
        \/ WorkerStep \/ LoopStep

Spec == Init /\ [][Next]_vars

\* The Go scheduler runs every goroutine that can run.  Nothing obliges a
\* producer to dispatch, anybody to call Close, or the context to end.
Fairness == /\ \A t \in Threads : WF_vars(DispatchStep(t))
            /\ WF_vars(CloseSignal)
            /\ WF_vars(WorkerStep)
            /\ WF_vars(LoopStep)

FairSpec == Spec /\ Fairness
=============================================================================
