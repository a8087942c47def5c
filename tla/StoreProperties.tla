-------------------------- MODULE StoreProperties ---------------------------
(***************************************************************************)
(* What the Store guarantees: its invariants, the stream of actions that   *)
(* it implements, and what must eventually happen.                         *)
(***************************************************************************)
EXTENDS Store

\* Where everything accepted and not yet reduced is, oldest first.
Pending == loopBatch \o (workerBatch \o actionQueue)

\* The actions whose payload is still charged to the budget.
Charged == IF loop = "release" THEN Pending ELSE workerBatch \o actionQueue

\* Somebody has put work in the queue, or closed the store, and is about to
\* leave the token in actionReady.
SignalComing == closer = "signal" \/ \E t \in Threads : pc[t] = "signal"

-----------------------------------------------------------------------------
\* The types of the variables; the budget never goes negative.
TypeOK ==
  /\ actionQueue \in Seq(Action) /\ workerBatch \in Seq(Action)
  /\ loopBatch \in Seq(Action) /\ reduced \in Seq(Action)
  /\ queuedLogBytes \in Nat
  /\ closedStore \in BOOLEAN /\ workerStopped \in BOOLEAN
  /\ actionReady \in BOOLEAN /\ ctxDone \in BOOLEAN
  /\ workerClosed \in BOOLEAN /\ writeLocked \in BOOLEAN
  /\ readers \subseteq ReadLockers
  /\ notified \subseteq Subscribers /\ toTearDown \subseteq Subscribers
  /\ worker \in {"none", "wait", "batch", "take", "send", "recheck",
                 "closed", "cancelled"}
  /\ loop \in {"setup", "select", "release", "lock", "locking", "reduce",
               "finish", "stop", "cancel", "teardown", "returned"}
  /\ exits \subseteq {"UserExited", "FatalError"}
  /\ result \in {"none", "setup", "context", "closed", "exited", "fatal",
                 "panic"}
  /\ pc \in [Threads -> {"idle", "enter", "waiting", "woken", "signal",
                         "return"}]
  /\ call \in [Threads -> Action]
  /\ sent \in [Threads -> Nat]
  /\ closer \in {"idle", "signal", "done"}

\* No wake-up of logBudget is lost: a dispatcher only sleeps while the budget
\* is exhausted and the store still takes actions (Dispatch, Close,
\* stopDrainWorker and releaseQueuedLogBytes broadcast between them).
BudgetWaitersJustified ==
  \A t \in Threads : pc[t] = "waiting" =>
    /\ queuedLogBytes > MaxQueuedLogBytes
    /\ ~closedStore /\ ~workerStopped

\* The goroutine that reduces, and alone can free capacity, never sleeps on
\* the budget: the exemption of the loop logger reaches every action it makes.
ReducerNeverWaits == pc[Loop] # "waiting"

\* So nobody waits for budget who need not, or must not.
WaitersSound == BudgetWaitersJustified /\ ReducerNeverWaits

\* No wake-up of the worker is lost: when it sleeps on actionReady with work
\* to do (a queue to hand over, or a channel to close) the token is there or
\* somebody is on the way to leave it.
NoStrandedWork ==
  /\ actionQueue # <<>> => worker # "none"
  /\ worker = "wait" /\ (actionQueue # <<>> \/ closedStore)
       => actionReady \/ SignalComing

\* The budget is charged with exactly the payload that waits: each byte is
\* charged at admission and released when the loop receives its batch.
AccountingExact == queuedLogBytes = BatchBytes(Charged)

\* The payload in s that does not come from the reducer.
ExternalBytes(s) == Cardinality({ib \in BytesOf(s) : s[ib[1]].src # Loop})

\* "This bounds overshoot to one external payload": whatever the reducer logs
\* without waiting, external payload never exceeds the budget by more than
\* the payload that crossed it.
OvershootBounded ==
  ExternalBytes(Charged) <= MaxQueuedLogBytes + MaxPayload

\* So the budget is exact, and kept up to that payload.
BudgetSound == AccountingExact /\ OvershootBounded

\* The write lock excludes the readers, is held only while the loop reduces,
\* and is given back whichever way the reduction ends.
StateLockSound == writeLocked => readers = {} /\ loop = "reduce"

-----------------------------------------------------------------------------
(* The inductive invariant: what the goroutines' locals are at each point. *)

WorkerShape ==
  /\ worker \notin {"send", "cancelled"} => workerBatch = <<>>
  /\ worker = "none" => actionQueue = <<>>
  /\ workerClosed => closedStore
  /\ worker = "closed" => closedStore /\ actionQueue = <<>>

LoopShape ==
  /\ loop \in {"setup", "select", "finish"} => loopBatch = <<>>
  /\ result = "none"
       <=> loop \notin {"stop", "cancel", "teardown", "returned"}
  /\ call[Loop].src = Loop

\* From the moment the worker has taken the queue, whatever is added to it
\* comes with a token.
TokenComes ==
  worker \in {"wait", "send", "recheck"} /\ actionQueue # <<>>
    => actionReady \/ SignalComing

IInv == /\ TypeOK /\ WorkerShape /\ LoopShape
        /\ StateLockSound /\ ReducerNeverWaits /\ BudgetWaitersJustified
        /\ NoStrandedWork /\ TokenComes
        /\ AccountingExact /\ OvershootBounded

-----------------------------------------------------------------------------
Stream == INSTANCE ActionStream WITH
  pending <- Pending,
  applied <- reduced,
  taking  <- ~closedStore /\ ~workerStopped,
  outcome <- IF result = "none" THEN "running"
             ELSE IF result = "closed" THEN "drained" ELSE "aborted"

\* The queue, the worker's batch and the loop's batch together behave as one
\* FIFO stream: no accepted action is lost, repeated or overtaken while the
\* loop runs, and a loop that ends because of Close has reduced them all.
IsActionStream == Stream!Spec

-----------------------------------------------------------------------------
Running == loop # "returned"

\* The lock triangle: the loop waits for the write lock, and a reader under the
\* read lock for budget that only the loop can free.  It is reachable (see
\* LockIsGranted); only Close opens it, the end of the context does not.
LockTriangle == loop = "locking" /\ \E p \in readers : pc[p] = "waiting"

\* A dispatcher that slept on the budget returns, unless the lock triangle
\* closes: the loop frees what it receives, and Close and stopDrainWorker let
\* everybody go, a dispatcher caught in a triangle included.
DispatchReturns ==
  \A p \in Producers :
    pc[p] \in {"waiting", "woken"}
      ~> (pc[p] = "idle" \/ result = "setup" \/ LockTriangle)

\* An accepted action is reduced unless the loop comes to an end or the lock
\* triangle closes.
AcceptedIsReduced ==
  \A p \in Producers : \A n \in DOMAIN Kinds[p] :
    (\E i \in DOMAIN Pending : Pending[i].src = p /\ Pending[i].n = n)
      ~> \/ ~Running
         \/ LockTriangle
         \/ \E i \in DOMAIN reduced :
              reduced[i].src = p /\ reduced[i].n = n

\* Once the store is closed, the loop returns, even out of a lock triangle;
\* once its context ends, it does unless the triangle has closed.  A subscriber
\* that waits for budget inside OnChange, and so keeps TearDown out, has been
\* let go before (the order of the deferred functions).
LoopReturns ==
  /\ closedStore ~> loop = "returned"
  /\ ctxDone ~> (loop = "returned" \/ LockTriangle)

\* "releasing after stateMu would create a lock triangle that prevents the
\* reducer from ever running": releasing before stateMu must then let the loop
\* get the lock, readers that dispatch logs notwithstanding.
LockIsGranted == loop = "locking" ~> loop = "reduce"
=============================================================================
