---------------------------- MODULE ActionStream ----------------------------
(***************************************************************************)
(* What the Store of internal/store promises to the code that dispatches   *)
(* actions, with no goroutine, channel or lock in sight: one stream of     *)
(* actions, each applied to the state exactly once and in the order in     *)
(* which it was accepted.  The stream may be cut short, but a stream that  *)
(* ends because the Store was closed has applied everything it accepted.   *)
(***************************************************************************)
EXTENDS Naturals, Sequences

CONSTANT Action

VARIABLES pending,   \* accepted and not yet applied, oldest first
          applied,   \* the history of the reducer
          taking,    \* does the stream still accept actions?
          outcome    \* "running", or how the control loop ended

vars == <<pending, applied, taking, outcome>>

Init == /\ pending = <<>>
        /\ applied = <<>>
        /\ taking = TRUE
        /\ outcome = "running"

Accept == /\ taking
          /\ Len(pending') = Len(pending) + 1
          /\ pending'[Len(pending')] \in Action
          /\ pending' = Append(pending, pending'[Len(pending')])
          /\ UNCHANGED <<applied, taking, outcome>>

Apply == /\ outcome = "running"
         /\ pending # <<>>
         /\ applied' = Append(applied, Head(pending))
         /\ pending' = Tail(pending)
         /\ UNCHANGED <<taking, outcome>>

\* The reducer panics on the action it is given: the last one it ever sees.
Crash == /\ outcome = "running"
         /\ pending # <<>>
         /\ applied' = Append(applied, Head(pending))
         /\ pending' = Tail(pending)
         /\ outcome' = "aborted"
         /\ UNCHANGED taking

Refuse == /\ taking
          /\ taking' = FALSE
          /\ UNCHANGED <<pending, applied, outcome>>

Drained == /\ outcome = "running"
           /\ ~taking
           /\ pending = <<>>
           /\ outcome' = "drained"
           /\ UNCHANGED <<pending, applied, taking>>

Abort == /\ outcome = "running"
         /\ outcome' = "aborted"
         /\ UNCHANGED <<pending, applied, taking>>

Next == Accept \/ Apply \/ Crash \/ Refuse \/ Drained \/ Abort

Spec == Init /\ [][Next]_vars
=============================================================================
