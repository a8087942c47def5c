------------------------------ MODULE MCStore -------------------------------
(***************************************************************************)
(* Instances of the Store for TLC: p1 is a goroutine like any other, p2    *)
(* dispatches from the OnChange of a subscriber.                           *)
(***************************************************************************)
EXTENDS StoreProperties, TLC

CONSTANTS p1, p2

\* Enough to log while reducing, to fill the queue again behind that batch, and
\* so to close the lock triangle; and to end the loop in every way.
KindsOf == p1 :> <<{"noisy", "log", "exit", "fatal", "panic"}, {"log"}>>
        @@ p2 :> <<{"log"}>>
\* Nothing but logs.
LogsOf == p1 :> <<{"log"}, {"log"}, {"log"}>> @@ p2 :> <<{"log"}>>
=============================================================================
