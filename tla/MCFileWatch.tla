----------------------------- MODULE MCFileWatch -----------------------------
(***************************************************************************)
(* Instances of FileWatch for TLC.                                         *)
(***************************************************************************)
EXTENDS FileWatchProperties

\* Fewer changes with more incidents; three are one more than a status keeps, and
\* with one incident enough for two loops to write into one history.
MCBounds == {[changes |-> 1, incidents |-> 2], [changes |-> 3, incidents |-> 1]}
=============================================================================
