-------------------------------- MODULE MCCmd --------------------------------
(***************************************************************************)
(* Instances of Cmd for TLC.  A plain command runs without any event.      *)
(***************************************************************************)
EXTENDS CmdProperties

MCBound == [k \in Kinds |-> IF k = "plain" THEN 1 ELSE 2]
=============================================================================
