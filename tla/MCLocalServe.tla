----------------------------- MODULE MCLocalServe -----------------------------
(***************************************************************************)
(* Instances of LocalServe for TLC.                                        *)
(***************************************************************************)
EXTENDS LocalServeProperties
=============================================================================
