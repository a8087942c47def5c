---------------------------- MODULE MCSubscribers ----------------------------
(***************************************************************************)
(* Instances of the subscriber list for TLC: s1 and s2 are registered      *)
(* before Loop, ws is the subscriber of a web socket.                      *)
(***************************************************************************)
EXTENDS SubscribersProperties

CONSTANTS s1, s2, ws

MCStatic == <<s1, s2>>
=============================================================================
