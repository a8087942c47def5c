--------------------------- MODULE MCBuildControl ---------------------------
(***************************************************************************)
(* Instances of the build scheduler for TLC: a local resource lint that is *)
(* built alone, a Kubernetes resource web, another one db.                 *)
(***************************************************************************)
EXTENDS BuildControlProperties

CONSTANTS lint, web, db, t1, t2

OneTarget   == [m \in Manifests |-> {t1}]
AllTargets  == [m \in Manifests |-> Targets]
Independent == [m \in Manifests |-> {}]

\* Two clicks, reloads and so on at most.
TwoEvents ==
  used["trigger"] + used["upsert"] + used["click"] + used["reload"] <= 2

WebAfterLint == [m \in Manifests |-> IF m = web THEN {lint} ELSE {}]
=============================================================================
