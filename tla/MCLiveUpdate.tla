----------------------------- MODULE MCLiveUpdate -----------------------------
(***************************************************************************)
(* Instances of LiveUpdate for TLC.                                        *)
(***************************************************************************)
EXTENDS LiveUpdateProperties

CONSTANTS base, deploy

None == [edit |-> 0, trigger |-> 0, crash |-> 0, infra |-> 0, stale |-> 0]

Scenario(md, stopped, bounds) == [mode |-> md, stop |-> stopped, bounds |-> bounds]

\* Two edits, of one source or of both, which are got late or out of order.
TwoEdits == {Scenario({}, {}, [None EXCEPT !.edit = 2, !.stale = 2])}

\* An edit, with or without stop files, while the container may crash.
EditAndCrash ==
  {Scenario({}, {}, [None EXCEPT !.edit = 1, !.crash = 1]),
   Scenario({}, {deploy}, [None EXCEPT !.edit = 1, !.crash = 1, !.stale = 1])}

\* An edit of stop files, or of others, of a live update with an initial sync.
EditAndInitialSync ==
  {Scenario({"initial"}, {deploy}, [None EXCEPT !.edit = 1, !.stale = 1])}

\* An initial sync with a crash, with trouble on the way, or with a click.
InitialSyncs ==
  {Scenario({"initial"}, {}, [None EXCEPT ![b] = 1]) :
     b \in {"crash", "infra", "trigger"}}

\* The manual mode: an edit waits for a click, and a click without one builds.
ManualMode == {Scenario({"manual"}, {}, [None EXCEPT ![b] = 1, !.stale = 1]) :
                 b \in {"edit", "trigger"}}

\* Something goes wrong on the way to the container.
InfraTrouble == {Scenario({}, {}, [None EXCEPT !.edit = 1, !.infra = 1])}

\* Nothing but two edits.
JustEdits == {Scenario({}, {}, [None EXCEPT !.edit = 2])}

\* So it does at one of two edits, or when what is got is old.
MoreTrouble ==
  {Scenario({}, {}, [None EXCEPT !.edit = 1, !.infra = 1, !.stale = 2]),
   Scenario({}, {}, [None EXCEPT !.edit = 2, !.infra = 1])}

AllScenarios == TwoEdits \cup EditAndCrash \cup EditAndInitialSync
                \cup InitialSyncs \cup ManualMode \cup MoreTrouble
=============================================================================
