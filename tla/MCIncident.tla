----------------------------- MODULE MCIncident -----------------------------
(***************************************************************************)
(* Instances of the incident workflow for TLC.  The scenarios are shaped   *)
(* like the fixtures in src/lpr_cpe_demo/fixtures: an action_sequence, of  *)
(* which the next entry is also the next-best alternative, or an           *)
(* action_by_cycle table.                                                  *)
(***************************************************************************)
EXTENDS IncidentProperties, TLC

Sequenced(actions) ==
  [k \in 1..Len(actions) |->
     [best |-> actions[k],
      next |-> IF k < Len(actions) THEN actions[k + 1] ELSE "none"]]

Fixture(actions) ==
  [valid |-> TRUE, evidence |-> TRUE, handover |-> FALSE, byCycle |-> FALSE,
   parent |-> "none", plan |-> Sequenced(actions)]

RemoteThenField == Fixture(<<"remote_reprovision", "clean_boots">>)
RemoteTwice     == Fixture(<<"remote_reprovision", "remote_reboot">>)
MrTwice         == Fixture(<<"dirty_boots_mr", "dirty_boots_mr">>)
SelfHelpOnly    == Fixture(<<"self_help">>)
CommonCause     ==
  [Fixture(<<"plant_action">>) EXCEPT !.parent = "PARENT-HFC-NODE-17"]
OdpHandover     ==
  [Fixture(<<"clean_boots", "dirty_boots_mr">>) EXCEPT !.handover = TRUE]
Invalid         == [Fixture(<<"remote_reprovision">>) EXCEPT !.valid = FALSE]
NoEvidence      == [Fixture(<<"remote_reprovision">>) EXCEPT !.evidence = FALSE]
Tabled          ==
  [Fixture(<<>>) EXCEPT !.byCycle = TRUE,
     !.plan = << [best |-> "remote_reboot", next |-> "joint_dispatch"],
                 [best |-> "joint_dispatch", next |-> "none"],
                 [best |-> "escalate", next |-> "none"] >>]

AllFixtures == {RemoteThenField, RemoteTwice, MrTwice, CommonCause, SelfHelpOnly,
                OdpHandover, Invalid, NoEvidence, Tabled}
RaceFixtures == {RemoteThenField}
Diagnosable ==
  {RemoteThenField, RemoteTwice, MrTwice, CommonCause, OdpHandover, Tabled}

-----------------------------------------------------------------------------
(* Cases that are on the reports already *)

Visit == [action |-> "clean_boots", attempt |-> 1, delimiter |-> "topology"]
Reprovision ==
  [action |-> "remote_reprovision", attempt |-> 1, delimiter |-> "unlocated"]
PlantWork == [action |-> "plant_action", attempt |-> 1, delimiter |-> "topology"]

Ended(sc, stage) ==
  [NewIncident(sc) EXCEPT !.stage = stage, !.status = stage, !.parent = sc.parent,
                          !.cycles = 1, !.opinion = "agree",
                          !.evidence = {<<"snapshot", 0>>}]

ClosedSibling ==
  [Ended(CommonCause, "closed") EXCEPT !.steps = 13, !.history = <<PlantWork>>,
     !.selected = "plant_action", !.candidates = {"plant_action"}, !.verified = TRUE]
RejectedSibling ==
  [Ended(CommonCause, "escalated") EXCEPT !.steps = 10, !.pending = PlantWork,
     !.selected = "plant_action", !.candidates = {"plant_action"},
     !.result = [ref |-> PlantWork, decision |-> "reject", option |-> "none"]]
NewSibling == NewIncident(CommonCause)
VisitedCase ==
  [Ended(RemoteThenField, "closed") EXCEPT !.steps = 23, !.cycles = 2,
     !.remote = 1, !.field = 1, !.history = <<Reprovision, Visit>>,
     !.evidence = {<<"snapshot", 0>>, <<"failed_action", 1>>, <<"snapshot", 1>>},
     !.selected = "clean_boots", !.candidates = {"clean_boots"}, !.verified = TRUE]

OtherCases == {ClosedSibling, RejectedSibling, NewSibling, VisitedCase}


\* Request threads are interchangeable.
Threads == Permutations(Workers)
=============================================================================
