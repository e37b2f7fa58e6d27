---------------------------- MODULE IncidentRules ----------------------------
(***************************************************************************)
(* The vocabulary of one incident and the deterministic rules that the     *)
(* workflow engine applies to it, as operators from incident records to    *)
(* incident records (workflow/engine.py, domain.py, controls.py).  Nothing *)
(* here touches shared state: module IncidentWorkflow interleaves these    *)
(* rules with the repository, the MCP effect store and the human reviewer. *)
(*                                                                         *)
(* Abstraction: titles, owners, SLA clocks, timelines, evidence payloads   *)
(* and RCA texts are left out.  An approval identifier and the action key  *)
(* it carries are hashes of the same durable tuple (controls.py), so both  *)
(* are modelled by that tuple, a Ref.                                      *)
(***************************************************************************)
EXTENDS Naturals, Sequences

CONSTANTS
  MaxRemote,   \* settings.max_remote_attempts
  MaxField,    \* settings.max_field_visits
  MaxMr,       \* settings.max_mr_attempts
  MaxCycles,   \* settings.max_diagnostic_cycles
  MaxSteps,    \* settings.graph_max_steps
  Scenarios    \* the scenario fixtures an incident may be started from

\* The settings fields are pydantic integers with a lower bound (ge=1, ge=10).
ASSUME BudgetAssumption ==
  /\ {MaxRemote, MaxField, MaxMr, MaxCycles} \subseteq Nat \ {0}
  /\ MaxSteps \in Nat /\ MaxSteps >= 10

-----------------------------------------------------------------------------
(* Vocabulary *)

TerminalStages == {"closed", "escalated", "quarantined"}

Stages ==
  {"new", "validate", "correlate", "evidence", "deterministic_rca", "llm_rca",
   "fusion", "action_ranking", "policy", "waiting_approval", "execute",
   "verify", "failure_review", "reconcile"} \union TerminalStages

Statuses == {"open", "waiting"} \union TerminalStages

RemoteActions == {"remote_reprovision", "remote_reboot"}
FieldActions  == {"clean_boots", "joint_dispatch"}

\* Actions for which some MCP tool exists.
EffectActions ==
  RemoteActions \union FieldActions \union
  {"self_help", "dirty_boots_mr", "plant_action"}

Actions == EffectActions \union {"manual_review", "monitor"}

\* Actions whose identifiers name the tap or ODP where responsibility changes.
LocatedActions == FieldActions \union {"dirty_boots_mr", "plant_action"}

Delimiters == {"unlocated", "topology", "handover"}

Refs == [action : Actions \union {"rca_review", "none"}, attempt : Nat,
         delimiter : Delimiters]

NoRef == [action |-> "none", attempt |-> 0, delimiter |-> "unlocated"]

Decisions == {"approve", "reject", "request_more", "override"}

\* What the reviewer may name as the alternative; "unknown" stands for every
\* string that is not an ActionType.
Options == Actions \union {"none", "unknown"}

\* A recorded human decision; also the approval_result that resumes a case.
Rulings == [ref : Refs, decision : Decisions \union {"none"}, option : Options]

NoRuling == [ref |-> NoRef, decision |-> "none", option |-> "none"]

\* One ranked step of a fixture: the best and the next-best action.
PlanSteps == [best : Actions \union {"escalate"}, next : Actions \union {"none"}]

\* A fixture with a common cause names the parent incident, the others "none".

ScenarioShape ==
  [valid : BOOLEAN, evidence : BOOLEAN, handover : BOOLEAN, byCycle : BOOLEAN,
   parent : STRING, plan : Seq(PlanSteps)]

ASSUME ScenarioAssumption ==
  /\ Scenarios \subseteq ScenarioShape
  /\ \A sc \in Scenarios : sc.byCycle => sc.plan # <<>>

Parents == {"none"} \union {sc.parent : sc \in Scenarios}

Opinions == {"none", "agree", "disagree", "unsure"}

Gates == {"none", "low_confidence", "domain_disagreement", "budget"}

Evidence == {"snapshot", "failed_action"} \X Nat

Incidents ==
  [stage : Stages, status : Statuses, steps : Nat, cycles : Nat,
   remote : Nat, selfHelp : Nat, field : Nat, mr : Nat,
   history : Seq(Refs), candidates : SUBSET Actions,
   selected : Actions \union {"none"}, opinion : Opinions, gate : Gates,
   pending : Refs, result : Rulings, delimiter : Delimiters,
   evidence : SUBSET Evidence, verified : BOOLEAN, parent : Parents,
   scenario : Scenarios]

Terminal(s) == s.stage \in TerminalStages

\* The reviewer's kind of approval: actions without a tool fall back to an RCA
\* review, like the RCA gate itself.
IsRcaReview(action) == action \notin EffectActions

NewIncident(sc) ==
  [stage |-> "new", status |-> "open", steps |-> 0, cycles |-> 0,
   remote |-> 0, selfHelp |-> 0, field |-> 0, mr |-> 0,
   history |-> <<>>, candidates |-> {}, selected |-> "none",
   opinion |-> "none", gate |-> "none", pending |-> NoRef,
   result |-> NoRuling, delimiter |-> "topology", evidence |-> {},
   verified |-> FALSE, parent |-> "none", scenario |-> sc]

-----------------------------------------------------------------------------
(* Identifiers and attempt counters *)

AttemptFor(s, a) ==
  CASE a \in RemoteActions      -> s.remote + 1
    [] a = "self_help"          -> s.selfHelp + 1
    [] a \in FieldActions       -> s.field + 1
    [] a = "dirty_boots_mr"     -> s.mr + 1
    [] OTHER                    -> Len(s.history) + 1

CountAttempt(s, a) ==
  [s EXCEPT !.remote   = IF a \in RemoteActions THEN @ + 1 ELSE @,
            !.selfHelp = IF a = "self_help" THEN @ + 1 ELSE @,
            !.field    = IF a \in FieldActions THEN @ + 1 ELSE @,
            !.mr       = IF a = "dirty_boots_mr" THEN @ + 1 ELSE @]

\* Mutant: every RCA review of an incident shares one identifier.
RefForAnyCycle(s, a) ==
  [action    |-> a,
   attempt   |-> IF a # "rca_review" THEN AttemptFor(s, a) ELSE 0,
   delimiter |-> IF a \in LocatedActions THEN s.delimiter ELSE "unlocated"]

RefFor(s, a) ==
  [action    |-> a,
   attempt   |-> IF a # "rca_review" THEN AttemptFor(s, a)
                 ELSE IF s.cycles = 0 THEN 0 ELSE s.cycles - 1,
   delimiter |-> IF a \in LocatedActions THEN s.delimiter ELSE "unlocated"]

-----------------------------------------------------------------------------
(* Handlers: what each stage does to the incident in memory *)

Moved(s, stage) == [s EXCEPT !.stage = stage]

\* Clearing the approval is one idea of the engine: the case runs again.
Released(s, stage) ==
  [s EXCEPT !.stage = stage, !.status = "open", !.pending = NoRef,
            !.result = NoRuling]

Escalated(s) == [s EXCEPT !.stage = "escalated", !.status = "escalated"]

EscalatedOnBudget(s) == [Escalated(s) EXCEPT !.gate = "budget"]

Validated(s) ==
  IF s.scenario.valid THEN Moved(s, "correlate")
  ELSE [s EXCEPT !.stage = "quarantined", !.status = "quarantined"]

\* A case with a common cause is attached to its parent incident.
Correlated(s) == [s EXCEPT !.stage = "evidence", !.parent = s.scenario.parent]

\* Snapshot evidence is named by the cycle it was read in, so reading the same
\* cycle twice adds nothing.
Observed(s) ==
  LET seen == [s EXCEPT !.cycles = @ + 1,
                        !.evidence = IF s.scenario.evidence
                                     THEN @ \union {<<"snapshot", s.cycles>>}
                                     ELSE @]
  IN  IF seen.cycles > MaxCycles THEN EscalatedOnBudget(seen)
      ELSE Moved(seen, "deterministic_rca")

\* The confidence threshold is tested before the domains are compared.
GateFor(opinion) ==
  CASE opinion = "unsure"   -> "low_confidence"
    [] opinion = "disagree" -> "domain_disagreement"
    [] OTHER                -> "none"

PlanIndex(s) ==
  IF ~s.scenario.byCycle THEN Len(s.history) + 1
  ELSE IF s.cycles <= 1 THEN 1
  ELSE IF s.cycles > Len(s.scenario.plan) THEN Len(s.scenario.plan)
  ELSE s.cycles

Ranked(s) ==
  LET k == PlanIndex(s)
      p == s.scenario.plan[k]
  IN  IF k > Len(s.scenario.plan) \/ p.best = "escalate" THEN Escalated(s)
      ELSE [s EXCEPT !.stage = "policy", !.selected = p.best,
                     !.candidates = {p.best, p.next} \ {"none"}]

\* _resume_approval.  An alternative action returns through policy with its
\* approval cleared; the original approval never reaches execution.
Resumed(s) ==
  LET r == s.result
      chosen == [s EXCEPT !.selected = r.option]
  IN  CASE r.decision = "request_more" -> Released(s, "evidence")
        [] r.decision = "reject"       -> Escalated(s)
        [] r.decision \in {"approve", "override"} /\ IsRcaReview(r.ref.action)
             -> Released(s, "action_ranking")
        [] /\ r.decision = "override" /\ r.option # "none"
           /\ ~IsRcaReview(r.ref.action)
             -> IF r.option \notin s.candidates THEN Escalated(s)
                ELSE IF r.option # r.ref.action THEN Released(chosen, "policy")
                ELSE [chosen EXCEPT !.stage = "execute", !.status = "open"]
        [] OTHER -> [s EXCEPT !.stage = "execute", !.status = "open"]

\* The tail of _execute, once the effect's result is known.  The attempt is
\* counted even when the effect was replayed; the history entry is not added
\* twice for one action key.
Executed(s) ==
  LET ref  == s.result.ref
      done == \E k \in 1..Len(s.history) : s.history[k] = ref
  IN  [CountAttempt(s, s.selected) EXCEPT
         !.history   = IF done THEN @ ELSE Append(@, ref),
         !.delimiter = IF s.selected = "clean_boots" /\ s.scenario.handover
                       THEN "handover" ELSE @,
         !.pending = NoRef, !.result = NoRuling, !.stage = "verify"]

Verified(s, passed) ==
  IF s.history = <<>> THEN Escalated(s)
  ELSE [s EXCEPT !.verified = passed,
                 !.stage = IF passed THEN "reconcile" ELSE "failure_review"]

\* Mutant: one attempt too many.
BudgetOverspent(s) ==
  \/ s.remote > MaxRemote
  \/ s.field > MaxField
  \/ s.mr > MaxMr

BudgetSpent(s) ==
  \/ s.remote >= MaxRemote
  \/ s.field >= MaxField
  \/ s.mr >= MaxMr

\* Mutant: the next action is ranked without a new diagnostic cycle.
ReviewedWithoutRca(s) ==
  IF BudgetSpent(s) THEN EscalatedOnBudget(s)
  ELSE IF Len(s.history) >= Len(s.scenario.plan) THEN Escalated(s)
  ELSE [s EXCEPT !.evidence = @ \union {<<"failed_action", Len(s.history)>>},
                 !.stage = "action_ranking"]

Reviewed(s) ==
  IF BudgetSpent(s) THEN EscalatedOnBudget(s)
  ELSE IF Len(s.history) >= Len(s.scenario.plan) THEN Escalated(s)
  ELSE [s EXCEPT !.evidence = @ \union {<<"failed_action", Len(s.history)>>},
                 !.stage = "evidence"]

Reconciled(s) == [s EXCEPT !.stage = "closed", !.status = "closed"]
=============================================================================
