--------------------------- MODULE IncidentProofs ---------------------------
(***************************************************************************)
(* Theorems about one incident, for every set of workers, every budget and *)
(* every set of fixtures.                                                  *)
(*                                                                         *)
(* Why an effect is authorised cannot be read off the step that commits    *)
(* it: the call was sent by a request whose copy of the incident may be    *)
(* older than the row, on a decision loaded by yet another request.  IInv  *)
(* therefore follows the authority through every copy: from a pending      *)
(* approval (Waits), through the stage "execute" (Cleared) to the call on  *)
(* the wire, and through the steps of a decision request.                  *)
(*                                                                         *)
(* CaseInv is about what a copy says of the case.  Whatever the requests   *)
(* overwrite, each copy was made by the rules from an earlier one, so that *)
(* it is good (Good) against the effects and rulings there are: these only *)
(* grow, and the rules keep it (the rule lemmas before it).                *)
(*                                                                         *)
(* What blind saves destroy holds of requests that do not overlap          *)
(* (OneAtATime), any number of them, lost anywhere and with calls served   *)
(* late: an approval is decided once (DecidedOnce), the row accounts for   *)
(* everything that was sent (LedgerInv), and what is pending is what the   *)
(* row waits for or asks for again (AwaitedInv).                           *)
(*                                                                         *)
(* The reports are computed from the row and those of other cases.  That   *)
(* its counters are the attempts in its history, its status that of its    *)
(* stage, its parent that of its fixture and the selected action the one   *)
(* that acted last (ToldInv) holds of every copy, whatever overlaps; with  *)
(* LedgerInv and AwaitedInv it makes the reports true, beside any case.    *)
(***************************************************************************)
EXTENDS IncidentProperties, TLAPS, FiniteSetTheorems

-----------------------------------------------------------------------------
(* The rules: each takes an incident to an incident *)

LEMMA NewIncidentType ==
  ASSUME NEW sc \in Scenarios PROVE NewIncident(sc) \in Incidents
<1>1. "none" \in Parents
  BY DEF Parents
<1> QED BY <1>1 DEF NewIncident, Incidents, Stages, Statuses, Opinions, Gates, NoRef,
           Refs, Delimiters, NoRuling, Rulings, Options

LEMMA AttemptForType ==
  ASSUME NEW s \in Incidents, NEW a PROVE AttemptFor(s, a) \in Nat
<1>1. s.remote \in Nat /\ s.selfHelp \in Nat /\ s.field \in Nat /\ s.mr \in Nat
  BY DEF Incidents
<1>2. s.history \in Seq(Refs)
  BY DEF Incidents
<1>3. Len(s.history) \in Nat
  BY <1>2
<1> QED BY <1>1, <1>3 DEF AttemptFor

LEMMA RefForType ==
  ASSUME NEW s \in Incidents, NEW a \in Actions \union {"rca_review", "none"}
  PROVE  RefFor(s, a) \in Refs
<1>1. s.cycles \in Nat /\ s.delimiter \in Delimiters
  BY DEF Incidents
<1> QED BY <1>1, AttemptForType DEF RefFor, Refs, Delimiters

LEMMA MovedType ==
  ASSUME NEW s \in Incidents, NEW stage \in Stages
  PROVE  Moved(s, stage) \in Incidents
BY DEF Moved, Incidents

LEMMA ReleasedType ==
  ASSUME NEW s \in Incidents, NEW stage \in Stages
  PROVE  Released(s, stage) \in Incidents
BY DEF Released, Incidents, Statuses, NoRef, Refs, Delimiters, NoRuling,
       Rulings, Options

LEMMA EscalatedType ==
  ASSUME NEW s \in Incidents
  PROVE  Escalated(s) \in Incidents /\ EscalatedOnBudget(s) \in Incidents
BY ZenonT(60) DEF Escalated, EscalatedOnBudget, Incidents, Stages, Statuses,
       TerminalStages, Gates

LEMMA ValidatedType ==
  ASSUME NEW s \in Incidents PROVE Validated(s) \in Incidents
BY ZenonT(60) DEF Validated, Moved, Incidents, Stages, Statuses, TerminalStages

LEMMA CorrelatedType ==
  ASSUME NEW s \in Incidents
  PROVE  Correlated(s) \in Incidents /\ Correlated(s).stage = "evidence"
<1>1. s.scenario.parent \in Parents
  BY DEF Incidents, Parents
<1> DEFINE p == s.scenario.parent
<1> HIDE DEF p
<1>2. [s EXCEPT !.stage = "evidence", !.parent = p] \in Incidents
  BY <1>1 DEF Incidents, Stages, p
<1>3. [s EXCEPT !.stage = "evidence", !.parent = p].stage = "evidence"
  BY DEF Incidents
<1> QED BY <1>2, <1>3 DEF Correlated, p

LEMMA ObservedType ==
  ASSUME NEW s \in Incidents PROVE Observed(s) \in Incidents
<1> DEFINE e == IF s.scenario.evidence
                THEN s.evidence \union {<<"snapshot", s.cycles>>} ELSE s.evidence
           seen == [s EXCEPT !.cycles = @ + 1, !.evidence = e]
<1>1. e \in SUBSET Evidence
  BY DEF Incidents, Evidence
<1>2. seen \in Incidents
  <2>1. s.cycles + 1 \in Nat
    BY DEF Incidents
  <2> DEFINE c == s.cycles + 1
  <2> HIDE DEF e, c
  <2>2. c \in Nat
    BY <2>1 DEF c
  <2>3. [s EXCEPT !.cycles = c, !.evidence = e] \in Incidents
    BY <1>1, <2>2 DEF Incidents
  <2> QED BY <2>3 DEF c
<1>3. Moved(seen, "deterministic_rca") \in Incidents
  BY <1>2, MovedType DEF Stages
<1>4. EscalatedOnBudget(seen) \in Incidents
  BY <1>2, EscalatedType
<1> HIDE DEF seen
<1>5. Observed(s) \in {Moved(seen, "deterministic_rca"), EscalatedOnBudget(seen)}
  BY DEF Observed, seen, e
<1> QED BY <1>3, <1>4, <1>5

LEMMA PlanIndexType ==
  ASSUME NEW s \in Incidents
  PROVE  /\ PlanIndex(s) \in Nat \ {0}
         /\ PlanIndex(s) <= Len(s.scenario.plan) =>
              s.scenario.plan[PlanIndex(s)] \in PlanSteps
<1>1. s.scenario \in Scenarios /\ s.cycles \in Nat /\ s.history \in Seq(Refs)
  BY DEF Incidents
<1>2. /\ s.scenario.plan \in Seq(PlanSteps)
      /\ s.scenario.byCycle => s.scenario.plan # <<>>
  BY <1>1, ScenarioAssumption DEF ScenarioShape
<1>3. Len(s.history) \in Nat /\ Len(s.scenario.plan) \in Nat
  BY <1>1, <1>2
<1>4. s.scenario.plan # <<>> => Len(s.scenario.plan) # 0
  BY <1>2
<1>5. PlanIndex(s) \in Nat \ {0}
  BY <1>1, <1>2, <1>3, <1>4 DEF PlanIndex
<1> QED BY <1>2, <1>3, <1>5

LEMMA RankedType ==
  ASSUME NEW s \in Incidents PROVE Ranked(s) \in Incidents
<1> DEFINE k == PlanIndex(s)
           p == s.scenario.plan[k]
           t == [s EXCEPT !.stage = "policy", !.selected = p.best,
                          !.candidates = {p.best, p.next} \ {"none"}]
<1>1. CASE k > Len(s.scenario.plan) \/ p.best = "escalate"
  BY <1>1, EscalatedType DEF Ranked
<1>2. CASE ~(k > Len(s.scenario.plan) \/ p.best = "escalate")
  <2>1. s.scenario.plan \in Seq(PlanSteps)
    BY ScenarioAssumption DEF Incidents, ScenarioShape
  <2>2. k <= Len(s.scenario.plan)
    BY <1>2, <2>1, PlanIndexType
  <2>3. p \in PlanSteps
    BY <2>2, PlanIndexType
  <2>4. p.best \in Actions /\ p.next \in Actions \union {"none"}
    BY <1>2, <2>3 DEF PlanSteps
  <2>5. {p.best, p.next} \ {"none"} \in SUBSET Actions
    BY <2>4
  <2> HIDE DEF p, k
  <2>6. t \in Incidents
    BY <2>4, <2>5 DEF Incidents, Stages
  <2> QED BY <1>2, <2>6 DEF Ranked, p, k
<1> QED BY <1>1, <1>2

LEMMA ResumedType ==
  ASSUME NEW s \in Incidents PROVE Resumed(s) \in Incidents
<1> DEFINE r == s.result
           chosen == [s EXCEPT !.selected = r.option]
<1>1. r.option \in s.candidates => chosen \in Incidents
  BY DEF Incidents
<1>2. Released(s, "evidence") \in Incidents /\ Released(s, "action_ranking") \in Incidents
  BY ReleasedType DEF Stages
<1>3. r.option \in s.candidates => Released(chosen, "policy") \in Incidents
  BY <1>1, ReleasedType DEF Stages
<1>4. \A t \in Incidents : [t EXCEPT !.stage = "execute", !.status = "open"] \in Incidents
  BY ZenonT(60) DEF Incidents, Stages, Statuses
<1>5. Escalated(s) \in Incidents
  BY EscalatedType
<1> HIDE DEF chosen
<1> QED BY <1>1, <1>2, <1>3, <1>4, <1>5 DEF Resumed, chosen

LEMMA CountAttemptType ==
  ASSUME NEW s \in Incidents, NEW a
  PROVE  /\ CountAttempt(s, a) \in Incidents
         /\ CountAttempt(s, a).history = s.history
         /\ CountAttempt(s, a).delimiter = s.delimiter
<1> DEFINE remote   == IF a \in RemoteActions THEN s.remote + 1 ELSE s.remote
           selfHelp == IF a = "self_help" THEN s.selfHelp + 1 ELSE s.selfHelp
           field    == IF a \in FieldActions THEN s.field + 1 ELSE s.field
           mr       == IF a = "dirty_boots_mr" THEN s.mr + 1 ELSE s.mr
           t == [s EXCEPT !.remote = remote, !.selfHelp = selfHelp,
                          !.field = field, !.mr = mr]
<1>1. remote \in Nat /\ selfHelp \in Nat /\ field \in Nat /\ mr \in Nat
  BY DEF Incidents
<1>2. CountAttempt(s, a) = t
  BY DEF CountAttempt
<1> HIDE DEF remote, selfHelp, field, mr
<1>3. t \in Incidents /\ t.history = s.history /\ t.delimiter = s.delimiter
  BY <1>1 DEF Incidents
<1> QED BY <1>2, <1>3

LEMMA ExecutedType ==
  ASSUME NEW s \in Incidents PROVE Executed(s) \in Incidents
<1> DEFINE done == \E k \in 1..Len(s.history) : s.history[k] = s.result.ref
<1>1. s.result.ref \in Refs /\ s.history \in Seq(Refs) /\ s.delimiter \in Delimiters
  BY DEF Incidents, Rulings
<1>2. CountAttempt(s, s.selected) \in Incidents
  BY CountAttemptType
<1>3. CountAttempt(s, s.selected).history = s.history
      /\ CountAttempt(s, s.selected).delimiter = s.delimiter
  BY CountAttemptType
<1>4. Append(s.history, s.result.ref) \in Seq(Refs)
  BY <1>1
<1>5. NoRef \in Refs /\ NoRuling \in Rulings
  BY DEF NoRef, Refs, Delimiters, NoRuling, Rulings, Options
<1>6. "handover" \in Delimiters /\ "verify" \in Stages
  BY DEF Delimiters, Stages
<1> DEFINE h == IF done THEN s.history ELSE Append(s.history, s.result.ref)
           d == IF s.selected = "clean_boots" /\ s.scenario.handover
                THEN "handover" ELSE s.delimiter
           c == CountAttempt(s, s.selected)
<1>7. h \in Seq(Refs) /\ d \in Delimiters
  BY <1>1, <1>4, <1>6
<1>8. Executed(s) = [c EXCEPT !.history = h, !.delimiter = d, !.pending = NoRef,
                              !.result = NoRuling, !.stage = "verify"]
  BY <1>3 DEF Executed
<1> HIDE DEF h, d, c
<1> QED BY <1>2, <1>5, <1>6, <1>7, <1>8, ZenonT(60) DEF Incidents, c

LEMMA VerifiedType ==
  ASSUME NEW s \in Incidents, NEW passed \in BOOLEAN
  PROVE  Verified(s, passed) \in Incidents
<1> DEFINE stage == IF passed THEN "reconcile" ELSE "failure_review"
<1>1. stage \in Stages
  BY DEF Stages
<1> HIDE DEF stage
<1>2. [s EXCEPT !.verified = passed, !.stage = stage] \in Incidents
  BY <1>1 DEF Incidents
<1> QED BY <1>2, EscalatedType DEF Verified, stage

LEMMA ReviewedType ==
  ASSUME NEW s \in Incidents PROVE Reviewed(s) \in Incidents
<1>1. Len(s.history) \in Nat
  BY DEF Incidents
<1>2. <<"failed_action", Len(s.history)>> \in Evidence
  BY <1>1 DEF Evidence
<1> DEFINE e == <<"failed_action", Len(s.history)>>
<1> HIDE DEF e
<1>3. [s EXCEPT !.evidence = @ \union {e}, !.stage = "evidence"] \in Incidents
  BY <1>2 DEF Incidents, Stages, e
<1> QED BY <1>3, EscalatedType DEF Reviewed, e

LEMMA ReconciledType ==
  ASSUME NEW s \in Incidents PROVE Reconciled(s) \in Incidents
BY DEF Reconciled, Incidents, Stages, Statuses, TerminalStages
-----------------------------------------------------------------------------
(* What every copy of an incident says of itself *)

\* The stages before the evidence of a cycle is read, and those of one cycle up
\* to its action.
Arriving == {"new", "validate", "correlate", "evidence"}

Diagnosing == {"deterministic_rca", "llm_rca", "fusion", "action_ranking",
               "policy", "waiting_approval", "execute"}

\* Every attempt belongs to a diagnostic cycle of its own, and whatever is under
\* way has read the evidence of the last failure.
Evidenced(s) ==
  /\ Len(s.history) <= s.cycles
  /\ s.stage \in Diagnosing => Len(s.history) < s.cycles
  /\ s.stage \in Arriving \union Diagnosing /\ Len(s.history) > 0
       => <<"failed_action", Len(s.history)>> \in s.evidence

\* The history claims only effects of E, and what is to be closed has passed.
Confirmed(s, E) ==
  /\ \A k \in 1..Len(s.history) : s.history[k] \in E
  /\ s.stage \in {"reconcile", "closed"} => s.verified /\ s.history # <<>>

Doubted(s) == s.opinion \in {"disagree", "unsure"}

PastGate(s) ==
  \/ s.stage \in {"action_ranking", "policy", "execute", "verify",
                  "failure_review", "reconcile", "closed"}
  \/ s.stage = "waiting_approval" /\ s.pending.action # "rca_review"

\* A ruling of R lets the RCA of this cycle pass.
LetPass(s, R) ==
  \E r \in R : r.ref = RefFor(s, "rca_review") /\ r.decision \in {"approve", "override"}

\* A doubted RCA is past the gate only by such a ruling, and while the case waits
\* for one it waits for the review of this very cycle.
Gated(s, R) ==
  /\ Doubted(s) /\ PastGate(s) => LetPass(s, R)
  /\ s.stage = "waiting_approval" /\ s.pending.action = "rca_review"
       => s.pending = RefFor(s, "rca_review")

\* The counters keep to the ceilings, strictly so before an action, and a case
\* waits for, or executes, the attempt that its counters announce.
Budgeted(s) ==
  /\ s.remote <= MaxRemote /\ s.field <= MaxField /\ s.mr <= MaxMr
  /\ s.stage \in Arriving \union Diagnosing => ~BudgetSpent(s)
  /\ \/ s.stage = "execute"
     \/ s.stage = "waiting_approval" /\ ~IsRcaReview(s.pending.action)
     => s.pending = RefFor(s, s.pending.action)

Good(s, E, R) ==
  Evidenced(s) /\ Confirmed(s, E) /\ Gated(s, R) /\ Budgeted(s)

\* Effects and rulings are only added to.
LEMMA GoodGrows ==
  ASSUME NEW s, NEW E, NEW R, NEW F, NEW Q, E \subseteq F, R \subseteq Q, Good(s, E, R)
  PROVE  Good(s, F, Q)
BY DEF Good, Confirmed, Gated, LetPass

\* The fields that the approval identifiers are derived from.
SameCounts(s, t) ==
  /\ t.history = s.history /\ t.cycles = s.cycles /\ t.delimiter = s.delimiter
  /\ t.remote = s.remote /\ t.selfHelp = s.selfHelp
  /\ t.field = s.field /\ t.mr = s.mr

LEMMA RefForSame ==
  ASSUME NEW s, NEW t, NEW a, SameCounts(s, t)
  PROVE  RefFor(t, a) = RefFor(s, a)
<1>1. AttemptFor(t, a) = AttemptFor(s, a)
  BY DEF AttemptFor, SameCounts
<1> QED BY <1>1 DEF RefFor, SameCounts

\* A step that counts nothing keeps an incident good when it goes back to no
\* earlier stage, passes the gate with a ruling, and closes what has passed.
LEMMA GoodMoves ==
  ASSUME NEW s, NEW t, NEW E, NEW R, Good(s, E, R), SameCounts(s, t),
         s.evidence \subseteq t.evidence,
         t.stage \in Arriving => s.stage \in Arriving \union Diagnosing,
         t.stage \in Diagnosing => s.stage \in Diagnosing,
         t.stage \in {"reconcile", "closed"} => t.verified /\ t.history # <<>>,
         Doubted(t) /\ PastGate(t) => LetPass(s, R),
         t.stage = "waiting_approval" /\ t.pending.action = "rca_review"
           => t.pending = RefFor(s, "rca_review"),
         \/ t.stage = "execute"
         \/ t.stage = "waiting_approval" /\ ~IsRcaReview(t.pending.action)
         => t.pending = RefFor(s, t.pending.action)
  PROVE  Good(t, E, R)
<1>1. \A a : RefFor(t, a) = RefFor(s, a)
  BY RefForSame
<1>2. LetPass(s, R) => LetPass(t, R)
  BY <1>1 DEF LetPass
<1>3. Evidenced(t)
  BY DEF Good, Evidenced, SameCounts
<1>4. Confirmed(t, E)
  BY DEF Good, Confirmed, SameCounts
<1>5. Gated(t, R)
  BY <1>1, <1>2 DEF Gated
<1>6. Budgeted(t)
  BY <1>1 DEF Good, Budgeted, SameCounts, BudgetSpent
<1> QED BY <1>3, <1>4, <1>5, <1>6 DEF Good

-----------------------------------------------------------------------------
(* The rules keep an incident good *)

LEMMA NewIncidentGood ==
  ASSUME NEW sc, NEW E, NEW R PROVE Good(NewIncident(sc), E, R)
<1> DEFINE s == NewIncident(sc)
<1>1. /\ s.stage = "new" /\ s.opinion = "none" /\ s.history = <<>> /\ s.cycles = 0
      /\ s.remote = 0 /\ s.field = 0 /\ s.mr = 0
  BY DEF NewIncident
<1> HIDE DEF s
<1>2. Len(s.history) = 0
  BY <1>1
<1>3. Evidenced(s)
  BY <1>1, <1>2 DEF Evidenced, Diagnosing
<1>4. Confirmed(s, E) /\ Gated(s, R)
  BY <1>1, <1>2 DEF Confirmed, Gated, Doubted
<1>5. Budgeted(s)
  BY <1>1, BudgetAssumption DEF Budgeted, BudgetSpent
<1> QED BY <1>3, <1>4, <1>5 DEF Good, s

\* Counting a step, attaching a decision or noting the gate changes nothing of this.
LEMMA NotedGood ==
  ASSUME NEW s \in Incidents, NEW E, NEW R, Good(s, E, R), NEW t,
         SameCounts(s, t), t.evidence = s.evidence, t.stage = s.stage,
         t.verified = s.verified, t.opinion = s.opinion, t.pending = s.pending
  PROVE  Good(t, E, R)
<1>1. Doubted(t) /\ PastGate(t) => LetPass(s, R)
  BY DEF Good, Gated, Doubted, PastGate
<1>2. t.stage \in {"reconcile", "closed"} => t.verified /\ t.history # <<>>
  BY DEF Good, Confirmed, SameCounts
<1>3. t.stage = "waiting_approval" /\ t.pending.action = "rca_review"
        => t.pending = RefFor(s, "rca_review")
  BY DEF Good, Gated
<1>4. \/ t.stage = "execute"
      \/ t.stage = "waiting_approval" /\ ~IsRcaReview(t.pending.action)
      => t.pending = RefFor(s, t.pending.action)
  BY DEF Good, Budgeted
<1> QED BY <1>1, <1>2, <1>3, <1>4, GoodMoves

LEMMA CountedGood ==
  ASSUME NEW s \in Incidents, NEW E, NEW R, Good(s, E, R)
  PROVE  Good([s EXCEPT !.steps = @ + 1], E, R)
<1> DEFINE t == [s EXCEPT !.steps = @ + 1]
<1>1. /\ SameCounts(s, t) /\ t.evidence = s.evidence /\ t.stage = s.stage
      /\ t.verified = s.verified /\ t.opinion = s.opinion /\ t.pending = s.pending
  BY DEF SameCounts, Incidents
<1> HIDE DEF t
<1> QED BY <1>1, NotedGood DEF t

\* Away from the waiting and executing stages nothing is asked for.
LEMMA GoodElsewhere ==
  ASSUME NEW s, NEW t, NEW E, NEW R, Good(s, E, R), SameCounts(s, t),
         s.evidence \subseteq t.evidence,
         t.stage \notin {"waiting_approval", "execute", "reconcile", "closed"},
         t.stage \in Arriving => s.stage \in Arriving \union Diagnosing,
         t.stage \in Diagnosing => s.stage \in Diagnosing,
         Doubted(t) /\ PastGate(t) => LetPass(s, R)
  PROVE  Good(t, E, R)
BY GoodMoves

LEMMA EscalatedGood ==
  ASSUME NEW s \in Incidents, NEW E, NEW R, Good(s, E, R)
  PROVE  Good(Escalated(s), E, R) /\ Good(EscalatedOnBudget(s), E, R)
<1>1. ASSUME NEW t \in {Escalated(s), EscalatedOnBudget(s)} PROVE Good(t, E, R)
  <2>1. /\ SameCounts(s, t) /\ t.evidence = s.evidence /\ t.stage = "escalated"
    BY DEF SameCounts, Escalated, EscalatedOnBudget, Incidents
  <2>2. ~PastGate(t) /\ t.stage \notin Arriving \union Diagnosing
    BY <2>1 DEF PastGate, Arriving, Diagnosing
  <2> QED BY <2>1, <2>2, GoodElsewhere
<1> QED BY <1>1

\* Up to the gate no ruling is needed.
LEMMA MovedGood ==
  ASSUME NEW s \in Incidents, NEW E, NEW R, Good(s, E, R), NEW stage,
         \/ s.stage \in Arriving /\ stage \in Arriving
         \/ s.stage \in Diagnosing /\ stage \in {"deterministic_rca", "llm_rca", "fusion"}
  PROVE  /\ Good(Moved(s, stage), E, R)
         /\ \A o : Good([Moved(s, stage) EXCEPT !.opinion = o], E, R)
<1>1. ASSUME NEW o, NEW t \in {Moved(s, stage), [Moved(s, stage) EXCEPT !.opinion = o]}
      PROVE  Good(t, E, R)
  <2>1. SameCounts(s, t) /\ t.evidence = s.evidence /\ t.stage = stage
    BY DEF SameCounts, Moved, Incidents
  <2>2. ~PastGate(t) /\ t.stage \notin {"waiting_approval", "execute", "reconcile", "closed"}
    BY <2>1 DEF PastGate, Arriving
  <2>3. t.stage \in Arriving => s.stage \in Arriving \union Diagnosing
    BY <2>1 DEF Arriving, Diagnosing
  <2>4. t.stage \in Diagnosing => s.stage \in Diagnosing
    BY <2>1 DEF Arriving, Diagnosing
  <2> QED BY <2>1, <2>2, <2>3, <2>4, GoodElsewhere
<1> QED BY <1>1

LEMMA ValidatedGood ==
  ASSUME NEW s \in Incidents, NEW E, NEW R, Good(s, E, R), s.stage = "validate"
  PROVE  Good(Validated(s), E, R)
<1>1. Good(Moved(s, "correlate"), E, R)
  BY MovedGood DEF Arriving
<1> DEFINE t == [s EXCEPT !.stage = "quarantined", !.status = "quarantined"]
<1>2. SameCounts(s, t) /\ t.evidence = s.evidence /\ t.stage = "quarantined"
  BY DEF SameCounts, Incidents
<1> HIDE DEF t
<1>3. ~PastGate(t) /\ t.stage \notin Arriving \union Diagnosing
  BY <1>2 DEF PastGate, Arriving, Diagnosing
<1>4. Good(t, E, R)
  BY <1>2, <1>3, GoodElsewhere
<1> QED BY <1>1, <1>4 DEF Validated, t

LEMMA CorrelatedGood ==
  ASSUME NEW s \in Incidents, NEW E, NEW R, Good(s, E, R), s.stage = "correlate"
  PROVE  Good(Correlated(s), E, R)
<1> DEFINE t == Correlated(s)
<1>1. SameCounts(s, t) /\ t.evidence = s.evidence /\ t.stage = "evidence"
  BY DEF SameCounts, Correlated, Incidents
<1> HIDE DEF t
<1>2. ~PastGate(t) /\ s.stage \in Arriving /\ t.stage \notin Diagnosing
  BY <1>1 DEF PastGate, Arriving, Diagnosing
<1> QED BY <1>1, <1>2, GoodElsewhere DEF t

\* A doubt-free proposal passes the gate by itself.
LEMMA AcceptedGood ==
  ASSUME NEW s \in Incidents, NEW E, NEW R, Good(s, E, R), s.stage = "fusion",
         GateFor(s.opinion) = "none"
  PROVE  Good([Moved(s, "action_ranking") EXCEPT !.gate = "none"], E, R)
<1> DEFINE t == [Moved(s, "action_ranking") EXCEPT !.gate = "none"]
<1>1. /\ SameCounts(s, t) /\ t.evidence = s.evidence /\ t.stage = "action_ranking"
      /\ t.opinion = s.opinion
  BY DEF SameCounts, Moved, Incidents
<1> HIDE DEF t
<1>2. ~Doubted(t)
  BY <1>1 DEF Doubted, GateFor
<1> QED BY <1>1, <1>2, GoodElsewhere DEF Arriving, Diagnosing, t

LEMMA RankedGood ==
  ASSUME NEW s \in Incidents, NEW E, NEW R, Good(s, E, R), s.stage = "action_ranking"
  PROVE  Good(Ranked(s), E, R)
<1> DEFINE p == s.scenario.plan[PlanIndex(s)]
           t == [s EXCEPT !.stage = "policy", !.selected = p.best,
                          !.candidates = {p.best, p.next} \ {"none"}]
<1>1. /\ SameCounts(s, t) /\ t.evidence = s.evidence /\ t.stage = "policy"
      /\ t.opinion = s.opinion
  BY DEF SameCounts, Incidents
<1> HIDE DEF p
<1>2. Ranked(s) \in {Escalated(s), t}
  BY DEF Ranked, p
<1> HIDE DEF t
<1>3. Doubted(t) /\ PastGate(t) => LetPass(s, R)
  BY <1>1 DEF Good, Gated, Doubted, PastGate
<1>4. Good(t, E, R)
  BY <1>1, <1>3, GoodElsewhere DEF Arriving, Diagnosing
<1> QED BY <1>2, <1>4, EscalatedGood

\* A new cycle: the evidence of the last failure stays, and the attempts so far
\* are fewer than the cycles.
LEMMA ObservedGood ==
  ASSUME NEW s \in Incidents, NEW E, NEW R, Good(s, E, R), s.stage = "evidence"
  PROVE  Good(Observed(s), E, R)
<1> DEFINE e == IF s.scenario.evidence
                THEN s.evidence \union {<<"snapshot", s.cycles>>} ELSE s.evidence
           seen == [s EXCEPT !.cycles = @ + 1, !.evidence = e]
<1>1. ASSUME NEW t \in {Moved(seen, "deterministic_rca"), EscalatedOnBudget(seen)}
      PROVE  Good(t, E, R)
  <2>1. /\ t.cycles = s.cycles + 1 /\ t.history = s.history
        /\ t.remote = s.remote /\ t.field = s.field /\ t.mr = s.mr
        /\ t.stage \in {"deterministic_rca", "escalated"}
    BY <1>1, ZenonT(60) DEF Moved, EscalatedOnBudget, Escalated, Incidents
  <2>2. t.evidence = e
    <3> HIDE DEF e
    <3> QED BY <1>1 DEF Moved, EscalatedOnBudget, Escalated, Incidents
  <2>3. s.evidence \subseteq t.evidence
    BY <2>2
  <2> HIDE DEF e, seen
  <2>4. Len(s.history) \in Nat /\ s.cycles \in Nat
    BY DEF Incidents
  <2>5. Evidenced(t)
    BY <2>1, <2>3, <2>4 DEF Good, Evidenced, Arriving, Diagnosing
  <2>6. Confirmed(t, E) /\ Gated(t, R)
    BY <2>1 DEF Good, Confirmed, Gated, PastGate
  <2>7. Budgeted(t)
    BY <2>1 DEF Good, Budgeted, BudgetSpent, Arriving, Diagnosing
  <2> QED BY <2>5, <2>6, <2>7 DEF Good
<1> HIDE DEF seen
<1>2. Observed(s) \in {Moved(seen, "deterministic_rca"), EscalatedOnBudget(seen)}
  BY DEF Observed, seen, e
<1> QED BY <1>1, <1>2

\* A decision of R about this very approval lets the RCA pass, or sends the case
\* back, or into execution with what was asked for.
LEMMA ResumedGood ==
  ASSUME NEW s \in Incidents, NEW E, NEW R, Good(s, E, R),
         s.stage = "waiting_approval",
         s.result \in R, s.result.ref = s.pending, s.result.decision \in Decisions
  PROVE  Good(Resumed(s), E, R)
<1> DEFINE r == s.result
           chosen == [s EXCEPT !.selected = r.option]
           Run(t) == [t EXCEPT !.stage = "execute", !.status = "open"]
           Plain(t) == /\ t \in Incidents /\ SameCounts(s, t) /\ t.evidence = s.evidence
                       /\ t.opinion = s.opinion /\ t.pending = s.pending
<1>1. Plain(s) /\ (r.option \in s.candidates => Plain(chosen))
  BY DEF SameCounts, Incidents
<1>2. ASSUME NEW t, Plain(t), NEW stage \in {"evidence", "action_ranking", "policy"},
             stage = "evidence" \/ (Doubted(s) => LetPass(s, R))
      PROVE  Good(Released(t, stage), E, R)
  <2> DEFINE u == Released(t, stage)
  <2>1. /\ SameCounts(t, u) /\ u.evidence = t.evidence /\ u.stage = stage
        /\ u.opinion = t.opinion
    BY <1>2 DEF SameCounts, Released, Incidents
  <2> HIDE DEF u
  <2>2. SameCounts(s, u) /\ u.evidence = s.evidence /\ Doubted(u) = Doubted(s)
    BY <1>2, <2>1 DEF SameCounts, Doubted
  <2>3. Doubted(u) /\ PastGate(u) => LetPass(s, R)
    BY <1>2, <2>1, <2>2 DEF PastGate
  <2> QED BY <1>2, <2>1, <2>2, <2>3, GoodElsewhere DEF Arriving, Diagnosing, u
<1>3. ASSUME NEW t, Plain(t), ~IsRcaReview(s.pending.action)
      PROVE  Good(Run(t), E, R)
  <2> DEFINE u == Run(t)
  <2>1. /\ SameCounts(t, u) /\ u.evidence = t.evidence /\ u.stage = "execute"
        /\ u.opinion = t.opinion /\ u.pending = t.pending
    BY <1>3 DEF SameCounts, Incidents
  <2> HIDE DEF u
  <2>2. SameCounts(s, u) /\ u.evidence = s.evidence /\ Doubted(u) = Doubted(s)
    BY <1>3, <2>1 DEF SameCounts, Doubted
  <2>3. PastGate(s)
    BY <1>3 DEF PastGate, IsRcaReview, EffectActions, RemoteActions, FieldActions
  <2>4. Doubted(u) => LetPass(s, R)
    BY <2>2, <2>3 DEF Good, Gated
  <2>5. u.pending = RefFor(s, u.pending.action)
    BY <1>3, <2>1 DEF Good, Budgeted
  <2>6. u.stage \notin Arriving /\ s.stage \in Diagnosing
    BY <2>1 DEF Arriving, Diagnosing
  <2> QED BY <2>1, <2>2, <2>4, <2>5, <2>6, GoodMoves DEF u
<1>4. r.decision \in {"approve", "override"} => (Doubted(s) => LetPass(s, R))
  <2>1. CASE s.pending.action = "rca_review"
    BY <2>1 DEF Good, Gated, LetPass
  <2>2. CASE s.pending.action # "rca_review"
    BY <2>2 DEF Good, Gated, PastGate
  <2> QED BY <2>1, <2>2
<1>5. Good(Escalated(s), E, R)
  BY EscalatedGood
<1> HIDE DEF chosen, Run, Plain
<1>6. CASE r.decision = "request_more"
  BY <1>1, <1>2, <1>6 DEF Resumed
<1>7. CASE r.decision = "reject"
  BY <1>5, <1>7 DEF Resumed
<1>8. CASE r.decision \in {"approve", "override"} /\ IsRcaReview(r.ref.action)
  <2>1. Resumed(s) = Released(s, "action_ranking")
    BY <1>8 DEF Resumed
  <2> QED BY <1>1, <1>2, <1>4, <1>8, <2>1
<1>9. CASE r.decision \in {"approve", "override"} /\ ~IsRcaReview(r.ref.action)
  <2>1. Resumed(s) \in {Escalated(s), Run(s)}
            \union (IF r.option \in s.candidates
                    THEN {Released(chosen, "policy"), Run(chosen)} ELSE {})
    BY <1>9 DEF Resumed, chosen, Run
  <2>2. Good(Run(s), E, R)
    BY <1>1, <1>3, <1>9
  <2>3. r.option \in s.candidates =>
          Good(Released(chosen, "policy"), E, R) /\ Good(Run(chosen), E, R)
    BY <1>1, <1>2, <1>3, <1>4, <1>9
  <2> QED BY <1>5, <2>1, <2>2, <2>3
<1> QED BY <1>6, <1>7, <1>8, <1>9 DEF Decisions

\* An executed action has used up its cycle and one attempt.
LEMMA ExecutedGood ==
  ASSUME NEW s \in Incidents, NEW E, NEW R, Good(s, E, R), s.stage = "execute",
         s.result.ref \in E
  PROVE  Good(Executed(s), E, R)
<1> DEFINE ref == s.result.ref
           c == CountAttempt(s, s.selected)
           t == Executed(s)
<1>0. c \in Incidents
  BY CountAttemptType
<1>1. /\ c.history = s.history /\ c.cycles = s.cycles /\ c.evidence = s.evidence
      /\ c.opinion = s.opinion
  BY DEF CountAttempt, Incidents
<1>2. /\ c.remote \in {s.remote, s.remote + 1} /\ c.field \in {s.field, s.field + 1}
      /\ c.mr \in {s.mr, s.mr + 1}
  BY DEF CountAttempt, Incidents
<1> HIDE DEF c
<1>3. /\ t.cycles = c.cycles /\ t.opinion = c.opinion /\ t.stage = "verify"
      /\ t.remote = c.remote /\ t.field = c.field /\ t.mr = c.mr
      /\ t.history \in {s.history, Append(s.history, ref)}
  BY <1>0, <1>1 DEF Executed, Incidents, c
<1> HIDE DEF t
<1>4. s.history \in Seq(Refs) /\ s.cycles \in Nat /\ ref \in Refs
  BY DEF Incidents, Rulings
<1>5. Evidenced(t)
  <2>1. Len(t.history) <= Len(s.history) + 1
    BY <1>3, <1>4
  <2>2. Len(s.history) < s.cycles
    BY DEF Good, Evidenced, Diagnosing
  <2>3. Len(s.history) \in Nat /\ Len(t.history) \in Nat
    BY <1>3, <1>4
  <2>4. Len(t.history) <= t.cycles
    BY <1>1, <1>3, <1>4, <2>1, <2>2, <2>3
  <2> QED BY <1>3, <2>4 DEF Evidenced, Arriving, Diagnosing
<1>6. Confirmed(t, E)
  <2>1. \A k \in 1..Len(s.history) : s.history[k] \in E
    BY DEF Good, Confirmed
  <2>2. \A k \in 1..Len(t.history) : t.history[k] \in E
    <3>1. CASE t.history = s.history
      BY <2>1, <3>1
    <3>2. CASE t.history = Append(s.history, ref)
      BY <1>4, <2>1, <3>2
    <3> QED BY <1>3, <3>1, <3>2
  <2> QED BY <1>3, <2>2 DEF Confirmed
<1>7. Gated(t, R)
  <2>1. RefFor(t, "rca_review") = RefFor(s, "rca_review")
    BY <1>1, <1>3 DEF RefFor, LocatedActions, FieldActions
  <2> QED BY <1>1, <1>3, <2>1 DEF Good, Gated, Doubted, PastGate, LetPass
<1>8. Budgeted(t)
  <2>1. s.remote < MaxRemote /\ s.field < MaxField /\ s.mr < MaxMr
    BY BudgetAssumption DEF Good, Budgeted, BudgetSpent, Diagnosing, Incidents
  <2> QED BY <1>2, <1>3, <2>1, BudgetAssumption, SMTT(30) DEF Budgeted, Arriving, Diagnosing, Incidents
<1> QED BY <1>5, <1>6, <1>7, <1>8 DEF Good, t

LEMMA VerifiedGood ==
  ASSUME NEW s \in Incidents, NEW E, NEW R, Good(s, E, R), s.stage = "verify",
         NEW passed \in BOOLEAN
  PROVE  Good(Verified(s, passed), E, R)
<1> DEFINE stage == IF passed THEN "reconcile" ELSE "failure_review"
           t == [s EXCEPT !.verified = passed, !.stage = stage]
<1>1. stage \in {"reconcile", "failure_review"} /\ (stage = "reconcile" => passed)
  OBVIOUS
<1> HIDE DEF stage
<1>2. /\ SameCounts(s, t) /\ t.evidence = s.evidence /\ t.opinion = s.opinion
      /\ t.stage = stage /\ t.verified = passed
  BY DEF SameCounts, Incidents
<1>3. Verified(s, passed) = IF s.history = <<>> THEN Escalated(s) ELSE t
  BY DEF Verified, stage
<1> HIDE DEF t
<1>4. Doubted(t) => LetPass(s, R)
  BY <1>2 DEF Good, Gated, Doubted, PastGate
<1>5. t.stage \notin Arriving \union Diagnosing /\ t.stage # "closed"
  BY <1>1, <1>2 DEF Arriving, Diagnosing
<1>6. t.stage \notin {"execute", "waiting_approval"}
  BY <1>1, <1>2
<1>7. s.history # <<>> => Good(t, E, R)
  BY <1>1, <1>2, <1>4, <1>5, <1>6, GoodMoves DEF SameCounts
<1> QED BY <1>3, <1>7, EscalatedGood

\* The case goes back to RCA only within the ceilings and with the evidence of
\* the failure.
LEMMA ReviewedGood ==
  ASSUME NEW s \in Incidents, NEW E, NEW R, Good(s, E, R), s.stage = "failure_review"
  PROVE  Good(Reviewed(s), E, R)
<1> DEFINE e == <<"failed_action", Len(s.history)>>
           t == [s EXCEPT !.evidence = @ \union {e}, !.stage = "evidence"]
<1> HIDE DEF e
<1>1. /\ t.history = s.history /\ t.cycles = s.cycles
      /\ t.remote = s.remote /\ t.field = s.field /\ t.mr = s.mr
      /\ t.evidence = s.evidence \union {e} /\ t.stage = "evidence"
  BY DEF Incidents
<1> HIDE DEF t
<1>2. Reviewed(s) \in {Escalated(s), EscalatedOnBudget(s)} \/
      (~BudgetSpent(s) /\ Reviewed(s) = t)
  BY DEF Reviewed, t, e
<1>3. Evidenced(t)
  BY <1>1 DEF Good, Evidenced, Diagnosing, e
<1>4. Confirmed(t, E) /\ Gated(t, R)
  BY <1>1 DEF Good, Confirmed, Gated, PastGate
<1>5. ~BudgetSpent(s) => Budgeted(t)
  BY <1>1 DEF Good, Budgeted, BudgetSpent
<1> QED BY <1>2, <1>3, <1>4, <1>5, EscalatedGood DEF Good

LEMMA ReconciledGood ==
  ASSUME NEW s \in Incidents, NEW E, NEW R, Good(s, E, R), s.stage = "reconcile"
  PROVE  Good(Reconciled(s), E, R)
<1> DEFINE t == Reconciled(s)
<1>1. /\ SameCounts(s, t) /\ t.evidence = s.evidence /\ t.opinion = s.opinion
      /\ t.stage = "closed" /\ t.verified = s.verified
  BY DEF Reconciled, SameCounts, Incidents
<1> HIDE DEF t
<1>2. Doubted(t) => LetPass(s, R)
  BY <1>1 DEF Good, Gated, Doubted, PastGate
<1>3. t.verified /\ t.history # <<>>
  BY <1>1 DEF Good, Confirmed, SameCounts
<1> QED BY <1>1, <1>2, <1>3, GoodMoves DEF Arriving, Diagnosing, t

\* The case waits for the approval it has just asked for.
LEMMA WaitingGood ==
  ASSUME NEW s \in Incidents, NEW E, NEW R, Good(s, E, R),
         s.stage \in {"fusion", "policy"}, s.stage = "policy" => s.selected \in Actions,
         NEW ref, ref = RefFor(s, IF s.stage = "fusion" THEN "rca_review" ELSE s.selected)
  PROVE  Good([s EXCEPT !.pending = ref, !.result = NoRuling,
                        !.stage = "waiting_approval", !.status = "waiting"], E, R)
<1> DEFINE t == [s EXCEPT !.pending = ref, !.result = NoRuling,
                          !.stage = "waiting_approval", !.status = "waiting"]
<1>1. /\ SameCounts(s, t) /\ t.evidence = s.evidence /\ t.opinion = s.opinion
      /\ t.stage = "waiting_approval" /\ t.pending = ref
  BY DEF SameCounts, Incidents
<1> HIDE DEF t
<1>2. /\ ref.action = IF s.stage = "fusion" THEN "rca_review" ELSE s.selected
      /\ ref = RefFor(s, ref.action)
  BY DEF RefFor
<1>3. s.stage = "policy" => ref.action # "rca_review"
  BY <1>2 DEF Actions, EffectActions, RemoteActions, FieldActions
<1>4. Doubted(t) /\ PastGate(t) => LetPass(s, R)
  BY <1>1, <1>2, <1>3 DEF Good, Gated, Doubted, PastGate
<1> QED BY <1>1, <1>2, <1>4, GoodMoves, ZenonT(60) DEF Arriving, Diagnosing, t

-----------------------------------------------------------------------------
(* Accounting for what was tried *)

\* The counters have reached the attempt.
Within(s, ref) ==
  /\ ref.action \in RemoteActions => ref.attempt <= s.remote
  /\ ref.action \in FieldActions => ref.attempt <= s.field
  /\ ref.action = "dirty_boots_mr" => ref.attempt <= s.mr

\* An incident accounts for an attempt that is in its history and counted, that
\* it is executing, or that it has left to a human.
Accounts(s, ref) ==
  \/ s.stage = "escalated"
  \/ s.stage = "execute" /\ s.result.ref = ref
  \/ (\E k \in 1..Len(s.history) : s.history[k] = ref) /\ Within(s, ref)

SameWork(s, t) ==
  /\ t.history = s.history /\ t.remote = s.remote
  /\ t.field = s.field /\ t.mr = s.mr

LEMMA AccountsKept ==
  ASSUME NEW s, NEW t, NEW ref, Accounts(s, ref),
         s.stage \notin {"execute", "escalated"},
         t.stage = "escalated" \/ SameWork(s, t)
  PROVE  Accounts(t, ref)
BY DEF Accounts, SameWork, Within

\* Only an execution touches what was done.
LEMMA RulesKeepWork ==
  ASSUME NEW s \in Incidents, NEW t,
         \/ \E stage : t \in {Moved(s, stage), Released(s, stage)}
         \/ \E stage, o : t = [Moved(s, stage) EXCEPT !.opinion = o]
         \/ \E stage, g : t = [Moved(s, stage) EXCEPT !.gate = g]
         \/ t \in {Validated(s), Correlated(s), Observed(s), Ranked(s), Resumed(s), Reviewed(s),
                   Reconciled(s), Escalated(s), EscalatedOnBudget(s)}
         \/ \E passed \in BOOLEAN : t = Verified(s, passed)
  PROVE  t.stage = "escalated" \/ SameWork(s, t)
<1>1. Escalated(s).stage = "escalated" /\ EscalatedOnBudget(s).stage = "escalated"
  BY DEF Escalated, EscalatedOnBudget, Incidents
<1>2. ASSUME NEW u \in Incidents, SameWork(s, u), NEW stage
      PROVE  SameWork(s, Moved(u, stage)) /\ SameWork(s, Released(u, stage))
  BY <1>2 DEF SameWork, Moved, Released, Incidents
<1>3. SameWork(s, s)
  BY DEF SameWork
<1>4. CASE \E stage : t \in {Moved(s, stage), Released(s, stage)}
  BY <1>2, <1>3, <1>4
<1>5. CASE \E stage, o : t = [Moved(s, stage) EXCEPT !.opinion = o]
  BY <1>5 DEF SameWork, Moved, Incidents
<1>6. CASE \E stage, g : t = [Moved(s, stage) EXCEPT !.gate = g]
  BY <1>6 DEF SameWork, Moved, Incidents
<1>7. CASE t = Validated(s)
  BY <1>7 DEF Validated, SameWork, Moved, Incidents
<1>14. CASE t = Correlated(s)
  BY <1>14 DEF Correlated, SameWork, Incidents
<1>8. CASE t = Observed(s)
  <2> DEFINE e == IF s.scenario.evidence
                  THEN s.evidence \union {<<"snapshot", s.cycles>>} ELSE s.evidence
             seen == [s EXCEPT !.cycles = @ + 1, !.evidence = e]
  <2> HIDE DEF e
  <2>1. SameWork(s, Moved(seen, "deterministic_rca"))
    BY DEF SameWork, Moved, Incidents
  <2>2. EscalatedOnBudget(seen).stage = "escalated"
    BY DEF EscalatedOnBudget, Escalated, Incidents
  <2> HIDE DEF seen
  <2> QED BY <1>8, <2>1, <2>2 DEF Observed, seen, e
<1>9. CASE t = Ranked(s)
  <2> DEFINE p == s.scenario.plan[PlanIndex(s)]
             u == [s EXCEPT !.stage = "policy", !.selected = p.best,
                            !.candidates = {p.best, p.next} \ {"none"}]
  <2>1. Ranked(s) \in {Escalated(s), u}
    BY DEF Ranked
  <2> HIDE DEF p
  <2>2. SameWork(s, u)
    BY DEF SameWork, Incidents
  <2> QED BY <1>1, <1>9, <2>1, <2>2
<1>10. CASE t = Resumed(s)
  <2> DEFINE chosen == [s EXCEPT !.selected = s.result.option]
             Run(u) == [u EXCEPT !.stage = "execute", !.status = "open"]
  <2>1. SameWork(s, Run(s)) /\ SameWork(s, Run(chosen))
        /\ SameWork(s, Released(chosen, "policy"))
    BY DEF SameWork, Released, Incidents
  <2>2. Resumed(s) \in {Released(s, "evidence"), Released(s, "action_ranking"),
                        Escalated(s), Released(chosen, "policy"), Run(chosen), Run(s)}
    BY DEF Resumed
  <2> HIDE DEF chosen, Run
  <2> QED BY <1>1, <1>2, <1>3, <1>10, <2>1, <2>2
<1>11. CASE t = Reviewed(s)
  <2> DEFINE e == <<"failed_action", Len(s.history)>>
             u == [s EXCEPT !.evidence = @ \union {e}, !.stage = "evidence"]
  <2>1. Reviewed(s) \in {Escalated(s), EscalatedOnBudget(s), u}
    BY DEF Reviewed
  <2> HIDE DEF e
  <2>2. SameWork(s, u)
    BY DEF SameWork, Incidents
  <2> QED BY <1>1, <1>11, <2>1, <2>2
<1>12. CASE t = Reconciled(s)
  BY <1>12 DEF Reconciled, SameWork, Incidents
<1>13. CASE \E passed \in BOOLEAN : t = Verified(s, passed)
  <2>1. PICK passed \in BOOLEAN : t = Verified(s, passed)
    BY <1>13
  <2> DEFINE stage == IF passed THEN "reconcile" ELSE "failure_review"
             u == [s EXCEPT !.verified = passed, !.stage = stage]
  <2>2. Verified(s, passed) \in {Escalated(s), u}
    BY DEF Verified
  <2> HIDE DEF stage
  <2>3. SameWork(s, u)
    BY DEF SameWork, Incidents
  <2> QED BY <1>1, <2>1, <2>2, <2>3
<1> QED BY <1>1, <1>4, <1>5, <1>6, <1>7, <1>8, <1>9, <1>10, <1>11, <1>12, <1>13, <1>14

\* An execution accounts for its own attempt, and still for the earlier ones.
LEMMA ExecutedAccounts ==
  ASSUME NEW s \in Incidents, NEW ref, Accounts(s, ref), s.stage = "execute",
         s.result.ref = RefFor(s, s.selected)
  PROVE  Accounts(Executed(s), ref)
<1> DEFINE mine == s.result.ref
           c == CountAttempt(s, s.selected)
           t == Executed(s)
           In(h, x) == \E k \in 1..Len(h) : h[k] = x
<1>1. c \in Incidents /\ c.history = s.history
  BY CountAttemptType
<1>2. /\ c.remote = IF s.selected \in RemoteActions THEN s.remote + 1 ELSE s.remote
      /\ c.field = IF s.selected \in FieldActions THEN s.field + 1 ELSE s.field
      /\ c.mr = IF s.selected = "dirty_boots_mr" THEN s.mr + 1 ELSE s.mr
  BY DEF CountAttempt, Incidents
<1> HIDE DEF c
<1>3. /\ t.remote = c.remote /\ t.field = c.field /\ t.mr = c.mr
      /\ t.history = IF In(s.history, mine) THEN s.history ELSE Append(s.history, mine)
  BY <1>1 DEF Executed, Incidents, c
<1> HIDE DEF t
<1>4. s.history \in Seq(Refs) /\ mine \in Refs
  BY DEF Incidents, Rulings
<1>5. In(t.history, mine) /\ (In(s.history, ref) => In(t.history, ref))
  <2> DEFINE h == Append(s.history, mine)
  <2>1. /\ Len(h) = Len(s.history) + 1 /\ h[Len(h)] = mine
        /\ \A k \in 1..Len(s.history) : h[k] = s.history[k] /\ k \in 1..Len(h)
        /\ Len(h) \in 1..Len(h)
    BY <1>4
  <2> HIDE DEF h
  <2>2. In(h, mine) /\ (In(s.history, ref) => In(h, ref))
    BY <2>1
  <2> QED BY <1>3, <2>2 DEF h
<1>6. /\ s.remote \in Nat /\ s.field \in Nat /\ s.mr \in Nat
      /\ RefFor(s, s.selected).action = s.selected
      /\ s.selected # "rca_review"
  BY DEF RefFor, Incidents, Actions, EffectActions, RemoteActions, FieldActions
<1>7. /\ s.selected \in RemoteActions => mine.attempt = s.remote + 1
      /\ s.selected \in FieldActions => mine.attempt = s.field + 1
      /\ s.selected = "dirty_boots_mr" => mine.attempt = s.mr + 1
  BY <1>6 DEF RefFor, AttemptFor, RemoteActions, FieldActions
<1>8. Within(t, mine)
  BY <1>2, <1>3, <1>6, <1>7 DEF Within
<1>9. Within(s, ref) /\ ref.attempt \in Nat => Within(t, ref)
  BY <1>2, <1>3, <1>6 DEF Within
<1>10. CASE ref = mine
  BY <1>5, <1>8, <1>10 DEF Accounts, t
<1>11. CASE ref # mine
  <2>1. In(s.history, ref) /\ Within(s, ref)
    BY <1>11 DEF Accounts
  <2>2. ref \in Refs
    BY <1>4, <2>1
  <2> QED BY <1>5, <1>9, <2>1, <2>2 DEF Accounts, Refs, t
<1> QED BY <1>10, <1>11


-----------------------------------------------------------------------------
(* The inductive invariant *)

\* A case in policy has an action to ask for.
Chosen(s) == s.stage = "policy" => s.selected \in Actions

\* A waiting case waits for the approval of its selected action or of its RCA;
\* a decision that resumes it is on record and about that approval.
Waits(s, R) ==
  s.stage = "waiting_approval" =>
    /\ s.pending.action # "none"
    /\ IsRcaReview(s.pending.action) \/ s.pending.action = s.selected
    /\ s.result = NoRuling \/ (s.result \in R /\ s.result.ref = s.pending)

\* A case in execution is about an approval that some ruling grants; not always
\* the ruling it carries, for a second decision may have replaced that one.
Cleared(s, R) ==
  s.stage = "execute" =>
    /\ s.pending.action = s.selected
    /\ s.result.ref = s.pending
    /\ \E r \in R : Grants(r, s.pending)

Sound(s, R) == Chosen(s) /\ Waits(s, R) /\ Cleared(s, R)

\* What a request's program counter says of what it holds.
Holds(label, s, t, R) ==
  /\ label \in {"prepare", "record"} => s.stage \in {"fusion", "policy"}
  /\ label \in {"await", "log"} => s.stage = "execute"
  /\ label \in {"decided", "load", "resume"} => t.kind = "decide"
  /\ t.kind = "decide" =>
       t.ruling.ref.action # "none" /\ t.ruling.decision \in Decisions
  /\ label \in {"load", "resume"} => t.ruling \in R

OnRecord ==
  /\ \A ref \in DOMAIN approvals : ref.action # "none"
  /\ \A r \in rulings : r.decision \in Decisions
  /\ \A call \in wire : \E r \in rulings : Grants(r, call.ref)

IInv ==
  /\ TypeOK
  /\ OnRecord
  /\ Sound(row, rulings)
  /\ \A w \in Workers : /\ Sound(mem[w], rulings)
                        /\ Holds(pc[w], mem[w], task[w], rulings)

-----------------------------------------------------------------------------
(* Soundness of the rules *)

LEMMA SoundGrows ==
  ASSUME NEW s, NEW R, NEW Q, R \subseteq Q, Sound(s, R)
  PROVE  Sound(s, Q)
BY DEF Sound, Chosen, Waits, Cleared

LEMMA HoldsGrows ==
  ASSUME NEW label, NEW s, NEW t, NEW R, NEW Q, R \subseteq Q, Holds(label, s, t, R)
  PROVE  Holds(label, s, t, Q)
BY DEF Holds

\* Only three stages are bound to anything.
LEMMA SoundElsewhere ==
  ASSUME NEW s, NEW R, s.stage \notin {"policy", "waiting_approval", "execute"}
  PROVE  Sound(s, R)
BY DEF Sound, Chosen, Waits, Cleared

LEMMA CountedSound ==
  ASSUME NEW s \in Incidents, NEW R
  PROVE  LET t == [s EXCEPT !.steps = @ + 1]
         IN  /\ t \in Incidents
             /\ Sound(s, R) => Sound(t, R)
             /\ t.stage = s.stage /\ t.result = s.result
             /\ t.pending = s.pending /\ t.selected = s.selected
<1> DEFINE t == [s EXCEPT !.steps = @ + 1]
<1>1. s.steps + 1 \in Nat
  BY DEF Incidents
<1>2. /\ t.stage = s.stage /\ t.result = s.result
      /\ t.pending = s.pending /\ t.selected = s.selected
  BY DEF Incidents
<1>3. t \in Incidents
  BY <1>1 DEF Incidents
<1> HIDE DEF t
<1>4. Sound(s, R) => Sound(t, R)
  BY <1>2 DEF Sound, Chosen, Waits, Cleared
<1> QED BY <1>2, <1>3, <1>4 DEF t

LEMMA EscalatedSound ==
  ASSUME NEW s \in Incidents, NEW R
  PROVE  Sound(Escalated(s), R) /\ Sound(EscalatedOnBudget(s), R)
<1>1. Escalated(s).stage = "escalated" /\ EscalatedOnBudget(s).stage = "escalated"
  BY DEF Escalated, EscalatedOnBudget, Incidents
<1> QED BY <1>1, SoundElsewhere

LEMMA RankedSound ==
  ASSUME NEW s \in Incidents, NEW R PROVE Sound(Ranked(s), R)
<1> DEFINE k == PlanIndex(s)
           p == s.scenario.plan[k]
           t == [s EXCEPT !.stage = "policy", !.selected = p.best,
                          !.candidates = {p.best, p.next} \ {"none"}]
<1>1. CASE k > Len(s.scenario.plan) \/ p.best = "escalate"
  BY <1>1, EscalatedSound DEF Ranked
<1>2. CASE ~(k > Len(s.scenario.plan) \/ p.best = "escalate")
  <2>1. s.scenario.plan \in Seq(PlanSteps)
    BY ScenarioAssumption DEF Incidents, ScenarioShape
  <2>2. p \in PlanSteps
    BY <1>2, <2>1, PlanIndexType
  <2>3. p.best \in Actions
    BY <1>2, <2>2 DEF PlanSteps
  <2> HIDE DEF p, k
  <2>4. t.stage = "policy" /\ t.selected = p.best
    BY DEF Incidents
  <2>5. Sound(t, R)
    BY <2>3, <2>4 DEF Sound, Chosen, Waits, Cleared
  <2> QED BY <1>2, <2>5 DEF Ranked, p, k
<1> QED BY <1>1, <1>2

LEMMA ExecutedSound ==
  ASSUME NEW s \in Incidents, NEW R PROVE Sound(Executed(s), R)
<1> DEFINE c == CountAttempt(s, s.selected)
<1>1. c \in Incidents
  BY CountAttemptType
<1> HIDE DEF c
<1>2. Executed(s).stage = "verify"
  BY <1>1 DEF Executed, Incidents, c
<1> QED BY <1>2, SoundElsewhere

\* A resumed case executes only the action its own approval is for.
LEMMA ResumedSound ==
  ASSUME NEW s \in Incidents, NEW R, Sound(s, R),
         \A r \in R : r.decision \in Decisions,
         s.stage = "waiting_approval", s.result # NoRuling
  PROVE  Sound(Resumed(s), R)
<1> DEFINE r == s.result
           chosen == [s EXCEPT !.selected = r.option]
           Run(t) == [t EXCEPT !.stage = "execute", !.status = "open"]
<1>1. /\ r \in R /\ r.ref = s.pending /\ r.decision \in Decisions
      /\ IsRcaReview(s.pending.action) \/ s.pending.action = s.selected
  BY DEF Sound, Waits
<1>2. \A t \in Incidents, stage \in {"evidence", "action_ranking"} :
        Sound(Released(t, stage), R)
  <2> TAKE t \in Incidents, stage \in {"evidence", "action_ranking"}
  <2>1. Released(t, stage).stage = stage
    BY DEF Released, Incidents
  <2> QED BY <2>1, SoundElsewhere
<1>3. r.option \in s.candidates =>
        chosen \in Incidents /\ chosen.selected \in Actions /\ chosen.selected = r.option
        /\ chosen.pending = s.pending /\ chosen.result = r
  BY DEF Incidents
<1>4. r.option \in s.candidates => Sound(Released(chosen, "policy"), R)
  <2> HAVE r.option \in s.candidates
  <2> HIDE DEF chosen
  <2>1. Released(chosen, "policy").stage = "policy"
        /\ Released(chosen, "policy").selected = chosen.selected
    BY <1>3 DEF Released, Incidents
  <2> QED BY <1>3, <2>1 DEF Sound, Chosen, Waits, Cleared
<1>5. ASSUME NEW t \in Incidents, t.pending = s.pending, t.result = r,
             t.selected = s.pending.action, Grants(r, s.pending)
      PROVE  Sound(Run(t), R)
  <2>1. /\ Run(t).stage = "execute" /\ Run(t).pending = s.pending
        /\ Run(t).result = r /\ Run(t).selected = s.pending.action
    BY <1>5 DEF Incidents
  <2> HIDE DEF Run
  <2> QED BY <1>1, <1>5, <2>1 DEF Sound, Chosen, Waits, Cleared
<1>6. Sound(Escalated(s), R)
  BY EscalatedSound
<1>7. CASE r.decision = "request_more"
  BY <1>2, <1>7 DEF Resumed
<1>8. CASE r.decision = "reject"
  BY <1>6, <1>8 DEF Resumed
<1>9. CASE r.decision \in {"approve", "override"} /\ IsRcaReview(r.ref.action)
  BY <1>2, <1>9 DEF Resumed
<1>10. CASE r.decision = "override" /\ r.option # "none" /\ ~IsRcaReview(r.ref.action)
  <2>1. CASE r.option \notin s.candidates
    BY <1>6, <1>10, <2>1 DEF Resumed
  <2>2. CASE r.option \in s.candidates /\ r.option # r.ref.action
    BY <1>4, <1>10, <2>2 DEF Resumed
  <2>3. CASE r.option \in s.candidates /\ r.option = r.ref.action
    <3>1. Grants(r, s.pending)
      BY <1>1, <1>10, <2>3 DEF Grants, Diverts
    <3>2. Sound(Run(chosen), R)
      <4> HIDE DEF chosen, Run
      <4> QED BY <1>1, <1>3, <1>5, <2>3, <3>1
    <3>3. Resumed(s) = Run(chosen)
      BY <1>10, <2>3 DEF Resumed
    <3> QED BY <3>2, <3>3
  <2> QED BY <2>1, <2>2, <2>3
<1>11. CASE /\ r.decision \in {"approve", "override"} /\ ~IsRcaReview(r.ref.action)
            /\ ~(r.decision = "override" /\ r.option # "none")
  <2>1. Grants(r, s.pending)
    BY <1>1, <1>11 DEF Grants, Diverts
  <2>2. Sound(Run(s), R)
    <3> HIDE DEF Run
    <3> QED BY <1>1, <1>5, <1>11, <2>1
  <2>3. Resumed(s) = Run(s)
    BY <1>11 DEF Resumed
  <2> QED BY <2>2, <2>3
<1> QED BY <1>1, <1>7, <1>8, <1>9, <1>10, <1>11 DEF Decisions

-----------------------------------------------------------------------------
(* Steps of one request *)

\* A step of one request keeps the invariant when what that request ends up with
\* is sound: the row is left alone or replaced by the request's copy, and
\* everything the other requests hold stays as it was.
LEMMA RequestStep ==
  ASSUME IInv, NEW w \in Workers,
         mem' \in [Workers -> Incidents], pc' \in [Workers -> PCs],
         task' \in [Workers -> TaskShape],
         \A v \in Workers : v # w =>
           mem'[v] = mem[v] /\ pc'[v] = pc[v] /\ task'[v] = task[v],
         Sound(mem'[w], rulings'), Holds(pc'[w], mem'[w], task'[w], rulings'),
         row' \in {row, mem'[w]},
         approvals' \in [DOMAIN approvals' -> ApprovalStatuses],
         DOMAIN approvals' \subseteq Refs,
         recorded' \subseteq Refs, effects' \subseteq Refs, wire' \subseteq Calls,
         rulings \subseteq rulings', rulings' \subseteq Rulings,
         faults' \in 0..MaxFaults,
         OnRecord'
  PROVE  IInv'
<1>1. row' \in Incidents
  BY DEF IInv, TypeOK
<1>2. TypeOK'
  BY <1>1 DEF TypeOK
<1>3. Sound(row, rulings')
  BY SoundGrows DEF IInv
<1>4. Sound(row', rulings')
  BY <1>3
<1>5. ASSUME NEW v \in Workers
      PROVE  Sound(mem'[v], rulings') /\ Holds(pc'[v], mem'[v], task'[v], rulings')
  <2>1. CASE v = w
    BY <2>1
  <2>2. CASE v # w
    <3>1. Sound(mem[v], rulings) /\ Holds(pc[v], mem[v], task[v], rulings)
      BY DEF IInv
    <3> QED BY <2>2, <3>1, SoundGrows, HoldsGrows
  <2> QED BY <2>1, <2>2
<1> QED BY <1>2, <1>4, <1>5 DEF IInv

\* The same for a step that leaves approvals, calls and rulings alone, which is
\* most of them: the request moves to a label with a copy of the incident.
LEMMA LocalStep ==
  ASSUME IInv, NEW w \in Workers, NEW s \in Incidents, NEW label \in PCs,
         Hold(w, s), Goto(w, label), UNCHANGED <<approvals, wire, rulings, faults>>,
         UNCHANGED task,
         recorded' \subseteq Refs, effects' = effects,
         row' \in {row, s},
         Sound(s, rulings), Holds(label, s, task[w], rulings)
  PROVE  IInv'
<1>1. /\ mem' \in [Workers -> Incidents] /\ pc' \in [Workers -> PCs]
      /\ mem'[w] = s /\ pc'[w] = label
      /\ \A v \in Workers : v # w => mem'[v] = mem[v] /\ pc'[v] = pc[v]
  BY DEF IInv, TypeOK, Hold, Goto
<1>2. task' \in [Workers -> TaskShape]
  BY DEF IInv, TypeOK
<1>3. OnRecord'
  BY DEF IInv, OnRecord
<1>4. /\ approvals' \in [DOMAIN approvals' -> ApprovalStatuses]
      /\ DOMAIN approvals' \subseteq Refs /\ effects' \subseteq Refs
      /\ wire' \subseteq Calls /\ rulings' \subseteq Rulings
      /\ faults' \in 0..MaxFaults
  BY DEF IInv, TypeOK
<1> QED BY <1>1, <1>2, <1>3, <1>4, RequestStep

LEMMA RunOneStep ==
  ASSUME IInv, NEW w \in Workers, NEW stage, NEW s \in Incidents,
         Sound(s, rulings), RunOne(w, stage, s)
  PROVE  IInv'
<1>1. /\ Hold(w, s) /\ Goto(w, AfterStep(w)) /\ row' = s
      /\ UNCHANGED <<approvals, wire, rulings, faults>> /\ UNCHANGED task
      /\ recorded' = recorded /\ effects' = effects
  BY DEF RunOne, mcp
<1>2. AfterStep(w) \in PCs /\ AfterStep(w) \in {"reply", "loop"}
  BY DEF AfterStep, PCs
<1>3. Holds(AfterStep(w), s, task[w], rulings)
  BY <1>2 DEF Holds, IInv
<1>4. recorded' \subseteq Refs
  BY <1>1 DEF IInv, TypeOK
<1> HIDE DEF AfterStep
<1> QED BY <1>1, <1>2, <1>3, <1>4, LocalStep

LEMMA CountedType ==
  ASSUME IInv, NEW w \in Workers
  PROVE  /\ Counted(w) \in Incidents /\ Sound(Counted(w), rulings)
         /\ Counted(w).stage = mem[w].stage /\ Counted(w).result = mem[w].result
         /\ Counted(w).pending = mem[w].pending
         /\ Counted(w).selected = mem[w].selected
<1>1. mem[w] \in Incidents /\ Sound(mem[w], rulings)
  BY DEF IInv, TypeOK
<1> QED BY <1>1, CountedSound DEF Counted

LEMMA BlankSound == IInv => Blank \in Incidents /\ Sound(Blank, rulings)
<1> SUFFICES ASSUME IInv PROVE Blank \in Incidents /\ Sound(Blank, rulings)
  OBVIOUS
<1>1. row.scenario \in Scenarios
  BY DEF IInv, TypeOK, Incidents
<1>2. Blank.stage = "new"
  BY DEF Blank, NewIncident
<1> QED BY <1>1, <1>2, NewIncidentType, SoundElsewhere DEF Blank

\* The handlers that end in the save of run_one.
LEMMA HandlerStep ==
  ASSUME IInv, NEW w \in Workers,
         \/ Receive(w) \/ Validate(w) \/ Correlate(w) \/ AssembleEvidence(w)
         \/ DeterministicRca(w) \/ LlmRca(w) \/ AcceptRca(w) \/ RankActions(w)
         \/ BlockWithoutEvidence(w) \/ ResumeApproval(w) \/ Verify(w)
         \/ FailureReview(w) \/ Reconcile(w)
  PROVE  IInv'
<1> DEFINE s == Counted(w)
<1> HIDE DEF s
<1>0. s \in Incidents
  BY CountedType DEF s
<1>1. ASSUME NEW stage \in Stages \ {"policy", "waiting_approval", "execute"}
      PROVE  /\ Moved(s, stage) \in Incidents /\ Sound(Moved(s, stage), rulings)
             /\ Moved(s, stage).stage = stage
  <2>1. Moved(s, stage).stage = stage
    BY <1>0 DEF Moved, Incidents
  <2> QED BY <1>0, <2>1, MovedType, SoundElsewhere
<1>2. CASE Receive(w)
  <2>1. RunOne(w, "new", Moved(s, "validate"))
    BY <1>2 DEF Receive, s
  <2>2. "validate" \in Stages \ {"policy", "waiting_approval", "execute"}
    BY DEF Stages
  <2> QED BY <1>1, <2>1, <2>2, RunOneStep
<1>3. CASE Validate(w)
  <2>1. RunOne(w, "validate", Validated(s))
    BY <1>3 DEF Validate, s
  <2>2. Validated(s).stage \in {"correlate", "quarantined"}
    BY <1>0 DEF Validated, Moved, Incidents
  <2> QED BY <1>0, <2>1, <2>2, ValidatedType, SoundElsewhere, RunOneStep
<1>4. CASE Correlate(w)
  <2>1. RunOne(w, "correlate", Correlated(s))
    BY <1>4 DEF Correlate, s
  <2> QED BY <1>0, <2>1, CorrelatedType, SoundElsewhere, RunOneStep
<1>5. CASE AssembleEvidence(w)
  <2>1. RunOne(w, "evidence", Observed(s))
    BY <1>5 DEF AssembleEvidence, s
  <2>2. Observed(s).stage \in {"deterministic_rca", "escalated"}
    BY <1>0 DEF Observed, Moved, EscalatedOnBudget, Escalated, Incidents
  <2> QED BY <1>0, <2>1, <2>2, ObservedType, SoundElsewhere, RunOneStep
<1>6. CASE DeterministicRca(w)
  <2>1. RunOne(w, "deterministic_rca", Moved(s, "llm_rca"))
    BY <1>6 DEF DeterministicRca, s
  <2>2. "llm_rca" \in Stages \ {"policy", "waiting_approval", "execute"}
    BY DEF Stages
  <2> QED BY <1>1, <2>1, <2>2, RunOneStep
<1>7. CASE LlmRca(w)
  <2>1. PICK o \in Advice :
          RunOne(w, "llm_rca", [Moved(s, "fusion") EXCEPT !.opinion = o])
    BY <1>7 DEF LlmRca, s
  <2>2. "fusion" \in Stages \ {"policy", "waiting_approval", "execute"}
    BY DEF Stages
  <2>3. Moved(s, "fusion") \in Incidents /\ Moved(s, "fusion").stage = "fusion"
    BY <1>1, <2>2
  <2> DEFINE t == [Moved(s, "fusion") EXCEPT !.opinion = o]
  <2>4. t \in Incidents /\ t.stage = "fusion"
    BY <2>3, InputAssumption DEF Incidents, Opinions
  <2>5. Sound(t, rulings)
    BY <2>4, SoundElsewhere
  <2> HIDE DEF t
  <2> QED BY <2>1, <2>4, <2>5, RunOneStep DEF t
<1>8. CASE AcceptRca(w)
  <2> DEFINE t == [Moved(s, "action_ranking") EXCEPT !.gate = "none"]
  <2>1. RunOne(w, "fusion", t)
    BY <1>8 DEF AcceptRca, s
  <2>2. "action_ranking" \in Stages \ {"policy", "waiting_approval", "execute"}
    BY DEF Stages
  <2>3. Moved(s, "action_ranking") \in Incidents
        /\ Moved(s, "action_ranking").stage = "action_ranking"
    BY <1>1, <2>2
  <2>4. t \in Incidents /\ t.stage = "action_ranking"
    BY <2>3 DEF Incidents, Gates
  <2>5. Sound(t, rulings)
    BY <2>4, SoundElsewhere
  <2> HIDE DEF t
  <2> QED BY <2>1, <2>4, <2>5, RunOneStep
<1>9. CASE RankActions(w)
  <2>1. RunOne(w, "action_ranking", Ranked(s))
    BY <1>9 DEF RankActions, s
  <2> QED BY <1>0, <2>1, RankedType, RankedSound, RunOneStep
<1>10. CASE BlockWithoutEvidence(w)
  <2>1. RunOne(w, "policy", Escalated(s))
    BY <1>10 DEF BlockWithoutEvidence, s
  <2> QED BY <1>0, <2>1, EscalatedType, EscalatedSound, RunOneStep
<1>11. CASE ResumeApproval(w)
  <2>1. RunOne(w, "waiting_approval", Resumed(s))
    BY <1>11 DEF ResumeApproval, s
  <2>2. mem[w].stage = "waiting_approval" /\ mem[w].result # NoRuling
    BY <2>1 DEF RunOne, Ready, Paused
  <2>3. s.stage = "waiting_approval" /\ s.result # NoRuling /\ Sound(s, rulings)
    BY <2>2, CountedType DEF s
  <2>4. \A r \in rulings : r.decision \in Decisions
    BY DEF IInv, OnRecord
  <2> QED BY <1>0, <2>1, <2>3, <2>4, ResumedType, ResumedSound, RunOneStep
<1>12. CASE Verify(w)
  <2>1. PICK passed \in BOOLEAN : RunOne(w, "verify", Verified(s, passed))
    BY <1>12 DEF Verify, s
  <2>2. Verified(s, passed).stage \in {"escalated", "reconcile", "failure_review"}
    BY <1>0 DEF Verified, Escalated, Incidents
  <2>3. Verified(s, passed) \in Incidents
    BY <1>0, VerifiedType
  <2>4. Sound(Verified(s, passed), rulings)
    BY <2>2, SoundElsewhere
  <2> QED BY <2>1, <2>3, <2>4, RunOneStep
<1>13. CASE FailureReview(w)
  <2>1. RunOne(w, "failure_review", Reviewed(s))
    BY <1>13 DEF FailureReview, s
  <2>2. Reviewed(s).stage \in {"escalated", "evidence"}
    BY <1>0 DEF Reviewed, Escalated, EscalatedOnBudget, Incidents
  <2> QED BY <1>0, <2>1, <2>2, ReviewedType, SoundElsewhere, RunOneStep
<1>14. CASE Reconcile(w)
  <2>1. RunOne(w, "reconcile", Reconciled(s))
    BY <1>14 DEF Reconcile, s
  <2>2. Reconciled(s).stage = "closed"
    BY <1>0 DEF Reconciled, Incidents
  <2> QED BY <1>0, <2>1, <2>2, ReconciledType, SoundElsewhere, RunOneStep
<1> QED BY <1>2, <1>3, <1>4, <1>5, <1>6, <1>7, <1>8, <1>9, <1>10, <1>11,
           <1>12, <1>13, <1>14

LEMMA RunStep ==
  ASSUME IInv, NEW w \in Workers, NEW kind \in Tasks, RunIncident(w, kind)
  PROVE  IInv'
<1>1. /\ mem' = [mem EXCEPT ![w] = row] /\ pc' = [pc EXCEPT ![w] = "loop"]
      /\ task' = [task EXCEPT ![w].kind = kind]
      /\ UNCHANGED <<row, approvals, recorded, effects, wire, rulings, faults>>
  BY DEF RunIncident, Hold, Goto, stored, mcp
<1>2. kind \in {"run", "step"}
  BY InputAssumption
<1>3. /\ mem' \in [Workers -> Incidents] /\ pc' \in [Workers -> PCs]
      /\ mem'[w] = row /\ pc'[w] = "loop"
      /\ \A v \in Workers : v # w => mem'[v] = mem[v] /\ pc'[v] = pc[v]
  BY <1>1 DEF IInv, TypeOK, PCs
<1>4. /\ task' \in [Workers -> TaskShape]
      /\ \A v \in Workers : v # w => task'[v] = task[v]
  BY <1>1, <1>2 DEF IInv, TypeOK, TaskShape
<1>5. task'[w].kind # "decide"
  BY <1>1, <1>2 DEF IInv, TypeOK, TaskShape
<1>6. Sound(mem'[w], rulings') /\ Holds(pc'[w], mem'[w], task'[w], rulings')
  BY <1>1, <1>3, <1>5 DEF IInv, Holds
<1>7. OnRecord'
  BY <1>1 DEF IInv, OnRecord
<1>8. /\ approvals' \in [DOMAIN approvals' -> ApprovalStatuses]
      /\ DOMAIN approvals' \subseteq Refs /\ effects' \subseteq Refs
      /\ recorded' \subseteq Refs
      /\ wire' \subseteq Calls /\ rulings' \subseteq Rulings
      /\ faults' \in 0..MaxFaults
  BY <1>1 DEF IInv, TypeOK
<1> QED BY <1>1, <1>3, <1>4, <1>6, <1>7, <1>8, RequestStep

\* A request that ends or dies leaves its thread with a blank incident.
LEMMA ReturnStep ==
  ASSUME IInv, NEW w \in Workers, Return(w),
         UNCHANGED <<row, recorded, effects, wire, rulings>>,
         approvals' \in [DOMAIN approvals' -> ApprovalStatuses],
         DOMAIN approvals' \subseteq Refs,
         \A ref \in DOMAIN approvals' : ref.action # "none",
         faults' \in 0..MaxFaults
  PROVE  IInv'
<1>1. Blank \in Incidents /\ Sound(Blank, rulings)
  BY BlankSound
<1>2. NoTask \in TaskShape
  BY DEF NoTask, TaskShape, NoRuling, Rulings, NoRef, Refs, Delimiters, Options
<1> DEFINE b == Blank
           n == NoTask
<1> HIDE DEF b, n
<1>3. /\ mem' = [mem EXCEPT ![w] = b] /\ pc' = [pc EXCEPT ![w] = "idle"]
      /\ task' = [task EXCEPT ![w] = n]
  BY DEF Return, Hold, Goto, b, n
<1>4. /\ mem' \in [Workers -> Incidents] /\ pc' \in [Workers -> PCs]
      /\ task' \in [Workers -> TaskShape]
      /\ mem'[w] = b /\ pc'[w] = "idle" /\ task'[w] = n
      /\ \A v \in Workers : v # w =>
           mem'[v] = mem[v] /\ pc'[v] = pc[v] /\ task'[v] = task[v]
  BY <1>1, <1>2, <1>3 DEF IInv, TypeOK, PCs, b, n
<1>5. Sound(mem'[w], rulings') /\ Holds(pc'[w], mem'[w], task'[w], rulings')
  BY <1>1, <1>4 DEF Holds, b, n, NoTask
<1>6. OnRecord'
  BY DEF IInv, OnRecord
<1>7. /\ effects' \subseteq Refs /\ recorded' \subseteq Refs
      /\ wire' \subseteq Calls /\ rulings' \subseteq Rulings
  BY DEF IInv, TypeOK
<1> QED BY <1>4, <1>5, <1>6, <1>7, RequestStep

\* Writing one approval keeps the table a table of named approvals.
LEMMA PutApproval ==
  ASSUME IInv, NEW ref \in Refs, ref.action # "none", NEW status \in ApprovalStatuses,
         approvals' = Put(approvals, ref, status)
  PROVE  /\ approvals' \in [DOMAIN approvals' -> ApprovalStatuses]
         /\ DOMAIN approvals' \subseteq Refs
         /\ \A q \in DOMAIN approvals' : q.action # "none"
<1>1. /\ \A q \in DOMAIN approvals : approvals[q] \in ApprovalStatuses
      /\ DOMAIN approvals \subseteq Refs
      /\ \A q \in DOMAIN approvals : q.action # "none"
  BY DEF IInv, TypeOK, OnRecord
<1>2. DOMAIN approvals' = DOMAIN approvals \union {ref}
  BY DEF Put
<1>3. approvals' \in [DOMAIN approvals \union {ref} -> ApprovalStatuses]
  BY <1>1 DEF Put
<1> QED BY <1>1, <1>2, <1>3

LEMMA ReplyStep ==
  ASSUME IInv, NEW w \in Workers, Reply(w)
  PROVE  IInv'
<1>1. /\ Return(w) /\ UNCHANGED <<row, recorded, effects, wire, rulings>>
      /\ faults' \in 0..MaxFaults
  BY DEF Reply, mcp, IInv, TypeOK
<1> SUFFICES /\ approvals' \in [DOMAIN approvals' -> ApprovalStatuses]
             /\ DOMAIN approvals' \subseteq Refs
             /\ \A ref \in DOMAIN approvals' : ref.action # "none"
  BY <1>1, ReturnStep
<1>2. CASE ~Spent(w)
  BY <1>2 DEF Reply, IInv, TypeOK, OnRecord
<1>3. CASE Spent(w)
  <2> DEFINE ref == task[w].ruling.ref
  <2>1. ref \in Refs
    BY DEF IInv, TypeOK, TaskShape, Rulings
  <2>2. ref.action # "none"
    BY <1>3 DEF IInv, Holds, Spent
  <2>3. approvals' = Put(approvals, ref, "consumed") /\ "consumed" \in ApprovalStatuses
    BY <1>3 DEF Reply, ApprovalStatuses
  <2> HIDE DEF ref
  <2> QED BY <2>1, <2>2, <2>3, PutApproval
<1> QED BY <1>2, <1>3

LEMMA LoseStep ==
  ASSUME IInv, NEW w \in Workers, Lose(w)
  PROVE  IInv'
<1>1. faults' \in 0..MaxFaults
  BY InputAssumption DEF Lose, IInv, TypeOK
<1>2. /\ approvals' \in [DOMAIN approvals' -> ApprovalStatuses]
      /\ DOMAIN approvals' \subseteq Refs
      /\ \A ref \in DOMAIN approvals' : ref.action # "none"
  BY DEF Lose, stored, IInv, TypeOK, OnRecord
<1> QED BY <1>1, <1>2, ReturnStep DEF Lose, stored, mcp

\* Pausing, the step budget and the end of a save.
LEMMA PauseStep ==
  ASSUME IInv, NEW w \in Workers,
         Pause(w) \/ StepBudgetStop(w) \/ SaveIncident(w) \/ SaveResult(w)
  PROVE  IInv'
<1> DEFINE s == mem[w]
<1>0. s \in Incidents /\ Sound(s, rulings) /\ Holds(pc[w], s, task[w], rulings)
  BY DEF IInv, TypeOK
<1>1. /\ recorded' \subseteq Refs /\ effects' = effects /\ UNCHANGED task
      /\ UNCHANGED <<approvals, wire, rulings, faults>>
  BY DEF Pause, StepBudgetStop, SaveIncident, SaveResult, stored, mcp, IInv, TypeOK
<1>2. ASSUME NEW label \in {"reply", "loop"}, NEW t PROVE Holds(label, t, task[w], rulings)
  BY <1>0 DEF Holds
<1>3. mem' = mem => Hold(w, s)
  BY DEF Hold, IInv, TypeOK
<1>4. {"reply", "loop"} \subseteq PCs /\ AfterStep(w) \in {"reply", "loop"}
  BY DEF PCs, AfterStep
<1>5. CASE Pause(w)
  <2>1. Hold(w, s) /\ Goto(w, "reply") /\ row' = row
    BY <1>3, <1>5 DEF Pause, stored
  <2> QED BY <1>0, <1>1, <1>2, <1>4, <2>1, LocalStep
<1>6. CASE StepBudgetStop(w)
  <2>1. Hold(w, EscalatedOnBudget(s)) /\ Goto(w, "reply") /\ row' = row
    BY <1>6 DEF StepBudgetStop, stored
  <2> QED BY <1>0, <1>1, <1>2, <1>4, <2>1, EscalatedType, EscalatedSound, LocalStep
<1>7. CASE SaveIncident(w)
  <2>1. Hold(w, s) /\ Goto(w, AfterStep(w)) /\ row' = s
    BY <1>3, <1>7 DEF SaveIncident
  <2> HIDE DEF AfterStep
  <2> QED BY <1>0, <1>1, <1>2, <1>4, <2>1, LocalStep
<1>8. CASE SaveResult(w)
  <2>1. Hold(w, s) /\ Goto(w, "loop") /\ row' = s
    BY <1>3, <1>8 DEF SaveResult
  <2> QED BY <1>0, <1>1, <1>2, <1>4, <2>1, LocalStep
<1> QED BY <1>5, <1>6, <1>7, <1>8

-----------------------------------------------------------------------------
(* Asking, executing and deciding *)

LEMMA AskStep ==
  ASSUME IInv, NEW w \in Workers, AskRcaReview(w) \/ AskAction(w)
  PROVE  IInv'
<1> DEFINE s == Counted(w)
<1> HIDE DEF s
<1>0. s \in Incidents /\ Sound(s, rulings) /\ s.stage = mem[w].stage
  BY CountedType DEF s
<1>1. /\ row' = row /\ recorded' \subseteq Refs /\ effects' = effects
      /\ UNCHANGED task /\ UNCHANGED <<approvals, wire, rulings, faults>>
  BY DEF AskRcaReview, AskAction, stored, mcp, IInv, TypeOK
<1>2. ASSUME NEW t, t.stage \in {"fusion", "policy"}
      PROVE  Holds("prepare", t, task[w], rulings)
  BY <1>2 DEF IInv, Holds
<1>3. "prepare" \in PCs
  BY DEF PCs
<1>4. CASE AskRcaReview(w)
  <2> DEFINE t == [s EXCEPT !.gate = GateFor(mem[w].opinion)]
  <2>1. Hold(w, t) /\ Goto(w, "prepare") /\ mem[w].stage = "fusion"
    BY <1>4 DEF AskRcaReview, Ready, s
  <2>2. GateFor(mem[w].opinion) \in Gates
    BY DEF GateFor, Gates
  <2>3. t \in Incidents /\ t.stage = "fusion"
    BY <1>0, <2>1, <2>2 DEF Incidents
  <2> HIDE DEF t
  <2>4. Sound(t, rulings)
    BY <2>3, SoundElsewhere
  <2>5. Holds("prepare", t, task[w], rulings)
    BY <1>2, <2>3
  <2> QED BY <1>1, <1>3, <2>1, <2>3, <2>4, <2>5, LocalStep
<1>5. CASE AskAction(w)
  <2>1. Hold(w, s) /\ Goto(w, "prepare") /\ mem[w].stage = "policy"
    BY <1>5 DEF AskAction, Ready, s
  <2>2. Holds("prepare", s, task[w], rulings)
    BY <1>0, <1>2, <2>1
  <2> QED BY <1>0, <1>1, <1>3, <2>1, <2>2, LocalStep
<1> QED BY <1>4, <1>5

\* Whatever a case in fusion or policy asks for has a name.
LEMMA AskedType ==
  ASSUME NEW s \in Incidents, NEW R, Sound(s, R), s.stage \in {"fusion", "policy"}
  PROVE  /\ Asked(s) \in Refs /\ Asked(s).action # "none"
         /\ IsRcaReview(Asked(s).action) \/ Asked(s).action = s.selected
<1> DEFINE a == IF s.stage = "fusion" THEN "rca_review" ELSE s.selected
<1>1. a \in Actions \union {"rca_review"} /\ a # "none"
  BY DEF Sound, Chosen, Actions, EffectActions, RemoteActions, FieldActions
<1>2. IsRcaReview("rca_review")
  BY DEF IsRcaReview, EffectActions, RemoteActions, FieldActions
<1>3. a = s.selected \/ IsRcaReview(a)
  BY <1>2
<1>4. Asked(s) = RefFor(s, a)
  BY DEF Asked
<1> HIDE DEF a
<1>5. RefFor(s, a) \in Refs
  BY <1>1, RefForType
<1>6. RefFor(s, a).action = a
  BY DEF RefFor
<1> QED BY <1>1, <1>3, <1>4, <1>5, <1>6

LEMMA LookUpStep ==
  ASSUME IInv, NEW w \in Workers, LookUpApproval(w)
  PROVE  IInv'
<1> DEFINE seen == StatusOf(Asked(mem[w]))
<1>1. seen \in ApprovalStatuses \union {"absent"}
  BY DEF StatusOf, IInv, TypeOK
<1> HIDE DEF seen
<1>2. /\ task' = [task EXCEPT ![w].seen = seen] /\ pc' = [pc EXCEPT ![w] = "record"]
      /\ UNCHANGED <<row, approvals, recorded, effects, wire, rulings, mem, faults>>
      /\ pc[w] = "prepare"
  BY DEF LookUpApproval, Goto, stored, mcp, seen
<1>3. /\ mem' \in [Workers -> Incidents] /\ pc' \in [Workers -> PCs]
      /\ task' \in [Workers -> TaskShape] /\ pc'[w] = "record"
      /\ task'[w].kind = task[w].kind /\ task'[w].ruling = task[w].ruling
      /\ \A v \in Workers : v # w =>
           mem'[v] = mem[v] /\ pc'[v] = pc[v] /\ task'[v] = task[v]
  BY <1>1, <1>2 DEF IInv, TypeOK, PCs, TaskShape
<1>4. Sound(mem'[w], rulings') /\ Holds(pc'[w], mem'[w], task'[w], rulings')
  BY <1>2, <1>3 DEF IInv, Holds
<1>5. OnRecord'
  BY <1>2 DEF IInv, OnRecord
<1>6. /\ approvals' \in [DOMAIN approvals' -> ApprovalStatuses]
      /\ DOMAIN approvals' \subseteq Refs /\ effects' \subseteq Refs
      /\ recorded' \subseteq Refs
      /\ wire' \subseteq Calls /\ rulings' \subseteq Rulings
      /\ faults' \in 0..MaxFaults
  BY <1>2 DEF IInv, TypeOK
<1> QED BY <1>2, <1>3, <1>4, <1>5, <1>6, RequestStep

LEMMA SaveApprovalStep ==
  ASSUME IInv, NEW w \in Workers, SaveApproval(w)
  PROVE  IInv'
<1> DEFINE s == mem[w]
           ref == Asked(s)
           status == IF task[w].seen = "absent" THEN "pending" ELSE task[w].seen
           t == [s EXCEPT !.pending = ref, !.result = NoRuling,
                          !.stage = "waiting_approval", !.status = "waiting"]
<1>1. s \in Incidents /\ Sound(s, rulings) /\ s.stage \in {"fusion", "policy"}
  BY DEF SaveApproval, IInv, TypeOK, Holds
<1>2. /\ ref \in Refs /\ ref.action # "none"
      /\ IsRcaReview(ref.action) \/ ref.action = s.selected
  BY <1>1, AskedType
<1>3. status \in ApprovalStatuses
  BY DEF IInv, TypeOK, TaskShape, ApprovalStatuses
<1>4. /\ approvals' = Put(approvals, ref, status) /\ Hold(w, t) /\ Goto(w, "save")
      /\ UNCHANGED <<row, recorded, effects, wire, rulings, task, faults>>
  BY DEF SaveApproval, mcp
<1> HIDE DEF ref, status
<1>5. NoRuling \in Rulings
  BY DEF NoRuling, Rulings, NoRef, Refs, Delimiters, Options
<1>6. t \in Incidents
  BY <1>1, <1>2, <1>5 DEF Incidents, Stages, Statuses
<1>7. /\ t.stage = "waiting_approval" /\ t.pending = ref /\ t.result = NoRuling
      /\ t.selected = s.selected
  BY <1>1 DEF Incidents
<1> HIDE DEF t
<1>8. Sound(t, rulings)
  BY <1>2, <1>7 DEF Sound, Chosen, Waits, Cleared
<1>9. /\ mem' \in [Workers -> Incidents] /\ pc' \in [Workers -> PCs]
      /\ task' \in [Workers -> TaskShape] /\ mem'[w] = t /\ pc'[w] = "save"
      /\ \A v \in Workers : v # w =>
           mem'[v] = mem[v] /\ pc'[v] = pc[v] /\ task'[v] = task[v]
  BY <1>4, <1>6 DEF IInv, TypeOK, PCs, Hold, Goto
<1>10. Holds(pc'[w], mem'[w], task'[w], rulings')
  BY <1>4, <1>9 DEF IInv, Holds
<1>11. /\ approvals' \in [DOMAIN approvals' -> ApprovalStatuses]
       /\ DOMAIN approvals' \subseteq Refs
       /\ \A q \in DOMAIN approvals' : q.action # "none"
  BY <1>2, <1>3, <1>4, PutApproval
<1>12. OnRecord'
  BY <1>4, <1>11 DEF IInv, OnRecord
<1>13. /\ effects' \subseteq Refs /\ recorded' \subseteq Refs
       /\ wire' \subseteq Calls /\ rulings' \subseteq Rulings
       /\ faults' \in 0..MaxFaults
  BY <1>4 DEF IInv, TypeOK
<1> QED BY <1>4, <1>8, <1>9, <1>10, <1>11, <1>12, <1>13, RequestStep

LEMMA ExecuteStep ==
  ASSUME IInv, NEW w \in Workers, Execute(w)
  PROVE  IInv'
<1> DEFINE s == Counted(w)
           call == [ref |-> s.result.ref, action |-> s.selected]
<1> HIDE DEF s
<1>0. s \in Incidents /\ Sound(s, rulings) /\ s.stage = "execute"
  BY CountedType DEF Execute, Ready, s
<1>1. /\ UNCHANGED <<row, approvals, recorded, effects, rulings, task, faults>>
      /\ recorded' \subseteq Refs
  BY DEF Execute, stored, IInv, TypeOK
<1>2. \/ Hold(w, Escalated(s)) /\ Goto(w, "save") /\ wire' = wire
      \/ Hold(w, Executed(s)) /\ Goto(w, "save") /\ wire' = wire
      \/ Hold(w, s) /\ Goto(w, "await") /\ wire' = wire \union {call}
  BY DEF Execute, s
<1>3. "save" \in PCs /\ "await" \in PCs
  BY DEF PCs
<1>4. \A t : Holds("save", t, task[w], rulings)
  BY DEF IInv, Holds
<1>5. CASE Hold(w, Escalated(s)) /\ Goto(w, "save") /\ wire' = wire
  BY <1>0, <1>1, <1>3, <1>4, <1>5, EscalatedType, EscalatedSound, LocalStep
<1>6. CASE Hold(w, Executed(s)) /\ Goto(w, "save") /\ wire' = wire
  <2>1. Executed(s) \in Incidents /\ Sound(Executed(s), rulings)
    BY <1>0, ExecutedType, ExecutedSound
  <2> QED BY <1>1, <1>3, <1>4, <1>6, <2>1, LocalStep
<1>7. CASE Hold(w, s) /\ Goto(w, "await") /\ wire' = wire \union {call}
  <2>1. \E r \in rulings : Grants(r, s.result.ref)
    BY <1>0 DEF Sound, Cleared
  <2>2. call \in Calls /\ call.ref = s.result.ref
    <3>1. s.selected \in Actions
      BY <1>0, <2>1 DEF Sound, Cleared, Grants, IsRcaReview, Actions
    <3>2. s.result.ref \in Refs
      BY <1>0 DEF Incidents, Rulings
    <3> QED BY <3>1, <3>2 DEF Calls
  <2> HIDE DEF call
  <2>3. /\ mem' \in [Workers -> Incidents] /\ pc' \in [Workers -> PCs]
        /\ task' \in [Workers -> TaskShape] /\ mem'[w] = s /\ pc'[w] = "await"
        /\ \A v \in Workers : v # w =>
             mem'[v] = mem[v] /\ pc'[v] = pc[v] /\ task'[v] = task[v]
    BY <1>0, <1>1, <1>7 DEF IInv, TypeOK, PCs, Hold, Goto
  <2>4. Holds(pc'[w], mem'[w], task'[w], rulings')
    BY <1>0, <1>1, <2>3 DEF IInv, Holds
  <2>5. OnRecord'
    BY <1>1, <1>7, <2>1, <2>2 DEF IInv, OnRecord
  <2>6. /\ approvals' \in [DOMAIN approvals' -> ApprovalStatuses]
        /\ DOMAIN approvals' \subseteq Refs /\ effects' \subseteq Refs
        /\ wire' \subseteq Calls /\ rulings' \subseteq Rulings
        /\ faults' \in 0..MaxFaults
    BY <1>1, <1>7, <2>2 DEF IInv, TypeOK
  <2> QED BY <1>0, <1>1, <2>3, <2>4, <2>5, <2>6, RequestStep
<1> QED BY <1>2, <1>5, <1>6, <1>7

LEMMA AnswerStep ==
  ASSUME IInv, NEW w \in Workers,
         EffectReported(w) \/ CallFailed(w) \/ RecordResult(w)
  PROVE  IInv'
<1> DEFINE s == mem[w]
<1>0. s \in Incidents /\ Sound(s, rulings) /\ Holds(pc[w], s, task[w], rulings)
  BY DEF IInv, TypeOK
<1>1. /\ row' = row /\ effects' = effects /\ UNCHANGED task
      /\ UNCHANGED <<approvals, wire, rulings, faults>>
  BY DEF EffectReported, CallFailed, RecordResult, stored, mcp
<1>2. recorded' \subseteq Refs
  <2>1. s.result.ref \in Refs
    BY <1>0 DEF Incidents, Rulings
  <2> QED BY <2>1 DEF EffectReported, CallFailed, RecordResult, stored, IInv, TypeOK
<1>3. "save" \in PCs /\ "log" \in PCs
  BY DEF PCs
<1>4. \A t : Holds("save", t, task[w], rulings)
  BY <1>0 DEF Holds
<1>5. CASE EffectReported(w)
  <2>1. Hold(w, s) /\ Goto(w, "log") /\ pc[w] = "await"
    BY <1>5 DEF EffectReported, Hold, IInv, TypeOK
  <2>2. Holds("log", s, task[w], rulings)
    BY <1>0, <2>1 DEF Holds
  <2> QED BY <1>0, <1>1, <1>2, <1>3, <2>1, <2>2, LocalStep
<1>6. CASE CallFailed(w)
  <2>1. Hold(w, Escalated(s)) /\ Goto(w, "save")
    BY <1>6 DEF CallFailed
  <2> QED BY <1>0, <1>1, <1>2, <1>3, <1>4, <2>1, EscalatedType, EscalatedSound,
             LocalStep
<1>7. CASE RecordResult(w)
  <2>1. Hold(w, Executed(s)) /\ Goto(w, "save")
    BY <1>7 DEF RecordResult
  <2>2. Executed(s) \in Incidents /\ Sound(Executed(s), rulings)
    BY <1>0, ExecutedType, ExecutedSound
  <2> QED BY <1>1, <1>2, <1>3, <1>4, <2>1, <2>2, LocalStep
<1> QED BY <1>5, <1>6, <1>7

LEMMA DecideStep ==
  ASSUME IInv, NEW w \in Workers, Review(w)
  PROVE  IInv'
<1>1. PICK ref \in DOMAIN approvals, v \in Decisions, o \in Choices \union {"none"} :
        DecideApproval(w, ref, v, o)
  BY DEF Review
<1> DEFINE r == [ref |-> ref, decision |-> v, option |-> o]
<1>2. ref \in Refs /\ ref.action # "none"
  BY DEF IInv, TypeOK, OnRecord
<1>3. r \in Rulings
  BY <1>2, InputAssumption DEF Rulings, Options
<1>4. r.ref.action # "none" /\ r.decision \in Decisions
  BY <1>2
<1> HIDE DEF r
<1>5. /\ task' = [task EXCEPT ![w].kind = "decide", ![w].ruling = r]
      /\ pc' = [pc EXCEPT ![w] = "decided"]
      /\ UNCHANGED <<row, approvals, recorded, effects, wire, rulings, mem, faults>>
  BY <1>1 DEF DecideApproval, Goto, stored, mcp, r
<1>6. /\ mem' \in [Workers -> Incidents] /\ pc' \in [Workers -> PCs]
      /\ task' \in [Workers -> TaskShape] /\ pc'[w] = "decided"
      /\ task'[w].kind = "decide" /\ task'[w].ruling = r
      /\ \A u \in Workers : u # w =>
           mem'[u] = mem[u] /\ pc'[u] = pc[u] /\ task'[u] = task[u]
  BY <1>3, <1>5, ZenonT(60) DEF IInv, TypeOK, PCs, TaskShape
<1>7. Sound(mem'[w], rulings') /\ Holds(pc'[w], mem'[w], task'[w], rulings')
  BY <1>4, <1>5, <1>6 DEF IInv, Holds
<1>8. OnRecord'
  BY <1>5 DEF IInv, OnRecord
<1>9. /\ approvals' \in [DOMAIN approvals' -> ApprovalStatuses]
      /\ DOMAIN approvals' \subseteq Refs /\ effects' \subseteq Refs
      /\ recorded' \subseteq Refs
      /\ wire' \subseteq Calls /\ rulings' \subseteq Rulings
      /\ faults' \in 0..MaxFaults
  BY <1>5 DEF IInv, TypeOK
<1> QED BY <1>5, <1>6, <1>7, <1>8, <1>9, RequestStep

LEMMA SaveDecisionStep ==
  ASSUME IInv, NEW w \in Workers, SaveDecision(w)
  PROVE  IInv'
<1> DEFINE r == task[w].ruling
           status == StatusAfter(r.decision)
<1>1. r \in Rulings /\ r.ref \in Refs
  BY DEF IInv, TypeOK, TaskShape, Rulings
<1>2. pc[w] = "decided" /\ Holds(pc[w], mem[w], task[w], rulings)
  BY DEF SaveDecision, IInv
<1>3. r.ref.action # "none" /\ r.decision \in Decisions /\ task[w].kind = "decide"
  BY <1>2 DEF Holds
<1>4. status \in ApprovalStatuses
  BY DEF StatusAfter, ApprovalStatuses
<1>5. /\ approvals' = Put(approvals, r.ref, status)
      /\ rulings' = rulings \union {r} /\ pc' = [pc EXCEPT ![w] = "load"]
      /\ UNCHANGED <<row, recorded, effects, wire, mem, task, faults>>
  BY DEF SaveDecision, Goto, mcp
<1> HIDE DEF status
<1>6. /\ approvals' \in [DOMAIN approvals' -> ApprovalStatuses]
      /\ DOMAIN approvals' \subseteq Refs
      /\ \A q \in DOMAIN approvals' : q.action # "none"
  BY <1>1, <1>3, <1>4, <1>5, PutApproval
<1>7. OnRecord'
  BY <1>3, <1>5, <1>6 DEF IInv, OnRecord
<1>8. /\ mem' \in [Workers -> Incidents] /\ pc' \in [Workers -> PCs]
      /\ task' \in [Workers -> TaskShape] /\ pc'[w] = "load"
      /\ \A v \in Workers : v # w =>
           mem'[v] = mem[v] /\ pc'[v] = pc[v] /\ task'[v] = task[v]
  BY <1>5 DEF IInv, TypeOK, PCs
<1>9. Sound(mem'[w], rulings')
  BY <1>5, SoundGrows DEF IInv
<1>10. Holds(pc'[w], mem'[w], task'[w], rulings')
  BY <1>3, <1>5, <1>8 DEF Holds
<1>11. /\ effects' \subseteq Refs /\ recorded' \subseteq Refs
       /\ wire' \subseteq Calls /\ rulings' \subseteq Rulings
       /\ faults' \in 0..MaxFaults
  BY <1>1, <1>5 DEF IInv, TypeOK
<1> QED BY <1>5, <1>6, <1>7, <1>8, <1>9, <1>10, <1>11, RequestStep

\* The decision a request loads into the row's incident is on record and about
\* the approval that incident names.
LEMMA LoadStep ==
  ASSUME IInv, NEW w \in Workers, LoadIncident(w)
  PROVE  IInv'
<1>1. /\ UNCHANGED <<row, approvals, recorded, effects, wire, rulings, faults>>
      /\ pc[w] = "load"
  BY DEF LoadIncident, stored, mcp
<1>2. CASE row.pending # task[w].ruling.ref
  <2>1. Return(w)
    BY <1>2 DEF LoadIncident
  <2>2. /\ approvals' \in [DOMAIN approvals' -> ApprovalStatuses]
        /\ DOMAIN approvals' \subseteq Refs
        /\ \A ref \in DOMAIN approvals' : ref.action # "none"
        /\ faults' \in 0..MaxFaults
    BY <1>1 DEF IInv, TypeOK, OnRecord
  <2> QED BY <1>1, <2>1, <2>2, ReturnStep
<1>3. CASE row.pending = task[w].ruling.ref
  <2> DEFINE r == task[w].ruling
             t == [row EXCEPT !.result = r, !.status = "open"]
             n == Len(row.history)
  <2>1. r \in Rulings /\ row \in Incidents /\ Sound(row, rulings)
    BY DEF IInv, TypeOK, TaskShape
  <2>2. r \in rulings /\ Holds("load", mem[w], task[w], rulings)
    BY <1>1 DEF IInv, Holds
  <2>3. /\ Hold(w, t) /\ Goto(w, "resume")
        /\ task' = [task EXCEPT ![w].before = n]
    BY <1>3 DEF LoadIncident
  <2>4. n \in Nat
    BY <2>1 DEF Incidents
  <2> HIDE DEF n
  <2>5. /\ t \in Incidents /\ t.stage = row.stage /\ t.selected = row.selected
        /\ t.pending = row.pending /\ t.result = r
    <3> HIDE DEF r
    <3> QED BY <2>1 DEF Incidents, Statuses
  <2> HIDE DEF t
  <2>6. Sound(t, rulings)
    BY <1>3, <2>1, <2>2, <2>5 DEF Sound, Chosen, Waits, Cleared
  <2>7. /\ mem' \in [Workers -> Incidents] /\ pc' \in [Workers -> PCs]
        /\ mem'[w] = t /\ pc'[w] = "resume"
        /\ \A v \in Workers : v # w => mem'[v] = mem[v] /\ pc'[v] = pc[v]
    BY <2>3, <2>5 DEF IInv, TypeOK, PCs, Hold, Goto
  <2>8. /\ task' \in [Workers -> TaskShape]
        /\ task'[w].kind = task[w].kind /\ task'[w].ruling = r
        /\ \A v \in Workers : v # w => task'[v] = task[v]
    BY <2>3, <2>4 DEF IInv, TypeOK, TaskShape
  <2>9. Holds(pc'[w], mem'[w], task'[w], rulings')
    BY <1>1, <2>2, <2>7, <2>8 DEF Holds
  <2>10. OnRecord'
    BY <1>1 DEF IInv, OnRecord
  <2>11. /\ approvals' \in [DOMAIN approvals' -> ApprovalStatuses]
         /\ DOMAIN approvals' \subseteq Refs /\ effects' \subseteq Refs
         /\ recorded' \subseteq Refs
         /\ wire' \subseteq Calls /\ rulings' \subseteq Rulings
         /\ faults' \in 0..MaxFaults
    BY <1>1 DEF IInv, TypeOK
  <2>12. Sound(mem'[w], rulings')
    BY <1>1, <2>6, <2>7
  <2> QED BY <1>1, <2>7, <2>8, <2>9, <2>10, <2>11, <2>12, RequestStep
<1> QED BY <1>2, <1>3

LEMMA ServeStep ==
  ASSUME IInv, NEW call \in wire, Serve(call)
  PROVE  IInv'
<1>1. /\ UNCHANGED <<row, approvals, recorded, rulings, pc, mem, task, faults>>
      /\ wire' = wire \ {call}
      /\ effects' \subseteq effects \union {call.ref}
  BY DEF Serve, stored
<1>2. call.ref \in Refs
  BY DEF IInv, TypeOK, Calls
<1>3. TypeOK'
  BY <1>1, <1>2 DEF IInv, TypeOK
<1>4. OnRecord'
  BY <1>1 DEF IInv, OnRecord
<1> QED BY <1>1, <1>3, <1>4 DEF IInv

-----------------------------------------------------------------------------
(* Theorems *)

LEMMA InitIInv == Init => IInv
<1> SUFFICES ASSUME Init PROVE IInv
  OBVIOUS
<1>1. PICK sc \in Scenarios :
        row = NewIncident(sc) /\ mem = [w \in Workers |-> NewIncident(sc)]
  BY DEF Init
<1> DEFINE s == NewIncident(sc)
<1>2. s \in Incidents /\ s.stage = "new"
  BY NewIncidentType DEF NewIncident
<1>3. Sound(s, rulings)
  BY <1>2, SoundElsewhere
<1>4. NoTask \in TaskShape /\ NoTask.kind = "none"
  BY DEF NoTask, TaskShape, NoRuling, Rulings, NoRef, Refs, Delimiters, Options
<1> HIDE DEF s
<1>5. row = s /\ \A w \in Workers : mem[w] = s
  BY <1>1 DEF s
<1>6. mem \in [Workers -> Incidents] /\ row \in Incidents
  BY <1>1, <1>2 DEF s
<1>7. /\ pc \in [Workers -> PCs] /\ task \in [Workers -> TaskShape]
      /\ \A w \in Workers : pc[w] = "idle" /\ task[w] = NoTask
  BY <1>4 DEF Init, PCs
<1>8. \A w \in Workers : Holds(pc[w], mem[w], task[w], rulings)
  BY <1>4, <1>7 DEF Holds
<1>9. approvals \in [DOMAIN approvals -> ApprovalStatuses] /\ DOMAIN approvals = {}
  BY DEF Init
<1>10. TypeOK
  BY <1>6, <1>7, <1>9, InputAssumption DEF Init, TypeOK
<1>11. OnRecord
  BY <1>9 DEF Init, OnRecord
<1> QED BY <1>3, <1>5, <1>8, <1>10, <1>11 DEF IInv

LEMMA NextIInv == IInv /\ [Next]_vars => IInv'
<1> SUFFICES ASSUME IInv, [Next]_vars PROVE IInv'
  OBVIOUS
<1>1. CASE UNCHANGED vars
  <2>1. UNCHANGED <<row, approvals, recorded, effects, wire, rulings, pc, mem,
                    task, faults>>
    BY <1>1 DEF vars, stored, mcp
  <2>2. TypeOK' /\ OnRecord'
    BY <2>1 DEF IInv, TypeOK, OnRecord
  <2> QED BY <2>1, <2>2 DEF IInv
<1>2. ASSUME NEW w \in Workers, NEW kind \in Tasks, RunIncident(w, kind) PROVE IInv'
  BY <1>2, RunStep
<1>3. ASSUME NEW w \in Workers, Review(w) PROVE IInv'
  BY <1>3, DecideStep
<1>4. ASSUME NEW w \in Workers, Handle(w) PROVE IInv'
  BY <1>4, HandlerStep, AskStep, LookUpStep, SaveApprovalStep, PauseStep,
     ExecuteStep, AnswerStep, SaveDecisionStep, LoadStep, ReplyStep DEF Handle
<1>5. ASSUME NEW w \in Workers, Lose(w) PROVE IInv'
  BY <1>5, LoseStep
<1>6. ASSUME Simulator PROVE IInv'
  BY <1>6, ServeStep DEF Simulator
<1> QED BY <1>1, <1>2, <1>3, <1>4, <1>5, <1>6 DEF Next

\* The inductive invariant holds in every reachable state: no copy of the
\* incident, however stale, reaches execution without a ruling on record.
THEOREM Inductive == Spec => []IInv
<1>1. Init => IInv
  BY InitIInv
<1>2. IInv /\ [Next]_vars => IInv'
  BY NextIInv
<1> QED BY <1>1, <1>2, PTL DEF Spec

\* Type correctness of the persisted tables and of every request's copies
\* (domain.py StrictModel types, repository columns).
THEOREM TypeCorrect == Spec => []TypeOK
<1>1. IInv => TypeOK
  BY DEF IInv
<1> QED BY <1>1, Inductive, PTL

\* Only a saved decision changes the rulings and only the simulator the effects.
LEMMA NextAuthority == IInv /\ [Next]_vars => [Authority!Next]_<<rulings, effects>>
<1> SUFFICES ASSUME IInv, [Next]_vars
             PROVE  [Authority!Next]_<<rulings, effects>>
  OBVIOUS
<1>1. CASE UNCHANGED vars
  BY <1>1 DEF vars, mcp
<1>2. ASSUME NEW w \in Workers, SaveDecision(w) PROVE Authority!Next
  <2>1. rulings' = rulings \union {task[w].ruling} /\ UNCHANGED effects
    BY <1>2 DEF SaveDecision, mcp
  <2> QED BY <2>1 DEF Authority!Next, Authority!Rule
<1>3. ASSUME NEW call \in wire, Serve(call)
      PROVE  Authority!Next \/ UNCHANGED <<rulings, effects>>
  <2>1. UNCHANGED rulings
    BY <1>3 DEF Serve
  <2>2. CASE call.action = call.ref.action
    <3>1. effects' = effects \union {call.ref}
      BY <1>3, <2>2 DEF Serve
    <3>2. \E r \in rulings : Grants(r, call.ref)
      BY DEF IInv, OnRecord
    <3> QED BY <2>1, <3>1, <3>2 DEF Authority!Next, Authority!TakeEffect
  <2>3. CASE call.action # call.ref.action
    BY <1>3, <2>1, <2>3 DEF Serve
  <2> QED BY <2>2, <2>3
<1>4. ASSUME NEW w \in Workers, NEW kind \in Tasks, RunIncident(w, kind)
      PROVE  UNCHANGED <<rulings, effects>>
  BY <1>4 DEF RunIncident, mcp
<1>5. ASSUME NEW w \in Workers, Review(w) PROVE UNCHANGED <<rulings, effects>>
  BY <1>5 DEF Review, DecideApproval, mcp
<1>6. ASSUME NEW w \in Workers, Lose(w) PROVE UNCHANGED <<rulings, effects>>
  BY <1>6 DEF Lose, mcp
<1>7. ASSUME NEW w \in Workers, Handle(w)
      PROVE  SaveDecision(w) \/ UNCHANGED <<rulings, effects>>
  BY <1>7 DEF Handle, Receive, Validate, Correlate, AssembleEvidence,
     DeterministicRca, LlmRca, AcceptRca, AskRcaReview, RankActions,
     BlockWithoutEvidence, AskAction, LookUpApproval, SaveApproval, SaveIncident,
     ResumeApproval, Execute, EffectReported, CallFailed, RecordResult, Verify,
     FailureReview, Reconcile, Pause, StepBudgetStop, LoadIncident, SaveResult,
     Reply, RunOne, mcp
<1> QED BY <1>1, <1>2, <1>3, <1>4, <1>5, <1>6, <1>7 DEF Next, Simulator

\* The workflow implements the abstract authority: every effect is committed
\* under a ruling in favour of exactly that action, whatever requests interleave
\* or die (engine._execute, tools._approved_effect).
THEOREM Authorised == Spec => EffectsAreAuthorised
<1>1. Init => Authority!Init
  BY DEF Init, Authority!Init
<1>2. IInv /\ [Next]_vars => [Authority!Next]_<<rulings, effects>>
  BY NextAuthority
<1> QED BY <1>1, <1>2, Inductive, PTL DEF Spec, EffectsAreAuthorised, Authority!Spec

-----------------------------------------------------------------------------
(* The case record: a second inductive invariant *)

\* Every copy of the incident is good against what really
\* took effect and what was really ruled; a stored result, and the answer a
\* request is about to store, are of effects that the simulator has.
CaseInv ==
  /\ recorded \subseteq effects
  /\ Good(row, effects, rulings)
  /\ \A w \in Workers : /\ Good(mem[w], effects, rulings)
                        /\ pc[w] = "log" => mem[w].result.ref \in effects

\* A step of one request keeps it when what the request ends up with is good.
LEMMA CaseRequestStep ==
  ASSUME CaseInv, NEW w \in Workers,
         effects \subseteq effects', rulings \subseteq rulings',
         recorded' \subseteq effects',
         \A v \in Workers : v # w => mem'[v] = mem[v] /\ pc'[v] = pc[v],
         Good(mem'[w], effects', rulings'),
         pc'[w] = "log" => mem'[w].result.ref \in effects',
         row' \in {row, mem'[w]}
  PROVE  CaseInv'
<1>1. Good(row', effects', rulings')
  BY GoodGrows DEF CaseInv
<1>2. ASSUME NEW v \in Workers
      PROVE  /\ Good(mem'[v], effects', rulings')
             /\ pc'[v] = "log" => mem'[v].result.ref \in effects'
  <2>1. CASE v = w
    BY <2>1
  <2>2. CASE v # w
    BY <2>2, GoodGrows DEF CaseInv
  <2> QED BY <2>1, <2>2
<1> QED BY <1>1, <1>2 DEF CaseInv

LEMMA CaseLocalStep ==
  ASSUME IInv, CaseInv, NEW w \in Workers, NEW s, NEW label,
         Hold(w, s), Goto(w, label), UNCHANGED <<effects, rulings>>,
         recorded' \subseteq effects, row' \in {row, s},
         Good(s, effects, rulings), label = "log" => s.result.ref \in effects
  PROVE  CaseInv'
<1>1. /\ mem'[w] = s /\ pc'[w] = label
      /\ \A v \in Workers : v # w => mem'[v] = mem[v] /\ pc'[v] = pc[v]
  BY DEF IInv, TypeOK, Hold, Goto
<1> QED BY <1>1, CaseRequestStep

LEMMA CaseRunOneStep ==
  ASSUME IInv, CaseInv, NEW w \in Workers, NEW stage, NEW s,
         Good(s, effects, rulings), RunOne(w, stage, s)
  PROVE  CaseInv'
<1>1. /\ Hold(w, s) /\ Goto(w, AfterStep(w)) /\ row' = s
      /\ UNCHANGED <<effects, rulings>> /\ recorded' = recorded
  BY DEF RunOne, mcp
<1>2. AfterStep(w) # "log"
  BY DEF AfterStep
<1> HIDE DEF AfterStep
<1> QED BY <1>1, <1>2, CaseLocalStep DEF CaseInv

LEMMA CountedCase ==
  ASSUME IInv, CaseInv, NEW w \in Workers
  PROVE  /\ Counted(w) \in Incidents /\ Good(Counted(w), effects, rulings)
         /\ Counted(w).stage = mem[w].stage /\ Counted(w).opinion = mem[w].opinion
<1>1. mem[w] \in Incidents /\ Good(mem[w], effects, rulings)
  BY DEF IInv, TypeOK, CaseInv
<1>2. Good(Counted(w), effects, rulings)
  BY <1>1, CountedGood DEF Counted
<1>3. Counted(w).opinion = mem[w].opinion
  BY <1>1 DEF Counted, Incidents
<1> QED BY <1>2, <1>3, CountedType

LEMMA CaseHandlerStep ==
  ASSUME IInv, CaseInv, NEW w \in Workers,
         \/ Receive(w) \/ Validate(w) \/ Correlate(w) \/ AssembleEvidence(w)
         \/ DeterministicRca(w) \/ LlmRca(w) \/ AcceptRca(w) \/ RankActions(w)
         \/ BlockWithoutEvidence(w) \/ ResumeApproval(w) \/ Verify(w)
         \/ FailureReview(w) \/ Reconcile(w)
  PROVE  CaseInv'
<1> DEFINE s == Counted(w)
<1> HIDE DEF s
<1>0. /\ s \in Incidents /\ Good(s, effects, rulings)
      /\ s.stage = mem[w].stage /\ s.opinion = mem[w].opinion
  BY CountedCase DEF s
<1>1. ASSUME NEW stage, NEW t, RunOne(w, stage, t) PROVE s.stage = stage
  BY <1>0, <1>1 DEF RunOne, Ready
<1>2. CASE Receive(w)
  <2>1. RunOne(w, "new", Moved(s, "validate"))
    BY <1>2 DEF Receive, s
  <2>2. s.stage = "new"
    BY <1>1, <2>1
  <2> QED BY <1>0, <2>1, <2>2, MovedGood, CaseRunOneStep DEF Arriving
<1>3. CASE Validate(w)
  <2>1. RunOne(w, "validate", Validated(s))
    BY <1>3 DEF Validate, s
  <2>2. s.stage = "validate"
    BY <1>1, <2>1
  <2> QED BY <1>0, <2>1, <2>2, ValidatedGood, CaseRunOneStep
<1>4. CASE Correlate(w)
  <2>1. RunOne(w, "correlate", Correlated(s))
    BY <1>4 DEF Correlate, s
  <2>2. s.stage = "correlate"
    BY <1>1, <2>1
  <2> QED BY <1>0, <2>1, <2>2, CorrelatedGood, CaseRunOneStep
<1>5. CASE AssembleEvidence(w)
  <2>1. RunOne(w, "evidence", Observed(s))
    BY <1>5 DEF AssembleEvidence, s
  <2>2. s.stage = "evidence"
    BY <1>1, <2>1
  <2> QED BY <1>0, <2>1, <2>2, ObservedGood, CaseRunOneStep
<1>6. CASE DeterministicRca(w)
  <2>1. RunOne(w, "deterministic_rca", Moved(s, "llm_rca"))
    BY <1>6 DEF DeterministicRca, s
  <2>2. s.stage = "deterministic_rca"
    BY <1>1, <2>1
  <2> QED BY <1>0, <2>1, <2>2, MovedGood, CaseRunOneStep DEF Diagnosing
<1>7. CASE LlmRca(w)
  <2>1. PICK o \in Advice :
          RunOne(w, "llm_rca", [Moved(s, "fusion") EXCEPT !.opinion = o])
    BY <1>7 DEF LlmRca, s
  <2>2. s.stage = "llm_rca"
    BY <1>1, <2>1
  <2>3. Good([Moved(s, "fusion") EXCEPT !.opinion = o], effects, rulings)
    BY <1>0, <2>2, MovedGood DEF Diagnosing
  <2> QED BY <2>1, <2>3, CaseRunOneStep
<1>8. CASE AcceptRca(w)
  <2>1. /\ RunOne(w, "fusion", [Moved(s, "action_ranking") EXCEPT !.gate = "none"])
        /\ GateFor(s.opinion) = "none"
    BY <1>0, <1>8 DEF AcceptRca, s
  <2>2. s.stage = "fusion"
    BY <1>1, <2>1
  <2> QED BY <1>0, <2>1, <2>2, AcceptedGood, CaseRunOneStep
<1>9. CASE RankActions(w)
  <2>1. RunOne(w, "action_ranking", Ranked(s))
    BY <1>9 DEF RankActions, s
  <2>2. s.stage = "action_ranking"
    BY <1>1, <2>1
  <2> QED BY <1>0, <2>1, <2>2, RankedGood, CaseRunOneStep
<1>10. CASE BlockWithoutEvidence(w)
  <2>1. RunOne(w, "policy", Escalated(s))
    BY <1>10 DEF BlockWithoutEvidence, s
  <2> QED BY <1>0, <2>1, EscalatedGood, CaseRunOneStep
<1>11. CASE ResumeApproval(w)
  <2>1. RunOne(w, "waiting_approval", Resumed(s))
    BY <1>11 DEF ResumeApproval, s
  <2>2. s.stage = "waiting_approval"
    BY <1>1, <2>1
  <2>3. s.result # NoRuling /\ Sound(s, rulings)
    BY <2>1, CountedType DEF RunOne, Ready, Paused, s
  <2>4. s.result \in rulings /\ s.result.ref = s.pending
    BY <2>2, <2>3 DEF Sound, Waits
  <2>5. s.result.decision \in Decisions
    BY <2>4 DEF IInv, OnRecord
  <2> QED BY <1>0, <2>1, <2>2, <2>4, <2>5, ResumedGood, CaseRunOneStep
<1>12. CASE Verify(w)
  <2>1. PICK passed \in BOOLEAN : RunOne(w, "verify", Verified(s, passed))
    BY <1>12 DEF Verify, s
  <2>2. s.stage = "verify"
    BY <1>1, <2>1
  <2> QED BY <1>0, <2>1, <2>2, VerifiedGood, CaseRunOneStep
<1>13. CASE FailureReview(w)
  <2>1. RunOne(w, "failure_review", Reviewed(s))
    BY <1>13 DEF FailureReview, s
  <2>2. s.stage = "failure_review"
    BY <1>1, <2>1
  <2> QED BY <1>0, <2>1, <2>2, ReviewedGood, CaseRunOneStep
<1>14. CASE Reconcile(w)
  <2>1. RunOne(w, "reconcile", Reconciled(s))
    BY <1>14 DEF Reconcile, s
  <2>2. s.stage = "reconcile"
    BY <1>1, <2>1
  <2> QED BY <1>0, <2>1, <2>2, ReconciledGood, CaseRunOneStep
<1> QED BY <1>2, <1>3, <1>4, <1>5, <1>6, <1>7, <1>8, <1>9, <1>10, <1>11,
           <1>12, <1>13, <1>14

\* Requests that begin, end, pause or save.
LEMMA CasePauseStep ==
  ASSUME IInv, CaseInv, NEW w \in Workers,
         \/ \E kind \in Tasks : RunIncident(w, kind)
         \/ Pause(w) \/ StepBudgetStop(w) \/ SaveIncident(w) \/ SaveResult(w)
         \/ Reply(w) \/ Lose(w)
  PROVE  CaseInv'
<1>1. /\ UNCHANGED <<effects, rulings>> /\ recorded' = recorded
      /\ recorded' \subseteq effects
  BY DEF RunIncident, Pause, StepBudgetStop, SaveIncident, SaveResult, Reply, Lose,
         stored, mcp, CaseInv
<1>2. mem[w] \in Incidents /\ Good(mem[w], effects, rulings)
  BY DEF IInv, TypeOK, CaseInv
<1>3. mem' = mem => Hold(w, mem[w])
  BY DEF Hold, IInv, TypeOK
<1>4. CASE \E kind \in Tasks : RunIncident(w, kind)
  <2>1. Hold(w, row) /\ Goto(w, "loop") /\ row' = row
    BY <1>4 DEF RunIncident, stored
  <2>2. Good(row, effects, rulings)
    BY DEF CaseInv
  <2> QED BY <1>1, <2>1, <2>2, CaseLocalStep
<1>5. CASE Pause(w)
  <2>1. Hold(w, mem[w]) /\ Goto(w, "reply") /\ row' = row
    BY <1>3, <1>5 DEF Pause, stored
  <2> QED BY <1>1, <1>2, <2>1, CaseLocalStep
<1>6. CASE StepBudgetStop(w)
  <2>1. Hold(w, EscalatedOnBudget(mem[w])) /\ Goto(w, "reply") /\ row' = row
    BY <1>6 DEF StepBudgetStop, stored
  <2> QED BY <1>1, <1>2, <2>1, EscalatedGood, CaseLocalStep
<1>7. CASE SaveIncident(w)
  <2>1. Hold(w, mem[w]) /\ Goto(w, AfterStep(w)) /\ row' = mem[w]
    BY <1>3, <1>7 DEF SaveIncident
  <2>2. AfterStep(w) # "log"
    BY DEF AfterStep
  <2> HIDE DEF AfterStep
  <2> QED BY <1>1, <1>2, <2>1, <2>2, CaseLocalStep
<1>8. CASE SaveResult(w)
  <2>1. Hold(w, mem[w]) /\ Goto(w, "loop") /\ row' = mem[w]
    BY <1>3, <1>8 DEF SaveResult
  <2> QED BY <1>1, <1>2, <2>1, CaseLocalStep
<1>9. CASE Reply(w) \/ Lose(w)
  <2>1. Hold(w, Blank) /\ Goto(w, "idle") /\ row' = row
    BY <1>9 DEF Reply, Lose, Return, stored
  <2>2. Good(Blank, effects, rulings)
    BY NewIncidentGood DEF Blank
  <2> QED BY <1>1, <2>1, <2>2, CaseLocalStep
<1> QED BY <1>4, <1>5, <1>6, <1>7, <1>8, <1>9

LEMMA CaseAskStep ==
  ASSUME IInv, CaseInv, NEW w \in Workers,
         AskRcaReview(w) \/ AskAction(w) \/ LookUpApproval(w) \/ SaveApproval(w)
  PROVE  CaseInv'
<1> DEFINE s == Counted(w)
<1> HIDE DEF s
<1>0. s \in Incidents /\ Good(s, effects, rulings)
  BY CountedCase DEF s
<1>1. /\ UNCHANGED <<effects, rulings>> /\ recorded' \subseteq effects /\ row' = row
  BY DEF AskRcaReview, AskAction, LookUpApproval, SaveApproval, stored, mcp, CaseInv
<1>2. mem[w] \in Incidents /\ Good(mem[w], effects, rulings)
  BY DEF IInv, TypeOK, CaseInv
<1>3. CASE AskRcaReview(w)
  <2> DEFINE t == [s EXCEPT !.gate = GateFor(mem[w].opinion)]
  <2>1. Hold(w, t) /\ Goto(w, "prepare")
    BY <1>3 DEF AskRcaReview, s
  <2>2. /\ SameCounts(s, t) /\ t.evidence = s.evidence /\ t.stage = s.stage
        /\ t.verified = s.verified /\ t.opinion = s.opinion /\ t.pending = s.pending
    BY <1>0 DEF SameCounts, Incidents
  <2> HIDE DEF t
  <2>3. Good(t, effects, rulings)
    BY <1>0, <2>2, NotedGood
  <2> QED BY <1>1, <2>1, <2>3, CaseLocalStep
<1>4. CASE AskAction(w)
  <2>1. Hold(w, s) /\ Goto(w, "prepare")
    BY <1>4 DEF AskAction, s
  <2> QED BY <1>0, <1>1, <2>1, CaseLocalStep
<1>5. CASE LookUpApproval(w)
  <2>1. Hold(w, mem[w]) /\ Goto(w, "record")
    BY <1>5 DEF LookUpApproval, Hold, IInv, TypeOK
  <2> QED BY <1>1, <1>2, <2>1, CaseLocalStep
<1>6. CASE SaveApproval(w)
  <2> DEFINE m == mem[w]
             ref == Asked(m)
             t == [m EXCEPT !.pending = ref, !.result = NoRuling,
                            !.stage = "waiting_approval", !.status = "waiting"]
  <2>1. Hold(w, t) /\ Goto(w, "save")
    BY <1>6 DEF SaveApproval
  <2>2. m.stage \in {"fusion", "policy"} /\ (m.stage = "policy" => m.selected \in Actions)
    BY <1>6 DEF SaveApproval, IInv, Holds, Sound, Chosen
  <2>3. ref = RefFor(m, IF m.stage = "fusion" THEN "rca_review" ELSE m.selected)
    BY DEF Asked
  <2> HIDE DEF m, ref
  <2>4. Good(t, effects, rulings)
    BY <1>2, <2>2, <2>3, WaitingGood DEF m
  <2> QED BY <1>1, <2>1, <2>4, CaseLocalStep
<1> QED BY <1>3, <1>4, <1>5, <1>6

\* What a request appends to the history has been reported by the simulator, to
\* it or to an earlier request that stored the result.
LEMMA CaseExecuteStep ==
  ASSUME IInv, CaseInv, NEW w \in Workers,
         Execute(w) \/ EffectReported(w) \/ CallFailed(w) \/ RecordResult(w)
  PROVE  CaseInv'
<1> DEFINE s == Counted(w)
           m == mem[w]
<1> HIDE DEF s, m
<1>0. /\ s \in Incidents /\ Good(s, effects, rulings)
      /\ s.stage = m.stage /\ s.result = m.result
  BY CountedCase, CountedType DEF s, m
<1>1. m \in Incidents /\ Good(m, effects, rulings)
  BY DEF IInv, TypeOK, CaseInv, m
<1>2. UNCHANGED <<effects, rulings>> /\ row' = row
  BY DEF Execute, EffectReported, CallFailed, RecordResult, stored, mcp
<1>3. CASE Execute(w)
  <2>1. recorded' \subseteq effects /\ s.stage = "execute"
    BY <1>0, <1>3 DEF Execute, Ready, stored, CaseInv, m
  <2>2. \/ Hold(w, Escalated(s)) /\ Goto(w, "save")
        \/ Hold(w, Executed(s)) /\ Goto(w, "save") /\ s.result.ref \in recorded
        \/ Hold(w, s) /\ Goto(w, "await")
    BY <1>3 DEF Execute, s
  <2>3. s.result.ref \in recorded => Good(Executed(s), effects, rulings)
    BY <1>0, <2>1, ExecutedGood DEF CaseInv
  <2>4. Good(Escalated(s), effects, rulings)
    BY <1>0, EscalatedGood
  <2> QED BY <1>0, <1>2, <2>1, <2>2, <2>3, <2>4, CaseLocalStep
<1>4. CASE EffectReported(w)
  <2>1. Hold(w, m) /\ Goto(w, "log") /\ recorded' \subseteq effects
    BY <1>4 DEF EffectReported, Hold, stored, IInv, TypeOK, CaseInv, m
  <2>2. m.result.ref \in effects
    BY <1>4 DEF EffectReported, CallOf, m
  <2> QED BY <1>1, <1>2, <2>1, <2>2, CaseLocalStep
<1>5. CASE CallFailed(w)
  <2>1. Hold(w, Escalated(m)) /\ Goto(w, "save") /\ recorded' \subseteq effects
    BY <1>5 DEF CallFailed, stored, CaseInv, m
  <2> QED BY <1>1, <1>2, <2>1, EscalatedGood, CaseLocalStep
<1>6. CASE RecordResult(w)
  <2>1. /\ Hold(w, Executed(m)) /\ Goto(w, "save") /\ pc[w] = "log"
        /\ recorded' = recorded \union {m.result.ref}
    BY <1>6 DEF RecordResult, m
  <2>2. m.result.ref \in effects /\ m.stage = "execute"
    BY <2>1 DEF CaseInv, IInv, Holds, m
  <2>3. Good(Executed(m), effects, rulings)
    BY <1>1, <2>2, ExecutedGood
  <2> QED BY <1>2, <2>1, <2>2, <2>3, CaseLocalStep DEF CaseInv
<1> QED BY <1>3, <1>4, <1>5, <1>6

LEMMA CaseDecideStep ==
  ASSUME IInv, CaseInv, NEW w \in Workers,
         Review(w) \/ SaveDecision(w) \/ LoadIncident(w)
  PROVE  CaseInv'
<1>1. /\ UNCHANGED <<row, effects>> /\ rulings \subseteq rulings'
      /\ recorded' \subseteq effects'
  BY DEF Review, DecideApproval, SaveDecision, LoadIncident, stored, mcp, CaseInv
<1>2. CASE Review(w) \/ SaveDecision(w)
  <2>1. /\ mem' = mem /\ pc'[w] # "log"
        /\ \A v \in Workers : v # w => pc'[v] = pc[v]
    BY <1>2 DEF Review, DecideApproval, SaveDecision, Goto, IInv, TypeOK
  <2>2. Good(mem'[w], effects', rulings')
    BY <1>1, <2>1, GoodGrows DEF CaseInv
  <2> QED BY <1>1, <2>1, <2>2, CaseRequestStep
<1>3. CASE LoadIncident(w)
  <2> DEFINE t == [row EXCEPT !.result = task[w].ruling, !.status = "open"]
  <2>1. UNCHANGED rulings
    BY <1>3 DEF LoadIncident
  <2>2. \/ Hold(w, Blank) /\ Goto(w, "idle")
        \/ Hold(w, t) /\ Goto(w, "resume")
    BY <1>3 DEF LoadIncident, Return
  <2>3. row \in Incidents /\ Good(row, effects, rulings)
    BY DEF IInv, TypeOK, CaseInv
  <2>4. /\ SameCounts(row, t) /\ t.evidence = row.evidence /\ t.stage = row.stage
        /\ t.verified = row.verified /\ t.opinion = row.opinion
        /\ t.pending = row.pending
    BY <2>3 DEF SameCounts, Incidents
  <2> HIDE DEF t
  <2>5. Good(t, effects, rulings)
    BY <2>3, <2>4, NotedGood
  <2>6. Good(Blank, effects, rulings)
    BY NewIncidentGood DEF Blank
  <2> QED BY <1>1, <2>1, <2>2, <2>5, <2>6, CaseLocalStep
<1> QED BY <1>2, <1>3

LEMMA NextCaseInv == IInv /\ CaseInv /\ [Next]_vars => CaseInv'
<1> SUFFICES ASSUME IInv, CaseInv, [Next]_vars PROVE CaseInv'
  OBVIOUS
<1>1. CASE UNCHANGED vars
  BY <1>1 DEF vars, stored, mcp, CaseInv
<1>2. ASSUME NEW w \in Workers, NEW kind \in Tasks, RunIncident(w, kind) PROVE CaseInv'
  BY <1>2, CasePauseStep
<1>3. ASSUME NEW w \in Workers, Review(w) PROVE CaseInv'
  BY <1>3, CaseDecideStep
<1>4. ASSUME NEW w \in Workers, Handle(w) PROVE CaseInv'
  BY <1>4, CaseHandlerStep, CasePauseStep, CaseAskStep, CaseExecuteStep,
     CaseDecideStep DEF Handle
<1>5. ASSUME NEW w \in Workers, Lose(w) PROVE CaseInv'
  BY <1>5, CasePauseStep
<1>6. ASSUME NEW call \in wire, Serve(call) PROVE CaseInv'
  <2>1. effects \subseteq effects' /\ UNCHANGED <<row, recorded, rulings, pc, mem>>
    BY <1>6 DEF Serve, stored
  <2>2. \A s : Good(s, effects, rulings) => Good(s, effects', rulings')
    BY <2>1, GoodGrows
  <2> QED BY <2>1, <2>2 DEF CaseInv
<1> QED BY <1>1, <1>2, <1>3, <1>4, <1>5, <1>6 DEF Next, Simulator

\* The case record can be trusted in every reachable state, on every copy.
THEOREM CaseInductive == Spec => []CaseInv
<1>1. Init => CaseInv
  <2> SUFFICES ASSUME Init PROVE CaseInv
    OBVIOUS
  <2>1. PICK sc \in Scenarios :
          row = NewIncident(sc) /\ mem = [w \in Workers |-> NewIncident(sc)]
    BY DEF Init
  <2>2. Good(NewIncident(sc), effects, rulings)
    BY NewIncidentGood
  <2> QED BY <2>1, <2>2 DEF Init, CaseInv
<1>2. IInv /\ CaseInv /\ [Next]_vars => CaseInv'
  BY NextCaseInv
<1> QED BY <1>1, <1>2, Inductive, PTL DEF Spec

LEMMA CopiesAreGood ==
  ASSUME CaseInv, NEW s \in Copies PROVE Good(s, effects, rulings)
BY DEF CaseInv, Copies

\* No blind repeat, on every copy of the case and for any number of concurrent
\* requests: each action was chosen in a diagnostic cycle of its own, with the
\* evidence of the failure before it (engine._failure_review, _assemble_evidence).
THEOREM NeverBlind == Spec => []NoBlindRepeat
<1>1. CaseInv => NoBlindRepeat
  <2> SUFFICES ASSUME CaseInv, NEW s \in Copies
               PROVE  /\ Len(s.history) <= s.cycles
                      /\ s.stage \in {"action_ranking", "policy", "waiting_approval",
                                      "execute"}
                         => /\ Len(s.history) < s.cycles
                            /\ Len(s.history) > 0 =>
                                 <<"failed_action", Len(s.history)>> \in s.evidence
    BY DEF NoBlindRepeat
  <2> QED BY CopiesAreGood DEF Good, Evidenced, Arriving, Diagnosing
<1> QED BY <1>1, CaseInductive, PTL

\* An incident closes only on a passed verification, and no copy of it claims an
\* action that the simulator does not have, whatever requests interleave or die
\* (engine._verify, _reconcile, _execute).
THEOREM ClosedOnProof == Spec => []ClosureIsProven
<1>1. CaseInv => ClosureIsProven
  <2> SUFFICES ASSUME CaseInv PROVE ClosureIsProven
    OBVIOUS
  <2>1. row \in Copies
    BY DEF Copies
  <2> QED BY <2>1, CopiesAreGood DEF ClosureIsProven, Good, Confirmed
<1> QED BY <1>1, CaseInductive, PTL

\* A doubted RCA is past the gate only by a ruling of its own diagnostic cycle,
\* on every copy and for any number of concurrent requests (engine._fusion,
\* _resume_approval).
THEOREM GateIsHuman == Spec => []GateNeedsHuman
<1>1. CaseInv => GateNeedsHuman
  <2> SUFFICES ASSUME CaseInv, NEW s \in Copies, Doubted(s),
                      \/ s.stage \in {"action_ranking", "policy", "execute", "verify",
                                      "failure_review", "reconcile", "closed"}
                      \/ s.stage = "waiting_approval" /\ ~IsRcaReview(s.pending.action)
               PROVE  LetPass(s, rulings)
    BY DEF GateNeedsHuman, Doubted, LetPass
  <2>1. PastGate(s)
    BY DEF PastGate, IsRcaReview, EffectActions, RemoteActions, FieldActions
  <2> QED BY <2>1, CopiesAreGood DEF Good, Gated
<1> QED BY <1>1, CaseInductive, PTL

-----------------------------------------------------------------------------
(* One request at a time: approvals are decided once *)

\* What follows is about requests that do not overlap, any number of them; each
\* may still be lost at any step, and the calls it sent be served later.
OneAtATime == \A v, w \in Workers : v = w

\* An approval is ruled on at most once: whatever is pending or not asked for has
\* no ruling yet, a decision under way is about a pending approval, and a request
\* about to save an approval has read its latest status.
DecidedOnce ==
  /\ \A r, q \in rulings : r.ref = q.ref => r = q
  /\ \A r \in rulings : StatusOf(r.ref) \notin {"absent", "pending"}
  /\ \A w \in Workers :
       /\ pc[w] = "decided" => StatusOf(task[w].ruling.ref) = "pending"
       /\ pc[w] = "record" => task[w].seen = StatusOf(Asked(mem[w]))

LEMMA PutStatus ==
  ASSUME NEW ref, NEW status, approvals' = Put(approvals, ref, status), NEW q
  PROVE  StatusOf(q)' = IF q = ref THEN status ELSE StatusOf(q)
BY DEF Put, StatusOf

LEMMA NextDecidedOnce ==
  ASSUME OneAtATime, IInv, DecidedOnce, [Next]_vars
  PROVE  DecidedOnce'
<1>1. ASSUME UNCHANGED <<approvals, rulings>>, NEW w \in Workers,
             pc'[w] \notin {"decided", "record"}
      PROVE  DecidedOnce'
  <2>1. \A r : StatusOf(r)' = StatusOf(r)
    BY <1>1 DEF StatusOf
  <2>2. \A v \in Workers : pc'[v] \notin {"decided", "record"}
    BY <1>1 DEF OneAtATime
  <2> QED BY <1>1, <2>1, <2>2 DEF DecidedOnce
<1>2. ASSUME UNCHANGED <<approvals, rulings, pc, mem, task>> PROVE DecidedOnce'
  <2>1. \A r : StatusOf(r)' = StatusOf(r)
    BY <1>2 DEF StatusOf
  <2>2. \A w \in Workers : Asked(mem'[w]) = Asked(mem[w])
    BY <1>2
  <2> QED BY <1>2, <2>1, <2>2 DEF DecidedOnce
<1>3. ASSUME NEW w \in Workers, NEW ref, NEW status,
             approvals' = Put(approvals, ref, status), UNCHANGED rulings,
             pc'[w] \notin {"decided", "record"},
             status \in {"absent", "pending"} => StatusOf(ref) \in {"absent", "pending"}
      PROVE  DecidedOnce'
  <2>1. \A r \in rulings : StatusOf(r.ref)' \notin {"absent", "pending"}
    BY <1>3, PutStatus DEF DecidedOnce
  <2>2. \A v \in Workers : pc'[v] \notin {"decided", "record"}
    BY <1>3 DEF OneAtATime
  <2> QED BY <1>3, <2>1, <2>2 DEF DecidedOnce
<1>4. ASSUME NEW w \in Workers, LookUpApproval(w) PROVE DecidedOnce'
  <2>1. /\ UNCHANGED <<approvals, rulings, mem>> /\ pc'[w] = "record"
        /\ task'[w].seen = StatusOf(Asked(mem[w]))
    BY <1>4 DEF LookUpApproval, Goto, stored, IInv, TypeOK, TaskShape
  <2>2. \A r : StatusOf(r)' = StatusOf(r)
    BY <2>1 DEF StatusOf
  <2>3. pc'[w] = "record" => task'[w].seen = StatusOf(Asked(mem[w]))'
    BY <2>1 DEF StatusOf
  <2>4. \A v \in Workers : v = w
    BY DEF OneAtATime
  <2> QED BY <2>1, <2>2, <2>3, <2>4 DEF DecidedOnce
<1>5. ASSUME NEW w \in Workers, SaveApproval(w) PROVE DecidedOnce'
  <2> DEFINE ref == Asked(mem[w])
             status == IF task[w].seen = "absent" THEN "pending" ELSE task[w].seen
  <2>1. /\ approvals' = Put(approvals, ref, status) /\ UNCHANGED rulings
        /\ pc'[w] = "save" /\ task[w].seen = StatusOf(ref)
    BY <1>5 DEF SaveApproval, Goto, IInv, TypeOK, DecidedOnce
  <2>2. status \in {"absent", "pending"} => StatusOf(ref) \in {"absent", "pending"}
    BY <2>1
  <2> HIDE DEF ref, status
  <2> QED BY <1>3, <2>1, <2>2
<1>6. ASSUME NEW w \in Workers, Review(w) PROVE DecidedOnce'
  <2>1. PICK ref \in DOMAIN approvals, v \in Decisions, o \in Choices \union {"none"} :
          DecideApproval(w, ref, v, o)
    BY <1>6 DEF Review
  <2>2. /\ UNCHANGED <<approvals, rulings>> /\ pc'[w] = "decided"
        /\ StatusOf(ref) = "pending"
    BY <2>1 DEF DecideApproval, Goto, stored, IInv, TypeOK
  <2>3. task'[w].ruling.ref = ref
    BY <2>1 DEF DecideApproval, IInv, TypeOK, TaskShape
  <2>4. \A r : StatusOf(r)' = StatusOf(r)
    BY <2>2 DEF StatusOf
  <2>5. \A u \in Workers : u = w
    BY DEF OneAtATime
  <2>6. pc'[w] = "decided" => StatusOf(task[w].ruling.ref)' = "pending"
    BY <2>2, <2>3 DEF StatusOf
  <2> QED BY <2>2, <2>4, <2>5, <2>6 DEF DecidedOnce
<1>7. ASSUME NEW w \in Workers, SaveDecision(w) PROVE DecidedOnce'
  <2> DEFINE d == task[w].ruling
             status == StatusAfter(d.decision)
  <2>1. /\ approvals' = Put(approvals, d.ref, status) /\ rulings' = rulings \union {d}
        /\ pc'[w] = "load" /\ StatusOf(d.ref) = "pending"
    BY <1>7 DEF SaveDecision, Goto, IInv, TypeOK, DecidedOnce
  <2>2. status \notin {"absent", "pending"}
    BY DEF StatusAfter
  <2> HIDE DEF d, status
  <2>3. \A r \in rulings : r.ref # d.ref
    BY <2>1 DEF DecidedOnce
  <2>4. \A r \in rulings' : StatusOf(r.ref)' \notin {"absent", "pending"}
    BY <2>1, <2>2, PutStatus DEF DecidedOnce
  <2>5. \A u \in Workers : pc'[u] = "load"
    BY <2>1 DEF OneAtATime
  <2> QED BY <2>1, <2>3, <2>4, <2>5 DEF DecidedOnce
<1>8. ASSUME NEW w \in Workers, Reply(w) PROVE DecidedOnce'
  <2>1. UNCHANGED rulings /\ pc'[w] = "idle"
    BY <1>8 DEF Reply, Return, Goto, IInv, TypeOK
  <2>2. \/ UNCHANGED approvals
        \/ approvals' = Put(approvals, task[w].ruling.ref, "consumed")
    BY <1>8 DEF Reply
  <2> QED BY <1>1, <1>3, <2>1, <2>2
<1>9. CASE UNCHANGED vars
  BY <1>2, <1>9 DEF vars, stored
<1>10. ASSUME NEW w \in Workers,
              \/ \E kind \in Tasks : RunIncident(w, kind)
              \/ Lose(w) \/ LoadIncident(w)
       PROVE  DecidedOnce'
  <2>1. UNCHANGED <<approvals, rulings>> /\ pc'[w] \in {"loop", "idle", "resume"}
    BY <1>10 DEF RunIncident, Lose, LoadIncident, Return, Goto, stored, IInv, TypeOK
  <2> QED BY <1>1, <2>1
<1>11. ASSUME NEW call \in wire, Serve(call) PROVE DecidedOnce'
  BY <1>2, <1>11 DEF Serve, stored
<1>12. ASSUME NEW w \in Workers,
              \/ Receive(w) \/ Validate(w) \/ Correlate(w) \/ AssembleEvidence(w)
              \/ DeterministicRca(w) \/ LlmRca(w) \/ AcceptRca(w) \/ RankActions(w)
              \/ BlockWithoutEvidence(w) \/ ResumeApproval(w) \/ Verify(w)
              \/ FailureReview(w) \/ Reconcile(w)
       PROVE  DecidedOnce'
  <2>1. \E stage, s : RunOne(w, stage, s)
    BY <1>12 DEF Receive, Validate, Correlate, AssembleEvidence, DeterministicRca,
       LlmRca, AcceptRca, RankActions, BlockWithoutEvidence, ResumeApproval, Verify,
       FailureReview, Reconcile
  <2>2. UNCHANGED <<approvals, rulings>> /\ pc'[w] \in {"loop", "reply"}
    BY <2>1 DEF RunOne, AfterStep, Goto, IInv, TypeOK
  <2> QED BY <1>1, <2>2
<1>13. ASSUME NEW w \in Workers,
              \/ AskRcaReview(w) \/ AskAction(w) \/ SaveIncident(w) \/ Execute(w)
              \/ EffectReported(w) \/ CallFailed(w) \/ RecordResult(w) \/ Pause(w)
              \/ StepBudgetStop(w) \/ SaveResult(w)
       PROVE  DecidedOnce'
  <2>1. UNCHANGED <<approvals, rulings>>
    BY <1>13 DEF AskRcaReview, AskAction, SaveIncident, Execute, EffectReported,
       CallFailed, RecordResult, Pause, StepBudgetStop, SaveResult, stored
  <2>2. pc'[w] \notin {"decided", "record"}
    BY <1>13 DEF AskRcaReview, AskAction, SaveIncident, Execute, EffectReported,
       CallFailed, RecordResult, Pause, StepBudgetStop, SaveResult, AfterStep, Goto,
       IInv, TypeOK
  <2> QED BY <1>1, <2>1, <2>2
<1> QED BY <1>4, <1>5, <1>6, <1>7, <1>8, <1>9, <1>10, <1>11, <1>12, <1>13
        DEF Next, Handle, Simulator

\* While requests do not overlap, an approval gets one decision in its life.
THEOREM RulingsAreFinal ==
  ASSUME OneAtATime PROVE Spec => []DecidedOnce
<1>1. Init => DecidedOnce
  BY DEF Init, DecidedOnce
<1>2. IInv /\ DecidedOnce /\ [Next]_vars => DecidedOnce'
  BY NextDecidedOnce
<1> QED BY <1>1, <1>2, Inductive, PTL DEF Spec

\* Only a call that the simulator serves takes effect.
LEMMA EffectsComeFromCalls ==
  ASSUME [Next]_vars, NEW ref \in effects' \ effects
  PROVE  \E call \in wire : call.ref = ref /\ rulings' = rulings
<1>1. ASSUME NEW w \in Workers,
             \/ \E stage, s : RunOne(w, stage, s)
             \/ \E kind \in Tasks : RunIncident(w, kind)
             \/ Review(w) \/ Lose(w) \/ AskRcaReview(w) \/ AskAction(w)
             \/ LookUpApproval(w) \/ SaveApproval(w) \/ SaveIncident(w) \/ Pause(w)
             \/ StepBudgetStop(w) \/ SaveDecision(w) \/ LoadIncident(w)
             \/ SaveResult(w) \/ Reply(w)
      PROVE  UNCHANGED effects
  BY <1>1 DEF mcp, RunOne, RunIncident, Review, DecideApproval, Lose, AskRcaReview,
     AskAction, LookUpApproval, SaveApproval, SaveIncident, Pause, StepBudgetStop,
     SaveDecision, LoadIncident, SaveResult, Reply
<1>2. ASSUME NEW w \in Workers,
             Execute(w) \/ EffectReported(w) \/ CallFailed(w) \/ RecordResult(w)
      PROVE  UNCHANGED effects
  BY <1>2 DEF mcp, Execute, EffectReported, CallFailed, RecordResult
<1>3. ASSUME NEW w \in Workers,
             \/ Receive(w) \/ Validate(w) \/ Correlate(w) \/ AssembleEvidence(w)
             \/ DeterministicRca(w) \/ LlmRca(w) \/ AcceptRca(w) \/ RankActions(w)
             \/ BlockWithoutEvidence(w) \/ ResumeApproval(w) \/ Verify(w)
             \/ FailureReview(w) \/ Reconcile(w)
      PROVE  \E stage, s : RunOne(w, stage, s)
  BY <1>3 DEF Receive, Validate, Correlate, AssembleEvidence, DeterministicRca,
     LlmRca, AcceptRca, RankActions, BlockWithoutEvidence, ResumeApproval, Verify,
     FailureReview, Reconcile
<1>4. ASSUME NEW w \in Workers, Handle(w) PROVE UNCHANGED effects
  BY <1>1, <1>2, <1>3, <1>4 DEF Handle
<1>5. UNCHANGED vars => UNCHANGED effects
  BY DEF vars, mcp
<1>6. PICK call \in wire : Serve(call)
  BY <1>1, <1>4, <1>5 DEF Next, Simulator
<1>7. effects' \in {effects, effects \union {call.ref}} /\ rulings' = rulings
  BY <1>6 DEF Serve
<1> QED BY <1>6, <1>7

\* While requests do not overlap, a rejection is final: no effect is committed
\* afterwards for the approval it rejected, not even by a call sent before
\* (engine._resume_approval; WORKFLOW.md:30).
THEOREM RejectedForGood ==
  ASSUME OneAtATime PROVE Spec => RejectionIsFinal
<1> DEFINE Final == \A ref \in effects' \ effects, r \in rulings :
                      r.ref = ref => r.decision # "reject"
<1>1. IInv /\ DecidedOnce /\ [Next]_vars => [Final]_vars
  <2> SUFFICES ASSUME IInv, DecidedOnce, [Next]_vars,
                      NEW ref \in effects' \ effects, NEW r \in rulings, r.ref = ref
               PROVE  r.decision # "reject"
    OBVIOUS
  <2>1. PICK call \in wire : call.ref = ref
    BY EffectsComeFromCalls
  <2>2. PICK q \in rulings : Grants(q, ref)
    BY <2>1 DEF IInv, OnRecord
  <2>3. q = r
    BY <2>2 DEF DecidedOnce, Grants
  <2> QED BY <2>2, <2>3 DEF Grants
<1> QED BY <1>1, Inductive, RulingsAreFinal, PTL DEF Spec, RejectionIsFinal

-----------------------------------------------------------------------------
(* One request at a time: what was tried is accounted for *)

\* Every effect, and every call that may still become one.
Tries == effects \union {call.ref : call \in wire}

\* Attempts drawn from the same counter of the incident.
SameCount(p, q) ==
  \/ {p.action, q.action} \subseteq RemoteActions
  \/ {p.action, q.action} \subseteq FieldActions
  \/ {p.action, q.action} \subseteq {"dirty_boots_mr"}

InBudget(p) ==
  /\ p.action \in RemoteActions => p.attempt \in 1..MaxRemote
  /\ p.action \in FieldActions => p.attempt \in 1..MaxField
  /\ p.action = "dirty_boots_mr" => p.attempt \in 1..MaxMr

Accounted(s) == \A p \in Tries : Accounts(s, p)

\* Tries keep to the ceilings, no two share an attempt number, and the row, like
\* the copy of a request that may save it, accounts for each.  Between handlers
\* that copy is the row itself.
LedgerInv ==
  /\ \A p \in Tries : InBudget(p)
  /\ \A p, q \in Tries : SameCount(p, q) /\ p.attempt = q.attempt => p = q
  /\ Accounted(row)
  /\ \A w \in Workers :
       /\ pc[w] = "loop" => mem[w] = row
       /\ pc[w] \in {"prepare", "record", "await", "log", "save", "resume"}
            => Accounted(mem[w])

\* No new call: the request ends up with a copy that accounts for all tries.
LEMMA LedgerStep ==
  ASSUME OneAtATime, LedgerInv, NEW w \in Workers, Tries' \subseteq Tries,
         Accounted(row) => \A p \in Tries : Accounts(row', p),
         pc'[w] = "loop" => mem'[w] = row',
         pc'[w] \in {"prepare", "record", "await", "log", "save", "resume"}
           => \A p \in Tries : Accounts(mem'[w], p)
  PROVE  LedgerInv'
<1>1. \A v \in Workers : v = w
  BY DEF OneAtATime
<1>2. Accounted(row)' /\ (\A p \in Tries' : InBudget(p))
      /\ (\A p, q \in Tries' : SameCount(p, q) /\ p.attempt = q.attempt => p = q)
  BY DEF LedgerInv, Accounted
<1>3. pc'[w] \in {"prepare", "record", "await", "log", "save", "resume"}
        => Accounted(mem[w])'
  BY DEF Accounted
<1> QED BY <1>1, <1>2, <1>3 DEF LedgerInv

LEMMA LedgerRunOneStep ==
  ASSUME OneAtATime, IInv, LedgerInv, NEW w \in Workers, NEW stage, NEW s,
         RunOne(w, stage, s), stage # "execute",
         s.stage = "escalated" \/ SameWork(Counted(w), s)
  PROVE  LedgerInv'
<1>1. /\ mem[w] = row /\ row' = s /\ mem'[w] = s /\ pc'[w] \in {"loop", "reply"}
      /\ Tries' = Tries
  BY DEF RunOne, Ready, Hold, Goto, AfterStep, IInv, TypeOK, LedgerInv, Tries, mcp
<1>2. mem[w].stage = stage /\ mem[w].stage # "escalated"
  BY DEF RunOne, Ready, Paused, Terminal, TerminalStages
<1>3. row \in Incidents
  BY DEF IInv, TypeOK
<1>4. s.stage = "escalated" \/ SameWork(row, s)
  BY <1>1, <1>3 DEF Counted, SameWork, Incidents
<1>5. \A p : Accounts(row, p) => Accounts(s, p)
  BY <1>1, <1>2, <1>4, AccountsKept
<1> QED BY <1>1, <1>5, LedgerStep DEF Accounted

LEMMA LedgerHandlerStep ==
  ASSUME OneAtATime, IInv, LedgerInv, NEW w \in Workers,
         \/ Receive(w) \/ Validate(w) \/ Correlate(w) \/ AssembleEvidence(w)
         \/ DeterministicRca(w) \/ LlmRca(w) \/ AcceptRca(w) \/ RankActions(w)
         \/ BlockWithoutEvidence(w) \/ ResumeApproval(w) \/ Verify(w)
         \/ FailureReview(w) \/ Reconcile(w)
  PROVE  LedgerInv'
<1> DEFINE s == Counted(w)
<1> HIDE DEF s
<1>1. s \in Incidents
  BY CountedType DEF s
<1>2. ASSUME NEW stage, NEW t, RunOne(w, stage, t), stage # "execute",
             t.stage = "escalated" \/ SameWork(s, t)
      PROVE  LedgerInv'
  BY <1>2, LedgerRunOneStep DEF s
<1>3. CASE Receive(w)
  <2>1. RunOne(w, "new", Moved(s, "validate"))
    BY <1>3 DEF Receive, s
  <2> QED BY <1>1, <1>2, <2>1, RulesKeepWork
<1>4. CASE Validate(w)
  <2>1. RunOne(w, "validate", Validated(s))
    BY <1>4 DEF Validate, s
  <2> QED BY <1>1, <1>2, <2>1, RulesKeepWork
<1>5. CASE Correlate(w)
  <2>1. RunOne(w, "correlate", Correlated(s))
    BY <1>5 DEF Correlate, s
  <2> QED BY <1>1, <1>2, <2>1, RulesKeepWork
<1>6. CASE AssembleEvidence(w)
  <2>1. RunOne(w, "evidence", Observed(s))
    BY <1>6 DEF AssembleEvidence, s
  <2> QED BY <1>1, <1>2, <2>1, RulesKeepWork
<1>7. CASE DeterministicRca(w)
  <2>1. RunOne(w, "deterministic_rca", Moved(s, "llm_rca"))
    BY <1>7 DEF DeterministicRca, s
  <2> QED BY <1>1, <1>2, <2>1, RulesKeepWork
<1>8. CASE LlmRca(w)
  <2>1. PICK o \in Advice :
          RunOne(w, "llm_rca", [Moved(s, "fusion") EXCEPT !.opinion = o])
    BY <1>8 DEF LlmRca, s
  <2> QED BY <1>1, <1>2, <2>1, RulesKeepWork
<1>9. CASE AcceptRca(w)
  <2>1. RunOne(w, "fusion", [Moved(s, "action_ranking") EXCEPT !.gate = "none"])
    BY <1>9 DEF AcceptRca, s
  <2> QED BY <1>1, <1>2, <2>1, RulesKeepWork
<1>10. CASE RankActions(w)
  <2>1. RunOne(w, "action_ranking", Ranked(s))
    BY <1>10 DEF RankActions, s
  <2> QED BY <1>1, <1>2, <2>1, RulesKeepWork
<1>11. CASE BlockWithoutEvidence(w)
  <2>1. RunOne(w, "policy", Escalated(s))
    BY <1>11 DEF BlockWithoutEvidence, s
  <2> QED BY <1>1, <1>2, <2>1, RulesKeepWork
<1>12. CASE ResumeApproval(w)
  <2>1. RunOne(w, "waiting_approval", Resumed(s))
    BY <1>12 DEF ResumeApproval, s
  <2> QED BY <1>1, <1>2, <2>1, RulesKeepWork
<1>13. CASE Verify(w)
  <2>1. PICK passed \in BOOLEAN : RunOne(w, "verify", Verified(s, passed))
    BY <1>13 DEF Verify, s
  <2> QED BY <1>1, <1>2, <2>1, RulesKeepWork
<1>14. CASE FailureReview(w)
  <2>1. RunOne(w, "failure_review", Reviewed(s))
    BY <1>14 DEF FailureReview, s
  <2> QED BY <1>1, <1>2, <2>1, RulesKeepWork
<1>15. CASE Reconcile(w)
  <2>1. RunOne(w, "reconcile", Reconciled(s))
    BY <1>15 DEF Reconcile, s
  <2> QED BY <1>1, <1>2, <2>1, RulesKeepWork
<1> QED BY <1>3, <1>4, <1>5, <1>6, <1>7, <1>8, <1>9,
           <1>10, <1>11, <1>12, <1>13, <1>14, <1>15

LEMMA LedgerAskStep ==
  ASSUME OneAtATime, IInv, LedgerInv, NEW w \in Workers,
         AskRcaReview(w) \/ AskAction(w) \/ LookUpApproval(w) \/ SaveApproval(w)
  PROVE  LedgerInv'
<1>1. row' = row /\ Tries' = Tries
  BY DEF AskRcaReview, AskAction, LookUpApproval, SaveApproval, stored, mcp, Tries
<1>2. mem[w] \in Incidents /\ row \in Incidents
  BY DEF IInv, TypeOK
<1>3. /\ Accounted(mem[w]) /\ mem[w].stage \in {"fusion", "policy"}
      /\ pc'[w] \in {"prepare", "record", "save"}
  BY DEF AskRcaReview, AskAction, LookUpApproval, SaveApproval, Ready, Goto, IInv,
     TypeOK, Holds, LedgerInv
<1>4. SameWork(mem[w], mem'[w])
  <2> DEFINE g == GateFor(mem[w].opinion)
             a == Asked(mem[w])
  <2> HIDE DEF g, a
  <2>1. CASE AskRcaReview(w)
    <3>1. mem'[w] = [Counted(w) EXCEPT !.gate = g]
      BY <2>1 DEF AskRcaReview, Hold, IInv, TypeOK, g
    <3> QED BY <1>2, <3>1 DEF Counted, SameWork, Incidents
  <2>2. CASE AskAction(w)
    <3>1. mem'[w] = Counted(w)
      BY <2>2 DEF AskAction, Hold, IInv, TypeOK
    <3> QED BY <1>2, <3>1 DEF Counted, SameWork, Incidents
  <2>3. CASE LookUpApproval(w)
    BY <2>3 DEF LookUpApproval, SameWork
  <2>4. CASE SaveApproval(w)
    <3>1. mem'[w] = [mem[w] EXCEPT !.pending = a, !.result = NoRuling,
                       !.stage = "waiting_approval", !.status = "waiting"]
      BY <2>4 DEF SaveApproval, Hold, IInv, TypeOK, a
    <3> QED BY <1>2, <3>1 DEF SameWork, Incidents
  <2> QED BY <2>1, <2>2, <2>3, <2>4
<1>5. \A p \in Tries : Accounts(mem'[w], p)
  BY <1>3, <1>4, AccountsKept DEF Accounted
<1> QED BY <1>1, <1>3, <1>5, LedgerStep DEF Accounted

\* Requests that begin, end, pause, save or decide.
LEMMA LedgerPauseStep ==
  ASSUME OneAtATime, IInv, LedgerInv, NEW w \in Workers,
         \/ \E kind \in Tasks : RunIncident(w, kind)
         \/ Pause(w) \/ StepBudgetStop(w) \/ SaveIncident(w) \/ SaveResult(w)
         \/ Reply(w) \/ Lose(w) \/ Review(w) \/ SaveDecision(w)
  PROVE  LedgerInv'
<1>1. Tries' = Tries
  BY DEF RunIncident, Pause, StepBudgetStop, SaveIncident, SaveResult, Reply, Lose,
     Review, DecideApproval, SaveDecision, mcp, Tries
<1>2. \A p \in Tries : Accounts(row', p)
  BY DEF RunIncident, Pause, StepBudgetStop, SaveIncident, SaveResult, Reply, Lose,
     Review, DecideApproval, SaveDecision, stored, LedgerInv, Accounted
<1>3. pc'[w] \in {"loop", "reply", "idle", "decided", "load"}
  BY DEF RunIncident, Pause, StepBudgetStop, SaveIncident, SaveResult, Reply, Lose,
     Review, DecideApproval, SaveDecision, Return, Goto, AfterStep, IInv, TypeOK
<1>4. pc'[w] = "loop" => mem'[w] = row'
  BY DEF RunIncident, Pause, StepBudgetStop, SaveIncident, SaveResult, Reply, Lose,
     Review, DecideApproval, SaveDecision, Return, Goto, Hold, stored, IInv, TypeOK
<1> QED BY <1>1, <1>2, <1>3, <1>4, LedgerStep

LEMMA LedgerLoadStep ==
  ASSUME OneAtATime, IInv, LedgerInv, NEW w \in Workers, LoadIncident(w)
  PROVE  LedgerInv'
<1> DEFINE r == task[w].ruling
           t == [row EXCEPT !.result = r, !.status = "open"]
<1>1. Tries' = Tries /\ row' = row
  BY DEF LoadIncident, stored, mcp, Tries
<1>2. \/ pc'[w] = "idle"
      \/ pc'[w] = "resume" /\ mem'[w] = t /\ row.pending = r.ref
  BY DEF LoadIncident, Return, Goto, Hold, IInv, TypeOK
<1>3. row \in Incidents /\ Sound(row, rulings)
  BY DEF IInv, TypeOK
<1> HIDE DEF r
<1>4. SameWork(row, t) /\ t.stage = row.stage /\ t.result = r
  BY <1>3 DEF SameWork, Incidents
<1> HIDE DEF t
<1>5. row.pending = r.ref => \A p : Accounts(row, p) => Accounts(t, p)
  BY <1>3, <1>4 DEF Accounts, SameWork, Within, Sound, Cleared
<1> QED BY <1>1, <1>2, <1>5, LedgerStep DEF LedgerInv, Accounted

\* What a case in execution carries is the attempt its counters announce.
LEMMA AnnouncedAttempt ==
  ASSUME NEW s, NEW E, NEW R, Sound(s, R), Good(s, E, R), s.stage = "execute"
  PROVE  s.result.ref = RefFor(s, s.selected) /\ ~IsRcaReview(s.selected)
BY DEF Sound, Cleared, Grants, Good, Budgeted

LEMMA LedgerAnswerStep ==
  ASSUME OneAtATime, IInv, CaseInv, LedgerInv, NEW w \in Workers,
         EffectReported(w) \/ CallFailed(w) \/ RecordResult(w)
  PROVE  LedgerInv'
<1> DEFINE m == mem[w]
<1> HIDE DEF m
<1>0. m \in Incidents /\ Sound(m, rulings) /\ Good(m, effects, rulings)
  BY DEF IInv, TypeOK, CaseInv, m
<1>1. row' = row /\ Tries' = Tries
  BY DEF EffectReported, CallFailed, RecordResult, stored, mcp, Tries
<1>2. /\ Accounted(m) /\ m.stage = "execute" /\ pc'[w] \in {"log", "save"}
      /\ mem'[w] \in {m, Escalated(m), Executed(m)}
  BY DEF EffectReported, CallFailed, RecordResult, Goto, Hold, IInv, TypeOK, Holds,
     LedgerInv, m
<1>3. Escalated(m).stage = "escalated"
  BY <1>0 DEF Escalated, Incidents
<1>4. m.result.ref = RefFor(m, m.selected)
  BY <1>0, <1>2, AnnouncedAttempt
<1>5. \A p \in Tries : Accounts(mem'[w], p)
  <2> TAKE p \in Tries
  <2>1. Accounts(m, p)
    BY <1>2 DEF Accounted
  <2>2. Accounts(Escalated(m), p)
    BY <1>3 DEF Accounts
  <2>3. Accounts(Executed(m), p)
    BY <1>0, <1>2, <1>4, <2>1, ExecutedAccounts
  <2> QED BY <1>2, <2>1, <2>2, <2>3
<1> QED BY <1>1, <1>2, <1>5, LedgerStep DEF Accounted

\* A new call is for the attempt after those counted: within the ceilings, and
\* no one else's number.
LEMMA LedgerExecuteStep ==
  ASSUME OneAtATime, IInv, CaseInv, LedgerInv, NEW w \in Workers, Execute(w)
  PROVE  LedgerInv'
<1> DEFINE s == Counted(w)
           ref == s.result.ref
           call == [ref |-> ref, action |-> s.selected]
<1> HIDE DEF s
<1>0. /\ s \in Incidents /\ Good(s, effects, rulings) /\ Sound(s, rulings)
      /\ s.stage = "execute" /\ mem[w] = row /\ SameWork(row, s)
      /\ row.stage = "execute" /\ row.result = s.result
  <2>1. mem[w].stage = "execute" /\ mem[w] = row
    BY DEF Execute, Ready, LedgerInv
  <2>2. SameWork(mem[w], Counted(w))
    BY DEF IInv, TypeOK, SameWork, Counted, Incidents
  <2> QED BY <2>1, <2>2, CountedCase, CountedType DEF s
<1>1. row' = row /\ effects' = effects
  BY DEF Execute, stored
<1>2. ref = RefFor(s, s.selected) /\ ~IsRcaReview(s.selected)
  BY <1>0, AnnouncedAttempt
<1>3. \A p : Accounts(row, p) => Accounts(s, p)
  BY <1>0 DEF Accounts, SameWork, Within
<1>4. \/ mem'[w] = Escalated(s) /\ pc'[w] = "save" /\ wire' = wire
      \/ mem'[w] = Executed(s) /\ pc'[w] = "save" /\ wire' = wire
      \/ mem'[w] = s /\ pc'[w] = "await" /\ wire' = wire \union {call}
  BY DEF Execute, Hold, Goto, IInv, TypeOK, s
<1>5. CASE pc'[w] = "save" /\ wire' = wire /\ mem'[w] \in {Escalated(s), Executed(s)}
  <2>1. Escalated(s).stage = "escalated"
    BY <1>0 DEF Escalated, Incidents
  <2>2. \A p \in Tries : Accounts(mem'[w], p)
    <3> TAKE p \in Tries
    <3>1. Accounts(s, p)
      BY <1>3 DEF LedgerInv, Accounted
    <3>2. Accounts(Escalated(s), p)
      BY <2>1 DEF Accounts
    <3>3. Accounts(Executed(s), p)
      BY <1>0, <1>2, <3>1, ExecutedAccounts
    <3> QED BY <1>5, <3>2, <3>3
  <2>3. Tries' = Tries
    BY <1>1, <1>5 DEF Tries
  <2> QED BY <1>1, <1>5, <2>2, <2>3, LedgerStep DEF Accounted
<1>6. CASE mem'[w] = s /\ pc'[w] = "await" /\ wire' = wire \union {call}
  <2>1. Tries' = Tries \union {ref}
    <3>1. call.ref = ref
      OBVIOUS
    <3> HIDE DEF call
    <3> QED BY <1>1, <1>6, <3>1 DEF Tries
  <2>2. /\ ref.action = s.selected
        /\ s.selected \in RemoteActions => ref.attempt = s.remote + 1
        /\ s.selected \in FieldActions => ref.attempt = s.field + 1
        /\ s.selected = "dirty_boots_mr" => ref.attempt = s.mr + 1
    BY <1>2 DEF RefFor, AttemptFor, RemoteActions, FieldActions
  <2>3. /\ s.remote \in Nat /\ s.field \in Nat /\ s.mr \in Nat
        /\ s.remote < MaxRemote /\ s.field < MaxField /\ s.mr < MaxMr
    BY <1>0, BudgetAssumption DEF Good, Budgeted, BudgetSpent, Diagnosing, Incidents
  <2> HIDE DEF ref
  <2>4. InBudget(ref)
    BY <2>2, <2>3, BudgetAssumption DEF InBudget
  <2>5. ASSUME NEW p \in Tries, SameCount(p, ref), p.attempt = ref.attempt
        PROVE  p = ref
    <3>1. Accounts(row, p)
      BY DEF LedgerInv, Accounted
    <3>2. p = ref \/ Within(s, p)
      BY <1>0, <3>1 DEF Accounts, SameWork, Within, ref
    <3>3. ~Within(s, p)
      BY <2>2, <2>3, <2>5 DEF Within, SameCount, RemoteActions, FieldActions
    <3> QED BY <3>2, <3>3
  <2>6. \A p, q \in Tries' : SameCount(p, q) /\ p.attempt = q.attempt => p = q
    <3> SUFFICES ASSUME NEW p \in Tries', NEW q \in Tries', SameCount(p, q),
                        p.attempt = q.attempt
                 PROVE  p = q
      OBVIOUS
    <3>1. SameCount(q, p)
      BY DEF SameCount
    <3>2. CASE p \in Tries /\ q \in Tries
      BY <3>2 DEF LedgerInv
    <3>3. CASE p = ref \/ q = ref
      BY <2>1, <2>5, <3>1, <3>3
    <3> QED BY <2>1, <3>2, <3>3
  <2>7. \A p \in Tries' : InBudget(p) /\ Accounts(row, p)
    BY <1>0, <2>1, <2>4 DEF LedgerInv, Accounted, Accounts, ref
  <2>8. \A p \in Tries' : Accounts(row', p) /\ Accounts(mem'[w], p)
    BY <1>1, <1>3, <1>6, <2>7
  <2>9. Accounted(row)' /\ Accounted(mem[w])'
    BY <2>8 DEF Accounted
  <2>10. \A v \in Workers : v = w
    BY DEF OneAtATime
  <2> QED BY <1>6, <2>6, <2>7, <2>9, <2>10 DEF LedgerInv
<1> QED BY <1>4, <1>5, <1>6

LEMMA NextLedgerInv ==
  ASSUME OneAtATime, IInv, CaseInv, LedgerInv, [Next]_vars
  PROVE  LedgerInv'
<1>1. ASSUME Tries' \subseteq Tries, UNCHANGED <<row, pc, mem>> PROVE LedgerInv'
  BY <1>1 DEF LedgerInv, Accounted
<1>2. CASE UNCHANGED vars
  BY <1>1, <1>2 DEF vars, stored, mcp, Tries
<1>3. ASSUME NEW call \in wire, Serve(call) PROVE LedgerInv'
  <2>1. Tries' \subseteq Tries
    BY <1>3 DEF Serve, Tries
  <2> QED BY <1>1, <1>3, <2>1 DEF Serve, stored
<1>4. ASSUME NEW w \in Workers,
             (\E kind \in Tasks : RunIncident(w, kind)) \/ Review(w) \/ Lose(w)
      PROVE  LedgerInv'
  BY <1>4, LedgerPauseStep
<1>5. ASSUME NEW w \in Workers, Handle(w) PROVE LedgerInv'
  BY <1>5, LedgerHandlerStep, LedgerAskStep, LedgerPauseStep, LedgerLoadStep,
     LedgerAnswerStep, LedgerExecuteStep DEF Handle
<1> QED BY <1>2, <1>3, <1>4, <1>5 DEF Next, Simulator

\* While requests do not overlap, everything sent to the simulator is accounted
\* for by the persisted incident.
THEOREM LedgerInductive ==
  ASSUME OneAtATime PROVE Spec => []LedgerInv
<1>1. Init => LedgerInv
  BY DEF Init, LedgerInv, Tries, Accounted
<1>2. IInv /\ CaseInv /\ LedgerInv /\ [Next]_vars => LedgerInv'
  BY NextLedgerInv
<1> QED BY <1>1, <1>2, Inductive, CaseInductive, PTL DEF Spec

\* While requests do not overlap, no committed effect is forgotten, whatever was
\* lost or served late: it is in the history, or with a human, or what the case
\* is executing (engine._execute, tools._approved_effect).
THEOREM NothingForgotten ==
  ASSUME OneAtATime PROVE Spec => []EffectsAreAccountedFor
<1>1. LedgerInv => EffectsAreAccountedFor
  BY DEF LedgerInv, Tries, Accounted, Accounts, EffectsAreAccountedFor
<1> QED BY <1>1, LedgerInductive, PTL

\* Attempts that draw on one counter are no more than its ceiling.
LEMMA CountedTries ==
  ASSUME LedgerInv, NEW A, NEW N \in Nat,
         \A p \in effects : p.action \in A => p.attempt \in 1..N,
         \A p, q \in effects : p.action \in A /\ q.action \in A => SameCount(p, q)
  PROVE  Cardinality({ref \in effects : ref.action \in A}) <= N
<1> DEFINE S == {ref \in effects : ref.action \in A}
           f == [ref \in S |-> ref.attempt]
<1>1. IsFiniteSet(1..N) /\ Cardinality(1..N) = N
  BY FS_Interval
<1>2. f \in Injection(S, 1..N)
  <2>1. f \in [S -> 1..N]
    OBVIOUS
  <2>2. \A p, q \in S : f[p] = f[q] => p = q
    BY DEF LedgerInv, Tries
  <2> QED BY <2>1, <2>2 DEF Injection, IsInjective
<1>3. Cardinality(S) <= Cardinality(1..N)
  BY <1>1, <1>2, FS_Injection
<1> QED BY <1>1, <1>3

\* While requests do not overlap, the attempt ceilings bound what really took
\* effect, across losses, replays, late calls and overrides
\* (engine._failure_review, README property 7).
THEOREM BudgetIsKept ==
  ASSUME OneAtATime PROVE Spec => []EffectsWithinBudget
<1>1. LedgerInv => EffectsWithinBudget
  <2> SUFFICES ASSUME LedgerInv PROVE EffectsWithinBudget
    OBVIOUS
  <2>1. MaxRemote \in Nat /\ MaxField \in Nat /\ MaxMr \in Nat
    BY BudgetAssumption
  <2>2. \A p \in effects : InBudget(p)
    BY DEF LedgerInv, Tries
  <2>3. Cardinality({ref \in effects : ref.action \in RemoteActions}) <= MaxRemote
    BY <2>1, <2>2, CountedTries DEF InBudget, SameCount
  <2>4. Cardinality({ref \in effects : ref.action \in FieldActions}) <= MaxField
    BY <2>1, <2>2, CountedTries DEF InBudget, SameCount
  <2>5. Cardinality({ref \in effects : ref.action \in {"dirty_boots_mr"}}) <= MaxMr
    BY <2>1, <2>2, CountedTries DEF InBudget, SameCount
  <2> QED BY <2>3, <2>4, <2>5 DEF EffectsWithinBudget
<1> QED BY <1>1, LedgerInductive, PTL

-----------------------------------------------------------------------------
(* What the counters of a copy count *)

\* The counters are the attempts in the history, each of which is of an action
\* and has a number of its own, below the next one to be given out.
Tallied(s) ==
  /\ s.remote = CountOf(s, RemoteActions)
  /\ s.field = CountOf(s, FieldActions)
  /\ s.mr = CountOf(s, {"dirty_boots_mr"})
  /\ \A k \in 1..Len(s.history) :
       /\ s.history[k].attempt < AttemptFor(s, s.history[k].action)
       /\ ~IsRcaReview(s.history[k].action)
  /\ \A j, k \in 1..Len(s.history) :
       /\ SameCount(s.history[j], s.history[k])
       /\ s.history[j].attempt = s.history[k].attempt
       => j = k

\* The status goes with the stage.
Fits(s) ==
  /\ s.status = "waiting" => s.stage = "waiting_approval"
  /\ s.status = "closed" => s.stage = "closed"
  /\ s.status = "escalated" => s.stage = "escalated"

\* What is or will be verified is the selected action, which acted last.
LaneActed(s) ==
  /\ s.verified => s.stage \in {"reconcile", "closed", "escalated"}
  /\ s.verified \/ s.stage = "verify"
       => s.history # << >> /\ s.history[Len(s.history)].action = s.selected

\* A case past correlation is with the parent of its fixture.
Joined(s) == Attached(s) => s.parent = s.scenario.parent

Told(s) == Tallied(s) /\ Fits(s) /\ LaneActed(s) /\ Joined(s)

\* The step does nothing in the field, and claims no more than it was given.
Carries(s, t) ==
  /\ t.history = s.history
  /\ t.remote = s.remote /\ t.selfHelp = s.selfHelp /\ t.field = s.field /\ t.mr = s.mr
  /\ Fits(t) /\ Joined(t)
  /\ t.verified => t.stage \in {"reconcile", "closed", "escalated"}
  /\ t.verified \/ t.stage = "verify"
       => t.selected = s.selected /\ (s.verified \/ s.stage = "verify")

LEMMA CarriesOn == ASSUME NEW s, NEW t, Told(s), Carries(s, t) PROVE Told(t)
<1>1. \A a : AttemptFor(t, a) = AttemptFor(s, a)
  BY DEF AttemptFor, Carries
<1>2. \A A : CountOf(t, A) = CountOf(s, A)
  BY DEF CountOf, Carries
<1>3. Tallied(t)
  BY <1>1, <1>2 DEF Told, Tallied, Carries
<1>4. LaneActed(t)
  BY DEF Told, LaneActed, Carries
<1> QED BY <1>3, <1>4 DEF Told, Carries

Tick(s) == [s EXCEPT !.steps = @ + 1]

LEMMA TickCarries ==
  ASSUME NEW s \in Incidents, Told(s)
  PROVE  /\ Tick(s) \in Incidents /\ Told(Tick(s)) /\ Tick(s).stage = s.stage
         /\ Tick(s).result = s.result /\ Tick(s).selected = s.selected
<1>1. /\ Tick(s) \in Incidents /\ Tick(s).stage = s.stage
      /\ Tick(s).result = s.result /\ Tick(s).selected = s.selected
  BY SMTT(30) DEF Tick, Incidents
<1>2. Carries(s, Tick(s))
  BY DEF Told, Carries, Fits, Joined, Attached, LaneActed, Tick, Incidents
<1> QED BY <1>1, <1>2, CarriesOn

\* What the rules make of a copy.
Handled(s, t) ==
  \/ t = s \/ \E g : t = [s EXCEPT !.gate = g]
  \/ s.stage = "new" /\ t = Moved(s, "validate")
  \/ s.stage = "validate" /\ t = Validated(s)
  \/ s.stage = "correlate" /\ t = Correlated(s)
  \/ s.stage = "evidence" /\ t = Observed(s)
  \/ s.stage = "deterministic_rca" /\ t = Moved(s, "llm_rca")
  \/ s.stage = "llm_rca" /\ \E o : t = [Moved(s, "fusion") EXCEPT !.opinion = o]
  \/ s.stage = "fusion" /\ t = [Moved(s, "action_ranking") EXCEPT !.gate = "none"]
  \/ s.stage = "action_ranking" /\ t = Ranked(s)
  \/ s.stage = "policy" /\ t = Escalated(s)
  \/ s.stage = "waiting_approval" /\ t = Resumed(s)
  \/ s.stage = "execute" /\ t \in {Executed(s), Escalated(s)}
  \/ s.stage = "verify" /\ \E passed \in BOOLEAN : t = Verified(s, passed)
  \/ s.stage = "failure_review" /\ t = Reviewed(s)
  \/ s.stage = "reconcile" /\ t = Reconciled(s)

WaitingFor(s, ref) ==
  [s EXCEPT !.pending = ref, !.result = NoRuling, !.stage = "waiting_approval",
            !.status = "waiting"]

\* What becomes of a copy in one transaction of a request.
Made(s, t) ==
  \/ t = NewIncident(s.scenario) \/ t = EscalatedOnBudget(s)
  \/ \E r : t = [s EXCEPT !.result = r, !.status = "open"]
  \/ s.stage \in {"fusion", "policy"} /\ \E ref : t = WaitingFor(s, ref)
  \/ Handled(s, t) \/ Handled(Tick(s), t)

LEMMA EndsCarry ==
  ASSUME NEW s \in Incidents, Told(s)
  PROVE  Carries(s, Escalated(s)) /\ Carries(s, EscalatedOnBudget(s))
BY DEF Told, LaneActed, Carries, Fits, Joined, Attached, Escalated, EscalatedOnBudget, Incidents

\* Of the rules, only an execution acts.
LEMMA RulesCarry ==
  ASSUME NEW s \in Incidents, NEW t, Told(s), Handled(s, t),
         ~(s.stage = "execute" /\ t = Executed(s))
  PROVE  Carries(s, t)
<1>0. /\ Fits(s) /\ Joined(s) /\ s.status \in Statuses
      /\ s.verified => s.stage \in {"reconcile", "closed", "escalated"}
  BY DEF Told, LaneActed, Incidents
<1>1. ASSUME s.stage \notin {"waiting_approval", "closed", "escalated"}
      PROVE  s.status \notin {"waiting", "closed", "escalated"}
  BY <1>0, <1>1 DEF Fits
<1>2. ASSUME NEW stage \in Stages \ {"verify", "reconcile", "closed", "escalated"},
             s.stage \notin {"waiting_approval", "reconcile", "closed", "escalated"},
             Attached(s) \/ stage \in {"validate", "correlate"}
      PROVE  Carries(s, Moved(s, stage))
  BY <1>0, <1>1, <1>2 DEF Carries, Fits, Joined, Attached, Moved, Incidents
<1>3. ASSUME NEW stage \in Stages \ {"verify", "reconcile", "closed", "escalated"},
             s.stage = "waiting_approval"
      PROVE  Carries(s, Released(s, stage))
  BY <1>0, <1>3 DEF Carries, Fits, Joined, Attached, Released, Incidents
<1>4. CASE t = s \/ \E g : t = [s EXCEPT !.gate = g]
  BY <1>0, <1>4 DEF Carries, Fits, Joined, Attached, LaneActed, Told, Incidents
<1>5. CASE \/ s.stage = "new" /\ t = Moved(s, "validate")
           \/ s.stage = "deterministic_rca" /\ t = Moved(s, "llm_rca")
  BY <1>2, <1>5 DEF Stages, Attached
<1>6. CASE s.stage = "validate" /\ t = Validated(s)
  <2>1. Carries(s, Moved(s, "correlate"))
    BY <1>2, <1>6 DEF Stages
  <2>2. Carries(s, [s EXCEPT !.stage = "quarantined", !.status = "quarantined"])
    BY <1>0, <1>6 DEF Carries, Fits, Joined, Attached, Incidents
  <2> QED BY <1>6, <2>1, <2>2 DEF Validated
<1>17. CASE s.stage = "correlate" /\ t = Correlated(s)
  BY <1>0, <1>1, <1>17 DEF Carries, Fits, Joined, Attached, Correlated, Incidents
<1>7. CASE s.stage = "evidence" /\ t = Observed(s)
  <2> DEFINE e == IF s.scenario.evidence
                  THEN s.evidence \union {<<"snapshot", s.cycles>>} ELSE s.evidence
             seen == [s EXCEPT !.cycles = @ + 1, !.evidence = e]
  <2> HIDE DEF e
  <2>1. Carries(s, Moved(seen, "deterministic_rca"))
    BY <1>0, <1>1, <1>7 DEF Carries, Fits, Joined, Attached, Moved, Incidents
  <2>2. Carries(s, EscalatedOnBudget(seen))
    BY <1>0, <1>7 DEF Carries, Fits, Joined, Attached, EscalatedOnBudget, Escalated, Incidents
  <2> HIDE DEF seen
  <2> QED BY <1>7, <2>1, <2>2 DEF Observed, seen, e
<1>8. CASE s.stage = "llm_rca" /\ \E o : t = [Moved(s, "fusion") EXCEPT !.opinion = o]
  BY <1>0, <1>1, <1>8 DEF Carries, Fits, Joined, Attached, Moved, Incidents
<1>9. CASE s.stage = "fusion" /\ t = [Moved(s, "action_ranking") EXCEPT !.gate = "none"]
  BY <1>0, <1>1, <1>9 DEF Carries, Fits, Joined, Attached, Moved, Incidents
<1>10. CASE s.stage = "action_ranking" /\ t = Ranked(s)
  <2> DEFINE p == s.scenario.plan[PlanIndex(s)]
             u == [s EXCEPT !.stage = "policy", !.selected = p.best,
                            !.candidates = {p.best, p.next} \ {"none"}]
  <2>1. Ranked(s) \in {Escalated(s), u}
    BY DEF Ranked
  <2> HIDE DEF p
  <2>2. Carries(s, u)
    BY <1>0, <1>1, <1>10 DEF Carries, Fits, Joined, Attached, Incidents
  <2> QED BY <1>10, <2>1, <2>2, EndsCarry
<1>11. CASE s.stage = "policy" /\ t = Escalated(s)
  BY <1>11, EndsCarry
<1>12. CASE s.stage = "waiting_approval" /\ t = Resumed(s)
  <2> DEFINE chosen == [s EXCEPT !.selected = s.result.option]
             Run(u) == [u EXCEPT !.stage = "execute", !.status = "open"]
  <2>1. /\ Carries(s, Run(s)) /\ Carries(s, Run(chosen))
        /\ Carries(s, Released(chosen, "policy"))
    BY <1>0, <1>12 DEF Carries, Fits, Joined, Attached, Released, Incidents
  <2>2. Resumed(s) \in {Released(s, "evidence"), Released(s, "action_ranking"),
                        Escalated(s), Released(chosen, "policy"), Run(chosen), Run(s)}
    BY DEF Resumed
  <2>3. Carries(s, Released(s, "evidence")) /\ Carries(s, Released(s, "action_ranking"))
    BY <1>3, <1>12 DEF Stages
  <2> HIDE DEF chosen, Run
  <2> QED BY <1>12, <2>1, <2>2, <2>3, EndsCarry
<1>13. CASE s.stage = "execute" /\ t \in {Executed(s), Escalated(s)}
  BY <1>13, EndsCarry
<1>14. CASE s.stage = "verify" /\ \E passed \in BOOLEAN : t = Verified(s, passed)
  <2>1. PICK passed \in BOOLEAN : t = Verified(s, passed)
    BY <1>14
  <2> DEFINE stage == IF passed THEN "reconcile" ELSE "failure_review"
             u == [s EXCEPT !.verified = passed, !.stage = stage]
  <2>2. Verified(s, passed) \in {Escalated(s), u}
    BY DEF Verified
  <2>3. Carries(s, u)
    BY <1>0, <1>1, <1>14 DEF Carries, Fits, Joined, Attached, Incidents
  <2> QED BY <2>1, <2>2, <2>3, EndsCarry
<1>15. CASE s.stage = "failure_review" /\ t = Reviewed(s)
  <2> DEFINE e == <<"failed_action", Len(s.history)>>
             u == [s EXCEPT !.evidence = @ \union {e}, !.stage = "evidence"]
  <2>1. Reviewed(s) \in {Escalated(s), EscalatedOnBudget(s), u}
    BY DEF Reviewed
  <2> HIDE DEF e
  <2>2. Carries(s, u)
    BY <1>0, <1>1, <1>15 DEF Carries, Fits, Joined, Attached, Incidents
  <2> QED BY <1>15, <2>1, <2>2, EndsCarry
<1>16. CASE s.stage = "reconcile" /\ t = Reconciled(s)
  BY <1>0, <1>16 DEF Reconciled, Carries, Fits, Joined, Attached, Incidents
<1> QED BY <1>4, <1>5, <1>6, <1>7, <1>8, <1>9, <1>10, <1>11, <1>12, <1>13, <1>14, <1>15,
           <1>16, <1>17 DEF Handled

LEMMA CountGrows ==
  ASSUME NEW s \in Incidents, NEW t, NEW ref \in Refs, NEW A,
         t.history = Append(s.history, ref)
  PROVE  /\ CountOf(s, A) \in Nat
         /\ CountOf(t, A) = CountOf(s, A) + (IF ref.action \in A THEN 1 ELSE 0)
<1> DEFINE h == s.history
           g == t.history
           n == Len(h)
           H == {k \in 1..n : h[k].action \in A}
           G == {k \in 1..Len(g) : g[k].action \in A}
<1>1. h \in Seq(Refs) /\ n \in Nat
  BY DEF Incidents
<1>2. Len(g) = n + 1 /\ g[n + 1] = ref /\ \A k \in 1..n : g[k] = h[k]
  BY <1>1
<1>3. CountOf(s, A) = Cardinality(H) /\ CountOf(t, A) = Cardinality(G)
  BY DEF CountOf
<1> HIDE DEF h, g
<1>4. IsFiniteSet(H) /\ Cardinality(H) \in Nat
  <2>1. IsFiniteSet(1..n) /\ H \subseteq 1..n
    BY <1>1, FS_Interval
  <2> HIDE DEF H
  <2> QED BY <2>1, FS_Subset, FS_CardinalityType
<1>5. CASE ref.action \in A
  <2>1. G = H \union {n + 1} /\ n + 1 \notin H
    BY <1>1, <1>2, <1>5
  <2> HIDE DEF G, H
  <2> QED BY <1>3, <1>4, <1>5, <2>1, FS_AddElement
<1>6. CASE ref.action \notin A
  <2>1. G = H
    BY <1>1, <1>2, <1>6
  <2> HIDE DEF G, H
  <2> QED BY <1>3, <1>4, <1>6, <2>1
<1> QED BY <1>5, <1>6

\* An execution counts the attempt that it adds to the history.
LEMMA ExecutedTold ==
  ASSUME NEW s \in Incidents, Told(s), s.stage = "execute",
         s.result.ref = RefFor(s, s.selected), ~IsRcaReview(s.selected)
  PROVE  Told(Executed(s))
<1> DEFINE ref == s.result.ref
           a == s.selected
           c == CountAttempt(s, a)
           t == Executed(s)
           n == Len(s.history)
           In(h, x) == \E k \in 1..Len(h) : h[k] = x
<1>1. /\ s.history \in Seq(Refs) /\ n \in Nat /\ ref \in Refs
      /\ s.remote \in Nat /\ s.selfHelp \in Nat /\ s.field \in Nat /\ s.mr \in Nat
  BY DEF Incidents, Rulings
<1>2. /\ a # "rca_review" /\ ~IsRcaReview(a)
      /\ ref.action = a /\ ref.attempt = AttemptFor(s, a)
  BY DEF IsRcaReview, EffectActions, RemoteActions, FieldActions, RefFor
<1>3. /\ \A k \in 1..n : /\ s.history[k].attempt < AttemptFor(s, s.history[k].action)
                         /\ ~IsRcaReview(s.history[k].action)
                         /\ s.history[k].attempt \in Nat
      /\ \A b : AttemptFor(s, b) \in Nat
  <2>1. \A k \in 1..n : s.history[k] \in Refs
    BY <1>1
  <2>2. \A b : AttemptFor(s, b) \in Nat
    BY AttemptForType
  <2> QED BY <2>1, <2>2, Zenon DEF Told, Tallied, Refs, n
<1>4. ~In(s.history, ref)
  BY <1>2, <1>3 DEF Refs
<1>5. c \in Incidents /\ c.history = s.history
  BY CountAttemptType
<1>6. /\ c.remote = IF a \in RemoteActions THEN s.remote + 1 ELSE s.remote
      /\ c.selfHelp = IF a = "self_help" THEN s.selfHelp + 1 ELSE s.selfHelp
      /\ c.field = IF a \in FieldActions THEN s.field + 1 ELSE s.field
      /\ c.mr = IF a = "dirty_boots_mr" THEN s.mr + 1 ELSE s.mr
      /\ c.status = s.status /\ c.selected = a /\ c.verified = s.verified
      /\ c.parent = s.parent /\ c.scenario = s.scenario
  BY DEF CountAttempt, Incidents
<1> HIDE DEF c
<1>7. /\ t.remote = c.remote /\ t.selfHelp = c.selfHelp /\ t.field = c.field /\ t.mr = c.mr
      /\ t.status = s.status /\ t.selected = a /\ t.verified = s.verified
      /\ t.stage = "verify" /\ t.parent = s.parent /\ t.scenario = s.scenario
      /\ t.history = Append(s.history, ref)
  BY <1>4, <1>5, <1>6 DEF Executed, Incidents, c
<1> HIDE DEF t, ref, In
<1>8. /\ Len(t.history) = n + 1 /\ t.history[n + 1] = ref
      /\ \A k \in 1..n : t.history[k] = s.history[k]
  BY <1>1, <1>7
<1>9. Fits(t) /\ LaneActed(t) /\ Joined(t)
  <2>1. s.status \notin {"waiting", "closed", "escalated"} /\ ~s.verified
    BY DEF Told, Fits, LaneActed
  <2>2. t.history # << >>
    BY <1>1, <1>8
  <2> QED BY <1>2, <1>7, <1>8, <2>1, <2>2 DEF Fits, LaneActed, Told, Joined, Attached
<1>10. /\ t.remote = CountOf(t, RemoteActions)
       /\ t.field = CountOf(t, FieldActions)
       /\ t.mr = CountOf(t, {"dirty_boots_mr"})
  <2>1. /\ s.remote = CountOf(s, RemoteActions) /\ s.field = CountOf(s, FieldActions)
        /\ s.mr = CountOf(s, {"dirty_boots_mr"})
    BY DEF Told, Tallied
  <2>2. ASSUME NEW A PROVE CountOf(t, A) = CountOf(s, A) + (IF a \in A THEN 1 ELSE 0)
    <3>1. CountOf(t, A) = CountOf(s, A) + (IF ref.action \in A THEN 1 ELSE 0)
      BY <1>1, <1>7, CountGrows
    <3> QED BY <1>2, <3>1
  <2> QED BY <1>1, <1>6, <1>7, <2>1, <2>2
<1>11. /\ \A b : AttemptFor(t, b) \in Nat /\ AttemptFor(s, b) <= AttemptFor(t, b)
       /\ AttemptFor(s, a) < AttemptFor(t, a)
  <2> DEFINE m == Len(t.history)
  <2>1. /\ t.remote \in {s.remote, s.remote + 1} /\ t.selfHelp \in {s.selfHelp, s.selfHelp + 1}
        /\ t.field \in {s.field, s.field + 1} /\ t.mr \in {s.mr, s.mr + 1} /\ m = n + 1
        /\ a \in RemoteActions => t.remote = s.remote + 1
        /\ a = "self_help" => t.selfHelp = s.selfHelp + 1
        /\ a \in FieldActions => t.field = s.field + 1
        /\ a = "dirty_boots_mr" => t.mr = s.mr + 1
    BY <1>6, <1>7, <1>8
  <2> HIDE DEF a, n, m
  <2>2. ASSUME NEW b
        PROVE  /\ AttemptFor(t, b) \in Nat /\ AttemptFor(s, b) <= AttemptFor(t, b)
               /\ b = a => AttemptFor(s, b) < AttemptFor(t, b)
    <3>1. CASE b \in RemoteActions
      <4>1. AttemptFor(s, b) = s.remote + 1 /\ AttemptFor(t, b) = t.remote + 1
        BY <3>1 DEF AttemptFor, RemoteActions, FieldActions
      <4> QED BY <1>1, <2>1, <3>1, <4>1
    <3>2. CASE b \notin RemoteActions /\ b = "self_help"
      <4>1. AttemptFor(s, b) = s.selfHelp + 1 /\ AttemptFor(t, b) = t.selfHelp + 1
        BY <3>2 DEF AttemptFor, RemoteActions, FieldActions
      <4> QED BY <1>1, <2>1, <3>2, <4>1
    <3>3. CASE b \notin RemoteActions /\ b # "self_help" /\ b \in FieldActions
      <4>1. AttemptFor(s, b) = s.field + 1 /\ AttemptFor(t, b) = t.field + 1
        BY <3>3 DEF AttemptFor, RemoteActions, FieldActions
      <4> QED BY <1>1, <2>1, <3>3, <4>1
    <3>4. CASE b \notin RemoteActions /\ b \notin FieldActions /\ b = "dirty_boots_mr" /\ b # "self_help"
      <4>1. AttemptFor(s, b) = s.mr + 1 /\ AttemptFor(t, b) = t.mr + 1
        BY <3>4, Zenon DEF AttemptFor
      <4> QED BY <1>1, <2>1, <3>4, <4>1
    <3>5. CASE /\ b \notin RemoteActions /\ b \notin FieldActions
               /\ b # "self_help" /\ b # "dirty_boots_mr"
      <4>1. AttemptFor(s, b) = n + 1 /\ AttemptFor(t, b) = m + 1
        BY <3>5, Zenon DEF AttemptFor, n, m
      <4> QED BY <1>1, <2>1, <4>1
    <3> QED BY <3>1, <3>2, <3>3, <3>4, <3>5
  <2> QED BY <2>2
<1>12. ASSUME NEW k \in 1..(n + 1)
       PROVE  /\ t.history[k].attempt < AttemptFor(t, t.history[k].action)
              /\ ~IsRcaReview(t.history[k].action)
  <2> HIDE DEF a, n
  <2>1. CASE k \in 1..n
    <3> DEFINE b == s.history[k].action
    <3>1. /\ s.history[k].attempt \in Nat /\ s.history[k].attempt < AttemptFor(s, b)
          /\ ~IsRcaReview(b) /\ t.history[k] = s.history[k]
      BY <1>3, <1>8, <2>1
    <3>2. /\ AttemptFor(s, b) \in Nat /\ AttemptFor(t, b) \in Nat
          /\ AttemptFor(s, b) <= AttemptFor(t, b)
      BY <1>3, <1>11
    <3> QED BY <3>1, <3>2
  <2>2. CASE k = n + 1
    BY <1>2, <1>8, <1>11, <2>2
  <2> QED BY <1>1, <2>1, <2>2
<1>13. ASSUME NEW j \in 1..n, SameCount(s.history[j], ref)
       PROVE  s.history[j].attempt < ref.attempt
  <2>1. AttemptFor(s, s.history[j].action) = AttemptFor(s, a)
    BY <1>2, <1>13 DEF SameCount, AttemptFor, RemoteActions, FieldActions
  <2> QED BY <1>2, <1>3, <2>1
<1>14. ASSUME NEW j \in 1..(n + 1), NEW k \in 1..(n + 1),
              SameCount(t.history[j], t.history[k]),
              t.history[j].attempt = t.history[k].attempt
       PROVE  j = k
  <2> HIDE DEF a, n
  <2>1. SameCount(t.history[k], t.history[j])
    BY <1>14 DEF SameCount
  <2>2. CASE j \in 1..n /\ k \in 1..n
    <3>1. \A i, l \in 1..n :
            SameCount(s.history[i], s.history[l]) /\ s.history[i].attempt = s.history[l].attempt
            => i = l
      BY Zenon DEF Told, Tallied, n
    <3> QED BY <1>8, <1>14, <2>2, <3>1
  <2>3. CASE j = n + 1 /\ k \in 1..n
    <3>1. /\ t.history[j] = ref /\ t.history[k] = s.history[k]
          /\ s.history[k].attempt \in Nat /\ ref.attempt \in Nat
      BY <1>2, <1>3, <1>8, <2>3
    <3> QED BY <1>13, <1>14, <2>1, <2>3, <3>1
  <2>4. CASE j \in 1..n /\ k = n + 1
    <3>1. /\ t.history[k] = ref /\ t.history[j] = s.history[j]
          /\ s.history[j].attempt \in Nat /\ ref.attempt \in Nat
      BY <1>2, <1>3, <1>8, <2>4
    <3> QED BY <1>13, <1>14, <2>4, <3>1
  <2> QED BY <1>1, <2>2, <2>3, <2>4
<1>15. Tallied(t)
  BY <1>8, <1>10, <1>12, <1>14 DEF Tallied
<1> QED BY <1>9, <1>15 DEF Told, t

LEMMA NewIncidentTold == ASSUME NEW sc \in Scenarios PROVE Told(NewIncident(sc))
<1> DEFINE t == NewIncident(sc)
<1>1. /\ t.history = << >> /\ t.remote = 0 /\ t.field = 0 /\ t.mr = 0
      /\ t.stage = "new" /\ t.status = "open" /\ t.verified = FALSE
  BY DEF NewIncident
<1> HIDE DEF t
<1>2. \A A : CountOf(t, A) = 0
  <2> TAKE A
  <2>1. {k \in 1..Len(t.history) : t.history[k].action \in A} = {}
    BY <1>1
  <2> QED BY <2>1, FS_EmptySet DEF CountOf
<1>3. Len(t.history) = 0
  BY <1>1
<1> QED BY <1>1, <1>2, <1>3 DEF Told, Tallied, Fits, LaneActed, Joined, Attached, t

\* Whatever a request makes of a copy tells the truth of what was done.
LEMMA MadeTold ==
  ASSUME NEW s \in Incidents, NEW t, Told(s), Made(s, t),
         s.stage = "execute" => /\ s.result.ref = RefFor(s, s.selected)
                                /\ ~IsRcaReview(s.selected)
  PROVE  Told(t)
<1>1. CASE t = NewIncident(s.scenario)
  BY <1>1, NewIncidentTold DEF Incidents
<1>2. CASE t = EscalatedOnBudget(s)
  BY <1>2, EndsCarry, CarriesOn
<1>3. CASE \E r : t = [s EXCEPT !.result = r, !.status = "open"]
  <2>1. Carries(s, t)
    BY <1>3 DEF Told, LaneActed, Carries, Fits, Joined, Attached, Incidents
  <2> QED BY <2>1, CarriesOn
<1>4. CASE s.stage \in {"fusion", "policy"} /\ \E ref : t = WaitingFor(s, ref)
  <2>1. Carries(s, t)
    BY <1>4 DEF WaitingFor, Told, LaneActed, Carries, Fits, Joined, Attached, Incidents
  <2> QED BY <2>1, CarriesOn
<1>5. ASSUME NEW u \in Incidents, Told(u), Handled(u, t),
             u.stage = "execute" => /\ u.result.ref = RefFor(u, u.selected)
                                    /\ ~IsRcaReview(u.selected)
      PROVE  Told(t)
  <2>1. CASE u.stage = "execute" /\ t = Executed(u)
    BY <1>5, <2>1, ExecutedTold
  <2>2. CASE ~(u.stage = "execute" /\ t = Executed(u))
    BY <1>5, <2>2, RulesCarry, CarriesOn
  <2> QED BY <2>1, <2>2
<1>6. \A a : RefFor(Tick(s), a) = RefFor(s, a)
  <2>1. SameCounts(s, Tick(s))
    BY DEF SameCounts, Tick, Incidents
  <2> QED BY <2>1, RefForSame
<1>7. CASE Handled(Tick(s), t)
  BY <1>5, <1>6, <1>7, TickCarries
<1>8. CASE Handled(s, t)
  BY <1>5, <1>8
<1> QED BY <1>1, <1>2, <1>3, <1>4, <1>7, <1>8 DEF Made

LEMMA MadeHere ==
  ASSUME IInv, NEW w \in Workers, NEW u \in Copies, NEW s, Made(u, s), Hold(w, s),
         row' \in {row, s}
  PROVE  \A t \in Copies' : \E v \in Copies : Made(v, t)
<1>1. \A v : Made(v, v)
  BY DEF Made, Handled
<1>2. /\ mem'[w] = s /\ row \in Copies
      /\ \A v \in Workers : mem[v] \in Copies /\ (v # w => mem'[v] = mem[v])
  BY DEF Hold, IInv, TypeOK, Copies
<1>3. ASSUME NEW t \in Copies' PROVE t = s \/ t \in Copies
  BY <1>2 DEF Copies
<1> QED BY <1>1, <1>3

\* Whatever is saved or held was made in one step from what was saved or held.
LEMMA CopiesAreMade ==
  ASSUME IInv, [Next]_vars
  PROVE  \A t \in Copies' : \E s \in Copies : Made(s, t)
<1> DEFINE Goal == \A t \in Copies' : \E s \in Copies : Made(s, t)
<1> HIDE DEF Goal
<1>1. ASSUME NEW w \in Workers, NEW u \in Copies, NEW s, Made(u, s), Hold(w, s),
             row' \in {row, s}
      PROVE  Goal
  BY <1>1, MadeHere DEF Goal
<1>2. ASSUME UNCHANGED <<row, mem>> PROVE Goal
  <2>1. \A v : Made(v, v)
    BY DEF Made, Handled
  <2> QED BY <1>2, <2>1 DEF Goal, Copies
<1>3. row \in Copies /\ \A w \in Workers : mem[w] \in Copies /\ mem[w] \in Incidents
  BY DEF Copies, IInv, TypeOK
<1>4. \A u : Made(u, u)
  BY DEF Made, Handled
<1>5. ASSUME NEW w \in Workers, Return(w), row' = row PROVE Goal
  <2>1. Made(row, Blank)
    BY DEF Made, Blank
  <2> QED BY <1>1, <1>3, <1>5, <2>1 DEF Return
<1>6. ASSUME NEW w \in Workers, NEW stage, NEW s, RunOne(w, stage, s),
             Counted(w).stage = stage => Handled(Counted(w), s)
      PROVE  Goal
  <2>1. Counted(w).stage = stage
    BY <1>3, <1>6 DEF RunOne, Ready, Counted, Incidents
  <2>2. Made(mem[w], s)
    BY <1>6, <2>1 DEF Made, Counted, Tick
  <2> QED BY <1>1, <1>3, <1>6, <2>2 DEF RunOne
<1>7. ASSUME NEW w \in Workers,
             \/ Receive(w) \/ Validate(w) \/ Correlate(w) \/ AssembleEvidence(w)
             \/ DeterministicRca(w) \/ LlmRca(w) \/ AcceptRca(w) \/ RankActions(w)
             \/ BlockWithoutEvidence(w) \/ ResumeApproval(w) \/ Verify(w)
             \/ FailureReview(w) \/ Reconcile(w)
      PROVE  Goal
  <2> DEFINE c == Counted(w)
  <2>1. \E stage, s : RunOne(w, stage, s) /\ (c.stage = stage => Handled(c, s))
    <3> HIDE DEF c
    <3>1. CASE Receive(w)
      BY <3>1 DEF Receive, Handled, c
    <3>2. CASE Validate(w)
      BY <3>2 DEF Validate, Handled, c
    <3>3. CASE Correlate(w)
      BY <3>3 DEF Correlate, Handled, c
    <3>4. CASE AssembleEvidence(w)
      BY <3>4 DEF AssembleEvidence, Handled, c
    <3>5. CASE DeterministicRca(w)
      BY <3>5 DEF DeterministicRca, Handled, c
    <3>6. CASE LlmRca(w)
      BY <3>6 DEF LlmRca, Handled, c
    <3>7. CASE AcceptRca(w)
      BY <3>7 DEF AcceptRca, Handled, c
    <3>8. CASE RankActions(w)
      BY <3>8 DEF RankActions, Handled, c
    <3>9. CASE BlockWithoutEvidence(w)
      BY <3>9 DEF BlockWithoutEvidence, Handled, c
    <3>10. CASE ResumeApproval(w)
      BY <3>10 DEF ResumeApproval, Handled, c
    <3>11. CASE Verify(w)
      BY <3>11 DEF Verify, Handled, c
    <3>12. CASE FailureReview(w)
      BY <3>12 DEF FailureReview, Handled, c
    <3>13. CASE Reconcile(w)
      BY <3>13 DEF Reconcile, Handled, c
    <3> QED BY <1>7, <3>1, <3>2, <3>3, <3>4, <3>5, <3>6, <3>7, <3>8, <3>9, <3>10,
               <3>11, <3>12, <3>13
  <2> QED BY <1>6, <2>1
<1>8. ASSUME NEW w \in Workers,
             \/ AskRcaReview(w) \/ AskAction(w) \/ Execute(w)
      PROVE  Goal
  <2> DEFINE s == mem'[w]
  <2>1. Hold(w, s) /\ row' = row
    BY <1>8 DEF AskRcaReview, AskAction, Execute, Hold, stored, IInv, TypeOK
  <2>2. Handled(Counted(w), s)
    <3>1. CASE AskRcaReview(w)
      BY <3>1 DEF AskRcaReview, Hold, IInv, TypeOK, Handled
    <3>2. CASE AskAction(w)
      BY <3>2 DEF AskAction, Hold, IInv, TypeOK, Handled
    <3>3. CASE Execute(w)
      <4>1. Counted(w).stage = "execute"
        BY <1>3, <3>3 DEF Execute, Ready, Counted, Incidents
      <4>2. s \in {Escalated(Counted(w)), Executed(Counted(w)), Counted(w)}
        BY <3>3 DEF Execute, Hold, IInv, TypeOK
      <4> QED BY <4>1, <4>2 DEF Handled
    <3> QED BY <1>8, <3>1, <3>2, <3>3
  <2>3. Made(mem[w], s)
    BY <2>2 DEF Made, Counted, Tick
  <2> QED BY <1>1, <1>3, <2>1, <2>3
<1>9. ASSUME NEW w \in Workers,
             \/ CallFailed(w) \/ RecordResult(w) \/ StepBudgetStop(w) \/ SaveApproval(w)
             \/ SaveIncident(w) \/ SaveResult(w)
      PROVE  Goal
  <2> DEFINE s == mem'[w]
  <2>1. Hold(w, s) /\ row' \in {row, s}
    BY <1>9 DEF CallFailed, RecordResult, StepBudgetStop, SaveApproval, SaveIncident,
       SaveResult, Hold, stored, IInv, TypeOK
  <2>2. Made(mem[w], s)
    <3>1. CASE CallFailed(w) \/ RecordResult(w)
      <4>1. s \in {Escalated(mem[w]), Executed(mem[w])} /\ mem[w].stage = "execute"
        BY <3>1 DEF CallFailed, RecordResult, Hold, IInv, TypeOK, Holds
      <4> HIDE DEF s
      <4>2. Handled(mem[w], s)
        BY <4>1 DEF Handled
      <4> QED BY <4>2 DEF Made
    <3>2. CASE StepBudgetStop(w)
      BY <3>2 DEF StepBudgetStop, Hold, IInv, TypeOK, Made
    <3>3. CASE SaveApproval(w)
      <4>1. s = WaitingFor(mem[w], Asked(mem[w])) /\ mem[w].stage \in {"fusion", "policy"}
        BY <3>3 DEF SaveApproval, WaitingFor, Hold, IInv, TypeOK, Holds
      <4> QED BY <4>1 DEF Made
    <3>4. CASE SaveIncident(w) \/ SaveResult(w)
      BY <1>4, <3>4 DEF SaveIncident, SaveResult
    <3> QED BY <1>9, <3>1, <3>2, <3>3, <3>4
  <2> QED BY <1>1, <1>3, <2>1, <2>2
<1>10. ASSUME NEW w \in Workers, LoadIncident(w) PROVE Goal
  <2> DEFINE r == task[w].ruling
             s == [row EXCEPT !.result = r, !.status = "open"]
  <2>1. row' = row /\ (Return(w) \/ Hold(w, s))
    BY <1>10 DEF LoadIncident, stored
  <2>2. Made(row, s)
    <3> HIDE DEF r
    <3> QED BY DEF Made
  <2> HIDE DEF s
  <2> QED BY <1>1, <1>3, <1>5, <2>1, <2>2
<1>11. ASSUME NEW w \in Workers,
              \/ \E kind \in Tasks : RunIncident(w, kind)
              \/ Reply(w) \/ Lose(w)
       PROVE  Goal
  <2>1. row' = row /\ (Return(w) \/ Hold(w, row))
    BY <1>11 DEF RunIncident, Reply, Lose, stored
  <2> QED BY <1>1, <1>3, <1>4, <1>5, <2>1
<1>12. ASSUME NEW w \in Workers,
              \/ LookUpApproval(w) \/ EffectReported(w) \/ Pause(w) \/ SaveDecision(w)
              \/ Review(w)
       PROVE  Goal
  BY <1>2, <1>12 DEF LookUpApproval, EffectReported, Pause, SaveDecision, Review,
     DecideApproval, stored
<1>13. ASSUME UNCHANGED vars PROVE Goal
  <2>1. UNCHANGED <<row, mem>>
    BY <1>13 DEF vars, stored
  <2> QED BY <1>2, <2>1
<1>14. ASSUME NEW call \in wire, Serve(call) PROVE Goal
  BY <1>2, <1>14 DEF Serve, stored
<1>15. ASSUME NEW w \in Workers, Handle(w) PROVE Goal
  BY <1>7, <1>8, <1>9, <1>10, <1>11, <1>12, <1>15 DEF Handle
<1> QED BY <1>11, <1>12, <1>13, <1>14, <1>15 DEF Next, Simulator, Goal

\* Every copy tells what was done.
ToldInv == \A s \in Copies : Told(s)

LEMMA ToldInductive == Spec => []ToldInv
<1>1. Init => ToldInv
  BY NewIncidentTold DEF Init, ToldInv, Copies
<1>2. IInv /\ CaseInv /\ ToldInv /\ [Next]_vars => ToldInv'
  <2> SUFFICES ASSUME IInv, CaseInv, ToldInv, [Next]_vars, NEW t \in Copies' PROVE Told(t)
    BY DEF ToldInv
  <2>1. PICK s \in Copies : Made(s, t)
    BY CopiesAreMade
  <2>2. s \in Incidents /\ Sound(s, rulings) /\ Good(s, effects, rulings) /\ Told(s)
    BY CopiesAreGood DEF IInv, TypeOK, Copies, ToldInv
  <2> QED BY <2>1, <2>2, MadeTold, AnnouncedAttempt
<1> QED BY <1>1, <1>2, Inductive, CaseInductive, PTL DEF Spec

-----------------------------------------------------------------------------
(* One request at a time: what is pending is asked for *)

\* The case waits for the approval, or its next step asks for it again.
AsksFor(s, ref) ==
  \/ s.stage = "waiting_approval" /\ s.pending = ref
  \/ s.stage = "fusion" /\ GateFor(s.opinion) # "none" /\ Asked(s) = ref
  \/ s.stage = "policy" /\ s.evidence # {} /\ Asked(s) = ref

\* The copies ask for the same.
Alike(s, t) ==
  /\ SameCounts(s, t) /\ t.stage = s.stage /\ t.selected = s.selected
  /\ t.opinion = s.opinion /\ t.evidence = s.evidence /\ t.pending = s.pending

\* A pending approval is one the row asks for, and a request that saves another
\* copy saves one that asks for the same, or has a ruling to act on.
AwaitedInv ==
  /\ \A ref : StatusOf(ref) = "pending" => AsksFor(row, ref)
  /\ \A w \in Workers :
       /\ pc[w] \in {"prepare", "record", "resume"} => Alike(row, mem[w])
       /\ pc[w] \in {"prepare", "record"} => AsksFor(row, Asked(row))
       /\ pc[w] \in {"await", "log"} => row.stage = "execute"
       /\ pc[w] = "save" =>
            \/ row.stage = "execute"
            \/ /\ row.stage \in {"fusion", "policy"}
               /\ mem[w].stage = "waiting_approval" /\ mem[w].pending = Asked(row)

LEMMA AlikeAsks ==
  ASSUME NEW s, NEW t, Alike(s, t)
  PROVE  Asked(t) = Asked(s) /\ \A ref : AsksFor(s, ref) => AsksFor(t, ref)
<1>1. \A a : RefFor(t, a) = RefFor(s, a)
  BY RefForSame DEF Alike
<1>2. Asked(t) = Asked(s)
  BY <1>1 DEF Asked, Alike
<1> QED BY <1>2 DEF AsksFor, Alike

\* The request holds no copy that it may save.
LEMMA AwaitedStep ==
  ASSUME OneAtATime, NEW w \in Workers,
         pc'[w] \in {"idle", "loop", "reply", "decided", "load"},
         \A ref : StatusOf(ref)' = "pending" => AsksFor(row', ref)
  PROVE  AwaitedInv'
<1>1. \A v \in Workers : pc'[v] \in {"idle", "loop", "reply", "decided", "load"}
  BY DEF OneAtATime
<1> QED BY <1>1 DEF AwaitedInv

\* A handler that moves the case on leaves no approval behind.
LEMMA AwaitedHandlerStep ==
  ASSUME OneAtATime, IInv, DecidedOnce, LedgerInv, AwaitedInv, NEW w \in Workers,
         \/ Receive(w) \/ Validate(w) \/ Correlate(w) \/ AssembleEvidence(w)
         \/ DeterministicRca(w) \/ LlmRca(w) \/ AcceptRca(w) \/ RankActions(w)
         \/ BlockWithoutEvidence(w) \/ ResumeApproval(w) \/ Verify(w)
         \/ FailureReview(w) \/ Reconcile(w)
  PROVE  AwaitedInv'
<1>1. ASSUME NEW stage, NEW s, RunOne(w, stage, s)
      PROVE  /\ UNCHANGED approvals /\ pc'[w] \in {"loop", "reply"}
             /\ mem[w] = row /\ row.stage = stage /\ ~Paused(row)
  BY <1>1 DEF RunOne, Ready, Goto, AfterStep, IInv, TypeOK, LedgerInv
<1>2. ASSUME NEW stage, NEW s, RunOne(w, stage, s),
             \A ref : StatusOf(ref) = "pending" => ~AsksFor(row, ref)
      PROVE  AwaitedInv'
  <2>1. \A ref : StatusOf(ref)' = StatusOf(ref)
    BY <1>1, <1>2 DEF StatusOf
  <2> QED BY <1>1, <1>2, <2>1, AwaitedStep DEF AwaitedInv
<1>3. ASSUME NEW stage, NEW s, RunOne(w, stage, s),
             stage \notin {"waiting_approval", "fusion", "policy"}
      PROVE  AwaitedInv'
  <2>1. \A ref : ~AsksFor(row, ref)
    BY <1>1, <1>3 DEF AsksFor
  <2> QED BY <1>2, <1>3, <2>1
<1>4. CASE AcceptRca(w)
  <2>1. PICK s : RunOne(w, "fusion", s) /\ GateFor(mem[w].opinion) = "none"
    BY <1>4 DEF AcceptRca
  <2>2. \A ref : ~AsksFor(row, ref)
    BY <1>1, <2>1 DEF AsksFor
  <2> QED BY <1>2, <2>1, <2>2
<1>5. CASE BlockWithoutEvidence(w)
  <2>1. PICK s : RunOne(w, "policy", s) /\ mem[w].evidence = {}
    BY <1>5 DEF BlockWithoutEvidence
  <2>2. \A ref : ~AsksFor(row, ref)
    BY <1>1, <2>1 DEF AsksFor
  <2> QED BY <1>2, <2>1, <2>2
<1>6. CASE ResumeApproval(w)
  <2>1. PICK s : RunOne(w, "waiting_approval", s)
    BY <1>6 DEF ResumeApproval
  <2>2. row.stage = "waiting_approval" /\ row.result # NoRuling
    BY <1>1, <2>1 DEF Paused
  <2>3. row.result \in rulings /\ row.result.ref = row.pending
    BY <2>2 DEF IInv, Sound, Waits
  <2>4. StatusOf(row.pending) # "pending"
    BY <2>3 DEF DecidedOnce
  <2>5. \A ref : AsksFor(row, ref) => ref = row.pending
    BY <2>2 DEF AsksFor
  <2> QED BY <1>2, <2>1, <2>4, <2>5
<1>7. CASE \/ Receive(w) \/ Validate(w) \/ Correlate(w) \/ AssembleEvidence(w)
           \/ DeterministicRca(w) \/ LlmRca(w) \/ RankActions(w) \/ Verify(w)
           \/ FailureReview(w) \/ Reconcile(w)
  <2>1. \E stage \in Stages \ {"waiting_approval", "fusion", "policy"} : \E s :
          RunOne(w, stage, s)
    BY <1>7 DEF Receive, Validate, Correlate, AssembleEvidence, DeterministicRca,
       LlmRca, RankActions, Verify, FailureReview, Reconcile, Stages
  <2> QED BY <1>3, <2>1
<1> QED BY <1>4, <1>5, <1>6, <1>7

\* Asking: the copy that is prepared asks for what the row asks for.
LEMMA AwaitedAskStep ==
  ASSUME OneAtATime, IInv, LedgerInv, AwaitedInv, NEW w \in Workers,
         AskRcaReview(w) \/ AskAction(w) \/ LookUpApproval(w)
  PROVE  AwaitedInv'
<1>1. row' = row /\ UNCHANGED approvals
  BY DEF AskRcaReview, AskAction, LookUpApproval, stored
<1>2. \A ref : StatusOf(ref)' = StatusOf(ref)
  BY <1>1 DEF StatusOf
<1>3. Alike(row, mem'[w]) /\ AsksFor(row, Asked(row)) /\ pc'[w] \in {"prepare", "record"}
  <2> DEFINE g == GateFor(row.opinion)
  <2>1. row \in Incidents
    BY DEF IInv, TypeOK
  <2>2. CASE AskRcaReview(w)
    <3>1. mem[w] = row /\ row.stage = "fusion" /\ g # "none" /\ pc'[w] = "prepare"
      BY <2>2 DEF AskRcaReview, Ready, Goto, IInv, TypeOK, LedgerInv
    <3>2. mem'[w] = [[row EXCEPT !.steps = @ + 1] EXCEPT !.gate = g]
      BY <2>2, <3>1 DEF AskRcaReview, Counted, Hold, IInv, TypeOK
    <3>3. AsksFor(row, Asked(row))
      BY <3>1 DEF AsksFor
    <3> HIDE DEF g
    <3>4. Alike(row, mem'[w])
      BY <2>1, <3>2 DEF Alike, SameCounts, Incidents
    <3> QED BY <3>1, <3>3, <3>4
  <2>3. CASE AskAction(w)
    <3>1. mem[w] = row /\ row.stage = "policy" /\ row.evidence # {} /\ pc'[w] = "prepare"
      BY <2>3 DEF AskAction, Ready, Goto, IInv, TypeOK, LedgerInv
    <3>2. mem'[w] = [row EXCEPT !.steps = @ + 1]
      BY <2>3, <3>1 DEF AskAction, Counted, Hold, IInv, TypeOK
    <3>3. AsksFor(row, Asked(row))
      BY <3>1 DEF AsksFor
    <3>4. Alike(row, mem'[w])
      BY <2>1, <3>2 DEF Alike, SameCounts, Incidents
    <3> QED BY <3>1, <3>3, <3>4
  <2>4. CASE LookUpApproval(w)
    BY <2>4 DEF LookUpApproval, Goto, IInv, TypeOK, AwaitedInv
  <2> QED BY <2>2, <2>3, <2>4
<1>4. AsksFor(row', Asked(row'))
  BY <1>1, <1>3
<1>5. \A v \in Workers : v = w
  BY DEF OneAtATime
<1>6. \A ref : StatusOf(ref)' = "pending" => AsksFor(row', ref)
  BY <1>1, <1>2 DEF AwaitedInv
<1>7. Alike(row', mem'[w])
  BY <1>1, <1>3
<1> QED BY <1>3, <1>4, <1>5, <1>6, <1>7 DEF AwaitedInv

LEMMA AwaitedSaveApprovalStep ==
  ASSUME OneAtATime, IInv, AwaitedInv, NEW w \in Workers, SaveApproval(w)
  PROVE  AwaitedInv'
<1> DEFINE ref == Asked(mem[w])
           status == IF task[w].seen = "absent" THEN "pending" ELSE task[w].seen
<1>1. /\ row' = row /\ approvals' = Put(approvals, ref, status) /\ pc'[w] = "save"
      /\ mem'[w] = [mem[w] EXCEPT !.pending = ref, !.result = NoRuling,
                      !.stage = "waiting_approval", !.status = "waiting"]
  BY DEF SaveApproval, Goto, Hold, IInv, TypeOK
<1>2. /\ Alike(row, mem[w]) /\ AsksFor(row, Asked(row))
      /\ mem[w] \in Incidents /\ mem[w].stage \in {"fusion", "policy"}
  BY DEF SaveApproval, AwaitedInv, IInv, TypeOK, Holds
<1>3. Asked(row) = ref /\ row.stage \in {"fusion", "policy"}
  BY <1>2, AlikeAsks DEF Alike
<1> HIDE DEF ref, status
<1>4. mem'[w].stage = "waiting_approval" /\ mem'[w].pending = ref
  BY <1>1, <1>2 DEF Incidents
<1>5. ASSUME NEW q, StatusOf(q)' = "pending" PROVE AsksFor(row, q)
  BY <1>1, <1>2, <1>3, <1>5, PutStatus DEF AwaitedInv
<1>6. /\ \A q : StatusOf(q)' = "pending" => AsksFor(row', q)
      /\ row'.stage \in {"fusion", "policy"} /\ mem'[w].pending = Asked(row')
  BY <1>1, <1>3, <1>4, <1>5
<1>7. \A v \in Workers : v = w
  BY DEF OneAtATime
<1> QED BY <1>1, <1>4, <1>6, <1>7 DEF AwaitedInv

\* The copy that is saved asks for what was pending.
LEMMA AwaitedSaveStep ==
  ASSUME OneAtATime, IInv, AwaitedInv, NEW w \in Workers, SaveIncident(w) \/ SaveResult(w)
  PROVE  AwaitedInv'
<1>1. /\ row' = mem[w] /\ UNCHANGED approvals /\ pc'[w] \in {"loop", "reply"}
  BY DEF SaveIncident, SaveResult, Goto, AfterStep, IInv, TypeOK
<1>2. ASSUME NEW ref, AsksFor(row, ref) PROVE AsksFor(mem[w], ref)
  <2>1. CASE SaveIncident(w)
    BY <1>2, <2>1 DEF SaveIncident, AwaitedInv, AsksFor
  <2>2. CASE SaveResult(w)
    BY <1>2, <2>2, AlikeAsks DEF SaveResult, AwaitedInv
  <2> QED BY <2>1, <2>2
<1>3. \A ref : StatusOf(ref)' = StatusOf(ref)
  BY <1>1 DEF StatusOf
<1>4. \A ref : StatusOf(ref)' = "pending" => AsksFor(row', ref)
  BY <1>1, <1>2, <1>3 DEF AwaitedInv
<1> QED BY <1>1, <1>4, AwaitedStep

\* An execution begins where nothing is pending.
LEMMA AwaitedExecuteStep ==
  ASSUME OneAtATime, IInv, LedgerInv, AwaitedInv, NEW w \in Workers,
         Execute(w) \/ EffectReported(w) \/ CallFailed(w) \/ RecordResult(w)
  PROVE  AwaitedInv'
<1>1. /\ row' = row /\ UNCHANGED approvals /\ pc'[w] \in {"await", "log", "save"}
  BY DEF Execute, EffectReported, CallFailed, RecordResult, stored, Goto, IInv, TypeOK
<1>2. row.stage = "execute"
  BY DEF Execute, EffectReported, CallFailed, RecordResult, Ready, LedgerInv, AwaitedInv
<1>3. \A ref : StatusOf(ref)' = StatusOf(ref)
  BY <1>1 DEF StatusOf
<1>4. \A ref : StatusOf(ref)' = "pending" => AsksFor(row', ref)
  BY <1>1, <1>3 DEF AwaitedInv
<1>5. \A v \in Workers : v = w
  BY DEF OneAtATime
<1> QED BY <1>1, <1>2, <1>4, <1>5 DEF AwaitedInv

LEMMA AwaitedLoadStep ==
  ASSUME OneAtATime, IInv, AwaitedInv, NEW w \in Workers, LoadIncident(w)
  PROVE  AwaitedInv'
<1> DEFINE r == task[w].ruling
<1>1. row' = row /\ UNCHANGED approvals
  BY DEF LoadIncident, stored
<1>2. \/ pc'[w] = "idle"
      \/ pc'[w] = "resume" /\ mem'[w] = [row EXCEPT !.result = r, !.status = "open"]
  BY DEF LoadIncident, Return, Goto, Hold, IInv, TypeOK
<1>3. \A ref : StatusOf(ref)' = StatusOf(ref)
  BY <1>1 DEF StatusOf
<1>4. \A ref : StatusOf(ref)' = "pending" => AsksFor(row', ref)
  BY <1>1, <1>3 DEF AwaitedInv
<1> HIDE DEF r
<1>5. pc'[w] = "resume" => Alike(row, mem'[w])
  BY <1>2 DEF IInv, TypeOK, Alike, SameCounts, Incidents
<1>6. pc'[w] = "resume" => Alike(row', mem'[w])
  BY <1>1, <1>5
<1>7. \A v \in Workers : v = w
  BY DEF OneAtATime
<1> QED BY <1>2, <1>4, <1>6, <1>7 DEF AwaitedInv

\* Requests that begin, end, pause or decide.
LEMMA AwaitedPauseStep ==
  ASSUME OneAtATime, IInv, AwaitedInv, NEW w \in Workers,
         \/ \E kind \in Tasks : RunIncident(w, kind)
         \/ Pause(w) \/ StepBudgetStop(w) \/ Lose(w) \/ Review(w)
         \/ SaveDecision(w) \/ Reply(w)
  PROVE  AwaitedInv'
<1>1. row' = row /\ pc'[w] \in {"idle", "loop", "reply", "decided", "load"}
  BY DEF RunIncident, Pause, StepBudgetStop, Lose, Review, DecideApproval,
     SaveDecision, Reply, Return, Goto, stored, IInv, TypeOK
<1>2. ASSUME NEW ref, StatusOf(ref)' = "pending" PROVE StatusOf(ref) = "pending"
  <2>1. CASE \/ \E kind \in Tasks : RunIncident(w, kind)
             \/ Pause(w) \/ StepBudgetStop(w) \/ Lose(w) \/ Review(w)
    <3>1. UNCHANGED approvals
      BY <2>1 DEF RunIncident, Pause, StepBudgetStop, Lose, Review, DecideApproval, stored
    <3> QED BY <1>2, <3>1 DEF StatusOf
  <2>2. CASE SaveDecision(w)
    <3>1. approvals' = Put(approvals, task[w].ruling.ref, StatusAfter(task[w].ruling.decision))
      BY <2>2 DEF SaveDecision
    <3>2. StatusAfter(task[w].ruling.decision) # "pending"
      BY DEF StatusAfter
    <3> QED BY <1>2, <3>1, <3>2, PutStatus
  <2>3. CASE Reply(w)
    <3>1. \/ UNCHANGED approvals
          \/ approvals' = Put(approvals, task[w].ruling.ref, "consumed")
      BY <2>3 DEF Reply
    <3>2. CASE UNCHANGED approvals
      BY <1>2, <3>2 DEF StatusOf
    <3> QED BY <1>2, <3>1, <3>2, PutStatus
  <2> QED BY <2>1, <2>2, <2>3
<1>3. \A ref : StatusOf(ref)' = "pending" => AsksFor(row', ref)
  BY <1>1, <1>2 DEF AwaitedInv
<1> QED BY <1>1, <1>3, AwaitedStep

LEMMA NextAwaitedInv ==
  ASSUME OneAtATime, IInv, DecidedOnce, LedgerInv, AwaitedInv, [Next]_vars
  PROVE  AwaitedInv'
<1>1. ASSUME UNCHANGED <<row, approvals, pc, mem>> PROVE AwaitedInv'
  <2>1. \A ref : StatusOf(ref)' = StatusOf(ref)
    BY <1>1 DEF StatusOf
  <2>2. Asked(row') = Asked(row)
    BY <1>1
  <2> QED BY <1>1, <2>1, <2>2 DEF AwaitedInv
<1>2. CASE UNCHANGED vars
  BY <1>1, <1>2 DEF vars, stored
<1>3. ASSUME NEW call \in wire, Serve(call) PROVE AwaitedInv'
  BY <1>1, <1>3 DEF Serve, stored
<1>4. ASSUME NEW w \in Workers,
             (\E kind \in Tasks : RunIncident(w, kind)) \/ Review(w) \/ Lose(w)
      PROVE  AwaitedInv'
  BY <1>4, AwaitedPauseStep
<1>5. ASSUME NEW w \in Workers, Handle(w) PROVE AwaitedInv'
  BY <1>5, AwaitedHandlerStep, AwaitedAskStep, AwaitedSaveApprovalStep, AwaitedSaveStep,
     AwaitedExecuteStep, AwaitedLoadStep, AwaitedPauseStep DEF Handle
<1> QED BY <1>2, <1>3, <1>4, <1>5 DEF Next, Simulator

LEMMA AwaitedInductive ==
  ASSUME OneAtATime PROVE Spec => []AwaitedInv
<1>1. Init => AwaitedInv
  BY DEF Init, AwaitedInv, StatusOf
<1>2. IInv /\ DecidedOnce /\ LedgerInv /\ AwaitedInv /\ [Next]_vars => AwaitedInv'
  BY NextAwaitedInv
<1> QED BY <1>1, <1>2, Inductive, RulingsAreFinal, LedgerInductive, PTL DEF Spec

-----------------------------------------------------------------------------
(* What is reported of the one row *)

\* A work order stands for one visit; a maintenance request for one MR or more.
LEMMA RecordKinds ==
  ASSUME NEW ref
  PROVE  /\ RecordOf(ref).kind = "work order" <=> ref.action \in FieldActions
         /\ RecordOf(ref).kind = "MR" <=> ref.action = "dirty_boots_mr"
         /\ ref.action \in FieldActions => RecordOf(ref).id = <<ref.action, ref.attempt>>
BY DEF RecordOf, FieldActions

LEMMA RecordsCounted ==
  ASSUME NEW s \in Incidents, Tallied(s)
  PROVE  /\ Cardinality(RecordsOf(s, "work order")) = s.field
         /\ Cardinality(RecordsOf(s, "MR")) \in Nat
         /\ Cardinality(RecordsOf(s, "MR")) <= s.mr
         /\ s.field = 0 => RecordsOf(s, "work order") = {}
<1> DEFINE n == Len(s.history)
           At(A) == {k \in 1..n : s.history[k].action \in A}
           K == At(FieldActions)
           M == At({"dirty_boots_mr"})
           visit == [k \in K |-> RecordOf(s.history[k])]
           mr == [k \in M |-> RecordOf(s.history[k])]
<1>1. /\ s.history \in Seq(Refs) /\ n \in Nat
      /\ s.field = Cardinality(K) /\ s.mr = Cardinality(M)
  BY DEF Incidents, Tallied, CountOf
<1>2. IsFiniteSet(K) /\ IsFiniteSet(M)
  <2>1. IsFiniteSet(1..n) /\ K \subseteq 1..n /\ M \subseteq 1..n
    BY <1>1, FS_Interval
  <2> HIDE DEF K, M
  <2> QED BY <2>1, FS_Subset
<1>3. visit \in Bijection(K, RecordsOf(s, "work order"))
  <2>1. visit \in [K -> RecordsOf(s, "work order")]
    BY RecordKinds DEF RecordsOf
  <2>2. \A t \in RecordsOf(s, "work order") : \E k \in K : visit[k] = t
    BY RecordKinds DEF RecordsOf
  <2>3. \A j, k \in K : visit[j] = visit[k] => j = k
    <3> SUFFICES ASSUME NEW j \in K, NEW k \in K, visit[j] = visit[k] PROVE j = k
      OBVIOUS
    <3> DEFINE p == s.history[j]
               q == s.history[k]
    <3>0. /\ RecordOf(p) = RecordOf(q)
          /\ p.action \in FieldActions /\ q.action \in FieldActions
      OBVIOUS
    <3>1. p.attempt = q.attempt
      <4> HIDE DEF p, q
      <4>1. /\ RecordOf(p).id = <<p.action, p.attempt>>
            /\ RecordOf(q).id = <<q.action, q.attempt>>
        BY <3>0, RecordKinds
      <4> QED BY <3>0, <4>1
    <3>2. SameCount(p, q)
      BY <3>0 DEF SameCount
    <3> QED BY <3>1, <3>2 DEF Tallied
  <2> HIDE DEF visit, K
  <2> QED BY <2>1, <2>2, <2>3 DEF Bijection, Injection, Surjection, IsInjective
<1>4. mr \in Surjection(M, RecordsOf(s, "MR"))
  <2>1. mr \in [M -> RecordsOf(s, "MR")]
    BY RecordKinds DEF RecordsOf
  <2>2. \A t \in RecordsOf(s, "MR") : \E k \in M : mr[k] = t
    BY RecordKinds DEF RecordsOf
  <2> HIDE DEF mr, M
  <2> QED BY <2>1, <2>2 DEF Surjection
<1> HIDE DEF visit, mr, K, M
<1>5. /\ IsFiniteSet(RecordsOf(s, "work order"))
      /\ Cardinality(RecordsOf(s, "work order")) = Cardinality(K)
  BY <1>2, <1>3, FS_Bijection DEF ExistsBijection
<1>6. /\ IsFiniteSet(RecordsOf(s, "MR"))
      /\ Cardinality(RecordsOf(s, "MR")) <= Cardinality(M)
  BY <1>2, <1>4, FS_Surjection
<1> QED BY <1>1, <1>5, <1>6, FS_CardinalityType, FS_EmptySet

LEMMA CountsAdd ==
  ASSUME NEW s \in Incidents, NEW A, NEW B, A \intersect B = {}
  PROVE  CountOf(s, A \union B) = CountOf(s, A) + CountOf(s, B)
<1> DEFINE n == Len(s.history)
           At(C) == {k \in 1..n : s.history[k].action \in C}
           S == At(A)
           T == At(B)
<1>1. At(A \union B) = S \union T /\ S \intersect T = {}
  OBVIOUS
<1>2. IsFiniteSet(S) /\ IsFiniteSet(T)
  <2>1. n \in Nat
    BY DEF Incidents
  <2>2. IsFiniteSet(1..n) /\ S \subseteq 1..n /\ T \subseteq 1..n
    BY <2>1, FS_Interval
  <2> HIDE DEF S, T
  <2> QED BY <2>2, FS_Subset
<1>3. /\ CountOf(s, A) = Cardinality(S) /\ CountOf(s, B) = Cardinality(T)
      /\ CountOf(s, A \union B) = Cardinality(S \union T)
  BY <1>1 DEF CountOf
<1> HIDE DEF S, T
<1>4. Cardinality(S \union T) = Cardinality(S) + Cardinality(T) - Cardinality(S \intersect T)
  BY <1>2, FS_Union
<1>5. Cardinality(S \intersect T) = 0
  BY <1>1, FS_EmptySet
<1>6. Cardinality(S) \in Nat /\ Cardinality(T) \in Nat
  BY <1>2, FS_CardinalityType
<1> QED BY <1>3, <1>4, <1>5, <1>6

LEMMA TotalOfTwo ==
  ASSUME NEW a \in Nat, NEW b \in Nat, NEW f, f[1] = a, f[2] = b
  PROVE  Total(f, 2) = a + b
<1> DEFINE upTo[k \in 0..2] == IF k = 0 THEN 0 ELSE upTo[k - 1] + f[k]
           Step(g) == [k \in 0..2 |-> IF k = 0 THEN 0 ELSE g[k - 1] + f[k]]
           h == [k \in 0..2 |-> IF k = 0 THEN 0 ELSE IF k = 1 THEN a ELSE a + b]
<1>1. Total(f, 2) = upTo[2]
  BY DEF Total
<1>2. upTo = CHOOSE g : g = Step(g)
  BY Zenon DEF upTo
<1> HIDE DEF upTo
<1>3. h = Step(h)
  <2>1. \A k \in 0..2 : h[k] = IF k = 0 THEN 0 ELSE h[k - 1] + f[k]
    OBVIOUS
  <2> QED BY <2>1
<1>4. upTo = Step(upTo)
  <2> HIDE DEF h, Step
  <2> QED BY <1>2, <1>3
<1>5. upTo[0] = 0 /\ upTo[1] = upTo[0] + f[1] /\ upTo[2] = upTo[1] + f[2]
  BY <1>4
<1> QED BY <1>1, <1>5

LEMMA OneOrNone ==
  ASSUME NEW S, NEW u, NEW P, P \in BOOLEAN, S = {v \in {u} : P}
  PROVE  Cardinality(S) = IF P THEN 1 ELSE 0
<1>1. CASE P
  <2>1. S = {u}
    BY <1>1
  <2> QED BY <1>1, <2>1, FS_Singleton
<1>2. CASE ~P
  <2>1. S = {}
    BY <1>2
  <2> QED BY <1>2, <2>1, FS_EmptySet
<1> QED BY <1>1, <1>2

LEMMA UpToTwo ==
  ASSUME NEW u, NEW v, u # v, NEW S \in SUBSET {u, v}
  PROVE  Cardinality(S) = (IF u \in S THEN 1 ELSE 0) + (IF v \in S THEN 1 ELSE 0)
<1>1. /\ IsFiniteSet({u}) /\ Cardinality({u}) = 1 /\ v \notin {u}
      /\ Cardinality({v}) = 1
      /\ IsFiniteSet({}) /\ Cardinality({}) = 0
  BY FS_Singleton, FS_EmptySet
<1>2. Cardinality({u} \union {v}) = 2
  BY <1>1, FS_AddElement
<1>3. CASE u \in S /\ v \in S
  <2>1. S = {u} \union {v}
    BY <1>3
  <2> QED BY <1>2, <1>3, <2>1
<1>4. CASE u \in S /\ v \notin S
  <2>1. S = {u}
    BY <1>4
  <2> QED BY <1>1, <1>4, <2>1
<1>5. CASE u \notin S /\ v \in S
  <2>1. S = {v}
    BY <1>5
  <2> QED BY <1>1, <1>5, <2>1
<1>6. CASE u \notin S /\ v \notin S
  <2>1. S = {}
    BY <1>6
  <2> QED BY <1>1, <1>6, <2>1
<1> QED BY <1>3, <1>4, <1>5, <1>6

LEMMA RowsUpToTwo ==
  ASSUME NEW S \in SUBSET {1, 2}
  PROVE  Cardinality(S) = (IF 1 \in S THEN 1 ELSE 0) + (IF 2 \in S THEN 1 ELSE 0)
<1>1. 1 # 2
  OBVIOUS
<1> QED BY <1>1, UpToTwo, Zenon

LEMMA TwoRows ==
  ASSUME NEW x, NEW y
  PROVE  /\ Len(<<x, y>>) = 2 /\ 1..2 = {1, 2}
         /\ <<x, y>>[1] = x /\ <<x, y>>[2] = y
OBVIOUS

WorkOrders(s) == RecordsOf(s, "work order")

LEMMA SomeOrNone == ASSUME NEW n \in Nat PROVE (n > 0) <=> n # 0
OBVIOUS

LEMMA OnlyVisitsDispatch ==
  ASSUME NEW s, s.field \in Nat, s.field = 0 => RecordsOf(s, "work order") = {},
         Dispatched(s)
  PROVE  s.field > 0
<1>1. s.field > 0 \/ RecordsOf(s, "work order") # {}
  BY Zenon DEF Dispatched
<1>2. (s.field > 0) <=> s.field # 0
  BY SomeOrNone, Zenon
<1> QED BY <1>1, <1>2, Zenon

LEMMA RecordsAreFinite ==
  ASSUME NEW s \in Incidents, NEW kind
  PROVE  Cardinality(RecordsOf(s, kind)) \in Nat
<1> DEFINE n == Len(s.history)
           All == {RecordOf(s.history[k]) : k \in 1..n}
           f == [k \in 1..n |-> RecordOf(s.history[k])]
<1>1. n \in Nat /\ IsFiniteSet(1..n)
  BY FS_Interval DEF Incidents
<1>2. f \in Surjection(1..n, All)
  BY DEF Surjection
<1>3. RecordsOf(s, kind) \subseteq All
  BY DEF RecordsOf
<1> HIDE DEF n, All, f
<1> QED BY <1>1, <1>2, <1>3, FS_Surjection, FS_Subset, FS_CardinalityType

\* What the live projection sums over two incidents.
LEMMA ProjectionOfTwo ==
  ASSUME NEW x \in Incidents, NEW y \in Incidents, NEW a, Tallied(x)
  PROVE  LET p == OperationsProjection(<<x, y>>, a)
         IN  /\ p.remote_attempts = x.remote + y.remote
             /\ p.work_orders = x.field + Cardinality(WorkOrders(y))
             /\ p.maintenance_requests <= x.mr + Cardinality(RecordsOf(y, "MR"))
<1> DEFINE rows == <<x, y>>
           p == OperationsProjection(rows, a)
           remote == [m \in 1..2 |-> rows[m].remote]
           orders == [m \in 1..2 |-> Cardinality(RecordsOf(rows[m], "work order"))]
           requests == [m \in 1..2 |-> Cardinality(RecordsOf(rows[m], "MR"))]
<1>1. Len(rows) = 2 /\ rows[1] = x /\ rows[2] = y
  BY TwoRows
<1> HIDE DEF rows
<1>2. /\ p.remote_attempts = Total(remote, 2)
      /\ p.work_orders = Total(orders, 2)
      /\ p.maintenance_requests = Total(requests, 2)
  BY <1>1, Zenon DEF OperationsProjection
<1>3. /\ remote[1] = x.remote /\ remote[2] = y.remote
      /\ orders[1] = Cardinality(WorkOrders(x)) /\ orders[2] = Cardinality(WorkOrders(y))
      /\ requests[1] = Cardinality(RecordsOf(x, "MR"))
      /\ requests[2] = Cardinality(RecordsOf(y, "MR"))
  <2>1. 1 \in 1..2 /\ 2 \in 1..2
    OBVIOUS
  <2> QED BY <1>1, <2>1, Zenon DEF WorkOrders
<1>4. /\ x.remote \in Nat /\ y.remote \in Nat /\ x.field \in Nat /\ x.mr \in Nat
      /\ Cardinality(WorkOrders(y)) \in Nat /\ Cardinality(RecordsOf(y, "MR")) \in Nat
  BY RecordsAreFinite DEF Incidents, WorkOrders
<1>5. /\ Cardinality(WorkOrders(x)) = x.field
      /\ Cardinality(RecordsOf(x, "MR")) \in Nat
      /\ Cardinality(RecordsOf(x, "MR")) <= x.mr
  BY RecordsCounted, Zenon DEF WorkOrders
<1> HIDE DEF p, remote, orders, requests
<1>6. Total(remote, 2) = x.remote + y.remote
  BY <1>3, <1>4, TotalOfTwo
<1>7. Total(orders, 2) = x.field + Cardinality(WorkOrders(y))
  BY <1>3, <1>4, <1>5, TotalOfTwo
<1>8. Total(requests, 2) = Cardinality(RecordsOf(x, "MR")) + Cardinality(RecordsOf(y, "MR"))
  BY <1>3, <1>4, <1>5, TotalOfTwo
<1> QED BY <1>2, <1>4, <1>5, <1>6, <1>7, <1>8 DEF p, rows

Shared(x, y) == x.parent # "none" /\ x.parent = y.parent

LEMMA RootsOfTwo ==
  ASSUME NEW x, NEW y
  PROVE  Roots(<<x, y>>) = IF Shared(x, y) THEN {{1, 2}} ELSE {{1}, {2}}
<1> DEFINE rows == <<x, y>>
           Under(n) == {m \in 1..2 : \/ m = n
                                     \/ /\ rows[m].parent # "none"
                                        /\ rows[m].parent = rows[n].parent}
<1>1. /\ Len(rows) = 2 /\ rows[1] = x /\ rows[2] = y /\ 1..2 = {1, 2}
  BY TwoRows
<1> HIDE DEF rows
<1>2. Roots(rows) = {Under(n) : n \in 1..2}
  BY <1>1, Zenon DEF Roots
<1>3. Under(1) = IF Shared(x, y) THEN {1, 2} ELSE {1}
  BY <1>1 DEF Shared
<1>4. Under(2) = IF Shared(x, y) THEN {1, 2} ELSE {2}
  BY <1>1 DEF Shared
<1>5. {Under(n) : n \in 1..2} = {Under(1), Under(2)}
  BY <1>1
<1> HIDE DEF Under
<1> QED BY <1>2, <1>3, <1>4, <1>5 DEF rows

LEMMA RootStatusOf ==
  ASSUME NEW t \in Statuses, NEW u \in Statuses
  PROVE  /\ RootStatus({t}) = t
         /\ RootStatus({t, u}) \in StatusPartitionKeys
         /\ RootStatus({t, u}) = "closed" <=> {t, u} = {"closed"}
         /\ "quarantined" \notin {t, u} =>
              (RootStatus({t, u}) = "escalated" <=> "escalated" \in {t, u})
<1>1. RootStatus({t}) = t
  BY DEF RootStatus, Statuses, TerminalStages
<1>2. CASE "quarantined" \in {t, u}
  <2>1. RootStatus({t, u}) = "quarantined"
    BY <1>2 DEF RootStatus
  <2> QED BY <1>1, <1>2, <2>1 DEF StatusPartitionKeys
<1>3. CASE "quarantined" \notin {t, u} /\ "escalated" \in {t, u}
  <2>1. RootStatus({t, u}) = "escalated"
    BY <1>3 DEF RootStatus
  <2> QED BY <1>1, <1>3, <2>1 DEF StatusPartitionKeys
<1>4. CASE {t, u} \intersect {"quarantined", "escalated"} = {} /\ {t, u} # {"closed"}
  <2>1. RootStatus({t, u}) \in {"waiting", "open"}
    BY <1>4 DEF RootStatus, Statuses, TerminalStages
  <2> QED BY <1>1, <1>4, <2>1 DEF StatusPartitionKeys
<1>5. CASE {t, u} = {"closed"}
  <2>1. RootStatus({t, u}) = "closed"
    BY <1>5 DEF RootStatus
  <2> QED BY <1>1, <1>5, <2>1 DEF StatusPartitionKeys
<1> QED BY <1>2, <1>3, <1>4, <1>5

\* Cases of one root are counted once, cases of two roots each by themselves.
CountedByRoot(x, y, p) ==
  /\ p.case_attempts = 2
  /\ Shared(x, y) =>
       /\ p.root_incidents = 1
       /\ p.field_dispatched = IF Dispatched(x) \/ Dispatched(y) THEN 1 ELSE 0
       /\ \A k \in StatusPartitionKeys :
            p.partition[k] = IF RootStatus({x.status, y.status}) = k THEN 1 ELSE 0
  /\ ~Shared(x, y) =>
       /\ p.root_incidents = 2
       /\ p.field_dispatched =
            (IF Dispatched(x) THEN 1 ELSE 0) + (IF Dispatched(y) THEN 1 ELSE 0)
       /\ \A k \in StatusPartitionKeys :
            p.partition[k] = (IF x.status = k THEN 1 ELSE 0) + (IF y.status = k THEN 1 ELSE 0)

LEMMA RootsCounted ==
  ASSUME NEW x, NEW y, NEW a, x.status \in Statuses, y.status \in Statuses
  PROVE  CountedByRoot(x, y, OperationsProjection(<<x, y>>, a))
<1> DEFINE rows == <<x, y>>
           p == OperationsProjection(rows, a)
           Status(root) == RootStatus({rows[m].status : m \in root})
           Sent(root) == \E m \in root : Dispatched(rows[m])
<1>1. Len(rows) = 2 /\ rows[1] = x /\ rows[2] = y
  BY TwoRows
<1>2. Roots(rows) = IF Shared(x, y) THEN {{1, 2}} ELSE {{1}, {2}}
  BY RootsOfTwo
<1> HIDE DEF rows
<1>3. /\ p.case_attempts = 2
      /\ p.root_incidents = Cardinality(Roots(rows))
      /\ p.field_dispatched = Cardinality({root \in Roots(rows) : Sent(root)})
      /\ \A k \in StatusPartitionKeys :
           p.partition[k] = Cardinality({root \in Roots(rows) : Status(root) = k})
  BY <1>1, Zenon DEF OperationsProjection
<1>4. /\ Sent({1, 2}) <=> Dispatched(x) \/ Dispatched(y)
      /\ Sent({1}) <=> Dispatched(x)
      /\ Sent({2}) <=> Dispatched(y)
  BY <1>1
<1>5. /\ Status({1, 2}) = RootStatus({x.status, y.status})
      /\ Status({1}) = x.status
      /\ Status({2}) = y.status
  <2>1. /\ {rows[m].status : m \in {1, 2}} = {x.status, y.status}
        /\ {rows[m].status : m \in {1}} = {x.status}
        /\ {rows[m].status : m \in {2}} = {y.status}
    BY <1>1
  <2> QED BY <2>1, RootStatusOf
<1> HIDE DEF p, Status, Sent
<1>6. CASE Shared(x, y)
  <2> DEFINE u == {1, 2}
             sent == Dispatched(x) \/ Dispatched(y)
  <2>1. /\ Roots(rows) = {u} /\ (Sent(u) <=> sent) /\ sent \in BOOLEAN
        /\ Status(u) = RootStatus({x.status, y.status})
    BY <1>2, <1>4, <1>5, <1>6
  <2> HIDE DEF u, sent
  <2>2. Cardinality(Roots(rows)) = 1
    BY <2>1, FS_Singleton
  <2>3. Cardinality({root \in Roots(rows) : Sent(root)}) = IF sent THEN 1 ELSE 0
    <3>1. {root \in Roots(rows) : Sent(root)} = {root \in {u} : sent}
      BY <2>1
    <3> QED BY <2>1, <3>1, OneOrNone
  <2>4. ASSUME NEW k
        PROVE  Cardinality({root \in Roots(rows) : Status(root) = k})
                 = IF RootStatus({x.status, y.status}) = k THEN 1 ELSE 0
    <3> DEFINE is == RootStatus({x.status, y.status}) = k
    <3>1. {root \in Roots(rows) : Status(root) = k} = {root \in {u} : is}
      BY <2>1
    <3>2. is \in BOOLEAN
      OBVIOUS
    <3> HIDE DEF is
    <3>3. Cardinality({root \in Roots(rows) : Status(root) = k}) = IF is THEN 1 ELSE 0
      BY <3>1, <3>2, OneOrNone
    <3> QED BY <3>3 DEF is
  <2> QED BY <1>3, <1>6, <2>2, <2>3, <2>4 DEF CountedByRoot, p, rows, sent
<1>7. CASE ~Shared(x, y)
  <2> DEFINE u == {1}
             v == {2}
             one == Dispatched(x)
             two == Dispatched(y)
  <2>1. /\ Roots(rows) = {u, v} /\ u # v
        /\ (Sent(u) <=> one) /\ (Sent(v) <=> two)
        /\ Status(u) = x.status /\ Status(v) = y.status
    BY <1>2, <1>4, <1>5, <1>7
  <2>2. one \in BOOLEAN /\ two \in BOOLEAN
    BY DEF Dispatched
  <2> HIDE DEF u, v, one, two
  <2>3. Cardinality(Roots(rows)) = 2
    <3>1. IsFiniteSet({u}) /\ Cardinality({u}) = 1 /\ v \notin {u}
      BY <2>1, FS_Singleton
    <3>2. Roots(rows) = {u} \union {v}
      BY <2>1
    <3> QED BY <3>1, <3>2, FS_AddElement
  <2>4. Cardinality({root \in Roots(rows) : Sent(root)})
          = (IF one THEN 1 ELSE 0) + (IF two THEN 1 ELSE 0)
    <3> DEFINE S == {root \in Roots(rows) : Sent(root)}
    <3>1. S \in SUBSET {u, v} /\ (u \in S <=> one) /\ (v \in S <=> two)
      BY <2>1
    <3> HIDE DEF S
    <3>2. Cardinality(S) = (IF u \in S THEN 1 ELSE 0) + (IF v \in S THEN 1 ELSE 0)
      BY <2>1, <3>1, UpToTwo
    <3> QED BY <3>1, <3>2 DEF S
  <2>5. ASSUME NEW k
        PROVE  Cardinality({root \in Roots(rows) : Status(root) = k})
                 = (IF x.status = k THEN 1 ELSE 0) + (IF y.status = k THEN 1 ELSE 0)
    <3> DEFINE S == {root \in Roots(rows) : Status(root) = k}
    <3>1. S \in SUBSET {u, v} /\ (u \in S <=> x.status = k) /\ (v \in S <=> y.status = k)
      BY <2>1
    <3> HIDE DEF S
    <3>2. Cardinality(S) = (IF u \in S THEN 1 ELSE 0) + (IF v \in S THEN 1 ELSE 0)
      BY <2>1, <3>1, UpToTwo
    <3> QED BY <3>1, <3>2 DEF S
  <2>6. /\ p.case_attempts = 2 /\ p.root_incidents = 2
        /\ p.field_dispatched = (IF one THEN 1 ELSE 0) + (IF two THEN 1 ELSE 0)
        /\ \A k \in StatusPartitionKeys :
             p.partition[k] = (IF x.status = k THEN 1 ELSE 0) + (IF y.status = k THEN 1 ELSE 0)
    BY <1>3, <2>3, <2>4, <2>5
  <2> QED BY <1>7, <2>6, Zenon DEF CountedByRoot, p, rows, one, two
<1> QED BY <1>6, <1>7

\* The reports are true of a row that tells what was done.
LEMMA WorkIsTold == ASSUME IInv, Told(row) PROVE WorkIsCounted
<1> SUFFICES ASSUME NEW other \in Others
             PROVE  LET p == OperationsProjection(<<row, other>>, approvals)
                        r == TelemetryRecord(row)
                        panel == PlaybookSuccess(<<r, TelemetryRecord(other)>>)
                    IN  /\ p.remote_attempts = CountOf(row, RemoteActions) + other.remote
                        /\ p.work_orders = CountOf(row, FieldActions)
                                             + Cardinality(RecordsOf(other, "work order"))
                        /\ p.maintenance_requests <= CountOf(row, {"dirty_boots_mr"})
                                                       + Cardinality(RecordsOf(other, "MR"))
                        /\ r.truck_rolls =
                             CountOf(row, FieldActions \union {"dirty_boots_mr"})
                        /\ r.verified =>
                             /\ row.history[Len(row.history)].action = r.lane
                             /\ panel[r.lane].succeeded >= 1
  BY Zenon DEF WorkIsCounted
<1> DEFINE p == OperationsProjection(<<row, other>>, approvals)
           r == TelemetryRecord(row)
           q == TelemetryRecord(other)
           panel == PlaybookSuccess(<<r, q>>)
<1>1. row \in Incidents /\ Tallied(row) /\ other \in Incidents
  BY OthersAssumption DEF IInv, TypeOK, Told
<1>2. /\ p.remote_attempts = row.remote + other.remote
      /\ p.work_orders = row.field + Cardinality(RecordsOf(other, "work order"))
      /\ p.maintenance_requests <= row.mr + Cardinality(RecordsOf(other, "MR"))
  BY <1>1, ProjectionOfTwo, Zenon DEF WorkOrders
<1>3. /\ row.remote = CountOf(row, RemoteActions)
      /\ row.field = CountOf(row, FieldActions)
      /\ row.mr = CountOf(row, {"dirty_boots_mr"})
  BY <1>1 DEF Tallied
<1>4. r.truck_rolls = CountOf(row, FieldActions \union {"dirty_boots_mr"})
  <2>1. FieldActions \intersect {"dirty_boots_mr"} = {}
    BY DEF FieldActions
  <2>2. CountOf(row, FieldActions \union {"dirty_boots_mr"})
          = CountOf(row, FieldActions) + CountOf(row, {"dirty_boots_mr"})
    BY <1>1, <2>1, CountsAdd
  <2> QED BY <1>3, <2>2 DEF TelemetryRecord
<1>5. ASSUME r.verified
      PROVE  row.history[Len(row.history)].action = r.lane /\ panel[r.lane].succeeded >= 1
  <2> DEFINE k == Len(row.history)
  <2>1. row.verified /\ r.lane = row.selected
    BY <1>5 DEF TelemetryRecord
  <2>2. /\ row.history # << >> /\ row.history[k].action = r.lane
    BY <2>1 DEF Told, LaneActed
  <2>3. k \in 1..k
    BY <1>1, <2>2 DEF Incidents
  <2>4. r.lane # "none"
    BY <1>1, <2>2, <2>3 DEF Tallied, IsRcaReview, EffectActions, RemoteActions, FieldActions
  <2> HIDE DEF r, q
  <2> DEFINE both == <<r, q>>
             mine == q.lane = r.lane /\ q.verified
             S == {i \in 1..2 : both[i].lane = r.lane /\ both[i].verified}
  <2>5. Len(both) = 2 /\ both[1] = r /\ both[2] = q /\ 1..2 = {1, 2}
    BY TwoRows
  <2> HIDE DEF both
  <2>6. r.lane \in {both[i].lane : i \in 1..Len(both)} \ {"none"}
    BY <2>4, <2>5
  <2>7. panel[r.lane].succeeded = Cardinality(S)
    BY <2>5, <2>6, Zenon DEF PlaybookSuccess, HowMany, both
  <2>8. S \in {{1}, {1, 2}}
    BY <1>5, <2>5
  <2>9. Cardinality({1}) = 1 /\ Cardinality({1, 2}) = 2
    <3>1. IsFiniteSet({1}) /\ Cardinality({1}) = 1 /\ 2 \notin {1} /\ {1, 2} = {1} \union {2}
      BY FS_Singleton
    <3> QED BY <3>1, FS_AddElement
  <2> HIDE DEF S, panel
  <2>10. panel[r.lane].succeeded \in {1, 2}
    BY <2>7, <2>8, <2>9
  <2> QED BY <2>2, <2>10
<1> HIDE DEF p, panel
<1>6. /\ p.remote_attempts = CountOf(row, RemoteActions) + other.remote
      /\ p.work_orders = CountOf(row, FieldActions) + Cardinality(RecordsOf(other, "work order"))
      /\ p.maintenance_requests <=
           CountOf(row, {"dirty_boots_mr"}) + Cardinality(RecordsOf(other, "MR"))
  BY <1>2, <1>3
<1> QED BY <1>4, <1>5, <1>6, Zenon DEF p, panel

LEMMA RootsAreTold == ASSUME IInv, Told(row) PROVE RootsAreGrouped
<1> DEFINE Grouped(p, other, cause, shared, closed, escalated) ==
             /\ OperationsReconcile(p)
             /\ Attached(row) =>
                  /\ p.root_incidents = IF shared THEN 1 ELSE 2
                  /\ cause # "none" <=> "Correlate" \in TelemetryRecord(row).autonomous
                  /\ p.partition["closed"] =
                       IF ~shared THEN closed
                       ELSE IF {row.status, other.status} = {"closed"} THEN 1 ELSE 0
             /\ "quarantined" \notin {row.status, other.status} =>
                  (p.partition["escalated"] > 0 <=> escalated > 0)
           Of(other, status) == HowMany(<<row, other>>, LAMBDA s : s.status = status)
<1> SUFFICES ASSUME NEW other \in Others
             PROVE  Grouped(OperationsProjection(<<row, other>>, approvals), other,
                            row.scenario.parent,
                            /\ row.scenario.parent # "none"
                            /\ row.scenario.parent = other.parent,
                            Of(other, "closed"), Of(other, "escalated"))
  BY Zenon DEF RootsAreGrouped
<1> DEFINE p == OperationsProjection(<<row, other>>, approvals)
           cause == row.scenario.parent
           shared == cause # "none" /\ cause = other.parent
           together == Shared(row, other)
           closed == Of(other, "closed")
           escalated == Of(other, "escalated")
           root == RootStatus({row.status, other.status})
           Is(s, k) == IF s.status = k THEN 1 ELSE 0
<1>1. /\ row \in Incidents /\ other \in Incidents /\ Joined(row)
      /\ row.status \in Statuses /\ other.status \in Statuses
  BY OthersAssumption DEF IInv, TypeOK, Told, Incidents
<1>2. /\ p.case_attempts = 2
      /\ together =>
           /\ p.root_incidents = 1
           /\ \A k \in StatusPartitionKeys : p.partition[k] = IF root = k THEN 1 ELSE 0
      /\ ~together =>
           /\ p.root_incidents = 2
           /\ \A k \in StatusPartitionKeys : p.partition[k] = Is(row, k) + Is(other, k)
  <2>1. CountedByRoot(row, other, p)
    BY <1>1, RootsCounted
  <2> HIDE DEF p
  <2> QED BY <2>1, Zenon DEF CountedByRoot
<1>3. /\ root \in StatusPartitionKeys
      /\ root = "closed" <=> {row.status, other.status} = {"closed"}
      /\ "quarantined" \notin {row.status, other.status} =>
           (root = "escalated" <=> "escalated" \in {row.status, other.status})
  BY <1>1, RootStatusOf
<1>4. \A k : Of(other, k) = Is(row, k) + Is(other, k)
  <2> TAKE k
  <2> DEFINE rows == <<row, other>>
             S == {i \in 1..2 : rows[i].status = k}
  <2>1. Len(rows) = 2 /\ rows[1] = row /\ rows[2] = other /\ 1..2 = {1, 2}
    BY TwoRows
  <2> HIDE DEF rows
  <2>2. Of(other, k) = Cardinality(S)
    BY <2>1, Zenon DEF HowMany, rows
  <2>3. S \in SUBSET {1, 2} /\ (1 \in S <=> row.status = k) /\ (2 \in S <=> other.status = k)
    BY <2>1
  <2> HIDE DEF S
  <2>4. Cardinality(S) = (IF 1 \in S THEN 1 ELSE 0) + (IF 2 \in S THEN 1 ELSE 0)
    BY <2>3, RowsUpToTwo
  <2> HIDE DEF Of
  <2> QED BY <2>2, <2>3, <2>4
<1> HIDE DEF Of
<1>5. /\ closed = Is(row, "closed") + Is(other, "closed")
      /\ escalated = Is(row, "escalated") + Is(other, "escalated")
  BY <1>4, Zenon
<1>6. Attached(row) => row.parent = cause /\ (together <=> shared)
  BY <1>1 DEF Joined, Shared
<1>7. "Correlate" \in TelemetryRecord(row).autonomous <=> row.parent # "none"
  BY DEF TelemetryRecord, AutonomousStages, HumanGates
<1>8. {"open", "waiting", "closed", "escalated", "quarantined"} = StatusPartitionKeys
  BY DEF StatusPartitionKeys
<1> HIDE DEF p, cause, shared, together, closed, escalated, root, Of
<1>9. OperationsReconcile(p)
  <2>1. CASE together
    BY <1>2, <1>3, <1>8, <2>1 DEF OperationsReconcile
  <2>2. CASE ~together
    BY <1>1, <1>2, <1>8, <2>2 DEF OperationsReconcile, Statuses, TerminalStages
  <2> QED BY <2>1, <2>2
<1>10. ASSUME Attached(row)
       PROVE  /\ p.root_incidents = IF shared THEN 1 ELSE 2
              /\ cause # "none" <=> "Correlate" \in TelemetryRecord(row).autonomous
              /\ p.partition["closed"] =
                   IF ~shared THEN closed
                   ELSE IF {row.status, other.status} = {"closed"} THEN 1 ELSE 0
  <2>1. cause # "none" <=> "Correlate" \in TelemetryRecord(row).autonomous
    BY <1>6, <1>7, <1>10
  <2>2. "closed" \in StatusPartitionKeys
    BY <1>8
  <2>3. CASE together
    BY <1>2, <1>3, <1>6, <1>10, <2>1, <2>2, <2>3
  <2>4. CASE ~together
    BY <1>2, <1>5, <1>6, <1>10, <2>1, <2>2, <2>4
  <2> QED BY <2>3, <2>4
<1>11. ASSUME "quarantined" \notin {row.status, other.status}
       PROVE  p.partition["escalated"] > 0 <=> escalated > 0
  <2>1. "escalated" \in StatusPartitionKeys
    BY <1>8
  <2>2. CASE together
    BY <1>2, <1>3, <1>5, <1>11, <2>1, <2>2
  <2>3. CASE ~together
    BY <1>2, <1>5, <2>1, <2>3
  <2> QED BY <2>2, <2>3
<1> QED BY <1>9, <1>10, <1>11, Zenon DEF p, cause, shared, closed, escalated

\* Whatever requests overlap, and beside any other case, the reports count each
\* piece of work once, each visit with its work order, credit the lane that acted
\* last, and count the cases of one cause as one root that is closed when all of
\* them are (measurement.build_operations_projection, telemetry.project).
THEOREM CountedOnce == Spec => [](WorkIsCounted /\ RootsAreGrouped)
<1>1. IInv /\ ToldInv => WorkIsCounted /\ RootsAreGrouped
  BY WorkIsTold, RootsAreTold DEF ToldInv, Copies
<1> QED BY <1>1, Inductive, ToldInductive, PTL

LEMMA RemoteIsTold == ASSUME IInv, LedgerInv, Told(row) PROVE RemoteMeansRemote
<1> DEFINE r == TelemetryRecord(row)
           Rolled(s) == s.field + s.mr > 0
<1>1. /\ row \in Incidents /\ Tallied(row)
      /\ row.remote \in Nat /\ row.field \in Nat /\ row.mr \in Nat
  BY DEF IInv, TypeOK, Told, Incidents
<1>2. ASSUME ResolvedRemotely(r),
             NEW ref \in effects, ref.action \in FieldActions \union {"dirty_boots_mr"}
      PROVE  FALSE
  <2>1. row.stage = "closed" /\ row.field = 0 /\ row.mr = 0
    <3>1. r.truck_rolls = 0 /\ r.closed
      BY <1>2 DEF ResolvedRemotely
    <3>2. r.truck_rolls = row.field + row.mr
      BY DEF TelemetryRecord
    <3>3. r.closed <=> row.stage = "closed"
      BY Zenon DEF TelemetryRecord
    <3> QED BY <1>1, <3>1, <3>2, <3>3
  <2>2. Accounts(row, ref) /\ InBudget(ref)
    BY DEF LedgerInv, Accounted, Tries
  <2>3. Within(row, ref)
    BY <2>1, <2>2 DEF Accounts
  <2> QED BY <1>2, <2>1, <2>2, <2>3, BudgetAssumption DEF Within, InBudget
<1>3. ASSUME NEW other \in Others
      PROVE  OperationsProjection(<<row, other>>, approvals).field_dispatched
               <= Kpis(<<TelemetryRecord(row), TelemetryRecord(other)>>).dispatched
  <2> DEFINE p == OperationsProjection(<<row, other>>, approvals)
             q == TelemetryRecord(other)
             kpis == Kpis(<<r, q>>)
             one == Rolled(row)
             two == Rolled(other)
  <2>1. /\ other \in Incidents /\ other.field \in Nat /\ other.mr \in Nat
        /\ row.status \in Statuses /\ other.status \in Statuses
        /\ other.field = 0 => RecordsOf(other, "work order") = {}
    BY <1>1, <1>3, OthersAssumption DEF Incidents
  <2>2. row.field = 0 => RecordsOf(row, "work order") = {}
    BY <1>1, RecordsCounted, Zenon
  <2>3. (Dispatched(row) => one) /\ (Dispatched(other) => two)
    <3>1. Dispatched(row) => row.field > 0
      BY <1>1, <2>2, OnlyVisitsDispatch
    <3>2. Dispatched(other) => other.field > 0
      BY <2>1, OnlyVisitsDispatch
    <3>3. row.field \in Nat /\ row.mr \in Nat /\ other.field \in Nat /\ other.mr \in Nat
      BY <1>1, <2>1
    <3>4. \A m, n \in Nat : m > 0 => m + n > 0
      OBVIOUS
    <3> QED BY <3>1, <3>2, <3>3, <3>4, Zenon
  <2>4. kpis.dispatched = (IF one THEN 1 ELSE 0) + (IF two THEN 1 ELSE 0)
    <3>1. r.truck_rolls = row.field + row.mr /\ q.truck_rolls = other.field + other.mr
      BY DEF TelemetryRecord
    <3> DEFINE both == <<r, q>>
    <3>2. Len(both) = 2 /\ both[1] = r /\ both[2] = q /\ 1..2 = {1, 2}
      BY TwoRows
    <3> HIDE DEF both, r, q
    <3>3. kpis.dispatched = Cardinality({i \in 1..2 : both[i].truck_rolls > 0})
      BY <3>2, Zenon DEF Kpis, HowMany, both
    <3> DEFINE S == {i \in 1..2 : both[i].truck_rolls > 0}
    <3>4. S \in SUBSET {1, 2} /\ (1 \in S <=> one) /\ (2 \in S <=> two)
      BY <3>1, <3>2
    <3> HIDE DEF S
    <3>5. Cardinality(S) = (IF 1 \in S THEN 1 ELSE 0) + (IF 2 \in S THEN 1 ELSE 0)
      BY <3>4, RowsUpToTwo
    <3> HIDE DEF kpis, one, two
    <3> QED BY <3>3, <3>4, <3>5 DEF S
  <2>5. p.field_dispatched \in
          {IF Dispatched(row) \/ Dispatched(other) THEN 1 ELSE 0,
           (IF Dispatched(row) THEN 1 ELSE 0) + (IF Dispatched(other) THEN 1 ELSE 0)}
    <3>1. CountedByRoot(row, other, p)
      BY <2>1, RootsCounted
    <3> HIDE DEF p
    <3> QED BY <3>1, Zenon DEF CountedByRoot
  <2>6. one \in BOOLEAN /\ two \in BOOLEAN
    OBVIOUS
  <2> HIDE DEF p, kpis, one, two, q
  <2>7. p.field_dispatched <= kpis.dispatched
    BY <2>3, <2>4, <2>5, <2>6
  <2> QED BY <2>7 DEF p, kpis, q
<1> QED BY <1>2, <1>3, Zenon DEF RemoteMeansRemote

LEMMA PendingIsTold == ASSUME AwaitedInv PROVE PendingApprovalsHaveACase
BY DEF AwaitedInv, AsksFor, StatusOf, PendingApprovalsHaveACase

LEMMA WaitingIsTold ==
  ASSUME IInv, CaseInv, AwaitedInv, Told(row) PROVE WaitingIsReported
<1> DEFINE P == {ref \in DOMAIN approvals : approvals[ref] = "pending"}
           p == OperationsProjection(<<row>>, approvals)
           board == Dashboard(<<row>>, approvals)
           r == TelemetryRecord(row)
           funnel == AutonomyFunnel(<<r>>)
           rows == <<row>>
           records == <<r>>
           asked == IF row.stage = "waiting_approval" THEN row.pending ELSE Asked(row)
<1>1. row \in Incidents /\ Tallied(row) /\ Fits(row) /\ row.history \in Seq(Refs)
  BY DEF IInv, TypeOK, Told, Incidents
<1>2. p.pending_approvals = Cardinality(P)
  BY Zenon DEF OperationsProjection
<1>3. \A ref \in P : AsksFor(row, ref)
  BY DEF AwaitedInv, StatusOf
<1>4. P = {} \/ P = {asked}
  <2>1. P \subseteq {asked}
    BY <1>3 DEF AsksFor
  <2> HIDE DEF asked
  <2> QED BY <2>1
<1> HIDE DEF P, p
<1>5. Cardinality(P) <= 1 /\ (P = {} => Cardinality(P) = 0)
  <2> HIDE DEF asked
  <2> QED BY <1>4, FS_EmptySet, FS_Singleton
<1>6. /\ board.pending_approvals = Cardinality(P)
      /\ board.waiting = IF row.status = "waiting" THEN 1 ELSE 0
      /\ board.closed = IF row.status = "closed" THEN 1 ELSE 0
      /\ board.escalated = IF row.status = "escalated" THEN 1 ELSE 0
  <2>1. Len(rows) = 1 /\ \A i \in 1..1 : rows[i] = row
    OBVIOUS
  <2> HIDE DEF rows
  <2> DEFINE Of(status) == Cardinality({i \in 1..Len(rows) : rows[i].status = status})
  <2>2. ASSUME NEW status PROVE Of(status) = IF row.status = status THEN 1 ELSE 0
    <3> DEFINE is == row.status = status
    <3>1. {i \in 1..Len(rows) : rows[i].status = status} = {i \in {1} : is}
      BY <2>1
    <3>2. is \in BOOLEAN
      OBVIOUS
    <3> HIDE DEF is
    <3>3. Of(status) = IF is THEN 1 ELSE 0
      BY <3>1, <3>2, OneOrNone
    <3> QED BY <3>3 DEF is
  <2>3. /\ board.pending_approvals = p.pending_approvals
        /\ board.waiting = Of("waiting")
        /\ board.closed = Of("closed")
        /\ board.escalated = Of("escalated")
    BY Zenon DEF Dashboard, HowMany, rows, p
  <2> HIDE DEF board, rows, Of
  <2> QED BY <1>2, <2>2, <2>3
<1>7. /\ "Act" \in r.human_gates => funnel["Act"].human = 1
      /\ "Validate" \in r.autonomous => funnel["Validate"].autonomous = 1
  <2> HIDE DEF r
  <2>1. Len(records) = 1 /\ \A i \in 1..1 : records[i] = r
    OBVIOUS
  <2>2. "Act" \in r.human_gates => {i \in 1..Len(records) : "Act" \in records[i].human_gates} = {1}
    <3> HIDE DEF records
    <3> QED BY <2>1
  <2>3. "Validate" \in r.autonomous
          => {i \in 1..Len(records) : "Validate" \in records[i].autonomous} = {1}
    <3> HIDE DEF records
    <3> QED BY <2>1
  <2>4. /\ funnel["Act"].human
             = Cardinality({i \in 1..Len(records) : "Act" \in records[i].human_gates})
        /\ funnel["Validate"].autonomous
             = Cardinality({i \in 1..Len(records) : "Validate" \in records[i].autonomous})
    <3> HIDE DEF records
    <3> QED BY Zenon DEF AutonomyFunnel, HowMany, records
  <2> HIDE DEF records, funnel
  <2> QED BY <2>2, <2>3, <2>4, FS_Singleton
<1>8. row.status = "waiting" => "Act" \in r.human_gates
  <2> SUFFICES ASSUME row.status = "waiting" PROVE "Act" \in r.human_gates
    OBVIOUS
  <2>1. row.stage = "waiting_approval"
    BY <1>1 DEF Fits
  <2>2. row.pending # NoRef
    BY <2>1 DEF IInv, Sound, Waits, NoRef
  <2> QED BY <2>2 DEF TelemetryRecord, HumanGates
<1>9. row.status = "closed" => "Validate" \in r.autonomous
  <2> SUFFICES ASSUME row.status = "closed" PROVE "Validate" \in r.autonomous
    OBVIOUS
  <2>1. row.stage = "closed"
    BY <1>1 DEF Fits
  <2>2. row.verified /\ row.history # << >>
    BY <2>1 DEF CaseInv, Good, Confirmed
  <2>3. Judged(row)
    BY <1>1, <2>1, <2>2 DEF Judged
  <2>4. "Validate" \notin HumanGates(row)
    BY <2>2 DEF HumanGates
  <2>5. "Validate" \in AutonomousStages(row)
    BY <2>3, <2>4 DEF AutonomousStages
  <2> QED BY <2>5 DEF TelemetryRecord
<1>10. row.status \in {"closed", "escalated"} => P = {}
  BY <1>1, <1>3 DEF Fits, AsksFor
<1> HIDE DEF board, funnel, r, rows, records, asked
<1>11. /\ board.pending_approvals <= 1
       /\ board.waiting = 1 => funnel["Act"].human = 1
       /\ board.closed + board.escalated = 1 => board.pending_approvals = 0
       /\ board.closed = 1 => funnel["Validate"].autonomous = 1
  BY <1>5, <1>6, <1>7, <1>8, <1>9, <1>10
<1> QED BY <1>11, Zenon DEF WaitingIsReported, board, funnel, r

\* While requests do not overlap, what operations projection, dashboard and
\* telemetry say of an incident is what happened to it
\* (measurement.build_operations_projection, telemetry.project).
THEOREM ReportsAreTrue ==
  ASSUME OneAtATime PROVE Spec => []ReportsMatchTheCase
<1>1. IInv /\ CaseInv /\ LedgerInv /\ AwaitedInv /\ ToldInv => ReportsMatchTheCase
  BY WorkIsTold, RemoteIsTold, RootsAreTold, WaitingIsTold, PendingIsTold
     DEF ReportsMatchTheCase, ToldInv, Copies
<1> QED BY <1>1, Inductive, CaseInductive, LedgerInductive, AwaitedInductive, ToldInductive,
           PTL
=============================================================================
