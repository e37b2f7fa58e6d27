------------------------------ MODULE CaseGraph ------------------------------
(***************************************************************************)
(* The canonical case graph of a digital-twin run                          *)
(* (digital_twin/orchestrator.py): how one case attempt is added, what an  *)
(* authorised action leaves behind, and the fail-closed quality gate.      *)
(*                                                                         *)
(* The datasets of a run are one record d whose fields carry the dataset   *)
(* names.  A case is its position in the run; its rows are d.name[c], a    *)
(* sequence where a case may have no row.  Identifiers that are derived    *)
(* from the case (WO-, MR-, VAL-, RES-...) are therefore unique when the   *)
(* sequence has at most one member.  An incident is named by its root      *)
(* case; a case shares the service, technology and delimiter of its root,  *)
(* so the checks that compare those are left out.  Times are in half       *)
(* minutes from noon of the run date.                                      *)
(***************************************************************************)
EXTENDS Integers, Sequences, FiniteSets

CONSTANT RepeatEvery        \* every n-th occurrence of a scenario is a repeat

ASSUME RepeatEveryAssumption == RepeatEvery \in Nat /\ RepeatEvery > 2

Minutes(n) == 2 * n
RepeatWindow == Minutes(30 * 24 * 60)
NoTime == -10000000

-----------------------------------------------------------------------------
(* Policy: digital_twin/decision.py *)

Policy ==
  [slow_wifi |-> "remote_repair", iptv_degradation |-> "remote_repair",
   provisioning_error |-> "remote_repair", no_service |-> "dispatch_clean",
   intermittent_service |-> "dispatch_clean", fiber_cut |-> "create_mr",
   hfc_ingress |-> "create_mr", storm |-> "create_mr", flooding |-> "create_mr",
   hurricane |-> "create_mr", congestion |-> "collect_evidence",
   power_outage |-> "collect_evidence", cpe_failure |-> "cpe_swap"]

Scenarios == DOMAIN Policy
BestAction(s) == Policy[s]
Restores(s) == s \notin {"congestion", "power_outage"}
SideEffects == {"remote_repair", "dispatch_clean", "create_mr", "plant_repair",
                "cpe_swap"}

\* What a model's answer amounts to: an independent model; agreement on domain
\* and action; citations of evidence of this case only; safe and confident.
Agents == [independent : BOOLEAN, domain : BOOLEAN, action : BOOLEAN,
           evidence : BOOLEAN, safe : BOOLEAN]

NeedsHumanOnce(agent, s, repeat) ==     \* mutant: a repeat is like any other case
  \/ ~(agent.independent /\ agent.domain /\ agent.action /\ agent.evidence)
  \/ BestAction(s) \in SideEffects
  \/ ~agent.safe

NeedsHuman(agent, s, repeat) ==
  \/ ~(agent.independent /\ agent.domain /\ agent.action)
  \/ ~agent.evidence
  \/ BestAction(s) \in SideEffects
  \/ ~agent.safe
  \/ repeat

-----------------------------------------------------------------------------
(* Datasets *)

EmptyRun ==
  [scenario_manifests |-> << >>, agent_decisions |-> << >>,
   reconciliation_records |-> << >>, human_decisions |-> << >>,
   action_events |-> << >>, work_orders |-> << >>, field_evidence |-> << >>,
   mrs |-> << >>, telemetry_tr181 |-> << >>, validation_events |-> << >>,
   resolution_events |-> << >>, incidents |-> << >>, care_tickets |-> << >>,
   care_ticket_reviews |-> << >>]

Cases(d) == DOMAIN d.scenario_manifests
Roots(d) == DOMAIN d.incidents
Manifest(d, c) == d.scenario_manifests[c]
ScenarioOf(d, c) == Manifest(d, c).scenario
Attempts(d, r) == {c \in Cases(d) : Manifest(d, c).root = r}
Latest(S) == CHOOSE c \in S : \A e \in S : e <= c
Occurrences(d, s) == {c \in Cases(d) : ScenarioOf(d, c) = s}

NewIncident(t) ==
  [status |-> "OPEN", opened |-> t, resolved |-> NoTime, closed |-> NoTime,
   repeats |-> 0, reopens |-> 0]

NotReopened(i) == i         \* mutant: the incident keeps its old closure

\* A repeat (or a live approval) on a closed incident opens it again.
Reopened(i) ==
  IF i.status = "CLOSED"
  THEN [i EXCEPT !.status = "OPEN", !.resolved = NoTime, !.closed = NoTime,
                 !.reopens = @ + 1]
  ELSE i

-----------------------------------------------------------------------------
(* _materialize_effect: the rows that follow an authorised action *)

WorkOrder(kind, diagnosis, action, dispatched, arrived, completed, swap) ==
  LET ready == IF diagnosis + Minutes(1) > action + 1
               THEN diagnosis + Minutes(1) ELSE action + 1
  IN [kind |-> kind, diagnosis |-> diagnosis, readiness |-> ready,
      assigned |-> ready + 1, dispatched |-> dispatched, arrived |-> arrived,
      completed |-> completed, replacement |-> swap]

NothingDone ==
  [work |-> << >>, evidence |-> << >>, mr |-> << >>, post |-> NoTime]

\* at is the action's time; post the time of the healthy telemetry.
Downstream(action, at, diagnosis) ==
  LET t(n) == at + Minutes(n)
  IN CASE action = "remote_repair" -> [NothingDone EXCEPT !.post = t(10)]
       [] action = "dispatch_clean" ->
            [NothingDone EXCEPT
               !.work = <<WorkOrder("CLEAN_BOOTS", diagnosis, at, t(5), t(40), t(90), NoTime)>>,
               !.evidence = <<[kind |-> "last_good_first_bad", at |-> t(85)]>>,
               !.post = t(95)]
       [] action = "cpe_swap" ->
            [NothingDone EXCEPT
               !.work = <<WorkOrder("CPE_SWAP", diagnosis, at, t(5), t(40), t(90), t(60))>>,
               !.evidence = <<[kind |-> "cpe_diagnostic_failed", at |-> t(55)],
                              [kind |-> "cpe_replacement_completed", at |-> t(85)]>>,
               !.post = t(95)]
       [] action \in {"create_mr", "plant_repair"} ->
            [NothingDone EXCEPT
               !.work = <<WorkOrder("PLANT_REPAIR", diagnosis, at, t(10), t(50), t(110), NoTime)>>,
               !.evidence = <<[kind |-> "plant_repair_completion", at |-> t(105)]>>,
               !.mr = <<[created |-> t(2), accepted |-> t(5), completed |-> t(112)]>>,
               !.post = t(115)]
       [] OTHER -> NothingDone

\* The incident closes with the validation of the restored service.
Restored(i, post) ==
  [i EXCEPT !.status = "CLOSED", !.resolved = post + Minutes(10),
            !.closed = post + Minutes(15)]

Materialize(d, c, at, diagnosis) ==
  LET s == ScenarioOf(d, c)
      root == Manifest(d, c).root
      e == Downstream(BestAction(s), at, diagnosis)
      done == [d EXCEPT !.work_orders[c] = @ \o e.work,
                        !.field_evidence[c] = @ \o e.evidence,
                        !.mrs[c] = @ \o e.mr]
  IN IF ~Restores(s) \/ e.post = NoTime THEN done
     ELSE [done EXCEPT
             !.telemetry_tr181[c] = Append(@, e.post),
             !.validation_events[c] = Append(@, e.post + Minutes(10)),
             !.resolution_events[c] = Append(@, e.post + Minutes(10)),
             !.incidents[root] = Restored(@, e.post)]

-----------------------------------------------------------------------------
(* _generate_into: one turn of its loop *)

Pending == [status |-> "PENDING", required |-> TRUE, response |-> "none",
            senior |-> FALSE, decided |-> NoTime]
NotRequired == [Pending EXCEPT !.status = "NOT_REQUIRED", !.required = FALSE]
HistoricalApproval(t, repeat) ==
  [status |-> "APPROVED", required |-> TRUE, response |-> "approve",
   senior |-> repeat, decided |-> t]

\* The second occurrence is the root of every later repeat of its scenario.
IsRepeat(n) == n > 2 /\ n % RepeatEvery = 0
FirstIsRoot(d, s) ==        \* mutant: repeats hang on the first occurrence
  CHOOSE c \in Occurrences(d, s) : \A e \in Occurrences(d, s) : c <= e

RepeatRoot(d, s) ==
  CHOOSE c \in Occurrences(d, s) :
    Cardinality({e \in Occurrences(d, s) : e < c}) = 1

\* The attempt's manifest and incident, before any decision.
Opened(d, s) ==
  LET c == Len(d.scenario_manifests) + 1
      t0 == Minutes(2 * (c - 1))
      repeat == IsRepeat(Cardinality(Occurrences(d, s)) + 1)
      root == IF repeat THEN RepeatRoot(d, s) ELSE c
      seq == IF repeat THEN d.incidents[root].repeats + 1 ELSE 0
      parent == IF repeat THEN Latest(Attempts(d, root)) ELSE 0
      incidents ==
        IF repeat THEN [d.incidents EXCEPT ![root] = [Reopened(@) EXCEPT !.repeats = seq]]
        ELSE [r \in Roots(d) \union {c} |->
                IF r = c THEN NewIncident(t0 + Minutes(5)) ELSE d.incidents[r]]
  IN [d EXCEPT
        !.scenario_manifests = Append(@, [scenario |-> s, root |-> root,
                                          parent |-> parent, seq |-> seq, at |-> t0]),
        !.incidents = incidents,
        !.work_orders = Append(@, << >>), !.field_evidence = Append(@, << >>),
        !.mrs = Append(@, << >>), !.telemetry_tr181 = Append(@, << >>),
        !.validation_events = Append(@, << >>),
        !.resolution_events = Append(@, << >>)]

\* First occurrences that need a human stay pending for a live decision; the
\* others get a synthetic approval, or run under policy.
NoDelay(human) == Minutes(10)       \* mutant: the action does not wait for it

HistoricalDelay(human) == IF human THEN Minutes(12) ELSE Minutes(11)

AddCase(d, s, agent) ==
  LET o == Opened(d, s)
      c == Len(o.scenario_manifests)
      repeat == Manifest(o, c).seq > 0
      human == NeedsHuman(agent, s, repeat)
      live == Cardinality(Occurrences(o, s)) = 1 /\ human
      t0 == Manifest(o, c).at
      at == t0 + HistoricalDelay(human)
      ruled ==
        [o EXCEPT
           !.agent_decisions = Append(@, agent),
           !.reconciliation_records = Append(@, human),
           !.human_decisions =
             Append(@, IF live THEN Pending
                       ELSE IF human THEN HistoricalApproval(t0 + Minutes(11), repeat)
                       ELSE NotRequired),
           !.action_events =
             Append(@, IF live THEN [status |-> "BLOCKED_PENDING_HUMAN", at |-> t0 + Minutes(10)]
                       ELSE [status |-> "SIMULATED_EXECUTED", at |-> at])]
  IN IF live THEN ruled ELSE Materialize(ruled, c, at, t0 + Minutes(9))

-----------------------------------------------------------------------------
(* Customer Care: care.py *)

CareStatus(i) == IF i.status = "CLOSED" THEN "CLOSED" ELSE "OPEN"

\* predicted: the roots whose service has a predictive ticket, opened at the scan
\* an hour before the first case.
BuildCare(d, predicted) ==
  LET incidents ==
        [r \in Roots(d) |->
           IF r \in predicted THEN [d.incidents[r] EXCEPT !.opened = -Minutes(60)]
           ELSE d.incidents[r]]
      Ticket(c) == LET root == Manifest(d, c).root
                   IN [status |-> CareStatus(incidents[root]),
                       closed |-> incidents[root].closed, match |-> root \in predicted]
  IN [d EXCEPT
        !.incidents = incidents,
        !.care_tickets = [c \in Cases(d) |-> Ticket(c)],
        !.care_ticket_reviews = [c \in Cases(d) |-> incidents[Manifest(d, c).root].status]]

RefreshCare(d) ==
  LET Now(c) == LET i == d.incidents[Manifest(d, c).root]
                IN [d.care_tickets[c] EXCEPT
                      !.status = CareStatus(i),
                      !.closed = IF i.status = "CLOSED" THEN i.closed ELSE NoTime]
      changed == {c \in Cases(d) : d.care_tickets[c] # Now(c)}
  IN [d EXCEPT
        !.care_tickets = [c \in Cases(d) |-> Now(c)],
        !.care_ticket_reviews =
           [c \in Cases(d) |-> IF c \in changed THEN d.incidents[Manifest(d, c).root].status
                               ELSE @[c]]]

=============================================================================
