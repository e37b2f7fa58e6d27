----------------------------- MODULE QualityGate -----------------------------
(***************************************************************************)
(* The fail-closed quality gate of a digital-twin run (orchestrator.py,    *)
(* quality_check): each numbered group of checks is an operator on the     *)
(* datasets d, and the gate is their conjunction.  Groups 3, 17, 19 and 20 *)
(* compare fields the case graph does not keep apart (policy tables,       *)
(* predictive pulls, copied review fields) and are left out.               *)
(***************************************************************************)
EXTENDS CaseGraph

Ordered(times) == \A i \in 1..(Len(times) - 1) : times[i] <= times[i + 1]
Members(seq) == {seq[i] : i \in DOMAIN seq}
Restoration(d, c) == d.resolution_events[c] # << >>
Executed(d, c) == d.action_events[c].status = "SIMULATED_EXECUTED"
Unworked(d, c) ==
  /\ d.work_orders[c] = << >>
  /\ d.mrs[c] = << >>
  /\ d.validation_events[c] = << >>
  /\ d.resolution_events[c] = << >>

\* 1: identifiers derived from one case occur once.
RowsAreUnique(d) ==
  \A c \in Cases(d) :
    /\ \A name \in {"work_orders", "mrs", "telemetry_tr181", "validation_events",
                    "resolution_events"} : Len(d[name][c]) <= 1
    /\ \A i, j \in DOMAIN d.field_evidence[c] :
         d.field_evidence[c][i].kind = d.field_evidence[c][j].kind => i = j

\* 2: every case hangs on one root incident; repeats open none of their own.
GraphIsRooted(d) ==
  /\ \A r \in Roots(d) : r \in Cases(d) /\ Manifest(d, r).root = r
  /\ \A c \in Cases(d) :
       /\ Manifest(d, c).root \in Roots(d)
       /\ Manifest(d, c).seq = 0 => Manifest(d, c).root = c
       /\ Manifest(d, c).seq > 0 => c \notin Roots(d)

\* 4: a decision cites evidence of its own case.
EvidenceIsCited(d) == \A c \in Cases(d) : d.agent_decisions[c].evidence

\* 5: the stored need for a human is the one the policy gives.
PolicyRecomputed(d) ==
  \A c \in Cases(d) :
    d.reconciliation_records[c] =
      NeedsHuman(d.agent_decisions[c], ScenarioOf(d, c), Manifest(d, c).seq > 0)

\* 6: work is assigned after diagnosis and readiness; evidence is captured at work.
WorkIsReady(d) ==
  \A c \in Cases(d) : 
    /\ \A w \in Members(d.work_orders[c]) :
         Ordered(<<w.diagnosis, w.readiness, w.assigned, w.dispatched, w.arrived, w.completed>>)
    /\ \A e \in Members(d.field_evidence[c]) :
         \E w \in Members(d.work_orders[c]) : w.arrived <= e.at /\ e.at <= w.completed

\* 7: a failed diagnostic precedes the replacement of a CPE.
SwapIsDiagnosed(d) ==
  \A c \in Cases(d) : \A w \in Members(d.work_orders[c]) :
    w.kind = "CPE_SWAP" =>
      /\ w.replacement # NoTime
      /\ \E e \in Members(d.field_evidence[c]) :
           e.kind = "cpe_diagnostic_failed" /\ e.at < w.replacement

\* 8: a maintenance request rests on evidence and brackets its work.
MaintenanceIsOrdered(d) ==
  \A c \in Cases(d) : \A m \in Members(d.mrs[c]) :
    \E w \in Members(d.work_orders[c]) :
      /\ Ordered(<<m.created, m.accepted, w.dispatched, w.completed, m.completed>>)
      /\ Manifest(d, c).at + Minutes(2) <= m.created
      /\ \E e \in Members(d.field_evidence[c]) : e.at <= m.completed

\* 9: validation follows healthy telemetry, its evidence and the work.
ValidationIsProven(d) ==
  \A c \in Cases(d) : \A v \in Members(d.validation_events[c]) :
    /\ \E t \in Members(d.telemetry_tr181[c]) : t <= v
    /\ \A e \in Members(d.field_evidence[c]) : e.at <= v
    /\ \A w \in Members(d.work_orders[c]) : w.completed <= v

\* 10: resolution follows the validation of the same case.
ResolutionIsValidated(d) ==
  \A c \in Cases(d) : \A t \in Members(d.resolution_events[c]) :
    \E v \in Members(d.validation_events[c]) : v <= t

\* 11: an incident is in the state its latest attempt left it in.
IncidentsMatchAttempts(d) ==
  \A r \in Roots(d) :
    LET i == d.incidents[r]
        last == Latest(Attempts(d, r))
    IN /\ i.repeats = Cardinality({c \in Attempts(d, r) : Manifest(d, c).seq > 0})
       /\ i.status = "CLOSED" =>
            /\ Ordered(<<i.opened, i.resolved, i.closed>>)
            /\ \E t \in Members(d.resolution_events[last]) : t <= i.closed
       /\ i.status = "OPEN" =>
            /\ i.resolved = NoTime /\ i.closed = NoTime
            /\ ~(Executed(d, last) /\ Restoration(d, last)
                 /\ BestAction(ScenarioOf(d, last)) # "collect_evidence")

\* 12: what a human decided and what was done agree; blocked cases leave no work.
ControlsHold(d) ==
  \A c \in Cases(d) :
    LET human == d.human_decisions[c]
        action == d.action_events[c]
        needed == d.reconciliation_records[c]
    IN CASE action.status = "BLOCKED_PENDING_HUMAN" ->
              /\ human.status = "PENDING" /\ human.required /\ needed
              /\ Unworked(d, c)
         [] action.status = "SIMULATED_EXECUTED" ->
              IF needed
              THEN /\ human.status = "APPROVED" /\ human.response = "approve" /\ human.required
                   /\ human.decided # NoTime /\ human.decided <= action.at
              ELSE human.status = "NOT_REQUIRED" /\ ~human.required
         [] action.status = "BLOCKED_NEEDS_EVIDENCE" ->
              /\ human.status = "EVIDENCE_REQUESTED" /\ human.response = "request_evidence"
              /\ Unworked(d, c)
         [] action.status = "BLOCKED_ESCALATED" ->
              /\ human.status \in {"ESCALATED", "REJECTED"}
              /\ human.response \in {"escalate", "reject"}
              /\ Unworked(d, c)
         [] OTHER -> FALSE

\* 13: the selected action decides which records follow it, and they follow it.
BranchIsFollowed(d) ==
  \A c \in {e \in Cases(d) : Executed(d, e)} :
    LET action == BestAction(ScenarioOf(d, c))
        works == Len(d.work_orders[c])
        requests == Len(d.mrs[c])
        at == d.action_events[c].at
    IN /\ action \in {"remote_repair", "collect_evidence"} => works = 0 /\ requests = 0
       /\ action \in {"dispatch_clean", "cpe_swap"} => works = 1 /\ requests = 0
       /\ action \in {"create_mr", "plant_repair"} => works = 1 /\ requests = 1
       /\ \A w \in Members(d.work_orders[c]) : at <= w.dispatched
       /\ \A m \in Members(d.mrs[c]) : at <= m.created

\* 14: restoring actions are validated and resolved, evidence collection is not.
RestorationIsVerified(d) ==
  \A c \in {e \in Cases(d) : Executed(d, e)} :
    IF BestAction(ScenarioOf(d, c)) = "collect_evidence"
    THEN d.resolution_events[c] = << >> /\ d.validation_events[c] = << >>
    ELSE d.resolution_events[c] # << >> /\ d.validation_events[c] # << >>

\* 15: a repeat follows an attempt of its root inside the window, under a senior.
RepeatsAreGoverned(d) ==
  \A c \in Cases(d) :
    LET m == Manifest(d, c)
        parent == Manifest(d, m.parent)
    IN IF m.seq = 0 THEN m.parent = 0
       ELSE /\ m.parent \in Cases(d) /\ m.root \in Cases(d)
            /\ parent.root = m.root
            /\ parent.at < m.at /\ m.at <= parent.at + RepeatWindow
            /\ d.human_decisions[c].required /\ d.human_decisions[c].senior

\* 16: a closed incident has a resolution in its history.
ClosuresAreLinked(d) ==
  \A r \in Roots(d) :
    d.incidents[r].status = "CLOSED" => \E c \in Attempts(d, r) : Restoration(d, c)

\* 18: a care ticket has the state of its root incident.
CareFollowsIncidents(d) ==
  \A c \in Cases(d) :
    d.care_tickets[c].status = CareStatus(d.incidents[Manifest(d, c).root])

Gate(d) ==
  /\ RowsAreUnique(d) /\ GraphIsRooted(d) /\ EvidenceIsCited(d) /\ PolicyRecomputed(d)
  /\ WorkIsReady(d) /\ SwapIsDiagnosed(d) /\ MaintenanceIsOrdered(d)
  /\ ValidationIsProven(d) /\ ResolutionIsValidated(d) /\ IncidentsMatchAttempts(d)
  /\ ControlsHold(d) /\ BranchIsFollowed(d) /\ RestorationIsVerified(d)
  /\ RepeatsAreGoverned(d) /\ ClosuresAreLinked(d) /\ CareFollowsIncidents(d)
=============================================================================
