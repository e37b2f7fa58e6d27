--------------------------- MODULE IncidentReports ---------------------------
(***************************************************************************)
(* What the dashboards say of the incident workflow: the live operations   *)
(* projection (measurement.py), the dashboard row of an incident and the   *)
(* panels over such rows (telemetry.py), and the summary of the repository *)
(* (persistence/repository.py, workflow/service.py).  All of them are      *)
(* computed from the persisted incidents, in the order of the list rows,   *)
(* and their approvals.  Costs, places and percentages are left out.       *)
(***************************************************************************)
EXTENDS IncidentWorkflow, FiniteSets

\* The sum of the first n numbers.
Total(numbers, n) ==
  LET upTo[k \in 0..n] == IF k = 0 THEN 0 ELSE upTo[k - 1] + numbers[k]
  IN upTo[n]

HowMany(rows, Is(_)) == Cardinality({i \in 1..Len(rows) : Is(rows[i])})

\* Other incidents that may be on the reports beside the one of this workflow.
CONSTANT Others

-----------------------------------------------------------------------------
(* The records that the tools hand out and the incident collects *)

\* A work order is named by its kind of visit and attempt; an MR by the
\* delimiter alone, so that later attempts there revise it.
RecordOf(ref) ==
  CASE ref.action \in FieldActions ->
         [kind |-> "work order", id |-> <<ref.action, ref.attempt>>]
    [] ref.action = "dirty_boots_mr" -> [kind |-> "MR", id |-> <<ref.delimiter>>]
    [] OTHER -> [kind |-> "action", id |-> <<ref.action, ref.attempt>>]

\* _nested_ids
RecordsOf(s, kind) ==
  {r \in {RecordOf(s.history[k]) : k \in 1..Len(s.history)} : r.kind = kind}

\* None of the others waits, so that the approvals are all of this case, and
\* each has work orders only for its visits.
ASSUME OthersAssumption ==
  \A other \in Others :
    /\ other \in Incidents
    /\ other.status # "waiting"
    /\ other.field = 0 => RecordsOf(other, "work order") = {}

-----------------------------------------------------------------------------
(* measurement.py: build_operations_projection *)

StatusPartitionKeys == {"open", "waiting", "closed", "escalated", "quarantined"}

\* _root_id: the rows of each durable root.  Cases attached to one parent share
\* a root; any other case is a root of its own, as no parent has an id of a case.
Roots(rows) ==
  LET Under(n) ==
        {m \in 1..Len(rows) :
           \/ m = n
           \/ rows[m].parent # "none" /\ rows[m].parent = rows[n].parent}
  IN {Under(n) : n \in 1..Len(rows)}

\* Mutant: a root is closed as soon as one of its cases is.
RootStatusOfAnyClosed(states) ==
  IF "closed" \in states THEN "closed"
  ELSE IF "quarantined" \in states THEN "quarantined"
  ELSE IF "escalated" \in states THEN "escalated"
  ELSE IF "waiting" \in states THEN "waiting"
  ELSE "open"

\* _root_status: the states of the cases of one root collapse into one.
RootStatus(states) ==
  IF "quarantined" \in states THEN "quarantined"
  ELSE IF "escalated" \in states THEN "escalated"
  ELSE IF "waiting" \in states THEN "waiting"
  ELSE IF states = {"closed"} THEN "closed"
  ELSE "open"

Dispatched(s) == s.field > 0 \/ RecordsOf(s, "work order") # {}

\* The records of different incidents never share an identifier, so that the
\* distinct ones add up.
OperationsProjection(rows, statuses) ==
  LET n == Len(rows)
      Status(root) == RootStatus({rows[m].status : m \in root})
      Records(kind) ==
        Total([m \in 1..n |-> Cardinality(RecordsOf(rows[m], kind))], n)
  IN [partition |-> [k \in StatusPartitionKeys |->
                       Cardinality({root \in Roots(rows) : Status(root) = k})],
      root_incidents |-> Cardinality(Roots(rows)),
      case_attempts |-> n,
      pending_approvals |-> Cardinality({a \in DOMAIN statuses : statuses[a] = "pending"}),
      remote_attempts |-> Total([m \in 1..n |-> rows[m].remote], n),
      field_visits |-> Total([m \in 1..n |-> rows[m].field], n),
      mr_attempts |-> Total([m \in 1..n |-> rows[m].mr], n),
      returned_to_rca |-> HowMany(rows, LAMBDA s : s.cycles > 1),
      work_orders |-> Records("work order"),
      maintenance_requests |-> Records("MR"),
      field_dispatched |->
        Cardinality({root \in Roots(rows) : \E m \in root : Dispatched(rows[m])})]

\* reconciliation.checks
OperationsReconcile(p) ==
  /\ p.partition["open"] + p.partition["waiting"] + p.partition["closed"]
       + p.partition["escalated"] + p.partition["quarantined"] = p.root_incidents
  /\ p.case_attempts >= p.root_incidents

\* repository.summary and service.dashboard; quarantined cases are in the total only.
Dashboard(rows, statuses) ==
  LET Are(status) == HowMany(rows, LAMBDA s : s.status = status)
  IN [total |-> Len(rows), open |-> Are("open"), waiting |-> Are("waiting"),
      closed |-> Are("closed"), escalated |-> Are("escalated"),
      pending_approvals |-> OperationsProjection(rows, statuses).pending_approvals,
      by_stage |-> [stage \in Stages |-> HowMany(rows, LAMBDA s : s.stage = stage)]]

-----------------------------------------------------------------------------
(* telemetry.py: project, and the panels of Aggregator *)

\* verification_passed is not None.
Judged(s) == Len(s.history) > IF s.stage = "verify" THEN 1 ELSE 0

\* approved_rca is not None, once the gate is open.
Diagnosed(s) == s.opinion # "none" /\ ~(s.stage = "fusion" /\ s.selected = "none")

HumanGates(s) ==
  {f \in {"Diagnose", "Act", "Validate"} :
     \/ f = "Diagnose" /\ s.gate # "none"
     \/ f = "Act" /\ (s.result # NoRuling \/ s.pending # NoRef)
     \/ f = "Validate" /\ Judged(s) /\ ~s.verified}

AutonomousStages(s) ==
  {f \in {"Correlate", "Diagnose", "Act", "Validate"} \ HumanGates(s) :
     \/ f = "Correlate" /\ s.parent # "none"
     \/ f = "Diagnose" /\ Diagnosed(s)
     \/ f = "Act" /\ s.history # << >>
     \/ f = "Validate" /\ Judged(s)}

TelemetryRecord(s) ==
  [lane |-> s.selected,
   remote_attempts |-> s.remote,
   truck_rolls |-> s.field + s.mr,
   human_gates |-> HumanGates(s),
   autonomous |-> AutonomousStages(s),
   verified |-> Judged(s) /\ s.verified,
   closed |-> s.stage = "closed",
   escalated |-> s.stage = "escalated"]

ResolvedRemotely(r) == r.closed /\ r.truck_rolls = 0

Kpis(records) ==
  [incidents |-> Len(records),
   resolved_remotely |-> HowMany(records, ResolvedRemotely),
   dispatched |-> HowMany(records, LAMBDA r : r.truck_rolls > 0),
   escalated |-> HowMany(records, LAMBDA r : r.escalated)]

\* A stage nobody was seen in has no percentage.
AutonomyFunnel(records) ==
  [f \in {"Detect", "Correlate", "Diagnose", "Act", "Validate", "Learn"} |->
     [human |-> HowMany(records, LAMBDA r : f \in r.human_gates),
      autonomous |-> HowMany(records, LAMBDA r : f \in r.autonomous)]]

PlaybookSuccess(records) ==
  [lane \in {records[i].lane : i \in 1..Len(records)} \ {"none"} |->
     [attempts |-> HowMany(records, LAMBDA r : r.lane = lane),
      succeeded |-> HowMany(records, LAMBDA r : r.lane = lane /\ r.verified)]]
=============================================================================
