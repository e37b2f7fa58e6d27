------------------------- MODULE ExecutiveProjection -------------------------
(***************************************************************************)
(* The executive projection of a published run                             *)
(* (digital_twin/executive_projection.py): counts of roots and cases       *)
(* joined from the same files as the cost projection, but by other joins,  *)
(* and the properties that hold the two together.                          *)
(***************************************************************************)
EXTENDS DispatchProjection

\* Waiting roots are open roots with a pending case; no root is ever counted
\* as escalated or quarantined.
StatusPartition(d) ==
  LET closed == {r \in Roots(d) : d.incidents[r].status = "CLOSED"}
      pending == {c \in Cases(d) : d.human_decisions[c].status = "PENDING"}
      waiting == {Manifest(d, c).root : c \in pending} \ closed
  IN [open |-> Roots(d) \ (closed \union waiting), waiting |-> waiting, closed |-> closed]

\* The roots of the cases that have a work order.
DispatchedRoots(d) ==
  {Manifest(d, c).root : c \in {e \in Cases(d) : d.work_orders[e] # << >>}}

ExecutiveMetrics(d) ==
  LET partition == StatusPartition(d)
  IN [case_attempts |-> Cardinality(Cases(d)),
      root_incidents |-> Cardinality(Roots(d)),
      pending_approvals |->
        Cardinality({c \in Cases(d) : d.human_decisions[c].status = "PENDING"}),
      waiting_root_incidents |-> Cardinality(partition.waiting),
      closed_root_incidents |-> Cardinality(partition.closed),
      field_dispatched_root_incidents |-> Cardinality(DispatchedRoots(d)),
      work_orders |-> Total([c \in Cases(d) |-> Len(d.work_orders[c])]),
      maintenance_requests |-> Total([c \in Cases(d) |-> Len(d.mrs[c])]),
      care_contacts |-> Cardinality(DOMAIN d.care_tickets),
      canonical_root_attachments |->
        Cardinality({c \in DOMAIN d.care_tickets : Manifest(d, c).root \in Roots(d)})]

\* reconciliation.checks
ExecutiveReconciles(d) ==
  LET m == ExecutiveMetrics(d)
      partition == StatusPartition(d)
  IN /\ Cardinality(partition.open) + m.waiting_root_incidents + m.closed_root_incidents
          = m.root_incidents
     /\ m.case_attempts >= m.root_incidents
     /\ m.canonical_root_attachments <= m.care_contacts

\* One story per care ticket, joined with the rows of its case and of its root.
\* What the review copied is used only where the record itself says nothing.
Story(d, c) ==
  LET root == Manifest(d, c).root
  IN [root |-> root, care |-> d.care_tickets[c], saw_it_first |-> d.care_tickets[c].match,
      incident |-> d.incidents[root], incident_reviewed |-> d.care_ticket_reviews[c],
      required |-> d.reconciliation_records[c], human |-> d.human_decisions[c].status,
      action |-> d.action_events[c].status, validation |-> d.validation_events[c],
      resolution |-> d.resolution_events[c]]
Stories(d) == [c \in DOMAIN d.care_tickets |-> Story(d, c)]

\* care_funnel
CareFunnel(d) ==
  LET matched == {c \in DOMAIN d.care_tickets : d.care_tickets[c].match}
  IN [matched |-> matched, reactive |-> DOMAIN d.care_tickets \ matched]

\* The scorecard counts contacts and roots, the governance counts reviews.
Scorecard(d) ==
  LET m == ExecutiveMetrics(d)
  IN [care_contacts_pre_correlated |-> Cardinality(CareFunnel(d).matched),
      care_contacts_total |-> m.care_contacts,
      cases_closed |-> m.closed_root_incidents, cases_total |-> m.root_incidents,
      governed_decisions |-> Cardinality(DOMAIN d.care_ticket_reviews),
      human_review_required |->
        Cardinality({c \in DOMAIN d.care_ticket_reviews : d.reconciliation_records[c]}),
      pending_approvals |-> m.pending_approvals]

\* The queue of Customer Care (api.py): the tickets a filter leaves, counted.
NoFilter == "any"
Priority(s) ==
  CASE s \in {"no_service", "fiber_cut", "power_outage", "storm", "flooding", "hurricane"} -> "P1"
    [] s \in {"intermittent_service", "hfc_ingress", "cpe_failure", "provisioning_error"} -> "P2"
    [] OTHER -> "P3"

Wanted(d, filter) ==
  {c \in DOMAIN d.care_tickets :
     /\ filter.status \in {NoFilter, d.care_tickets[c].status}
     /\ filter.priority \in {NoFilter, Priority(ScenarioOf(d, c))}
     /\ filter.match \in {{TRUE, FALSE}, {d.care_tickets[c].match}}}
AnyTicket == [status |-> NoFilter, priority |-> NoFilter, match |-> {TRUE, FALSE}]

CareQueue(d, filter) ==
  LET wanted == Wanted(d, filter)
  IN [filtered_total |-> Cardinality(wanted),
      open |-> Cardinality({c \in wanted : d.care_tickets[c].status = "OPEN"}),
      closed |-> Cardinality({c \in wanted : d.care_tickets[c].status = "CLOSED"}),
      of |-> [p \in {"P1", "P2", "P3"} |->
                Cardinality({c \in wanted : Priority(ScenarioOf(d, c)) = p})],
      predictively_matched |-> Cardinality({c \in wanted : d.care_tickets[c].match}),
      repeat_contacts |-> Cardinality({c \in wanted : Manifest(d, c).seq > 0})]

-----------------------------------------------------------------------------
(* Properties of the projections of d, parts of what the runs check *)

\* The work orders of a run are its executed truck rolls, each priced by the
\* minutes between its own timestamps wherever the planning route would have gone; every dispatch that
\* was not executed is one forecast roll.
WorkIsAccounted(d, place, s) ==
  LET forecast == {c \in Cases(d) : ~Executed(d, c)
                                     /\ BestAction(ScenarioOf(d, c)) \in DispatchActions}
      Spent(w) == Whole(2 * (w.arrived - w.dispatched) + w.completed - w.arrived)
  IN /\ s.executed.rolls = s.work_orders
     /\ s.forecast.rolls = Cardinality(forecast)
     /\ s.executed.ferries = IF place.island THEN s.executed.rolls ELSE 0
     /\ s.executed.overnights = 0
     /\ s.executed.crew_minutes =
          Total([c \in Cases(d) |->
                   Total([i \in DOMAIN d.work_orders[c] |-> Spent(d.work_orders[c][i])])])

\* Executed cost never imports a charge from the planning route
\* (dispatch_projection.py, integrity_controls).
ExecutedIgnoresPlans(d, places) ==
  \A c \in {e \in Cases(d) : Executed(d, e)} : \A p, q \in places :
    p.island = q.island /\ p.family = q.family => Ledger(d, c, p) = Ledger(d, c, q)

\* The policy that picks the crew and the plant model that places the fault agree:
\* plant crews are sent away from the premise, home crews to it.
CrewsMatchPlant(rows) ==
  \A c \in DOMAIN rows :
    LET row == rows[c].cost
    IN /\ row.crew = "dirty" => ~AtPremise(row.kind)
       /\ row.crew = "clean" => AtPremise(row.kind)

\* The two projections tell one story: who waits for a human, where a crew was
\* sent, and what closed with a validated resolution.
ProjectionsAgree(d, rows) ==
  LET m == ExecutiveMetrics(d)
      partition == StatusPartition(d)
  IN /\ ExecutiveReconciles(d)
     /\ m.waiting_root_incidents = m.pending_approvals
     /\ DispatchedRoots(d) = {Manifest(d, c).root : c \in
                                {e \in Cases(d) : Executed(d, e) /\ rows[e].cost.rolls > 0}}
     /\ \A r \in partition.closed : \E c \in Attempts(d, r) :
          rows[c].cost.source = "validated_resolution"

\* No work is lost or counted twice between the files and the rows, and what a row
\* says of a ferry or an overnight stay is what its cost was charged for.
RowsReconcile(d, rows, r) ==
  /\ r.missing \union r.orphaned \union r.duplicated \union r.revised \union r.failing = {}
  /\ r.passing = {c \in Cases(d) : Restoration(d, c)}
  /\ \A c \in Cases(d) :
       /\ rows[c].requires_ferry <=> rows[c].cost.ferries > 0
       /\ ~rows[c].same_day <=> rows[c].cost.overnights > 0
       /\ rows[c].human = "PENDING" => rows[c].cost.basis = "governed_forecast"

\* The story told of a customer is that of the network: it closes with its root,
\* the review says so too, all contacts of one root were seen by the network or
\* none was, and a root seen first was open before the first of them.
StoriesHold(d, rows) ==
  LET stories == Stories(d)
      score == Scorecard(d)
      partition == StatusPartition(d)
  IN /\ Cardinality({stories[c].root : c \in {e \in DOMAIN stories :
                                              stories[e].care.status = "CLOSED"}})
          = score.cases_closed
     /\ score.human_review_required =
          Cardinality({c \in DOMAIN stories : stories[c].required})
     /\ score.care_contacts_pre_correlated + Cardinality(CareFunnel(d).reactive)
          = score.care_contacts_total
     /\ \A c \in DOMAIN stories : LET s == stories[c] IN
          /\ s.care.closed = s.incident.closed
          /\ s.incident_reviewed = s.incident.status
          /\ s.human = "PENDING" => s.root \in partition.waiting /\ s.required
          /\ s.saw_it_first => s.incident.opened < Manifest(d, c).at
          /\ \A e \in DOMAIN stories :
               stories[e].root = s.root => stories[e].saw_it_first = s.saw_it_first
          /\ rows[c].match = s.saw_it_first
          /\ rows[c].incident = s.incident.status
          /\ rows[c].validated = (s.resolution # << >>)

\* What the queue counts row by row is what the projection counts by joins: the
\* contacts seen by the network, and the repeats, which are the attempts beyond the
\* root incidents; and the filters of one field share the queue out.
QueueAgrees(d) ==
  LET all == CareQueue(d, AnyTicket)
      score == Scorecard(d)
      Left(field, value) ==
        CareQueue(d, [AnyTicket EXCEPT ![field] = value]).filtered_total
  IN /\ all.predictively_matched = score.care_contacts_pre_correlated
     /\ all.repeat_contacts = ExecutiveMetrics(d).case_attempts - score.cases_total
     /\ Left("status", "OPEN") + Left("status", "CLOSED") = score.care_contacts_total
     /\ \A p \in DOMAIN all.of : Left("priority", p) = all.of[p]
     /\ Left("match", {TRUE}) + Left("match", {FALSE}) = score.care_contacts_total
     /\ all.closed > 0 <=> score.cases_closed > 0

Holds(d, place, p) ==
  /\ ~p.refused
  /\ WorkIsAccounted(d, place, p.summary)
  /\ RowsReconcile(d, p.cases, p.reconciliation)
  /\ CrewsMatchPlant(p.cases)
  /\ ProjectionsAgree(d, p.cases)
  /\ StoriesHold(d, p.cases)

Accounts(recorded, d, places) ==
  /\ ExecutedIgnoresPlans(d, places)
  /\ QueueAgrees(d)
  /\ \A place \in places : Holds(d, place, Projected(recorded, d, place))
=============================================================================
