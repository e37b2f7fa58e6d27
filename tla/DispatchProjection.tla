------------------------- MODULE DispatchProjection -------------------------
(***************************************************************************)
(* The cost and dispatch projection of a published run                     *)
(* (digital_twin/dispatch_projection.py): what the catalog and the case    *)
(* graph must satisfy before anything is costed, the ledger of one case,   *)
(* and the totals over the run.                                            *)
(*                                                                         *)
(* A ledger line keeps what its price is computed from: the role, the      *)
(* minutes and the road charged (in minutes of driving).  Where a service  *)
(* is, is a place: the planning route from the hub that would serve it,    *)
(* and the region and technology the run generated for it.  The deciding   *)
(* domain of a generated case is that of its scenario, so the premium of   *)
(* a misdispatch, which is charged when the two differ, is left out.       *)
(***************************************************************************)
EXTENDS QualityGate

\* effort.py, in minutes.
Durations ==
  [triage |-> 10, rca |-> 15, remote |-> 25, review |-> 12, planning |-> 8,
   clean |-> 90, dirty |-> 180, handover |-> 25, acceptance |-> 15,
   verification |-> 12, closure |-> 8]
Shift == 480

DispatchActions == {"dispatch_clean", "cpe_swap", "create_mr", "plant_repair"}

-----------------------------------------------------------------------------
(* Integrity: what is refused before anything is costed *)

\* _verify_catalog_datasets: the files whose content is not the one recorded.
CatalogIssues(recorded, actual) ==
  {name \in DOMAIN recorded : recorded[name] # actual[name]}

\* _validation_result: every generated validation has passed all its checks.
Validated(d, c) == d.validation_events[c] # << >>

\* _validate_case_graph; the joins that the keys of the datasets give are left out.
CaseGraphIssues(d) ==
  {<<"no decision", c>> : c \in {e \in Cases(d) : e \notin DOMAIN d.agent_decisions}}
    \union {<<"no action", c>> : c \in {e \in Cases(d) : e \notin DOMAIN d.action_events}}
    \union {<<"no incident", c>> : c \in {e \in Cases(d) : Manifest(d, e).root \notin Roots(d)}}
    \union {<<"MR without order", c>> :
              c \in {e \in Cases(d) : d.mrs[e] # << >> /\ d.work_orders[e] = << >>}}
    \union {<<"not validated", c>> : c \in {e \in Cases(d) : Restoration(d, e) /\ ~Validated(d, e)}}
    \union {<<"closed unresolved", r>> :
              r \in {i \in Roots(d) : /\ d.incidents[i].status = "CLOSED"
                                      /\ ~\E c \in Attempts(d, i) : Restoration(d, c)}}

-----------------------------------------------------------------------------
(* Where the work is, and who does it *)

\* decision.py, SCENARIO_POLICIES
PolicyDomain(s) ==
  CASE s \in {"slow_wifi", "iptv_degradation"} -> "wifi_or_home"
    [] s \in {"no_service", "intermittent_service"} -> "drop"
    [] s \in {"fiber_cut", "storm", "flooding", "hurricane"} -> "plant"
    [] s = "hfc_ingress" -> "hfc_tap"
    [] s \in {"congestion", "power_outage"} -> "shared_network"
    [] s = "provisioning_error" -> "provisioning"
    [] s = "cpe_failure" -> "cpe"

DomainKind(domain) ==
  CASE domain = "drop" -> "drop"
    [] domain = "hfc_tap" -> "tap"
    [] domain = "pon_odp" -> "odp"
    [] domain \in {"plant", "shared_network"} -> "hfc_node"
    [] OTHER -> "household"

\* _coordinates: the plant element the crew goes to.
InterventionKind(domain, family) ==
  IF DomainKind(domain) = "hfc_node" /\ family = "PON" THEN "pon_port"
  ELSE DomainKind(domain)
AtPremise(kind) == kind \in {"household", "drop"}

\* A generated work order outweighs the action.
Crew(action, works) ==
  IF works # << >> THEN IF works[1].kind = "PLANT_REPAIR" THEN "dirty" ELSE "clean"
  ELSE CASE action \in {"create_mr", "plant_repair"} -> "dirty"
         [] action \in {"dispatch_clean", "cpe_swap"} -> "clean"
         [] OTHER -> "remote"

\* What a work order says of its own cost (orchestrator.py, _work_order).
Whole(halves) == halves \div Minutes(1)
Economics(w, place) ==
  LET oneWay == Whole(w.arrived - w.dispatched)
      onSite == Whole(w.completed - w.arrived)
  IN [oneWay |-> oneWay, onSite |-> onSite, road |-> oneWay,
      ferry |-> place.island, overnight |-> 2 * oneWay + onSite > Shift]

\* _route_projection: the planned visit.
Planned(crew, works, place) ==
  LET onSite == IF works # << >> THEN Whole(works[1].completed - works[1].arrived)
                ELSE Durations[crew]
  IN [oneWay |-> place.minutes, onSite |-> Durations[crew], road |-> place.road,
      ferry |-> place.ferry, overnight |-> 2 * place.minutes + onSite > Shift]

-----------------------------------------------------------------------------
(* _cost_projection *)

Line(step, role, minutes, road) ==
  [step |-> step, role |-> role, minutes |-> minutes, road |-> road]
Lines(condition, line) == IF condition THEN <<line>> ELSE << >>

VisitLines(crew, visit) ==
  <<Line("planning", "dispatcher", Durations.planning, 0),
    Line("travel", crew, 2 * visit.oneWay, 2 * visit.road)>>
    \o Lines(visit.ferry, Line("ferry", crew, 0, 0))
    \o <<Line("on_site", crew, visit.onSite, 0)>>
    \o Lines(visit.overnight, Line("overnight", crew, 0, 0))

HandoffLines(action, crew) ==
  IF action \in {"create_mr", "plant_repair"}
  THEN <<Line("handoff_package", crew, Durations.handover, 0),
         Line("handoff_review", "dispatcher", Durations.acceptance, 0)>>
  ELSE << >>

PartsKey(action, domain, family) ==
  CASE action = "cpe_swap" \/ domain = "cpe" -> "cpe"
    [] domain \in {"drop", "premise_wiring"} -> "drop"
    [] domain = "pon_odp" \/ (domain \in {"plant", "shared_network"} /\ family = "PON") -> "odp"
    [] domain \in {"hfc_tap", "plant", "shared_network"} -> "tap"
    [] OTHER -> "none"

PlannedForAll(d, c, place) ==   \* mutant: executed work is priced by its plan
  LET works == d.work_orders[c]
      crew == Crew(BestAction(ScenarioOf(d, c)), works)
  IN <<Planned(crew, works, place)>>

\* What was executed is priced by its work order, what was not by the plan.
Visits(d, c, place) ==
  LET works == d.work_orders[c]
      crew == Crew(BestAction(ScenarioOf(d, c)), works)
  IN IF Executed(d, c) /\ works # << >>
     THEN [i \in DOMAIN works |-> Economics(works[i], place)]
     ELSE <<Planned(crew, works, place)>>

ActionLines(d, c, place) ==
  LET s == ScenarioOf(d, c)
      action == BestAction(s)
      crew == Crew(action, d.work_orders[c])
      visits == IF action \in DispatchActions THEN Visits(d, c, place) ELSE << >>
      upTo[i \in 0..Len(visits)] ==
        IF i = 0 THEN << >> ELSE upTo[i - 1] \o VisitLines(crew, visits[i])
      parts == PartsKey(action, PolicyDomain(s), place.family)
  IN CASE action = "remote_repair" -> <<Line("remote", "noc", Durations.remote, 0)>>
       [] action = "collect_evidence" -> <<Line("evidence", "noc", Durations.rca, 0)>>
       [] OTHER -> HandoffLines(action, crew) \o upTo[Len(visits)]
                     \o Lines(parts # "none", Line("parts", parts, 0, 0))

Ledger(d, c, place) ==
  <<Line("triage", "noc", Durations.triage, 0), Line("RCA", "noc", Durations.rca, 0)>>
    \o Lines(d.human_decisions[c].required, Line("review", "l2", Durations.review, 0))
    \o ActionLines(d, c, place)
    \o Lines(Validated(d, c) \/ ~Executed(d, c),
             Line("validation", "noc", Durations.verification, 0))
    \o Lines(d.incidents[Manifest(d, c).root].status = "CLOSED" \/ ~Executed(d, c),
             Line("closure", "noc", Durations.closure, 0))

StepsIn(ledger, step) == Cardinality({i \in DOMAIN ledger : ledger[i].step = step})

\* The totals of a ledger: minutes, and what was on the road or on site of them.
Crewed == {"travel", "on_site"}
MinutesOn(ledger, steps) ==
  LET upTo[n \in 0..Len(ledger)] ==
        IF n = 0 THEN 0
        ELSE upTo[n - 1] + IF ledger[n].step \in steps THEN ledger[n].minutes ELSE 0
  IN upTo[Len(ledger)]
LedgerTotals(ledger) ==
  LET steps == {ledger[i].step : i \in DOMAIN ledger}
  IN [minutes |-> MinutesOn(ledger, steps), crew_minutes |-> MinutesOn(ledger, Crewed),
      rolls |-> StepsIn(ledger, "on_site"), ferries |-> StepsIn(ledger, "ferry"),
      overnights |-> StepsIn(ledger, "overnight")]

\* The row of one case.
CostedBy(ledger, d, c, place) ==
  LET resolved == Restoration(d, c) /\ Validated(d, c)
      s == ScenarioOf(d, c)
      totals == LedgerTotals(ledger)
  IN [basis |-> IF Executed(d, c) THEN "generated_execution" ELSE "governed_forecast",
      ledger |-> ledger,
      minutes |-> totals.minutes, crew_minutes |-> totals.crew_minutes,
      rolls |-> totals.rolls, ferries |-> totals.ferries, overnights |-> totals.overnights,
      crew |-> Crew(BestAction(s), d.work_orders[c]),
      kind |-> InterventionKind(PolicyDomain(s), place.family),
      source |-> IF resolved THEN "validated_resolution" ELSE "immutable_scenario_truth"]
Costed(d, c, place) == CostedBy(Ledger(d, c, place), d, c, place)

\* What the row adds to it from the other datasets.  Ferries and overnight stays
\* are those of the work done, or else those of the planning route.
RowOf(costed, d, c, place) ==
  LET planned == Planned(costed.crew, d.work_orders[c], place)
      field == costed.crew # "remote"
      executed == costed.basis = "generated_execution"
  IN [cost |-> costed,
      incident |-> d.incidents[Manifest(d, c).root].status,
      match |-> d.care_tickets[c].match,
      human |-> d.human_decisions[c].status,
      work_orders |-> {<<c, i>> : i \in DOMAIN d.work_orders[c]},
      mrs |-> {<<c, i>> : i \in DOMAIN d.mrs[c]},
      requires_ferry |-> IF executed THEN costed.ferries > 0 ELSE field /\ planned.ferry,
      same_day |-> IF executed THEN costed.overnights = 0 ELSE ~(field /\ planned.overnight),
      validated |-> Validated(d, c),
      validation |-> d.validation_events[c]]
Row(d, c, place) == RowOf(Costed(d, c, place), d, c, place)

\* reconciliation: the identifier of a work order or request is that of its case,
\* so a second row of the same case is a duplicate.
CasesWith(d, dataset) == {c \in Cases(d) : d[dataset][c] # << >>}
Duplicates(d, dataset) == {c \in Cases(d) : Len(d[dataset][c]) > 1}
Reconciliation(d, rows) ==
  LET CasesOf(field) == {id[1] : id \in UNION {rows[c][field] : c \in Cases(d)}}
  IN [missing |-> (CasesWith(d, "work_orders") \ CasesOf("work_orders"))
                    \union (CasesWith(d, "mrs") \ CasesOf("mrs")),
      orphaned |-> (CasesOf("work_orders") \ CasesWith(d, "work_orders"))
                    \union (CasesOf("mrs") \ CasesWith(d, "mrs")),
      duplicated |-> Duplicates(d, "work_orders"),
      revised |-> Duplicates(d, "mrs"),
      passing |-> {c \in Cases(d) : rows[c].validated},
      failing |-> {c \in Cases(d) : ~rows[c].validated /\ rows[c].validation # << >>}]

-----------------------------------------------------------------------------
(* _summary *)

\* The sum of a function on 1..n.
Total(f) ==
  LET upTo[n \in 0..Cardinality(DOMAIN f)] == IF n = 0 THEN 0 ELSE upTo[n - 1] + f[n]
  IN upTo[Cardinality(DOMAIN f)]

\* What the cases of one basis amount to.
Exposure(rows, basis, field) ==
  Total([c \in DOMAIN rows |-> IF rows[c].basis = basis THEN rows[c][field] ELSE 0])

DispatchSummary(d, rows) ==
  LET Counted(basis) ==
        [cases |-> Cardinality({c \in Cases(d) : rows[c].basis = basis}),
         rolls |-> Exposure(rows, basis, "rolls"),
         minutes |-> Exposure(rows, basis, "minutes"),
         crew_minutes |-> Exposure(rows, basis, "crew_minutes"),
         ferries |-> Exposure(rows, basis, "ferries"),
         overnights |-> Exposure(rows, basis, "overnights")]
  IN [executed |-> Counted("generated_execution"),
      forecast |-> Counted("governed_forecast"),
      work_orders |-> Total([c \in Cases(d) |-> Len(d.work_orders[c])]),
      dirty_cases |-> {c \in Cases(d) : rows[c].crew = "dirty"},
      off_premise |-> {c \in Cases(d) : ~AtPremise(rows[c].kind)}]

\* The whole projection: nothing is costed of files that are not those of the
\* catalog, or that do not hang together.
Refusal(recorded, d) == CatalogIssues(recorded, d) \union CaseGraphIssues(d)
Projection(d, rows) ==
  [refused |-> FALSE, cases |-> rows,
   summary |-> DispatchSummary(d, [c \in Cases(d) |-> rows[c].cost]),
   reconciliation |-> Reconciliation(d, rows)]
Projected(recorded, d, place) ==
  IF Refusal(recorded, d) # {} THEN [refused |-> TRUE]
  ELSE Projection(d, [c \in Cases(d) |-> Row(d, c, place)])
=============================================================================
