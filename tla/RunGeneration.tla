---------------------------- MODULE RunGeneration ----------------------------
(***************************************************************************)
(* Generation of a digital-twin run (orchestrator.py, _generate_into): one *)
(* case attempt after the other, with whatever the model answers; then     *)
(* predictive correlation and the care queue; then the quality gate, which *)
(* publishes the run or refuses it whole.                                  *)
(***************************************************************************)
EXTENDS ExecutiveProjection

CONSTANTS
  Configurations,   \* the scenario tuples a run may be generated for
  Answers,          \* what the configured model may answer
  TotalCases,       \* case attempts of a run (_case_count)
  Places            \* where the planning model may put a service

ASSUME ConfigurationsAssumption ==
  \A f \in Configurations : f \in Seq(Scenarios) /\ Len(f) > 0
ASSUME AnswersAssumption == Answers \subseteq Agents
\* At most 500 000 homes (models.py), of which five in a thousand have a case.
ASSUME TotalCasesAssumption == TotalCases \in 1..2500
\* A planning route in whole minutes, to a service of either family of plant.
ASSUME PlacesAssumption ==
  Places \subseteq [minutes : Nat, road : Nat, ferry : BOOLEAN, island : BOOLEAN,
                    family : {"HFC", "PON"}]

VARIABLES
  scenarios,    \* config.scenarios
  d,            \* rows: the datasets so far
  phase         \* "cases", "care", "gate", "published" or "refused"

vars == <<scenarios, d, phase>>

Phases == {"cases", "care", "gate", "published", "refused"}

Init ==
  /\ scenarios \in Configurations
  /\ d = EmptyRun
  /\ phase = "cases"

\* The scenarios are taken in turn.
NextScenario ==
  scenarios[(Len(d.scenario_manifests) % Len(scenarios)) + 1]

GenerateCase ==
  /\ phase = "cases"
  /\ \E answer \in Answers : d' = AddCase(d, NextScenario, answer)
  /\ phase' = IF Len(d.scenario_manifests) + 1 = TotalCases THEN "care" ELSE "cases"
  /\ UNCHANGED scenarios

\* A predictive ticket attaches to the incidents of its service.
Correlate ==
  /\ phase = "care"
  /\ \E predicted \in SUBSET Roots(d) : d' = BuildCare(d, predicted)
  /\ phase' = "gate"
  /\ UNCHANGED scenarios

\* The gate and the volume contracts.
VolumeHolds ==
  /\ Cardinality(Cases(d)) = TotalCases
  /\ Cardinality(Roots(d)) =
       TotalCases - Cardinality({c \in Cases(d) : Manifest(d, c).seq > 0})

Check ==
  /\ phase = "gate"
  /\ phase' = IF Gate(d) /\ VolumeHolds THEN "published" ELSE "refused"
  /\ UNCHANGED <<scenarios, d>>

Ended ==
  /\ phase \in {"published", "refused"}
  /\ UNCHANGED vars

Next == GenerateCase \/ Correlate \/ Check \/ Ended

Spec == Init /\ [][Next]_vars

-----------------------------------------------------------------------------
(* Properties *)

\* The phase is one of five, and every dataset kept per case has a row for
\* every case: the datasets grow together (_generate_into).
PerCase == {"agent_decisions", "reconciliation_records", "human_decisions",
            "action_events", "work_orders", "field_evidence", "mrs",
            "telemetry_tr181", "validation_events", "resolution_events"}

TypeOK ==
  /\ scenarios \in Configurations
  /\ phase \in Phases
  /\ \A name \in PerCase : DOMAIN d[name] = Cases(d)
  /\ Roots(d) \subseteq Cases(d)

\* The generator meets its own gate: only a model that cites no valid evidence
\* makes it refuse a run.
RefusedForCitationsOnly ==
  phase = "refused" => \E c \in Cases(d) : ~d.agent_decisions[c].evidence

\* At every moment of the generation an incident is closed exactly while the
\* latest attempt on it restored the service, and it was reopened by every
\* repeat that found it closed: no repeat hides behind an older closure.
ClosedWhileRestored ==
  \A r \in Roots(d) :
    LET i == d.incidents[r]
    IN /\ i.status = "CLOSED" <=> Restoration(d, Latest(Attempts(d, r)))
       /\ i.status = "CLOSED" <=> i.closed # NoTime
       /\ i.reopens = Cardinality({c \in Attempts(d, r) :
                        Manifest(d, c).seq > 0 /\ Restoration(d, Manifest(d, c).parent)})

\* The attempts on one incident form a single chain: the n-th repeat follows
\* the attempt before it, and the root of a chain waits for no live decision
\* (a repeat would otherwise act under an approval nobody gave to the root).
RepeatsFormAChain ==
  \A c \in Cases(d) :
    LET m == Manifest(d, c)
    IN m.seq > 0 =>
         /\ m.parent \in Attempts(d, m.root)
         /\ Manifest(d, m.parent).seq = m.seq - 1
         /\ \A e \in Attempts(d, m.root) : e <= m.parent \/ e >= c
         /\ d.human_decisions[m.root].status # "PENDING"

\* Nothing with a side effect, and no repeat, is done before a human approved it.
ApprovedBeforeActing ==
  \A c \in Cases(d) :
    LET human == d.human_decisions[c]
        action == d.action_events[c]
    IN ( /\ action.status = "SIMULATED_EXECUTED"
         /\ BestAction(ScenarioOf(d, c)) \in SideEffects \/ Manifest(d, c).seq > 0 )
       => /\ human.status = "APPROVED"
          /\ human.decided < action.at
          /\ Manifest(d, c).seq > 0 => human.senior

\* What is published can be costed: it passes the integrity checks of the
\* projections, every work order is one executed truck roll priced by its own
\* timestamps, and the cost and executive projections tell one story.
ProjectionAccountsForWork ==
  phase = "published" => Accounts(d, d, Places)

=============================================================================
