------------------------- MODULE RunGenerationProofs -------------------------
(***************************************************************************)
(* What the generator of a run keeps, for any scenarios, answers, numbers  *)
(* of cases and repetition rate.  The rows of a case are written once, by  *)
(* the turn of the loop that adds the case, and follow from its manifest,  *)
(* the answer and whether it waits for a live decision (CaseRows); its     *)
(* place among the attempts on its incident is fixed with its manifest     *)
(* (Placed); and an incident is in the state its latest attempt left it in *)
(* (IncidentRow).  Together they meet every check of the quality gate, and *)
(* with the care queue built from the incidents they make the published    *)
(* run sound (Sound, in ProjectionProofs), so that its cost and executive  *)
(* projections add up, wherever the planning model puts its services.      *)
(*                                                                         *)
(* The last section is about the directory such a run is published in, and *)
(* the requests that race for it (RunPublication).                         *)
(***************************************************************************)
EXTENDS RunGeneration, RunPublication, ProjectionProofs

-----------------------------------------------------------------------------
(* The turn of the loop, dataset by dataset *)

\* What the next case of a scenario is, and what follows the answer to it.
Repeats(x, s) == IsRepeat(Cardinality(Occurrences(x, s)) + 1)
RootFor(x, s) == IF Repeats(x, s) THEN RepeatRoot(x, s) ELSE Size(x) + 1
ParentFor(x, s) == IF Repeats(x, s) THEN Latest(Attempts(x, RootFor(x, s))) ELSE 0
SeqFor(x, s) == IF Repeats(x, s) THEN x.incidents[RootFor(x, s)].repeats + 1 ELSE 0
StartFor(x) == Minutes(2 * Size(x))
ManifestFor(x, s) ==
  [scenario |-> s, root |-> RootFor(x, s), parent |-> ParentFor(x, s),
   seq |-> SeqFor(x, s), at |-> StartFor(x)]
IncidentsFor(x, s) ==
  IF Repeats(x, s)
  THEN [x.incidents EXCEPT ![RootFor(x, s)] = [Reopened(@) EXCEPT !.repeats = SeqFor(x, s)]]
  ELSE [r \in Roots(x) \union {Size(x) + 1} |->
          IF r = Size(x) + 1 THEN NewIncident(StartFor(x) + Minutes(5)) ELSE x.incidents[r]]

LEMMA DatasetNames == DOMAIN EmptyRun = Datasets
BY DEF EmptyRun, Datasets

LEMMA OpenedIs ==
  ASSUME NEW x, DOMAIN x = Datasets, x.scenario_manifests \in Seq(Manifests), NEW s
  PROVE  LET o == Opened(x, s)
         IN /\ DOMAIN o = Datasets
            /\ o.scenario_manifests = Append(x.scenario_manifests, ManifestFor(x, s))
            /\ o.incidents = IncidentsFor(x, s)
            /\ o.work_orders = Append(x.work_orders, << >>)
            /\ o.field_evidence = Append(x.field_evidence, << >>)
            /\ o.mrs = Append(x.mrs, << >>)
            /\ o.telemetry_tr181 = Append(x.telemetry_tr181, << >>)
            /\ o.validation_events = Append(x.validation_events, << >>)
            /\ o.resolution_events = Append(x.resolution_events, << >>)
            /\ o.agent_decisions = x.agent_decisions
            /\ o.reconciliation_records = x.reconciliation_records
            /\ o.human_decisions = x.human_decisions
            /\ o.action_events = x.action_events
            /\ o.care_tickets = x.care_tickets
            /\ o.care_ticket_reviews = x.care_ticket_reviews
<1> DEFINE n == Size(x)
           o == Opened(x, s)
           m == ManifestFor(x, s)
           is == IncidentsFor(x, s)
<1>1. n \in Nat /\ (n + 1) - 1 = n
  BY DEF Size
<1>2. o = [x EXCEPT
             !.scenario_manifests = Append(@, m), !.incidents = is,
             !.work_orders = Append(@, << >>), !.field_evidence = Append(@, << >>),
             !.mrs = Append(@, << >>), !.telemetry_tr181 = Append(@, << >>),
             !.validation_events = Append(@, << >>),
             !.resolution_events = Append(@, << >>)]
  BY <1>1, Zenon DEF Opened, ManifestFor, IncidentsFor, RootFor, ParentFor, SeqFor, StartFor,
     Repeats, Size
<1> SUFFICES
         /\ DOMAIN o = Datasets
         /\ o.scenario_manifests = Append(x.scenario_manifests, m)
         /\ o.incidents = is
         /\ o.work_orders = Append(x.work_orders, << >>)
         /\ o.field_evidence = Append(x.field_evidence, << >>)
         /\ o.mrs = Append(x.mrs, << >>)
         /\ o.telemetry_tr181 = Append(x.telemetry_tr181, << >>)
         /\ o.validation_events = Append(x.validation_events, << >>)
         /\ o.resolution_events = Append(x.resolution_events, << >>)
         /\ o.agent_decisions = x.agent_decisions
         /\ o.reconciliation_records = x.reconciliation_records
         /\ o.human_decisions = x.human_decisions
         /\ o.action_events = x.action_events
         /\ o.care_tickets = x.care_tickets
         /\ o.care_ticket_reviews = x.care_ticket_reviews
  OBVIOUS
<1> HIDE DEF o, m, is
<1> QED BY <1>2, DOMAIN x = Datasets DEF Datasets

HumanFor(x, s, a) == NeedsHuman(a, s, Repeats(x, s))
Waits(x, s, a) == Occurrences(x, s) = {} /\ HumanFor(x, s, a)
ActionAt(x, s, a) == StartFor(x) + HistoricalDelay(HumanFor(x, s, a))
EffectFor(x, s, a) ==
  IF Waits(x, s, a) THEN NothingDone
  ELSE Downstream(BestAction(s), ActionAt(x, s, a), StartFor(x) + Minutes(9))
Heals(x, s, a) == ~Waits(x, s, a) /\ Restores(s)
DecisionFor(x, s, a) ==
  IF Waits(x, s, a) THEN Pending
  ELSE IF HumanFor(x, s, a) THEN HistoricalApproval(StartFor(x) + Minutes(11), Repeats(x, s))
  ELSE NotRequired
ActionFor(x, s, a) ==
  IF Waits(x, s, a) THEN [status |-> "BLOCKED_PENDING_HUMAN", at |-> StartFor(x) + Minutes(10)]
  ELSE [status |-> "SIMULATED_EXECUTED", at |-> ActionAt(x, s, a)]

LEMMA AppendIs ==
  ASSUME NEW S, NEW q \in Seq(S), NEW y \in S
  PROVE  /\ Append(q, y) \in Seq(S) /\ Len(Append(q, y)) = Len(q) + 1 /\ Len(q) \in Nat
         /\ \A i \in 1..Len(q) : Append(q, y)[i] = q[i]
         /\ Append(q, y)[Len(q) + 1] = y
         /\ DOMAIN q = 1..Len(q) /\ DOMAIN Append(q, y) = 1..(Len(q) + 1)
OBVIOUS

With(q, i, z) == [q EXCEPT ![i] = z]

LEMMA LastReplaced ==
  ASSUME NEW S, NEW q \in Seq(S), NEW y \in S, NEW z \in S
  PROVE  With(Append(q, y), Len(q) + 1, z) = Append(q, z)
<1> DEFINE p == Append(q, y)
           r == Append(q, z)
<1>1. /\ DOMAIN p = 1..(Len(q) + 1) /\ DOMAIN r = 1..(Len(q) + 1) /\ Len(q) \in Nat
      /\ \A i \in 1..Len(q) : p[i] = r[i]
      /\ r[Len(q) + 1] = z /\ p[Len(q) + 1] = y
  <2>1. /\ DOMAIN p = 1..(Len(q) + 1) /\ Len(q) \in Nat
        /\ \A i \in 1..Len(q) : p[i] = q[i]
        /\ p[Len(q) + 1] = y
    BY AppendIs
  <2>2. /\ DOMAIN r = 1..(Len(q) + 1)
        /\ \A i \in 1..Len(q) : r[i] = q[i]
        /\ r[Len(q) + 1] = z
    BY AppendIs
  <2> HIDE DEF p, r
  <2> QED BY <2>1, <2>2
<1>2. p = [i \in DOMAIN p |-> p[i]] /\ r = [i \in DOMAIN r |-> r[i]]
  <2>1. p \in Seq(S) /\ r \in Seq(S)
    BY AppendIs
  <2> HIDE DEF p, r
  <2> QED BY <2>1
<1> HIDE DEF p, r
<1>3. [p EXCEPT ![Len(q) + 1] = z] = r
  BY <1>1, <1>2
<1> QED BY <1>3, Zenon DEF p, r, With

LEMMA Filled ==
  ASSUME NEW T, NEW q \in Seq(Seq(T)), NEW z \in Seq(T), NEW n, Len(q) = n
  PROVE  /\ Append(q, << >>)[n + 1] = << >>
         /\ With(Append(q, << >>), n + 1, z) = Append(q, z)
<1>1. << >> \in Seq(T) OBVIOUS
<1>2. Append(q, << >>)[n + 1] = << >> BY <1>1, AppendIs
<1>3. With(Append(q, << >>), Len(q) + 1, z) = Append(q, z)
  BY <1>1, LastReplaced
<1> QED BY <1>2, <1>3

LEMMA FilledBy ==
  ASSUME NEW T, NEW q, q \in Seq(Seq(T)), NEW z, z \in Seq(T), NEW n, Len(q) = n
  PROVE  [Append(q, << >>) EXCEPT ![n + 1] = @ \o z] = Append(q, z)
<1>1. << >> \o z = z OBVIOUS
<1>2. Append(q, << >>)[n + 1] = << >> /\ With(Append(q, << >>), n + 1, z) = Append(q, z)
  BY Filled
<1> QED BY <1>1, <1>2, Zenon DEF With

LEMMA FilledWith ==
  ASSUME NEW q, q \in Seq(Seq(Int)), NEW z \in Int, NEW n, Len(q) = n
  PROVE  [Append(q, << >>) EXCEPT ![n + 1] = Append(@, z)] = Append(q, <<z>>)
<1> DEFINE r == <<z>>
<1>1. Append(<< >>, z) = r /\ r \in Seq(Int) OBVIOUS
<1> HIDE DEF r
<1>2. Append(q, << >>)[n + 1] = << >> /\ With(Append(q, << >>), n + 1, r) = Append(q, r)
  BY <1>1, Filled
<1> QED BY <1>1, <1>2, Zenon DEF With, r

\* The datasets y are x with the rows of one more case, of the scenario s, of the
\* answers a and of the effect e.
Added(x, s, a, e, y) ==
  /\ DOMAIN y = Datasets
  /\ y.scenario_manifests = Append(x.scenario_manifests, ManifestFor(x, s))
  /\ y.agent_decisions = Append(x.agent_decisions, a)
  /\ y.reconciliation_records = Append(x.reconciliation_records, HumanFor(x, s, a))
  /\ y.human_decisions = Append(x.human_decisions, DecisionFor(x, s, a))
  /\ y.action_events = Append(x.action_events, ActionFor(x, s, a))
  /\ y.work_orders = Append(x.work_orders, e.work)
  /\ y.field_evidence = Append(x.field_evidence, e.evidence)
  /\ y.mrs = Append(x.mrs, e.mr)
  /\ y.telemetry_tr181 =
        Append(x.telemetry_tr181, IF Heals(x, s, a) THEN <<e.post>> ELSE << >>)
  /\ y.validation_events =
        Append(x.validation_events,
               IF Heals(x, s, a) THEN <<e.post + Minutes(10)>> ELSE << >>)
  /\ y.resolution_events =
        Append(x.resolution_events,
               IF Heals(x, s, a) THEN <<e.post + Minutes(10)>> ELSE << >>)
  /\ y.incidents =
        IF Heals(x, s, a)
        THEN [IncidentsFor(x, s) EXCEPT ![RootFor(x, s)] = Restored(@, e.post)]
        ELSE IncidentsFor(x, s)
  /\ y.care_tickets = x.care_tickets
  /\ y.care_ticket_reviews = x.care_ticket_reviews

\* What the answers a and the scenario s make of the datasets x.
LEMMA AddCaseIs ==
  ASSUME NEW x, Shape(x), NEW s \in Scenarios, NEW a \in Agents,
         ManifestFor(x, s) \in Manifests, SeqFor(x, s) > 0 <=> Repeats(x, s),
         EffectFor(x, s, a).work \in Seq(Works), EffectFor(x, s, a).evidence \in Seq(Proofs),
         EffectFor(x, s, a).mr \in Seq(MRs), EffectFor(x, s, a).post \in Int,
         Heals(x, s, a) => EffectFor(x, s, a).post # NoTime
  PROVE  Added(x, s, a, EffectFor(x, s, a), AddCase(x, s, a))
<1> DEFINE n == Size(x)
           o == Opened(x, s)
           m == ManifestFor(x, s)
           human == HumanFor(x, s, a)
           live == Waits(x, s, a)
           e == EffectFor(x, s, a)
           ruled == [o EXCEPT
                       !.agent_decisions = Append(@, a),
                       !.reconciliation_records = Append(@, human),
                       !.human_decisions = Append(@, DecisionFor(x, s, a)),
                       !.action_events = Append(@, ActionFor(x, s, a))]
           made == Materialize(ruled, n + 1, ActionAt(x, s, a), StartFor(x) + Minutes(9))
<1>1. /\ DOMAIN x = Datasets /\ x.scenario_manifests \in Seq(Manifests) /\ n \in Nat
      /\ x.work_orders \in Seq(Seq(Works)) /\ Len(x.work_orders) = n
      /\ x.field_evidence \in Seq(Seq(Proofs)) /\ Len(x.field_evidence) = n
      /\ x.mrs \in Seq(Seq(MRs)) /\ Len(x.mrs) = n
      /\ x.telemetry_tr181 \in Seq(Seq(Int)) /\ Len(x.telemetry_tr181) = n
      /\ x.validation_events \in Seq(Seq(Int)) /\ Len(x.validation_events) = n
      /\ x.resolution_events \in Seq(Seq(Int)) /\ Len(x.resolution_events) = n
  BY DEF Shape, Size
<1>2. /\ DOMAIN o = Datasets
      /\ o.scenario_manifests = Append(x.scenario_manifests, m)
      /\ o.incidents = IncidentsFor(x, s)
      /\ o.work_orders = Append(x.work_orders, << >>)
      /\ o.field_evidence = Append(x.field_evidence, << >>)
      /\ o.mrs = Append(x.mrs, << >>)
      /\ o.telemetry_tr181 = Append(x.telemetry_tr181, << >>)
      /\ o.validation_events = Append(x.validation_events, << >>)
      /\ o.resolution_events = Append(x.resolution_events, << >>)
      /\ o.agent_decisions = x.agent_decisions
      /\ o.reconciliation_records = x.reconciliation_records
      /\ o.human_decisions = x.human_decisions
      /\ o.action_events = x.action_events
      /\ o.care_tickets = x.care_tickets
      /\ o.care_ticket_reviews = x.care_ticket_reviews
  BY <1>1, OpenedIs
<1>3. /\ Len(o.scenario_manifests) = n + 1 /\ Manifest(o, n + 1) = m
      /\ Cases(o) = Cases(x) \union {n + 1} /\ Cases(x) = 1..n
      /\ \A c \in Cases(x) : Manifest(o, c) = Manifest(x, c)
  <2>1. m \in Manifests OBVIOUS
  <2>2. /\ Append(x.scenario_manifests, m) \in Seq(Manifests)
        /\ Len(Append(x.scenario_manifests, m)) = n + 1
        /\ \A i \in 1..n : Append(x.scenario_manifests, m)[i] = x.scenario_manifests[i]
        /\ Append(x.scenario_manifests, m)[n + 1] = m
        /\ DOMAIN x.scenario_manifests = 1..n
        /\ DOMAIN Append(x.scenario_manifests, m) = 1..(n + 1)
    <3> HIDE DEF m
    <3> QED BY <1>1, <2>1, AppendIs DEF Size
  <2>3. 1..(n + 1) = 1..n \union {n + 1}
    <3> HIDE DEF n
    <3> QED BY <1>1
  <2> HIDE DEF o, m, n
  <2> QED BY <1>2, <2>2, <2>3 DEF Cases, Manifest
<1>4. m.seq > 0 <=> Repeats(x, s)
  BY DEF ManifestFor
<1>5. m.scenario = s /\ m.at = StartFor(x) /\ m.root = RootFor(x, s)
  BY DEF ManifestFor
<1>6. Occurrences(o, s) = Occurrences(x, s) \union {n + 1} /\ n + 1 \notin Occurrences(x, s)
  <2>1. /\ \A c \in Cases(x) : ScenarioOf(o, c) = ScenarioOf(x, c)
        /\ ScenarioOf(o, n + 1) = s
    BY <1>3, <1>5, Zenon DEF ScenarioOf
  <2>2. n + 1 \notin Cases(x)
    BY <1>1, <1>3
  <2>3. Cases(o) = Cases(x) \union {n + 1}
    BY <1>3
  <2> HIDE DEF o, m, n
  <2> QED BY <2>1, <2>2, <2>3, Zenon DEF Occurrences
<1>7. Cardinality(Occurrences(o, s)) = 1 <=> Occurrences(x, s) = {}
  <2>1. IsFiniteSet(Occurrences(x, s))
    <3>1. IsFiniteSet(1..n) BY <1>1, FS_Interval
    <3>2. Occurrences(x, s) \subseteq 1..n BY <1>3 DEF Occurrences
    <3> QED BY <3>1, <3>2, FS_Subset
  <2>2. Cardinality(Occurrences(o, s)) = Cardinality(Occurrences(x, s)) + 1
    BY <1>6, <2>1, FS_AddElement
  <2> HIDE DEF o, n
  <2> QED BY <2>1, <2>2, FS_CardinalityType, FS_EmptySet
<1>8. AddCase(x, s, a) = IF live THEN ruled ELSE made
  <2> DEFINE repeat == Manifest(o, n + 1).seq > 0
  <2>1. repeat = Repeats(x, s)
    <3> HIDE DEF o, m, n
    <3>1. repeat <=> Repeats(x, s) BY <1>3, <1>4
    <3>2. Repeats(x, s) \in BOOLEAN BY DEF Repeats, IsRepeat
    <3> QED BY <3>1, <3>2
  <2> DEFINE live1 == Cardinality(Occurrences(o, s)) = 1 /\ HumanFor(x, s, a)
  <2>2. live1 = live
    <3>1. live1 <=> live
      BY <1>7 DEF Waits
    <3> QED BY <3>1 DEF Waits
  <2>3. /\ Manifest(o, n + 1).at = StartFor(x) /\ Len(o.scenario_manifests) = n + 1
    BY <1>3, <1>5
  <2> DEFINE decided ==
               IF live1 THEN Pending
               ELSE IF human THEN HistoricalApproval(StartFor(x) + Minutes(11), Repeats(x, s))
               ELSE NotRequired
             acted ==
               IF live1 THEN [status |-> "BLOCKED_PENDING_HUMAN", at |-> StartFor(x) + Minutes(10)]
               ELSE [status |-> "SIMULATED_EXECUTED", at |-> ActionAt(x, s, a)]
             ruled1 == [o EXCEPT
                          !.agent_decisions = Append(@, a),
                          !.reconciliation_records = Append(@, human),
                          !.human_decisions = Append(@, decided),
                          !.action_events = Append(@, acted)]
  <2>4. AddCase(x, s, a) =
          IF live1 THEN ruled1
          ELSE Materialize(ruled1, n + 1, ActionAt(x, s, a), StartFor(x) + Minutes(9))
    <3>1. AddCase(x, s, a) =
            LET repeat1 == Manifest(o, n + 1).seq > 0
                human1 == NeedsHuman(a, s, repeat1)
                live2 == Cardinality(Occurrences(o, s)) = 1 /\ human1
                t0 == StartFor(x)
                at1 == t0 + HistoricalDelay(human1)
                ruled2 ==
                  [o EXCEPT
                     !.agent_decisions = Append(@, a),
                     !.reconciliation_records = Append(@, human1),
                     !.human_decisions =
                        Append(@, IF live2 THEN Pending
                                  ELSE IF human1
                                  THEN HistoricalApproval(t0 + Minutes(11), repeat1)
                                  ELSE NotRequired),
                     !.action_events =
                        Append(@, IF live2 THEN [status |-> "BLOCKED_PENDING_HUMAN", at |-> t0 + Minutes(10)]
                                  ELSE [status |-> "SIMULATED_EXECUTED", at |-> at1])]
            IN IF live2 THEN ruled2
               ELSE Materialize(ruled2, n + 1, at1, t0 + Minutes(9))
      <4> HIDE DEF n
      <4> QED BY <2>3, Zenon DEF AddCase
    <3> HIDE DEF o, n
    <3> QED BY <2>1, <3>1, Zenon DEF HumanFor, ActionAt
  <2>5. decided = DecisionFor(x, s, a) /\ acted = ActionFor(x, s, a)
    BY <2>2, Zenon DEF DecisionFor, ActionFor
  <2> HIDE DEF decided, acted, live1, live, human, o, n
  <2> QED BY <2>2, <2>4, <2>5, Zenon
<1>9. /\ DOMAIN ruled = Datasets
      /\ ruled.scenario_manifests = Append(x.scenario_manifests, m)
      /\ ruled.incidents = IncidentsFor(x, s)
      /\ ruled.work_orders = Append(x.work_orders, << >>)
      /\ ruled.field_evidence = Append(x.field_evidence, << >>)
      /\ ruled.mrs = Append(x.mrs, << >>)
      /\ ruled.telemetry_tr181 = Append(x.telemetry_tr181, << >>)
      /\ ruled.validation_events = Append(x.validation_events, << >>)
      /\ ruled.resolution_events = Append(x.resolution_events, << >>)
      /\ ruled.agent_decisions = Append(x.agent_decisions, a)
      /\ ruled.reconciliation_records = Append(x.reconciliation_records, human)
      /\ ruled.human_decisions = Append(x.human_decisions, DecisionFor(x, s, a))
      /\ ruled.action_events = Append(x.action_events, ActionFor(x, s, a))
      /\ ruled.care_tickets = x.care_tickets
      /\ ruled.care_ticket_reviews = x.care_ticket_reviews
  <2> HIDE DEF o, m, human
  <2> QED BY <1>2 DEF Datasets
<1> HIDE DEF o
<1> DEFINE y == AddCase(x, s, a)
<1> SUFFICES Added(x, s, a, e, y)
  OBVIOUS
<1>10. CASE live
  <2>1. AddCase(x, s, a) = ruled
    BY <1>8, <1>10, Zenon
  <2>2. e = NothingDone /\ ~Heals(x, s, a)
    BY <1>10, Zenon DEF EffectFor, Heals
  <2>3. e.work = << >> /\ e.evidence = << >> /\ e.mr = << >>
    BY <2>2 DEF NothingDone
  <2>4. y = ruled BY <2>1
  <2> HIDE DEF ruled, e, n, m, human, live, y
  <2>5. y.incidents =
           IF Heals(x, s, a)
           THEN [IncidentsFor(x, s) EXCEPT ![RootFor(x, s)] = Restored(@, e.post)]
           ELSE IncidentsFor(x, s)
    BY <1>9, <2>2, <2>4, Zenon
  <2> QED BY <1>9, <2>2, <2>3, <2>4, <2>5, Zenon DEF Added, m, human, e
<1>11. CASE ~live
  <2> DEFINE done == [ruled EXCEPT !.work_orders[n + 1] = @ \o e.work,
                                   !.field_evidence[n + 1] = @ \o e.evidence,
                                   !.mrs[n + 1] = @ \o e.mr]
             healed == [done EXCEPT
                          !.telemetry_tr181[n + 1] = Append(@, e.post),
                          !.validation_events[n + 1] = Append(@, e.post + Minutes(10)),
                          !.resolution_events[n + 1] = Append(@, e.post + Minutes(10)),
                          !.incidents[RootFor(x, s)] = Restored(@, e.post)]
  <2>1. AddCase(x, s, a) = made
    BY <1>8, <1>11, Zenon
  <2>2. e = Downstream(BestAction(s), ActionAt(x, s, a), StartFor(x) + Minutes(9))
    BY <1>11, Zenon DEF EffectFor
  <2>3. Manifest(ruled, n + 1) = m
    BY <1>3, <1>2, <1>9, Zenon DEF Manifest
  <2>4. ScenarioOf(ruled, n + 1) = s /\ Manifest(ruled, n + 1).root = RootFor(x, s)
    BY <1>5, <2>3, Zenon DEF ScenarioOf
  <2>5. made = IF ~Restores(s) \/ e.post = NoTime THEN done ELSE healed
    <3> DEFINE sc == ScenarioOf(ruled, n + 1)
               e1 == Downstream(BestAction(sc), ActionAt(x, s, a), StartFor(x) + Minutes(9))
               done1 == [ruled EXCEPT !.work_orders[n + 1] = @ \o e1.work,
                                      !.field_evidence[n + 1] = @ \o e1.evidence,
                                      !.mrs[n + 1] = @ \o e1.mr]
               healed1 == [done1 EXCEPT
                             !.telemetry_tr181[n + 1] = Append(@, e1.post),
                             !.validation_events[n + 1] = Append(@, e1.post + Minutes(10)),
                             !.resolution_events[n + 1] = Append(@, e1.post + Minutes(10)),
                             !.incidents[Manifest(ruled, n + 1).root] = Restored(@, e1.post)]
    <3>1. made = IF ~Restores(sc) \/ e1.post = NoTime THEN done1 ELSE healed1
      <4> HIDE DEF ruled, n
      <4> QED BY Zenon DEF Materialize
    <3>2. sc = s /\ e1 = e
      BY <2>2, <2>4, Zenon
    <3>3. done1 = done
      <4> HIDE DEF e1, e, ruled, n, sc
      <4> QED BY <3>2, Zenon
    <3>4. healed1 = healed
      <4> HIDE DEF e1, e, ruled, n, done1, done, sc
      <4> QED BY <2>4, <3>2, <3>3, Zenon
    <3> HIDE DEF made, done1, healed1, done, healed, e, e1, sc
    <3> QED BY <3>1, <3>2, <3>3, <3>4
  <2>6. (~Restores(s) \/ e.post = NoTime) <=> ~Heals(x, s, a)
    BY <1>11 DEF Heals
  <2>7. AddCase(x, s, a) = IF Heals(x, s, a) THEN healed ELSE done
    <3> HIDE DEF made, healed, done
    <3> QED BY <2>1, <2>5, <2>6
  <2>8. /\ [Append(x.work_orders, << >>) EXCEPT ![n + 1] = @ \o e.work]
             = Append(x.work_orders, e.work)
        /\ [Append(x.field_evidence, << >>) EXCEPT ![n + 1] = @ \o e.evidence]
             = Append(x.field_evidence, e.evidence)
        /\ [Append(x.mrs, << >>) EXCEPT ![n + 1] = @ \o e.mr]
             = Append(x.mrs, e.mr)
    <3> HIDE DEF e, n
    <3>1. [Append(x.work_orders, << >>) EXCEPT ![n + 1] = @ \o e.work]
            = Append(x.work_orders, e.work)
      <4>1. x.work_orders \in Seq(Seq(Works)) /\ Len(x.work_orders) = n BY <1>1, Zenon
      <4>2. e.work \in Seq(Works) BY DEF e
      <4> QED BY <4>1, <4>2, FilledBy, Zenon
    <3>2. [Append(x.field_evidence, << >>) EXCEPT ![n + 1] = @ \o e.evidence]
            = Append(x.field_evidence, e.evidence)
      <4>1. x.field_evidence \in Seq(Seq(Proofs)) /\ Len(x.field_evidence) = n BY <1>1, Zenon
      <4>2. e.evidence \in Seq(Proofs) BY DEF e
      <4> QED BY <4>1, <4>2, FilledBy, Zenon
    <3>3. [Append(x.mrs, << >>) EXCEPT ![n + 1] = @ \o e.mr] = Append(x.mrs, e.mr)
      <4>1. x.mrs \in Seq(Seq(MRs)) /\ Len(x.mrs) = n BY <1>1, Zenon
      <4>2. e.mr \in Seq(MRs) BY DEF e
      <4> QED BY <4>1, <4>2, FilledBy, Zenon
    <3> QED BY <3>1, <3>2, <3>3, Zenon
  <2>9. /\ [Append(x.telemetry_tr181, << >>) EXCEPT ![n + 1] = Append(@, e.post)]
             = Append(x.telemetry_tr181, <<e.post>>)
        /\ [Append(x.validation_events, << >>) EXCEPT ![n + 1] = Append(@, e.post + Minutes(10))]
             = Append(x.validation_events, <<e.post + Minutes(10)>>)
        /\ [Append(x.resolution_events, << >>) EXCEPT ![n + 1] = Append(@, e.post + Minutes(10))]
             = Append(x.resolution_events, <<e.post + Minutes(10)>>)
    <3> DEFINE t == e.post + Minutes(10)
    <3>1. e.post \in Int /\ t \in Int
      BY DEF Minutes
    <3> HIDE DEF e, n, t
    <3>2. [Append(x.telemetry_tr181, << >>) EXCEPT ![n + 1] = Append(@, e.post)]
            = Append(x.telemetry_tr181, <<e.post>>)
      <4>1. x.telemetry_tr181 \in Seq(Seq(Int)) /\ Len(x.telemetry_tr181) = n BY <1>1, Zenon
      <4> QED BY <3>1, <4>1, FilledWith, Zenon
    <3>3. [Append(x.validation_events, << >>) EXCEPT ![n + 1] = Append(@, t)]
            = Append(x.validation_events, <<t>>)
      <4>1. x.validation_events \in Seq(Seq(Int)) /\ Len(x.validation_events) = n BY <1>1, Zenon
      <4> QED BY <3>1, <4>1, FilledWith, Zenon
    <3>4. [Append(x.resolution_events, << >>) EXCEPT ![n + 1] = Append(@, t)]
            = Append(x.resolution_events, <<t>>)
      <4>1. x.resolution_events \in Seq(Seq(Int)) /\ Len(x.resolution_events) = n BY <1>1, Zenon
      <4> QED BY <3>1, <4>1, FilledWith, Zenon
    <3> QED BY <3>2, <3>3, <3>4, Zenon DEF t
  <2>10. /\ DOMAIN done = Datasets
         /\ done.scenario_manifests = ruled.scenario_manifests
         /\ done.incidents = ruled.incidents
         /\ done.work_orders = [ruled.work_orders EXCEPT ![n + 1] = @ \o e.work]
         /\ done.field_evidence = [ruled.field_evidence EXCEPT ![n + 1] = @ \o e.evidence]
         /\ done.mrs = [ruled.mrs EXCEPT ![n + 1] = @ \o e.mr]
         /\ done.telemetry_tr181 = ruled.telemetry_tr181
         /\ done.validation_events = ruled.validation_events
         /\ done.resolution_events = ruled.resolution_events
         /\ done.agent_decisions = ruled.agent_decisions
         /\ done.reconciliation_records = ruled.reconciliation_records
         /\ done.human_decisions = ruled.human_decisions
         /\ done.action_events = ruled.action_events
         /\ done.care_tickets = ruled.care_tickets
         /\ done.care_ticket_reviews = ruled.care_ticket_reviews
    <3>1. DOMAIN ruled = Datasets BY <1>9
    <3> HIDE DEF ruled, n, e
    <3> QED BY <3>1 DEF Datasets
  <2>11. /\ DOMAIN healed = Datasets
         /\ healed.scenario_manifests = done.scenario_manifests
         /\ healed.incidents = [done.incidents EXCEPT ![RootFor(x, s)] = Restored(@, e.post)]
         /\ healed.work_orders = done.work_orders
         /\ healed.field_evidence = done.field_evidence
         /\ healed.mrs = done.mrs
         /\ healed.telemetry_tr181 = [done.telemetry_tr181 EXCEPT ![n + 1] = Append(@, e.post)]
         /\ healed.validation_events =
              [done.validation_events EXCEPT ![n + 1] = Append(@, e.post + Minutes(10))]
         /\ healed.resolution_events =
              [done.resolution_events EXCEPT ![n + 1] = Append(@, e.post + Minutes(10))]
         /\ healed.agent_decisions = done.agent_decisions
         /\ healed.reconciliation_records = done.reconciliation_records
         /\ healed.human_decisions = done.human_decisions
         /\ healed.action_events = done.action_events
         /\ healed.care_tickets = done.care_tickets
         /\ healed.care_ticket_reviews = done.care_ticket_reviews
    <3>1. DOMAIN done = Datasets BY <2>10
    <3> HIDE DEF done, n, e
    <3> QED BY <3>1 DEF Datasets
  <2> HIDE DEF done, healed, ruled, n, e, m, human, live
  <2>12. CASE Heals(x, s, a)
    <3>1. y = healed BY <2>7, <2>12
    <3> HIDE DEF y
    <3>2. y.incidents =
             IF Heals(x, s, a)
             THEN [IncidentsFor(x, s) EXCEPT ![RootFor(x, s)] = Restored(@, e.post)]
             ELSE IncidentsFor(x, s)
      BY <1>9, <2>10, <2>11, <2>12, <3>1, Zenon
    <3>3. /\ y.work_orders = Append(x.work_orders, e.work)
          /\ y.field_evidence = Append(x.field_evidence, e.evidence)
          /\ y.mrs = Append(x.mrs, e.mr)
      <4>1. y.work_orders = Append(x.work_orders, e.work)
        <5>1. ruled.work_orders = Append(x.work_orders, << >>) BY <1>9, Zenon
        <5>2. y.work_orders = [ruled.work_orders EXCEPT ![n + 1] = @ \o e.work]
          BY <2>10, <2>11, <3>1, Zenon
        <5> QED BY <2>8, <5>1, <5>2, Zenon
      <4>2. y.field_evidence = Append(x.field_evidence, e.evidence)
        <5>1. ruled.field_evidence = Append(x.field_evidence, << >>) BY <1>9, Zenon
        <5>2. y.field_evidence = [ruled.field_evidence EXCEPT ![n + 1] = @ \o e.evidence]
          BY <2>10, <2>11, <3>1, Zenon
        <5> QED BY <2>8, <5>1, <5>2, Zenon
      <4>3. y.mrs = Append(x.mrs, e.mr)
        <5>1. ruled.mrs = Append(x.mrs, << >>) BY <1>9, Zenon
        <5>2. y.mrs = [ruled.mrs EXCEPT ![n + 1] = @ \o e.mr]
          BY <2>10, <2>11, <3>1, Zenon
        <5> QED BY <2>8, <5>1, <5>2, Zenon
      <4> QED BY <4>1, <4>2, <4>3
    <3>4. /\ y.telemetry_tr181 = Append(x.telemetry_tr181, <<e.post>>)
          /\ y.validation_events = Append(x.validation_events, <<e.post + Minutes(10)>>)
          /\ y.resolution_events = Append(x.resolution_events, <<e.post + Minutes(10)>>)
      <4>1. y.telemetry_tr181 = Append(x.telemetry_tr181, <<e.post>>)
        <5>1. done.telemetry_tr181 = Append(x.telemetry_tr181, << >>) BY <1>9, <2>10, Zenon
        <5>2. y.telemetry_tr181 = [done.telemetry_tr181 EXCEPT ![n + 1] = Append(@, e.post)]
          BY <2>11, <3>1, Zenon
        <5> QED BY <2>9, <5>1, <5>2, Zenon
      <4>2. y.validation_events = Append(x.validation_events, <<e.post + Minutes(10)>>)
        <5>1. done.validation_events = Append(x.validation_events, << >>) BY <1>9, <2>10, Zenon
        <5>2. y.validation_events = [done.validation_events EXCEPT ![n + 1] = Append(@, e.post + Minutes(10))]
          BY <2>11, <3>1, Zenon
        <5> QED BY <2>9, <5>1, <5>2, Zenon
      <4>3. y.resolution_events = Append(x.resolution_events, <<e.post + Minutes(10)>>)
        <5>1. done.resolution_events = Append(x.resolution_events, << >>) BY <1>9, <2>10, Zenon
        <5>2. y.resolution_events = [done.resolution_events EXCEPT ![n + 1] = Append(@, e.post + Minutes(10))]
          BY <2>11, <3>1, Zenon
        <5> QED BY <2>9, <5>1, <5>2, Zenon
      <4> QED BY <4>1, <4>2, <4>3, Zenon
    <3> QED BY <1>9, <2>10, <2>11, <2>12, <3>1, <3>2, <3>3, <3>4, Zenon DEF Added, m, human, e
  <2>13. CASE ~Heals(x, s, a)
    <3>1. y = done BY <2>7, <2>13
    <3> HIDE DEF y
    <3>2. y.incidents =
             IF Heals(x, s, a)
             THEN [IncidentsFor(x, s) EXCEPT ![RootFor(x, s)] = Restored(@, e.post)]
             ELSE IncidentsFor(x, s)
      BY <1>9, <2>10, <2>13, <3>1, Zenon
    <3>3. /\ y.work_orders = Append(x.work_orders, e.work)
          /\ y.field_evidence = Append(x.field_evidence, e.evidence)
          /\ y.mrs = Append(x.mrs, e.mr)
      <4>1. /\ ruled.work_orders = Append(x.work_orders, << >>)
            /\ ruled.field_evidence = Append(x.field_evidence, << >>)
            /\ ruled.mrs = Append(x.mrs, << >>)
        BY <1>9, Zenon
      <4> QED BY <2>8, <2>10, <3>1, <4>1, Zenon
    <3> QED BY <1>9, <2>10, <2>13, <3>1, <3>2, <3>3, Zenon DEF Added, m, human, e
  <2> QED BY <2>12, <2>13
<1> QED BY <1>10, <1>11

-----------------------------------------------------------------------------
(* The invariant *)

\* What was decided and done for a case follows from its manifest, the answer to
\* it and whether it waits for a live decision.
CaseRows(x, c) ==
  LET m == Manifest(x, c)
      human == x.reconciliation_records[c]
      e == Downstream(BestAction(m.scenario), m.at + HistoricalDelay(human), m.at + Minutes(9))
  IN /\ human = NeedsHuman(x.agent_decisions[c], m.scenario, m.seq > 0)
     /\ \/ /\ human /\ m.seq = 0
           /\ x.human_decisions[c] = Pending
           /\ x.action_events[c] =
                [status |-> "BLOCKED_PENDING_HUMAN", at |-> m.at + Minutes(10)]
           /\ x.work_orders[c] = << >> /\ x.field_evidence[c] = << >> /\ x.mrs[c] = << >>
           /\ x.telemetry_tr181[c] = << >> /\ x.validation_events[c] = << >>
           /\ x.resolution_events[c] = << >>
        \/ /\ x.human_decisions[c] =
                IF human THEN HistoricalApproval(m.at + Minutes(11), m.seq > 0) ELSE NotRequired
           /\ x.action_events[c] =
                [status |-> "SIMULATED_EXECUTED", at |-> m.at + HistoricalDelay(human)]
           /\ x.work_orders[c] = e.work /\ x.field_evidence[c] = e.evidence /\ x.mrs[c] = e.mr
           /\ IF Restores(m.scenario)
              THEN /\ x.telemetry_tr181[c] = <<e.post>>
                   /\ x.validation_events[c] = <<e.post + Minutes(10)>>
                   /\ x.resolution_events[c] = <<e.post + Minutes(10)>>
              ELSE /\ x.telemetry_tr181[c] = << >> /\ x.validation_events[c] = << >>
                   /\ x.resolution_events[c] = << >>

Before(x, c) == {e \in Occurrences(x, ScenarioOf(x, c)) : e < c}

\* A repeat follows the attempt before it on an incident that was there, the
\* second of its scenario or later, and only a first one waits.
Placed(x, c) ==
  LET m == Manifest(x, c)
  IN /\ m.at = Minutes(2 * (c - 1))
     /\ c \in Roots(x) <=> m.seq = 0
     /\ m.seq = 0 => m.root = c /\ m.parent = 0
     /\ m.seq > 0 =>
          /\ m.root \in Roots(x) /\ m.parent \in Attempts(x, m.root) /\ m.parent < c
          /\ Manifest(x, m.parent).seq = m.seq - 1
          /\ \A e \in Attempts(x, m.root) : e <= m.parent \/ e >= c
          /\ x.human_decisions[m.root].status # "PENDING"
          /\ Cardinality(Before(x, c)) > 1
     /\ x.human_decisions[c].status = "PENDING" => Before(x, c) = {}

Retries(x, r) == {c \in Attempts(x, r) : Manifest(x, c).seq > 0}
Reopenings(x, r) ==
  {c \in Attempts(x, r) : Manifest(x, c).seq > 0 /\ Restoration(x, Manifest(x, c).parent)}

\* An incident is in the state its latest attempt left it in.
IncidentRow(x, r) ==
  LET i == x.incidents[r]
      last == Latest(Attempts(x, r))
  IN /\ i.repeats = Manifest(x, last).seq
     /\ i.repeats = Cardinality(Retries(x, r))
     /\ i.reopens = Cardinality(Reopenings(x, r))
     /\ i.status = "CLOSED" <=> Restoration(x, last)
     /\ i.status = "CLOSED" =>
          /\ x.resolution_events[last] = <<i.resolved>>
          /\ i.closed = i.resolved + Minutes(5)
          /\ i.opened <= i.resolved /\ i.resolved >= 0
     /\ i.status = "OPEN" => i.resolved = NoTime /\ i.closed = NoTime
     /\ i.opened <= Manifest(x, r).at + Minutes(5)

Kept(x) ==
  /\ Shape(x)
  /\ \A c \in Cases(x) : CaseRows(x, c) /\ Placed(x, c)
  /\ \A r \in Roots(x) : IncidentRow(x, r)

-----------------------------------------------------------------------------
(* The incident a repeat hangs on *)

LEMMA LatestIs ==
  ASSUME NEW n \in Nat, NEW S \in SUBSET (1..n), S # {}
  PROVE  Latest(S) \in S /\ \A e \in S : e <= Latest(S)
<1> DEFINE U == {k \in Nat : \A e \in S : e <= k}
<1>1. n \in U /\ U \in SUBSET Nat
  OBVIOUS
<1>2. PICK k \in U : \A l \in U : k <= l
  <2> HIDE DEF U
  <2> QED BY <1>1, LeastNumber
<1>3. k \in S
  <2> SUFFICES ASSUME k \notin S PROVE FALSE
    OBVIOUS
  <2>1. \A e \in S : e <= k - 1
    BY <1>2
  <2>2. k - 1 \in Nat
    <3>1. PICK e \in S : TRUE OBVIOUS
    <3>2. e \in 1..n /\ e <= k - 1 /\ k \in Nat BY <2>1, <1>2
    <3> QED BY <3>2
  <2> QED BY <1>2, <2>1, <2>2
<1>4. \A e \in S : e <= k
  BY <1>2
<1> QED BY <1>3, <1>4 DEF Latest

\* With two occurrences there is a second one.
LEMMA SecondIsThere ==
  ASSUME NEW n \in Nat, NEW S \in SUBSET (1..n), Cardinality(S) > 1
  PROVE  \E c \in S : Cardinality({e \in S : e < c}) = 1
<1>1. IsFiniteSet(S) /\ S # {}
  <2>1. IsFiniteSet(1..n) BY FS_Interval
  <2>2. IsFiniteSet(S) BY <2>1, FS_Subset
  <2>3. S # {} BY FS_EmptySet
  <2> QED BY <2>2, <2>3
<1>2. PICK b \in S : \A e \in S : b <= e
  BY <1>1, LeastNumber
<1>3. Cardinality(S \ {b}) = Cardinality(S) - 1 /\ IsFiniteSet(S \ {b}) /\ Cardinality(S) \in Nat
  BY <1>1, FS_RemoveElement, FS_CardinalityType
<1>4. S \ {b} # {}
  BY <1>3, FS_EmptySet
<1>5. PICK c \in S \ {b} : \A e \in S \ {b} : c <= e
  <2>1. S \ {b} \in SUBSET Nat OBVIOUS
  <2> QED BY <2>1, <1>4, LeastNumber
<1>6. {e \in S : e < c} = {b}
  <2>1. b \in Nat /\ c \in Nat /\ b < c
    BY <1>2, <1>5
  <2>2. ASSUME NEW e \in S, e < c PROVE e = b
    BY <1>5, <2>1, <2>2
  <2> QED BY <2>1, <2>2
<1>7. Cardinality({b}) = 1
  BY FS_Singleton
<1> QED BY <1>5, <1>6, <1>7

LEMMA AttemptsAre ==
  ASSUME NEW x, Shape(x), NEW r
  PROVE  Attempts(x, r) \in SUBSET (1..Size(x))
BY SizeIs, Zenon DEF Attempts

\* The root of the next case of the scenario s, when that is a repeat.
LEMMA RepeatIs ==
  ASSUME NEW x, Kept(x), NEW s \in Scenarios, Repeats(x, s)
  PROVE  /\ RootFor(x, s) \in Roots(x)
         /\ x.human_decisions[RootFor(x, s)].status # "PENDING"
         /\ Cardinality(Occurrences(x, s)) > 1
         /\ ParentFor(x, s) \in Attempts(x, RootFor(x, s))
         /\ ParentFor(x, s) = Latest(Attempts(x, RootFor(x, s)))
         /\ \A e \in Attempts(x, RootFor(x, s)) : e <= ParentFor(x, s)
         /\ SeqFor(x, s) = x.incidents[RootFor(x, s)].repeats + 1
         /\ Manifest(x, ParentFor(x, s)).seq = SeqFor(x, s) - 1
         /\ x.incidents[RootFor(x, s)] \in Incidents
<1> DEFINE n == Size(x)
           S == Occurrences(x, s)
           r == RepeatRoot(x, s)
<1>1. Shape(x) /\ n \in Nat /\ Cases(x) = 1..n
  BY SizeIs DEF Kept
<1>2. S \in SUBSET (1..n) /\ IsFiniteSet(S) /\ Cardinality(S) \in Nat
  <2>1. S \in SUBSET (1..n) BY <1>1 DEF Occurrences
  <2>2. IsFiniteSet(1..n) BY <1>1, FS_Interval
  <2> HIDE DEF S
  <2> QED BY <2>1, <2>2, FS_Subset, FS_CardinalityType
<1>3. Cardinality(S) > 1
  BY <1>2 DEF Repeats, IsRepeat
<1>4. r \in S /\ Cardinality({e \in S : e < r}) = 1
  <2>1. \E c \in S : Cardinality({e \in S : e < c}) = 1
    <3> HIDE DEF S, n
    <3> QED BY <1>1, <1>2, <1>3, SecondIsThere
  <2> QED BY <2>1 DEF RepeatRoot
<1>5. r \in Cases(x) /\ ScenarioOf(x, r) = s
  BY <1>4 DEF Occurrences
<1>6. Before(x, r) = {e \in S : e < r}
  BY <1>5, Zenon DEF Before
<1>7. Before(x, r) # {} /\ ~(Cardinality(Before(x, r)) > 1)
  BY <1>4, <1>6, FS_EmptySet
<1>8. Placed(x, r) /\ Manifest(x, r) \in Manifests
  BY <1>1, <1>5, SizeIs DEF Kept
<1>9. Manifest(x, r).seq = 0 /\ r \in Roots(x) /\ x.human_decisions[r].status # "PENDING"
      /\ Manifest(x, r).root = r
  BY <1>7, <1>8 DEF Placed, Manifests
<1>10. RootFor(x, s) = r
  BY Zenon DEF RootFor
<1>11. r \in Attempts(x, r) /\ Attempts(x, r) \in SUBSET (1..n)
  BY <1>1, <1>5, <1>9, AttemptsAre DEF Attempts
<1>12. /\ Latest(Attempts(x, r)) \in Attempts(x, r)
       /\ \A e \in Attempts(x, r) : e <= Latest(Attempts(x, r))
  <2> HIDE DEF n, r
  <2> QED BY <1>1, <1>11, LatestIs
<1>13. ParentFor(x, s) = Latest(Attempts(x, r))
  BY <1>10, Zenon DEF ParentFor
<1>14. IncidentRow(x, r) /\ x.incidents[r] \in Incidents
  BY <1>1, <1>9 DEF Kept, Shape
<1>15. x.incidents[r].repeats = Manifest(x, ParentFor(x, s)).seq /\ x.incidents[r].repeats \in Nat
  BY <1>13, <1>14 DEF IncidentRow, Incidents
<1>16. SeqFor(x, s) = x.incidents[r].repeats + 1
  BY <1>10, Zenon DEF SeqFor
<1> HIDE DEF r, S, n
<1> QED BY <1>3, <1>9, <1>10, <1>12, <1>13, <1>14, <1>15, <1>16 DEF S

LEMMA FirstIs ==
  ASSUME NEW x, NEW s, ~Repeats(x, s)
  PROVE  RootFor(x, s) = Size(x) + 1 /\ ParentFor(x, s) = 0 /\ SeqFor(x, s) = 0
BY DEF RootFor, ParentFor, SeqFor

LEMMA ManifestIs ==
  ASSUME NEW x, Kept(x), NEW s \in Scenarios
  PROVE  /\ ManifestFor(x, s) \in Manifests
         /\ SeqFor(x, s) \in Nat
         /\ SeqFor(x, s) > 0 <=> Repeats(x, s)
         /\ StartFor(x) \in Nat
<1>1. Shape(x) /\ Size(x) \in Nat /\ Roots(x) \subseteq 1..Size(x)
  BY SizeIs DEF Kept
<1>2. StartFor(x) \in Nat
  BY <1>1 DEF StartFor, Minutes
<1>3. CASE Repeats(x, s)
  <2>1. /\ RootFor(x, s) \in Roots(x) /\ ParentFor(x, s) \in Attempts(x, RootFor(x, s))
        /\ SeqFor(x, s) = x.incidents[RootFor(x, s)].repeats + 1
        /\ x.incidents[RootFor(x, s)] \in Incidents
    BY <1>3, RepeatIs
  <2>2. RootFor(x, s) \in Nat /\ ParentFor(x, s) \in Nat
    BY <1>1, <2>1, AttemptsAre
  <2>3. SeqFor(x, s) \in Nat /\ SeqFor(x, s) > 0
    BY <2>1 DEF Incidents
  <2> QED BY <1>2, <1>3, <2>2, <2>3 DEF ManifestFor, Manifests
<1>4. CASE ~Repeats(x, s)
  BY <1>1, <1>2, <1>4, FirstIs DEF ManifestFor, Manifests
<1> QED BY <1>3, <1>4

LEMMA HumanIs ==
  ASSUME NEW x, NEW s \in Scenarios, NEW a \in Agents
  PROVE  /\ HumanFor(x, s, a) \in BOOLEAN
         /\ Waits(x, s, a) => HumanFor(x, s, a) /\ ~Repeats(x, s)
         /\ Repeats(x, s) => HumanFor(x, s, a)
<1>1. HumanFor(x, s, a) \in BOOLEAN
  BY DEF HumanFor, NeedsHuman
<1>2. Waits(x, s, a) => ~Repeats(x, s)
  BY FS_EmptySet DEF Waits, Repeats, IsRepeat
<1>3. Repeats(x, s) => HumanFor(x, s, a)
  BY DEF HumanFor, NeedsHuman
<1> QED BY <1>1, <1>2, <1>3 DEF Waits

LEMMA EffectIs ==
  ASSUME NEW x, Kept(x), NEW s \in Scenarios, NEW a \in Agents
  PROVE  /\ EffectFor(x, s, a).work \in Seq(Works) /\ EffectFor(x, s, a).evidence \in Seq(Proofs)
         /\ EffectFor(x, s, a).mr \in Seq(MRs) /\ EffectFor(x, s, a).post \in Int
         /\ Heals(x, s, a) => /\ EffectFor(x, s, a).post >= StartFor(x)
                              /\ EffectFor(x, s, a).post # NoTime
<1> DEFINE e == EffectFor(x, s, a)
           at == ActionAt(x, s, a)
           dx == StartFor(x) + Minutes(9)
           b == BestAction(s)
           f == Downstream(b, at, dx)
<1>1. StartFor(x) \in Nat BY ManifestIs
<1>2. /\ at \in Int /\ dx \in Int /\ at >= StartFor(x)
      /\ dx = at - Minutes(2) \/ dx = at - Minutes(3)
  BY <1>1 DEF ActionAt, HistoricalDelay, Minutes
<1>3. /\ Restores(s) <=> b # "collect_evidence"
      /\ b \in {"remote_repair", "dispatch_clean", "create_mr", "collect_evidence", "cpe_swap"}
      /\ Followed(b, at, f)
  <2> HIDE DEF at, dx
  <2> QED BY <1>2, DownstreamFollows
<1>4. CASE Waits(x, s, a)
  <2>1. e = NothingDone BY <1>4, Zenon DEF EffectFor
  <2>2. /\ NothingDone.work = << >> /\ NothingDone.evidence = << >> /\ NothingDone.mr = << >>
        /\ NothingDone.post = NoTime
    BY DEF NothingDone
  <2>3. << >> \in Seq(Works) /\ << >> \in Seq(Proofs) /\ << >> \in Seq(MRs)
    OBVIOUS
  <2> QED BY <1>4, <2>1, <2>2, <2>3, NoTimeIsInt DEF Heals
<1>5. CASE ~Waits(x, s, a)
  <2>1. e = f BY <1>5, Zenon DEF EffectFor
  <2>2. /\ f.work \in Seq(Works) /\ f.evidence \in Seq(Proofs) /\ f.mr \in Seq(MRs)
        /\ f.post \in Int
    <3> HIDE DEF f, b, at, dx
    <3> QED BY <1>3, Zenon DEF Followed
  <2>3. Restores(s) => f.post >= at
    <3>1. Minutes(10) \in Nat /\ Minutes(95) \in Nat /\ Minutes(115) \in Nat
      BY DEF Minutes
    <3> HIDE DEF f, b, at, dx
    <3>2. /\ b = "remote_repair" => f.post = at + Minutes(10)
          /\ b \in {"dispatch_clean", "cpe_swap"} => f.post = at + Minutes(95)
          /\ b = "create_mr" => f.post = at + Minutes(115)
      BY <1>3, Zenon DEF Followed
    <3> QED BY <1>2, <1>3, <3>1, <3>2
  <2>4. Restores(s) => f.post >= StartFor(x) /\ f.post >= 0
    <3> HIDE DEF f, b, at, dx
    <3> QED BY <1>1, <1>2, <2>2, <2>3
  <2>5. Restores(s) => f.post # NoTime
    <3> HIDE DEF f, b, at, dx
    <3> QED BY <2>2, <2>4, NoTimeIsInt
  <2> HIDE DEF e, f, b, at, dx
  <2> QED BY <1>5, <2>1, <2>2, <2>4, <2>5, Zenon DEF Heals, e
<1> QED BY <1>4, <1>5

-----------------------------------------------------------------------------
(* The turn of the loop keeps the invariant *)

SameRows(x, y, c) ==
  /\ Manifest(y, c) = Manifest(x, c)
  /\ y.agent_decisions[c] = x.agent_decisions[c]
  /\ y.reconciliation_records[c] = x.reconciliation_records[c]
  /\ y.human_decisions[c] = x.human_decisions[c]
  /\ y.action_events[c] = x.action_events[c]
  /\ y.work_orders[c] = x.work_orders[c]
  /\ y.field_evidence[c] = x.field_evidence[c]
  /\ y.mrs[c] = x.mrs[c]
  /\ y.telemetry_tr181[c] = x.telemetry_tr181[c]
  /\ y.validation_events[c] = x.validation_events[c]
  /\ y.resolution_events[c] = x.resolution_events[c]

LastRows(x, s, a, y, c) ==
  LET e == EffectFor(x, s, a)
  IN /\ Manifest(y, c) = ManifestFor(x, s)
     /\ y.agent_decisions[c] = a
     /\ y.reconciliation_records[c] = HumanFor(x, s, a)
     /\ y.human_decisions[c] = DecisionFor(x, s, a)
     /\ y.action_events[c] = ActionFor(x, s, a)
     /\ y.work_orders[c] = e.work
     /\ y.field_evidence[c] = e.evidence
     /\ y.mrs[c] = e.mr
     /\ y.telemetry_tr181[c] = IF Heals(x, s, a) THEN <<e.post>> ELSE << >>
     /\ y.validation_events[c] = IF Heals(x, s, a) THEN <<e.post + Minutes(10)>> ELSE << >>
     /\ y.resolution_events[c] = IF Heals(x, s, a) THEN <<e.post + Minutes(10)>> ELSE << >>

HealedIncidents(x, s, a) ==
  IF Heals(x, s, a)
  THEN [IncidentsFor(x, s) EXCEPT ![RootFor(x, s)] = Restored(@, EffectFor(x, s, a).post)]
  ELSE IncidentsFor(x, s)

LEMMA DecisionIs ==
  ASSUME NEW x, Kept(x), NEW s \in Scenarios, NEW a \in Agents
  PROVE  /\ DecisionFor(x, s, a) \in Humans /\ ActionFor(x, s, a) \in Actions
         /\ DecisionFor(x, s, a).status = "PENDING" <=> Waits(x, s, a)
<1>1. StartFor(x) \in Nat /\ HumanFor(x, s, a) \in BOOLEAN /\ Repeats(x, s) \in BOOLEAN
  BY ManifestIs, HumanIs DEF Repeats, IsRepeat
<1>2. /\ StartFor(x) + Minutes(10) \in Int /\ StartFor(x) + Minutes(11) \in Int
      /\ ActionAt(x, s, a) \in Int
  BY <1>1 DEF ActionAt, HistoricalDelay, Minutes
<1>3. /\ Pending \in Humans /\ Pending.status = "PENDING"
      /\ NotRequired \in Humans /\ NotRequired.status = "NOT_REQUIRED"
  BY NoTimeIsInt DEF Pending, NotRequired, Humans
<1>4. LET h == HistoricalApproval(StartFor(x) + Minutes(11), Repeats(x, s))
      IN h \in Humans /\ h.status = "APPROVED"
  BY <1>1, <1>2 DEF HistoricalApproval, Humans
<1>5. DecisionFor(x, s, a) \in Humans /\ (DecisionFor(x, s, a).status = "PENDING" <=> Waits(x, s, a))
  BY <1>3, <1>4, Zenon DEF DecisionFor
<1>6. ActionFor(x, s, a) \in Actions
  BY <1>2 DEF ActionFor, Actions
<1> QED BY <1>5, <1>6

LEMMA IncidentsAre ==
  ASSUME NEW x, Kept(x), NEW s \in Scenarios, NEW a \in Agents
  PROVE  LET is == HealedIncidents(x, s, a)
             r == RootFor(x, s)
             old == IF Repeats(x, s) THEN [Reopened(x.incidents[r]) EXCEPT !.repeats = SeqFor(x, s)]
                    ELSE NewIncident(StartFor(x) + Minutes(5))
         IN /\ DOMAIN is = Roots(x) \union {r}
            /\ is \in [Roots(x) \union {r} -> Incidents]
            /\ \A q \in Roots(x) : q # r => is[q] = x.incidents[q]
            /\ is[r] = IF Heals(x, s, a) THEN Restored(old, EffectFor(x, s, a).post) ELSE old
            /\ old \in Incidents
<1> DEFINE r == RootFor(x, s)
           e == EffectFor(x, s, a)
           first == NewIncident(StartFor(x) + Minutes(5))
           again == [Reopened(x.incidents[r]) EXCEPT !.repeats = SeqFor(x, s)]
           old == IF Repeats(x, s) THEN again ELSE first
           is0 == IncidentsFor(x, s)
           is == HealedIncidents(x, s, a)
<1>1. x.incidents \in [Roots(x) -> Incidents] /\ Roots(x) \subseteq 1..Size(x) /\ Size(x) \in Nat
  BY SizeIs DEF Kept, Shape
<1>2. StartFor(x) \in Nat /\ SeqFor(x, s) \in Nat /\ e.post \in Int
  BY ManifestIs, EffectIs
<1>3. first \in Incidents
  BY <1>2, NoTimeIsInt DEF NewIncident, Incidents, Minutes
<1>4. ASSUME NEW i \in Incidents PROVE [Reopened(i) EXCEPT !.repeats = SeqFor(x, s)] \in Incidents
  <2>1. Reopened(i) \in Incidents
    <3> DEFINE k == i.reopens + 1
    <3>1. k \in Nat /\ NoTime \in Int
      BY NoTimeIsInt DEF Incidents
    <3> HIDE DEF k
    <3>2. [i EXCEPT !.status = "OPEN", !.resolved = NoTime, !.closed = NoTime, !.reopens = k]
            \in Incidents
      BY <3>1 DEF Incidents
    <3> QED BY <3>2, Zenon DEF Reopened, k
  <2> QED BY <1>2, <2>1 DEF Incidents
<1>5. ASSUME NEW i \in Incidents PROVE Restored(i, e.post) \in Incidents
  <2> DEFINE t == e.post + Minutes(10)
             u == e.post + Minutes(15)
  <2>1. t \in Int /\ u \in Int
    BY <1>2 DEF Minutes
  <2> HIDE DEF t, u
  <2>2. [i EXCEPT !.status = "CLOSED", !.resolved = t, !.closed = u] \in Incidents
    BY <2>1 DEF Incidents
  <2> QED BY <2>2, Zenon DEF Restored, t, u
<1>6. old \in Incidents
  <2>1. CASE Repeats(x, s)
    <3>1. x.incidents[r] \in Incidents BY <2>1, RepeatIs
    <3> QED BY <1>4, <2>1, <3>1
  <2> HIDE DEF first, again
  <2> QED BY <1>3, <2>1
<1>7. /\ is0 \in [Roots(x) \union {r} -> Incidents] /\ is0[r] = old
      /\ \A q \in Roots(x) : q # r => is0[q] = x.incidents[q]
  <2>1. CASE Repeats(x, s)
    <3>1. is0 = [x.incidents EXCEPT ![r] = again] /\ r \in Roots(x) /\ old = again
      BY <2>1, RepeatIs, Zenon DEF IncidentsFor
    <3> HIDE DEF is0, r, again, old
    <3> QED BY <1>1, <1>6, <3>1
  <2>2. CASE ~Repeats(x, s)
    <3>1. /\ is0 = [q \in Roots(x) \union {r} |-> IF q = r THEN first ELSE x.incidents[q]]
          /\ old = first
      BY <2>2, FirstIs, Zenon DEF IncidentsFor
    <3> HIDE DEF is0, r, first, old
    <3> QED BY <1>1, <1>6, <3>1
  <2> QED BY <2>1, <2>2
<1>8. is = IF Heals(x, s, a) THEN [is0 EXCEPT ![r] = Restored(@, e.post)] ELSE is0
  BY Zenon DEF HealedIncidents
<1>9. /\ is \in [Roots(x) \union {r} -> Incidents]
      /\ is[r] = IF Heals(x, s, a) THEN Restored(old, e.post) ELSE old
      /\ \A q \in Roots(x) : q # r => is[q] = x.incidents[q]
  <2>1. Restored(old, e.post) \in Incidents BY <1>5, <1>6
  <2>2. CASE Heals(x, s, a)
    <3>1. is = [is0 EXCEPT ![r] = Restored(old, e.post)]
      BY <1>7, <1>8, <2>2, Zenon
    <3> HIDE DEF is, is0, old, e, r
    <3> QED BY <1>7, <2>1, <2>2, <3>1
  <2>3. CASE ~Heals(x, s, a)
    <3> HIDE DEF is, is0, old, e, r
    <3> QED BY <1>7, <1>8, <2>3
  <2> QED BY <2>2, <2>3
<1>10. DOMAIN is = Roots(x) \union {r}
  <2> HIDE DEF is, old, e, r
  <2> QED BY <1>9
<1> HIDE DEF is, r, e
<1> QED BY <1>6, <1>9, <1>10, Zenon DEF is, r, e

\* The rows q and one more, z, make p.
Grown(q, p, S, n, z) ==
  /\ p \in Seq(S) /\ Len(p) = n + 1 /\ DOMAIN p = 1..(n + 1)
  /\ \A c \in 1..n : p[c] = q[c]
  /\ p[n + 1] = z

LEMMA GrownIs ==
  ASSUME NEW S, NEW q \in Seq(S), NEW n, Len(q) = n, NEW z \in S
  PROVE  Grown(q, Append(q, z), S, n, z)
BY AppendIs DEF Grown

\* The old rows stay, the case has one more of each, and the datasets keep their
\* shape.
LEMMA RowsAppended ==
  ASSUME NEW x, Kept(x), NEW s \in Scenarios, NEW a \in Agents
  PROVE  LET y == AddCase(x, s, a)
             n == Size(x)
         IN /\ Shape(y) /\ Size(y) = n + 1
            /\ Cases(y) = Cases(x) \union {n + 1} /\ n + 1 \notin Cases(x)
            /\ \A c \in Cases(x) : SameRows(x, y, c)
            /\ LastRows(x, s, a, y, n + 1)
            /\ y.incidents = HealedIncidents(x, s, a)
            /\ Roots(y) = Roots(x) \union {RootFor(x, s)}
<1> DEFINE y == AddCase(x, s, a)
           n == Size(x)
           e == EffectFor(x, s, a)
           m == ManifestFor(x, s)
           t == IF Heals(x, s, a) THEN <<e.post>> ELSE << >>
           v == IF Heals(x, s, a) THEN <<e.post + Minutes(10)>> ELSE << >>
<1>1. /\ Shape(x) /\ n \in Nat /\ Cases(x) = 1..n /\ Roots(x) \subseteq 1..n
  BY SizeIs DEF Kept
<1>2. /\ m \in Manifests /\ HumanFor(x, s, a) \in BOOLEAN /\ DecisionFor(x, s, a) \in Humans
      /\ ActionFor(x, s, a) \in Actions /\ e.work \in Seq(Works) /\ e.evidence \in Seq(Proofs)
      /\ e.mr \in Seq(MRs) /\ e.post \in Int
  BY ManifestIs, HumanIs, DecisionIs, EffectIs
<1>3. t \in Seq(Int) /\ v \in Seq(Int)
  <2>1. e.post + Minutes(10) \in Int BY <1>2 DEF Minutes
  <2>2. << >> \in Seq(Int) /\ <<e.post>> \in Seq(Int) /\ <<e.post + Minutes(10)>> \in Seq(Int)
    <3> HIDE DEF e
    <3> QED BY <1>2, <2>1
  <2> HIDE DEF e
  <2> QED BY <2>2
<1>4. /\ DOMAIN y = Datasets
      /\ y.scenario_manifests = Append(x.scenario_manifests, m)
      /\ y.agent_decisions = Append(x.agent_decisions, a)
      /\ y.reconciliation_records = Append(x.reconciliation_records, HumanFor(x, s, a))
      /\ y.human_decisions = Append(x.human_decisions, DecisionFor(x, s, a))
      /\ y.action_events = Append(x.action_events, ActionFor(x, s, a))
      /\ y.work_orders = Append(x.work_orders, e.work)
      /\ y.field_evidence = Append(x.field_evidence, e.evidence)
      /\ y.mrs = Append(x.mrs, e.mr)
      /\ y.telemetry_tr181 = Append(x.telemetry_tr181, t)
      /\ y.validation_events = Append(x.validation_events, v)
      /\ y.resolution_events = Append(x.resolution_events, v)
      /\ y.incidents = HealedIncidents(x, s, a)
  <2>1. /\ SeqFor(x, s) > 0 <=> Repeats(x, s)
        /\ Heals(x, s, a) => e.post # NoTime
    BY ManifestIs, EffectIs
  <2>2. Added(x, s, a, e, y)
    BY <1>1, <1>2, <2>1, AddCaseIs
  <2> HIDE DEF y
  <2> QED BY <2>2, Zenon DEF Added, HealedIncidents
<1> HIDE DEF y, m, e, t, v
<1>5. Grown(x.scenario_manifests, y.scenario_manifests, Manifests, n, m)
  <2>1. x.scenario_manifests \in Seq(Manifests) /\ Len(x.scenario_manifests) = n
    BY <1>1 DEF Shape, Size
  <2> HIDE DEF n
  <2> QED BY <1>2, <1>4, <2>1, GrownIs
<1>6. Grown(x.agent_decisions, y.agent_decisions, Agents, n, a)
  <2>1. x.agent_decisions \in Seq(Agents) /\ Len(x.agent_decisions) = n
    BY <1>1 DEF Shape
  <2> HIDE DEF n
  <2> QED BY <1>2, <1>3, <1>4, <2>1, GrownIs
<1>7. Grown(x.reconciliation_records, y.reconciliation_records, BOOLEAN, n, HumanFor(x, s, a))
  <2>1. x.reconciliation_records \in Seq(BOOLEAN) /\ Len(x.reconciliation_records) = n
    BY <1>1 DEF Shape
  <2> HIDE DEF n
  <2> QED BY <1>2, <1>3, <1>4, <2>1, GrownIs
<1>8. Grown(x.human_decisions, y.human_decisions, Humans, n, DecisionFor(x, s, a))
  <2>1. x.human_decisions \in Seq(Humans) /\ Len(x.human_decisions) = n
    BY <1>1 DEF Shape
  <2> HIDE DEF n
  <2> QED BY <1>2, <1>3, <1>4, <2>1, GrownIs
<1>9. Grown(x.action_events, y.action_events, Actions, n, ActionFor(x, s, a))
  <2>1. x.action_events \in Seq(Actions) /\ Len(x.action_events) = n
    BY <1>1 DEF Shape
  <2> HIDE DEF n
  <2> QED BY <1>2, <1>3, <1>4, <2>1, GrownIs
<1>10. Grown(x.work_orders, y.work_orders, Seq(Works), n, e.work)
  <2>1. x.work_orders \in Seq(Seq(Works)) /\ Len(x.work_orders) = n
    BY <1>1 DEF Shape
  <2> HIDE DEF n
  <2> QED BY <1>2, <1>3, <1>4, <2>1, GrownIs
<1>11. Grown(x.field_evidence, y.field_evidence, Seq(Proofs), n, e.evidence)
  <2>1. x.field_evidence \in Seq(Seq(Proofs)) /\ Len(x.field_evidence) = n
    BY <1>1 DEF Shape
  <2> HIDE DEF n
  <2> QED BY <1>2, <1>3, <1>4, <2>1, GrownIs
<1>12. Grown(x.mrs, y.mrs, Seq(MRs), n, e.mr)
  <2>1. x.mrs \in Seq(Seq(MRs)) /\ Len(x.mrs) = n
    BY <1>1 DEF Shape
  <2> HIDE DEF n
  <2> QED BY <1>2, <1>3, <1>4, <2>1, GrownIs
<1>13. Grown(x.telemetry_tr181, y.telemetry_tr181, Seq(Int), n, t)
  <2>1. x.telemetry_tr181 \in Seq(Seq(Int)) /\ Len(x.telemetry_tr181) = n
    BY <1>1 DEF Shape
  <2> HIDE DEF n
  <2> QED BY <1>2, <1>3, <1>4, <2>1, GrownIs
<1>14. Grown(x.validation_events, y.validation_events, Seq(Int), n, v)
  <2>1. x.validation_events \in Seq(Seq(Int)) /\ Len(x.validation_events) = n
    BY <1>1 DEF Shape
  <2> HIDE DEF n
  <2> QED BY <1>2, <1>3, <1>4, <2>1, GrownIs
<1>15. Grown(x.resolution_events, y.resolution_events, Seq(Int), n, v)
  <2>1. x.resolution_events \in Seq(Seq(Int)) /\ Len(x.resolution_events) = n
    BY <1>1 DEF Shape
  <2> HIDE DEF n
  <2> QED BY <1>2, <1>3, <1>4, <2>1, GrownIs
<1>16. /\ y.incidents \in [Roots(y) -> Incidents] /\ Roots(y) = Roots(x) \union {RootFor(x, s)}
  <2>1. /\ HealedIncidents(x, s, a) \in [Roots(x) \union {RootFor(x, s)} -> Incidents]
        /\ DOMAIN HealedIncidents(x, s, a) = Roots(x) \union {RootFor(x, s)}
    BY IncidentsAre
  <2> QED BY <1>4, <2>1 DEF Roots
<1>17. /\ Size(y) = n + 1 /\ Cases(y) = Cases(x) \union {n + 1} /\ n + 1 \notin Cases(x)
  <2> HIDE DEF n
  <2>1. 1..(n + 1) = 1..n \union {n + 1} /\ n + 1 \notin 1..n BY <1>1
  <2> QED BY <1>1, <1>5, <2>1 DEF Size, Cases, Grown
<1>18. Roots(y) \subseteq Cases(y)
  <2>1. RootFor(x, s) \in Roots(x) \union {n + 1}
    BY RepeatIs, FirstIs
  <2> QED BY <1>1, <1>16, <1>17, <2>1
<1>19. Shape(y)
  BY <1>4, <1>5, <1>6, <1>7, <1>8, <1>9, <1>10, <1>11, <1>12, <1>13, <1>14, <1>15, <1>16, <1>17,
     <1>18 DEF Shape, Grown
<1>20. \A c \in Cases(x) : SameRows(x, y, c)
  <2> HIDE DEF n
  <2> QED BY <1>1, <1>5, <1>6, <1>7, <1>8, <1>9, <1>10, <1>11, <1>12, <1>13, <1>14, <1>15, Zenon
          DEF SameRows, Manifest, Grown
<1>21. LastRows(x, s, a, y, n + 1)
  <2> HIDE DEF n
  <2> QED BY <1>5, <1>6, <1>7, <1>8, <1>9, <1>10, <1>11, <1>12, <1>13, <1>14, <1>15, Zenon
          DEF LastRows, Manifest, Grown, m, e, t, v
<1> QED BY <1>4, <1>16, <1>17, <1>19, <1>20, <1>21, Zenon DEF y

\* The datasets y are the datasets x with the case of s and a added.
Turn(x, s, a, y) ==
  /\ Kept(x) /\ s \in Scenarios /\ a \in Agents
  /\ Shape(y) /\ Size(y) = Size(x) + 1
  /\ Cases(y) = Cases(x) \union {Size(x) + 1} /\ Size(x) + 1 \notin Cases(x)
  /\ \A c \in Cases(x) : SameRows(x, y, c)
  /\ LastRows(x, s, a, y, Size(x) + 1)
  /\ y.incidents = HealedIncidents(x, s, a)
  /\ Roots(y) = Roots(x) \union {RootFor(x, s)}

LEMMA TurnIs ==
  ASSUME NEW x, Kept(x), NEW s \in Scenarios, NEW a \in Agents
  PROVE  Turn(x, s, a, AddCase(x, s, a))
BY RowsAppended, Zenon DEF Turn

LEMMA OldCaseRows ==
  ASSUME NEW x, NEW s, NEW a, NEW y, Turn(x, s, a, y), NEW c \in Cases(x)
  PROVE  CaseRows(y, c)
<1>1. CaseRows(x, c) /\ SameRows(x, y, c)
  BY DEF Turn, Kept
<1> QED BY <1>1, Zenon DEF CaseRows, SameRows

LEMMA NewCaseRows ==
  ASSUME NEW x, NEW s, NEW a, NEW y, Turn(x, s, a, y)
  PROVE  CaseRows(y, Size(x) + 1)
<1> DEFINE c == Size(x) + 1
           m == Manifest(y, c)
           h == HumanFor(x, s, a)
           e == Downstream(BestAction(m.scenario), m.at + HistoricalDelay(y.reconciliation_records[c]),
                           m.at + Minutes(9))
<1> SUFFICES CaseRows(y, c)
  OBVIOUS
<1>1. LastRows(x, s, a, y, c) /\ s \in Scenarios /\ a \in Agents /\ Kept(x)
  BY DEF Turn
<1>2. /\ m.scenario = s /\ m.at = StartFor(x) /\ m.seq = SeqFor(x, s)
      /\ y.reconciliation_records[c] = h /\ y.agent_decisions[c] = a
  BY <1>1 DEF LastRows, ManifestFor
<1>3. /\ (m.seq > 0) = Repeats(x, s)
      /\ ~Repeats(x, s) => m.seq = 0
  <2>1. (m.seq > 0) <=> Repeats(x, s) BY <1>1, <1>2, ManifestIs
  <2>2. Repeats(x, s) \in BOOLEAN BY DEF Repeats, IsRepeat
  <2>3. ~Repeats(x, s) => m.seq = 0 BY <1>2, FirstIs
  <2> HIDE DEF m
  <2> QED BY <2>1, <2>2, <2>3
<1>4. y.reconciliation_records[c] = NeedsHuman(y.agent_decisions[c], m.scenario, m.seq > 0)
  <2> HIDE DEF m
  <2> QED BY <1>2, <1>3, Zenon DEF HumanFor
<1>5. CASE Waits(x, s, a)
  <2>1. h /\ m.seq = 0
    BY <1>1, <1>3, <1>5, HumanIs
  <2>2. /\ EffectFor(x, s, a) = NothingDone /\ DecisionFor(x, s, a) = Pending
        /\ ActionFor(x, s, a) =
             [status |-> "BLOCKED_PENDING_HUMAN", at |-> StartFor(x) + Minutes(10)]
        /\ ~Heals(x, s, a)
    BY <1>5, Zenon DEF EffectFor, DecisionFor, ActionFor, Heals
  <2>3. NothingDone.work = << >> /\ NothingDone.evidence = << >> /\ NothingDone.mr = << >>
    BY DEF NothingDone
  <2>4. /\ y.human_decisions[c] = Pending
        /\ y.action_events[c] =
             [status |-> "BLOCKED_PENDING_HUMAN", at |-> StartFor(x) + Minutes(10)]
        /\ y.work_orders[c] = << >> /\ y.field_evidence[c] = << >> /\ y.mrs[c] = << >>
        /\ y.telemetry_tr181[c] = << >> /\ y.validation_events[c] = << >>
        /\ y.resolution_events[c] = << >>
    BY <1>1, <2>2, <2>3, Zenon DEF LastRows
  <2> HIDE DEF m, c, h
  <2> QED BY <1>2, <1>4, <2>1, <2>4, Zenon DEF CaseRows, m
<1>6. CASE ~Waits(x, s, a)
  <2>1. e = EffectFor(x, s, a)
    <3> HIDE DEF m, c, h
    <3> QED BY <1>2, <1>6, Zenon DEF EffectFor, ActionAt, h
  <2>2. /\ DecisionFor(x, s, a) =
             IF h THEN HistoricalApproval(m.at + Minutes(11), m.seq > 0) ELSE NotRequired
        /\ ActionFor(x, s, a) =
             [status |-> "SIMULATED_EXECUTED", at |-> m.at + HistoricalDelay(h)]
    <3> HIDE DEF m, c
    <3> QED BY <1>2, <1>3, <1>6, Zenon DEF DecisionFor, ActionFor, ActionAt, h
  <2>3. Heals(x, s, a) <=> Restores(m.scenario)
    <3> HIDE DEF m, c
    <3> QED BY <1>2, <1>6, Zenon DEF Heals
  <2>4. /\ y.human_decisions[c] =
             IF h THEN HistoricalApproval(m.at + Minutes(11), m.seq > 0) ELSE NotRequired
        /\ y.action_events[c] =
             [status |-> "SIMULATED_EXECUTED", at |-> m.at + HistoricalDelay(h)]
        /\ y.work_orders[c] = e.work /\ y.field_evidence[c] = e.evidence /\ y.mrs[c] = e.mr
    <3> HIDE DEF m, h, e
    <3> QED BY <1>1, <2>1, <2>2, Zenon DEF LastRows
  <2>5. IF Restores(m.scenario)
        THEN /\ y.telemetry_tr181[c] = <<e.post>>
             /\ y.validation_events[c] = <<e.post + Minutes(10)>>
             /\ y.resolution_events[c] = <<e.post + Minutes(10)>>
        ELSE /\ y.telemetry_tr181[c] = << >> /\ y.validation_events[c] = << >>
             /\ y.resolution_events[c] = << >>
    <3> HIDE DEF m, h, e, c
    <3> QED BY <1>1, <2>1, <2>3, Zenon DEF LastRows
  <2> HIDE DEF m, c, h, e
  <2> QED BY <1>2, <1>4, <2>4, <2>5, Zenon DEF CaseRows, m, e
<1> QED BY <1>5, <1>6

LEMMA TurnAttempts ==
  ASSUME NEW x, NEW s, NEW a, NEW y, Turn(x, s, a, y)
  PROVE  /\ \A r : r # RootFor(x, s) => Attempts(y, r) = Attempts(x, r)
         /\ Attempts(y, RootFor(x, s)) = Attempts(x, RootFor(x, s)) \union {Size(x) + 1}
         /\ \A c \in Cases(x) : Before(y, c) = Before(x, c)
         /\ Before(y, Size(x) + 1) = Occurrences(x, s)
<1> DEFINE n == Size(x)
<1>1. /\ Cases(y) = Cases(x) \union {n + 1} /\ Cases(x) = 1..n /\ n \in Nat
      /\ \A c \in Cases(x) : Manifest(y, c) = Manifest(x, c)
      /\ Manifest(y, n + 1) = ManifestFor(x, s)
  BY SizeIs DEF Turn, Kept, SameRows, LastRows
<1>2. ManifestFor(x, s).root = RootFor(x, s) /\ ManifestFor(x, s).scenario = s
  BY DEF ManifestFor
<1> HIDE DEF n
<1>3. \A r : Attempts(y, r) = Attempts(x, r) \union (IF r = RootFor(x, s) THEN {n + 1} ELSE {})
  BY <1>1, <1>2 DEF Attempts
<1>4. /\ \A c \in Cases(x) : ScenarioOf(y, c) = ScenarioOf(x, c)
      /\ ScenarioOf(y, n + 1) = s
  BY <1>1, <1>2 DEF ScenarioOf
<1>5. \A t : Occurrences(y, t) = Occurrences(x, t) \union (IF t = s THEN {n + 1} ELSE {})
  BY <1>1, <1>4 DEF Occurrences
<1>6. \A t : Occurrences(x, t) \subseteq 1..n
  BY <1>1 DEF Occurrences
<1>7. \A c \in Cases(x) : Before(y, c) = Before(x, c)
  BY <1>1, <1>4, <1>5, <1>6 DEF Before
<1>8. Before(y, n + 1) = Occurrences(x, s)
  BY <1>1, <1>4, <1>5, <1>6 DEF Before
<1> QED BY <1>3, <1>7, <1>8 DEF n

LEMMA RootForIs ==
  ASSUME NEW x, NEW s, NEW a, NEW y, Turn(x, s, a, y)
  PROVE  /\ Repeats(x, s) => Roots(y) = Roots(x) /\ RootFor(x, s) \in Roots(x)
         /\ ~Repeats(x, s) => Roots(y) = Roots(x) \union {Size(x) + 1}
                              /\ RootFor(x, s) = Size(x) + 1
         /\ \A c \in Cases(x) : c \in Roots(y) <=> c \in Roots(x)
         /\ Roots(x) \subseteq Cases(x) /\ Cases(x) = 1..Size(x) /\ Size(x) \in Nat
<1>1. /\ Kept(x) /\ s \in Scenarios /\ Shape(x) /\ Roots(y) = Roots(x) \union {RootFor(x, s)}
      /\ Size(x) + 1 \notin Cases(x)
  BY DEF Turn, Kept
<1>2. Roots(x) \subseteq Cases(x) /\ Cases(x) = 1..Size(x) /\ Size(x) \in Nat
  BY <1>1, SizeIs
<1>3. Repeats(x, s) => RootFor(x, s) \in Roots(x)
  BY <1>1, RepeatIs
<1>4. ~Repeats(x, s) => RootFor(x, s) = Size(x) + 1
  BY FirstIs
<1> QED BY <1>1, <1>2, <1>3, <1>4

LEMMA OldPlaced ==
  ASSUME NEW x, NEW s, NEW a, NEW y, Turn(x, s, a, y), NEW c \in Cases(x)
  PROVE  Placed(y, c)
<1> DEFINE m == Manifest(x, c)
<1>1. /\ Placed(x, c) /\ Manifest(y, c) = m /\ m \in Manifests
      /\ \A e \in Cases(x) : Manifest(y, e) = Manifest(x, e)
      /\ \A e \in Cases(x) : y.human_decisions[e] = x.human_decisions[e]
  BY SizeIs DEF Turn, Kept, SameRows
<1>2. /\ c \in Roots(y) <=> c \in Roots(x)
      /\ Roots(x) \subseteq Cases(x) /\ Roots(x) \subseteq Roots(y)
      /\ Cases(x) = 1..Size(x) /\ Size(x) \in Nat
  BY RootForIs DEF Turn
<1>3. Before(y, c) = Before(x, c)
  BY TurnAttempts
<1>4. Attempts(y, m.root) \subseteq Attempts(x, m.root) \union {Size(x) + 1}
      /\ Attempts(x, m.root) \subseteq Attempts(y, m.root)
      /\ Attempts(x, m.root) \subseteq Cases(x)
  BY TurnAttempts DEF Attempts
<1> HIDE DEF m
<1>5. ASSUME m.seq > 0
      PROVE  /\ m.root \in Roots(y) /\ m.parent \in Attempts(y, m.root) /\ m.parent < c
             /\ Manifest(y, m.parent).seq = m.seq - 1
             /\ \A e \in Attempts(y, m.root) : e <= m.parent \/ e >= c
             /\ y.human_decisions[m.root].status # "PENDING"
             /\ Cardinality(Before(y, c)) > 1
  <2>1. /\ m.root \in Roots(x) /\ m.parent \in Attempts(x, m.root) /\ m.parent < c
        /\ Manifest(x, m.parent).seq = m.seq - 1
        /\ \A e \in Attempts(x, m.root) : e <= m.parent \/ e >= c
        /\ x.human_decisions[m.root].status # "PENDING"
        /\ Cardinality(Before(x, c)) > 1
    BY <1>1, <1>5, Zenon DEF Placed, m
  <2>2. Size(x) + 1 >= c
    BY <1>2
  <2>3. \A e \in Attempts(y, m.root) : e <= m.parent \/ e >= c
    BY <1>4, <2>1, <2>2
  <2>4. m.root \in Cases(x) /\ m.parent \in Cases(x)
    BY <1>2, <1>4, <2>1
  <2> QED BY <1>1, <1>2, <1>3, <1>4, <2>1, <2>3, <2>4, Zenon
<1>6. /\ m.at = Minutes(2 * (c - 1))
      /\ c \in Roots(y) <=> m.seq = 0
      /\ m.seq = 0 => m.root = c /\ m.parent = 0
      /\ y.human_decisions[c].status = "PENDING" => Before(y, c) = {}
  <2>1. /\ m.at = Minutes(2 * (c - 1))
        /\ c \in Roots(x) <=> m.seq = 0
        /\ m.seq = 0 => m.root = c /\ m.parent = 0
        /\ x.human_decisions[c].status = "PENDING" => Before(x, c) = {}
    BY <1>1, Zenon DEF Placed, m
  <2> QED BY <1>1, <1>2, <1>3, <2>1, Zenon
<1> QED BY <1>1, <1>5, <1>6, Zenon DEF Placed

LEMMA NewPlaced ==
  ASSUME NEW x, NEW s, NEW a, NEW y, Turn(x, s, a, y)
  PROVE  Placed(y, Size(x) + 1)
<1> DEFINE n == Size(x)
           c == n + 1
           m == ManifestFor(x, s)
           r == RootFor(x, s)
<1> SUFFICES Placed(y, c)
  OBVIOUS
<1>1. /\ Manifest(y, c) = m /\ Kept(x) /\ s \in Scenarios /\ a \in Agents
      /\ y.human_decisions[c] = DecisionFor(x, s, a)
      /\ \A e \in Cases(x) : Manifest(y, e) = Manifest(x, e)
      /\ \A e \in Cases(x) : y.human_decisions[e] = x.human_decisions[e]
      /\ c \notin Cases(x)
  BY DEF Turn, SameRows, LastRows
<1>2. /\ Roots(x) \subseteq Cases(x) /\ Cases(x) = 1..n /\ n \in Nat
      /\ Repeats(x, s) => Roots(y) = Roots(x) /\ r \in Roots(x)
      /\ ~Repeats(x, s) => Roots(y) = Roots(x) \union {c} /\ r = c
  BY RootForIs
<1>3. /\ Before(y, c) = Occurrences(x, s) /\ Attempts(y, r) = Attempts(x, r) \union {c}
      /\ Attempts(x, r) \subseteq Cases(x)
  BY TurnAttempts DEF Attempts
<1>4. /\ m.seq = SeqFor(x, s) /\ m.root = r /\ m.parent = ParentFor(x, s)
      /\ m.at = StartFor(x)
  BY DEF ManifestFor
<1>5. /\ SeqFor(x, s) \in Nat
      /\ SeqFor(x, s) > 0 <=> Repeats(x, s)
      /\ ~Repeats(x, s) => ParentFor(x, s) = 0
  BY <1>1, ManifestIs, FirstIs
<1>6. m.at = Minutes(2 * (c - 1))
  <2>1. c - 1 = n BY <1>2
  <2> QED BY <1>4, <2>1 DEF StartFor
<1>7. c \in Roots(y) <=> m.seq = 0
  <2> HIDE DEF c, m, r, n
  <2> QED BY <1>1, <1>2, <1>4, <1>5
<1>8. y.human_decisions[c].status = "PENDING" => Before(y, c) = {}
  <2>1. DecisionFor(x, s, a).status = "PENDING" <=> Waits(x, s, a)
    BY <1>1, DecisionIs
  <2> HIDE DEF c
  <2> QED BY <1>1, <1>3, <2>1 DEF Waits
<1>9. m.seq = 0 => m.root = c /\ m.parent = 0
  <2> HIDE DEF c, m, r, n
  <2> QED BY <1>2, <1>4, <1>5
<1>10. ASSUME m.seq > 0
       PROVE  /\ m.root \in Roots(y) /\ m.parent \in Attempts(y, m.root) /\ m.parent < c
              /\ Manifest(y, m.parent).seq = m.seq - 1
              /\ \A e \in Attempts(y, m.root) : e <= m.parent \/ e >= c
              /\ y.human_decisions[m.root].status # "PENDING"
              /\ Cardinality(Before(y, c)) > 1
  <2>1. Repeats(x, s) BY <1>4, <1>5, <1>10
  <2>2. /\ x.human_decisions[r].status # "PENDING"
        /\ Cardinality(Occurrences(x, s)) > 1
        /\ ParentFor(x, s) \in Attempts(x, r)
        /\ \A e \in Attempts(x, r) : e <= ParentFor(x, s)
        /\ Manifest(x, ParentFor(x, s)).seq = SeqFor(x, s) - 1
    BY <1>1, <2>1, RepeatIs
  <2>3. ParentFor(x, s) \in Cases(x) /\ ParentFor(x, s) < c
    <3> HIDE DEF r, m
    <3> QED BY <1>2, <1>3, <2>2
  <2>4. c >= c
    BY <1>2
  <2> HIDE DEF c, m, r, n
  <2>5. \A e \in Attempts(y, m.root) : e <= m.parent \/ e >= c
    BY <1>3, <1>4, <2>2, <2>4
  <2>6. r \in Cases(x) /\ r \in Roots(y)
    BY <1>2, <2>1
  <2> QED BY <1>1, <1>3, <1>4, <2>2, <2>3, <2>5, <2>6, Zenon
<1> HIDE DEF c, m, r, n
<1> QED BY <1>1, <1>6, <1>7, <1>8, <1>9, <1>10, Zenon DEF Placed

LEMMA OtherIncident ==
  ASSUME NEW x, NEW s, NEW a, NEW y, Turn(x, s, a, y),
         NEW q \in Roots(x), q # RootFor(x, s)
  PROVE  IncidentRow(y, q)
<1>1. /\ Kept(x) /\ s \in Scenarios /\ a \in Agents
      /\ \A e \in Cases(x) : SameRows(x, y, e)
      /\ y.incidents = HealedIncidents(x, s, a)
  BY DEF Turn
<1>2. y.incidents[q] = x.incidents[q]
  BY <1>1, IncidentsAre
<1>3. Attempts(y, q) = Attempts(x, q)
  BY TurnAttempts
<1>4. Shape(x) /\ Cases(x) = 1..Size(x) /\ Size(x) \in Nat /\ q \in Cases(x)
      /\ Attempts(x, q) \in SUBSET (1..Size(x)) /\ Manifest(x, q) \in Manifests
  BY <1>1, SizeIs, AttemptsAre DEF Kept
<1>5. Placed(x, q) /\ IncidentRow(x, q)
  BY <1>1, <1>4 DEF Kept
<1>6. q \in Attempts(x, q)
  BY <1>4, <1>5 DEF Placed, Attempts
<1>7. Latest(Attempts(x, q)) \in Cases(x)
  BY <1>4, <1>6, LatestIs
<1>8. /\ \A e \in Cases(x) : /\ Manifest(y, e) = Manifest(x, e)
                             /\ y.resolution_events[e] = x.resolution_events[e]
                             /\ Restoration(y, e) <=> Restoration(x, e)
  BY <1>1 DEF SameRows, Restoration
<1>9. Retries(y, q) = Retries(x, q)
  BY <1>3, <1>4, <1>8 DEF Retries
<1>10. \A e \in Attempts(x, q) : Manifest(x, e).seq > 0 => Manifest(x, e).parent \in Cases(x)
  <2>1. \A e \in Cases(x) : Placed(x, e) BY <1>1 DEF Kept
  <2>2. \A e \in Cases(x) : Manifest(x, e).seq > 0
                             => Manifest(x, e).parent \in Attempts(x, Manifest(x, e).root)
    BY <2>1, Zenon DEF Placed
  <2> QED BY <2>2 DEF Attempts
<1>11. Reopenings(y, q) = Reopenings(x, q)
  BY <1>3, <1>4, <1>8, <1>10 DEF Reopenings
<1> QED BY <1>2, <1>3, <1>4, <1>5, <1>7, <1>8, <1>9, <1>11, Zenon DEF IncidentRow

LEMMA RestoredIs ==
  ASSUME NEW i \in Incidents, NEW post
  PROVE  /\ Restored(i, post).status = "CLOSED"
         /\ Restored(i, post).resolved = post + Minutes(10)
         /\ Restored(i, post).closed = post + Minutes(15)
         /\ Restored(i, post).opened = i.opened
         /\ Restored(i, post).repeats = i.repeats
         /\ Restored(i, post).reopens = i.reopens
BY DEF Restored, Incidents

LEMMA ReopenedIs ==
  ASSUME NEW i \in Incidents, NEW k, i.status = "OPEN" => i.resolved = NoTime /\ i.closed = NoTime
  PROVE  LET j == [Reopened(i) EXCEPT !.repeats = k]
         IN /\ j.status = "OPEN" /\ j.resolved = NoTime /\ j.closed = NoTime
            /\ j.opened = i.opened /\ j.repeats = k
            /\ j.reopens = IF i.status = "CLOSED" THEN i.reopens + 1 ELSE i.reopens
<1>1. CASE i.status = "CLOSED"
  BY <1>1 DEF Reopened, Incidents
<1>2. CASE i.status # "CLOSED"
  BY <1>2 DEF Reopened, Incidents
<1> QED BY <1>1, <1>2

LEMMA LatestOfTurn ==
  ASSUME NEW n \in Nat, NEW S \in SUBSET (1..n)
  PROVE  Latest(S \union {n + 1}) = n + 1
<1>1. /\ Latest(S \union {n + 1}) \in S \union {n + 1}
      /\ \A e \in S \union {n + 1} : e <= Latest(S \union {n + 1})
  <2>1. S \union {n + 1} \in SUBSET (1..(n + 1)) /\ S \union {n + 1} # {} /\ n + 1 \in Nat
    OBVIOUS
  <2> DEFINE T == S \union {n + 1}
             k == n + 1
  <2>2. T \in SUBSET (1..k) /\ T # {} /\ k \in Nat BY <2>1
  <2> HIDE DEF T, k
  <2>3. Latest(T) \in T /\ \A e \in T : e <= Latest(T) BY <2>2, LatestIs
  <2> QED BY <2>3 DEF T
<1> DEFINE l == Latest(S \union {n + 1})
<1> HIDE DEF l
<1>2. l \in S \union {n + 1} /\ n + 1 <= l
  BY <1>1 DEF l
<1>3. l = n + 1
  BY <1>2
<1> QED BY <1>3 DEF l

LEMMA ThisIncident ==
  ASSUME NEW x, NEW s, NEW a, NEW y, Turn(x, s, a, y)
  PROVE  IncidentRow(y, RootFor(x, s))
<1> DEFINE n == Size(x)
           c == n + 1
           r == RootFor(x, s)
           A == Attempts(x, r)
           post == EffectFor(x, s, a).post
           heals == Heals(x, s, a)
           old == IF Repeats(x, s) THEN [Reopened(x.incidents[r]) EXCEPT !.repeats = SeqFor(x, s)]
                  ELSE NewIncident(StartFor(x) + Minutes(5))
           i == y.incidents[r]
<1> SUFFICES IncidentRow(y, r)
  OBVIOUS
<1>1. /\ Kept(x) /\ s \in Scenarios /\ a \in Agents /\ Shape(x) /\ Shape(y)
      /\ \A e \in Cases(x) : SameRows(x, y, e)
      /\ LastRows(x, s, a, y, c)
      /\ y.incidents = HealedIncidents(x, s, a)
      /\ c \notin Cases(x) /\ Cases(y) = Cases(x) \union {c}
  BY DEF Turn, Kept
<1>2. /\ Roots(x) \subseteq Cases(x) /\ Cases(x) = 1..n /\ n \in Nat
      /\ Repeats(x, s) => r \in Roots(x)
      /\ ~Repeats(x, s) => r = c
      /\ Attempts(y, r) = A \union {c}
      /\ A \in SUBSET (1..n)
  BY <1>1, RootForIs, TurnAttempts, AttemptsAre
<1>3. Latest(Attempts(y, r)) = c
  <2> HIDE DEF n, A, r
  <2> QED BY <1>2, LatestOfTurn
<1>4. /\ \A e \in Cases(x) : /\ Manifest(y, e) = Manifest(x, e)
                             /\ Restoration(y, e) <=> Restoration(x, e)
      /\ Manifest(y, c) = ManifestFor(x, s)
      /\ ManifestFor(x, s).seq = SeqFor(x, s) /\ ManifestFor(x, s).parent = ParentFor(x, s)
      /\ ManifestFor(x, s).at = StartFor(x)
      /\ y.resolution_events[c] = IF heals THEN <<post + Minutes(10)>> ELSE << >>
  BY <1>1, Zenon DEF SameRows, LastRows, Restoration, ManifestFor
<1>5. Restoration(y, c) <=> heals
  <2>1. <<post + Minutes(10)>> # << >> OBVIOUS
  <2> HIDE DEF c, heals, post
  <2> QED BY <1>4, <2>1, Zenon DEF Restoration
<1>6. /\ i = IF heals THEN Restored(old, post) ELSE old
      /\ old \in Incidents
  <2>1. /\ HealedIncidents(x, s, a)[r] = IF heals THEN Restored(old, post) ELSE old
        /\ old \in Incidents
    BY <1>1, IncidentsAre
  <2> HIDE DEF old, heals, post, r
  <2> QED BY <1>1, <2>1
<1>7. /\ post \in Int /\ StartFor(x) \in Nat
      /\ heals => post >= StartFor(x) /\ post # NoTime
      /\ SeqFor(x, s) \in Nat
      /\ SeqFor(x, s) > 0 <=> Repeats(x, s)
  BY <1>1, EffectIs, ManifestIs
<1>8. StartFor(x) = Minutes(2 * n) /\ StartFor(x) + Minutes(5) \in Int
  BY <1>7 DEF StartFor, Minutes
<1>9. IsFiniteSet(A) /\ \A B : B \subseteq A => IsFiniteSet(B)
  <2>1. IsFiniteSet(1..n) BY <1>2, FS_Interval
  <2> HIDE DEF A, n
  <2> QED BY <1>2, <2>1, FS_Subset
\* What the incident was before it may have been closed.
<1>10. /\ old.status = "OPEN" /\ old.resolved = NoTime /\ old.closed = NoTime
       /\ old.repeats = SeqFor(x, s)
       /\ old.repeats = Cardinality(Retries(y, r))
       /\ old.reopens = Cardinality(Reopenings(y, r))
       /\ old.opened <= Manifest(y, r).at + Minutes(5)
       /\ old.opened <= StartFor(x) + Minutes(5)
       /\ old.opened \in Int
  <2>1. CASE ~Repeats(x, s)
    <3>1. r = c /\ SeqFor(x, s) = 0
      BY <2>1, FirstIs
    <3>2. old = NewIncident(StartFor(x) + Minutes(5))
      BY <2>1
    <3>3. /\ old.status = "OPEN" /\ old.resolved = NoTime /\ old.closed = NoTime
          /\ old.repeats = 0 /\ old.reopens = 0 /\ old.opened = StartFor(x) + Minutes(5)
      <4> HIDE DEF old
      <4> QED BY <3>2 DEF NewIncident
    <3>4. A = {}
      <4>1. \A e \in Cases(x) : Placed(x, e) BY <1>1 DEF Kept
      <4>2. \A e \in Cases(x) : Manifest(x, e) \in Manifests BY <1>1, SizeIs
      <4>3. \A e \in Cases(x) : Manifest(x, e).root \in Cases(x)
        <5> SUFFICES ASSUME NEW e \in Cases(x) PROVE Manifest(x, e).root \in Cases(x)
          OBVIOUS
        <5>1. Manifest(x, e).seq = 0 \/ Manifest(x, e).seq > 0
          BY <4>2 DEF Manifests
        <5>2. Manifest(x, e).seq = 0 => Manifest(x, e).root = e
          BY <4>1, Zenon DEF Placed
        <5>3. Manifest(x, e).seq > 0 => Manifest(x, e).root \in Roots(x)
          BY <4>1, Zenon DEF Placed
        <5> QED BY <1>2, <5>1, <5>2, <5>3
      <4> QED BY <1>1, <3>1, <4>3 DEF Attempts
    <3> HIDE DEF old, c, r, A, n, heals, post
    <3>5. Retries(y, r) = {} /\ Reopenings(y, r) = {}
      BY <1>2, <1>4, <3>1, <3>4 DEF Retries, Reopenings
    <3>6. Manifest(y, r).at = StartFor(x)
      BY <1>4, <3>1
    <3>7. Cardinality(Retries(y, r)) = 0 /\ Cardinality(Reopenings(y, r)) = 0
      BY <3>5, FS_EmptySet
    <3> QED BY <1>8, <3>1, <3>3, <3>6, <3>7
  <2>2. CASE Repeats(x, s)
    <3> DEFINE i0 == x.incidents[r]
    <3>1. /\ r \in Roots(x) /\ r \in Cases(x) /\ i0 \in Incidents
          /\ ParentFor(x, s) = Latest(A) /\ ParentFor(x, s) \in A
          /\ SeqFor(x, s) = i0.repeats + 1
          /\ IncidentRow(x, r) /\ Placed(x, r)
      BY <1>1, <1>2, <2>2, RepeatIs DEF Kept
    <3>2. old = [Reopened(i0) EXCEPT !.repeats = SeqFor(x, s)]
      BY <2>2
    <3>3. /\ i0.repeats = Cardinality(Retries(x, r))
          /\ i0.reopens = Cardinality(Reopenings(x, r))
          /\ i0.status = "CLOSED" <=> Restoration(x, ParentFor(x, s))
          /\ i0.status = "OPEN" => i0.resolved = NoTime /\ i0.closed = NoTime
          /\ i0.opened <= Manifest(x, r).at + Minutes(5)
      BY <3>1, Zenon DEF IncidentRow
    <3> HIDE DEF i0
    <3>4. /\ old.status = "OPEN" /\ old.resolved = NoTime /\ old.closed = NoTime
          /\ old.opened = i0.opened /\ old.repeats = SeqFor(x, s)
          /\ old.reopens = IF i0.status = "CLOSED" THEN i0.reopens + 1 ELSE i0.reopens
      <4> HIDE DEF old
      <4> QED BY <3>1, <3>2, <3>3, ReopenedIs
    <3> HIDE DEF old, c, r, A, n, heals, post
    <3>5. /\ Retries(x, r) \subseteq A /\ Reopenings(x, r) \subseteq A /\ c \notin A
      BY <1>1, <1>2 DEF Retries, Reopenings, A
    <3>6. Retries(y, r) = Retries(x, r) \union {c}
      BY <1>2, <1>4, <1>7, <2>2, <3>5 DEF Retries, A
    <3>7. Cardinality(Retries(y, r)) = i0.repeats + 1
      BY <1>9, <3>3, <3>5, <3>6, FS_AddElement
    <3>8. \A e \in A : Manifest(x, e).seq > 0 => Manifest(x, e).parent \in Cases(x)
      <4>1. \A e \in Cases(x) : Placed(x, e) BY <1>1 DEF Kept
      <4>2. \A e \in Cases(x) : Manifest(x, e).seq > 0
                                 => Manifest(x, e).parent \in Attempts(x, Manifest(x, e).root)
        BY <4>1, Zenon DEF Placed
      <4> QED BY <1>2, <4>2 DEF Attempts
    <3>9. ParentFor(x, s) \in Cases(x)
      BY <1>2, <3>1
    <3>10. Reopenings(y, r) = Reopenings(x, r)
                                \union (IF i0.status = "CLOSED" THEN {c} ELSE {})
      <4>1. c \in Reopenings(y, r) <=> i0.status = "CLOSED"
        BY <1>2, <1>4, <1>7, <2>2, <3>3, <3>9 DEF Reopenings
      <4>2. \A e \in A : e \in Reopenings(y, r) <=> e \in Reopenings(x, r)
        BY <1>2, <1>4, <3>8 DEF Reopenings, A
      <4>3. Reopenings(y, r) \subseteq A \union {c}
        BY <1>2 DEF Reopenings
      <4> QED BY <3>5, <4>1, <4>2, <4>3
    <3>11. old.reopens = Cardinality(Reopenings(y, r))
      <4>1. Cardinality(Reopenings(x, r) \union {c}) = Cardinality(Reopenings(x, r)) + 1
        BY <1>9, <3>5, FS_AddElement
      <4>2. Reopenings(x, r) \union {} = Reopenings(x, r) OBVIOUS
      <4> QED BY <3>3, <3>4, <3>10, <4>1, <4>2
    <3>12. Manifest(y, r).at = Manifest(x, r).at
      BY <1>4, <3>1
    <3>13. Manifest(x, r).at = Minutes(2 * (r - 1))
      BY <3>1 DEF Placed
    <3>14. /\ r \in Nat /\ r <= n /\ i0.opened \in Int
      BY <1>2, <3>1 DEF Incidents
    <3>15. i0.opened <= StartFor(x) + Minutes(5)
      BY <1>2, <1>8, <3>3, <3>13, <3>14 DEF Minutes
    <3> QED BY <3>1, <3>3, <3>4, <3>7, <3>11, <3>12, <3>14, <3>15
  <2> QED BY <2>1, <2>2
<1>11. CASE heals
  <2>1. /\ i.status = "CLOSED" /\ i.resolved = post + Minutes(10) /\ i.closed = post + Minutes(15)
        /\ i.opened = old.opened /\ i.repeats = old.repeats /\ i.reopens = old.reopens
    <3> HIDE DEF old, post, i, heals
    <3> QED BY <1>6, <1>11, RestoredIs
  <2>2. /\ i.closed = i.resolved + Minutes(5) /\ i.opened <= i.resolved /\ i.resolved >= 0
    <3> HIDE DEF old, post, i, heals
    <3> QED BY <1>7, <1>8, <1>10, <1>11, <2>1 DEF Minutes
  <2> HIDE DEF old, post, i, c, r, A, n, heals
  <2> QED BY <1>3, <1>4, <1>5, <1>10, <1>11, <2>1, <2>2, Zenon DEF IncidentRow, i
<1>12. CASE ~heals
  <2>1. i = old BY <1>6, <1>12
  <2> HIDE DEF old, post, i, c, r, A, n, heals
  <2>2. i.status # "CLOSED" BY <1>10, <2>1
  <2> QED BY <1>3, <1>4, <1>5, <1>10, <1>12, <2>1, <2>2, Zenon DEF IncidentRow, i
<1> QED BY <1>11, <1>12

LEMMA TurnKeeps ==
  ASSUME NEW x, Kept(x), NEW s \in Scenarios, NEW a \in Agents
  PROVE  Kept(AddCase(x, s, a)) /\ Size(AddCase(x, s, a)) = Size(x) + 1
<1> DEFINE y == AddCase(x, s, a)
<1>1. Turn(x, s, a, y)
  BY TurnIs
<1> HIDE DEF y
<1>2. /\ Shape(y) /\ Size(y) = Size(x) + 1
      /\ Cases(y) = Cases(x) \union {Size(x) + 1}
      /\ Roots(y) = Roots(x) \union {RootFor(x, s)}
  BY <1>1 DEF Turn
<1>3. \A c \in Cases(x) : CaseRows(y, c) /\ Placed(y, c)
  BY <1>1, OldCaseRows, OldPlaced
<1>4. CaseRows(y, Size(x) + 1) /\ Placed(y, Size(x) + 1)
  BY <1>1, NewCaseRows, NewPlaced
<1>5. \A r \in Roots(x) : r # RootFor(x, s) => IncidentRow(y, r)
  BY <1>1, OtherIncident
<1>6. IncidentRow(y, RootFor(x, s))
  BY <1>1, ThisIncident
<1>7. Kept(y)
  BY <1>2, <1>3, <1>4, <1>5, <1>6 DEF Kept
<1> QED BY <1>2, <1>7 DEF y

LEMMA EmptyIsKept == Kept(EmptyRun) /\ Size(EmptyRun) = 0
<1>1. /\ EmptyRun.scenario_manifests = << >> /\ EmptyRun.agent_decisions = << >>
      /\ EmptyRun.reconciliation_records = << >> /\ EmptyRun.human_decisions = << >>
      /\ EmptyRun.action_events = << >> /\ EmptyRun.work_orders = << >>
      /\ EmptyRun.field_evidence = << >> /\ EmptyRun.mrs = << >>
      /\ EmptyRun.telemetry_tr181 = << >> /\ EmptyRun.validation_events = << >>
      /\ EmptyRun.resolution_events = << >> /\ EmptyRun.incidents = << >>
  BY DEF EmptyRun
<1>2. /\ \A S : << >> \in Seq(S)
      /\ Len(<< >>) = 0 /\ DOMAIN << >> = {}
  OBVIOUS
<1>3. << >> \in [{} -> Incidents]
  OBVIOUS
<1>4. Size(EmptyRun) = 0 /\ Cases(EmptyRun) = {} /\ Roots(EmptyRun) = {}
  BY <1>1, <1>2 DEF Size, Cases, Roots
<1>5. Shape(EmptyRun)
  BY <1>1, <1>2, <1>3, <1>4, DatasetNames, Zenon DEF Shape
<1> QED BY <1>4, <1>5 DEF Kept


\* Customer care reads the incidents and writes rows of its own.
LEMMA CareKeeps ==
  ASSUME NEW x, Kept(x), NEW predicted \in SUBSET Roots(x)
  PROVE  LET y == BuildCare(x, predicted)
         IN Kept(y) /\ Size(y) = Size(x) /\ CareFollowsIncidents(y) /\ CareBuilt(y)
<1> DEFINE incidents == [r \in Roots(x) |->
                           IF r \in predicted THEN [x.incidents[r] EXCEPT !.opened = -Minutes(60)]
                           ELSE x.incidents[r]]
           Ticket(c) == [status |-> CareStatus(incidents[Manifest(x, c).root]),
                         closed |-> incidents[Manifest(x, c).root].closed,
                         match |-> Manifest(x, c).root \in predicted]
           tickets == [c \in Cases(x) |-> Ticket(c)]
           reviews == [c \in Cases(x) |-> incidents[Manifest(x, c).root].status]
           y == BuildCare(x, predicted)
<1>1. y = [x EXCEPT !.incidents = incidents, !.care_tickets = tickets,
                    !.care_ticket_reviews = reviews]
  BY Zenon DEF BuildCare
<1>2. Shape(x) /\ DOMAIN x = Datasets
  BY DEF Kept, Shape
<1> HIDE DEF y
<1>3. /\ DOMAIN y = Datasets
      /\ y.scenario_manifests = x.scenario_manifests
      /\ y.agent_decisions = x.agent_decisions
      /\ y.reconciliation_records = x.reconciliation_records
      /\ y.human_decisions = x.human_decisions
      /\ y.action_events = x.action_events
      /\ y.work_orders = x.work_orders
      /\ y.field_evidence = x.field_evidence
      /\ y.mrs = x.mrs
      /\ y.telemetry_tr181 = x.telemetry_tr181
      /\ y.validation_events = x.validation_events
      /\ y.resolution_events = x.resolution_events
      /\ y.incidents = incidents /\ y.care_tickets = tickets /\ y.care_ticket_reviews = reviews
  <2> HIDE DEF incidents, tickets, reviews
  <2> QED BY <1>1, <1>2 DEF Datasets
<1>4. /\ Size(y) = Size(x) /\ Cases(y) = Cases(x) /\ Roots(y) = Roots(x)
      /\ \A c : Manifest(y, c) = Manifest(x, c)
      /\ \A c : Restoration(y, c) <=> Restoration(x, c)
  BY <1>3, Zenon DEF Size, Cases, Roots, Manifest, Restoration
<1>5. /\ \A c, z : Occurrences(y, z) = Occurrences(x, z) /\ ScenarioOf(y, c) = ScenarioOf(x, c)
      /\ \A r : Attempts(y, r) = Attempts(x, r)
  <2>1. \A c : ScenarioOf(y, c) = ScenarioOf(x, c) BY <1>4, Zenon DEF ScenarioOf
  <2>2. \A z : Occurrences(y, z) = Occurrences(x, z) BY <1>4, <2>1 DEF Occurrences
  <2>3. \A r : Attempts(y, r) = Attempts(x, r) BY <1>4 DEF Attempts
  <2> QED BY <2>1, <2>2, <2>3
<1>6. \A c : Before(y, c) = Before(x, c)
  BY <1>5, Zenon DEF Before
<1>7. \A r : Retries(y, r) = Retries(x, r) /\ Reopenings(y, r) = Reopenings(x, r)
  <2>1. \A r : Retries(y, r) = Retries(x, r) BY <1>4, <1>5 DEF Retries
  <2>2. \A r : Reopenings(y, r) = Reopenings(x, r) BY <1>4, <1>5 DEF Reopenings
  <2> QED BY <2>1, <2>2
<1>8. \A r \in Roots(x) :
        /\ incidents[r] \in Incidents
        /\ incidents[r].status = x.incidents[r].status
        /\ incidents[r].resolved = x.incidents[r].resolved
        /\ incidents[r].closed = x.incidents[r].closed
        /\ incidents[r].repeats = x.incidents[r].repeats
        /\ incidents[r].reopens = x.incidents[r].reopens
        /\ incidents[r].opened = x.incidents[r].opened \/ incidents[r].opened = -Minutes(60)
  <2> SUFFICES ASSUME NEW r \in Roots(x)
               PROVE  /\ incidents[r] \in Incidents
                      /\ incidents[r].status = x.incidents[r].status
                      /\ incidents[r].resolved = x.incidents[r].resolved
                      /\ incidents[r].closed = x.incidents[r].closed
                      /\ incidents[r].repeats = x.incidents[r].repeats
                      /\ incidents[r].reopens = x.incidents[r].reopens
                      /\ incidents[r].opened = x.incidents[r].opened \/ incidents[r].opened = -Minutes(60)
    OBVIOUS
  <2>1. x.incidents[r] \in Incidents BY <1>2 DEF Shape
  <2>2. -Minutes(60) \in Int BY DEF Minutes
  <2>3. incidents[r] = IF r \in predicted THEN [x.incidents[r] EXCEPT !.opened = -Minutes(60)]
                       ELSE x.incidents[r]
    OBVIOUS
  <2> DEFINE i == incidents[r]
             j == x.incidents[r]
             k == -Minutes(60)
  <2>4. j \in Incidents /\ k \in Int /\ i = IF r \in predicted THEN [j EXCEPT !.opened = k] ELSE j
    BY <2>1, <2>2, <2>3
  <2> HIDE DEF i, j, k
  <2>5. /\ i \in Incidents /\ i.status = j.status /\ i.resolved = j.resolved
        /\ i.closed = j.closed /\ i.repeats = j.repeats /\ i.reopens = j.reopens
        /\ i.opened = j.opened \/ i.opened = k
    <3>1. CASE r \in predicted
      BY <2>4, <3>1 DEF Incidents
    <3>2. CASE r \notin predicted
      BY <2>4, <3>2
    <3> QED BY <3>1, <3>2
  <2> QED BY <2>5 DEF i, j, k
<1>9. incidents \in [Roots(x) -> Incidents]
  BY <1>8
<1> HIDE DEF incidents, tickets, reviews
<1>10. Shape(y)
  BY <1>2, <1>3, <1>4, <1>9, Zenon DEF Shape
<1>11. \A c \in Cases(y) : CaseRows(y, c) /\ Placed(y, c)
  <2> SUFFICES ASSUME NEW c \in Cases(x) PROVE CaseRows(y, c) /\ Placed(y, c)
    BY <1>4
  <2>1. CaseRows(x, c) /\ Placed(x, c) BY DEF Kept
  <2>2. CaseRows(y, c) BY <1>3, <1>4, <2>1, Zenon DEF CaseRows
  <2>3. Placed(y, c)
    <3>1. /\ Manifest(y, c) = Manifest(x, c) /\ Roots(y) = Roots(x) /\ Before(y, c) = Before(x, c)
          /\ Attempts(y, Manifest(x, c).root) = Attempts(x, Manifest(x, c).root)
          /\ Manifest(y, Manifest(x, c).parent) = Manifest(x, Manifest(x, c).parent)
          /\ y.human_decisions = x.human_decisions
      BY <1>3, <1>4, <1>5, <1>6
    <3> QED BY <2>1, <3>1 DEF Placed
  <2> QED BY <2>2, <2>3
<1>12. \A r \in Roots(y) : IncidentRow(y, r)
  <2> SUFFICES ASSUME NEW r \in Roots(x) PROVE IncidentRow(y, r)
    BY <1>4
  <2> DEFINE last == Latest(Attempts(x, r))
             i == x.incidents[r]
             j == y.incidents[r]
  <2>1. IncidentRow(x, r) BY DEF Kept
  <2>2. /\ j.status = i.status /\ j.resolved = i.resolved /\ j.closed = i.closed
        /\ j.repeats = i.repeats /\ j.reopens = i.reopens
        /\ j.opened = i.opened \/ j.opened = -Minutes(60)
        /\ i \in Incidents
    BY <1>2, <1>3, <1>8 DEF Shape
  <2>3. Manifest(x, r).at \in Nat
    <3>1. r \in Cases(x) /\ Cases(x) = 1..Size(x) /\ Size(x) \in Nat
      BY <1>2, SizeIs DEF Shape
    <3>2. Manifest(x, r).at = Minutes(2 * (r - 1))
      BY <3>1 DEF Kept, Placed
    <3> QED BY <3>1, <3>2 DEF Minutes
  <2>4. /\ i.status = "CLOSED" => i.opened <= i.resolved /\ i.resolved >= 0
        /\ i.opened <= Manifest(x, r).at + Minutes(5)
    BY <2>1, Zenon DEF IncidentRow
  <2>5. /\ j.status = "CLOSED" => j.opened <= j.resolved
        /\ j.opened <= Manifest(x, r).at + Minutes(5)
    <3> HIDE DEF i, j
    <3> QED BY <2>2, <2>3, <2>4 DEF Minutes, Incidents
  <2> HIDE DEF j
  <2> QED BY <1>3, <1>4, <1>5, <1>7, <2>1, <2>2, <2>5, Zenon DEF IncidentRow, j
<1>13. CareFollowsIncidents(y)
  <2>1. \A c \in Cases(x) : tickets[c].status = CareStatus(incidents[Manifest(x, c).root])
    BY DEF tickets
  <2> QED BY <1>3, <1>4, <2>1, Zenon DEF CareFollowsIncidents
<1>14. Kept(y)
  BY <1>10, <1>11, <1>12 DEF Kept
<1>15. CareBuilt(y)
  <2>1. y.care_tickets = [c \in Cases(y) |->
          [status |-> CareStatus(y.incidents[Manifest(y, c).root]),
           closed |-> y.incidents[Manifest(y, c).root].closed,
           match |-> Manifest(y, c).root \in predicted]]
    BY <1>3, <1>4, Zenon DEF tickets
  <2>2. y.care_ticket_reviews = [c \in Cases(y) |-> y.incidents[Manifest(y, c).root].status]
    BY <1>3, <1>4, Zenon DEF reviews
  <2>3. ASSUME NEW r \in predicted PROVE y.incidents[r].opened = -Minutes(60)
    <3> DEFINE j == x.incidents[r]
               k == -Minutes(60)
    <3>1. j \in Incidents /\ r \in Roots(x)
      BY <1>2 DEF Shape
    <3>2. incidents[r] = [j EXCEPT !.opened = k]
      BY <3>1 DEF incidents
    <3> HIDE DEF j, k
    <3>3. incidents[r].opened = k
      BY <3>1, <3>2 DEF Incidents
    <3> QED BY <1>3, <3>3 DEF k
  <2>4. predicted \in SUBSET Roots(y)
    BY <1>4
  <2> QED BY <2>1, <2>2, <2>3, <2>4, Zenon DEF CareBuilt
<1> QED BY <1>4, <1>13, <1>14, <1>15 DEF y

-----------------------------------------------------------------------------
(* What a case that waits, and one that was acted on, look like to the gate *)

BlockedCase(x, c) ==
  /\ x.action_events[c].status = "BLOCKED_PENDING_HUMAN"
  /\ x.human_decisions[c] = Pending /\ x.reconciliation_records[c] = TRUE
  /\ Manifest(x, c).seq = 0
  /\ x.work_orders[c] = << >> /\ x.field_evidence[c] = << >> /\ x.mrs[c] = << >>
  /\ x.telemetry_tr181[c] = << >> /\ x.validation_events[c] = << >>
  /\ x.resolution_events[c] = << >>

\* What was done has the rows e; the human, if one was needed, approved it before.
Acted(x, c, at, e) ==
  LET human == x.human_decisions[c]
      b == BestAction(ScenarioOf(x, c))
  IN /\ x.action_events[c].status = "SIMULATED_EXECUTED" /\ x.action_events[c].at = at
     /\ at \in Int /\ Manifest(x, c).at \in Nat /\ at >= Manifest(x, c).at + Minutes(11)
     /\ x.reconciliation_records[c] \in BOOLEAN
     /\ x.reconciliation_records[c] =>
          /\ human.status = "APPROVED" /\ human.response = "approve" /\ human.required = TRUE
          /\ human.decided \in Nat /\ human.decided < at
          /\ human.senior = (Manifest(x, c).seq > 0)
     /\ ~x.reconciliation_records[c] => human.status = "NOT_REQUIRED" /\ human.required = FALSE
     /\ b \in {"remote_repair", "dispatch_clean", "create_mr", "collect_evidence", "cpe_swap"}
     /\ Followed(b, at, e)
     /\ x.work_orders[c] = e.work /\ x.field_evidence[c] = e.evidence /\ x.mrs[c] = e.mr
     /\ b # "collect_evidence" => /\ x.telemetry_tr181[c] = <<e.post>>
                                  /\ x.validation_events[c] = <<e.post + Minutes(10)>>
                                  /\ x.resolution_events[c] = <<e.post + Minutes(10)>>
     /\ b = "collect_evidence" => /\ x.telemetry_tr181[c] = << >>
                                  /\ x.validation_events[c] = << >>
                                  /\ x.resolution_events[c] = << >>

LEMMA CaseIs ==
  ASSUME NEW x, Kept(x), NEW c \in Cases(x)
  PROVE  /\ x.reconciliation_records[c] =
              NeedsHuman(x.agent_decisions[c], ScenarioOf(x, c), Manifest(x, c).seq > 0)
         /\ BlockedCase(x, c) \/ \E at, e : Acted(x, c, at, e)
<1> DEFINE m == Manifest(x, c)
           s == m.scenario
           h == x.reconciliation_records[c]
           at == m.at + HistoricalDelay(h)
           dx == m.at + Minutes(9)
           b == BestAction(s)
           e == Downstream(b, at, dx)
<1>1. CaseRows(x, c) /\ Placed(x, c) /\ m \in Manifests /\ Shape(x)
      /\ Cases(x) = 1..Size(x) /\ Size(x) \in Nat
  BY SizeIs DEF Kept
<1>2. h = NeedsHuman(x.agent_decisions[c], s, m.seq > 0) /\ h \in BOOLEAN
  <2>1. h = NeedsHuman(x.agent_decisions[c], s, m.seq > 0)
    BY <1>1, Zenon DEF CaseRows
  <2>2. Len(x.reconciliation_records) = Size(x) /\ x.reconciliation_records \in Seq(BOOLEAN)
    BY <1>1 DEF Shape
  <2>3. h \in BOOLEAN
    <3> HIDE DEF m
    <3> QED BY <1>1, <2>2
  <2> QED BY <2>1, <2>3
<1>3. ScenarioOf(x, c) = s /\ s \in Scenarios /\ m.at \in Nat
  <2>1. m.at = Minutes(2 * (c - 1)) BY <1>1 DEF Placed
  <2>2. m.at \in Nat BY <1>1, <2>1 DEF Minutes
  <2> QED BY <1>1, <2>2 DEF ScenarioOf, Manifests
<1>4. /\ at \in Int /\ dx \in Int /\ at >= m.at + Minutes(11)
      /\ dx = at - Minutes(2) \/ dx = at - Minutes(3)
      /\ m.at + Minutes(11) \in Nat
      /\ h => m.at + Minutes(11) < at
  <2> HIDE DEF m
  <2> QED BY <1>2, <1>3 DEF HistoricalDelay, Minutes
<1>5. /\ Restores(s) <=> b # "collect_evidence"
      /\ b \in {"remote_repair", "dispatch_clean", "create_mr", "collect_evidence", "cpe_swap"}
      /\ Followed(b, at, e)
  <2> HIDE DEF at, dx, s
  <2> QED BY <1>3, <1>4, DownstreamFollows
<1>6. \/ /\ h /\ m.seq = 0
         /\ x.human_decisions[c] = Pending
         /\ x.action_events[c] =
              [status |-> "BLOCKED_PENDING_HUMAN", at |-> m.at + Minutes(10)]
         /\ x.work_orders[c] = << >> /\ x.field_evidence[c] = << >> /\ x.mrs[c] = << >>
         /\ x.telemetry_tr181[c] = << >> /\ x.validation_events[c] = << >>
         /\ x.resolution_events[c] = << >>
      \/ /\ x.human_decisions[c] =
              IF h THEN HistoricalApproval(m.at + Minutes(11), m.seq > 0) ELSE NotRequired
         /\ x.action_events[c] = [status |-> "SIMULATED_EXECUTED", at |-> at]
         /\ x.work_orders[c] = e.work /\ x.field_evidence[c] = e.evidence /\ x.mrs[c] = e.mr
         /\ IF Restores(s)
            THEN /\ x.telemetry_tr181[c] = <<e.post>>
                 /\ x.validation_events[c] = <<e.post + Minutes(10)>>
                 /\ x.resolution_events[c] = <<e.post + Minutes(10)>>
            ELSE /\ x.telemetry_tr181[c] = << >> /\ x.validation_events[c] = << >>
                 /\ x.resolution_events[c] = << >>
  BY <1>1, Zenon DEF CaseRows
<1> HIDE DEF e, b, at, dx
<1>7. CASE /\ h /\ m.seq = 0
           /\ x.human_decisions[c] = Pending
           /\ x.action_events[c] =
                [status |-> "BLOCKED_PENDING_HUMAN", at |-> m.at + Minutes(10)]
           /\ x.work_orders[c] = << >> /\ x.field_evidence[c] = << >> /\ x.mrs[c] = << >>
           /\ x.telemetry_tr181[c] = << >> /\ x.validation_events[c] = << >>
           /\ x.resolution_events[c] = << >>
  <2>1. BlockedCase(x, c)
    <3>1. h = TRUE BY <1>2, <1>7
    <3>2. x.action_events[c].status = "BLOCKED_PENDING_HUMAN" BY <1>7
    <3> QED BY <1>7, <3>1, <3>2, Zenon DEF BlockedCase
  <2> QED BY <1>2, <1>3, <2>1
<1>8. CASE /\ x.human_decisions[c] =
                IF h THEN HistoricalApproval(m.at + Minutes(11), m.seq > 0) ELSE NotRequired
           /\ x.action_events[c] = [status |-> "SIMULATED_EXECUTED", at |-> at]
           /\ x.work_orders[c] = e.work /\ x.field_evidence[c] = e.evidence /\ x.mrs[c] = e.mr
           /\ IF Restores(s)
              THEN /\ x.telemetry_tr181[c] = <<e.post>>
                   /\ x.validation_events[c] = <<e.post + Minutes(10)>>
                   /\ x.resolution_events[c] = <<e.post + Minutes(10)>>
              ELSE /\ x.telemetry_tr181[c] = << >> /\ x.validation_events[c] = << >>
                   /\ x.resolution_events[c] = << >>
  <2> DEFINE human == x.human_decisions[c]
             p == HistoricalApproval(m.at + Minutes(11), m.seq > 0)
  <2>1. /\ p.status = "APPROVED" /\ p.response = "approve" /\ p.required = TRUE
        /\ p.decided = m.at + Minutes(11) /\ p.senior = (m.seq > 0)
        /\ NotRequired.status = "NOT_REQUIRED" /\ NotRequired.required = FALSE
    BY DEF HistoricalApproval, NotRequired, Pending
  <2>2. /\ h => /\ human.status = "APPROVED" /\ human.response = "approve" /\ human.required = TRUE
                /\ human.decided = m.at + Minutes(11)
                /\ human.senior = (m.seq > 0)
        /\ ~h => human.status = "NOT_REQUIRED" /\ human.required = FALSE
    <3>1. h => human = p BY <1>8, Zenon
    <3>2. ~h => human = NotRequired BY <1>8, Zenon
    <3> HIDE DEF human, p
    <3> QED BY <2>1, <3>1, <3>2
  <2>3. x.action_events[c].status = "SIMULATED_EXECUTED" /\ x.action_events[c].at = at
    BY <1>8
  <2>4. BestAction(ScenarioOf(x, c)) = b
    BY <1>3 DEF b
  <2>5. h => human.decided \in Nat /\ human.decided < at
    <3> HIDE DEF h, m, human
    <3> QED BY <1>4, <2>2
  <2>6. b # "collect_evidence" => /\ x.telemetry_tr181[c] = <<e.post>>
                                  /\ x.validation_events[c] = <<e.post + Minutes(10)>>
                                  /\ x.resolution_events[c] = <<e.post + Minutes(10)>>
    BY <1>5, <1>8, Zenon
  <2>7. b = "collect_evidence" => /\ x.telemetry_tr181[c] = << >>
                                  /\ x.validation_events[c] = << >>
                                  /\ x.resolution_events[c] = << >>
    BY <1>5, <1>8, Zenon
  <2>8. Acted(x, c, at, e)
    BY <1>2, <1>3, <1>4, <1>5, <1>8, <2>2, <2>3, <2>4, <2>5, <2>6, <2>7, Zenon DEF Acted
  <2> QED BY <1>2, <1>3, <2>8
<1> QED BY <1>6, <1>7, <1>8

-----------------------------------------------------------------------------
(* The checks of the gate on one case *)

LEMMA MembersAre ==
  /\ Members(<< >>) = {}
  /\ \A v : Members(<<v>>) = {v}
  /\ \A S : \A q \in Seq(S) : Len(q) = 1 => Members(q) = {q[1]} /\ q[1] \in S
  /\ \A S : \A q \in Seq(S) : Len(q) = 2 => Members(q) = {q[1], q[2]} /\ q[1] \in S /\ q[2] \in S
<1>1. Members(<< >>) = {} BY DEF Members
<1>2. \A v : Members(<<v>>) = {v} BY DEF Members
<1>3. ASSUME NEW S, NEW q \in Seq(S), Len(q) = 1 PROVE Members(q) = {q[1]} /\ q[1] \in S
  <2>1. DOMAIN q = {1} BY <1>3
  <2> QED BY <2>1, <1>3 DEF Members
<1>4. ASSUME NEW S, NEW q \in Seq(S), Len(q) = 2
      PROVE  Members(q) = {q[1], q[2]} /\ q[1] \in S /\ q[2] \in S
  <2>1. DOMAIN q = {1, 2} BY <1>4
  <2> QED BY <2>1, <1>4 DEF Members
<1> QED BY <1>1, <1>2, <1>3, <1>4

LEMMA OrderedIs ==
  /\ \A p, q, r : p <= q /\ q <= r => Ordered(<<p, q, r>>)
  /\ \A p, q, r, s, t : p <= q /\ q <= r /\ r <= s /\ s <= t => Ordered(<<p, q, r, s, t>>)
  /\ \A p, q, r, s, t, u : p <= q /\ q <= r /\ r <= s /\ s <= t /\ t <= u
                             => Ordered(<<p, q, r, s, t, u>>)
<1>1. ASSUME NEW p, NEW q, NEW r, p <= q, q <= r PROVE Ordered(<<p, q, r>>)
  <2>1. \A i \in 1..2 : i = 1 \/ i = 2 OBVIOUS
  <2>2. Len(<<p, q, r>>) - 1 = 2 OBVIOUS
  <2> QED BY <1>1, <2>1, <2>2 DEF Ordered
<1>2. ASSUME NEW p, NEW q, NEW r, NEW s, NEW t, p <= q, q <= r, r <= s, s <= t
      PROVE  Ordered(<<p, q, r, s, t>>)
  <2>1. \A i \in 1..4 : i = 1 \/ i = 2 \/ i = 3 \/ i = 4 OBVIOUS
  <2>2. Len(<<p, q, r, s, t>>) - 1 = 4 OBVIOUS
  <2> QED BY <1>2, <2>1, <2>2 DEF Ordered
<1>3. ASSUME NEW p, NEW q, NEW r, NEW s, NEW t, NEW u, p <= q, q <= r, r <= s, s <= t, t <= u
      PROVE  Ordered(<<p, q, r, s, t, u>>)
  <2>1. \A i \in 1..5 : i = 1 \/ i = 2 \/ i = 3 \/ i = 4 \/ i = 5 OBVIOUS
  <2>2. Len(<<p, q, r, s, t, u>>) - 1 = 5 OBVIOUS
  <2> QED BY <1>3, <2>1, <2>2 DEF Ordered
<1> QED BY <1>1, <1>2, <1>3

\* The work w is ordered, and brackets its evidence and its request.
WorkFits(w, at, e, W, E, M) ==
  /\ W = {w}
  /\ w.diagnosis <= w.readiness /\ w.readiness <= w.assigned /\ w.assigned <= w.dispatched
  /\ at <= w.dispatched /\ w.dispatched <= w.arrived /\ w.arrived <= w.completed
  /\ w.completed <= e.post
  /\ \A p \in E : p \in Proofs /\ w.arrived <= p.at /\ p.at <= w.completed
  /\ w.kind = "CPE_SWAP" =>
       /\ w.replacement # NoTime
       /\ \E p \in E : p.kind = "cpe_diagnostic_failed" /\ p.at < w.replacement
  /\ \A m \in M : /\ m \in MRs /\ at <= m.created
                  /\ m.created <= m.accepted /\ m.accepted <= w.dispatched
                  /\ w.completed <= m.completed
                  /\ E # {}

\* The rows of an action: one work order at most, with its evidence and request.
Rows(a, at, e, W, E, M) ==
  /\ Members(e.work) = W /\ Members(e.evidence) = E /\ Members(e.mr) = M
  /\ Len(e.work) <= 1 /\ Len(e.mr) <= 1
  /\ \A i, j \in DOMAIN e.evidence : e.evidence[i].kind = e.evidence[j].kind => i = j
  /\ a \in {"remote_repair", "collect_evidence"} =>
       W = {} /\ E = {} /\ M = {} /\ Len(e.work) = 0 /\ Len(e.mr) = 0
  /\ a \in {"dispatch_clean", "cpe_swap"} => M = {} /\ Len(e.work) = 1 /\ Len(e.mr) = 0
  /\ a = "create_mr" => Len(e.work) = 1 /\ Len(e.mr) = 1
  /\ a = "remote_repair" => e.post = at + Minutes(10)
  /\ a \notin {"remote_repair", "collect_evidence"} =>
       \E w \in Works : WorkFits(w, at, e, W, E, M)

LEMMA RowsAre ==
  ASSUME NEW a \in {"remote_repair", "dispatch_clean", "create_mr", "collect_evidence", "cpe_swap"},
         NEW at \in Nat, NEW e, Followed(a, at, e)
  PROVE  \E W, E, M : Rows(a, at, e, W, E, M)
<1>1. e.work \in Seq(Works) /\ e.evidence \in Seq(Proofs) /\ e.mr \in Seq(MRs)
      /\ e.post \in Int
  BY Zenon DEF Followed
<1> DEFINE W == Members(e.work)
           E == Members(e.evidence)
           M == Members(e.mr)
<1> SUFFICES Rows(a, at, e, W, E, M)
  OBVIOUS
<1>2. CASE a \in {"remote_repair", "collect_evidence"}
  <2>1. /\ e.work = << >> /\ e.evidence = << >> /\ e.mr = << >>
        /\ a = "remote_repair" => e.post = at + Minutes(10)
    BY <1>2, Zenon DEF Followed
  <2>2. W = {} /\ E = {} /\ M = {}
    BY <2>1, MembersAre
  <2>3. Len(e.work) = 0 /\ Len(e.mr) = 0 /\ DOMAIN e.evidence = {}
    BY <2>1
  <2>4. a \notin {"dispatch_clean", "cpe_swap", "create_mr"}
    BY <1>2
  <2> HIDE DEF W, E, M
  <2> QED BY <1>2, <2>1, <2>2, <2>3, <2>4 DEF Rows, W, E, M
<1>3. CASE a = "dispatch_clean"
  <2> DEFINE w == e.work[1]
             p == e.evidence[1]
  <2>1. /\ Len(e.work) = 1 /\ e.mr = << >> /\ e.post = at + Minutes(95)
        /\ w.diagnosis = at - Minutes(2) \/ w.diagnosis = at - Minutes(3)
        /\ w.readiness = at + 1 /\ w.assigned = at + 2
        /\ w.dispatched = at + Minutes(5) /\ w.arrived = at + Minutes(40)
        /\ w.completed = at + Minutes(90)
        /\ w.kind = "CLEAN_BOOTS"
        /\ Len(e.evidence) = 1 /\ p.at = at + Minutes(85)
    BY <1>3, Zenon DEF Followed
  <2>2. W = {w} /\ E = {p} /\ M = {} /\ w \in Works /\ p \in Proofs
    BY <1>1, <2>1, MembersAre, SMTT(30)
  <2>3. Len(e.mr) = 0 /\ DOMAIN e.evidence = {1} /\ w.kind # "CPE_SWAP"
    BY <1>1, <2>1
  <2>4. a \notin {"remote_repair", "collect_evidence", "create_mr"}
    BY <1>3
  <2> HIDE DEF W, E, M, w, p
  <2>5. /\ w.diagnosis <= w.readiness /\ w.readiness <= w.assigned /\ w.assigned <= w.dispatched
        /\ at <= w.dispatched /\ w.dispatched <= w.arrived /\ w.arrived <= w.completed
        /\ w.completed <= e.post /\ w.arrived <= p.at /\ p.at <= w.completed
    BY <2>1 DEF Minutes
  <2>6. \A i, j \in DOMAIN e.evidence : e.evidence[i].kind = e.evidence[j].kind => i = j
    BY <2>3
  <2>7. WorkFits(w, at, e, W, E, M)
    BY <2>2, <2>3, <2>5 DEF WorkFits
  <2>8. Len(e.work) <= 1 /\ Len(e.mr) <= 1 BY <2>1, <2>3
  <2> QED BY <1>3, <2>1, <2>2, <2>3, <2>4, <2>6, <2>7, <2>8, Zenon DEF Rows, W, E, M
<1>4. CASE a = "cpe_swap"
  <2> DEFINE w == e.work[1]
             p == e.evidence[1]
             q == e.evidence[2]
  <2>1. /\ Len(e.work) = 1 /\ e.mr = << >> /\ e.post = at + Minutes(95)
        /\ w.diagnosis = at - Minutes(2) \/ w.diagnosis = at - Minutes(3)
        /\ w.readiness = at + 1 /\ w.assigned = at + 2
        /\ w.dispatched = at + Minutes(5) /\ w.arrived = at + Minutes(40)
        /\ w.completed = at + Minutes(90) /\ w.replacement = at + Minutes(60)
        /\ Len(e.evidence) = 2
        /\ p.kind = "cpe_diagnostic_failed" /\ p.at = at + Minutes(55)
        /\ q.kind = "cpe_replacement_completed" /\ q.at = at + Minutes(85)
    BY <1>4, Zenon DEF Followed
  <2>2. W = {w} /\ E = {p, q} /\ M = {} /\ w \in Works /\ p \in Proofs /\ q \in Proofs
    BY <1>1, <2>1, MembersAre, SMTT(30)
  <2>3. Len(e.mr) = 0 /\ DOMAIN e.evidence = {1, 2}
    BY <1>1, <2>1, SMTT(30)
  <2>4. a \notin {"remote_repair", "collect_evidence", "create_mr"}
    BY <1>4
  <2>6. \A i, j \in DOMAIN e.evidence : e.evidence[i].kind = e.evidence[j].kind => i = j
    BY <2>1, <2>3
  <2> HIDE DEF W, E, M, w, p, q
  <2>5. /\ w.diagnosis <= w.readiness /\ w.readiness <= w.assigned /\ w.assigned <= w.dispatched
        /\ at <= w.dispatched /\ w.dispatched <= w.arrived /\ w.arrived <= w.completed
        /\ w.completed <= e.post /\ w.arrived <= p.at /\ p.at <= w.completed
        /\ w.arrived <= q.at /\ q.at <= w.completed
        /\ p.at < w.replacement /\ w.replacement \in Nat
    BY <2>1 DEF Minutes
  <2>9. w.replacement # NoTime BY <2>5, NoTimeIsInt
  <2>7. WorkFits(w, at, e, W, E, M)
    BY <2>1, <2>2, <2>3, <2>5, <2>9 DEF WorkFits
  <2>8. Len(e.work) <= 1 /\ Len(e.mr) <= 1 BY <2>1, <2>3
  <2> QED BY <1>4, <2>1, <2>2, <2>3, <2>4, <2>6, <2>7, <2>8, Zenon DEF Rows, W, E, M
<1>5. CASE a = "create_mr"
  <2> DEFINE w == e.work[1]
             p == e.evidence[1]
             q == e.mr[1]
  <2>1. /\ Len(e.work) = 1 /\ Len(e.evidence) = 1 /\ Len(e.mr) = 1 /\ e.post = at + Minutes(115)
        /\ w.kind = "PLANT_REPAIR"
        /\ w.diagnosis = at - Minutes(2) \/ w.diagnosis = at - Minutes(3)
        /\ w.readiness = at + 1 /\ w.assigned = at + 2
        /\ w.dispatched = at + Minutes(10) /\ w.arrived = at + Minutes(50)
        /\ w.completed = at + Minutes(110) /\ p.at = at + Minutes(105)
        /\ q.created = at + Minutes(2) /\ q.accepted = at + Minutes(5)
        /\ q.completed = at + Minutes(112)
    BY <1>5, Zenon DEF Followed
  <2>2. W = {w} /\ E = {p} /\ M = {q} /\ w \in Works /\ p \in Proofs /\ q \in MRs
    BY <1>1, <2>1, MembersAre, SMTT(30)
  <2>3. DOMAIN e.evidence = {1} /\ w.kind # "CPE_SWAP"
    BY <1>1, <2>1
  <2>4. a \notin {"remote_repair", "collect_evidence", "dispatch_clean", "cpe_swap"}
    BY <1>5
  <2>6. \A i, j \in DOMAIN e.evidence : e.evidence[i].kind = e.evidence[j].kind => i = j
    BY <2>3
  <2> HIDE DEF W, E, M, w, p, q
  <2>5. /\ w.diagnosis <= w.readiness /\ w.readiness <= w.assigned /\ w.assigned <= w.dispatched
        /\ at <= w.dispatched /\ w.dispatched <= w.arrived /\ w.arrived <= w.completed
        /\ w.completed <= e.post /\ w.arrived <= p.at /\ p.at <= w.completed
        /\ at <= q.created /\ q.created <= q.accepted /\ q.accepted <= w.dispatched
        /\ w.completed <= q.completed
    BY <2>1 DEF Minutes
  <2>7. WorkFits(w, at, e, W, E, M)
    BY <2>2, <2>3, <2>5 DEF WorkFits
  <2>8. Len(e.work) <= 1 /\ Len(e.mr) <= 1 BY <2>1
  <2> QED BY <1>5, <2>1, <2>4, <2>2, <2>6, <2>7, <2>8, Zenon DEF Rows, W, E, M
<1> QED BY <1>2, <1>3, <1>4, <1>5

LEMMA ActedIs ==
  ASSUME NEW x, Kept(x), NEW c \in Cases(x), ~BlockedCase(x, c)
  PROVE  \E at, e, W, E, M :
           at \in Nat /\ Acted(x, c, at, e) /\ Rows(BestAction(ScenarioOf(x, c)), at, e, W, E, M)
<1>1. PICK at, e : Acted(x, c, at, e)
  BY CaseIs
<1>2. at \in Nat
  BY <1>1 DEF Acted, Minutes
<1>3. \E W, E, M : Rows(BestAction(ScenarioOf(x, c)), at, e, W, E, M)
  BY <1>1, <1>2, RowsAre DEF Acted
<1> QED BY <1>1, <1>2, <1>3

\* A blocked case has no rows.
LEMMA BlockedIs ==
  ASSUME NEW x, NEW c, BlockedCase(x, c)
  PROVE  /\ Members(x.work_orders[c]) = {} /\ Members(x.field_evidence[c]) = {}
         /\ Members(x.mrs[c]) = {} /\ Members(x.telemetry_tr181[c]) = {}
         /\ Members(x.validation_events[c]) = {} /\ Members(x.resolution_events[c]) = {}
BY MembersAre DEF BlockedCase

LEMMA RowsAreUniqueHolds == ASSUME NEW x, Kept(x) PROVE RowsAreUnique(x)
<1> SUFFICES ASSUME NEW c \in Cases(x)
             PROVE  /\ Len(x.work_orders[c]) <= 1 /\ Len(x.mrs[c]) <= 1
                    /\ Len(x.telemetry_tr181[c]) <= 1 /\ Len(x.validation_events[c]) <= 1
                    /\ Len(x.resolution_events[c]) <= 1
                    /\ \A i, j \in DOMAIN x.field_evidence[c] :
                         x.field_evidence[c][i].kind = x.field_evidence[c][j].kind => i = j
  BY DEF RowsAreUnique
<1>1. Len(<< >>) <= 1 /\ (\A v : Len(<<v>>) <= 1) /\ DOMAIN << >> = {}
  OBVIOUS
<1>2. CASE BlockedCase(x, c)
  BY <1>1, <1>2 DEF BlockedCase
<1>3. CASE ~BlockedCase(x, c)
  <2> DEFINE b == BestAction(ScenarioOf(x, c))
  <2>1. PICK at, e, W, E, M : at \in Nat /\ Acted(x, c, at, e) /\ Rows(b, at, e, W, E, M)
    BY <1>3, ActedIs
  <2>2. /\ x.work_orders[c] = e.work /\ x.field_evidence[c] = e.evidence /\ x.mrs[c] = e.mr
        /\ \/ /\ x.telemetry_tr181[c] = <<e.post>>
              /\ x.validation_events[c] = <<e.post + Minutes(10)>>
              /\ x.resolution_events[c] = <<e.post + Minutes(10)>>
           \/ /\ x.telemetry_tr181[c] = << >> /\ x.validation_events[c] = << >>
              /\ x.resolution_events[c] = << >>
    BY <2>1, Zenon DEF Acted
  <2>3. /\ Len(e.work) <= 1 /\ Len(e.mr) <= 1
        /\ \A i, j \in DOMAIN e.evidence : e.evidence[i].kind = e.evidence[j].kind => i = j
    BY <2>1, Zenon DEF Rows
  <2> QED BY <1>1, <2>2, <2>3
<1> QED BY <1>2, <1>3

LEMMA WorkIsReadyHolds == ASSUME NEW x, Kept(x) PROVE WorkIsReady(x)
<1> SUFFICES ASSUME NEW c \in Cases(x)
             PROVE  /\ \A w \in Members(x.work_orders[c]) :
                         Ordered(<<w.diagnosis, w.readiness, w.assigned, w.dispatched, w.arrived, w.completed>>)
                    /\ \A p \in Members(x.field_evidence[c]) :
                         \E w \in Members(x.work_orders[c]) : w.arrived <= p.at /\ p.at <= w.completed
  BY DEF WorkIsReady
<1>1. CASE BlockedCase(x, c)
  BY <1>1, BlockedIs
<1>2. CASE ~BlockedCase(x, c)
  <2> DEFINE b == BestAction(ScenarioOf(x, c))
  <2>1. PICK at, e, W, E, M : at \in Nat /\ Acted(x, c, at, e) /\ Rows(b, at, e, W, E, M)
    BY <1>2, ActedIs
  <2>2. Members(x.work_orders[c]) = W /\ Members(x.field_evidence[c]) = E
    BY <2>1, Zenon DEF Acted, Rows
  <2>3. CASE b \in {"remote_repair", "collect_evidence"}
    <3>1. W = {} /\ E = {} BY <2>1, <2>3, Zenon DEF Rows
    <3> QED BY <2>2, <3>1
  <2>4. CASE b \notin {"remote_repair", "collect_evidence"}
    <3>1. PICK w \in Works : WorkFits(w, at, e, W, E, M)
      BY <2>1, <2>4, Zenon DEF Rows
    <3>2. Ordered(<<w.diagnosis, w.readiness, w.assigned, w.dispatched, w.arrived, w.completed>>)
      BY <3>1, OrderedIs DEF WorkFits
    <3> QED BY <2>2, <3>1, <3>2 DEF WorkFits
  <2> QED BY <2>3, <2>4
<1> QED BY <1>1, <1>2

LEMMA SwapIsDiagnosedHolds == ASSUME NEW x, Kept(x) PROVE SwapIsDiagnosed(x)
<1> SUFFICES ASSUME NEW c \in Cases(x), NEW w \in Members(x.work_orders[c]), w.kind = "CPE_SWAP"
             PROVE  /\ w.replacement # NoTime
                    /\ \E p \in Members(x.field_evidence[c]) :
                         p.kind = "cpe_diagnostic_failed" /\ p.at < w.replacement
  BY DEF SwapIsDiagnosed
<1>1. ~BlockedCase(x, c)
  BY BlockedIs
<1> DEFINE b == BestAction(ScenarioOf(x, c))
<1>2. PICK at, e, W, E, M : at \in Nat /\ Acted(x, c, at, e) /\ Rows(b, at, e, W, E, M)
  BY <1>1, ActedIs
<1>3. Members(x.work_orders[c]) = W /\ Members(x.field_evidence[c]) = E
  BY <1>2, Zenon DEF Acted, Rows
<1>4. b \notin {"remote_repair", "collect_evidence"}
  BY <1>2, <1>3, Zenon DEF Rows
<1>5. PICK v \in Works : WorkFits(v, at, e, W, E, M)
  BY <1>2, <1>4, Zenon DEF Rows
<1> QED BY <1>3, <1>5 DEF WorkFits

LEMMA MaintenanceIsOrderedHolds == ASSUME NEW x, Kept(x) PROVE MaintenanceIsOrdered(x)
<1> SUFFICES ASSUME NEW c \in Cases(x), NEW m \in Members(x.mrs[c])
             PROVE  \E w \in Members(x.work_orders[c]) :
                      /\ Ordered(<<m.created, m.accepted, w.dispatched, w.completed, m.completed>>)
                      /\ Manifest(x, c).at + Minutes(2) <= m.created
                      /\ \E p \in Members(x.field_evidence[c]) : p.at <= m.completed
  BY DEF MaintenanceIsOrdered
<1>1. ~BlockedCase(x, c)
  BY BlockedIs
<1> DEFINE b == BestAction(ScenarioOf(x, c))
<1>2. PICK at, e, W, E, M : at \in Nat /\ Acted(x, c, at, e) /\ Rows(b, at, e, W, E, M)
  BY <1>1, ActedIs
<1>3. Members(x.work_orders[c]) = W /\ Members(x.field_evidence[c]) = E /\ Members(x.mrs[c]) = M
  BY <1>2, Zenon DEF Acted, Rows
<1>4. b \notin {"remote_repair", "collect_evidence"}
  BY <1>2, <1>3, Zenon DEF Rows
<1>5. PICK w \in Works : WorkFits(w, at, e, W, E, M)
  BY <1>2, <1>4, Zenon DEF Rows
<1>6. /\ w \in W /\ m \in MRs /\ at <= m.created /\ m.created <= m.accepted
      /\ m.accepted <= w.dispatched /\ w.dispatched <= w.arrived /\ w.arrived <= w.completed
      /\ w.completed <= m.completed /\ E # {}
      /\ \A p \in E : p \in Proofs /\ p.at <= w.completed
  BY <1>3, <1>5, Zenon DEF WorkFits
<1>7. w.dispatched <= w.completed
  BY <1>6 DEF Works
<1>8. Ordered(<<m.created, m.accepted, w.dispatched, w.completed, m.completed>>)
  BY <1>6, <1>7, OrderedIs
<1>9. Manifest(x, c).at + Minutes(2) <= m.created
  <2>1. Manifest(x, c).at \in Nat /\ at >= Manifest(x, c).at + Minutes(11) /\ at \in Nat
    BY <1>2, Zenon DEF Acted
  <2> QED BY <1>6, <2>1 DEF Minutes, MRs
<1>10. PICK p \in E : TRUE
  BY <1>6
<1>11. p.at <= m.completed
  BY <1>6, <1>10 DEF Proofs, MRs, Works
<1> QED BY <1>3, <1>6, <1>8, <1>9, <1>11

LEMMA ValidationIsProvenHolds == ASSUME NEW x, Kept(x) PROVE ValidationIsProven(x)
<1> SUFFICES ASSUME NEW c \in Cases(x), NEW v \in Members(x.validation_events[c])
             PROVE  /\ \E t \in Members(x.telemetry_tr181[c]) : t <= v
                    /\ \A p \in Members(x.field_evidence[c]) : p.at <= v
                    /\ \A w \in Members(x.work_orders[c]) : w.completed <= v
  BY DEF ValidationIsProven
<1>1. ~BlockedCase(x, c)
  BY BlockedIs
<1> DEFINE b == BestAction(ScenarioOf(x, c))
<1>2. PICK at, e, W, E, M : at \in Nat /\ Acted(x, c, at, e) /\ Rows(b, at, e, W, E, M)
  BY <1>1, ActedIs
<1>3. Members(x.work_orders[c]) = W /\ Members(x.field_evidence[c]) = E /\ e.post \in Int
  BY <1>2, Zenon DEF Acted, Rows, Followed
<1>4. b # "collect_evidence"
  BY <1>2, MembersAre, Zenon DEF Acted
<1>5. x.telemetry_tr181[c] = <<e.post>> /\ x.validation_events[c] = <<e.post + Minutes(10)>>
  BY <1>2, <1>4, Zenon DEF Acted
<1>6. Members(x.telemetry_tr181[c]) = {e.post} /\ v = e.post + Minutes(10)
  BY <1>5, MembersAre
<1>7. \A w \in W : w.completed <= e.post /\ w \in Works
  <2>1. CASE b = "remote_repair"
    BY <1>2, <2>1, Zenon DEF Rows
  <2>2. CASE b # "remote_repair"
    BY <1>2, <1>4, <2>2 DEF Rows, WorkFits
  <2> QED BY <2>1, <2>2
<1>8. \A p \in E : p.at <= e.post
  <2>1. CASE b = "remote_repair"
    BY <1>2, <2>1, Zenon DEF Rows
  <2>2. CASE b # "remote_repair"
    <3>1. PICK w \in Works : WorkFits(w, at, e, W, E, M)
      BY <1>2, <1>4, <2>2, Zenon DEF Rows
    <3>2. w.completed <= e.post /\ \A p \in E : p \in Proofs /\ p.at <= w.completed
      BY <3>1, Zenon DEF WorkFits
    <3> QED BY <1>3, <3>2 DEF Works, Proofs
  <2> QED BY <2>1, <2>2
<1>9. \A p \in E : p.at <= v
  <2>1. \A p \in E : p.at \in Int
    <3>1. CASE b = "remote_repair"
      BY <1>2, <3>1, Zenon DEF Rows
    <3>2. CASE b # "remote_repair"
      BY <1>2, <1>4, <3>2 DEF Rows, WorkFits, Proofs
    <3> QED BY <3>1, <3>2
  <2> QED BY <1>3, <1>6, <1>8, <2>1 DEF Minutes
<1>10. \A w \in W : w.completed <= v
  BY <1>3, <1>6, <1>7 DEF Works, Minutes
<1>11. e.post <= v
  BY <1>3, <1>6 DEF Minutes
<1> QED BY <1>3, <1>6, <1>9, <1>10, <1>11

LEMMA ResolutionIsValidatedHolds == ASSUME NEW x, Kept(x) PROVE ResolutionIsValidated(x)
<1> SUFFICES ASSUME NEW c \in Cases(x), NEW t \in Members(x.resolution_events[c])
             PROVE  \E v \in Members(x.validation_events[c]) : v <= t
  BY DEF ResolutionIsValidated
<1>1. ~BlockedCase(x, c)
  BY BlockedIs
<1> DEFINE b == BestAction(ScenarioOf(x, c))
<1>2. PICK at, e, W, E, M : at \in Nat /\ Acted(x, c, at, e) /\ Rows(b, at, e, W, E, M)
  BY <1>1, ActedIs
<1>3. b # "collect_evidence" /\ e.post \in Int
  BY <1>2, MembersAre, Zenon DEF Acted, Followed
<1>4. /\ x.validation_events[c] = <<e.post + Minutes(10)>>
      /\ x.resolution_events[c] = <<e.post + Minutes(10)>>
  BY <1>2, <1>3, Zenon DEF Acted
<1>5. Members(x.validation_events[c]) = {e.post + Minutes(10)} /\ t = e.post + Minutes(10)
  BY <1>4, MembersAre
<1> QED BY <1>3, <1>5 DEF Minutes

LEMMA PolicyRecomputedHolds == ASSUME NEW x, Kept(x) PROVE PolicyRecomputed(x)
<1> QED BY CaseIs DEF PolicyRecomputed

LEMMA GraphIsRootedHolds == ASSUME NEW x, Kept(x) PROVE GraphIsRooted(x)
<1>1. Roots(x) \subseteq Cases(x) /\ \A c \in Cases(x) : Placed(x, c) /\ Manifest(x, c) \in Manifests
  BY SizeIs, Zenon DEF Kept, Shape
<1>2. \A c \in Cases(x) : Manifest(x, c).seq \in Nat
  BY <1>1 DEF Manifests
<1>3. \A c \in Cases(x) :
        /\ c \in Roots(x) <=> Manifest(x, c).seq = 0
        /\ Manifest(x, c).seq = 0 => Manifest(x, c).root = c
        /\ Manifest(x, c).seq > 0 => Manifest(x, c).root \in Roots(x)
  BY <1>1, Zenon DEF Placed
<1>4. \A r \in Roots(x) : r \in Cases(x) /\ Manifest(x, r).root = r
  BY <1>1, <1>3
<1>5. \A c \in Cases(x) :
        /\ Manifest(x, c).root \in Roots(x)
        /\ Manifest(x, c).seq > 0 => c \notin Roots(x)
  <2> TAKE c \in Cases(x)
  <2>1. CASE Manifest(x, c).seq = 0
    BY <1>3, <2>1
  <2>2. CASE Manifest(x, c).seq > 0
    BY <1>2, <1>3, <2>2
  <2> QED BY <1>2, <2>1, <2>2
<1> QED BY <1>3, <1>4, <1>5 DEF GraphIsRooted

LEMMA ControlsHoldHolds == ASSUME NEW x, Kept(x) PROVE ControlsHold(x)
<1> DEFINE Fine(c, human, action, needed) ==
      CASE action.status = "BLOCKED_PENDING_HUMAN" ->
             /\ human.status = "PENDING" /\ human.required /\ needed
             /\ Unworked(x, c)
        [] action.status = "SIMULATED_EXECUTED" ->
             IF needed
             THEN /\ human.status = "APPROVED" /\ human.response = "approve" /\ human.required
                  /\ human.decided # NoTime /\ human.decided <= action.at
             ELSE human.status = "NOT_REQUIRED" /\ ~human.required
        [] action.status = "BLOCKED_NEEDS_EVIDENCE" ->
             /\ human.status = "EVIDENCE_REQUESTED" /\ human.response = "request_evidence"
             /\ Unworked(x, c)
        [] action.status = "BLOCKED_ESCALATED" ->
             /\ human.status \in {"ESCALATED", "REJECTED"}
             /\ human.response \in {"escalate", "reject"}
             /\ Unworked(x, c)
        [] OTHER -> FALSE
<1> SUFFICES ASSUME NEW c \in Cases(x)
             PROVE  Fine(c, x.human_decisions[c], x.action_events[c], x.reconciliation_records[c])
  BY Zenon DEF ControlsHold
<1> DEFINE human == x.human_decisions[c]
           action == x.action_events[c]
           needed == x.reconciliation_records[c]
<1>1. CASE BlockedCase(x, c)
  <2>1. action.status = "BLOCKED_PENDING_HUMAN" /\ human = Pending /\ needed = TRUE /\ Unworked(x, c)
    BY <1>1, Zenon DEF BlockedCase, Unworked
  <2>2. human.status = "PENDING" /\ human.required = TRUE
    BY <2>1 DEF Pending
  <2> HIDE DEF human, action, needed
  <2> SUFFICES Fine(c, human, action, needed)
    BY DEF human, action, needed
  <2> QED BY <2>1, <2>2
<1>2. CASE ~BlockedCase(x, c)
  <2>1. PICK at, e : at \in Nat /\ Acted(x, c, at, e)
    BY <1>2, ActedIs
  <2>2. /\ action.status = "SIMULATED_EXECUTED" /\ action.at = at /\ at \in Nat
        /\ needed \in BOOLEAN
        /\ needed => /\ human.status = "APPROVED" /\ human.response = "approve"
                     /\ human.required = TRUE /\ human.decided \in Nat /\ human.decided < at
        /\ ~needed => human.status = "NOT_REQUIRED" /\ human.required = FALSE
    BY <2>1, Zenon DEF Acted
  <2> HIDE DEF human, action, needed
  <2>3. needed => human.decided # NoTime /\ human.decided <= action.at
    BY <2>2, NoTimeIsInt
  <2> SUFFICES Fine(c, human, action, needed)
    BY DEF human, action, needed
  <2> QED BY <2>2, <2>3
<1> QED BY <1>1, <1>2

\* An executed case was acted on.
LEMMA ExecutedIs ==
  ASSUME NEW x, Kept(x), NEW c \in Cases(x), Executed(x, c)
  PROVE  ~BlockedCase(x, c)
<1> QED BY DEF Executed, BlockedCase

LEMMA BranchIsFollowedHolds == ASSUME NEW x, Kept(x) PROVE BranchIsFollowed(x)
<1> SUFFICES ASSUME NEW c \in Cases(x), Executed(x, c)
             PROVE  LET action == BestAction(ScenarioOf(x, c))
                        works == Len(x.work_orders[c])
                        requests == Len(x.mrs[c])
                        at == x.action_events[c].at
                    IN /\ action \in {"remote_repair", "collect_evidence"} => works = 0 /\ requests = 0
                       /\ action \in {"dispatch_clean", "cpe_swap"} => works = 1 /\ requests = 0
                       /\ action \in {"create_mr", "plant_repair"} => works = 1 /\ requests = 1
                       /\ \A w \in Members(x.work_orders[c]) : at <= w.dispatched
                       /\ \A m \in Members(x.mrs[c]) : at <= m.created
  BY DEF BranchIsFollowed
<1> DEFINE b == BestAction(ScenarioOf(x, c))
<1>1. PICK at, e, W, E, M : at \in Nat /\ Acted(x, c, at, e) /\ Rows(b, at, e, W, E, M)
  BY ExecutedIs, ActedIs
<1>2. /\ x.work_orders[c] = e.work /\ x.mrs[c] = e.mr /\ x.action_events[c].at = at
      /\ b \in {"remote_repair", "dispatch_clean", "create_mr", "collect_evidence", "cpe_swap"}
  BY <1>1, Zenon DEF Acted
<1>3. /\ Members(e.work) = W /\ Members(e.mr) = M
      /\ b \in {"remote_repair", "collect_evidence"} =>
           W = {} /\ M = {} /\ Len(e.work) = 0 /\ Len(e.mr) = 0
      /\ b \in {"dispatch_clean", "cpe_swap"} => M = {} /\ Len(e.work) = 1 /\ Len(e.mr) = 0
      /\ b = "create_mr" => Len(e.work) = 1 /\ Len(e.mr) = 1
  BY <1>1, Zenon DEF Rows
<1>4. (\A w \in W : at <= w.dispatched) /\ (\A m \in M : at <= m.created)
  <2>1. CASE b \in {"remote_repair", "collect_evidence"}
    BY <1>3, <2>1
  <2>2. CASE b \notin {"remote_repair", "collect_evidence"}
    <3>1. PICK w \in Works : WorkFits(w, at, e, W, E, M)
      BY <1>1, <2>2, Zenon DEF Rows
    <3> QED BY <3>1 DEF WorkFits
  <2> QED BY <2>1, <2>2
<1> HIDE DEF b
<1>5. b # "plant_repair"
  BY <1>2
<1> SUFFICES /\ b \in {"remote_repair", "collect_evidence"} => Len(e.work) = 0 /\ Len(e.mr) = 0
             /\ b \in {"dispatch_clean", "cpe_swap"} => Len(e.work) = 1 /\ Len(e.mr) = 0
             /\ b \in {"create_mr", "plant_repair"} => Len(e.work) = 1 /\ Len(e.mr) = 1
             /\ \A w \in Members(e.work) : at <= w.dispatched
             /\ \A m \in Members(e.mr) : at <= m.created
  BY <1>2 DEF b
<1> QED BY <1>3, <1>4, <1>5

LEMMA RestorationIsVerifiedHolds == ASSUME NEW x, Kept(x) PROVE RestorationIsVerified(x)
<1> SUFFICES ASSUME NEW c \in Cases(x), Executed(x, c)
             PROVE  IF BestAction(ScenarioOf(x, c)) = "collect_evidence"
                    THEN x.resolution_events[c] = << >> /\ x.validation_events[c] = << >>
                    ELSE x.resolution_events[c] # << >> /\ x.validation_events[c] # << >>
  BY DEF RestorationIsVerified
<1>1. PICK at, e : at \in Nat /\ Acted(x, c, at, e)
  BY ExecutedIs, ActedIs
<1>2. CASE BestAction(ScenarioOf(x, c)) = "collect_evidence"
  BY <1>1, <1>2, Zenon DEF Acted
<1>3. CASE BestAction(ScenarioOf(x, c)) # "collect_evidence"
  <2>1. /\ x.validation_events[c] = <<e.post + Minutes(10)>>
        /\ x.resolution_events[c] = <<e.post + Minutes(10)>>
    BY <1>1, <1>3, Zenon DEF Acted
  <2>2. \A v : <<v>> # << >>
    OBVIOUS
  <2> QED BY <1>3, <2>1, <2>2
<1> QED BY <1>2, <1>3

\* A repeat comes within a run, and a run of 2500 cases lasts seven days.
InAWeek(x) == Size(x) <= 2500

LEMMA RepeatsAreGovernedHolds ==
  ASSUME NEW x, Kept(x), InAWeek(x)
  PROVE  RepeatsAreGoverned(x)
<1> SUFFICES ASSUME NEW c \in Cases(x)
             PROVE  LET m == Manifest(x, c)
                        parent == Manifest(x, m.parent)
                    IN IF m.seq = 0 THEN m.parent = 0
                       ELSE /\ m.parent \in Cases(x) /\ m.root \in Cases(x)
                            /\ parent.root = m.root
                            /\ parent.at < m.at /\ m.at <= parent.at + RepeatWindow
                            /\ x.human_decisions[c].required /\ x.human_decisions[c].senior
  BY DEF RepeatsAreGoverned
<1>1. /\ Size(x) \in Nat /\ Cases(x) = 1..Size(x) /\ Roots(x) \subseteq 1..Size(x)
      /\ Manifest(x, c) \in Manifests
  BY SizeIs, Zenon DEF Kept
<1>2. Placed(x, c) /\ \A e \in Cases(x) : Manifest(x, e).at = Minutes(2 * (e - 1))
  BY Zenon DEF Kept, Placed
<1> DEFINE m == Manifest(x, c)
           p == m.parent
<1>3. /\ m.at = Minutes(2 * (c - 1))
      /\ m.seq = 0 => m.root = c /\ p = 0
      /\ m.seq > 0 => m.root \in Roots(x) /\ p \in Attempts(x, m.root) /\ p < c
  BY <1>2, Zenon DEF Placed
<1>4. m.seq \in Nat
  BY <1>1 DEF Manifests
<1>5. CASE m.seq = 0
  BY <1>3, <1>5
<1>6. CASE m.seq > 0
  <2>1. /\ p \in Cases(x) /\ Manifest(x, p).root = m.root /\ p < c /\ m.root \in Cases(x)
        /\ Manifest(x, p).at = Minutes(2 * (p - 1))
    BY <1>1, <1>2, <1>3, <1>6 DEF Attempts
  <2>2. p \in Nat /\ p >= 1 /\ c \in Nat /\ c <= Size(x) /\ InAWeek(x) /\ Size(x) \in Nat
    BY <1>1, <2>1 DEF InAWeek
  <2>3. Manifest(x, p).at < m.at /\ m.at <= Manifest(x, p).at + RepeatWindow
    <3>1. \A q, n \in Nat :
            q < n /\ n <= Size(x) /\ q >= 1 =>
              /\ Minutes(2 * (q - 1)) < Minutes(2 * (n - 1))
              /\ Minutes(2 * (n - 1)) <= Minutes(2 * (q - 1)) + RepeatWindow
      BY <1>1, SMT DEF Minutes, RepeatWindow, InAWeek
    <3> QED BY <1>3, <2>1, <2>2, <3>1
  <2>4. x.reconciliation_records[c] = TRUE /\ ~BlockedCase(x, c)
    <3>1. (m.seq > 0) = TRUE
      BY <1>6
    <3>2. x.reconciliation_records[c] = NeedsHuman(x.agent_decisions[c], ScenarioOf(x, c), TRUE)
      BY <3>1, CaseIs, Zenon
    <3>3. NeedsHuman(x.agent_decisions[c], ScenarioOf(x, c), TRUE) = TRUE
      BY DEF NeedsHuman
    <3>4. ~BlockedCase(x, c)
      BY <1>4, <1>6 DEF BlockedCase
    <3> QED BY <3>2, <3>3, <3>4, Zenon
  <2>5. PICK at, e : at \in Nat /\ Acted(x, c, at, e)
    BY <2>4, ActedIs
  <2>6. x.human_decisions[c].required = TRUE /\ x.human_decisions[c].senior = TRUE
    <3>1. (m.seq > 0) = TRUE
      BY <1>6
    <3>2. /\ x.human_decisions[c].required = TRUE
          /\ x.human_decisions[c].senior = (Manifest(x, c).seq > 0)
      BY <2>4, <2>5, Zenon DEF Acted
    <3> QED BY <3>1, <3>2, Zenon
  <2> QED BY <1>4, <1>6, <2>1, <2>3, <2>6
<1> QED BY <1>4, <1>5, <1>6

\* The latest attempt is one of the attempts.
LEMMA LastAttempt ==
  ASSUME NEW x, Kept(x), NEW r \in Roots(x)
  PROVE  /\ Latest(Attempts(x, r)) \in Attempts(x, r)
         /\ \A e \in Attempts(x, r) : e <= Latest(Attempts(x, r))
<1>1. /\ Size(x) \in Nat /\ Attempts(x, r) \in SUBSET (1..Size(x))
      /\ r \in Cases(x) /\ Manifest(x, r).root = r
  BY SizeIs, AttemptsAre, GraphIsRootedHolds DEF Kept, GraphIsRooted
<1>2. r \in Attempts(x, r)
  BY <1>1 DEF Attempts
<1> QED BY <1>1, <1>2, LatestIs

LEMMA ClosuresAreLinkedHolds == ASSUME NEW x, Kept(x) PROVE ClosuresAreLinked(x)
<1> SUFFICES ASSUME NEW r \in Roots(x), x.incidents[r].status = "CLOSED"
             PROVE  \E c \in Attempts(x, r) : Restoration(x, c)
  BY DEF ClosuresAreLinked
<1>1. Restoration(x, Latest(Attempts(x, r)))
  BY DEF Kept, IncidentRow
<1> QED BY <1>1, LastAttempt

LEMMA IncidentsMatchAttemptsHolds == ASSUME NEW x, Kept(x) PROVE IncidentsMatchAttempts(x)
<1> SUFFICES ASSUME NEW r \in Roots(x)
             PROVE  LET i == x.incidents[r]
                        last == Latest(Attempts(x, r))
                    IN /\ i.repeats = Cardinality({c \in Attempts(x, r) : Manifest(x, c).seq > 0})
                       /\ i.status = "CLOSED" =>
                            /\ Ordered(<<i.opened, i.resolved, i.closed>>)
                            /\ \E t \in Members(x.resolution_events[last]) : t <= i.closed
                       /\ i.status = "OPEN" =>
                            /\ i.resolved = NoTime /\ i.closed = NoTime
                            /\ ~(Executed(x, last) /\ Restoration(x, last)
                                 /\ BestAction(ScenarioOf(x, last)) # "collect_evidence")
  BY DEF IncidentsMatchAttempts
<1> DEFINE i == x.incidents[r]
           last == Latest(Attempts(x, r))
<1>1. IncidentRow(x, r) /\ i \in Incidents
  BY DEF Kept, Shape
<1>2. i.repeats = Cardinality({c \in Attempts(x, r) : Manifest(x, c).seq > 0})
  BY <1>1, Zenon DEF IncidentRow, Retries
<1>3. /\ i.status = "CLOSED" <=> Restoration(x, last)
      /\ i.status = "CLOSED" =>
           /\ x.resolution_events[last] = <<i.resolved>>
           /\ i.closed = i.resolved + Minutes(5)
           /\ i.opened <= i.resolved /\ i.resolved >= 0
      /\ i.status = "OPEN" => i.resolved = NoTime /\ i.closed = NoTime
  BY <1>1, Zenon DEF IncidentRow
<1>4. i.opened \in Int /\ i.resolved \in Int /\ i.closed \in Int
  BY <1>1 DEF Incidents
<1> HIDE DEF i, last
<1>5. ASSUME i.status = "CLOSED"
      PROVE  /\ Ordered(<<i.opened, i.resolved, i.closed>>)
             /\ \E t \in Members(x.resolution_events[last]) : t <= i.closed
  <2>1. i.opened <= i.resolved /\ i.resolved <= i.closed
    BY <1>3, <1>4, <1>5 DEF Minutes
  <2>2. Members(x.resolution_events[last]) = {i.resolved}
    BY <1>3, <1>5, MembersAre
  <2>3. Ordered(<<i.opened, i.resolved, i.closed>>)
    BY <2>1, OrderedIs, Zenon
  <2> QED BY <2>1, <2>2, <2>3
<1>6. i.status = "OPEN" =>
        /\ i.resolved = NoTime /\ i.closed = NoTime
        /\ ~(Executed(x, last) /\ Restoration(x, last)
             /\ BestAction(ScenarioOf(x, last)) # "collect_evidence")
  BY <1>3
<1> QED BY <1>2, <1>5, <1>6 DEF i, last

-----------------------------------------------------------------------------
(* The gate and the volume contracts *)

\* Whatever was generated meets the gate, up to the evidence a model cites, which
\* the generator takes as it comes, and the care queue, which is built last.
THEOREM KeptMeetsGate ==
  ASSUME NEW x, Kept(x), InAWeek(x), EvidenceIsCited(x), CareFollowsIncidents(x)
  PROVE  Gate(x)
<1>1. RowsAreUnique(x) /\ GraphIsRooted(x) /\ PolicyRecomputed(x)
  BY RowsAreUniqueHolds, GraphIsRootedHolds, PolicyRecomputedHolds
<1>2. WorkIsReady(x) /\ SwapIsDiagnosed(x) /\ MaintenanceIsOrdered(x)
  BY WorkIsReadyHolds, SwapIsDiagnosedHolds, MaintenanceIsOrderedHolds
<1>3. ValidationIsProven(x) /\ ResolutionIsValidated(x) /\ IncidentsMatchAttempts(x)
  BY ValidationIsProvenHolds, ResolutionIsValidatedHolds, IncidentsMatchAttemptsHolds
<1>4. ControlsHold(x) /\ BranchIsFollowed(x) /\ RestorationIsVerified(x)
  BY ControlsHoldHolds, BranchIsFollowedHolds, RestorationIsVerifiedHolds
<1>5. RepeatsAreGoverned(x) /\ ClosuresAreLinked(x)
  BY RepeatsAreGovernedHolds, ClosuresAreLinkedHolds
<1> QED BY <1>1, <1>2, <1>3, <1>4, <1>5 DEF Gate

-----------------------------------------------------------------------------
(* The run *)

\* The loop stops at the number of cases; the care queue follows the incidents
\* when the gate looks at it, and is what Correlate built when the run is out.
Inv ==
  /\ scenarios \in Configurations
  /\ phase \in Phases
  /\ ByName(d) /\ Kept(d)
  /\ phase = "cases" => Size(d) < TotalCases
  /\ phase # "cases" => Size(d) = TotalCases
  /\ phase = "gate" => CareFollowsIncidents(d)
  /\ phase \in {"gate", "published"} => CareBuilt(d)
  /\ phase = "published" => Gate(d)
  /\ RefusedForCitationsOnly

LEMMA InitInv == Init => Inv
<1> SUFFICES ASSUME Init PROVE Inv
  OBVIOUS
<1>1. Kept(d) /\ Size(d) = 0 /\ phase = "cases" /\ scenarios \in Configurations
  BY EmptyIsKept DEF Init
<1>2. 0 < TotalCases
  BY TotalCasesAssumption
<1>3. ByName(d)
  BY DEF Init, EmptyRun, ByName
<1> QED BY <1>1, <1>2, <1>3 DEF Inv, Phases, RefusedForCitationsOnly

\* The scenario taken is one of the configured ones.
LEMMA ScenarioIsOne == ASSUME Inv PROVE NextScenario \in Scenarios
<1>1. scenarios \in Seq(Scenarios) /\ Len(scenarios) > 0 /\ Len(scenarios) \in Nat
  BY ConfigurationsAssumption DEF Inv
<1>2. Size(d) \in Nat
  BY SizeIs DEF Inv, Kept
<1>3. (Size(d) % Len(scenarios)) + 1 \in 1..Len(scenarios)
  BY <1>1, <1>2
<1>4. \A i \in 1..Len(scenarios) : scenarios[i] \in Scenarios
  BY <1>1
<1>5. NextScenario = scenarios[(Size(d) % Len(scenarios)) + 1]
  BY Zenon DEF NextScenario, Size
<1> QED BY <1>3, <1>4, <1>5, Zenon

LEMMA CaseKeepsInv == ASSUME Inv, GenerateCase PROVE Inv'
<1>1. PICK a \in Answers : d' = AddCase(d, NextScenario, a)
  BY DEF GenerateCase
<1>2. a \in Agents /\ NextScenario \in Scenarios /\ Kept(d)
  BY AnswersAssumption, ScenarioIsOne DEF Inv
<1>3. Kept(d') /\ Size(d') = Size(d) + 1
  BY <1>1, <1>2, TurnKeeps
<1>8. ByName(d')
  <2>1. \A s : ByName(AddCase(d, s, a))
    <3> TAKE s
    <3> DEFINE o == Opened(d, s)
               c == Len(o.scenario_manifests)
               repeat == Manifest(o, c).seq > 0
               human == NeedsHuman(a, s, repeat)
               live == Cardinality(Occurrences(o, s)) = 1 /\ human
               t0 == Manifest(o, c).at
               at == t0 + HistoricalDelay(human)
               ruled ==
                 [o EXCEPT
                    !.agent_decisions = Append(@, a),
                    !.reconciliation_records = Append(@, human),
                    !.human_decisions =
                      Append(@, IF live THEN Pending
                                ELSE IF human THEN HistoricalApproval(t0 + Minutes(11), repeat)
                                ELSE NotRequired),
                    !.action_events =
                      Append(@, IF live THEN [status |-> "BLOCKED_PENDING_HUMAN", at |-> t0 + Minutes(10)]
                                ELSE [status |-> "SIMULATED_EXECUTED", at |-> at])]
    <3>1. AddCase(d, s, a) = IF live THEN ruled ELSE Materialize(ruled, c, at, t0 + Minutes(9))
      BY Zenon DEF AddCase
    <3> HIDE DEF o, c, repeat, human, live, t0, at
    <3>2. ByName(ruled)
      BY UpdateIsByName, Zenon
    <3> HIDE DEF ruled
    <3> QED BY <3>1, <3>2, MaterializeIsByName
  <2> QED BY <1>1, <2>1
<1>4. /\ phase' = IF Size(d) + 1 = TotalCases THEN "care" ELSE "cases"
      /\ scenarios' = scenarios /\ Size(d) \in Nat /\ Size(d) < TotalCases
  BY <1>2, SizeIs DEF Inv, GenerateCase, Size, Kept
<1>5. TotalCases \in Nat
  BY TotalCasesAssumption
<1>6. phase' \in {"care", "cases"}
  BY <1>4
<1>7. /\ phase' = "cases" => Size(d') < TotalCases
      /\ phase' # "cases" => Size(d') = TotalCases
  BY <1>3, <1>4, <1>5
<1> QED BY <1>3, <1>4, <1>6, <1>7, <1>8 DEF Inv, Phases, RefusedForCitationsOnly

LEMMA CareKeepsInv == ASSUME Inv, Correlate PROVE Inv'
<1>1. PICK predicted \in SUBSET Roots(d) : d' = BuildCare(d, predicted)
  BY DEF Correlate
<1>2. Kept(d') /\ Size(d') = Size(d) /\ CareFollowsIncidents(d') /\ CareBuilt(d')
  BY <1>1, CareKeeps DEF Inv
<1>3. phase = "care" /\ phase' = "gate" /\ scenarios' = scenarios
  BY DEF Correlate
<1>4. ByName(d')
  BY <1>1, UpdateIsByName, Zenon DEF BuildCare
<1> QED BY <1>2, <1>3, <1>4 DEF Inv, Phases, RefusedForCitationsOnly

\* A refusal is a failed check, and only the citations can fail.
LEMMA CheckKeepsInv == ASSUME Inv, Check PROVE Inv'
<1>1. phase = "gate" /\ d' = d /\ scenarios' = scenarios
      /\ phase' = IF Gate(d) /\ VolumeHolds THEN "published" ELSE "refused"
  BY DEF Check
<1>2. Kept(d) /\ Size(d) = TotalCases /\ CareFollowsIncidents(d) /\ CareBuilt(d)
  BY <1>1 DEF Inv
<1>3. VolumeHolds
  BY <1>2, RootsAreTheRest, GraphIsRootedHolds DEF VolumeHolds, Kept
<1>4. InAWeek(d)
  BY <1>2, TotalCasesAssumption DEF InAWeek
<1>5. EvidenceIsCited(d) => Gate(d)
  BY <1>2, <1>4, KeptMeetsGate
<1>6. phase' = "refused" => ~EvidenceIsCited(d)
  BY <1>1, <1>3, <1>5
<1>7. phase' = "refused" => \E c \in Cases(d) : ~d.agent_decisions[c].evidence
  BY <1>6 DEF EvidenceIsCited
<1>8. RefusedForCitationsOnly'
  BY <1>1, <1>7 DEF RefusedForCitationsOnly
<1>9. phase' \in {"published", "refused"}
  BY <1>1
<1> QED BY <1>1, <1>2, <1>8, <1>9 DEF Inv, Phases

LEMMA NextInv == Inv /\ [Next]_vars => Inv'
<1> SUFFICES ASSUME Inv, [Next]_vars PROVE Inv'
  OBVIOUS
<1>1. CASE GenerateCase
  BY <1>1, CaseKeepsInv
<1>2. CASE Correlate
  BY <1>2, CareKeepsInv
<1>3. CASE Check
  BY <1>3, CheckKeepsInv
<1>4. CASE UNCHANGED vars
  BY <1>4 DEF Inv, vars, RefusedForCitationsOnly
<1> QED BY <1>1, <1>2, <1>3, <1>4 DEF Next, Ended

\* The invariant holds at every step of the generation: the rows of a case follow
\* from its manifest and its answer, its place among the attempts is fixed, and
\* an incident is in the state its latest attempt left it in.
THEOREM Inductive == Spec => []Inv
<1> QED BY InitInv, NextInv, PTL DEF Spec

LEMMA DomainIs ==
  ASSUME NEW S, NEW q \in Seq(S), NEW n, Len(q) = n
  PROVE  DOMAIN q = 1..n
OBVIOUS

\* The type invariant: the datasets of a run grow together.
THEOREM RunTyped == Spec => []TypeOK
<1>1. Inv => TypeOK
  <2> SUFFICES ASSUME Inv PROVE TypeOK
    OBVIOUS
  <2>1. Shape(d) /\ Size(d) \in Nat /\ Cases(d) = 1..Size(d) /\ Roots(d) \subseteq Cases(d)
    BY SizeIs DEF Inv, Kept
  <2>2. \A name \in PerCase : DOMAIN d[name] = Cases(d)
    <3>1. /\ DOMAIN d.agent_decisions = Cases(d) /\ DOMAIN d.reconciliation_records = Cases(d)
          /\ DOMAIN d.human_decisions = Cases(d) /\ DOMAIN d.action_events = Cases(d)
      BY <2>1, DomainIs DEF Shape
    <3>2. /\ DOMAIN d.work_orders = Cases(d) /\ DOMAIN d.field_evidence = Cases(d)
          /\ DOMAIN d.mrs = Cases(d)
      BY <2>1, DomainIs DEF Shape
    <3>3. /\ DOMAIN d.telemetry_tr181 = Cases(d) /\ DOMAIN d.validation_events = Cases(d)
          /\ DOMAIN d.resolution_events = Cases(d)
      BY <2>1, DomainIs DEF Shape
    <3> QED BY <3>1, <3>2, <3>3, Zenon DEF PerCase
  <2> QED BY <2>1, <2>2 DEF Inv, TypeOK
<1> QED BY <1>1, Inductive, PTL

\* The generator meets its own gate (quality_check after _generate_into): a run is
\* refused only for a model that cites no valid evidence.
THEOREM GeneratorMeetsItsGate == Spec => []RefusedForCitationsOnly
<1>1. Inv => RefusedForCitationsOnly
  BY DEF Inv
<1> QED BY <1>1, Inductive, PTL

\* At every moment an incident is closed exactly while the latest attempt on it
\* restored the service, and every repeat that found it closed reopened it.
THEOREM ClosureIsCurrent == Spec => []ClosedWhileRestored
<1>1. Inv => ClosedWhileRestored
  <2> SUFFICES ASSUME Inv, NEW r \in Roots(d)
               PROVE  LET i == d.incidents[r]
                      IN /\ i.status = "CLOSED" <=> Restoration(d, Latest(Attempts(d, r)))
                         /\ i.status = "CLOSED" <=> i.closed # NoTime
                         /\ i.reopens = Cardinality({c \in Attempts(d, r) :
                              Manifest(d, c).seq > 0 /\ Restoration(d, Manifest(d, c).parent)})
    BY DEF ClosedWhileRestored
  <2> DEFINE i == d.incidents[r]
  <2>1. IncidentRow(d, r) /\ i \in Incidents
    BY DEF Inv, Kept, Shape
  <2>2. /\ i.status = "CLOSED" <=> Restoration(d, Latest(Attempts(d, r)))
        /\ i.reopens = Cardinality(Reopenings(d, r))
        /\ i.status = "CLOSED" => i.closed = i.resolved + Minutes(5) /\ i.resolved >= 0
        /\ i.status = "OPEN" => i.closed = NoTime
    BY <2>1, Zenon DEF IncidentRow
  <2>3. i.status \in {"OPEN", "CLOSED"} /\ i.resolved \in Int
    BY <2>1 DEF Incidents
  <2> HIDE DEF i
  <2>4. i.status = "CLOSED" => i.closed # NoTime
    BY <2>2, <2>3, NoTimeIsInt DEF Minutes
  <2> QED BY <2>2, <2>3, <2>4 DEF Reopenings, i
<1> QED BY <1>1, Inductive, PTL

\* The attempts on an incident are one chain, whose root waits for nobody.
THEOREM RepeatsAreChained == Spec => []RepeatsFormAChain
<1>1. Inv => RepeatsFormAChain
  <2> SUFFICES ASSUME Inv, NEW c \in Cases(d), Manifest(d, c).seq > 0
               PROVE  LET m == Manifest(d, c)
                      IN /\ m.parent \in Attempts(d, m.root)
                         /\ Manifest(d, m.parent).seq = m.seq - 1
                         /\ \A e \in Attempts(d, m.root) : e <= m.parent \/ e >= c
                         /\ d.human_decisions[m.root].status # "PENDING"
    BY DEF RepeatsFormAChain
  <2>1. Placed(d, c)
    BY DEF Inv, Kept
  <2> QED BY <2>1, Zenon DEF Placed
<1> QED BY <1>1, Inductive, PTL

\* Nothing with a side effect, and no repeat, is done before a human approved it.
THEOREM ApprovalComesFirst == Spec => []ApprovedBeforeActing
<1>1. Inv => ApprovedBeforeActing
  <2> SUFFICES ASSUME Inv, NEW c \in Cases(d),
                      d.action_events[c].status = "SIMULATED_EXECUTED",
                      BestAction(ScenarioOf(d, c)) \in SideEffects \/ Manifest(d, c).seq > 0
               PROVE  /\ d.human_decisions[c].status = "APPROVED"
                      /\ d.human_decisions[c].decided < d.action_events[c].at
                      /\ Manifest(d, c).seq > 0 => d.human_decisions[c].senior
    BY DEF ApprovedBeforeActing
  <2>1. Kept(d) /\ ~BlockedCase(d, c)
    BY DEF Inv, BlockedCase
  <2>2. PICK at, e : at \in Nat /\ Acted(d, c, at, e)
    BY <2>1, ActedIs
  <2>3. NeedsHuman(d.agent_decisions[c], ScenarioOf(d, c), Manifest(d, c).seq > 0)
    BY DEF NeedsHuman
  <2>4. d.reconciliation_records[c]
    BY <2>1, <2>3, CaseIs, Zenon
  <2>5. /\ d.human_decisions[c].status = "APPROVED"
        /\ d.human_decisions[c].decided < at /\ d.action_events[c].at = at
        /\ d.human_decisions[c].senior = (Manifest(d, c).seq > 0)
    BY <2>2, <2>4, Zenon DEF Acted
  <2> QED BY <2>5
<1> QED BY <1>1, Inductive, PTL

\* What was generated for a case is what the accounts expect of it.
LEMMA KeptIsSettled ==
  ASSUME NEW x, Kept(x), NEW c \in Cases(x)
  PROVE  Settled(x, c)
<1> DEFINE m == Manifest(x, c)
           b == BestAction(ScenarioOf(x, c))
<1>1. m.at >= 0
  <2>1. c \in 1..Size(x) /\ Size(x) \in Nat
    BY SizeIs DEF Kept
  <2>2. m.at = Minutes(2 * (c - 1))
    BY Zenon DEF Kept, Placed
  <2> HIDE DEF m
  <2> QED BY <2>1, <2>2 DEF Minutes
<1>2. m.seq > 0 => x.human_decisions[m.root].status # "PENDING"
  BY Zenon DEF Kept, Placed
<1>3. CASE BlockedCase(x, c)
  <2>1. m.seq = 0 /\ ~Executed(x, c)
    BY <1>3 DEF BlockedCase, Executed
  <2> HIDE DEF m
  <2> QED BY <1>1, <1>2, <2>1, Zenon DEF Settled, m
<1>4. CASE ~BlockedCase(x, c)
  <2>1. PICK at, e : at \in Nat /\ Acted(x, c, at, e)
    BY <1>4, ActedIs
  <2>2. /\ b \in {"remote_repair", "dispatch_clean", "create_mr", "collect_evidence", "cpe_swap"}
        /\ Followed(b, at, e) /\ x.work_orders[c] = e.work /\ x.reconciliation_records[c] \in BOOLEAN
        /\ x.reconciliation_records[c] => x.human_decisions[c].status = "APPROVED"
        /\ ~x.reconciliation_records[c] => x.human_decisions[c].status = "NOT_REQUIRED"
    BY <2>1, Zenon DEF Acted
  <2>3. x.human_decisions[c].status # "PENDING"
    BY <2>2
  <2>4. Dispatched(x, c) => OneTrip(x.work_orders[c], b)
    <3>1. at \in Int /\ (Dispatched(x, c) <=> b \in DispatchActions)
      BY <2>1 DEF Dispatched
    <3> HIDE DEF b
    <3> QED BY <2>2, <3>1, FollowedWork
  <2> HIDE DEF m
  <2> QED BY <1>1, <1>2, <2>3, <2>4, Zenon DEF Settled, m
<1> QED BY <1>3, <1>4

\* Whatever is published has all its rows, passes the gate, carries the care queue of
\* its incidents, and does not wait where it acted.
THEOREM PublishedRunsAreSound == Spec => [](phase = "published" => Sound(d))
<1>1. Inv => (phase = "published" => Sound(d))
  BY KeptIsSettled DEF Inv, Kept, Sound
<1> QED BY <1>1, Inductive, PTL

\* Whatever is published can be costed and told: the work orders are the executed
\* rolls, priced by their own times, the rows reconcile with the files, the crews go
\* where the plant fails, both projections count the same roots, every care ticket
\* tells the story of its incident and every filter of the queue adds up, wherever
\* the services are placed.
THEOREM PublishedRunsAreAccounted == Spec => []ProjectionAccountsForWork
<1>1. (phase = "published" => Sound(d)) => ProjectionAccountsForWork
  <2>1. Places \in SUBSET PlanningPlaces
    BY PlacesAssumption DEF PlanningPlaces
  <2> QED BY <2>1, SoundIsAccounted DEF ProjectionAccountsForWork
<1> QED BY <1>1, PublishedRunsAreSound, PTL

-----------------------------------------------------------------------------
(* Publication                                                             *)
(*                                                                         *)
(* What the lock of a run is worth, for any runs and workers, whether or   *)
(* not builds outlast it.  Unless the lock was broken under a living       *)
(* request, whoever is inside is the one who made the lock, and whoever    *)
(* may touch the directory has seen that it has no catalog.                *)

PCs == {"idle", "lost", "locking", "breaking", "locked", "inspecting", "clearing",
        "cleared", "building", "publishing", "releasing", "activating", "pointing"}

PublicationTypeOK ==
  /\ dir \in [Runs -> Directories]
  /\ lock \in [Runs -> Workers \union {None, Gone}]
  /\ pc \in [Workers -> PCs]
  /\ run \in [Workers -> Runs \union {None}]
  /\ usurped \in [Runs -> BOOLEAN]
  /\ \A w \in Workers : pc[w] \notin {"idle", "lost"} => run[w] \in Runs

\* The lock belongs to whoever is inside.
Owned ==
  \A r \in Runs : ~usurped[r] => \A w \in Inside(r) : lock[r] = w

Touching == {"inspecting", "clearing", "cleared", "building", "publishing"}

\* Who may change the directory has seen no catalog, and there still is none.
Unpublished ==
  \A w \in Workers :
    pc[w] \in Touching /\ ~usurped[run[w]] => ~Recorded(run[w])

\* Who is about to name the active run has seen its catalog.
Seen ==
  \A w \in Workers :
    pc[w] = "pointing" /\ ~usurped[run[w]] => Recorded(run[w])

ActiveSeen ==
  /\ pointer \in Runs \union {None}
  /\ pointer # None /\ ~usurped[pointer] => Recorded(pointer)

PublicationInv == PublicationTypeOK /\ Owned /\ Unpublished /\ CatalogMeansWhole /\ Seen /\ ActiveSeen

\* Initially nobody is inside and no directory has a catalog.
LEMMA InitPublicationInv == PublicationInit => PublicationInv
<1> SUFFICES ASSUME PublicationInit PROVE PublicationInv
  OBVIOUS
<1> USE NamesAssumption DEF PublicationInit
<1>1. PublicationTypeOK
  BY DEF PublicationTypeOK, PCs, Directories
<1>2. \A r \in Runs : ~Recorded(r)
  BY DEF Recorded
<1>3. Owned /\ Unpublished /\ Seen
  BY DEF Owned, Inside, Unpublished, Touching, Seen
<1>4. CatalogMeansWhole
  BY <1>2 DEF CatalogMeansWhole, Recorded
<1>5. ActiveSeen
  BY DEF ActiveSeen
<1> QED
  BY <1>1, <1>3, <1>4, <1>5 DEF PublicationInv

\* A request moves on and leaves directories, pointer and locks alone; where it
\* arrives it may be.
LEMMA QuietRequest ==
  ASSUME PublicationInv, NEW w \in Workers, NEW to \in PCs,
         pc' = [pc EXCEPT ![w] = to],
         UNCHANGED <<disk, usurped>>,
         run' \in [Workers -> Runs \union {None}],
         \A v \in Workers \ {w} : run'[v] = run[v],
         to \notin {"idle", "lost"} => run'[w] \in Runs,
         to \in Touching \union {"locked", "releasing"} =>
           run'[w] = run[w] /\ w \in Inside(run[w]),
         to \in Touching /\ ~usurped[run[w]] => ~Recorded(run[w]),
         to = "pointing" /\ ~usurped[run'[w]] => Recorded(run'[w])
  PROVE  PublicationInv'
<1> USE DEF disk
<1>1. PublicationTypeOK'
  BY DEF PublicationInv, PublicationTypeOK
<1>2. Owned'
  BY DEF PublicationInv, PublicationTypeOK, Owned, Inside, Touching
<1>3. Unpublished'
  BY DEF PublicationInv, PublicationTypeOK, Unpublished, Recorded, Touching
<1>4. CatalogMeansWhole'
  BY DEF PublicationInv, CatalogMeansWhole
<1>5. Seen'
  BY DEF PublicationInv, PublicationTypeOK, Seen, Recorded
<1>6. ActiveSeen'
  BY DEF PublicationInv, ActiveSeen, Recorded
<1> QED
  BY <1>1, <1>2, <1>3, <1>4, <1>5, <1>6 DEF PublicationInv

\* New requests.
LEMMA AskStep == ASSUME PublicationInv, NEW w \in Workers, Ask(w) PROVE PublicationInv'
<1> USE DEF call, Goto, Tell
<1>0. pc \in [Workers -> PCs] /\ run \in [Workers -> Runs \union {None}] /\ ActiveSeen
  BY DEF PublicationInv, PublicationTypeOK
<1>1. CASE Show(w)
  BY <1>0, <1>1, QuietRequest DEF Show, PCs, ActiveSeen, Touching, HasCatalog, Recorded
<1>2. ASSUME NEW r \in Runs, Create(w, r) PROVE PublicationInv'
  BY <1>0, <1>2, QuietRequest DEF Create, PCs, Touching, HasCatalog, Recorded
<1>3. ASSUME NEW r \in Runs, Select(w, r) PROVE PublicationInv'
  BY <1>0, <1>3, QuietRequest DEF Select, PCs, Touching
<1> QED
  BY <1>1, <1>2, <1>3 DEF Ask

\* Steps of a request that change no directory, lock or pointer.
LEMMA MoveStep ==
  ASSUME PublicationInv, NEW w \in Workers,
         \/ FindExpired(w) \/ TimeOut(w) \/ Recheck(w) \/ Inspect(w) \/ Build(w)
         \/ Activate(w) \/ Die(w)
  PROVE  PublicationInv'
<1> USE DEF call, Goto, Tell, Moves
<1>0. /\ pc \in [Workers -> PCs] /\ run \in [Workers -> Runs \union {None}]
      /\ pc[w] \notin {"idle", "lost"} => run[w] \in Runs
      /\ pc[w] \in Touching /\ ~usurped[run[w]] => ~Recorded(run[w])
  BY DEF PublicationInv, PublicationTypeOK, Unpublished
<1>1. CASE FindExpired(w)
  BY <1>0, <1>1, QuietRequest DEF FindExpired, PCs, Touching
<1>2. CASE TimeOut(w)
  BY <1>0, <1>2, QuietRequest DEF TimeOut, PCs, Touching
<1>3. CASE Recheck(w)
  BY <1>0, <1>3, QuietRequest DEF Recheck, PCs, Touching, Inside
<1>4. CASE Inspect(w)
  BY <1>0, <1>4, QuietRequest DEF Inspect, PCs, Touching, Inside
<1>5. CASE Build(w)
  BY <1>0, <1>5, QuietRequest DEF Build, PCs, Touching, Inside
<1>6. CASE Activate(w)
  BY <1>0, <1>6, QuietRequest DEF Activate, PCs, Touching, HasCatalog, Recorded
<1>7. CASE Die(w)
  BY <1>0, <1>7, QuietRequest DEF Die, PCs, Touching
<1> QED
  BY <1>1, <1>2, <1>3, <1>4, <1>5, <1>6, <1>7

\* Steps on the lock.  Whoever breaks the lock of a request inside usurps the run.
LEMMA LockStep ==
  ASSUME PublicationInv, NEW w \in Workers, TakeLock(w) \/ BreakLock(w) \/ Release(w)
  PROVE  PublicationInv'
<1> USE DEF call, Goto, Tell, Moves, Unlock
<1>0. /\ PublicationTypeOK /\ run[w] \in Runs
      /\ UNCHANGED <<dir, pointer, run>>
      /\ pc' \in [Workers -> PCs] /\ pc'[w] \notin Touching \union {"pointing"}
      /\ \A v \in Workers \ {w} : pc'[v] = pc[v]
      /\ usurped' \in [Runs -> BOOLEAN]
      /\ \A r \in Runs : usurped[r] => usurped'[r]
  BY DEF PublicationInv, PublicationTypeOK, TakeLock, BreakLock, Release, PCs, Touching
<1>1. PublicationTypeOK'
  BY <1>0 DEF PublicationTypeOK, TakeLock, BreakLock, Release
<1>2. Owned'
  <2>1. CASE TakeLock(w)
    BY <1>0, <2>1, NamesAssumption DEF PublicationInv, PublicationTypeOK, TakeLock, Owned, Inside
  <2>2. CASE BreakLock(w)
    <3> SUFFICES ASSUME NEW r \in Runs, ~usurped'[r], NEW v \in Inside(r)' PROVE lock'[r] = v
      BY DEF Owned
    <3>1. v \in Inside(r) /\ ~usurped[r]
      BY <1>0, <2>2 DEF Inside, BreakLock
    <3>2. lock[r] = v
      BY <3>1 DEF PublicationInv, Owned
    <3>3. CASE r = run[w]
      <4>1. lock[r] = None \/ ~Alive(lock[r])
        BY <1>0, <2>2, <3>3 DEF BreakLock, PublicationTypeOK
      <4>2. v # None /\ Alive(v)
        BY <3>1, NamesAssumption DEF Inside, Alive
      <4> QED BY <3>2, <4>1, <4>2
    <3>4. CASE r # run[w]
      BY <1>0, <2>2, <3>2, <3>4 DEF BreakLock, PublicationTypeOK
    <3> QED BY <3>3, <3>4
  <2>3. CASE Release(w)
    BY <1>0, <2>3 DEF PublicationInv, PublicationTypeOK, Release, Owned, Inside
  <2> QED
    BY <2>1, <2>2, <2>3
<1>3. Unpublished' /\ Seen'
  BY <1>0 DEF PublicationInv, PublicationTypeOK, Unpublished, Seen, Recorded, Touching
<1>4. CatalogMeansWhole' /\ ActiveSeen'
  BY <1>0 DEF PublicationInv, CatalogMeansWhole, ActiveSeen, Recorded
<1> QED
  BY <1>1, <1>2, <1>3, <1>4 DEF PublicationInv

\* Steps on a directory: the request sees no catalog, and is alone.
LEMMA DirectoryStep ==
  ASSUME PublicationInv, NEW w \in Workers, Clear(w) \/ RemoveDirectory(w) \/ Publish(w)
  PROVE  /\ PublicationInv'
         /\ \A r \in Runs : ~usurped[r] /\ Recorded(r) => dir'[r] = dir[r]
<1> USE DEF call, Goto, Tell, Moves
<1>0. /\ PublicationTypeOK /\ run[w] \in Runs /\ pc[w] \in Touching
      /\ UNCHANGED <<lock, expired, pointer, run, usurped>>
      /\ dir' \in [Runs -> Directories]
      /\ \A r \in Runs \ {run[w]} : dir'[r] = dir[r]
      /\ pc' \in [Workers -> PCs] /\ pc'[w] \notin {"pointing", "lost", "idle"}
      /\ pc'[w] \in Touching \union {"releasing"}
      /\ \A v \in Workers \ {w} : pc'[v] = pc[v]
  BY DEF PublicationInv, PublicationTypeOK, Clear, RemoveDirectory, Publish, PCs, Touching, Directories
<1>1. ~usurped[run[w]] => ~Recorded(run[w]) /\ \A v \in Inside(run[w]) : v = w
  BY <1>0 DEF PublicationInv, Owned, Unpublished, Inside, Touching
<1>2. PublicationTypeOK'
  BY <1>0 DEF PublicationTypeOK
<1>3. Owned'
  BY <1>0 DEF PublicationInv, Owned, Inside, Touching
<1>4. ~usurped[run[w]] => dir'[run[w]] # "torn"
                          /\ (pc'[w] \in Touching => dir'[run[w]] \notin Published)
  <2>1. CASE Clear(w)
    BY <1>0, <1>1, <2>1 DEF PublicationTypeOK, Recorded, HasCatalog, Published, Directories, Clear, Touching
  <2>2. CASE RemoveDirectory(w)
    BY <1>0, <1>1, <2>2 DEF PublicationTypeOK, Recorded, Published, Directories, RemoveDirectory, Touching
  <2>3. CASE Publish(w)
    BY <1>0, <1>1, <2>3 DEF PublicationTypeOK, Recorded, Published, Directories, Publish, Touching
  <2> QED
    BY <2>1, <2>2, <2>3
<1>5. Unpublished'
  <2> SUFFICES ASSUME NEW v \in Workers, pc'[v] \in Touching, ~usurped'[run'[v]]
               PROVE  ~Recorded(run[v])'
    BY <1>0 DEF Unpublished
  <2>1. CASE run[v] = run[w]
    <3>1. v = w
      BY <1>0, <1>1, <2>1 DEF Inside, Touching
    <3> QED
      BY <1>0, <1>4, <3>1 DEF Recorded, Published
  <2>2. CASE run[v] # run[w]
    BY <1>0, <2>2 DEF PublicationInv, PublicationTypeOK, Unpublished, Recorded, Touching
  <2> QED
    BY <2>1, <2>2
<1>6. CatalogMeansWhole'
  BY <1>0, <1>4 DEF PublicationInv, CatalogMeansWhole
<1>7. \A r \in Runs : ~usurped[r] /\ Recorded(r) => dir'[r] = dir[r]
  BY <1>0, <1>1
<1>8. Seen'
  BY <1>0, <1>7 DEF PublicationInv, PublicationTypeOK, Seen, Recorded
<1>9. ActiveSeen'
  BY <1>0, <1>7, NamesAssumption DEF PublicationInv, ActiveSeen, Recorded
<1> QED
  BY <1>2, <1>3, <1>5, <1>6, <1>7, <1>8, <1>9 DEF PublicationInv

\* The active run is named by one who has seen its catalog.
LEMMA PointStep == ASSUME PublicationInv, NEW w \in Workers, Point(w) PROVE PublicationInv'
<1> USE DEF call, Goto, Tell, Moves, Point
<1>1. PublicationTypeOK'
  BY DEF PublicationInv, PublicationTypeOK, PCs
<1>2. Owned' /\ Unpublished' /\ Seen'
  BY DEF PublicationInv, PublicationTypeOK, Owned, Inside, Unpublished, Seen, Recorded, Touching
<1>3. CatalogMeansWhole'
  BY DEF PublicationInv, CatalogMeansWhole
<1>4. ActiveSeen'
  BY DEF PublicationInv, PublicationTypeOK, Seen, ActiveSeen, Recorded
<1> QED
  BY <1>1, <1>2, <1>3, <1>4 DEF PublicationInv

\* A lock grows old.
LEMMA ExpireStep == ASSUME PublicationInv, NEW r \in Runs, Expire(r) PROVE PublicationInv'
  BY DEF Expire, call, PublicationInv, PublicationTypeOK, Owned, Inside, Unpublished, Seen, Recorded,
     CatalogMeansWhole, ActiveSeen

\* A catalog is overwritten in place: it stays a catalog, of a complete run.
LEMMA RewriteStep ==
  ASSUME PublicationInv, NEW r \in Runs, Rewrite(r)
  PROVE  /\ PublicationInv'
         /\ \A q \in Runs : dir[q] \in Published => dir'[q] \in Published
<1>1. /\ dir' \in [Runs -> Directories]
      /\ UNCHANGED <<lock, expired, pointer, pc, run, usurped>>
      /\ \A q \in Runs : /\ dir'[q] = dir[q] \/ {dir[q], dir'[q]} \subseteq Published
                         /\ dir[q] \in Published => dir'[q] \in Published
  BY DEF PublicationInv, PublicationTypeOK, Rewrite, call, Published, Directories
<1>2. \A q \in Runs : (Recorded(q) <=> Recorded(q)') /\ (dir'[q] = "torn" => dir[q] = "torn")
  BY <1>1 DEF Recorded, Published
<1>3. PublicationTypeOK' /\ Owned'
  BY <1>1 DEF PublicationInv, PublicationTypeOK, Owned, Inside
<1>4. Unpublished' /\ Seen'
  BY <1>1, <1>2 DEF PublicationInv, PublicationTypeOK, Unpublished, Seen, Touching
<1>5. CatalogMeansWhole' /\ ActiveSeen'
  BY <1>1, <1>2, NamesAssumption DEF PublicationInv, CatalogMeansWhole, ActiveSeen
<1> QED
  BY <1>1, <1>3, <1>4, <1>5 DEF PublicationInv

\* Every step keeps the invariant.
THEOREM PublicationInductive == PublicationSpec => []PublicationInv
<1>1. PublicationInv /\ [PublicationNext]_publication => PublicationInv'
  <2> SUFFICES ASSUME PublicationInv, [PublicationNext]_publication PROVE PublicationInv'
    OBVIOUS
  <2>1. CASE UNCHANGED publication
    BY <2>1 DEF publication, disk, call, PublicationInv, PublicationTypeOK, Owned, Inside, Unpublished, Seen, Recorded,
       CatalogMeansWhole, ActiveSeen
  <2>2. ASSUME NEW w \in Workers, Ask(w) PROVE PublicationInv'
    BY <2>2, AskStep
  <2>3. ASSUME NEW w \in Workers, Handle(w) PROVE PublicationInv'
    BY <2>3, MoveStep, LockStep, DirectoryStep, PointStep DEF Handle
  <2>4. ASSUME NEW w \in Workers, Die(w) PROVE PublicationInv'
    BY <2>4, MoveStep
  <2>5. ASSUME NEW r \in Runs, Expire(r) PROVE PublicationInv'
    BY <2>5, ExpireStep
  <2>6. ASSUME NEW r \in Runs, Rewrite(r) PROVE PublicationInv'
    BY <2>6, RewriteStep
  <2> QED
    BY <2>1, <2>2, <2>3, <2>4, <2>5, <2>6 DEF PublicationNext
<1> QED
  BY <1>1, InitPublicationInv, PTL DEF PublicationSpec

\* Unless the lock was broken under a living request, one request is inside.
THEOREM Exclusive == PublicationSpec => []LockIsExclusive
<1>1. PublicationInv => LockIsExclusive
  BY DEF PublicationInv, Owned, LockIsExclusive
<1> QED
  BY <1>1, PublicationInductive, PTL

\* Unless the lock was broken under a living request, a catalog marks a complete run.
THEOREM CatalogIsWhole == PublicationSpec => []CatalogMeansWhole
<1>1. PublicationInv => CatalogMeansWhole
  BY DEF PublicationInv
<1> QED
  BY <1>1, PublicationInductive, PTL

\* The active run exists, whatever requests and repairs race for the pointer.
THEOREM ActiveExists == PublicationSpec => []ActiveRunIsPublished
<1>1. PublicationInv => ActiveRunIsPublished
  BY NamesAssumption DEF PublicationInv, PublicationTypeOK, ActiveSeen, ActiveRunIsPublished, CatalogMeansWhole, Recorded, Published
<1> QED
  BY <1>1, PublicationInductive, PTL

\* A published run is never taken away or overwritten.
THEOREM Final == PublicationSpec => PublishedIsFinal
<1>1. PublicationInv /\ [PublicationNext]_publication =>
        [\A r \in Runs : dir[r] \in Published /\ ~usurped'[r] => dir'[r] \in Published]_publication
  <2> SUFFICES ASSUME PublicationInv, PublicationNext, NEW r \in Runs, dir[r] \in Published, ~usurped'[r]
               PROVE  dir'[r] \in Published
    OBVIOUS
  <2>1. ASSUME NEW w \in Workers, Clear(w) \/ RemoveDirectory(w) \/ Publish(w)
        PROVE  dir'[r] \in Published
    <3>1. UNCHANGED usurped
      BY <2>1 DEF Clear, RemoveDirectory, Publish
    <3> QED
      BY <2>1, <3>1, DirectoryStep DEF Recorded, Published
  <2>2. ASSUME NEW q \in Runs, Rewrite(q) PROVE dir'[r] \in Published
    BY <2>2, RewriteStep
  <2>3. \/ UNCHANGED dir
        \/ \E w \in Workers : Clear(w) \/ RemoveDirectory(w) \/ Publish(w)
        \/ \E q \in Runs : Rewrite(q)
    BY DEF PublicationNext, Ask, Handle, Show, Create, Select, TakeLock, FindExpired, TimeOut, BreakLock,
       Release, Recheck, Inspect, Build, Activate, Point, Expire, Die, disk
  <2> QED
    BY <2>1, <2>2, <2>3
<1> QED
  BY <1>1, PublicationInductive, PTL DEF PublicationSpec, PublishedIsFinal
=============================================================================
