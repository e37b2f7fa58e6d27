---------------------------- MODULE InstallWatch ----------------------------
(***************************************************************************)
(* The 24-hour watch of new installations (digital_twin/                   *)
(* install_assurance.py): which services of a run are watched, what        *)
(* happens to each, and what a watch says of them at a point in time.      *)
(*                                                                         *)
(* Time is in quarters of an hour.  A service is a record of its name, its *)
(* technology and its delimiter; a request one of the population, the      *)
(* point in time, the stability tail and the seed.                         *)
(***************************************************************************)
EXTENDS Integers, FiniteSets, Sequences, SequencesExt

CONSTANT Services   \* subscriber_master of the run, in its order

\* Names are unique, and neither names nor delimiters are taken for one another.
ASSUME ServicesAssumption ==
  /\ Services \in Seq([name : STRING, technology : STRING, delimiter : STRING])
  /\ \A i, j \in 1..Len(Services) : Services[i].name = Services[j].name => i = j
  /\ \A s, t \in ToSet(Services) : s.name # t.delimiter /\ "none" \notin {s.name, s.delimiter}

Hour == 4
Day == 24 * Hour

Acceptable(request) ==
  request.asOf \in 0..(3 * Day) /\ request.tail \in Hour..(12 * Hour)

-----------------------------------------------------------------------------
(* The population *)

\* Those of a sequence that are in a set, in their order.
Among(pool, chosen) ==
  LET kept[i \in 0..Len(pool)] ==
        IF i = 0 THEN << >>
        ELSE IF pool[i] \in chosen THEN Append(kept[i - 1], pool[i]) ELSE kept[i - 1]
  IN kept[Len(pool)]

Of(technologies) == Among(Services, {s \in ToSet(Services) : s.technology \in technologies})

\* The first two HFC services behind a tap that has two.
CommonPair ==
  LET hfc == Of({"HFC"})
      behind(d) == Among(hfc, {s \in ToSet(hfc) : s.delimiter = d})
      shared == Among(hfc, {s \in ToSet(hfc) : Len(behind(s.delimiter)) >= 2})
  IN IF shared = << >> THEN << >> ELSE SubSeq(behind(shared[1].delimiter), 1, 2)

General ==
  LET rest == Among(Of({"HFC"}), ToSet(Services) \ ToSet(CommonPair))
  IN IF rest = << >> THEN Of({"HFC"}) ELSE rest

SlotTechnologies ==
  <<"HFC", "PON", "HFC", "HFC", "PON", "PON", "COMMON_A", "COMMON_B", "HFC", "PON", "HFC", "PON">>

\* The first service of the pool that is not taken, from a place on, around.
AddFrom(taken, pool, token) ==
  LET at(k) == pool[((token + k) % Len(pool)) + 1]
      free == {k \in 0..(Len(pool) - 1) : at(k) \notin ToSet(taken)}
  IN IF free = {} THEN taken
     ELSE Append(taken, at(CHOOSE k \in free : \A j \in free : k <= j))

FillSlot(taken, index, seed) ==
  LET slot == SlotTechnologies[index]
      token == seed + 17 * (index - 1)
  IN CASE slot = "HFC" -> AddFrom(taken, General, token)
       [] slot = "COMMON_A" /\ CommonPair # << >> -> AddFrom(taken, <<CommonPair[1]>>, 0)
       [] slot = "COMMON_B" /\ CommonPair # << >> -> AddFrom(taken, <<CommonPair[2]>>, 0)
       [] OTHER -> AddFrom(taken, Of({"PON"}), token)

\* A slot that finds no service is skipped, and the next one takes its place.
Filled(size, seed) ==
  LET filled[i \in 0..12] ==
        IF i = 0 THEN << >> ELSE FillSlot(filled[i - 1], i, seed)
  IN filled[IF size < 12 THEN size ELSE 12]

TopUp(taken, service, size) ==
  IF Len(taken) < size THEN AddFrom(taken, <<service>>, 0) ELSE taken

Picked(size, seed) ==
  LET taken[i \in 0..Len(Services)] ==
        IF i = 0 THEN Filled(size, seed) ELSE TopUp(taken[i - 1], Services[i], size)
  IN taken[Len(Services)]

-----------------------------------------------------------------------------
(* What happens to an installation *)

Scenarios ==
  <<"healthy_hfc", "healthy_pon", "remote_stabilized", "persistent_hfc_impairment",
    "persistent_pon_impairment", "wifi_impairment", "common_cause_hfc", "common_cause_hfc",
    "late_action_extension", "active_green", "active_amber", "active_red">>

\* The test for HFC is on the end of the name.
HfcByName == {"healthy_hfc", "common_cause_hfc"}

ScenarioFor(index, technology) ==
  LET planned == IF index <= Len(Scenarios) THEN Scenarios[index] ELSE "healthy_hfc"
  IN CASE planned \in HfcByName /\ technology # "HFC" -> "healthy_pon"
       [] planned = "healthy_pon" /\ technology = "HFC" -> "healthy_hfc"
       [] OTHER -> planned

StartOffset(scenario) ==
  CASE scenario = "active_green" -> 12 * Hour
    [] scenario = "active_amber" -> 18 * Hour
    [] scenario = "active_red" -> 20 * Hour
    [] OTHER -> 0

\* When each event comes, from the start; an event that is not named never does.
Persistent ==
  [finding |-> 4, contact |-> 16, remote_action |-> 10, incident |-> 12, dispatch |-> 20,
   mr |-> 28, repair |-> 48, stable |-> 50]
EventPlan ==
  [remote_stabilized |-> [finding |-> 8, contact |-> 12, remote_action |-> 16, stable |-> 18],
   wifi_impairment |-> [finding |-> 4, contact |-> 6, remote_action |-> 8, stable |-> 10],
   persistent_hfc_impairment |-> Persistent,
   persistent_pon_impairment |-> Persistent,
   common_cause_hfc |->
     [finding |-> 3, contact |-> 8, incident |-> 6, dispatch |-> 12, mr |-> 16, repair |-> 32,
      stable |-> 34],
   late_action_extension |->
     [finding |-> 80, contact |-> 84, remote_action |-> 92, stable |-> 94],
   active_amber |-> [finding |-> 8, contact |-> 12],
   active_red |-> [finding |-> 4, contact |-> 8, incident |-> 12]]

Planned(scenario, event) ==
  scenario \in DOMAIN EventPlan /\ event \in DOMAIN EventPlan[scenario]

Due(scenario, event, age) == Planned(scenario, event) /\ age >= EventPlan[scenario][event]

HealthAt(scenario, age) ==
  CASE ~Due(scenario, "finding", age) \/ Due(scenario, "stable", age) -> "GREEN"
    [] /\ Due(scenario, "finding", age) /\ ~Due(scenario, "stable", age)
       /\ Due(scenario, "incident", age) \/ scenario = "active_red" -> "RED"
    [] OTHER -> "AMBER"

WorkEvents == {"remote_action", "dispatch", "mr", "repair", "stable"}
ServiceAffecting == {"remote_action", "repair"}

Executed(scenario, age) == {e \in WorkEvents : Due(scenario, e, age)}

\* The later of 24 hours and the tail after the last action that touched service.
NominalMaturity(scenario, age, tail) == Day   \* mutant: no tail after an action

EffectiveMaturity(scenario, age, tail) ==
  Max({Day} \cup {EventPlan[scenario][e] + tail :
                    e \in Executed(scenario, age) \cap ServiceAffecting})

LifecycleByHealth(scenario, age, tail) ==   \* mutant: the incident is asked for last
  LET green == HealthAt(scenario, age) = "GREEN"
      mature == age >= EffectiveMaturity(scenario, age, tail)
  IN CASE mature /\ green -> "PASSED_24H"
       [] ~mature /\ green /\ Planned(scenario, "remote_action") -> "RECOVERING"
       [] ~green /\ Due(scenario, "incident", age) -> "PROMOTED_TO_INCIDENT"
       [] OTHER -> "ACTIVE"

Lifecycle(scenario, age, tail) ==
  LET green == HealthAt(scenario, age) = "GREEN"
      mature == age >= EffectiveMaturity(scenario, age, tail)
  IN CASE Due(scenario, "incident", age) -> "PROMOTED_TO_INCIDENT"
       [] ~Due(scenario, "incident", age) /\ mature /\ green -> "PASSED_24H"
       [] /\ ~Due(scenario, "incident", age) /\ ~mature /\ green
          /\ Planned(scenario, "remote_action") -> "RECOVERING"
       [] OTHER -> "ACTIVE"

-----------------------------------------------------------------------------
(* A watch *)

\* One incident for each episode, or one for a tap.
IncidentOf(service, scenario, age) ==
  CASE ~Due(scenario, "incident", age) -> "none"
    [] Due(scenario, "incident", age) /\ scenario = "common_cause_hfc" -> service.delimiter
    [] OTHER -> service.name

EpisodeOf(request, index, service) ==
  LET scenario == ScenarioFor(index, service.technology)
      start == Min({StartOffset(scenario), request.asOf})
      age == request.asOf - start
      called == Due(scenario, "contact", age)
  IN [service |-> service.name, scenario |-> scenario, start |-> start, age |-> age,
      health |-> HealthAt(scenario, age),
      lifecycle |-> Lifecycle(scenario, age, request.tail),
      maturity |-> EffectiveMaturity(scenario, age, request.tail),
      incident |-> IncidentOf(service, scenario, age),
      work |-> Executed(scenario, age),
      contact |-> called,
      beforeCall |-> called /\ Due(scenario, "finding", age)
                       /\ EventPlan[scenario]["finding"] <= EventPlan[scenario]["contact"]]

Episode(request, index) ==
  EpisodeOf(request, index, Picked(request.population, request.seed)[index])

Watched(request) == [i \in 1..request.population |-> Episode(request, i)]
Episodes(request) == ToSet(Watched(request))

\* Half an hour after the repair, which is when the lines have been stable.
ClosesAtRepair(episode) == Due(episode.scenario, "repair", episode.age)   \* mutant: as soon as the crew is done

ClosesAt(episode) ==
  Due(episode.scenario, "repair", episode.age)
    /\ episode.age >= EventPlan[episode.scenario]["repair"] + Hour \div 2

\* The status of an incident is that of its first episode.
IncidentsAmong(watched) ==
  LET First(i) == \A k \in 1..(i - 1) : watched[k].incident # watched[i].incident
  IN {[id |-> e.incident, closed |-> ClosesAt(e),
       episodes |-> {f \in ToSet(watched) : f.incident = e.incident}] :
        e \in {watched[i] : i \in {j \in DOMAIN watched :
                                   watched[j].incident # "none" /\ First(j)}}}
Incidents(request) == IncidentsAmong(Watched(request))

Matured(request, episodes) == {e \in episodes : request.asOf >= e.start + e.maturity}
Passed(episodes) == {e \in episodes : e.lifecycle = "PASSED_24H"}

\* What an installation that is through, or is not, has come to.
Outcome(e) ==
  CASE e.lifecycle = "PASSED_24H" /\ e.work = {} -> "PASSED_WITHOUT_INTERVENTION"
    [] e.lifecycle = "PASSED_24H" /\ e.work # {} -> "PASSED_AFTER_REMOTE_STABILIZATION"
    [] e.lifecycle = "PROMOTED_TO_INCIDENT" -> "PROMOTED_TO_ROOT_INCIDENT"
    [] OTHER -> "WATCH_IN_PROGRESS"

\* The metrics, the partitions and the workload of the summary; a metric that
\* counts episodes is the set of them.  Work orders and requests are counted over
\* the actions, and listed once more by the incident of their episode.
SummaryOf(request, episodes, incidents) ==
  LET Doing(event) == {e \in episodes : event \in e.work}
      Within(state) == {e \in episodes : e.lifecycle = state}
  IN [matured |-> Matured(request, episodes), passed |-> Passed(episodes),
      intervened |-> {e \in episodes : e.work # {}},
      remote_stabilized |->
        {e \in episodes : Outcome(e) = "PASSED_AFTER_REMOTE_STABILIZATION"},
      promoted |-> Within("PROMOTED_TO_INCIDENT"),
      in_progress |-> Within("ACTIVE") \cup Within("RECOVERING"),
      contacts |-> {e \in episodes : e.contact},
      network_before_call |-> {e \in episodes : e.beforeCall},
      remote_actions |-> Doing("remote_action"),
      clean_boots_work_orders |-> Doing("dispatch"),
      maintenance_requests |-> Doing("mr"),
      incident_work_orders |-> UNION {i.episodes \cap Doing("dispatch") : i \in incidents},
      incident_requests |-> UNION {i.episodes \cap Doing("mr") : i \in incidents},
      open_install_incidents |-> {i \in incidents : ~i.closed},
      root_incidents |-> incidents]
Summary(request) == SummaryOf(request, Episodes(request), Incidents(request))
=============================================================================
