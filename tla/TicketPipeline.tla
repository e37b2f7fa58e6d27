--------------------------- MODULE TicketPipeline ---------------------------
(***************************************************************************)
(* What becomes of one predictive ticket (predictive/pipeline.py): what is *)
(* tried remotely, who must be told, and what the agents may change.       *)
(***************************************************************************)
EXTENDS AgentGuards, ModemScan

CONSTANTS
  MaxAttempts,      \* max_auto_attempts
  HardKpis,         \* HARD_FAILURE_KPIS
  PhysicalCauses,   \* PHYSICAL_CAUSES
  DomainOf          \* the responsibility domain of a suspected cause

ASSUME PipelineAssumption == MaxAttempts \in Nat
\* The tables of pipeline.py and config.py: what is behind the delimiter is physical.
ASSUME DomainAssumption ==
  \A c \in DOMAIN DomainOf :
    /\ DomainOf[c] \in KnownDomains
    /\ DomainOf[c] \in PlantDomains => c \in PhysicalCauses

PlanActions(ticket) ==
  LET plan == CASE ticket.cause \in PhysicalCauses -> << >>
                [] ticket.cause = "config_drift" -> <<"remote_reprovision", "remote_reboot">>
                [] OTHER -> <<"remote_reboot", "remote_reprovision">>
  IN SubSeq(plan, 1, Min({MaxAttempts, Len(plan)}))

\* A reboot interrupts service and only runs inside the maintenance window.
Executed(ticket, inWindow) ==
  {i \in DOMAIN PlanActions(ticket) :
     PlanActions(ticket)[i] = "remote_reboot" => inWindow}

\* works[i]: the i-th action clears the condition, if it runs.
Resolved(ticket, inWindow, works) == \E i \in Executed(ticket, inWindow) : works[i]

NeedsTruckRoll(ticket, inWindow, works) ==
  /\ ~Resolved(ticket, inWindow, works)
  /\ \/ ticket.cause \in PhysicalCauses
     \/ Executed(ticket, inWindow) = DOMAIN PlanActions(ticket)

NotifyOpenRisks(ticket, truckRoll, resolved) ==   \* mutant: on the risk that is left, a repeat too
  {r \in {"truck_roll_required", "hard_failure_forecast", "repeat_offender"} :
     CASE r = "truck_roll_required" -> truckRoll
       [] r = "hard_failure_forecast" ->
            /\ ~resolved /\ ticket.class = "forecast"
            /\ \E f \in ticket.findings : f.kpi \in HardKpis /\ f.eta <= Horizon
       [] OTHER -> ~resolved /\ ticket.repeat}

\* On the risk that is left, except that a repeat is always worth telling.
NotifyReasons(ticket, truckRoll, resolved) ==
  {r \in {"truck_roll_required", "hard_failure_forecast", "repeat_offender"} :
     CASE r = "truck_roll_required" -> truckRoll
       [] r = "hard_failure_forecast" ->
            /\ ~resolved /\ ticket.class = "forecast"
            /\ \E f \in ticket.findings : f.kpi \in HardKpis /\ f.eta <= Horizon
       [] OTHER -> ticket.repeat}

DispatchOf(ticket) ==
  IF ticket.cause \in PhysicalCauses THEN "dirty_boots_mr" ELSE "clean_boots"

\* What the guard is asked about a dispatch: the action of the rules.
DispatchRequest(ticket, disagrees, fallback) ==
  [domain |-> DomainOf[ticket.cause], action |-> DispatchOf(ticket),
   technology |-> ticket.technology, remoteAttempts |-> 0, fieldVisits |-> 0,
   maxRemote |-> 2, maxField |-> 3, base |-> NoBase, skills |-> {}, parts |-> {},
   evidence |-> Cardinality(ticket.findings), disagrees |-> disagrees,
   confidence |-> 100, fallback |-> fallback, threshold |-> 70]

\* process() without a suppression.
Remediate(ticket, inWindow, works, disagrees, fallback) ==
  LET resolved == Resolved(ticket, inWindow, works)
      truckRoll == NeedsTruckRoll(ticket, inWindow, works)
      notify == NotifyReasons(ticket, truckRoll, resolved)
      stopped == truckRoll
        /\ GuardVerdict(DispatchRequest(ticket, disagrees, fallback)) = "blocked"
  IN [ticket |-> ticket, resolved |-> resolved, truckRoll |-> truckRoll, notify |-> notify,
      verdict |-> CASE stopped -> "blocked"
                    [] ~stopped /\ (~resolved \/ notify # {}) -> "requires_approval"
                    [] OTHER -> "allowed"]

\* process() as the daily run calls it: no provider.
Process(ticket, inWindow, works) == Remediate(ticket, inWindow, works, FALSE, FALSE)

BaselineTriage(ticket) ==
  CASE ticket.class = "proactive" \/ Soonest(ticket.findings) <= 3 -> "act_now"
    [] ticket.class = "forecast" /\ Soonest(ticket.findings) > 3 /\ ticket.severity <= 2 -> "schedule"
    [] OTHER -> "monitor"

SuppressedUnread(ticket) ==   \* mutant: the readings are not looked at again
  [ticket |-> ticket, resolved |-> FALSE, truckRoll |-> FALSE, notify |-> {},
   verdict |-> "requires_approval"]

\* A finding that an agent dismisses goes to a person, or the dismissal is
\* refused when the bound is breached already.
Suppressed(ticket) ==
  LET breached == Breached(ticket.findings) # {}
  IN [ticket |-> ticket, resolved |-> FALSE, truckRoll |-> breached, notify |-> {},
      verdict |-> IF breached THEN "blocked" ELSE "requires_approval"]

\* process() with a provider: the triage first, then the rest.
Reviewed(ticket, inWindow, works, reply) ==
  LET triage == Decide(reply, TriageAnswers, BaselineTriage(ticket))
  IN IF triage.choice = "suppress" THEN Suppressed(ticket)
     ELSE Remediate(ticket, inWindow, works, ~Agrees(triage, BaselineTriage(ticket)),
                    triage.fallback)
=============================================================================
