---------------------------- MODULE ModemSnapshot ----------------------------
(***************************************************************************)
(* The scan of the modems of a digital-twin run                            *)
(* (digital_twin/predictive_bridge.py, and run_predictive_scan in          *)
(* orchestrator.py): which modems are pulled, which signal each shows, and *)
(* which tickets the scanner of the predictive branch raises.              *)
(*                                                                         *)
(* A home is a number.  A pull request is a record of the population, the  *)
(* days of the window, and the homes that are sampled, in their order.     *)
(***************************************************************************)
EXTENDS Integers, FiniteSets, Sequences, SequencesExt

CONSTANTS
  Homes,           \* the number of homes of the run
  TechnologyOf,    \* of each home
  Cases,           \* the homes of the cases, in the order of the file
  ScenarioOf,      \* of each of these homes: the scenario of its first case
  TicketFloor      \* tickets a scan may raise however few modems it pulls

\* The scanner, for n modems.
Scanner(n) == INSTANCE ModemScan WITH Horizon <- 14, Cap <- Max({TicketFloor, n})

-----------------------------------------------------------------------------
(* The modems *)

Target(request) == Min({Homes, Max({request.population, Len(Cases)})})

\* The homes with a case first, then the sample up to the target.
Selected(request) ==
  LET rest == SelectSeq(request.sample, LAMBDA h : h \notin ToSet(Cases))
  IN [i \in 1..Target(request) |->
        IF i <= Len(Cases) THEN Cases[i] ELSE rest[i - Len(Cases)]]

ScenarioSignal ==
  [no_service |-> "hard_loss", intermittent_service |-> "intermittent",
   iptv_degradation |-> "quality", fiber_cut |-> "hard_loss", hfc_ingress |-> "quality",
   power_outage |-> "hard_loss", storm |-> "hard_loss", flooding |-> "hard_loss",
   hurricane |-> "hard_loss", provisioning_error |-> "provisioning",
   cpe_failure |-> "intermittent", slow_wifi |-> "none", congestion |-> "none"]

\* A few of the homes without a case are not well either.
Pattern(home, index) ==
  CASE home \in ToSet(Cases) -> ScenarioSignal[ScenarioOf[home]]
    [] home \notin ToSet(Cases) /\ index % 97 = 0 -> "hard_loss"
    [] home \notin ToSet(Cases) /\ index % 97 # 0 /\ index % 53 = 0 -> "forecast"
    [] OTHER -> "none"

Kpi(pattern, technology) ==
  CASE pattern = "quality" -> IF technology = "HFC" THEN "ds_mer" ELSE "ber"
    [] pattern = "intermittent" -> IF technology = "HFC" THEN "t3_timeouts" ELSE "dying_gasp"
    [] pattern = "provisioning" -> IF technology = "HFC" THEN "us_tx" ELSE "ont_tx"
    [] pattern = "forecast" -> IF technology = "HFC" THEN "ds_mer" ELSE "ont_rx"
    [] OTHER -> IF technology = "HFC" THEN "ds_rx" ELSE "ont_rx"

Ceiling(n, d) == (n + d - 1) \div d

\* Days from the end of the line to its bound: the line of a forecast loses
\* 4.8 dB over the window and has 1.2 left (3.8 and 1.2 on PON).
DaysLeft(technology, days) ==
  IF technology = "HFC" THEN Ceiling(days - 1, 4) ELSE Ceiling(6 * (days - 1), 19)

\* A straight line, past its bound at the end unless it is a forecast.  The
\* other readings stay at their base lines.
Readings(pattern, technology, days) ==
  IF pattern = "none" THEN {}
  ELSE {[kpi |-> Kpi(pattern, technology), breached |-> pattern # "forecast", fits |-> TRUE,
         eta |-> IF pattern = "forecast" THEN DaysLeft(technology, days) ELSE 0]}

HostCause(pattern) ==
  CASE pattern = "quality" -> "tap_or_odp"
    [] pattern = "intermittent" -> "cpe_state"
    [] pattern = "provisioning" -> "config_drift"
    [] pattern = "none" -> "stable"
    [] OTHER -> "plant"

-----------------------------------------------------------------------------
(* The snapshot *)

FindingsAt(request, index) ==
  LET home == Selected(request)[index]
      technology == TechnologyOf[home]
  IN Scanner(0)!Evaluate(Readings(Pattern(home, index - 1), technology, request.days))

\* No flags and no open tickets: every scan is the first.
TicketAt(request, index) ==
  LET home == Selected(request)[index]
  IN Scanner(0)!Ticket(index, HostCause(Pattern(home, index - 1)), TechnologyOf[home],
                       FindingsAt(request, index), FALSE)

CandidatesOf(request) ==
  {TicketAt(request, i) : i \in {j \in 1..Target(request) : FindingsAt(request, j) # {}}}

TicketsOfFloor(request) ==   \* mutant: the limit of the daily run
  Scanner(0)!WithinCap(CandidatesOf(request))

TicketsOf(request) == Scanner(Target(request))!WithinCap(CandidatesOf(request))

\* The homes that have a ticket.
Ticketed(request) == {Selected(request)[t.modem] : t \in TicketsOf(request)}

Healthy(request) == Target(request) - Cardinality(CandidatesOf(request))
=============================================================================
