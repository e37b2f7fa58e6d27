------------------------------ MODULE ModemScan ------------------------------
(***************************************************************************)
(* The predictive scan (predictive/scanner.py, config.py): which findings  *)
(* the readings of a modem give, and which modems get a ticket, of which   *)
(* class and severity.                                                     *)
(*                                                                         *)
(* A series is the set of the readings of a modem, one for each KPI:       *)
(* whether its bound is breached now, whether a trend fits it well enough, *)
(* and in how many days the trend reaches the bound (past the horizon when *)
(* it never does).                                                         *)
(***************************************************************************)
EXTENDS Integers, FiniteSets, FiniteSetsExt

CONSTANTS
  Horizon,   \* forecast_horizon_days
  Cap        \* max_tickets_per_run

ASSUME ScanAssumption == Horizon \in Nat /\ Cap \in Nat

Evaluate(series) ==
  {[kpi |-> r.kpi, breached |-> r.breached, eta |-> IF r.breached THEN 0 ELSE r.eta] :
     r \in {q \in series : q.breached \/ (q.fits /\ q.eta <= Horizon)}}

Breached(findings) == {f \in findings : f.breached}

ClassOf(findings) == IF Breached(findings) # {} THEN "proactive" ELSE "forecast"

Soonest(findings) == Min({f.eta : f \in findings})

\* 0 critical, 1 high, 2 medium, 3 low.
Severity(findings) ==
  CASE ClassOf(findings) = "proactive" -> IF Cardinality(findings) >= 2 THEN 0 ELSE 1
    [] ClassOf(findings) = "forecast" /\ Soonest(findings) <= 3 -> 1
    [] ClassOf(findings) = "forecast" /\ Soonest(findings) \in 4..7 -> 2
    [] OTHER -> 3

\* A ticket that is open suppresses another one, except that what a forecast
\* said would happen has happened.
IsDuplicate(open, class) == open # "none" /\ ~(open = "forecast" /\ class = "proactive")

Ticket(modem, cause, technology, findings, repeat) ==
  [modem |-> modem, cause |-> cause, technology |-> technology, findings |-> findings,
   class |-> ClassOf(findings), severity |-> Severity(findings), repeat |-> repeat]

\* The order of a run: the worst first, then by ticket, that is by modem.
Precedes(s, t) ==
  \/ s.severity < t.severity
  \/ s.severity = t.severity /\ s.class = "proactive" /\ t.class = "forecast"
  \/ s.severity = t.severity /\ s.class = t.class /\ s.modem < t.modem

WithinCap(candidates) ==
  {t \in candidates : Cardinality({s \in candidates : Precedes(s, t)}) < Cap}
=============================================================================
