------------------------- MODULE MCPredictiveBranch -------------------------
(***************************************************************************)
(* Two modems, one HFC and one PON, and a run that may raise one ticket.   *)
(* A fault of the CPE comes back the day after a reboot, a drifted         *)
(* configuration stays corrected, a tap decays from a forecast to a        *)
(* breach.                                                                 *)
(***************************************************************************)
EXTENDS PredictiveBranch

Reading(kpi, breached, fits, eta) ==
  [kpi |-> kpi, breached |-> breached, fits |-> fits, eta |-> eta]

MCDomainOf == [cpe_state |-> "cpe", config_drift |-> "provisioning", tap_or_odp |-> "hfc_tap"]
MCRelapseAfter == [cpe_state |-> 1, config_drift |-> Never, tap_or_odp |-> 1]
MCCourse ==
  [cpe_state |-> <<{Reading("t3_timeouts", FALSE, FALSE, 2)}, {Reading("t3_timeouts", TRUE, FALSE, 0)}>>,
   config_drift |-> <<{}, {Reading("us_tx", FALSE, TRUE, 6)}, {Reading("us_tx", TRUE, FALSE, 0)}>>,
   tap_or_odp |-> <<{Reading("ds_mer", FALSE, TRUE, 9)},
                    {Reading("ds_mer", TRUE, TRUE, 0), Reading("ds_rx", FALSE, TRUE, 3)}>>]
MCTechnologyOf == <<"HFC", "PON">>
=============================================================================
