--------------------------- MODULE MCRunGeneration ---------------------------
(* Instances of RunGeneration for TLC. *)
EXTENDS RunGeneration

\* An action of each kind: remote, field, plant, swap, and evidence only.
MCConfigurations ==
  {<<s>> : s \in {"slow_wifi", "no_service", "fiber_cut", "cpe_failure", "congestion"}}
    \union {<<"congestion", "cpe_failure">>, <<"fiber_cut", "power_outage">>}

MCAgreeing == [independent |-> TRUE, domain |-> TRUE, action |-> TRUE,
               evidence |-> TRUE, safe |-> TRUE]

\* A model that agrees, no model, and an answer that cites no evidence.  (The
\* offline stand-in needs a human for the same reason as no model.)
MCAnswers ==
  {MCAgreeing,
   [MCAgreeing EXCEPT !.independent = FALSE, !.domain = FALSE, !.action = FALSE,
                      !.safe = FALSE],
   [MCAgreeing EXCEPT !.evidence = FALSE]}

\* A short drive, a day trip too long for one shift, and a ferry.
MCPlaces ==
  {[minutes |-> 30, road |-> 30, ferry |-> FALSE, island |-> FALSE, family |-> "HFC"],
   [minutes |-> 200, road |-> 200, ferry |-> FALSE, island |-> FALSE, family |-> "HFC"],
   [minutes |-> 150, road |-> 60, ferry |-> TRUE, island |-> TRUE, family |-> "PON"]}
=============================================================================
