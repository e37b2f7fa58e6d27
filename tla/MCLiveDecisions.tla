--------------------------- MODULE MCLiveDecisions ---------------------------
(* Instances of LiveDecisions for TLC: a run of eight cases, of which 1 to 4 *)
(* (one of each kind of action) wait for a live decision.                    *)
EXTENDS LiveDecisionProperties, TLC

\* Workers differ in name only.
AnyWorker == Permutations(Workers)

NoModel == [independent |-> FALSE, domain |-> FALSE, action |-> FALSE,
            evidence |-> TRUE, safe |-> FALSE]

\* One case of each kind of action, and then another; the second of each kind
\* was decided in the past.
Sampled == <<"slow_wifi", "cpe_failure", "fiber_cut", "congestion",
             "slow_wifi", "cpe_failure", "fiber_cut", "congestion">>
Generated[n \in 0..8] ==
  IF n = 0 THEN EmptyRun ELSE AddCase(Generated[n - 1], Sampled[n], NoModel)

\* A predictive ticket has moved the opening of one incident to the scan.
MCPublished == BuildCare(Generated[8], {2})

\* Any response to any live case; a stale revision; a case without a store row.
MCRequests ==
  {[case |-> c, revision |-> 1, response |-> r] :
     c \in 1..4, r \in {"approve", "reject", "request_evidence", "escalate"}}
    \union {[case |-> 1, revision |-> 2, response |-> "approve"],
            [case |-> 5, revision |-> 1, response |-> "approve"]}

\* Requests that overlap: both responses to one case, a stale revision of it, and
\* a decision on another case, which rewrites the control files only.
MCFewRequests ==
  {[case |-> 1, revision |-> 1, response |-> "approve"],
   [case |-> 1, revision |-> 1, response |-> "reject"],
   [case |-> 1, revision |-> 2, response |-> "approve"],
   [case |-> 2, revision |-> 1, response |-> "reject"]}

\* The run's own day has passed, or has yet to come (run_date is free).
After == Minutes(24 * 60)
Before == -Minutes(24 * 60)
MCAfter == {After}
MCEither == {Before, After}

\* A short drive, a day trip too long for one shift, and a ferry.
MCPlaces ==
  {[minutes |-> 30, road |-> 30, ferry |-> FALSE, island |-> FALSE, family |-> "HFC"],
   [minutes |-> 200, road |-> 200, ferry |-> FALSE, island |-> FALSE, family |-> "HFC"],
   [minutes |-> 150, road |-> 60, ferry |-> TRUE, island |-> TRUE, family |-> "PON"]}
=============================================================================
