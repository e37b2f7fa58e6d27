---------------------------- MODULE EvidenceRules ----------------------------
(***************************************************************************)
(* What an import batch makes of its evidence                              *)
(* (digital_twin/external_evidence.py): validation, correlation with the   *)
(* identity map, the deterministic advice, its reconciliation with the     *)
(* agent's, and the projection of a scenario.                              *)
(*                                                                         *)
(* The evidence e of a batch maps every source it has to the rows of its   *)
(* file.  Once parsed, the rows stand in one sequence R and are named by   *)
(* their position.  A row carries                                          *)
(*   source, id, service (numbers, 0 if empty);                            *)
(*   device, technology, tap (names, "" if empty);                         *)
(*   at, its event time, or NoTime, which sorts first;                     *)
(*   form: "ok", "bad" (a field of it does not parse) or "fatal" (a field  *)
(*     that a later check parses again, without a net);                    *)
(*   sound: whether its values make sense for what it reports;             *)
(*   key, status, domain, signal, refs, incident, acted (an action was     *)
(*     taken): what it reports.                                            *)
(***************************************************************************)
EXTENDS Integers, Sequences, FiniteSets

CONSTANTS
  AsOf,         \* the point in time of the batch, or NoTime
  Mode,         \* the import mode
  MaxServices   \* services an agent is asked about

NoTime == -1
ASSUME AsOfAssumption == AsOf \in Nat \union {NoTime}
ASSUME MaxServicesAssumption == MaxServices \in Nat \ {0}

\* The order of the manifest, which is written with sorted keys.
SourceOrder ==
  <<"dvsum_caddi_insights", "genesys_interactions", "identity_map", "install_cohort",
    "jtrack_events", "nxt_alarms", "nxt_telemetry">>
Sources == {SourceOrder[i] : i \in DOMAIN SourceOrder}

AllowedDomains ==
  {"cpe", "wifi_or_home", "premise_wiring", "drop", "hfc_tap", "pon_odp", "shared_network",
   "plant", "provisioning", "service_platform", "commercial_power", "unknown"}
AllowedActions ==
  {"attach_to_existing_incident", "attach_to_existing_mr", "collect_more_evidence",
   "expanded_rf_diagnostics", "optical_diagnostics", "validate_or_reprovision",
   "wifi_diagnostics", "clean_boots_assessment", "manual_review", "monitor"}

-----------------------------------------------------------------------------
(* Rows and issues *)

Records ==
  [source : Sources, id : Nat, service : Nat, device : STRING, technology : STRING,
   tap : STRING, at : Nat \union {NoTime}, form : {"ok", "bad", "fatal"}, sound : BOOLEAN,
   key : Nat, status : STRING, domain : STRING, signal : STRING, refs : SUBSET Nat,
   incident : BOOLEAN, acted : BOOLEAN]

\* The rows of all files, one after the other.
Parsed(e) ==
  LET FileOf(n) == IF SourceOrder[n] \in DOMAIN e THEN e[SourceOrder[n]] ELSE << >>
  IN FileOf(1) \o FileOf(2) \o FileOf(3) \o FileOf(4) \o FileOf(5) \o FileOf(6) \o FileOf(7)

From(R, source) == {i \in DOMAIN R : R[i].source = source}

Issue(code, severity, i, service) ==
  [code |-> code, severity |-> severity, row |-> i, service |-> service]
Errors(issues) == {issue.row : issue \in {x \in issues : x.severity = "ERROR"}} \ {0}

\* A field that is required and missing, or does not parse.
FormIssues(R) ==
  {Issue("FORM", "ERROR", i, 0) : i \in {j \in DOMAIN R : R[j].form # "ok"}}
    \union (IF R = << >> THEN {Issue("NO_FILES_UPLOADED", "ERROR", 0, 0)} ELSE {})

\* Of rows with one identifier the first stands.
DuplicateIssues(R) ==
  {Issue("DUPLICATE_SOURCE_RECORD_ID", "ERROR", i, R[i].service) :
     i \in {j \in DOMAIN R : \E k \in 1..(j - 1) : R[k].id = R[j].id}}

-----------------------------------------------------------------------------
(* Correlation with the identity rows ids *)

LastIn(S) == {i \in S : \A j \in S : j <= i}
ServiceIdentity(R, ids, i) ==
  LastIn({j \in ids : R[i].service # 0 /\ R[j].service = R[i].service})
DeviceIdentity(R, ids, i) ==
  LastIn({j \in ids : R[i].device # "" /\ R[j].device = R[i].device})

\* The identity row of row i: a set of one, of none, or of two that disagree.
IdentitiesOf(R, ids, i) ==
  LET byService == ServiceIdentity(R, ids, i) byDevice == DeviceIdentity(R, ids, i)
  IN byService \union byDevice

OtherRows(R) == DOMAIN R \ From(R, "identity_map")
Matched(R, ids) == {i \in OtherRows(R) : Cardinality(IdentitiesOf(R, ids, i)) = 1}
Identity(R, ids, i) == R[CHOOSE j \in IdentitiesOf(R, ids, i) : TRUE]

Filled(own, known) == IF own = "" THEN known ELSE own

\* Rows are corrected in place: the service of the identity, and its value of
\* every field the row leaves empty.
Correlated(R, ids) ==
  [i \in DOMAIN R |->
     IF i \notin Matched(R, ids) THEN R[i]
     ELSE LET known == Identity(R, ids, i)
          IN [R[i] EXCEPT !.service = known.service,
                          !.device = Filled(@, known.device),
                          !.technology = Filled(@, known.technology),
                          !.tap = Filled(@, known.tap)]]

Differs(own, known) == own # "" /\ known # "" /\ own # known

IdentityIssues(R, ids) ==
  IF ids = {} THEN {Issue("IDENTITY_MAP_MISSING", "ERROR", 0, 0)}
  ELSE
    {Issue("SERVICE_DEVICE_IDENTITY_CONFLICT", "ERROR", i, R[i].service) :
       i \in {j \in OtherRows(R) : Cardinality(IdentitiesOf(R, ids, j)) = 2}}
    \union
    {Issue("IDENTITY_NOT_RESOLVED", "ERROR", i, R[i].service) :
       i \in {j \in OtherRows(R) : IdentitiesOf(R, ids, j) = {}}}
    \union
    {Issue("MISMATCH", "ERROR", i, Identity(R, ids, i).service) :
       i \in {j \in Matched(R, ids) :
                \/ Differs(R[j].device, Identity(R, ids, j).device)
                \/ Differs(R[j].technology, Identity(R, ids, j).technology)}}
    \union
    {Issue("DELIMITER_ID_MISMATCH", "WARNING", i, Identity(R, ids, i).service) :
       i \in {j \in Matched(R, ids) : Differs(R[j].tap, Identity(R, ids, j).tap)}}

-----------------------------------------------------------------------------
(* Meaning and chronology *)

\* _semantic_value_checks: what telemetry reports must be physically possible;
\* for the others it is a warning.
MeaningIssues(R) ==
  {Issue("UNSOUND", IF R[i].source = "nxt_telemetry" THEN "ERROR" ELSE "WARNING",
         i, R[i].service) : i \in {j \in DOMAIN R : ~R[j].sound}}
    \union
  {Issue("CADDI_GENESYS_INTERACTION_MISSING", "WARNING", i, R[i].service) :
     i \in {j \in From(R, "dvsum_caddi_insights") :
              R[j].key # 0 /\ \A k \in From(R, "genesys_interactions") : R[k].id # R[j].key}}

Future(R, i) == AsOf # NoTime /\ R[i].at # NoTime /\ R[i].at > AsOf

\* Rows in order of their times, and in file order at one time.
Earlier(R, i, j) == R[i].at < R[j].at \/ (R[i].at = R[j].at /\ i < j)

\* The positions S of R in that order.
SortedByTime(R, S) ==
  [n \in 1..Cardinality(S) |->
     CHOOSE i \in S : Cardinality({j \in S : Earlier(R, j, i)}) = n - 1]

Rank ==
  [CREATED |-> 0, ACCEPTED |-> 1, ASSIGNED |-> 2, REPAIRED |-> 3, CLOSED |-> 4,
   REJECTED |-> 4]

RepairIssues(R) ==
  LET repairs == From(R, "jtrack_events")
      known == {i \in repairs : R[i].status \in DOMAIN Rank}
  IN {Issue("JTRACK_STATUS_UNKNOWN", "WARNING", i, R[i].service) : i \in repairs \ known}
       \union
     {Issue("JTRACK_LIFECYCLE_OUT_OF_ORDER", "ERROR", i, R[i].service) :
        i \in {j \in known :
                 \E k \in known : /\ R[k].key = R[j].key /\ Earlier(R, k, j)
                                  /\ Rank[R[k].status] > Rank[R[j].status]}}

\* _cross_source_checks, given the rows in error so far.
CrossIssues(R, errors) ==
  LET cited == {R[i].id : i \in DOMAIN R \ errors}
      insights == From(R, "dvsum_caddi_insights")
      Installed(s) == LastIn({i \in From(R, "install_cohort") : R[i].service = s})
  IN {Issue("FUTURE_EVIDENCE_EXCLUDED", "WARNING", i, R[i].service) :
        i \in {j \in DOMAIN R : Future(R, j)}}
     \union
     {Issue("CONTACT_BEFORE_INSTALL", "WARNING", i, R[i].service) :
        i \in {j \in From(R, "genesys_interactions") :
                 /\ R[j].service # 0 /\ R[j].at # NoTime
                 /\ \E k \in Installed(R[j].service) : R[j].at < R[k].at}}
     \union
     {Issue("CADDI_EVIDENCE_REFERENCE_MISSING", "WARNING", i, R[i].service) :
        i \in {j \in insights : ~(R[j].refs \subseteq cited)}}
     \union
     {Issue("CADDI_FUTURE_EVIDENCE_REFERENCE", "WARNING", i, R[i].service) :
        i \in {j \in insights :
                 /\ R[j].at # NoTime
                 /\ \E k \in DOMAIN R \ errors : R[k].id \in R[j].refs /\ R[k].at > R[j].at}}
     \union RepairIssues(R)

-----------------------------------------------------------------------------
(* Validation *)

\* A field that _normalise_row reports and a later step parses again.
Aborts(e) == \E i \in DOMAIN Parsed(e) : Parsed(e)[i].form = "fatal"

IdentityRows(R, issues) == From(R, "identity_map") \ Errors(issues)

\* _correlate_identity runs after the duplicates are known; a record with an
\* error at the end is quarantined.
Correlates(R) == IdentityRows(R, FormIssues(R) \union DuplicateIssues(R))

Verdict(e) ==
  LET raw == Parsed(e)
      ids == Correlates(raw)
      R == Correlated(raw, ids)
      before == FormIssues(raw) \union DuplicateIssues(raw) \union IdentityIssues(raw, ids)
                  \union MeaningIssues(R)
      issues == before \union CrossIssues(R, Errors(before))
  IN [rows |-> R, issues |-> issues, accepted |-> DOMAIN R \ Errors(issues)]

StatusOf(v) ==
  IF v.accepted = {} \/ \E x \in v.issues : x.code = "IDENTITY_MAP_MISSING" THEN "REJECTED"
  ELSE IF \E x \in v.issues : x.severity = "ERROR" THEN "VALIDATED_WITH_QUARANTINE"
  ELSE IF v.issues # {} THEN "VALIDATED_WITH_WARNINGS" ELSE "VALIDATED"

-----------------------------------------------------------------------------
(* What the reports of a validation say *)

\* The correlation of the services that have a record left.
Correlation(v) ==
  LET RowsOf(s, S) == {i \in S : v.rows[i].service = s}
      Naming(s) == {x \in v.issues : x.service = s}
  IN [s \in {v.rows[i].service : i \in v.accepted} \ {0} |->
        [records |-> RowsOf(s, v.accepted),
         sources |-> {v.rows[i].source : i \in RowsOf(s, v.accepted)},
         quarantined |-> RowsOf(s, DOMAIN v.rows \ v.accepted),
         issues |-> Cardinality(Naming(s)),
         status |-> IF \E x \in Naming(s) : x.severity = "ERROR" THEN "CONFLICT"
                    ELSE "MATCHED"]]

\* The dated records a point in time may know, in their order.
Timeline(v) ==
  SortedByTime(v.rows, {i \in v.accepted : v.rows[i].at # NoTime /\ ~Future(v.rows, i)})

-----------------------------------------------------------------------------
(* Deterministic advice *)

Eligible(v) == {i \in v.accepted : ~Future(v.rows, i)}
Services(v) == {v.rows[i].service : i \in Eligible(v)} \ {0}
Of(v, s, source) == {i \in Eligible(v) : v.rows[i].service = s /\ v.rows[i].source = source}

\* The last row of each alarm or maintenance request.
Latest(v, S) ==
  {i \in S : \A j \in S : v.rows[j].key = v.rows[i].key => ~Earlier(v.rows, i, j)}
OpenRepairs(v, s) ==
  {i \in Latest(v, Of(v, s, "jtrack_events")) :
     v.rows[i].status \notin {"CLOSED", "REJECTED", "CANCELLED"}}
ActiveAlarms(v, s) ==
  {i \in Latest(v, Of(v, s, "nxt_alarms")) :
     v.rows[i].status \notin {"CLEARED", "CLOSED", "RESOLVED", "CANCELLED"}}

LastOf(v, S) == {i \in S : \A j \in S : ~Earlier(v.rows, i, j)}
HasIncident(v, s) ==
  \E i \in Eligible(v) : v.rows[i].service = s /\ v.rows[i].incident
Technology(v, s) ==
  LET ids == Of(v, s, "identity_map")
  IN IF ids = {} THEN ""
     ELSE v.rows[CHOOSE i \in ids : \A j \in ids : i <= j].technology

\* What is in the way of other advice: an open request, or an incident.
Standing(v, s) ==
  IF OpenRepairs(v, s) # {}
  THEN [domain |-> v.rows[CHOOSE i \in LastOf(v, OpenRepairs(v, s)) : TRUE].domain,
        action |-> "attach_to_existing_mr"]
  ELSE [domain |-> "unknown",
        action |-> IF HasIncident(v, s) THEN "attach_to_existing_incident"
                   ELSE "collect_more_evidence"]

\* The domain of the latest insight, where nothing else names one.
Proposed(v, s, domain) ==
  LET last == LastOf(v, Of(v, s, "dvsum_caddi_insights"))
      named == {v.rows[i].domain : i \in last} \intersect AllowedDomains
  IN IF domain = "unknown" /\ named # {} THEN CHOOSE d \in named : TRUE ELSE domain

Diagnosed(v, s, domain) ==
  LET alarms == ActiveAlarms(v, s)
      evidence == alarms \union Of(v, s, "nxt_telemetry")
      signals == {v.rows[i].signal : i \in evidence}
      Or(default) == IF domain # "unknown" THEN domain ELSE default
  IN IF "provisioning" \in signals
     THEN [domain |-> "provisioning", action |-> "validate_or_reprovision"]
     ELSE IF "wifi" \in signals
     THEN [domain |-> "wifi_or_home", action |-> "wifi_diagnostics"]
     ELSE IF Technology(v, s) = "HFC" /\ evidence # {}
     THEN [domain |-> Or("hfc_tap"), action |-> "expanded_rf_diagnostics"]
     ELSE IF Technology(v, s) = "GPON" /\ evidence # {}
     THEN [domain |-> Or("pon_odp"), action |-> "optical_diagnostics"]
     ELSE [domain |-> domain, action |-> "collect_more_evidence"]

Disputed(v, s, domain) ==
  LET named == {v.rows[i].domain : i \in Of(v, s, "dvsum_caddi_insights")} \ {""}
  IN named # {} /\ domain # "unknown" /\ domain \notin named

HasIssueOfRecord(v, s) ==       \* mutant: what is quarantined does not count
  \E x \in v.issues : x.service = s /\ x.row \in v.accepted

HasIssue(v, s) == \E x \in v.issues : x.service = s /\ x.severity \in {"ERROR", "WARNING"}

Advice(v, s) ==
  LET standing == Standing(v, s)
      domain == Proposed(v, s, standing.domain)
      said == IF standing.action = "collect_more_evidence" THEN Diagnosed(v, s, domain)
              ELSE [domain |-> domain, action |-> standing.action]
  IN [domain |-> said.domain, action |-> said.action,
      review |-> \/ HasIssue(v, s) \/ Disputed(v, s, said.domain)
                 \/ said.action # "collect_more_evidence"]

-----------------------------------------------------------------------------
(* The agent, and reconciliation *)

\* The services an agent sees: the payload is cut after MaxServices.
Asked(v) ==
  {s \in Services(v) : Cardinality({t \in Services(v) : t < s}) < MaxServices}

\* The offline stand-in repeats the advice and is wary of any issue; a provider
\* may agree, be wary, dissent, say nothing, cite what it was not given, or leave
\* the lists.
Styles == {"offline", "agrees", "wary", "dissents", "silent", "invents", "improvises"}
Said(style, advice) ==
  CASE style = "dissents" -> [domain |-> advice.domain, action |-> "manual_review"]
    [] style = "improvises" -> [domain |-> "elsewhere", action |-> "reboot"]
    [] OTHER -> [domain |-> advice.domain, action |-> advice.action]
Answered(v, style) == IF style = "silent" THEN {} ELSE Asked(v)

\* _validate_agent_result: what is not on the lists is replaced and found.
Admitted(said) ==
  [domain |-> IF said.domain \in AllowedDomains THEN said.domain ELSE "unknown",
   action |-> IF said.action \in AllowedActions THEN said.action ELSE "manual_review"]
Wary(v, style) ==
  \/ style = "wary"
  \/ style = "offline" /\ (v.issues # {} \/ \E s \in Asked(v) : Advice(v, s).review)
Finds(v, style) ==
  \E s \in Answered(v, style) :
    style = "invents" \/ Admitted(Said(style, Advice(v, s))) # Said(style, Advice(v, s))


\* The deterministic advice stands; the agent can only ask for a human.
Reconcile(v, style, s) ==
  LET advice == Advice(v, s)
      agrees == /\ s \in Answered(v, style)
                /\ Admitted(Said(style, advice)) = [domain |-> advice.domain,
                                                    action |-> advice.action]
  IN [domain |-> advice.domain, action |-> advice.action, agrees |-> agrees,
      review |-> advice.review \/ ~agrees \/ Finds(v, style) \/ Wary(v, style)]

-----------------------------------------------------------------------------
(* The projection of a scenario *)

Impaired(v, s) ==
  \/ ActiveAlarms(v, s) # {}
  \/ \E i \in Of(v, s, "nxt_telemetry") : v.rows[i].status = "impaired"
Repaired(v, s) ==
  \E i \in Of(v, s, "jtrack_events") :
    v.rows[i].status \in {"REPAIRED", "CLOSED"} \/ v.rows[i].acted

\* The end of the evidence, from which a watch is counted.
Horizon(v) ==
  LET times == {v.rows[i].at : i \in {j \in Eligible(v) : v.rows[j].at # NoTime}}
  IN IF AsOf # NoTime THEN AsOf
     ELSE IF times = {} THEN 0 ELSE CHOOSE t \in times : \A u \in times : u <= t
Age(v, s) ==
  LET installs == LastOf(v, Of(v, s, "install_cohort"))
  IN IF installs = {} THEN NoTime
     ELSE LET age == Horizon(v) - v.rows[CHOOSE i \in installs : TRUE].at
          IN IF age < 0 THEN 0 ELSE age

LifecycleState(v, s) ==
  IF HasIncident(v, s) \/ OpenRepairs(v, s) # {} THEN "PROMOTED_TO_INCIDENT"
  ELSE IF Repaired(v, s) THEN "RECOVERING"
  ELSE IF Mode # "install_watch" \/ Age(v, s) = NoTime THEN "EVIDENCE_REPLAY"
  ELSE IF Age(v, s) >= 24 /\ ~Impaired(v, s) /\ ~HasIssue(v, s) THEN "PASSED_24H"
  ELSE "ACTIVE"

Projection(v) == [s \in Services(v) |-> LifecycleState(v, s)]
=============================================================================
