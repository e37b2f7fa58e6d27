----------------------------- MODULE AgentGuards -----------------------------
(***************************************************************************)
(* The decisions an agent may take and the policy around them (agents/):   *)
(* what a reply of the provider becomes, with the rules as the fall-back,  *)
(* and what the guard makes of a planned action.                           *)
(*                                                                         *)
(* A base is a record of the skills and the parts it has, or not one of    *)
(* the list.  A confidence is in hundredths.  What a rule says of itself   *)
(* is left out.                                                            *)
(***************************************************************************)
EXTENDS Integers, FiniteSets, Sequences, FiniteSetsExt

CONSTANTS
  MaxRetries,         \* LLM_MAX_RETRIES
  HighBlastRadius,    \* HIGH_BLAST_RADIUS
  BehindDelimiter,    \* households behind the tap or the ODP of the site
  BehindPlant,        \* households behind a node or an OLT port
  NoBase, UnknownBase

ASSUME GuardAssumption ==
  /\ MaxRetries \in Nat
  /\ {HighBlastRadius, BehindDelimiter, BehindPlant} \subseteq Nat

-----------------------------------------------------------------------------
(* The provider and the agents *)

\* One call of the provider: the request is rejected (4xx), it fails (5xx, no
\* connection, an answer that is not JSON), it carries no text, or it answers.
Calls == {"rejected", "failed", "empty", "answered"}

Tries == MaxRetries + 1

\* The call that ends the loop: the first that is rejected or that answers.
EndsAt(calls) ==
  LET last == {i \in 1..Tries : calls[i] \in {"rejected", "answered"}}
  IN IF last = {} THEN Tries ELSE Min(last)

Completes(calls) == calls[EndsAt(calls)] = "answered"

TriageAnswers == {"act_now", "schedule", "monitor", "suppress"}

\* What an agent decides: the answer when there is one that survives parsing,
\* the rules otherwise.  A reply is what the provider said and how it went.
Decide(reply, allowed, baseline) ==
  IF Completes(reply.calls) /\ reply.parses /\ reply.choice \in allowed
  THEN [choice |-> reply.choice, fallback |-> FALSE]
  ELSE [choice |-> baseline, fallback |-> TRUE]

Agrees(decision, baseline) == decision.choice = baseline

-----------------------------------------------------------------------------
(* The guard *)

KnownDomains ==
  {"cpe", "wifi_or_home", "premise_wiring", "provisioning", "drop", "hfc_tap",
   "pon_odp", "plant", "shared_network", "unknown"}
KnownActions ==
  {"remote_reprovision", "remote_reboot", "self_help", "clean_boots", "dirty_boots_mr",
   "joint_dispatch", "plant_action", "manual_review", "monitor"}
RemoteActions == {"remote_reboot", "remote_reprovision", "self_help"}
FieldActions == {"clean_boots", "dirty_boots_mr", "joint_dispatch", "plant_action"}
PhysicalDomains == {"drop", "hfc_tap", "pon_odp", "plant", "shared_network"}
PlantDomains == {"hfc_tap", "pon_odp", "plant", "shared_network"}
MaxRemote == 2
MaxField == 3

ImpliedSkills(domain) ==
  CASE domain = "pon_odp" -> {"fibre_splice"}
    [] domain \in {"hfc_tap", "plant", "shared_network"} -> {"hfc_plant"}
    [] OTHER -> {}

ImpliedParts(domain) ==
  CASE domain = "pon_odp" -> {"splice_kit"}
    [] domain = "hfc_tap" -> {"connectors"}
    [] domain \in {"drop", "cpe"} -> {domain}
    [] OTHER -> {}

\* Households that share the fault.  A tap at a PON site, or an ODP at an HFC
\* site, is not on the chain of the household and counts as one household.
BlastRadius(domain, technology) ==
  CASE domain = "hfc_tap" /\ technology = "HFC" -> BehindDelimiter
    [] domain = "pon_odp" /\ technology = "PON" -> BehindDelimiter
    [] domain \in {"plant", "shared_network"} -> BehindPlant
    [] OTHER -> 1

Malformed(r) ==
  r.domain \notin KnownDomains \/ r.action \notin KnownActions
    \/ r.remoteAttempts < 0 \/ r.fieldVisits < 0

IllEquipped(r) ==
  /\ r.action \in FieldActions
  /\ r.base # NoBase
  /\ \/ r.base = UnknownBase
     \/ ~(r.skills \cup ImpliedSkills(r.domain) \subseteq r.base.skills)
     \/ ~(r.parts \cup ImpliedParts(r.domain) \subseteq r.base.parts)

Spent(r) ==
  \/ r.action \in RemoteActions /\ r.remoteAttempts >= Min({r.maxRemote, MaxRemote})
  \/ r.action \in FieldActions /\ r.fieldVisits >= Min({r.maxField, MaxField})

Stopped(r) ==
  \/ Malformed(r)
  \/ r.action \in RemoteActions /\ r.domain \in PhysicalDomains
  \/ r.action = "clean_boots" /\ r.domain \in PlantDomains
  \/ Spent(r)
  \/ IllEquipped(r)
  \/ r.evidence = 0

\* The kind of approval: the last rule that sets it outright wins.
ApprovalKind(r) ==
  CASE BlastRadius(r.domain, r.technology) >= HighBlastRadius -> "high_blast_radius"
    [] r.disagrees \/ r.confidence < r.threshold \/ r.fallback -> "rca_review"
    [] r.action \in FieldActions -> "dispatch"
    [] OTHER -> "none"

GuardVerdict(r) ==
  CASE Stopped(r) -> "blocked"
    [] ~Stopped(r) /\ ApprovalKind(r) # "none" -> "requires_approval"
    [] OTHER -> "allowed"
=============================================================================
