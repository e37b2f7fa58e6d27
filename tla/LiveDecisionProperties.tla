----------------------- MODULE LiveDecisionProperties ------------------------
(* What must be true of live decisions (LiveDecisions). *)
EXTENDS LiveDecisions, ExecutiveProjection

CONSTANT Places     \* where the planning model may put a service

\* A planning route in whole minutes, to a service of either family of plant.
ASSUME PlacesAssumption ==
  Places \subseteq [minutes : Nat, road : Nat, ferry : BOOLEAN, island : BOOLEAN,
                    family : {"HFC", "PON"}]

PCs == {"idle", "deciding", "opening", "reading", "writing", "hashing", "recording",
        "filling", "verifying"} \union Ends
States == {"WAITING_HUMAN", "ACTION_SIMULATED", "NEEDS_EVIDENCE", "ESCALATED",
           "CLOSED_SIMULATED"}
Responses == {"none", "approve", "reject", "request_evidence", "escalate"}

\* Every variable of the control flow has its type.
TypeOK ==
  /\ store \in [LiveCases -> [revision : 1..3, state : States, response : Responses]]
  /\ accepted \in [LiveCases -> 0..1]
  /\ catalog.torn \in BOOLEAN
  /\ pc \in [Workers -> PCs]
  /\ request \in [Workers -> Requests]
  /\ decided \in [Workers -> Clocks \union {NoTime}]

\* However requests for one case race, the store accepts at most one decision,
\* and the state of the case is the one that decision asked for.
OneDecisionPerCase ==
  \A c \in LiveCases :
    /\ accepted[c] <= 1
    /\ accepted[c] = 0 <=> store[c].state = "WAITING_HUMAN"
    /\ accepted[c] = 1 =>
         \/ store[c].state = StateAfter(store[c].response)
         \/ store[c].state = "CLOSED_SIMULATED" /\ store[c].response = "approve"

\* No work order, maintenance request, validation or resolution of a live case
\* is on disk unless the case was approved, whatever requests overlap and
\* wherever the process dies (WORKFLOW.md:12).
NoWorkWithoutApproval ==
  \A c \in LiveCases :
    ~Unworked(files, c) => store[c].response = "approve"

\* What a client was told stays true: the decision it posted is on record as it
\* was taken, and an approved restoring action is resolved and closed, through
\* every later decision, refusal by the gate and crash.
DecisionIsMirrored ==
  \A w \in Workers :
    LET q == request[w]
    IN pc[w] = "done" =>
         /\ files.human_decisions[q.case] = Ruling(files, q, decided[w])
         /\ q.response = "approve" /\ Restores(ScenarioOf(files, q.case)) =>
              store[q.case].state = "CLOSED_SIMULATED" /\ Restoration(files, q.case)

\* No request is in flight, and none died on the way.
Undisturbed == \A w \in Workers : ~InFlight(w) /\ pc[w] # "lost"

\* The files on disk pass the gate that every request ran on the rows it had in
\* memory, also after a request the gate has refused; the catalog is whole and
\* describes them; and they are costed, with totals that hold, as a published
\* run is.
RestIsProjectable ==
  Undisturbed =>
    /\ Gate(files)
    /\ ~catalog.torn
    /\ Accounts(catalog.recorded, files, Places)

-----------------------------------------------------------------------------
(* Requests that do not overlap keep the promises of CaseBoard, crashes       *)
(* included: the exported record never contradicts or precedes the case.      *)

Board == INSTANCE CaseBoard WITH
  board <- [c \in LiveCases |-> store[c].state],
  exported <- [c \in LiveCases |-> files.human_decisions[c].status]

\* A decision is exported at most once, as it was taken, before the case closes.
ImplementsBoard == Board!Spec
=============================================================================
