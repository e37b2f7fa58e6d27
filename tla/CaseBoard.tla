------------------------------ MODULE CaseBoard ------------------------------
(***************************************************************************)
(* What the operator of a digital-twin run is promised about a live case:  *)
(* it is decided at most once, the exported record then takes over that    *)
(* decision and never another, and the case is closed only after that.     *)
(***************************************************************************)
CONSTANT LiveCases

VARIABLES board, exported   \* the case's state, and the status on record

Records(state) ==
  CASE state \in {"ACTION_SIMULATED", "CLOSED_SIMULATED"} -> {"APPROVED"}
    [] state = "NEEDS_EVIDENCE" -> {"EVIDENCE_REQUESTED"}
    [] state = "ESCALATED" -> {"REJECTED", "ESCALATED"}
    [] OTHER -> {"PENDING"}

Init ==
  /\ board = [c \in LiveCases |-> "WAITING_HUMAN"]
  /\ exported = [c \in LiveCases |-> "PENDING"]

Decide(c) ==
  /\ board[c] = "WAITING_HUMAN"
  /\ \E state \in {"ACTION_SIMULATED", "NEEDS_EVIDENCE", "ESCALATED"} :
       board' = [board EXCEPT ![c] = state]
  /\ UNCHANGED exported

Export(c) ==
  /\ exported[c] = "PENDING" /\ board[c] # "WAITING_HUMAN"
  /\ \E status \in Records(board[c]) : exported' = [exported EXCEPT ![c] = status]
  /\ UNCHANGED board

Close(c) ==
  /\ board[c] = "ACTION_SIMULATED" /\ exported[c] = "APPROVED"
  /\ board' = [board EXCEPT ![c] = "CLOSED_SIMULATED"]
  /\ UNCHANGED exported

Next == \E c \in LiveCases : Decide(c) \/ Export(c) \/ Close(c)

Spec == Init /\ [][Next]_<<board, exported>>
=============================================================================
