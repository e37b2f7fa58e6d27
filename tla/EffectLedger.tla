---------------------------- MODULE EffectLedger ----------------------------
(***************************************************************************)
(* What the MCP effect store promises, without its protocol: a ledger that *)
(* only grows, in which a key stands for one result for ever and the       *)
(* results of two keys never rest on one approval, and replies that quote  *)
(* it (docs/ARCHITECTURE.md:58).                                           *)
(***************************************************************************)
CONSTANT
  Replays(_, _)     \* Replays(reply, entry): the reply quotes the entry

VARIABLES
  ledger,           \* the set of entries [key, approval, by]
  replays           \* the replies that claim to quote the ledger

Init == ledger = {} /\ replays = {}

Record ==
  /\ \E e \in ledger' :
       /\ ledger' = ledger \union {e}
       /\ \A f \in ledger : f.key # e.key /\ f.approval # e.approval
  /\ UNCHANGED replays

Replay ==
  /\ \E r \in replays' : /\ replays' = replays \union {r}
                         /\ \E e \in ledger : Replays(r, e)
  /\ UNCHANGED ledger

Next == Record \/ Replay

Spec == Init /\ [][Next]_<<ledger, replays>>
=============================================================================
