--------------------------- MODULE EffectAuthority ---------------------------
(***************************************************************************)
(* What the incident workflow promises about simulated effects, without    *)
(* saying how: an action takes effect only after a human has ruled in      *)
(* favour of exactly that action, and a ruling or an effect, once on       *)
(* record, stays there.  README.md:205 states it as "an approval token for *)
(* one action can never authorize another action".                         *)
(***************************************************************************)
CONSTANT
  Grants(_, _)      \* Grants(ruling, ref): the ruling is in favour of ref

VARIABLES
  rulings,          \* the rulings on record
  effects           \* the references whose action has taken effect

Init == rulings = {} /\ effects = {}

Rule ==
  /\ \E r \in rulings' : rulings' = rulings \union {r}
  /\ UNCHANGED effects

TakeEffect ==
  /\ \E ref \in effects' :
       /\ effects' = effects \union {ref}
       /\ \E r \in rulings : Grants(r, ref)
  /\ UNCHANGED rulings

Next == Rule \/ TakeEffect

Spec == Init /\ [][Next]_<<rulings, effects>>
=============================================================================
