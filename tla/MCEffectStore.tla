---------------------------- MODULE MCEffectStore ----------------------------
(***************************************************************************)
(* Requests for TLC: two keys, two approvals, and tokens that fit, that    *)
(* were signed for the other key, that re-use an approval, or that record  *)
(* no approval.                                                            *)
(***************************************************************************)
EXTENDS EffectStoreProperties

Token(a, k) == [approval |-> a, scope |-> "reboot", key |-> k, granted |-> TRUE]
Ask(k, t) == [fits |-> TRUE, scope |-> "reboot", key |-> k, token |-> t]

\* One approval signed for two keys, and a second approval for the first key.
Contending == {Ask("k1", Token("a1", "k1")), Ask("k2", Token("a1", "k2")),
               Ask("k1", Token("a2", "k1"))}

\* What must be refused: a tool that does not execute the action, a token for
\* the other key or the other scope, a token of a refused approval.
Wrong == {[Ask("k1", Token("a1", "k1")) EXCEPT !.fits = FALSE],
          Ask("k2", Token("a2", "k1")),
          [Ask("k2", Token("a2", "k2")) EXCEPT !.scope = "dispatch"],
          [Ask("k2", Token("a2", "k2")) EXCEPT !.token.granted = FALSE]}

AllRequests == Contending \union Wrong
=============================================================================
