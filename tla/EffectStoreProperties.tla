------------------------ MODULE EffectStoreProperties ------------------------
(***************************************************************************)
(* What must hold of the effect store under concurrent calls and crashes.  *)
(***************************************************************************)
EXTENDS EffectStore, FiniteSets

\* Types of the tables and of the calls.
TypeOK ==
  /\ DOMAIN effects \subseteq Keys
  /\ effects \in [DOMAIN effects -> [approval : Approvals, by : Calls]]
  /\ DOMAIN consumed \subseteq Approvals
  /\ consumed \in [DOMAIN consumed -> Keys]
  /\ expired \subseteq Tokens
  /\ pc \in [Calls -> PCs]
  /\ ask \in [Calls -> Requests]
  /\ performed \subseteq Calls
  /\ reply \in [Calls -> [kind : {"none", "fresh", "replayed", "rejected"},
                          by : Calls \union {None}]]

\* One approval pays for one key: two recorded effects never rest on the same
\* approval, although the test of the approval and the commit are separate
\* transactions (tools.py _approved_effect, store.py commit_effect).
OneApprovalOneEffect ==
  \A j, k \in DOMAIN effects : effects[j].approval = effects[k].approval => j = k

\* The two tables tell one story: a recorded effect has consumed its approval
\* for its own key, and what an approval is consumed for has been recorded.
TablesAgree ==
  /\ \A k \in DOMAIN effects :
       /\ effects[k].approval \in DOMAIN consumed
       /\ consumed[effects[k].approval] = k
  /\ \A a \in DOMAIN consumed : consumed[a] \in DOMAIN effects

\* Whatever is on record was authorised by a token for that key and scope that
\* its own call presented (security.verify_approval_for).
RecordsAreAuthorised ==
  \A k \in DOMAIN effects :
    LET r == ask[effects[k].by]
    IN /\ effects[k].by \in performed
       /\ r.key = k /\ r.token.key = k
       /\ r.token.scope = r.scope /\ r.token.granted /\ r.fits

\* The store implements the ledger: keys are written once, an approval backs
\* one key only, and a replay quotes the row of its key
\* (tools.py:141-145, store.py:73-105).
Entries == {[key |-> k, approval |-> effects[k].approval, by |-> effects[k].by] :
              k \in DOMAIN effects}
Replayed == {[key |-> ask[c].key, by |-> reply[c].by, to |-> c] :
               c \in {d \in Calls : reply[d].kind = "replayed"}}
Quotes(r, e) == r.key = e.key /\ r.by = e.by

Ledger == INSTANCE EffectLedger WITH
            ledger <- Entries, replays <- Replayed, Replays <- Quotes

ImplementsLedger == Ledger!Spec
=============================================================================
