-------------------------- MODULE EffectStoreProofs --------------------------
(***************************************************************************)
(* The effect store keeps its tables consistent and implements the ledger, *)
(* for any set of calls and requests.  The inductive invariant adds to the *)
(* checked ones what a call has established on its way: a call that has    *)
(* passed the token check holds a warrant for its key, and a call without  *)
(* an answer has not been answered.                                        *)
(***************************************************************************)
EXTENDS EffectStoreProperties, TLAPS

Warrant(r) ==
  r.fits /\ r.token.granted /\ r.token.scope = r.scope /\ r.token.key = r.key

Underway(c) ==
  /\ pc[c] = "missed" => ask[c].fits
  /\ pc[c] = "verified" => Warrant(ask[c])
  /\ pc[c] \in {"received", "missed", "verified", "lost"} => reply[c] = NoReply

IInv ==
  /\ TypeOK
  /\ TablesAgree
  /\ RecordsAreAuthorised
  /\ \A c \in Calls : Underway(c)

-----------------------------------------------------------------------------
(* INSERT OR IGNORE keeps every row and adds the key. *)
LEMMA ExtendKeeps ==
  ASSUME NEW f, NEW k, NEW v
  PROVE  /\ DOMAIN Extend(f, k, v) = DOMAIN f \union {k}
         /\ \A x \in DOMAIN f : Extend(f, k, v)[x] = f[x]
         /\ k \notin DOMAIN f => Extend(f, k, v)[k] = v
BY DEF Extend

(* INSERT OR IGNORE keeps the type of a table. *)
LEMMA ExtendTyped ==
  ASSUME NEW S, NEW f, f \in [DOMAIN f -> S], NEW k, NEW v \in S
  PROVE  Extend(f, k, v) \in [DOMAIN Extend(f, k, v) -> S]
BY DEF Extend

(* What a request carries belongs to the sets of keys and approvals. *)
LEMMA RequestTypes ==
  ASSUME TypeOK, NEW c \in Calls
  PROVE  /\ ask[c] \in Requests /\ ask[c].key \in Keys
         /\ ask[c].token.approval \in Approvals
BY DEF TypeOK, Keys, Tokens, Approvals

(* Init establishes the invariant. *)
LEMMA InitIInv == Init => IInv
BY DEF Init, IInv, TypeOK, TablesAgree, RecordsAreAuthorised, Underway,
       NoReply, PCs

(* A refusal leaves the tables alone. *)
LEMMA RefuseKeeps ==
  ASSUME IInv, NEW c \in Calls, Refuse(c), UNCHANGED <<expired, ask>>
  PROVE  IInv'
<1>1. TypeOK'
  BY DEF IInv, TypeOK, Refuse, Goto, Answer, PCs
<1>2. TablesAgree' /\ RecordsAreAuthorised'
  BY DEF IInv, TablesAgree, RecordsAreAuthorised, Refuse
<1>3. ASSUME NEW d \in Calls PROVE Underway(d)'
  BY DEF IInv, TypeOK, Underway, Refuse, Goto, Answer, NoReply, Warrant
<1> QED BY <1>1, <1>2, <1>3 DEF IInv

(* Looking a key up preserves the invariant. *)
LEMMA LookUpKeeps ==
  ASSUME IInv, NEW c \in Calls, LookUp(c)
  PROVE  IInv'
<1>1. CASE ~ask[c].fits /\ Refuse(c)
  BY <1>1, RefuseKeeps DEF LookUp
<1>2. CASE /\ ask[c].fits /\ ask[c].key \in DOMAIN effects
           /\ Goto(c, "done")
           /\ Answer(c, "replayed", effects[ask[c].key].by)
           /\ UNCHANGED <<effects, consumed, performed>>
  <2>1. effects[ask[c].key].by \in Calls
    BY <1>2 DEF IInv, TypeOK
  <2>2. TypeOK'
    BY <1>2, <2>1 DEF IInv, TypeOK, LookUp, Goto, Answer, PCs
  <2>3. TablesAgree' /\ RecordsAreAuthorised'
    BY <1>2 DEF IInv, TablesAgree, RecordsAreAuthorised, LookUp
  <2>4. ASSUME NEW d \in Calls PROVE Underway(d)'
    BY <1>2 DEF IInv, TypeOK, Underway, LookUp, Goto, Answer, NoReply, Warrant
  <2> QED BY <2>2, <2>3, <2>4 DEF IInv
<1>3. CASE /\ ask[c].fits /\ ask[c].key \notin DOMAIN effects
           /\ Goto(c, "missed")
           /\ UNCHANGED <<effects, consumed, performed, reply>>
  <2>1. TypeOK'
    BY <1>3 DEF IInv, TypeOK, LookUp, Goto, PCs
  <2>2. TablesAgree' /\ RecordsAreAuthorised'
    BY <1>3 DEF IInv, TablesAgree, RecordsAreAuthorised, LookUp
  <2>3. ASSUME NEW d \in Calls PROVE Underway(d)'
    BY <1>3 DEF IInv, TypeOK, Underway, LookUp, Goto, NoReply, Warrant
  <2> QED BY <2>1, <2>2, <2>3 DEF IInv
<1> QED BY <1>1, <1>2, <1>3 DEF LookUp

(* The token check gives the call its warrant. *)
LEMMA VerifyKeeps ==
  ASSUME IInv, NEW c \in Calls, Verify(c)
  PROVE  IInv'
<1>1. CASE Refuse(c)
  BY <1>1, RefuseKeeps DEF Verify
<1>2. CASE /\ Authorises(ask[c].token, ask[c]) /\ Goto(c, "verified")
           /\ UNCHANGED <<effects, consumed, performed, reply>>
  <2>1. TypeOK'
    BY <1>2 DEF IInv, TypeOK, Verify, Goto, PCs
  <2>2. TablesAgree' /\ RecordsAreAuthorised'
    BY <1>2 DEF IInv, TablesAgree, RecordsAreAuthorised, Verify
  <2>3. ASSUME NEW d \in Calls PROVE Underway(d)'
    BY <1>2 DEF IInv, TypeOK, Underway, Verify, Goto, NoReply, Warrant, Authorises
  <2> QED BY <2>1, <2>2, <2>3 DEF IInv
<1> QED BY <1>1, <1>2 DEF Verify

(* The two inserts keep the tables in agreement, whichever rows exist. *)
LEMMA CommitKeeps ==
  ASSUME IInv, NEW c \in Calls, Commit(c)
  PROVE  IInv'
<1> DEFINE r == ask[c]
           k == ask[c].key
           a == ask[c].token.approval
           v == [approval |-> a, by |-> c]
<1>0. /\ k \in Keys /\ a \in Approvals
      /\ Warrant(r) /\ c \in performed /\ UNCHANGED <<expired, ask>>
  BY RequestTypes DEF IInv, Commit, Underway
<1>1. CASE Refuse(c)
  BY <1>0, <1>1, RefuseKeeps
<1>2. CASE /\ ~Conflict(a, k)
           /\ effects' = Extend(effects, k, v)
           /\ consumed' = Extend(consumed, a, k)
           /\ Goto(c, "done") /\ Answer(c, "fresh", c)
           /\ UNCHANGED performed
  <2>0. /\ DOMAIN effects' = DOMAIN effects \union {k}
        /\ \A x \in DOMAIN effects : effects'[x] = effects[x]
        /\ k \notin DOMAIN effects => effects'[k] = v
        /\ DOMAIN consumed' = DOMAIN consumed \union {a}
        /\ \A x \in DOMAIN consumed : consumed'[x] = consumed[x]
        /\ a \notin DOMAIN consumed => consumed'[a] = k
    <3>1. effects' = Extend(effects, k, v) /\ consumed' = Extend(consumed, a, k)
      BY <1>2
    <3> HIDE DEF r, k, a, v
    <3>2. /\ DOMAIN Extend(effects, k, v) = DOMAIN effects \union {k}
          /\ \A x \in DOMAIN effects : Extend(effects, k, v)[x] = effects[x]
          /\ k \notin DOMAIN effects => Extend(effects, k, v)[k] = v
      BY ExtendKeeps
    <3>3. /\ DOMAIN Extend(consumed, a, k) = DOMAIN consumed \union {a}
          /\ \A x \in DOMAIN consumed : Extend(consumed, a, k)[x] = consumed[x]
          /\ a \notin DOMAIN consumed => Extend(consumed, a, k)[a] = k
      BY ExtendKeeps
    <3> QED BY <3>1, <3>2, <3>3
  <2>1. TypeOK'
    <3>1. v \in [approval : Approvals, by : Calls]
      BY <1>0
    <3>2. effects' \in [DOMAIN effects' -> [approval : Approvals, by : Calls]]
      BY <1>2, <3>1, ExtendTyped DEF IInv, TypeOK
    <3>3. consumed' \in [DOMAIN consumed' -> Keys]
      BY <1>0, <1>2, ExtendTyped DEF IInv, TypeOK
    <3>4. Keys' = Keys /\ Approvals' = Approvals /\ Tokens' = Tokens
      BY DEF Keys, Approvals, Tokens
    <3> QED
      BY <1>0, <1>2, <2>0, <3>2, <3>3, <3>4
      DEF IInv, TypeOK, Goto, Answer, PCs
  <2>2. a \in DOMAIN consumed => consumed[a] = k
    BY <1>2 DEF Conflict, SpentElsewhere
  <2>3. consumed'[a] = k
    BY <2>0, <2>2
  <2>4. TablesAgree'
    <3>1. ASSUME NEW x \in DOMAIN effects'
          PROVE  /\ effects'[x].approval \in DOMAIN consumed'
                 /\ consumed'[effects'[x].approval] = x
      <4>1. CASE x \in DOMAIN effects
        BY <4>1, <2>0 DEF IInv, TablesAgree
      <4>2. CASE x \notin DOMAIN effects
        BY <4>2, <2>0, <2>3
      <4> QED BY <4>1, <4>2
    <3>2. ASSUME NEW x \in DOMAIN consumed' PROVE consumed'[x] \in DOMAIN effects'
      <4>1. CASE x \in DOMAIN consumed
        BY <4>1, <2>0 DEF IInv, TablesAgree
      <4>2. CASE x = a
        BY <4>2, <2>0, <2>3
      <4> QED BY <4>1, <4>2, <2>0
    <3> QED BY <3>1, <3>2 DEF TablesAgree
  <2>5. RecordsAreAuthorised'
    <3> SUFFICES ASSUME NEW x \in DOMAIN effects'
                 PROVE  LET q == ask[effects'[x].by]
                        IN /\ effects'[x].by \in performed
                           /\ q.key = x /\ q.token.key = x
                           /\ q.token.scope = q.scope /\ q.token.granted /\ q.fits
      BY <1>0, <1>2 DEF RecordsAreAuthorised
    <3>1. CASE x \in DOMAIN effects
      BY <3>1, <2>0 DEF IInv, RecordsAreAuthorised
    <3>2. CASE x \notin DOMAIN effects
      <4>1. x = k /\ effects'[x] = v
        BY <3>2, <2>0
      <4> QED BY <4>1, <1>0 DEF Warrant
    <3> QED BY <3>1, <3>2
  <2>6. ASSUME NEW d \in Calls PROVE Underway(d)'
    BY <1>0, <1>2 DEF IInv, TypeOK, Underway, Goto, Answer, NoReply, Warrant
  <2> QED BY <2>1, <2>4, <2>5, <2>6 DEF IInv
<1> QED BY <1>1, <1>2 DEF Commit, InsertEffect, ConsumeApproval

(* Running the effect, losing a call and the passing of time touch no table. *)
LEMMA OthersKeep ==
  ASSUME IInv,
         \/ \E c \in Calls : Perform(c) \/ Lose(c)
         \/ \E t \in Tokens : Expire(t)
         \/ UNCHANGED vars
  PROVE  IInv'
<1>1. TypeOK'
  BY DEF IInv, TypeOK, Perform, Lose, Expire, Goto, PCs, vars
<1>2. TablesAgree' /\ RecordsAreAuthorised'
  BY DEF IInv, TablesAgree, RecordsAreAuthorised, Perform, Lose, Expire, vars
<1>3. ASSUME NEW d \in Calls PROVE Underway(d)'
  BY DEF IInv, TypeOK, Underway, Perform, Lose, Expire, Goto, NoReply, Warrant, vars
<1> QED BY <1>1, <1>2, <1>3 DEF IInv

(* Every step preserves the invariant. *)
LEMMA NextIInv == IInv /\ [Next]_vars => IInv'
<1> SUFFICES ASSUME IInv, [Next]_vars PROVE IInv'
  OBVIOUS
<1>1. ASSUME NEW c \in Calls, LookUp(c) PROVE IInv'
  BY <1>1, LookUpKeeps
<1>2. ASSUME NEW c \in Calls, Verify(c) PROVE IInv'
  BY <1>2, VerifyKeeps
<1>3. ASSUME NEW c \in Calls, Commit(c) PROVE IInv'
  BY <1>3, CommitKeeps
<1> QED BY <1>1, <1>2, <1>3, OthersKeep DEF Next, Step

(* The inductive invariant: types, agreement of the tables, authority of every
   row, and what the calls underway have established. *)
THEOREM Inductive == Spec => []IInv
BY InitIInv, NextIInv, PTL DEF Spec

(* Two recorded effects never rest on one approval (tools.py _approved_effect,
   store.py commit_effect). *)
THEOREM Consistent == Spec => []OneApprovalOneEffect
<1>1. IInv => OneApprovalOneEffect
  BY DEF IInv, TablesAgree, OneApprovalOneEffect
<1> QED BY <1>1, Inductive, PTL

(* The table of effects and the table of consumed approvals tell one story
   (store.py commit_effect). *)
THEOREM Agreeing == Spec => []TablesAgree
<1>1. IInv => TablesAgree
  BY DEF IInv
<1> QED BY <1>1, Inductive, PTL

(* What is recorded was performed under a granted token for its key and scope
   (security.py verify_approval_for). *)
THEOREM Founded == Spec => []RecordsAreAuthorised
<1>1. IInv => RecordsAreAuthorised
  BY DEF IInv
<1> QED BY <1>1, Inductive, PTL

-----------------------------------------------------------------------------
(* Steps that leave the table alone and give no replay are invisible. *)
LEMMA SilentSteps ==
  ASSUME UNCHANGED effects, UNCHANGED ask,
         \A d \in Calls : reply'[d] # reply[d] =>
            reply[d].kind # "replayed" /\ reply'[d].kind # "replayed"
  PROVE  UNCHANGED <<Entries, Replayed>>
<1>1. Entries' = Entries
  BY DEF Entries
<1>2. {d \in Calls : reply'[d].kind = "replayed"}
        = {d \in Calls : reply[d].kind = "replayed"}
  OBVIOUS
<1>3. \A d \in Calls : reply[d].kind = "replayed" => reply'[d] = reply[d]
  OBVIOUS
<1>4. Replayed' = Replayed
  BY <1>2, <1>3 DEF Replayed
<1> QED BY <1>1, <1>4

(* A refusal is silent. *)
LEMMA RefuseIsSilent ==
  ASSUME IInv, NEW c \in Calls, Refuse(c), UNCHANGED ask,
         pc[c] \in {"received", "missed", "verified"}
  PROVE  UNCHANGED <<Entries, Replayed>>
<1>1. reply[c].kind = "none"
  BY DEF IInv, Underway, NoReply
<1>2. \A d \in Calls : reply'[d] # reply[d] =>
         reply[d].kind # "replayed" /\ reply'[d].kind # "replayed"
  BY <1>1 DEF IInv, TypeOK, Refuse, Answer
<1> QED BY <1>2, SilentSteps DEF Refuse

(* Answering from the table is a Replay of the ledger. *)
LEMMA LookUpRefines ==
  ASSUME IInv, NEW c \in Calls, LookUp(c)
  PROVE  Ledger!Next \/ UNCHANGED <<Entries, Replayed>>
<1>0. pc[c] = "received" /\ ask' = ask /\ reply[c].kind = "none"
  BY DEF IInv, LookUp, Underway, NoReply
<1>1. CASE ~ask[c].fits /\ Refuse(c)
  BY <1>0, <1>1, RefuseIsSilent
<1>2. CASE /\ ask[c].key \in DOMAIN effects
           /\ Answer(c, "replayed", effects[ask[c].key].by)
           /\ UNCHANGED <<effects, consumed, performed>>
  <2> DEFINE k == ask[c].key
             new == [key |-> k, by |-> effects[k].by, to |-> c]
             e == [key |-> k, approval |-> effects[k].approval, by |-> effects[k].by]
  <2>1. Entries' = Entries
    BY <1>2 DEF Entries
  <2>2. reply' = [reply EXCEPT ![c] = [kind |-> "replayed", by |-> effects[k].by]]
    BY <1>2 DEF Answer
  <2>3. DOMAIN reply = Calls
    BY DEF IInv, TypeOK
  <2>4. {d \in Calls : reply'[d].kind = "replayed"}
          = {d \in Calls : reply[d].kind = "replayed"} \union {c}
    BY <2>2, <2>3
  <2>5. \A d \in {x \in Calls : reply[x].kind = "replayed"} : reply'[d] = reply[d]
    BY <1>0, <2>2, <2>3
  <2>6. reply'[c].by = effects[k].by
    BY <2>2, <2>3
  <2>7. Replayed' = Replayed \union {new}
    BY <1>0, <2>4, <2>5, <2>6 DEF Replayed
  <2>8. e \in Entries /\ Quotes(new, e)
    BY <1>2 DEF Entries, Quotes
  <2>9. Ledger!Replay
    <3>1. new \in Replayed'
      BY <2>7
    <3> QED BY <2>1, <2>7, <2>8, <3>1 DEF Ledger!Replay
  <2> QED BY <2>9 DEF Ledger!Next
<1>3. CASE UNCHANGED <<effects, consumed, performed, reply>>
  BY <1>0, <1>3, SilentSteps
<1> QED BY <1>1, <1>2, <1>3 DEF LookUp

(* A commit records a new key under an unspent approval, or nothing. *)
LEMMA CommitRefines ==
  ASSUME IInv, NEW c \in Calls, Commit(c)
  PROVE  Ledger!Next \/ UNCHANGED <<Entries, Replayed>>
<1> DEFINE k == ask[c].key
           a == ask[c].token.approval
           v == [approval |-> a, by |-> c]
           e == [key |-> k, approval |-> a, by |-> c]
<1>0. pc[c] = "verified" /\ ask' = ask /\ reply[c].kind = "none"
  BY DEF IInv, Commit, Underway, NoReply
<1>1. CASE Refuse(c)
  BY <1>0, <1>1, RefuseIsSilent
<1>2. CASE /\ ~Conflict(a, k)
           /\ effects' = Extend(effects, k, v)
           /\ Answer(c, "fresh", c)
  <2>1. \A d \in Calls : reply'[d] # reply[d] =>
           reply[d].kind # "replayed" /\ reply'[d].kind # "replayed"
    BY <1>0, <1>2 DEF IInv, TypeOK, Answer
  <2>2. CASE k \in DOMAIN effects
    BY <1>0, <1>2, <2>1, <2>2, SilentSteps DEF Extend
  <2>3. CASE k \notin DOMAIN effects
    <3>1. /\ DOMAIN effects' = DOMAIN effects \union {k}
          /\ \A x \in DOMAIN effects : effects'[x] = effects[x]
          /\ effects'[k] = v
      <4>1. effects' = Extend(effects, k, v)
        BY <1>2
      <4> HIDE DEF k, v
      <4>2. /\ DOMAIN Extend(effects, k, v) = DOMAIN effects \union {k}
            /\ \A x \in DOMAIN effects : Extend(effects, k, v)[x] = effects[x]
            /\ k \notin DOMAIN effects => Extend(effects, k, v)[k] = v
        BY ExtendKeeps
      <4> QED BY <2>3, <4>1, <4>2
    <3>2. Entries' = Entries \union {e}
      BY <3>1 DEF Entries
    <3>3. {d \in Calls : reply'[d].kind = "replayed"}
            = {d \in Calls : reply[d].kind = "replayed"}
      BY <2>1
    <3>4. \A d \in Calls : reply[d].kind = "replayed" => reply'[d] = reply[d]
      BY <2>1
    <3>5. Replayed' = Replayed
      BY <1>0, <3>3, <3>4 DEF Replayed
    <3>6. ASSUME NEW f \in Entries PROVE f.key # e.key /\ f.approval # e.approval
      <4>1. PICK x \in DOMAIN effects :
              f = [key |-> x, approval |-> effects[x].approval, by |-> effects[x].by]
        BY <3>6 DEF Entries
      <4>2. /\ effects[x].approval \in DOMAIN consumed
            /\ consumed[effects[x].approval] = x
        BY DEF IInv, TablesAgree
      <4>3. effects[x].approval # a
        BY <1>2, <2>3, <4>2 DEF Conflict, SpentElsewhere
      <4> QED BY <2>3, <4>1, <4>3
    <3>7. e \in Entries'
      BY <3>2
    <3>8. Ledger!Record
      BY <3>2, <3>5, <3>6, <3>7 DEF Ledger!Record
    <3> QED BY <3>8 DEF Ledger!Next
  <2> QED BY <2>2, <2>3
<1> QED BY <1>1, <1>2 DEF Commit, InsertEffect

(* The effect store implements the ledger: keys are written once, an approval
   backs one key, replays quote the row (tools.py:141-186, store.py:65-105). *)
THEOREM Refines == Spec => ImplementsLedger
<1>1. Init => Ledger!Init
  BY DEF Init, Ledger!Init, Entries, Replayed, NoReply
<1>2. IInv /\ [Next]_vars => [Ledger!Next]_<<Entries, Replayed>>
  <2> SUFFICES ASSUME IInv, [Next]_vars
               PROVE  Ledger!Next \/ UNCHANGED <<Entries, Replayed>>
    OBVIOUS
  <2>1. ASSUME NEW c \in Calls, LookUp(c)
        PROVE  Ledger!Next \/ UNCHANGED <<Entries, Replayed>>
    BY <2>1, LookUpRefines
  <2>2. ASSUME NEW c \in Calls, Commit(c)
        PROVE  Ledger!Next \/ UNCHANGED <<Entries, Replayed>>
    BY <2>2, CommitRefines
  <2>3. ASSUME NEW c \in Calls, Verify(c)
        PROVE  UNCHANGED <<Entries, Replayed>>
    <3>1. CASE Refuse(c)
      BY <2>3, <3>1, RefuseIsSilent DEF Verify
    <3>2. CASE UNCHANGED <<effects, consumed, performed, reply>>
      BY <2>3, <3>2, SilentSteps DEF Verify
    <3> QED BY <2>3, <3>1, <3>2 DEF Verify
  <2>4. ASSUME \/ \E c \in Calls : Perform(c) \/ Lose(c)
               \/ \E t \in Tokens : Expire(t)
               \/ UNCHANGED vars
        PROVE  UNCHANGED <<Entries, Replayed>>
    BY <2>4, SilentSteps DEF Perform, Lose, Expire, vars
  <2> QED BY <2>1, <2>2, <2>3, <2>4 DEF Next, Step
<1> QED BY <1>1, <1>2, Inductive, PTL DEF Spec, ImplementsLedger, Ledger!Spec
=============================================================================
