----------------------------- MODULE EffectStore -----------------------------
(***************************************************************************)
(* The boundary where an approved action takes effect:                     *)
(* ToolRegistry._approved_effect (mcp_server/tools.py) over the SQLite     *)
(* tables of EffectStore (mcp_server/store.py).  Every access to the store *)
(* is a transaction of its own; between them other calls run.  The         *)
(* workflow of IncidentWorkflow sees a whole call as one step; this module *)
(* opens that step.                                                        *)
(*                                                                         *)
(* A call is named by a member of Calls and makes one request; a retry is  *)
(* another call with the same request.                                     *)
(***************************************************************************)
CONSTANTS
  Calls,        \* tools/call requests the server receives
  Requests,     \* what a call may ask for: see RequestShape
  None          \* no key, no approval, no call

VARIABLES
  effects,      \* table effects: key -> the row
  consumed,     \* table consumed_approvals: approval -> key
  expired,      \* tokens whose exp has passed
  pc,           \* call -> where it stands between two transactions
  ask,          \* call -> its request
  performed,    \* calls whose effect() has run
  reply         \* call -> what the client was told

vars == <<effects, consumed, expired, pc, ask, performed, reply>>

\* The token's claims are those the workflow signs: an approval, the incident
\* and action it was given for (scope) and the idempotency key.  fits: the
\* action is one the tool executes.
TokenShape(t) == DOMAIN t = {"approval", "scope", "key", "granted"}
RequestShape(r) ==
  /\ DOMAIN r = {"fits", "scope", "key", "token"}
  /\ TokenShape(r.token)
  /\ r.fits \in BOOLEAN /\ r.token.granted \in BOOLEAN

ASSUME RequestsAssumption == \A r \in Requests : RequestShape(r)

Keys == {r.key : r \in Requests}
Tokens == {r.token : r \in Requests}
Approvals == {t.approval : t \in Tokens}

PCs == {"received", "missed", "verified", "done", "rejected", "lost"}
NoReply == [kind |-> "none", by |-> None]

Init ==
  /\ effects = << >> /\ consumed = << >>
  /\ expired = {}
  /\ pc = [c \in Calls |-> "received"]
  /\ ask \in [Calls -> Requests]
  /\ performed = {}
  /\ reply = [c \in Calls |-> NoReply]

Extend(f, k, v) ==              \* INSERT OR IGNORE
  IF k \in DOMAIN f THEN f
  ELSE [x \in DOMAIN f \union {k} |-> IF x = k THEN v ELSE f[x]]

Answer(c, kind, by) == reply' = [reply EXCEPT ![c] = [kind |-> kind, by |-> by]]
Goto(c, p) == pc' = [pc EXCEPT ![c] = p]

Refuse(c) ==                    \* ToolRejection
  /\ Goto(c, "rejected")
  /\ Answer(c, "rejected", None)
  /\ UNCHANGED <<effects, consumed, performed>>

-----------------------------------------------------------------------------
(* _approved_effect, from one transaction to the next *)

\* TOOL_ACTION_MISMATCH, then store.get: a known key is answered from the
\* table, with no look at the token.
LookUp(c) ==
  /\ pc[c] = "received"
  /\ LET key == ask[c].key
     IN \/ ~ask[c].fits /\ Refuse(c)
        \/ /\ ask[c].fits /\ key \in DOMAIN effects
           /\ Goto(c, "done")
           /\ Answer(c, "replayed", effects[key].by)
           /\ UNCHANGED <<effects, consumed, performed>>
        \/ /\ ask[c].fits /\ key \notin DOMAIN effects
           /\ Goto(c, "missed")
           /\ UNCHANGED <<effects, consumed, performed, reply>>
  /\ UNCHANGED <<expired, ask>>

\* security.verify_approval_for: not expired, granted, for this scope and key.
Authorises(t, r) ==
  /\ t \notin expired
  /\ t.granted
  /\ t.scope = r.scope /\ t.key = r.key

\* store.get_consumed_approval is free, or spent on this very key.
SpentElsewhere(a, key) == a \in DOMAIN consumed /\ consumed[a] # key

Verify(c) ==
  /\ pc[c] = "missed"
  /\ LET r == ask[c]
     IN IF Authorises(r.token, r) /\ ~SpentElsewhere(r.token.approval, r.key)
        THEN /\ Goto(c, "verified")
             /\ UNCHANGED <<effects, consumed, performed, reply>>
        ELSE Refuse(c)
  /\ UNCHANGED <<expired, ask>>

\* effect(arguments): the simulated action runs, before anything records it.
Perform(c) ==
  /\ pc[c] = "verified" /\ c \notin performed
  /\ performed' = performed \union {c}
  /\ UNCHANGED <<effects, consumed, expired, pc, ask, reply>>

\* The two inserts of store.commit_effect, and its own test of the approval
\* under BEGIN IMMEDIATE.
ReplaceEffect(k, a, c) ==       \* mutant: INSERT OR REPLACE
  [x \in DOMAIN effects \union {k} |->
     IF x = k THEN [approval |-> a, by |-> c] ELSE effects[x]]
InsertEffect(k, a, c) == Extend(effects, k, [approval |-> a, by |-> c])

ConsumeApproval(a, k) == Extend(consumed, a, k)

ConflictIgnored(a, k) == FALSE              \* mutant: no test at commit
Conflict(a, k) == SpentElsewhere(a, k)

\* The caller then answers with the result it computed, whichever row the table
\* kept.  On a conflict a ValueError leaves the tables alone and becomes an
\* error reply.
Commit(c) ==
  /\ pc[c] = "verified" /\ c \in performed
  /\ LET r == ask[c] a == r.token.approval
     IN IF Conflict(a, r.key) THEN Refuse(c)
        ELSE /\ effects' = InsertEffect(r.key, a, c)
             /\ consumed' = ConsumeApproval(a, r.key)
             /\ Goto(c, "done") /\ Answer(c, "fresh", c)
             /\ UNCHANGED performed
  /\ UNCHANGED <<expired, ask>>

-----------------------------------------------------------------------------
(* The surroundings *)

\* The exp of a token passes (security.verify_approval_token compares it with
\* the clock of each call).
Expire(t) ==
  /\ t \notin expired
  /\ expired' = expired \union {t}
  /\ UNCHANGED <<effects, consumed, pc, ask, performed, reply>>

\* The server dies inside the call: nothing of it survives but the tables.
Lose(c) ==
  /\ pc[c] \in {"received", "missed", "verified"}
  /\ Goto(c, "lost")
  /\ UNCHANGED <<effects, consumed, expired, ask, performed, reply>>

Step(c) == LookUp(c) \/ Verify(c) \/ Perform(c) \/ Commit(c)

Next ==
  \/ \E c \in Calls : Step(c) \/ Lose(c)
  \/ \E t \in Tokens : Expire(t)

Spec == Init /\ [][Next]_vars
=============================================================================
