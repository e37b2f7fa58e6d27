-------------------------- MODULE IncidentWorkflow --------------------------
(***************************************************************************)
(* One incident driven by concurrent API requests (workflow/service.py,    *)
(* workflow/engine.py, persistence/repository.py, mcp_server/tools.py).    *)
(*                                                                         *)
(* Each request runs in a worker of FastAPI's thread pool.  It loads the   *)
(* incident row into memory, applies handlers to its own copy and writes   *)
(* the copy back with a blind save; nothing locks the row or compares a    *)
(* version.  Every repository transaction and every MCP call is a step of  *)
(* its own, so that requests interleave exactly there, and a request may   *)
(* be lost between any two of them (crash, uncaught exception).            *)
(*                                                                         *)
(* Incidents share no row: identifiers of approvals, action keys and       *)
(* effects are derived from the incident's identifier, so one incident is  *)
(* modelled and the others would only be independent copies of it.  They   *)
(* meet in the reports alone, which group the cases of a common cause.     *)
(***************************************************************************)
EXTENDS IncidentRules

CONSTANTS
  Workers,     \* request threads
  Tasks,       \* the run requests clients make
  Advice,      \* what the RCA assistant may conclude
  Verdicts,    \* the decisions reviewers take
  Choices,     \* the alternatives an overriding reviewer names
  MaxFaults    \* bound on lost requests

ASSUME InputAssumption ==
  /\ Tasks \subseteq {"run", "step"}
  /\ Advice \subseteq Opinions \ {"none"}
  /\ Verdicts \subseteq Decisions
  /\ Choices \subseteq Options
  /\ MaxFaults \in Nat

VARIABLES
  row,         \* incident_summary: the persisted incident
  approvals,   \* approval table: reference -> status
  recorded,    \* idempotency_record: action keys with a stored result
  effects,     \* MCP effect store: action keys that took effect
  wire,        \* MCP calls sent and not yet served
  rulings,     \* every ruling ever saved (history variable)
  pc,          \* worker -> the transaction its request does next
  mem,         \* worker -> the request's copy of the incident
  task,        \* worker -> the request
  faults       \* requests lost so far

stored == <<row, approvals, recorded>>
mcp    == <<effects, wire>>
vars   == <<stored, mcp, rulings, pc, mem, task, faults>>

ApprovalStatuses == {"pending", "approved", "rejected", "request_more", "consumed"}

PCs == {"idle", "loop", "prepare", "record", "await", "log", "save", "reply",
        "decided", "load", "resume"}

\* seen: the status get_approval returned; before: len(action_history) when the
\* decision loaded the incident.
TaskShape == [kind : {"none", "run", "step", "decide"}, ruling : Rulings,
              seen : ApprovalStatuses \union {"absent"}, before : Nat]

NoTask == [kind |-> "none", ruling |-> NoRuling, seen |-> "absent", before |-> 0]

Calls == [ref : Refs, action : Actions]

StatusOf(ref) == IF ref \in DOMAIN approvals THEN approvals[ref] ELSE "absent"

Put(f, x, v) == [y \in DOMAIN f \union {x} |-> IF y = x THEN v ELSE f[y]]

\* An idle worker holds no copy; this placeholder only keeps mem typed.
Blank == NewIncident(row.scenario)

\* start_scenario has saved the new incident and returned.
Init ==
  /\ \E sc \in Scenarios :
       /\ row = NewIncident(sc)
       /\ mem = [w \in Workers |-> NewIncident(sc)]
  /\ approvals = [ref \in {} |-> "pending"]
  /\ recorded = {} /\ effects = {} /\ wire = {} /\ rulings = {}
  /\ pc = [w \in Workers |-> "idle"]
  /\ task = [w \in Workers |-> NoTask]
  /\ faults = 0

Goto(w, label) == pc' = [pc EXCEPT ![w] = label]
Hold(w, s)     == mem' = [mem EXCEPT ![w] = s]

Return(w) ==
  /\ Goto(w, "idle")
  /\ Hold(w, Blank)
  /\ task' = [task EXCEPT ![w] = NoTask]

-----------------------------------------------------------------------------
(* Requests that run the case *)

RunIncident(w, kind) ==
  /\ pc[w] = "idle"
  /\ kind \in Tasks
  /\ Goto(w, "loop")
  /\ Hold(w, row)
  /\ task' = [task EXCEPT ![w].kind = kind]
  /\ UNCHANGED <<stored, mcp, rulings, faults>>

\* The caller's loop ends on a terminal or an undecided waiting case, and after
\* every step of a one-step request.
Paused(s) == Terminal(s) \/ (s.stage = "waiting_approval" /\ s.result = NoRuling)

Pause(w) ==
  /\ pc[w] = "loop"
  /\ Paused(mem[w])
  /\ Goto(w, "reply")
  /\ UNCHANGED <<stored, mcp, rulings, mem, task, faults>>

\* The escalation is returned to the caller without save_incident.
StepBudgetStop(w) ==
  /\ pc[w] = "loop"
  /\ ~Paused(mem[w])
  /\ mem[w].steps >= MaxSteps
  /\ Hold(w, EscalatedOnBudget(mem[w]))
  /\ Goto(w, "reply")
  /\ UNCHANGED <<stored, mcp, rulings, task, faults>>

Ready(w, stage) ==
  /\ pc[w] = "loop"
  /\ mem[w].stage = stage
  /\ ~Paused(mem[w])
  /\ mem[w].steps < MaxSteps

Counted(w) == [mem[w] EXCEPT !.steps = @ + 1]

AfterStep(w) == IF task[w].kind = "step" THEN "reply" ELSE "loop"

\* One handler that touches nothing but the incident, followed by its save.
RunOne(w, stage, s) ==
  /\ Ready(w, stage)
  /\ row' = s
  /\ Hold(w, s)
  /\ Goto(w, AfterStep(w))
  /\ UNCHANGED <<approvals, recorded, mcp, rulings, task, faults>>

Receive(w)   == RunOne(w, "new", Moved(Counted(w), "validate"))
Validate(w)  == RunOne(w, "validate", Validated(Counted(w)))
Correlate(w) == RunOne(w, "correlate", Correlated(Counted(w)))
AssembleEvidence(w) == RunOne(w, "evidence", Observed(Counted(w)))
DeterministicRca(w) == RunOne(w, "deterministic_rca", Moved(Counted(w), "llm_rca"))

\* The assistant may say anything; when it fails the deterministic proposal is
\* copied, which is the opinion "agree" (or "unsure" if that one was weak).
LlmRca(w) ==
  \E o \in Advice :
    RunOne(w, "llm_rca", [Moved(Counted(w), "fusion") EXCEPT !.opinion = o])

AcceptRca(w) ==
  /\ GateFor(mem[w].opinion) = "none"
  /\ RunOne(w, "fusion", [Moved(Counted(w), "action_ranking") EXCEPT !.gate = "none"])

RankActions(w) == RunOne(w, "action_ranking", Ranked(Counted(w)))

BlockWithoutEvidence(w) ==
  /\ mem[w].evidence = {}
  /\ RunOne(w, "policy", Escalated(Counted(w)))

ResumeApproval(w) == RunOne(w, "waiting_approval", Resumed(Counted(w)))

\* Verification measures the service: it may find it restored or not.
Verify(w) == \E passed \in BOOLEAN : RunOne(w, "verify", Verified(Counted(w), passed))

FailureReview(w) == RunOne(w, "failure_review", Reviewed(Counted(w)))
Reconcile(w)     == RunOne(w, "reconcile", Reconciled(Counted(w)))

-----------------------------------------------------------------------------
(* Asking for an approval: read the approval row, save it, save the incident *)

Asked(s) == RefFor(s, IF s.stage = "fusion" THEN "rca_review" ELSE s.selected)

AskRcaReview(w) ==
  /\ Ready(w, "fusion")
  /\ GateFor(mem[w].opinion) # "none"
  /\ Hold(w, [Counted(w) EXCEPT !.gate = GateFor(mem[w].opinion)])
  /\ Goto(w, "prepare")
  /\ UNCHANGED <<stored, mcp, rulings, task, faults>>

AskAction(w) ==
  /\ Ready(w, "policy")
  /\ mem[w].evidence # {}
  /\ Hold(w, Counted(w))
  /\ Goto(w, "prepare")
  /\ UNCHANGED <<stored, mcp, rulings, task, faults>>

LookUpApproval(w) ==
  /\ pc[w] = "prepare"
  /\ task' = [task EXCEPT ![w].seen = StatusOf(Asked(mem[w]))]
  /\ Goto(w, "record")
  /\ UNCHANGED <<stored, mcp, rulings, mem, faults>>

\* An approval that already exists is saved again as it was read.
SaveApproval(w) ==
  LET s == mem[w]
      status == IF task[w].seen = "absent" THEN "pending" ELSE task[w].seen
  IN  /\ pc[w] = "record"
      /\ approvals' = Put(approvals, Asked(s), status)
      /\ Hold(w, [s EXCEPT !.pending = Asked(s), !.result = NoRuling,
                           !.stage = "waiting_approval", !.status = "waiting"])
      /\ Goto(w, "save")
      /\ UNCHANGED <<row, recorded, mcp, rulings, task, faults>>

SaveIncident(w) ==
  /\ pc[w] = "save"
  /\ row' = mem[w]
  /\ Goto(w, AfterStep(w))
  /\ UNCHANGED <<approvals, recorded, mcp, rulings, mem, task, faults>>

-----------------------------------------------------------------------------
(* Execution: look up the key, call the MCP tool, store the result *)

Executable(s) ==
  s.selected # "none" /\ s.result.decision \in {"approve", "override"}

Execute(w) ==
  LET s == Counted(w)
      ref == s.result.ref
  IN  /\ Ready(w, "execute")
      /\ IF ~Executable(s)
           THEN /\ Hold(w, Escalated(s)) /\ Goto(w, "save") /\ UNCHANGED wire
           ELSE IF ref \in recorded
           THEN /\ Hold(w, Executed(s)) /\ Goto(w, "save") /\ UNCHANGED wire
           ELSE /\ Hold(w, s) /\ Goto(w, "await")
                /\ wire' = wire \union {[ref |-> ref, action |-> s.selected]}
      /\ UNCHANGED <<stored, effects, rulings, task, faults>>

CallOf(w) == [ref |-> mem[w].result.ref, action |-> mem[w].selected]

\* The simulator answers: the effect is (now or from earlier) in its store.
EffectReported(w) ==
  /\ pc[w] = "await"
  /\ CallOf(w) \notin wire
  /\ CallOf(w).ref \in effects
  /\ Goto(w, "log")
  /\ UNCHANGED <<stored, mcp, rulings, mem, task, faults>>

\* Mutants: the error is swallowed; the case goes back for another try; the
\* client has no timeout.
CallAssumed(w) ==
  /\ pc[w] = "await"
  /\ Hold(w, Executed(mem[w]))
  /\ Goto(w, "save")
  /\ UNCHANGED <<stored, mcp, rulings, task, faults>>

CallRetried(w) ==
  /\ pc[w] = "await"
  /\ Hold(w, Released(mem[w], "policy"))
  /\ Goto(w, "save")
  /\ UNCHANGED <<stored, mcp, rulings, task, faults>>

CallRefused(w) ==
  /\ pc[w] = "await"
  /\ CallOf(w) \notin wire
  /\ Hold(w, Escalated(mem[w]))
  /\ Goto(w, "save")
  /\ UNCHANGED <<stored, mcp, rulings, task, faults>>

\* Refusal, unreachable server or timeout: the client cannot tell which, and the
\* call may still be served afterwards.
CallFailed(w) ==
  /\ pc[w] = "await"
  /\ Hold(w, Escalated(mem[w]))
  /\ Goto(w, "save")
  /\ UNCHANGED <<stored, mcp, rulings, task, faults>>

RecordResult(w) ==
  /\ pc[w] = "log"
  /\ recorded' = recorded \union {mem[w].result.ref}
  /\ Hold(w, Executed(mem[w]))
  /\ Goto(w, "save")
  /\ UNCHANGED <<row, approvals, mcp, rulings, task, faults>>

\* The simulator handles one call at a time: replay before verification, then
\* the token's scope, then the atomic commit.  A call that never arrives, or
\* arrives after its token has expired, is one that is never served.
Serve(call) ==
  /\ call \in wire
  /\ wire' = wire \ {call}
  /\ effects' = IF call.action = call.ref.action THEN effects \union {call.ref}
                ELSE effects
  /\ UNCHANGED <<stored, rulings, pc, mem, task, faults>>

-----------------------------------------------------------------------------
(* Human decisions *)

\* Mutant: the status of the approval is not looked at.
DecideAnyApproval(w, ref, verdict, option) ==
  /\ pc[w] = "idle"
  /\ verdict \in Verdicts
  /\ (verdict # "override" \/ IsRcaReview(ref.action)) => option = "none"
  /\ task' = [task EXCEPT ![w].kind = "decide",
                ![w].ruling = [ref |-> ref, decision |-> verdict, option |-> option]]
  /\ Goto(w, "decided")
  /\ UNCHANGED <<stored, mcp, rulings, mem, faults>>

\* Only a pending approval is accepted.  Refused roles and missing reasons are
\* errors that change nothing and are left out.
DecideApproval(w, ref, verdict, option) ==
  /\ pc[w] = "idle"
  /\ StatusOf(ref) = "pending"
  /\ verdict \in Verdicts
  /\ (verdict # "override" \/ IsRcaReview(ref.action)) => option = "none"
  /\ task' = [task EXCEPT ![w].kind = "decide",
                ![w].ruling = [ref |-> ref, decision |-> verdict, option |-> option]]
  /\ Goto(w, "decided")
  /\ UNCHANGED <<stored, mcp, rulings, mem, faults>>

StatusAfter(verdict) ==
  CASE verdict \in {"approve", "override"} -> "approved"
    [] verdict = "reject"                  -> "rejected"
    [] OTHER                               -> "request_more"

\* Mutant: the first of two decisions is kept, yet both requests go on.
SaveFirstDecision(w) ==
  LET r == task[w].ruling
      kept == StatusOf(r.ref) = "pending"
  IN  /\ pc[w] = "decided"
      /\ approvals' = IF kept THEN Put(approvals, r.ref, StatusAfter(r.decision))
                      ELSE approvals
      /\ rulings' = IF kept THEN rulings \union {r} ELSE rulings
      /\ Goto(w, "load")
      /\ UNCHANGED <<row, recorded, mcp, mem, task, faults>>

SaveDecision(w) ==
  LET r == task[w].ruling
  IN  /\ pc[w] = "decided"
      /\ approvals' = Put(approvals, r.ref, StatusAfter(r.decision))
      /\ rulings' = rulings \union {r}
      /\ Goto(w, "load")
      /\ UNCHANGED <<row, recorded, mcp, mem, task, faults>>

\* The incident is compared with the approval only after the decision is saved.
LoadIncident(w) ==
  /\ pc[w] = "load"
  /\ IF row.pending # task[w].ruling.ref
       THEN Return(w)
       ELSE /\ Hold(w, [row EXCEPT !.result = task[w].ruling, !.status = "open"])
            /\ task' = [task EXCEPT ![w].before = Len(row.history)]
            /\ Goto(w, "resume")
  /\ UNCHANGED <<stored, mcp, rulings, faults>>

SaveResult(w) ==
  /\ pc[w] = "resume"
  /\ row' = mem[w]
  /\ Goto(w, "loop")
  /\ UNCHANGED <<approvals, recorded, mcp, rulings, mem, task, faults>>

Diverts(r) == r.decision = "override" /\ r.option \notin {"none", r.ref.action}

\* The decision is spent once its action is in the history, or another action
\* was chosen, or an RCA review was settled.
Spent(w) ==
  LET r == task[w].ruling
  IN  /\ task[w].kind = "decide"
      /\ IF IsRcaReview(r.ref.action)
           THEN r.decision \in {"approve", "override"}
           ELSE Len(mem[w].history) > task[w].before \/ Diverts(r)

Reply(w) ==
  /\ pc[w] = "reply"
  /\ approvals' = IF Spent(w) THEN Put(approvals, task[w].ruling.ref, "consumed")
                  ELSE approvals
  /\ Return(w)
  /\ UNCHANGED <<row, recorded, mcp, rulings, faults>>

\* The process dies or the request raises: what it held in memory is gone.
Lose(w) ==
  /\ pc[w] # "idle"
  /\ faults < MaxFaults
  /\ faults' = faults + 1
  /\ Return(w)
  /\ UNCHANGED <<stored, mcp, rulings>>

-----------------------------------------------------------------------------
Handle(w) ==
  \/ Receive(w) \/ Validate(w) \/ Correlate(w) \/ AssembleEvidence(w)
  \/ DeterministicRca(w) \/ LlmRca(w) \/ AcceptRca(w) \/ AskRcaReview(w)
  \/ RankActions(w) \/ BlockWithoutEvidence(w) \/ AskAction(w)
  \/ LookUpApproval(w) \/ SaveApproval(w) \/ SaveIncident(w)
  \/ ResumeApproval(w) \/ Execute(w) \/ EffectReported(w) \/ CallFailed(w)
  \/ RecordResult(w) \/ Verify(w) \/ FailureReview(w) \/ Reconcile(w)
  \/ Pause(w) \/ StepBudgetStop(w)
  \/ SaveDecision(w) \/ LoadIncident(w) \/ SaveResult(w) \/ Reply(w)

Review(w) ==
  \E ref \in DOMAIN approvals, v \in Decisions, o \in Choices \union {"none"} :
    DecideApproval(w, ref, v, o)

Simulator == \E call \in wire : Serve(call)

Next ==
  \/ \E w \in Workers :
       \/ \E kind \in Tasks : RunIncident(w, kind)
       \/ Review(w)
       \/ Handle(w)
       \/ Lose(w)
  \/ Simulator

Spec == Init /\ [][Next]_vars
=============================================================================
