------------------------- MODULE IncidentProperties -------------------------
(***************************************************************************)
(* What must hold of the incident workflow.  Properties of an incident are *)
(* asserted on every copy of it: the persisted row and what each request   *)
(* holds in memory, since any copy may become the row by the next save.    *)
(***************************************************************************)
EXTENDS IncidentReports

Copies == {row} \union {mem[w] : w \in Workers}

\* Types of every variable, including that a partial function of references
\* holds the approvals.
TypeOK ==
  /\ row \in Incidents
  /\ approvals \in [DOMAIN approvals -> ApprovalStatuses]
  /\ DOMAIN approvals \subseteq Refs
  /\ recorded \subseteq Refs /\ effects \subseteq Refs
  /\ wire \subseteq Calls
  /\ rulings \subseteq Rulings
  /\ pc \in [Workers -> PCs]
  /\ mem \in [Workers -> Incidents]
  /\ task \in [Workers -> TaskShape]
  /\ faults \in 0..MaxFaults

-----------------------------------------------------------------------------
(* Authority: effects against human decisions *)

Grants(r, ref) ==
  /\ r.ref = ref
  /\ r.decision \in {"approve", "override"}
  /\ ~Diverts(r)
  /\ ~IsRcaReview(ref.action)

Authority == INSTANCE EffectAuthority

\* The workflow implements the abstract authority: whatever requests interleave
\* or die, an effect is committed only under a ruling that chose that action
\* (service._decide_approval, engine._resume_approval, tools._approved_effect).
EffectsAreAuthorised == Authority!Spec

\* A rejection is final: no effect is committed afterwards for the approval it
\* rejected (engine._resume_approval; WORKFLOW.md:30 "T -- Reject --> X[Escalate]").
RejectionIsFinal ==
  [][\A ref \in effects' \ effects, r \in rulings :
       r.ref = ref => r.decision # "reject"]_vars

\* Past fusion, an RCA on which the assistant disagreed or was unsure stands on
\* a human ruling given for this very diagnostic cycle; an approval from an
\* earlier cycle does not count (engine._fusion, README safety property 2).
GateNeedsHuman ==
  \A s \in Copies :
    /\ s.opinion \in {"disagree", "unsure"}
    /\ \/ s.stage \in {"action_ranking", "policy", "execute", "verify",
                       "failure_review", "reconcile", "closed"}
       \/ s.stage = "waiting_approval" /\ ~IsRcaReview(s.pending.action)
    => \E r \in rulings : /\ r.ref = RefFor(s, "rca_review")
                          /\ r.decision \in {"approve", "override"}

-----------------------------------------------------------------------------
(* The case record: attempts, evidence, closure *)

CountOf(s, A) == Cardinality({k \in 1..Len(s.history) : s.history[k].action \in A})

\* The attempt ceilings bound what really took effect in the MCP store, across
\* crashes, replays, late calls and overrides, although they are only tested
\* after a failed verification (engine._failure_review, README property 7).
EffectsWithinBudget ==
  LET Of(A) == Cardinality({ref \in effects : ref.action \in A})
  IN  /\ Of(RemoteActions) <= MaxRemote
      /\ Of(FieldActions) <= MaxField
      /\ Of({"dirty_boots_mr"}) <= MaxMr

\* No blind repeat: a failed action has left its evidence, and each action was
\* chosen in a diagnostic cycle of its own (engine._failure_review,
\* _assemble_evidence; WORKFLOW.md rule 9).
NoBlindRepeat ==
  \A s \in Copies :
    /\ Len(s.history) <= s.cycles
    /\ s.stage \in {"action_ranking", "policy", "waiting_approval", "execute"}
         => /\ Len(s.history) < s.cycles
            /\ Len(s.history) > 0 => <<"failed_action", Len(s.history)>> \in s.evidence

\* An incident closes only on a passed verification of an action that the effect
\* store confirms, and everything its history claims did take effect
\* (engine._verify, _reconcile; WORKFLOW.md rule 10).
ClosureIsProven ==
  /\ \A s \in Copies : \A k \in 1..Len(s.history) : s.history[k] \in effects
  /\ row.stage = "closed" => row.verified /\ row.history # <<>>

-----------------------------------------------------------------------------
(* Recovery: what holds between any two transactions of a single request *)

\* A committed effect is never forgotten: it is in the history, or the case is
\* with a human, or running the case again finds it under the same key
\* (engine._execute, tools._approved_effect).
EffectsAreAccountedFor ==
  \A ref \in effects :
    \/ \E k \in 1..Len(row.history) : row.history[k] = ref
    \/ row.stage = "escalated"
    \/ row.stage = "execute" /\ row.result.ref = ref

\* A pending approval is the one its incident waits for, or the row stands just
\* before the step that asks for it again: no orphan can be decided against a
\* case that has moved on (engine._prepare_approval).
PendingApprovalsHaveACase ==
  \A ref \in DOMAIN approvals :
    approvals[ref] = "pending" =>
      \/ row.stage = "waiting_approval" /\ row.pending = ref
      \/ row.stage \in {"fusion", "policy"} /\ Asked(row) = ref

-----------------------------------------------------------------------------
(* Reports *)

\* Every piece of work is counted once, whatever was replayed after a crash and
\* whichever case it shares the reports with: the attempts on the dashboards are
\* the actions in the history, each visit has its work order, and the lane
\* credited with the restoration acted last.
WorkIsCounted ==
  \A other \in Others :
    LET p == OperationsProjection(<<row, other>>, approvals)
        r == TelemetryRecord(row)
        panel == PlaybookSuccess(<<r, TelemetryRecord(other)>>)
    IN  /\ p.remote_attempts = CountOf(row, RemoteActions) + other.remote
        /\ p.work_orders =
             CountOf(row, FieldActions) + Cardinality(RecordsOf(other, "work order"))
        /\ p.maintenance_requests <=
             CountOf(row, {"dirty_boots_mr"}) + Cardinality(RecordsOf(other, "MR"))
        /\ r.truck_rolls = CountOf(row, FieldActions \union {"dirty_boots_mr"})
        /\ r.verified =>
             /\ row.history[Len(row.history)].action = r.lane
             /\ panel[r.lane].succeeded >= 1

\* Nothing reported as resolved without a truck has a visit or an MR in the
\* effect store, and what counts as dispatched to one report has rolled a truck
\* in the other, also where cases of one root are dispatched once.
RemoteMeansRemote ==
  /\ ResolvedRemotely(TelemetryRecord(row)) =>
       {ref \in effects : ref.action \in FieldActions \union {"dirty_boots_mr"}} = {}
  /\ \A other \in Others :
       LET p == OperationsProjection(<<row, other>>, approvals)
           kpis == Kpis(<<TelemetryRecord(row), TelemetryRecord(other)>>)
       IN  p.field_dispatched <= kpis.dispatched

\* The stages past correlation.
Attached(s) ==
  s.stage \in {"evidence", "deterministic_rca", "llm_rca", "fusion", "action_ranking",
               "policy", "waiting_approval", "execute", "verify", "failure_review",
               "reconcile", "closed"}

\* Two cases make one root exactly when they have a common cause.  The root is
\* closed once both are, and a case that is with a person is never hidden behind
\* one that is closed or runs on (engine._correlate, measurement._root_status).
RootsAreGrouped ==
  \A other \in Others :
    LET p == OperationsProjection(<<row, other>>, approvals)
        cause == row.scenario.parent
        shared == cause # "none" /\ cause = other.parent
        Of(status) == HowMany(<<row, other>>, LAMBDA s : s.status = status)
    IN  /\ OperationsReconcile(p)
        /\ Attached(row) =>
             /\ p.root_incidents = IF shared THEN 1 ELSE 2
             /\ cause # "none" <=> "Correlate" \in TelemetryRecord(row).autonomous
             /\ p.partition["closed"] =
                  IF ~shared THEN Of("closed")
                  ELSE IF {row.status, other.status} = {"closed"} THEN 1 ELSE 0
        /\ "quarantined" \notin {row.status, other.status} =>
             (p.partition["escalated"] > 0 <=> Of("escalated") > 0)

\* A pending approval on the dashboard has its waiting case (but for a request
\* about to ask for it), the funnel shows its human, and a closed case leaves none.
WaitingIsReported ==
  LET board == Dashboard(<<row>>, approvals)
      funnel == AutonomyFunnel(<<TelemetryRecord(row)>>)
  IN  /\ board.pending_approvals <= 1
      /\ board.pending_approvals = 1 /\ board.waiting = 1 => funnel["Act"].human = 1
      /\ board.closed + board.escalated = 1 => board.pending_approvals = 0
      /\ board.closed = 1 => funnel["Validate"].autonomous = 1

\* What operations projection, dashboard and telemetry say of an incident is what
\* happened to it (measurement.build_operations_projection, telemetry.project).
ReportsMatchTheCase ==
  /\ PendingApprovalsHaveACase
  /\ WorkIsCounted
  /\ RemoteMeansRemote
  /\ RootsAreGrouped
  /\ WaitingIsReported

-----------------------------------------------------------------------------
(* Liveness *)

\* The pool keeps scheduling every thread; nothing is assumed of clients, nor of
\* the simulator, whose silence ends in the client's timeout.
FairSpec == Spec /\ \A w \in Workers : WF_vars(Handle(w))

\* Every request returns: run_until_pause ends by a pause, a terminal stage or
\* the step budget.
RequestsReturn == \A w \in Workers : (pc[w] # "idle") ~> (pc[w] = "idle")

\* Clients as tests/conftest.py approve_until_terminal has them: decide what is
\* pending, otherwise run the case again.
AttendedSpec ==
  /\ FairSpec
  /\ \A w \in Workers : /\ SF_vars(Review(w))
                        /\ \A kind \in Tasks : SF_vars(RunIncident(w, kind))

\* An attended incident comes to an end.
CaseIsResolved == <>Terminal(row)

=============================================================================
