# CPE-ServAs-light: verification development

TLA+ models of the CPE service-assurance demonstrator (`src/lpr_cpe_demo`),
the TLC configurations that check them on small instances, and proofs that
TLAPS checks for every value of the constants. Paths below are relative to the
repository; `P` stands for `src/lpr_cpe_demo`.

## 1. The system and its parts

An *incident* is raised for a subscriber, diagnosed (deterministic detectors
plus an optional LLM assistant), routed through a human approval for every
external action, executed through a typed MCP tool, verified and closed or
escalated.  Beside this workflow a *digital twin* generates synthetic network
runs, lets humans decide cases on them, imports external evidence and watches
fresh installations; a *predictive branch* scans for degrading plant and opens
tickets.

| Part | Source | State it keeps | Operations | Modelled in |
|---|---|---|---|---|
| Workflow engine | `P/workflow/engine.py`, `domain.py`, `controls.py` | none of its own: it transforms one `IncidentState` and saves it | one handler per stage, `run_one`, `run_until_pause` | `IncidentRules`, `IncidentWorkflow` |
| Workflow service | `P/workflow/service.py` | none | `start_scenario`, `run_incident`, `decide_approval`, `reset` | `IncidentWorkflow` |
| Repository | `P/persistence/repository.py` | SQL tables incident, approval, idempotency | get and blind save, one transaction each | `IncidentWorkflow` |
| MCP simulator | `P/mcp_server/*`, `P/mcp_client/client.py` | SQLite tables `effects`, `consumed_approvals` | one tool per action kind, all through `_approved_effect` | one step per call in `IncidentWorkflow`; opened in `EffectStore` |
| LLM assistant | `P/llm/service.py` | none | `propose_rca` | an opinion in `IncidentWorkflow` |
| Reports on incidents | `P/telemetry.py`, `P/measurement.py` | none | projections of the stored incidents | `IncidentReports` |
| LangGraph runtime | `P/workflow/langgraph_runtime.py` | graph checkpoint | invoke, interrupt, resume | not modelled (section 8) |
| Twin case graph and gate | `P/digital_twin/orchestrator.py`, `care.py`, `decision.py` | the datasets of a run | add a case, authorise and materialise an action, build the care queue, `quality_check` | `CaseGraph`, `QualityGate`, `RunGeneration` |
| Twin case store, live decisions | `P/digital_twin/workflow.py`, `api.py`, `orchestrator.py` | SQLite case table with revisions; dataset files and `catalog.json` | decide, mirror, mark verified | `LiveDecisions`, `CaseBoard` |
| Twin run publication | `P/digital_twin/orchestrator.py`, `storage.py`, `api.py` | run directories, lock directories, `active_run.json` | create, select, show the active run | `RunPublication` |
| External evidence | `P/digital_twin/external_evidence.py` | batch directories and manifests | create, add, validate, analyse, materialise | `EvidenceRules`, `ImportBatch` |
| Cost and executive projections | `P/digital_twin/dispatch_projection.py`, `executive_projection.py`, `api.py` | none: recomputed from the files of a run | verify, cost, join, count | `DispatchProjection`, `ExecutiveProjection` |
| Install assurance, scans of a run | `P/digital_twin/install_assurance.py`, `predictive_bridge.py`, `orchestrator.py` | child directories in a run | create and read a watch, run and read a scan | `InstallWatch`, `ModemSnapshot`, `RunChildren`, `RunChildrenProofs` |
| Predictive branch | `P/predictive/*` | flag history file, tickets in flight | daily run: scan, process, save, hand over | `ModemScan`, `TicketPipeline`, `PredictiveBranch`, `DailyProofs` |
| Agents and their guards | `P/agents/*` | none | pure functions | `AgentGuards` |
| Crew days | `P/commercial.py` | the backlog | value, urgency, the plan of a day | `CrewDays`, `DailyProofs` |
| Northbound adapters, geography, dashboards, UI, scripts | see `PROJECT.json` | none durable | conversions, tables, display | not modelled (section 8) |

How the parts meet.  The HTTP API runs each request in a thread of its own;
threads share the repository, the MCP server's store and the twin's data root,
and nothing else.  The engine reaches the simulator by an HTTP call that may be
lost or late.  Human approvals travel as a signed token from `decide_approval`
to `_approved_effect`.  Twin requests meet in files: a run directory is renamed
into place under a lock directory, dataset files are replaced one by one, the
catalog is rewritten in place, and the control table is advanced by compare and
swap.  Watches and scans are children of a run, published beside its files
without any lock.  The predictive branch shares nothing with either: it hands
its tickets to the incident workflow by returning them.  Processes may die between any two of these steps and leave the files as
they are.

What makes each part correct, and what is hard about it, is listed with source
lines under `hazards` in `PROJECT.json`; the sections below name the
properties that cover them.

## 2. The incident workflow

`IncidentRules.tla` holds the vocabulary and every rule that maps an incident
to an incident; `IncidentWorkflow.tla` interleaves them.  A *worker* is a
request of FastAPI's thread pool.  It loads the row (`RunIncident`,
`DecideApproval` ... `LoadIncident`), applies one handler after another to its
own copy `mem[w]`, and saves it blindly.  Every repository transaction and
every MCP call is a step of its own:

| Code | Model |
|---|---|
| `run_incident`, `run_until_pause`, `run_one` | `RunIncident`, `Ready`, `RunOne`, `Pause`, `StepBudgetStop`, `Reply` |
| a handler that touches only the incident | one action named after it, its save included |
| `_fusion` / `_policy` that need a human, `_prepare_approval` | `AskRcaReview` or `AskAction`, then `LookUpApproval`, `SaveApproval`, `SaveIncident` |
| `_execute` | `Execute`, then `EffectReported` and `RecordResult`, or `CallFailed`; `Serve` is the simulator |
| `decide_approval` | `DecideApproval` (read and test), `SaveDecision`, `LoadIncident`, `SaveResult`, the run loop, `Reply` (the consuming tail) |
| crash, uncaught exception | `Lose` |

*Abstractions.*  An approval identifier and its action key are hashes of the
same durable tuple (`controls.py`), so both are that tuple, a `Ref`.  The
verification outcome and the assistant's opinion are free choices.  Fixtures
are reduced to what the rules read: validity, evidence, handover, common cause
(a parent incident, which no request ever runs), plan.
Owners, SLA clocks, timelines, work orders and texts are left out.  A refused
role or a missing reason changes nothing and is left out.  A call that is
never served stands for one that never arrived, was refused, or came after
its token expired.  `/api/reset` is left out.

*Faults.*  `MaxFaults` bounds how many requests die; a request may die
between any two transactions.  MCP replies may be lost and calls served late.

### What is checked

Properties of an incident are asserted of every copy, persisted or in memory
(`IncidentProperties.tla`).

| Run | Instance | Shows |
|---|---|---|
| `incident_faults` | one request at a time, one fault, all decisions with an override, budgets 2/2/1, 3 cycles, 30 steps | effects stay within budget; no action is repeated after an unknown outcome without a look; closure is proven; no effect is forgotten; what operations, dashboard and telemetry say of an incident, beside another one, is what happened to it; a rejection is final |
| `incident_races` | two concurrent requests (symmetric), one fixture with a remote action | what holds without locks: a gated RCA needs a human, and every effect is authorised (refinement of `EffectAuthority`) |
| `incident_attended` | all fixtures, default budgets, single-step requests, a client that decides and re-runs | every request returns and every incident ends |

*Bounds.*  With one request the plans are explored in full; the bounds reach
every budget: the third field visit, the second mobile repair, the fourth
cycle and the step budget are all taken by some behaviour.  The two-request
instance keeps one fixture and one cycle, because the races are about approvals
and rows, not about plans; that a ruling of an earlier cycle opens no later gate
is left to its theorem (`GateIsHuman`), since a second cycle has more than eight
million states.  One fault is enough to lose any request at any step: what a
second one finds is a state that one fault could have left.

*Fairness.*  `FairSpec` assumes that the thread pool keeps scheduling each
request (`WF` of `Handle(w)`); nothing is assumed of clients nor of the
simulator, because the HTTP client has a timeout (`CallFailed` is always
enabled while a call is awaited).  `AttendedSpec` adds the client of
`tests/conftest.py approve_until_terminal`, which decides what is pending and
re-runs what is not: strong fairness, since other steps may disable it.

*Reports.*  `IncidentReports.tla` computes, from the persisted rows and the
approvals, the operations projection, the dashboard of the repository, and the
telemetry record with its panels.  The reports show the case of the run together
with another one, any of `Others`; for the fixture of `hfc_common_cause.json`
the two may share a parent, which makes them one root
(`measurement.py:227-244`).  `OtherCases` has a closed, a rejected and a new case
of that parent, and an unrelated one that was visited.  Another case does not
wait, so that the approvals are those of the case of the run, and has work orders
only for its visits (`OthersAssumption`).

`ReportsMatchTheCase` ties, in every state, three ways of counting work
(counters, records, history) and the budget of remote attempts (`WorkIsCounted`),
the lanes with the effect store (`RemoteMeansRemote`), the roots with the common
causes (`RootsAreGrouped`: two cases are one root exactly when they share a
cause, which is closed once both are, and never hides a case that is with a
person), and the places that show a pending approval (`WaitingIsReported`).

`EffectsAreAccountedFor`, `ReportsMatchTheCase` and the finality of a
rejection do not survive two concurrent requests (blind saves overwrite each
other; see section 7).  They are therefore checked with one request at a time,
the way a single-reviewer demonstration runs.

## 3. The effect store

`EffectStore.tla` opens the one step in which the workflow sees a tool call:
`_approved_effect` looks the key up, verifies the token and the approval,
performs the effect, and commits both inserts, each a transaction between which
other calls run (`LookUp`, `Verify`, `Perform`, `Commit`).  Tokens expire
(`Expire`), and the server may die inside a call (`Lose`).  A retry is another
call with the same request.

`store_calls` runs three concurrent calls that each make any of seven requests:
one approval signed for two keys, two approvals for one key, and four that must
be refused.  Three calls make a winner, a loser and a late replay.  The two
tables stay consistent and what is recorded was authorised (`TablesAgree`,
`RecordsAreAuthorised`, both proved), an approval never backs two effects
(`OneApprovalOneEffect`), and the store
implements `EffectLedger`: an append-only ledger, of which every *replay*
quotes the entry.  Calls end, so deadlock is not checked.

## 4. The digital twin

### The case graph, its gate and the generation of a run

`CaseGraph.tla` keeps the datasets of a run in one record whose fields are the
dataset names; a case is its position, and times are half minutes.  `AddCase`
is one pass of the generation loop: root or repeat, reconciliation of the
model's answer with the policy, human decision, action, and what an executed
action leaves behind (`Materialize`); `BuildCare` is the care queue with its
reviews.  `QualityGate.tla` states each numbered group of checks of
`quality_check` as an operator; groups 3, 17, 19 and 20 compare fields that the
record does not keep apart.

`RunGeneration.tla` is the loop, the predictive correlation and the gate.
`twin_cases` runs it for six cases over configurations with one action of each
kind and all model answers that matter.  `RepeatEvery` is 3 instead of 10, so
that six cases hold repeats of repeats and a repeat of a case that never
closed.  It shows that the generator satisfies its own gate unless a model
cited nothing valid, that incidents are closed exactly while their latest
attempt restored the service, that repeats form a chain, and that nothing with a side
effect precedes its approval.

### Live decisions

`LiveDecisions.tla` follows one `POST .../decision` step by step: the read and
the compare-and-swap on `control.sqlite`, the catalog and the eleven datasets
read one by one, the mirror computed in memory with the same `Materialize` and
`Gate`, files replaced and hashed one by one, the catalog truncated and filled
in place, and the case verified.

| Run | Instance | Shows |
|---|---|---|
| `live_serial` | two requests, one after the other, any response to any of four live cases, before or after the run date, a crash anywhere | what the client was told stays on record; the gate holds on disk at rest; the catalog describes the files; closed cases have their resolution on record; the export never contradicts the case (`CaseBoard`) |
| `live_overlap` | three overlapping requests after the run date, crashes | one decision per case; no work on disk for a case that was not approved |

The published run has eight cases, two of each kind of action: one that waits
and one decided in the past.  Overlap is explored with four requests: both
answers to one case, a stale revision of it, and a decision on another case.
Two overlapping approvals of different cases are beyond TLC (each writes nine
files); the theorems of section 6 cover them.  Under overlap the gate,
the mirror and the refinement fail, since each writer restores the rows it
read (section 7).

### Publication and the active run

`RunPublication.tla` models the data root: run directories, the lock directory
of each run, and `active_run.json`.  A request creates a run (look, lock, look
again, remove what an interrupted predecessor left, build aside, rename),
selects one, or shows the active one and repairs the pointer if its run is not
readable.  Locks older than 300 s are broken without a look at their owner.

`publication` has two runs, two requests, locks and partial directories that an
earlier process left, deaths anywhere, and live decisions that rewrite catalogs
in place.  As long as no *living* request's lock is broken, one request is
inside at a time, a catalog marks a whole run, published runs are never removed
or overwritten, and the active run is a published one.  "Living" is a history
variable: breaking the lock of a dead request is what the takeover is for, and
two requests that both saw the abandoned lock may still break the one the first
of them then made.  The properties say exactly how far the damage of that goes.

*Abstractions.*  The latest catalog is any catalog, since live decisions change
modification times.  The instant between the removal of the last file and that
of the directory is one step.  A run is named by its configuration, so a digest
collision is left out.  *Fairness:* `WF` of `Handle(w)`, that is, threads run;
`RequestsReturn` is checked with `Slow = FALSE`, builds shorter than 300 s: with
longer ones two requests may in theory break each other's locks for ever.
Deadlock is not checked since every request may die.

### Import batches of external evidence

`EvidenceRules.tla` holds the rules that map the uploaded rows to a verdict
(issues of form, duplicates, identity, meaning, future rows and the order of a
repair's statuses) and a verdict to advice (`Advice`, the agent's answer under
several styles, `Reconcile`) and a projection.  A row keeps what these rules
tell apart: identifiers are small numbers (0 is empty), times are days.

`ImportBatch.tla` is the life of one batch.  Each request takes the lock
directory, reads what it needs, and writes file after file; each removal and
each write is an action (`Store`, `DropQuality` ... `Link`), the manifest comes
last (`Record`), and a request may die between any two (`Die`).  The directory of
normalised rows is removed file by file (`ClearRows`), one file for each source:
`normalized` says what evidence it was made `of` and which sources are `left`,
and an analysis reads those (`Seen`), as `_load_normalized` takes a missing file
for an empty one.  To materialise again writes another scenario, with its own
run and time of creation, and another `updated_at`; times of the batch are
one bit, new or old.  A file is
named by what it contains, and a report is, or names, the files it was made of:
that is what lets a property say that a report is *current*.  The correlation
report and the timeline go with the quality report, and the two files of a link
are one.  All uploads of a source have one file name, the worst case, in which
a retry overwrites.  Archived analyses, size and header limits, and ties in
time are left out.

`imports` has two requests of any kind on one batch, four files of three
sources (one aborts its validation), three uploads and two analyses.  An acknowledged upload
keeps its bytes and its place in the history; reports and rows on disk are of the
files the manifest names, and an analysis is of the rows that are there, be they
only part of the batch; a service spared a review has no open repair or incident
that the analysis read, and no conflict or quarantined row that names it.  Three uploads
are enough for a replacement that is itself interrupted and retried; two
analyses reach the limit.  The two requests are symmetric.  `Slow` is FALSE in the run: the lock of a living
request is not broken there.  With `Slow` (a language model that answers after
300 s) the properties say what holds until a living lock is broken, and the
theorems of section 6 cover that, for any number of requests.  A batch in which
nothing is asked any more may stop, so deadlock is not checked.

### Projections of a published run

`DispatchProjection.tla` recomputes, from the catalog and the datasets alone,
what the cost projection says of each case (its work, crew, attempts, ledger
lines), what it must refuse first (files that are not those of the catalog, a
case graph with missing joins), and the totals.  `ExecutiveProjection.tla` does
the same for the executive page (partition of the roots, funnel, stories of the
customers, scorecard) and the queue of Customer Care.  A ledger line keeps its
role, minutes and road, not its price; a service is at a *place*: drive, ferry,
family.

`Accounts` holds the two together: executed work is priced by its own
timestamps and imports nothing from the route that would be planned today, work
orders are the executed rolls, crews match the plant, rows and files reconcile,
and both projections agree on who waits, where a crew went and what closed.  It
is evaluated on every run the generator publishes (`twin_cases`,
`ProjectionAccountsForWork`) and on the files as a sequence of live decisions
leaves them (`live_serial`, `RestIsProjectable`), with the catalog then on
disk, over a short drive, a day trip too long for a shift and a ferry.  Both are
also proved, for all places.

### Watches and scans of a run

`InstallWatch.tla` says what the 24-hour watch of a cohort holds: which
services fill its slots, when each is acted upon, its health, lifecycle and
incident at a point in time, and the summary.  `ModemSnapshot.tla` says which
modems a scan pulls, which signal each shows and which tickets follow, by the
scanner of the predictive branch.  `RunChildren.tla` publishes both: built
aside and renamed, without a lock, read file by file, with clients that may die
anywhere.  `rmtree` is modelled by its directory handle: it lists, unlinks name
by name, and removes whatever directory then has the name.

`children` has two clients, thirteen services of which two share a tap, one
cohort watched at four points in time (one by an earlier version that lacks a
file), and a scan of a single modem over four cases.  A reader that found a
watch complete reads all of it; at rest an acknowledged scan is whole unless a
client died while it replaced it; later watches never take back a final
lifecycle; passing is earned and the summary adds up; a closed incident leaves
no service of its impaired; and every case the access network shows is
ticketed.  Two clients suffice for a builder and a racer; the times are before,
during and after the extension by a late action.  A scan reader may meet a
scan in pieces and no property says otherwise (section 7).

## 5. The predictive branch and the crews

### The daily service

`ModemScan.tla` (findings, class, severity, duplicates, cap), `AgentGuards.tla`
(provider retries, agent answers, guard) and `TicketPipeline.tla` (remote
actions, notices, triage, dispatch request) are pure; `PredictiveBranch.tla` is
`run_once` around them, day after day: load, scan and process, record, empty
the file, fill it, return.  The process may be killed at every step, the empty
file included, and days may be missed; an age past every limit is one day past
the longest, which keeps the state finite.

There are two clocks: flags are stamped and compared with the date of the run
that the caller passes (`scanner.py:199`, `predictive/service.py:180`), but
pruned by the clock of the machine (`predictive/service.py:80`).  `lag` is how
many days the clock is ahead; it varies from day to day over `Lags`, and never
drops by more than the day by which the date moves on.  `lapsed` collects the
modems whose flag was pruned within the window for that reason.

`predictive` has two modems of all three kinds of cause, a cap of one ticket,
two troubles, a window of one day, two days of memory and a clock that is right,
one day or three days ahead: in the first two cases every flag outlives the
window, in the third it is pruned as soon as it is made.  A modem closed silently
is not closed silently again within the window, unless its flag was so pruned;
what the history
calls open was handed over, but for the tickets a kill took away; agents only
tighten what the rules do; and every finding is answered, also when the cap
lets another one go first.  With more modems the cap only cuts deeper into the
same order.  *Fairness:* `WF` of `Run`: a run that is not killed goes on; `SF`
of `Tomorrow`: days pass, since the service is always between two runs again.
`FindingsAreAnswered` rests on faults that return within the repeat window, as
`RELAPSE_AFTER_DAYS` has them: such a modem is handed over at its first repeat
and leaves the cap to others.  It is asserted as long as flags outlive the window
(`lag + RepeatWindow <= KeepDays` for good): with a clock further ahead, the same
modem may be closed silently on every run and starve the others (section 7).

### Crew days

`CrewDays.tla` is the value of a job (churn, contract, payment, households),
its urgency, the tiers, the plan of a day under the crew hours and the batches
of island runs, iterated over a backlog.  Ages are in whole hours since the fault
was raised (`RaisedHours` before the first plan of its job), a day adds 24.
Multipliers are in hundredths and the urgency curve is a table that falls.

`crew_days` has six kinds of work from a routine job to a breached commitment,
two on an island, raised up to eight hours before their first plan, 30 crew hours
and up to 22 hours of arrivals a day.  Nobody waits more than four days.  An
island job that is held has more than 18 hours left, so that at the next plan it
is less than six hours late, and any that is later was left for want of crew
hours; one that is planned at the hour it was raised is never held past its
deadline (`IslandsAreHeldInTime`).  The job of 72 hours raised two hours early has
22 hours left on its third plan, and is held.  The margin of 8 crew hours matters:
see section 7.

## 6. What is proved

Each theorem holds for all values of the constants that satisfy the named
`ASSUME`s of its module: budgets, fixtures, requests, files and numbers of
workers, cases or modems are arbitrary.  The assumptions say what the code
guarantees of its inputs, and TLC evaluates them on the instances.

**Incident workflow** (`IncidentProofs`).  Four groups of invariants, each on
top of the ones before.

- `IInv` (`Inductive`).  `TypeOK` and authority are not inductive by
  themselves: that a served call carries a ruling follows from where its
  reference came from.  `IInv` adds that (a) every decision past "decided" is on
  record, (b) each copy of the incident, persisted or in memory, is *sound*: a
  stage past ranking has a selected action, and a stored approval result is a
  recorded ruling; at `execute` that ruling favours exactly the selected action,
  or nothing will be called; (c) every call on the wire repeats such a ruling.
  From it `TypeCorrect` and `Authorised` (`Spec => EffectsAreAuthorised`):
  initial states map to initial states, and every step to a new ruling, an
  authorised effect, or a stutter.
- `CaseInv` (`CaseInductive`).  Blind saves replace one copy by another, but
  every copy was made by the rules from an earlier copy.  So whatever the rules
  preserve of one copy, against a set of effects and rulings that only grows,
  holds of all copies, however many requests overlap: there is evidence for
  each failure before the next choice, the history names only committed
  effects, a doubted cause is past its gate by a ruling of its own cycle, and
  what waits or executes is the attempt its counters announce.  `NeverBlind`,
  `ClosedOnProof` and `GateIsHuman` follow at once.
- `DecidedOnce` and `LedgerInv` (`RulingsAreFinal`, `LedgerInductive`), for one
  request slot (`OneAtATime`: any number of requests, none of them
  overlapping, lost at any step, their calls served at any time).  An approval
  gets one ruling, because a request about to save one has read its latest
  status.  The row accounts for every effect and for every call that may still
  become one; between handlers the copy in memory *is* the row, and no two
  tries on one counter have the same number.  From these `RejectedForGood`,
  `NothingForgotten` and `BudgetIsKept`.  Without the hypothesis the first two
  are false (section 7).
- `ToldInv` and `AwaitedInv`, about the reports.  `ToldInv` holds of every copy
  and for overlapping requests: its counters are the attempts in its history,
  no two of which share a number on one counter, its status is that of its
  stage, what it calls verified acted last, and past correlation it has the parent
  of its fixture.  Hence `CountedOnce`, beside any other case: the totals over both
  (one work order per visit included: visits have identifiers of their own, since
  a bijection maps them to the work orders, and MRs at one delimiter do not), and
  the roots, of which there are one or two.
  `AwaitedInv` needs `OneAtATime`: a pending approval is the one the row waits
  for, or will ask for again from an equal copy.  Together with `LedgerInv` (a
  closed row without visits has none in the effect store) they give
  `ReportsAreTrue`, beside any other case that `OthersAssumption` admits.

**Effect store** (`EffectStoreProofs`).  `Consistent`, `Agreeing`, `Founded`
and `Refines`, from an invariant that says for each call what it has learnt and
whether another call may have changed it since: the test before the effect is
worthless by the time of the commit, and only the test under `BEGIN IMMEDIATE`
carries `OneApprovalOneEffect`.

**Generation of a run** (`RunGenerationProofs`).  The rows of a case are
written once and follow from its manifest, its answer and whether it waits
(`CaseRows`); its place in the chain of attempts is fixed when it is added
(`Placed`); an incident is in the state its latest attempt left it in
(`IncidentRow`).  These three are what a turn of the loop preserves (`Kept`);
`KeptMeetsGate` shows group by group that they meet the quality gate, the
counts of the care queue included.  `Inductive`, `RunTyped`,
`GeneratorMeetsItsGate`, `ClosureIsCurrent`, `RepeatsAreChained` and
`ApprovalComesFirst` follow, for any scenarios and answers and for up to 2500
cases (`TotalCasesAssumption`, the most that the limits of `models.py` allow).

**Projections** (`ProjectionProofs`).  `SoundIsAccounted` shows every account of
`Accounts` for any run that is `Sound`: it has a row per case in each file,
passes the gate, its care queue is a copy of its incidents (`CareBuilt`), and
each case is `Settled`, the four facts the gate does not look at and the
accounts rest on (an executed dispatch has its one trip, a case that waits is no
repeat, the root of a repeat has been decided, no attempt is dated before the run).  It holds at any places
(`PlacesAssumption`: routes in whole minutes, as `dispatch_projection.py:1097`
reads them, to either family of plant).
The totals are recursive functions over the rows of a run, and no induction over
them is at hand; instead, two functions that add up the same numbers are equal,
because there is no least place where they differ (`SumsAreUnique`), so that a
total is whatever adds the numbers up (`TotalIs`), and totals join, split and
count.  A ledger is taken apart into pieces whose rolls, minutes, ferries and
nights are known (`Adds`) and put together again (`CostIs`); from it come the
row of a case (`RowIs`), the partition of the roots (`PartitionIs`) and the
filters of the care queue (`QueueAgreesHolds`).

A run is sound when it is published: `PublishedRunsAreSound`, from the invariant
of the generator, and with it `PublishedRunsAreAccounted`.  It stays sound under
live decisions: `RestIsAccounted`, below.

**Live decisions** (`LiveDecisionProofs`).  `Inductive`, `TypeCorrect`,
`DecidedOnce` and `WorkIsApproved`, for any run that passes the gate and has a
row per case, any number of overlapping requests and crashes: the rows a
request holds may mix files of different moments, and yet no row of them founds
work on a case without its approval.  With the switch `Serial`, `MirrorInv`
(`MirrorInductive`) adds that the rows in memory are the files read so far and
one decision, and that a decision on disk is the one the store took.  It gives
`ToldStaysTrue` (what a client was told stays on record) and
`BoardIsImplemented`, the refinement of `CaseBoard`: every step on the files
or the store maps to one of the board or to a stutter.

`RestIsAccounted` is about all files together, for a run that was published
`Sound`, as the generator publishes them.  A decision that passes the gate makes
a sound run of a sound run (`MirroredIsSound`), but the gate sees it in memory;
on disk it arrives file by file, and the files that are not written must be as
they were (`MirroredKeeps`: in particular the reviews of the care queue, which
are exported only when its tickets change).  `RestInv` follows every file through
the copies of it: the rows that were read, those to be written, the entries of
the catalog in memory, and the catalog on disk.  TLC had checked it on the
instance of `live_serial` before it was proved.  A crash is where it ends: of
files that a dead request has left half written it only says which they are.

**Publication** (`RunGenerationProofs`).  `PublicationInductive`, `Exclusive`,
`CatalogIsWhole`, `ActiveExists` and `Final`, also for builds that outlast their lock (`Slow`).
The invariant ties the lock to its owner and says that whoever may touch a
directory has seen that it has no catalog.

**Import batches** (`ImportBatchProofs`).  `Inductive`, `UploadsAreKept`,
`ReportsFollowManifest` and `MaterializedStays`, for any files, any number of
requests and limits, slow analyses included, and whatever the rules of evidence
say.  The invariant says of the request inside, for each place it may be at,
that the manifest it read is the one on disk, which reports it has already
removed, and that what it is about to write is of the files the manifest names.
While a request removes rows there is no analysis of them, which is why an
analysis that is there is of the rows that are there, whole or not
(`ReportsFollowManifest`).  `MaterializedStays` is about what materialising again
must not touch; run and times of the scenario it renews.
`AdviceIsDerived` needs no lock at all: an analysis, on disk or still in the
hands of a request that lost its lock, is what the rules make of the reports it
names.  With lemmas on those rules (an open repair, an open incident or a named
quarantined row keeps a service out of `Spared`, whatever style the agent
answers in, judged by whatever part of the rows it read), it gives
`SparedOnlyUncontested`.

**Watches and scans** (`RunChildrenProofs`).  `Inductive`, `ReadersAreSafe` and
`AnswersLast`, for any requests and any number of clients.  Nothing here holds a
lock, so the invariant is about who can still finish: whoever removes the
directory that is there has all its remaining files on the list, and so the last
one to work on it cannot fail; an error means that somebody else has finished or
will.  `NodeAssumption` says that the value for "no directory" names none.
What the files say is proved too.  `CasesAreTicketed`: a scan has room for a
ticket for every case, and none is put off by the others.  `FinalIsFinal`,
`WatchesAddUp` and `ClosedMeansRestored` compare the episodes of a watch with
each other and with those of a later watch.  They rest on three facts that no
test states: a cohort is as large as asked, the same at every point in time and
names nobody twice (`PickedIs`, from the unique names of `ServicesAssumption`);
every plan is in order, a finding before the call, the incident before the crew,
stable lines within half an hour of the repair (`OrderIs`); and it is over
within a day (`DueIs`), so that who has passed after a day has nothing left
to come.

**Daily service and crews** (`DailyProofs`).  `Inductive` and `TypeCorrect` of
the predictive branch, for any courses of any faults, caps, windows, kills and
lags of the dates behind the clock.  `MemoryInv` says that the history, on disk
and in memory, remembers every closure that can still matter, but for those in
`lapsed`: pruning after `KeepDays` is harmless as long as the clock is not ahead
by more than `KeepDays` exceeds the window (`RepeatsGoToAPerson`); `OwnedInv` that what it calls open was handed
over or was lost by a kill, with a clause for each phase of a run because the
file is ahead of the handover (`OpenIsOwned`).  `AgentsNeverLoosen` compares
each ticket with what the rules alone make of it.  `HeldInTime` is about the
crews, for any kinds of work, customers, crew hours, arrivals and ages.  What was
held had more than 18 hours of slack and has at least 18 - 24 a day later.  For
whole days of age the slack is a deadline less whole days, and none of the six
deadlines leaves it between the 18 hours that force a run and a day; a seventh
deadline of, say, 20 hours would break that half of the proof, and the schedule.

Only model-checked:

- liveness (`CaseIsResolved`, `RequestsReturn`, `FindingsAreAnswered`): fairness
  and `ENABLED` are beyond the prover;
- `NobodyStarves`: it follows the plan of a day through a recursion over the
  backlog, and its bound of four days depends on the load.

## 7. Where the code and its documents differ

Seen while modelling; none of these has a run of its own.  A line of the code is
followed by the line it contradicts, where a document speaks of it.

### Incident workflow

- after "request more" on an action approval the same identifier is derived
  again, and the case waits for an approval that cannot be decided
  (`engine.py:748`, `service.py:155`; README.md:201, docs/WORKFLOW.md:29);
- overriding A to B and back to A waits on the consumed approval of A
  (`engine.py:748`; README.md:204, docs/WORKFLOW.md:108);
- of two concurrent decisions the approval takes effect after the rejection was
  saved (`service.py:149`; README.md:202, docs/WORKFLOW.md:30);
- a process that dies after an approval was saved as approved, and before the
  incident is saved with the result, leaves a case that waits for an approval that
  cannot be decided again (`service.py:175-203`, against 154-155); no document
  speaks of it, and no property asks that it end;
- the step-budget escalation is returned but not saved (`engine.py:89`), and
  `expires_at` of an approval is never compared (`domain.py:188`);
- of two keys that race for one approval, the loser is refused after its effect
  has run (`tools.py:169`; reference/CPE_demo_spec_audit_and_changes.md:337);
- two calls with one key may both act and both answer that they were first
  (`tools.py:141`; docs/ARCHITECTURE.md:58);
- telemetry takes the Act stage of every executed case for autonomous although
  a human approved each effect: the approval is cleared when it is used
  (`telemetry.py:302`, against its docstring); an escalation on a budget counts
  as a diagnosis with a human; an MR is a truck roll to telemetry and no field
  dispatch to operations; the dashboard has no count of quarantined cases.

### Digital twin

- a decision on another case restores the rows it read: an approved case waits
  again while its resolution stays (`orchestrator.py:1789`;
  docs/digital_twin/WORKFLOW.md:12);
- the gate accepts nothing but cited evidence, and the generator refuses the
  run rather than the case (`orchestrator.py:1277`);
- a decision dated before the run day is taken by the store and then refused by
  the gate, for good (`api.py:320`; docs/digital_twin/WORKFLOW.md:23);
- a crash between two files leaves a ticket without its review
  (`orchestrator.py:1771`; docs/digital_twin/WORKFLOW.md:19);
- a reader that meets a half-written catalog of the active run makes another
  run active (`storage.py:120`);
- a scan is called immutable (`orchestrator.py:961`), yet a second request that
  raced with its builder removes it file by file and replaces it: readers find
  part of it, and a death in between may leave a summary without data that
  every later request takes for the scan;
- the second of two builders of one watch gets an operating-system error and no
  watch (`install_assurance.py:1006`);
- windows of 7 to 60 days are accepted, but a modem that only trends gets no
  ticket from 46 days on (PON; HFC from 58);
- `RECOVERING` with `GREEN` is reported before any remote action
  (`install_assurance.py:476`; docs/INSTALL_ASSURANCE_WATCH.md:53), and promoted
  episodes past their day are in the denominator of the pass rate
  (docs/INSTALL_ASSURANCE_WATCH.md:125);
- rejected and escalated actions are still priced as a forecast of an action
  that is "pending or recommended" (`dispatch_projection.py:184`), escalated
  roots are counted as open, and a root that closed after a repeat is charged
  for two closures;
- the projection verifies every file and then reads them again
  (`dispatch_projection.py:237`): a decision in between is costed unverified.

### External evidence

- an analysis that outlasts the 300 s of its lock writes back the manifest it
  read: an upload acknowledged meanwhile is lost, and the next one overwrites
  its file (`external_evidence.py:524`; docs/EXTERNAL_EVIDENCE_CSV.md:150);
- evidence after the point in time still has influence: a future row quarantines
  a past one of the same identifier, and its issues reach the agent and the
  review flag (docs/EXTERNAL_EVIDENCE_CSV.md:120);
- a confidence that is no number, or a bad installation time, aborts the whole
  validation instead of quarantining its row (`external_evidence.py:855`;
  docs/EXTERNAL_EVIDENCE_CSV.md:147);
- a validation that dies after it has begun to remove the normalised rows, and
  before it renames the new ones, leaves the quality report of an earlier one: the
  next analysis is of the sources that are left, or of nothing
  (`external_evidence.py:1471`, 1671-1676).  A service may then be spared though
  its open repair or incident was in a file that is gone;
- "materialized import batches are immutable", and to materialise one again writes
  another run and time of creation into its scenario, which loses the link to the
  first run, and another time into its manifest (`external_evidence.py:2597-2613`);
- a service may be spared a review although a row of it was quarantined, when
  the issue is one of form or of a duplicate identifier and names no service;
- `scenario_projection.json`, and the scenario linked in a run, stay as they were
  when a materialisation dies before its manifest and an upload follows.

### Predictive branch and crew days

- a process killed while it writes the history leaves a file that is read as no
  history: every flag and open ticket is forgotten (`predictive/service.py:98`;
  the comment at 40-43 wants the opposite), and one killed after it, before the
  report is returned, leaves open tickets that nobody was given;
- flags are pruned by the clock and stamped by the caller
  (`predictive/service.py:80`, 76): `run_predictive_scan.py:97` dates its first run
  2026-08-18 whatever the day, so that from 90 days later on, 2026-11-16, that run
  keeps none of its flags, none makes a repeat, and a modem whose reboot works is
  closed silently each time the script runs, although it prints that repeat status
  "grows as history accumulates" (116) and the class wants flags to survive
  (`predictive/service.py:33`);
- a ticket that was gated is never closed again, so its modem is not examined
  again except when a forecast becomes a breach; a ticket put off to the
  maintenance window counts as gated too;
- the guard never stops a ticket of a scan, since it judges the action the rules
  chose and not the agent's (`pipeline.py:270`);
- a suppressed ticket of a repeat offender drops the reason to notify;
- two services on one history file overwrite each other's flags;
- an island job with 18 to 24 hours left is held, and up to six hours past its
  deadline at the next daily plan (`commercial.py:781`; "until a batch forms, or
  until the oldest reaches its deadline", 573-574);
- arrivals that merely fit the crew hours do not protect from starvation
  (tests/test_commercial.py:484): with 20 hours a day and 18 of arrivals an
  eleven-hour island job is overtaken for five days (`commercial.py:662`).

## 8. Not modelled

- The LangGraph runtime drives the same handlers from a graph whose checkpoints
  an external library keeps; what that library does when it fails is not stated
  here, and without it nothing is left but the engine.
- Northbound adapters, geography, plant geometry, routing, fault generation and
  retrieval are numeric functions and tables without steps.
- Dashboards, charts, the Streamlit pages and the styles present what the
  reports of sections 2 and 4 compute.
- Scripts, packaging and the smoke tests start the parts; `run_predictive_scan`
  alone is in a model, as the caller of the daily service.
- Within modelled parts: wording, SLA clocks, owners, prices, coordinates,
  signal levels and the synthetic population; size and row limits of uploads;
  `reset` and `clear`, which empty the stores between demonstrations.
- Ages finer than a day in the predictive branch and finer than an hour for crew
  jobs; runs dated ahead of the clock, and a script started again at an earlier
  date on a history that has later ones.
- For TLC's sake only small instances are explored: two overlapping approvals of
  different live cases, and slow analyses, are covered by the proofs alone.

## 9. Plan

1. Incident workflow, authority, first proofs: done.
2. Effect store and ledger, with proofs: done.
3. Case graph, gate, generation, live decisions, with proofs: done.
4. Run publication, with proofs: done.
5. Import batches of external evidence, with proofs: done.
6. Watches and scans of a run, without a lock, with proofs: done.
7. Predictive branch with the guards of the agents; crew days
   (the batching proved): done.
8. Projections of a published run and reports on incidents: done.
9. What watches and scans say, proved: done.
10. Reports on incidents, proved: done.
11. Projections of a published run, also after live decisions, proved: done.
12. Left: what section 6 lists as only model-checked.
