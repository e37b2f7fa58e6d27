----------------------------- MODULE ImportBatch -----------------------------
(***************************************************************************)
(* One import batch of external evidence (digital_twin/external_evidence   *)
(* .py): uploads, validation, analysis and materialisation, each a series  *)
(* of file writes under the lock of the batch, by requests of which any    *)
(* may die between two writes.                                             *)
(*                                                                         *)
(* A request reads what it needs in one step, when it has the lock.  A     *)
(* file is one of Files, by what it contains; a report is, or names, the   *)
(* files it was made of, from which the rest follows (EvidenceRules).  The *)
(* normalized rows are a directory with a file for each source: they are   *)
(* the evidence they were made of and the sources left of it.  The         *)
(* correlation report and the timeline go with the quality report.  Two    *)
(* uploads of one source use one file name, so that two files of one       *)
(* revision are one file.  A time is kept so far as it differs from the    *)
(* last one the manifest holds.                                            *)
(***************************************************************************)
EXTENDS EvidenceRules

CONSTANTS
  Files,        \* what may be uploaded
  SourceOf,     \* the source it is uploaded for
  Rows,         \* the rows it contains
  MaxAnalyses,  \* MAX_ANALYSES_PER_BATCH
  MaxUploads,   \* bound on the uploads accepted
  Workers,      \* processes that serve requests
  Slow,         \* an analysis may outlast the 300 s of its lock
  None

ASSUME FilesAssumption == SourceOf \in [Files -> Sources] /\ Rows \in [Files -> Seq(Records)]
ASSUME BatchAssumption == None \notin Workers /\ Slow \in BOOLEAN

VARIABLES
  manifest,     \* history of each source, status, analyses, time of the last change
  raw,          \* of each source, the stored files by revision
  normalized, quality, recommendation, projection, scenario,   \* or None
  link,         \* the scenario in the directory of a run, or None
  lock, expired,
  pc, mem, draft,   \* of each worker: progress, the manifest it read, its report
  promised,     \* acknowledged uploads (for checking only)
  usurped       \* the lock of a living request was broken (for checking only)

reports == <<normalized, quality, recommendation, projection, scenario, link>>
locks == <<lock, expired>>
vars == <<manifest, raw, reports, locks, pc, mem, draft, promised, usurped>>

\* manifest["files"] names the last revision of each source.
Evidence(m) ==
  [s \in {t \in Sources : m.history[t] # << >>} |-> raw[s][Len(m.history[s])]]

VerdictOn(e) == Verdict([s \in DOMAIN e |-> Rows[e[s]]])

Accepts(m) == m.status # "MATERIALIZED"

Init ==
  /\ manifest = [history |-> [s \in Sources |-> << >>], status |-> "CREATED", analyses |-> 0,
                 updated_at |-> FALSE]
  /\ raw = [s \in Sources |-> << >>]
  /\ normalized = None /\ quality = None /\ recommendation = None
  /\ projection = None /\ scenario = None /\ link = None
  /\ lock = None /\ expired = FALSE
  /\ pc = [w \in Workers |-> "idle"]
  /\ mem = [w \in Workers |-> None]
  /\ draft = [w \in Workers |-> None]
  /\ promised = {}
  /\ usurped = FALSE

Goto(w, to) == pc' = [pc EXCEPT ![w] = to]
Moves(w, from, to) == pc[w] = from /\ Goto(w, to)
Drafts(w, report) == draft' = [draft EXCEPT ![w] = report]
Forgets(w) == mem' = [mem EXCEPT ![w] = None] /\ Drafts(w, None)

-----------------------------------------------------------------------------
(* Requests and the lock *)

\* What a request wants: task is "upload", "validate", "analyze" or "materialize".
Want(w, request) ==
  /\ Moves(w, "idle", "locking")
  /\ Drafts(w, request)
  /\ UNCHANGED <<manifest, raw, reports, locks, mem, promised, usurped>>

\* (MaxUploads bounds the files there are.)
AskUpload(w) ==
  /\ Cardinality(UNION {{s} \X DOMAIN raw[s] : s \in Sources}) < MaxUploads
  /\ \E file \in Files, replace \in BOOLEAN :
       Want(w, [task |-> "upload", file |-> file, replace |-> replace])
AskValidate(w) == Want(w, [task |-> "validate"])
\* Before the lock, the report a request builds on must be there.
AskAnalyze(w) == quality # None /\ Want(w, [task |-> "analyze"])
AskMaterialize(w) ==
  recommendation # None /\ \E run \in BOOLEAN : Want(w, [task |-> "materialize", run |-> run])

\* lock_path.mkdir(), then the manifest is read.
TakeLock(w) ==
  /\ Moves(w, "locking", draft[w].task)
  /\ lock = None
  /\ lock' = w
  /\ mem' = [mem EXCEPT ![w] = manifest]
  /\ UNCHANGED <<manifest, raw, reports, expired, draft, promised, usurped>>

FindExpired(w) ==
  /\ Moves(w, "locking", "breaking")
  /\ lock # None /\ expired
  /\ UNCHANGED <<manifest, raw, reports, locks, mem, draft, promised, usurped>>

\* "external evidence batch is busy", after 30 s.
TimeOut(w) ==
  /\ Moves(w, "locking", "idle")
  /\ lock # None /\ ~expired
  /\ Forgets(w)
  /\ UNCHANGED <<manifest, raw, reports, locks, promised, usurped>>

Alive(w) == w \in Workers /\ pc[w] # "lost"

\* It removes whatever lock there is by now.
BreakLock(w) ==
  /\ Moves(w, "breaking", "locking")
  /\ lock' = None /\ expired' = FALSE
  /\ usurped' = (usurped \/ (lock # None /\ Alive(lock)))
  /\ UNCHANGED <<manifest, raw, reports, mem, draft, promised>>

\* The lock goes on every path; what was recorded is acknowledged.
Release(w) ==
  /\ pc[w] \in {"done", "failed"} /\ Goto(w, "idle")
  /\ lock' = None /\ expired' = FALSE
  /\ promised' =
       IF pc[w] = "done" /\ draft[w].task = "upload"
       THEN promised \union
              {[file |-> draft[w].file,
                revision |-> Len(mem[w].history[SourceOf[draft[w].file]]) + 1]}
       ELSE promised
  /\ Forgets(w)
  /\ UNCHANGED <<manifest, raw, reports, usurped>>

-----------------------------------------------------------------------------
(* What a request does first *)

Refuse(w) ==
  Goto(w, "failed") /\ UNCHANGED <<manifest, raw, reports, locks, mem, draft, promised, usurped>>

Proceed(w, to) ==
  Goto(w, to) /\ UNCHANGED <<manifest, raw, reports, locks, mem, draft, promised, usurped>>

Upload(w) ==
  /\ pc[w] = "upload"
  /\ IF Accepts(mem[w]) /\ (draft[w].replace \/ mem[w].history[SourceOf[draft[w].file]] = << >>)
     THEN Proceed(w, "store") ELSE Refuse(w)

Validate(w) ==
  /\ pc[w] = "validate"
  /\ IF Accepts(mem[w]) THEN Proceed(w, "drop recommendation") ELSE Refuse(w)

\* _load_normalized: the accepted rows of the sources whose file is there, with the
\* issues of the quality report.
Seen(rows, judged) ==
  IF rows = None THEN [rows |-> << >>, accepted |-> {}, issues |-> {}]
  ELSE LET v == VerdictOn(rows.of)
       IN [rows |-> v.rows, issues |-> VerdictOn(judged).issues,
           accepted |-> {i \in v.accepted : v.rows[i].source \in rows.left}]

Analysis(rows, judged, style) ==
  LET v == Seen(rows, judged)
  IN [of |-> rows, judged |-> judged,
      advice |-> [s \in Services(v) |-> Reconcile(v, style, s)]]

\* It reads the quality report and the rows, and asks the agent.
Analyze(w) ==
  /\ pc[w] = "analyze"
  /\ IF /\ Accepts(mem[w]) /\ mem[w].analyses < MaxAnalyses
        /\ quality # None /\ StatusOf(VerdictOn(quality)) # "REJECTED"
     THEN /\ Goto(w, "advise")
          /\ \E style \in Styles :
               Drafts(w, [task |-> "analyze",
                          report |-> Analysis(normalized, quality, style)])
          /\ UNCHANGED <<manifest, raw, reports, locks, mem, promised, usurped>>
     ELSE Refuse(w)

Now(w) == ~mem[w].updated_at

\* A batch that is materialised may be materialised again, for another run.
Materialize(w) ==
  /\ pc[w] = "materialize"
  /\ IF recommendation # None /\ quality # None
     THEN /\ Goto(w, "project")
          /\ Drafts(w, [task |-> "materialize",
                        report |-> [of |-> normalized, analysis |-> recommendation,
                                    run |-> draft[w].run, created_at |-> Now(w)]])
          /\ UNCHANGED <<manifest, raw, reports, locks, mem, promised, usurped>>
     ELSE Refuse(w)

-----------------------------------------------------------------------------
(* One write after the other *)

Task(w) == draft[w].task

StoreOver(w) ==         \* mutant: a replacement takes the place of the file
  LET s == SourceOf[draft[w].file]
  IN /\ Moves(w, "store", "drop quality")
     /\ raw' = [raw EXCEPT ![s] =
                  IF mem[w].history[s] = << >> THEN <<draft[w].file>>
                  ELSE [@ EXCEPT ![Len(mem[w].history[s])] = draft[w].file]]
     /\ UNCHANGED <<manifest, reports, locks, mem, draft, promised, usurped>>

\* The file of the next revision appears, or is overwritten.
Store(w) ==
  LET s == SourceOf[draft[w].file]
      revision == Len(mem[w].history[s]) + 1
  IN /\ Moves(w, "store", "drop quality")
     /\ raw' = [raw EXCEPT ![s] =
                  IF revision \in DOMAIN @ THEN [@ EXCEPT ![revision] = draft[w].file]
                  ELSE Append(@, draft[w].file)]
     /\ UNCHANGED <<manifest, reports, locks, mem, draft, promised, usurped>>

DropQuality(w) ==
  /\ Moves(w, "drop quality", "drop recommendation")
  /\ quality' = None
  /\ UNCHANGED <<manifest, raw, normalized, recommendation, projection, scenario, link,
                 locks, mem, draft, promised, usurped>>

KeepRecommendation(w) ==    \* mutant: an upload makes the quality report stale only
  /\ Moves(w, "drop recommendation",
           IF Task(w) = "upload" THEN "drop scenario" ELSE "drop projection")
  /\ recommendation' = IF Task(w) = "upload" THEN recommendation ELSE None
  /\ UNCHANGED <<manifest, raw, normalized, quality, projection, scenario, link,
                 locks, mem, draft, promised, usurped>>

DropRecommendation(w) ==
  /\ Moves(w, "drop recommendation",
           IF Task(w) = "upload" THEN "drop scenario" ELSE "drop projection")
  /\ recommendation' = None
  /\ UNCHANGED <<manifest, raw, normalized, quality, projection, scenario, link,
                 locks, mem, draft, promised, usurped>>

DropProjection(w) ==
  /\ Moves(w, "drop projection", "drop scenario")
  /\ projection' = None
  /\ UNCHANGED <<manifest, raw, normalized, quality, recommendation, scenario, link,
                 locks, mem, draft, promised, usurped>>

DropScenario(w) ==
  /\ Moves(w, "drop scenario", IF Task(w) = "upload" THEN "clear" ELSE "parse")
  /\ scenario' = None
  /\ UNCHANGED <<manifest, raw, normalized, quality, recommendation, projection, link,
                 locks, mem, draft, promised, usurped>>

\* The files are read and judged; a field nobody expects there ends it.
Parse(w) ==
  LET e == Evidence(mem[w])
      rows == [s \in DOMAIN e |-> Rows[e[s]]]
  IN /\ pc[w] = "parse"
     /\ IF Aborts(rows) THEN Refuse(w)
        ELSE /\ Goto(w, "clear")
             /\ Drafts(w, [task |-> "validate", report |-> e])
             /\ UNCHANGED <<manifest, raw, reports, locks, mem, promised, usurped>>

RowFiles == IF normalized = None THEN {} ELSE normalized.left

\* The directory of normalized rows goes, file by file, before another takes its
\* place.
ClearRows(w) ==
  /\ \/ /\ RowFiles = {}
        /\ Moves(w, "clear", IF Task(w) = "upload" THEN "record" ELSE "normalize")
        /\ normalized' = None
     \/ /\ Moves(w, "clear", "clear")
        /\ \E s \in RowFiles : normalized' = [of |-> normalized.of, left |-> RowFiles \ {s}]
  /\ UNCHANGED <<manifest, raw, quality, recommendation, projection, scenario, link,
                 locks, mem, draft, promised, usurped>>

Normalize(w) ==
  /\ Moves(w, "normalize", "judge")
  /\ normalized' = [of |-> draft[w].report, left |-> DOMAIN draft[w].report]
  /\ UNCHANGED <<manifest, raw, quality, recommendation, projection, scenario, link,
                 locks, mem, draft, promised, usurped>>

Judge(w) ==
  /\ Moves(w, "judge", "record")
  /\ quality' = draft[w].report
  /\ UNCHANGED <<manifest, raw, normalized, recommendation, projection, scenario, link,
                 locks, mem, draft, promised, usurped>>

Advise(w) ==
  /\ Moves(w, "advise", "record")
  /\ recommendation' = draft[w].report
  /\ UNCHANGED <<manifest, raw, normalized, quality, projection, scenario, link,
                 locks, mem, draft, promised, usurped>>

Projected(report) == [of |-> report.of, analysis |-> report.analysis]

Project(w) ==
  /\ Moves(w, "project", "stage")
  /\ projection' = Projected(draft[w].report)
  /\ UNCHANGED <<manifest, raw, normalized, quality, recommendation, scenario, link,
                 locks, mem, draft, promised, usurped>>

Stage(w) ==
  /\ Moves(w, "stage", IF draft[w].report.run THEN "link" ELSE "record")
  /\ scenario' = draft[w].report
  /\ UNCHANGED <<manifest, raw, normalized, quality, recommendation, projection, link,
                 locks, mem, draft, promised, usurped>>

Link(w) ==
  /\ Moves(w, "link", "record")
  /\ link' = draft[w].report
  /\ UNCHANGED <<manifest, raw, normalized, quality, recommendation, projection, scenario,
                 locks, mem, draft, promised, usurped>>

Recorded(w) ==
  LET m == [mem[w] EXCEPT !.updated_at = Now(w)]
  IN CASE Task(w) = "upload" ->
            [m EXCEPT !.history[SourceOf[draft[w].file]] = Append(@, draft[w].file),
                      !.status = "FILES_UPLOADED"]
       [] Task(w) = "validate" -> [m EXCEPT !.status = StatusOf(VerdictOn(draft[w].report))]
       [] Task(w) = "analyze" -> [m EXCEPT !.status = "ANALYZED", !.analyses = @ + 1]
       [] Task(w) = "materialize" -> [m EXCEPT !.status = "MATERIALIZED"]

\* The manifest comes last: what was read at the start, with the change.
Record(w) ==
  /\ Moves(w, "record", "done")
  /\ manifest' = Recorded(w)
  /\ UNCHANGED <<raw, reports, locks, mem, draft, promised, usurped>>

-----------------------------------------------------------------------------
(* The environment *)

Expire ==
  /\ lock # None /\ ~expired
  /\ Slow \/ ~Alive(lock)
  /\ expired' = TRUE
  /\ UNCHANGED <<manifest, raw, reports, lock, pc, mem, draft, promised, usurped>>

\* The process of a request dies; what it has put on disk stays.
Die(w) ==
  /\ pc[w] \notin {"idle", "lost"}
  /\ Goto(w, "lost") /\ Forgets(w)
  /\ UNCHANGED <<manifest, raw, reports, locks, promised, usurped>>

Ask(w) == AskUpload(w) \/ AskValidate(w) \/ AskAnalyze(w) \/ AskMaterialize(w)
Start(w) == Upload(w) \/ Validate(w) \/ Analyze(w) \/ Materialize(w)
Write(w) ==
  \/ Store(w) \/ DropQuality(w) \/ DropRecommendation(w) \/ DropProjection(w)
  \/ DropScenario(w) \/ Parse(w) \/ ClearRows(w) \/ Normalize(w) \/ Judge(w) \/ Advise(w)
  \/ Project(w) \/ Stage(w) \/ Link(w) \/ Record(w)

Next ==
  \/ Expire
  \/ \E w \in Workers :
       \/ Ask(w) \/ TakeLock(w) \/ FindExpired(w) \/ TimeOut(w) \/ BreakLock(w)
       \/ Release(w) \/ Start(w) \/ Write(w) \/ Die(w)

Spec == Init /\ [][Next]_vars

-----------------------------------------------------------------------------
(* Properties *)

\* An acknowledged upload keeps its bytes and its place in the history, whatever
\* replaces it and whoever dies (docs/EXTERNAL_EVIDENCE_CSV.md:150 "creates
\* another immutable raw-file revision rather than deleting the previous bytes"),
\* unless the lock was broken under a living request: an analysis that outlasts
\* its lock writes back the manifest it read at the start.
PromisedIsKept ==
  ~usurped =>
    \A p \in promised :
      /\ p.revision \in DOMAIN manifest.history[SourceOf[p.file]]
      /\ manifest.history[SourceOf[p.file]][p.revision] = p.file
      /\ raw[SourceOf[p.file]][p.revision] = p.file

Current(report) == report = Evidence(manifest)

\* What is on disk is of the files the manifest names, although reports and rows go
\* and come one by one and their maker may die in between; an analysis is of the
\* rows that are there, and the scenario of a materialised batch is that of its
\* analysis.  After a validation that died while it removed the rows, an analysis
\* can be of part of them or of none.
ReportsAreCurrent ==
  ~usurped =>
    /\ quality # None => Current(quality)
    /\ normalized # None => Current(normalized.of)
    /\ recommendation # None =>
         Current(recommendation.judged) /\ recommendation.of = normalized
    /\ scenario # None => Current(scenario.analysis.judged)
    /\ manifest.status = "MATERIALIZED" =>
         Projected(scenario) = [of |-> normalized, analysis |-> recommendation]

\* "materialized import batches are immutable" (external_evidence.py, three
\* messages): its evidence, status, analyses and reports stay what they are, also
\* when it is materialised again.  That gives the scenario another run and time of
\* creation, and the manifest another time.
MaterializedIsFinal ==
  [][manifest.status = "MATERIALIZED" /\ ~usurped' =>
       /\ Evidence(manifest)' = Evidence(manifest)
       /\ UNCHANGED <<manifest.history, manifest.status, manifest.analyses>>
       /\ UNCHANGED <<normalized, quality, recommendation, projection>>
       /\ UNCHANGED Projected(scenario)
    ]_vars

\* A service that is spared a human review: the agent has answered and agrees, no
\* request or incident that the analysis read is open for it, and of its evidence as
\* validated, all of it, the correlation report shows no conflict, the timeline has
\* the dated records, and no row was quarantined, but for its form or its identifier
\* (those issues may name no service).
SparedIsUncontested ==
  recommendation # None /\ recommendation.of # None /\ ~usurped =>
    LET read == Seen(recommendation.of, recommendation.judged)
        v == VerdictOn(recommendation.judged)
    IN \A s \in DOMAIN recommendation.advice :
         ~recommendation.advice[s].review =>
           /\ recommendation.advice[s].agrees
           /\ OpenRepairs(read, s) = {} /\ ~HasIncident(read, s)
           /\ Correlation(v)[s].status = "MATCHED"
           /\ \A i \in Correlation(v)[s].records :
                v.rows[i].at # NoTime =>
                  \E k \in DOMAIN Timeline(v) : Timeline(v)[k] = i
           /\ \A i \in DOMAIN v.rows :
                v.rows[i].service = s /\ i \notin v.accepted =>
                  \E x \in v.issues :
                    x.row = i /\ x.code \in {"FORM", "DUPLICATE_SOURCE_RECORD_ID"}
=============================================================================
