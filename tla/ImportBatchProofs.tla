-------------------------- MODULE ImportBatchProofs --------------------------
(***************************************************************************)
(* What a batch keeps, for any files, requests and limits.  Until the lock *)
(* is broken under a living request, the one request inside works on the   *)
(* manifest that is on disk, and each report it has yet to touch is of the *)
(* files that manifest names (Inv), whatever the rules of validation and   *)
(* advice say.  Whatever the lock does, an analysis is what the rules make *)
(* of the reports it names (Advises).  With what the rules say of a        *)
(* verdict, that is enough for the services spared a review.               *)
(***************************************************************************)
EXTENDS ImportBatch, TLAPS, FiniteSetTheorems

Outside == {"idle", "lost", "locking", "breaking"}
Tasks == {"upload", "validate", "analyze", "materialize"}
Ends == {"done", "failed"}
Verdicts == {"REJECTED", "VALIDATED_WITH_QUARANTINE", "VALIDATED_WITH_WARNINGS", "VALIDATED"}
Statuses == Verdicts \union {"CREATED", "FILES_UPLOADED", "ANALYZED", "MATERIALIZED"}

Manifests ==
  [history : [Sources -> Seq(Files)], status : Statuses, analyses : Nat,
   updated_at : BOOLEAN]

Typed ==
  /\ manifest \in Manifests
  /\ raw \in [Sources -> Seq(Files)]
  /\ DOMAIN pc = Workers /\ DOMAIN mem = Workers /\ DOMAIN draft = Workers
  /\ \A w \in Workers : pc[w] \notin {"idle", "lost"} =>
       /\ draft[w].task \in Tasks
       /\ draft[w].task = "upload" => draft[w].file \in Files

\* The history names stored files, and what was acknowledged is in it.
Lineage ==
  /\ \A s \in Sources : \A i \in DOMAIN manifest.history[s] :
       i \in DOMAIN raw[s] /\ raw[s][i] = manifest.history[s][i]
  /\ \A p \in promised :
       /\ p.file \in Files
       /\ p.revision \in DOMAIN manifest.history[SourceOf[p.file]]
       /\ manifest.history[SourceOf[p.file]][p.revision] = p.file

Reports ==
  /\ quality # None => Current(quality)
  /\ normalized # None => Current(normalized.of)
  /\ recommendation # None =>
       Current(recommendation.judged) /\ recommendation.of = normalized
  /\ scenario # None => Current(scenario.analysis.judged)

\* A materialised batch has what the analysis and the rows on disk make of it.
Final ==
  manifest.status = "MATERIALIZED" =>
    /\ recommendation # None
    /\ projection = [of |-> normalized, analysis |-> recommendation]
    /\ Projected(scenario) = projection

\* What holds of the request inside, by its task and progress.
Uploading(w) ==
  LET s == SourceOf[draft[w].file]
      next == Len(manifest.history[s]) + 1
      mine == Len(mem[w].history[s]) + 1
  IN /\ pc[w] \in {"upload", "store", "drop quality", "drop recommendation",
                   "drop scenario", "clear", "record"} \union Ends
     /\ pc[w] \notin {"upload"} \union Ends => Accepts(manifest)
     /\ pc[w] \notin {"upload", "store"} \union Ends =>
          next \in DOMAIN raw[s] /\ raw[s][next] = draft[w].file
     /\ pc[w] \in {"drop recommendation", "drop scenario", "clear", "record"} => quality = None
     /\ pc[w] \in {"drop scenario", "clear", "record"} => recommendation = None
     /\ pc[w] \in {"clear", "record"} => scenario = None
     /\ pc[w] = "record" => normalized = None
     /\ pc[w] = "done" =>
          mine \in DOMAIN manifest.history[s] /\ manifest.history[s][mine] = draft[w].file

Validating(w) ==
  /\ pc[w] \in {"validate", "drop recommendation", "drop projection", "drop scenario",
                "parse", "clear", "normalize", "judge", "record"} \union Ends
  /\ pc[w] \notin {"validate"} \union Ends => Accepts(manifest)
  /\ pc[w] \in {"drop projection", "drop scenario", "parse", "clear", "normalize", "judge",
               "record"} => recommendation = None
  /\ pc[w] \in {"clear", "normalize", "judge", "record"} => Current(draft[w].report)

Analyzing(w) ==
  /\ pc[w] \in {"analyze", "advise", "record"} \union Ends
  /\ pc[w] \in {"advise", "record"} => Accepts(manifest)
  /\ pc[w] = "advise" =>
       Current(draft[w].report.judged) /\ draft[w].report.of = normalized

Materializing(w) ==
  /\ pc[w] \in {"materialize", "project", "stage", "link", "record"} \union Ends
  /\ pc[w] \in {"project", "stage", "link", "record"} =>
       /\ recommendation # None
       /\ draft[w].report.of = normalized /\ draft[w].report.analysis = recommendation
  /\ pc[w] \in {"stage", "link", "record"} => projection = Projected(draft[w].report)
  /\ pc[w] \in {"link", "record"} => scenario = draft[w].report

AtWork(w) ==
  /\ lock = w
  /\ pc[w] \notin Ends => mem[w] = manifest
  /\ draft[w].task = "upload" => Uploading(w)
  /\ draft[w].task = "validate" => Validating(w)
  /\ draft[w].task = "analyze" => Analyzing(w)
  /\ draft[w].task = "materialize" => Materializing(w)

Disk == Lineage /\ Reports /\ Final
Inv == Typed /\ Disk /\ \A w \in Workers : pc[w] \notin Outside => AtWork(w)
IInv == usurped \in BOOLEAN /\ (~usurped => Inv)

-----------------------------------------------------------------------------
(* Evidence, and who is inside *)

\* What the reports are about changes only with the history or the named files.
LEMMA SameEvidence ==
  ASSUME Typed, manifest'.history = manifest.history,
         \A s \in Sources : \A i \in DOMAIN manifest.history[s] : raw'[s][i] = raw[s][i]
  PROVE  Evidence(manifest)' = Evidence(manifest)
<1>1. \A s \in Sources : manifest.history[s] # << >> =>
        Len(manifest.history[s]) \in DOMAIN manifest.history[s]
  BY DEF Typed
<1> QED BY <1>1 DEF Evidence

\* A verdict is none of the other states of a batch.
LEMMA VerdictStatus == \A v : StatusOf(v) \in Verdicts
BY DEF StatusOf, Verdicts

\* The one inside has the lock.
LEMMA Alone ==
  ASSUME Inv, NEW w \in Workers, pc[w] \notin Outside
  PROVE  \A u \in Workers : u # w => pc[u] \in Outside
BY DEF Inv, AtWork

\* For a step of the one inside it is enough to look at the disk and at itself.
LEMMA StepInside ==
  ASSUME Inv, NEW w \in Workers, pc[w] \notin Outside,
         NEW to, pc' = [pc EXCEPT ![w] = to],
         Typed', Disk', to \notin Outside => AtWork(w)'
  PROVE  Inv'
<1>1. SUFFICES ASSUME NEW u \in Workers, pc'[u] \notin Outside PROVE AtWork(u)'
  BY DEF Inv
<1>2. pc'[w] = to BY DEF Inv, Typed
<1>3. u = w BY <1>1, Alone DEF Inv, Typed
<1> QED BY <1>1, <1>2, <1>3

\* Reports come and go without a change of who is who.
LEMMA KeepTypes ==
  ASSUME Typed, NEW w \in Workers, pc[w] \notin {"idle", "lost"},
         NEW to, pc' = [pc EXCEPT ![w] = to], UNCHANGED <<manifest, raw, mem, draft>>
  PROVE  Typed'
BY DEF Typed

\* A report that is dropped leaves the others as true as they were.
LEMMA Dropping ==
  ASSUME Inv, NEW w \in Workers,
         \/ DropQuality(w) \/ DropRecommendation(w) \/ DropProjection(w)
         \/ DropScenario(w) \/ ClearRows(w)
  PROVE  Inv'
<1> DEFINE to == pc'[w]
<1>1. /\ pc[w] \in {"drop quality", "drop recommendation", "drop projection",
                    "drop scenario", "clear"}
      /\ pc' = [pc EXCEPT ![w] = to]
      /\ UNCHANGED <<manifest, raw, mem, draft, lock, promised>>
  BY DEF DropQuality, DropRecommendation, DropProjection, DropScenario, ClearRows,
         Moves, Goto, locks, Inv, Typed
<1>2. draft[w].task \in {"upload", "validate"} /\ AtWork(w)
  BY <1>1 DEF Inv, Typed, Outside, AtWork, Tasks, Analyzing, Materializing, Ends
<1>3. Accepts(manifest)
  BY <1>1, <1>2 DEF AtWork, Uploading, Validating, Ends
<1>4. Typed' BY <1>1, KeepTypes DEF Inv
<1>5. Evidence(manifest)' = Evidence(manifest)
  BY <1>1, SameEvidence DEF Inv
<1>6. Disk'
  <2>1. Lineage' BY <1>1 DEF Inv, Disk, Lineage
  <2>2. Reports'
    <3>1. CASE ~ClearRows(w)
      BY <1>1, <1>5, <3>1 DEF Inv, Disk, Reports, Current, DropQuality, DropRecommendation,
         DropProjection, DropScenario
    <3>2. CASE ClearRows(w)
      <4>1. recommendation = None
        BY <1>2, <3>2 DEF AtWork, Uploading, Validating, ClearRows, Moves
      <4>2. /\ UNCHANGED <<quality, recommendation, scenario>>
            /\ normalized' # None => normalized # None /\ normalized'.of = normalized.of
        BY <3>2 DEF ClearRows, RowFiles
      <4> QED BY <1>5, <4>1, <4>2 DEF Inv, Disk, Reports, Current
    <3> QED BY <3>1, <3>2
  <2>3. Final' BY <1>1, <1>3 DEF Final, Accepts
  <2> QED BY <2>1, <2>2, <2>3 DEF Disk
<1>7. AtWork(w)'
  <2>1. /\ (lock = w)'
        /\ mem'[w] = manifest'
    BY <1>1, <1>2, ZenonT(60) DEF AtWork, Ends
  <2>2. ASSUME draft[w].task = "upload" PROVE Uploading(w)'
    BY <1>1, <1>2, <1>3, <2>2 DEF AtWork, Uploading, Accepts, DropQuality,
         DropRecommendation, DropProjection, DropScenario, ClearRows, Moves, Goto,
         Task, Inv, Typed, Ends
  <2>3. ASSUME draft[w].task = "validate" PROVE Validating(w)'
    BY <1>1, <1>2, <1>3, <1>5, <2>3 DEF AtWork, Validating, Accepts, Current, DropQuality,
         DropRecommendation, DropProjection, DropScenario, ClearRows, Moves, Goto,
         Task, Inv, Typed, Ends
  <2> QED BY <1>1, <1>2, <2>1, <2>2, <2>3 DEF AtWork
<1> QED BY <1>1, <1>4, <1>6, <1>7, StepInside DEF Outside

-----------------------------------------------------------------------------
(* Steps that leave the disk alone *)

Still == UNCHANGED <<manifest, raw, reports, promised>>

LEMMA StillDisk ==
  ASSUME Inv, Still
  PROVE  Disk' /\ Evidence(manifest)' = Evidence(manifest)
<1>1. Evidence(manifest)' = Evidence(manifest) BY SameEvidence DEF Inv, Still
<1>2. Lineage' BY DEF Inv, Disk, Lineage, Still
<1>3. Reports' BY <1>1 DEF Inv, Disk, Reports, Current, Still, reports
<1>4. Final' BY DEF Inv, Disk, Final, Still, reports
<1> QED BY <1>1, <1>2, <1>3, <1>4 DEF Disk

\* Whoever asks, waits, gives up or dies leaves the one inside to its work.
LEMMA StepOutside ==
  ASSUME Inv, Still, UNCHANGED lock, NEW w \in Workers,
         NEW to \in Outside, pc' = [pc EXCEPT ![w] = to],
         \A u \in Workers : u # w => mem'[u] = mem[u] /\ draft'[u] = draft[u],
         Typed'
  PROVE  Inv'
<1>1. Disk' /\ Evidence(manifest)' = Evidence(manifest) BY StillDisk
<1>2. SUFFICES ASSUME NEW u \in Workers, pc'[u] \notin Outside PROVE AtWork(u)'
  BY <1>1 DEF Inv
<1>3. u # w /\ pc'[u] = pc[u] /\ mem'[u] = mem[u] /\ draft'[u] = draft[u]
  BY <1>2 DEF Inv, Typed
<1>4. AtWork(u) BY <1>2, <1>3, SMTT(30) DEF Inv
<1>5. Uploading(u) => Uploading(u)'
  BY <1>3 DEF Uploading, Accepts, Still, reports
<1>6. Validating(u) => Validating(u)'
  BY <1>1, <1>3 DEF Validating, Accepts, Still, Current, reports
<1>7. Analyzing(u) => Analyzing(u)'
  BY <1>1, <1>3 DEF Analyzing, Accepts, Still, Current, reports
<1>8. Materializing(u) => Materializing(u)'
  BY <1>3 DEF Materializing, Still, reports
<1> QED BY <1>3, <1>4, <1>5, <1>6, <1>7, <1>8 DEF AtWork, Still

Requests ==
  [task : {"upload"}, file : Files, replace : BOOLEAN] \union
  [task : {"validate", "analyze"}] \union [task : {"materialize"}, run : BOOLEAN]

LEMMA Waiting ==
  ASSUME Inv, NEW w \in Workers,
         Ask(w) \/ FindExpired(w) \/ TimeOut(w) \/ Die(w)
  PROVE  Inv'
<1>1. ASSUME Ask(w) PROVE Inv'
  <2>1. PICK request \in Requests : Want(w, request)
    <3>1. CASE AskUpload(w)
      BY <3>1 DEF AskUpload, Requests
    <3>2. CASE AskValidate(w)
      <4>1. [task |-> "validate"] \in Requests BY DEF Requests
      <4> QED BY <3>2, <4>1 DEF AskValidate
    <3>3. CASE AskAnalyze(w)
      <4>1. [task |-> "analyze"] \in Requests BY DEF Requests
      <4> QED BY <3>3, <4>1 DEF AskAnalyze
    <3>4. CASE AskMaterialize(w)
      BY <3>4 DEF AskMaterialize, Requests
    <3> QED BY <1>1, <3>1, <3>2, <3>3, <3>4 DEF Ask
  <2>2. pc' = [pc EXCEPT ![w] = "locking"] /\ draft' = [draft EXCEPT ![w] = request]
    BY <2>1 DEF Want, Moves, Goto, Drafts
  <2>3. Still /\ UNCHANGED <<lock, mem>> BY <2>1 DEF Want, Still, locks
  <2>4. request.task \in Tasks /\ (request.task = "upload" => request.file \in Files)
    BY DEF Requests, Tasks
  <2>5. Typed' BY <2>2, <2>3, <2>4 DEF Inv, Typed, Still
  <2> QED BY <2>2, <2>3, <2>5, StepOutside DEF Inv, Typed, Outside
<1>2. ASSUME FindExpired(w) PROVE Inv'
  <2>1. Still /\ UNCHANGED <<lock, mem, draft>> /\ pc[w] = "locking"
        /\ pc' = [pc EXCEPT ![w] = "breaking"]
    BY <1>2 DEF FindExpired, Moves, Goto, Still, locks
  <2>2. Typed' BY <2>1, KeepTypes DEF Inv, Still
  <2> QED BY <2>1, <2>2, StepOutside DEF Outside
<1>3. ASSUME TimeOut(w) \/ Die(w) PROVE Inv'
  <2>1. Still /\ UNCHANGED lock
        /\ mem' = [mem EXCEPT ![w] = None] /\ draft' = [draft EXCEPT ![w] = None]
    BY <1>3 DEF TimeOut, Die, Forgets, Drafts, Still, locks
  <2>2. PICK to \in {"idle", "lost"} : pc' = [pc EXCEPT ![w] = to]
    BY <1>3 DEF TimeOut, Die, Moves, Goto
  <2>3. Typed' BY <2>1, <2>2 DEF Inv, Typed, Still
  <2> QED BY <2>1, <2>2, <2>3, StepOutside DEF Inv, Typed, Outside
<1> QED BY <1>1, <1>2, <1>3

LEMMA Idling ==
  ASSUME Inv, UNCHANGED <<manifest, raw, reports, lock, pc, mem, draft, promised>>
  PROVE  Inv'
<1>1. Disk' /\ Evidence(manifest)' = Evidence(manifest) BY StillDisk DEF Still
<1>2. Typed' BY DEF Inv, Typed
<1>3. ASSUME NEW w \in Workers, AtWork(w) PROVE AtWork(w)'
  BY <1>1, <1>3, ZenonT(60) DEF AtWork, Uploading, Validating, Analyzing, Materializing,
       Accepts, Current, reports
<1> QED BY <1>1, <1>2, <1>3 DEF Inv

\* Nobody alive is inside when a lock is broken and no rule with it.
LEMMA Breaking ==
  ASSUME Inv, NEW w \in Workers, BreakLock(w), ~usurped'
  PROVE  Inv'
<1>1. Still /\ UNCHANGED <<mem, draft>> /\ pc[w] = "breaking"
      /\ pc' = [pc EXCEPT ![w] = "locking"]
  BY DEF BreakLock, Moves, Goto, Still
<1>2. Typed' BY <1>1, KeepTypes DEF Inv, Still
<1>3. Disk' BY <1>1, StillDisk
<1>4. \A u \in Workers : pc[u] \in Outside
  <2>1. SUFFICES ASSUME NEW u \in Workers, pc[u] \notin Outside PROVE FALSE OBVIOUS
  <2>2. lock = u BY <2>1 DEF Inv, AtWork
  <2>3. Alive(lock) BY <2>1, <2>2 DEF Alive, Outside
  <2> QED BY <2>2, <2>3, BatchAssumption DEF BreakLock
<1>5. \A u \in Workers : pc'[u] \in Outside
  BY <1>1, <1>4 DEF Inv, Typed, Outside
<1> QED BY <1>2, <1>3, <1>5 DEF Inv

\* Whoever gets the lock finds nobody inside, and reads the manifest there is.
LEMMA Entering ==
  ASSUME Inv, NEW w \in Workers, TakeLock(w)
  PROVE  Inv'
<1>1. /\ Still /\ lock = None /\ lock' = w /\ draft' = draft
      /\ pc[w] = "locking" /\ pc' = [pc EXCEPT ![w] = draft[w].task]
      /\ mem' = [mem EXCEPT ![w] = manifest]
  BY DEF TakeLock, Moves, Goto, Still
<1>2. draft[w].task \in Tasks BY <1>1 DEF Inv, Typed
<1>3. Disk' BY <1>1, StillDisk
<1>4. Typed' BY <1>1, <1>2 DEF Inv, Typed, Still
<1>5. pc'[w] = draft[w].task /\ mem'[w] = manifest BY <1>1 DEF Inv, Typed
<1>6. AtWork(w)'
  BY <1>1, <1>2, <1>5 DEF AtWork, Uploading, Validating, Analyzing, Materializing, Tasks,
     Ends, Still
<1>7. \A u \in Workers : u # w => pc'[u] \in Outside
  <2>1. \A u \in Workers : pc[u] \in Outside BY <1>1, BatchAssumption DEF Inv, AtWork
  <2> QED BY <1>1, <2>1 DEF Inv, Typed
<1> QED BY <1>3, <1>4, <1>6, <1>7 DEF Inv

\* What is acknowledged is in the history by then.
LEMMA Leaving ==
  ASSUME Inv, NEW w \in Workers, Release(w)
  PROVE  Inv'
<1>1. /\ UNCHANGED <<manifest, raw, reports>>
      /\ pc[w] \in Ends /\ pc' = [pc EXCEPT ![w] = "idle"]
      /\ mem' = [mem EXCEPT ![w] = None] /\ draft' = [draft EXCEPT ![w] = None]
  BY DEF Release, Goto, Forgets, Drafts, Ends
<1>2. AtWork(w) BY <1>1 DEF Inv, Ends, Outside
<1>3. Evidence(manifest)' = Evidence(manifest) BY <1>1, SameEvidence DEF Inv
<1>4. Typed' BY <1>1 DEF Inv, Typed
<1>5. Disk'
  <2>1. CASE pc[w] = "done" /\ draft[w].task = "upload"
    <3> DEFINE s == SourceOf[draft[w].file]
               mine == Len(mem[w].history[s]) + 1
    <3>1. promised' = promised \union {[file |-> draft[w].file, revision |-> mine]}
      BY <2>1, SMTT(30) DEF Release
    <3>2. /\ draft[w].file \in Files
          /\ mine \in DOMAIN manifest.history[s]
          /\ manifest.history[s][mine] = draft[w].file
      BY <1>2, <2>1, ZenonT(60) DEF AtWork, Uploading, Inv, Typed, Ends
    <3> DEFINE new == [file |-> draft[w].file, revision |-> mine]
    <3>3. /\ new.file \in Files
          /\ new.revision \in DOMAIN manifest.history[SourceOf[new.file]]
          /\ manifest.history[SourceOf[new.file]][new.revision] = new.file
      BY <3>2
    <3>4. promised' = promised \union {new} BY <3>1
    <3> HIDE DEF new
    <3>5. Lineage' BY <1>1, <3>3, <3>4 DEF Inv, Disk, Lineage
    <3>6. Reports' BY <1>1, <1>3 DEF Inv, Disk, Reports, Current, reports
    <3>7. Final' BY <1>1 DEF Inv, Disk, Final, reports
    <3> QED BY <3>5, <3>6, <3>7 DEF Disk
  <2>2. CASE ~(pc[w] = "done" /\ draft[w].task = "upload")
    BY <1>1, <2>2, StillDisk DEF Release, Still
  <2> QED BY <2>1, <2>2
<1> QED BY <1>1, <1>4, <1>5, StepInside DEF Ends, Outside

-----------------------------------------------------------------------------
(* What a request does first *)

LEMMA Refusing ==
  ASSUME Inv, NEW w \in Workers, pc[w] \notin Outside, Refuse(w)
  PROVE  Inv'
<1>1. Still /\ UNCHANGED <<lock, mem, draft>> /\ pc' = [pc EXCEPT ![w] = "failed"]
  BY DEF Refuse, Goto, Still, locks
<1>2. AtWork(w) BY DEF Inv
<1>3. Typed' BY <1>1, KeepTypes, Zenon DEF Inv, Still, Outside
<1>4. pc'[w] = "failed" BY <1>1 DEF Inv, Typed
<1>5. AtWork(w)'
  BY <1>1, <1>2, <1>4 DEF AtWork, Uploading, Validating, Analyzing, Materializing, Ends
<1> QED BY <1>1, <1>3, <1>5, StillDisk, StepInside

LEMMA Starting ==
  ASSUME Inv, NEW w \in Workers, Start(w)
  PROVE  Inv'
<1>1. pc[w] \in Tasks /\ pc[w] \notin Outside
  BY ZenonT(60) DEF Start, Upload, Validate, Analyze, Materialize, Tasks, Outside
<1>2. AtWork(w) /\ draft[w].task = pc[w] /\ mem[w] = manifest
  BY <1>1 DEF Inv, AtWork, Typed, Tasks, Ends, Uploading, Validating, Analyzing,
     Materializing, Outside
<1>3. CASE Refuse(w) BY <1>1, <1>3, Refusing
<1>4. ASSUME Upload(w) \/ Validate(w), ~Refuse(w) PROVE Inv'
  <2>1. PICK to \in {"store", "drop recommendation"} :
          /\ Proceed(w, to) /\ Accepts(manifest)
          /\ to = "store" <=> draft[w].task = "upload"
          /\ draft[w].task \in {"upload", "validate"}
    BY <1>2, <1>4 DEF Upload, Validate
  <2>2. Still /\ UNCHANGED <<lock, mem, draft>> /\ pc' = [pc EXCEPT ![w] = to]
    BY <2>1 DEF Proceed, Goto, Still, locks
  <2>3. Typed' BY <1>1, <2>2, KeepTypes DEF Inv, Still, Outside
  <2>4. pc'[w] = to BY <2>2, ZenonT(60) DEF Inv, Typed
  <2>5. AtWork(w)'
    BY <1>2, <2>1, <2>2, <2>4 DEF AtWork, Uploading, Validating, Accepts, Still, Ends
  <2> QED BY <1>1, <2>2, <2>3, <2>5, StillDisk, StepInside
<1>5. ASSUME Analyze(w), ~Refuse(w) PROVE Inv'
  <2>1. PICK style \in Styles :
          Drafts(w, [task |-> "analyze", report |-> Analysis(normalized, quality, style)])
    BY <1>5 DEF Analyze
  <2> DEFINE report == Analysis(normalized, quality, style)
  <2>2. report.of = normalized /\ report.judged = quality BY DEF Analysis
  <2> HIDE DEF report
  <2>3. /\ Still /\ UNCHANGED <<lock, mem>> /\ pc' = [pc EXCEPT ![w] = "advise"]
        /\ draft' = [draft EXCEPT ![w] = [task |-> "analyze", report |-> report]]
        /\ quality # None /\ Accepts(manifest)
    BY <1>2, <1>5, <2>1 DEF Analyze, Goto, Drafts, Still, locks, report
  <2>4. Disk' /\ Evidence(manifest)' = Evidence(manifest) BY <2>3, StillDisk
  <2>5. Typed' BY <2>3 DEF Inv, Typed, Still, Tasks
  <2>6. pc'[w] = "advise" /\ draft'[w] = [task |-> "analyze", report |-> report]
    BY <2>3 DEF Inv, Typed
  <2>7. Current(quality)
    BY <2>3 DEF Inv, Disk, Reports
  <2>8. Analyzing(w)'
    BY <2>2, <2>3, <2>4, <2>6, <2>7 DEF Analyzing, Accepts, Current, Still, reports
  <2>9. AtWork(w)' BY <1>2, <2>3, <2>6, <2>8 DEF AtWork, Still
  <2> QED BY <1>1, <2>3, <2>4, <2>5, <2>9, StepInside
<1>6. ASSUME Materialize(w), ~Refuse(w) PROVE Inv'
  <2> DEFINE report == [of |-> normalized, analysis |-> recommendation,
                        run |-> draft[w].run, created_at |-> Now(w)]
             mine == [task |-> "materialize", report |-> report]
  <2>1. /\ Still /\ UNCHANGED <<lock, mem>> /\ pc' = [pc EXCEPT ![w] = "project"]
        /\ draft' = [draft EXCEPT ![w] = mine] /\ recommendation # None
    BY <1>6 DEF Materialize, Goto, Drafts, Still, locks
  <2>2. Typed' BY <2>1 DEF Inv, Typed, Still, Tasks
  <2>3. pc'[w] = "project" /\ draft'[w] = mine BY <2>1 DEF Inv, Typed
  <2>4. AtWork(w)' BY <1>2, <2>1, <2>3 DEF AtWork, Materializing, Still, reports
  <2> QED BY <1>1, <2>1, <2>2, <2>4, StillDisk, StepInside
<1> QED BY <1>3, <1>4, <1>5, <1>6 DEF Start

-----------------------------------------------------------------------------
(* One write after the other *)

\* The stored files after a file is written as revision n.
Written(stored, n, x) ==
  IF n \in DOMAIN stored THEN [stored EXCEPT ![n] = x] ELSE Append(stored, x)

\* Stored files go as far as a history that names them.
LEMMA AtLeast ==
  ASSUME NEW S, NEW named \in Seq(S), NEW stored \in Seq(S),
         DOMAIN named \subseteq DOMAIN stored
  PROVE  Len(named) \in Nat /\ Len(named) <= Len(stored)
<1>1. Len(named) = 0 \/ Len(named) \in DOMAIN named OBVIOUS
<1> QED BY <1>1

\* Writing the revision that follows a history keeps the files it names.
LEMMA Extension ==
  ASSUME NEW S, NEW stored \in Seq(S), NEW x \in S, NEW n \in Nat \ {0},
         n <= Len(stored) + 1
  PROVE  /\ Written(stored, n, x) \in Seq(S)
         /\ n \in DOMAIN Written(stored, n, x) /\ Written(stored, n, x)[n] = x
         /\ \A i \in 1..(n - 1) : /\ i \in DOMAIN Written(stored, n, x)
                                /\ Written(stored, n, x)[i] = stored[i]
<1>1. CASE n \in DOMAIN stored BY <1>1 DEF Written
<1>2. CASE n \notin DOMAIN stored
  <2>1. n = Len(stored) + 1 BY <1>2
  <2> QED BY <1>2, <2>1 DEF Written
<1> QED BY <1>1, <1>2

\* The new revision is not yet in the history, which names what it named.
LEMMA Storing ==
  ASSUME Inv, NEW w \in Workers, Store(w)
  PROVE  Inv'
<1> DEFINE s == SourceOf[draft[w].file]
           next == Len(manifest.history[s]) + 1
<1>1. /\ UNCHANGED <<manifest, reports, lock, mem, draft, promised>>
      /\ pc[w] = "store" /\ pc' = [pc EXCEPT ![w] = "drop quality"]
  BY DEF Store, Moves, Goto, locks
<1>2. /\ AtWork(w) /\ draft[w].task = "upload" /\ mem[w] = manifest
      /\ Accepts(manifest)
  BY <1>1 DEF Inv, Typed, AtWork, Outside, Ends, Tasks, Uploading, Validating, Analyzing,
     Materializing
<1>3. /\ draft[w].file \in Files /\ s \in Sources
      /\ manifest.history[s] \in Seq(Files) /\ raw[s] \in Seq(Files)
  BY <1>1, <1>2, FilesAssumption DEF Inv, Typed, Manifests
<1> DEFINE files == Written(raw[s], next, draft[w].file)
<1>4. raw' = [raw EXCEPT ![s] = files] BY <1>2, ZenonT(60) DEF Store, Written
<1>5. /\ files \in Seq(Files)
      /\ next \in DOMAIN files /\ files[next] = draft[w].file
      /\ \A i \in DOMAIN manifest.history[s] : i \in DOMAIN files /\ files[i] = raw[s][i]
  <2>1. \A i \in DOMAIN manifest.history[s] : i \in DOMAIN raw[s]
    BY <1>3 DEF Inv, Disk, Lineage
  <2> DEFINE named == manifest.history[s]
             stored == raw[s]
             x == draft[w].file
  <2>2. named \in Seq(Files) /\ stored \in Seq(Files) /\ x \in Files BY <1>3
  <2>3. DOMAIN named \subseteq DOMAIN stored BY <2>1
  <2> HIDE DEF named, stored, x
  <2>4. Len(named) \in Nat /\ Len(named) <= Len(stored) BY <2>2, <2>3, AtLeast
  <2>5. PICK n \in Nat \ {0} : n = Len(named) + 1 /\ n <= Len(stored) + 1
    BY <2>2, <2>4
  <2>6. DOMAIN named = 1..(n - 1) BY <2>2, <2>5
  <2>7. /\ Written(stored, n, x) \in Seq(Files)
        /\ n \in DOMAIN Written(stored, n, x) /\ Written(stored, n, x)[n] = x
        /\ \A i \in 1..(n - 1) : /\ i \in DOMAIN Written(stored, n, x)
                               /\ Written(stored, n, x)[i] = stored[i]
    BY <2>2, <2>5, Extension
  <2>8. n = next BY <2>5 DEF named
  <2> QED BY <2>6, <2>7, <2>8, Zenon DEF named, stored, x
<1> HIDE DEF files
<1>6. \A t \in Sources : \A i \in DOMAIN manifest.history[t] :
        i \in DOMAIN raw'[t] /\ raw'[t][i] = raw[t][i]
  BY <1>3, <1>4, <1>5 DEF Inv, Typed, Disk, Lineage
<1>7. Evidence(manifest)' = Evidence(manifest) BY <1>1, <1>6, SameEvidence DEF Inv
<1>8. Typed' BY <1>1, <1>3, <1>4, <1>5 DEF Inv, Typed
<1>9. Disk'
  <2>1. Lineage' BY <1>1, <1>6 DEF Inv, Disk, Lineage
  <2>2. Reports' BY <1>1, <1>7 DEF Inv, Disk, Reports, Current, reports
  <2>3. Final' BY <1>1 DEF Inv, Disk, Final, reports
  <2> QED BY <2>1, <2>2, <2>3 DEF Disk
<1>10. pc'[w] = "drop quality" /\ raw'[s] = raw'[SourceOf[draft'[w].file]]
  BY <1>1 DEF Inv, Typed
<1>11. next \in DOMAIN raw'[s] /\ raw'[s][next] = draft[w].file
  BY <1>3, <1>4, <1>5 DEF Inv, Typed
<1>12. Uploading(w)'
  BY <1>1, <1>2, <1>10, <1>11 DEF Uploading, Accepts, Ends
<1>13. AtWork(w)' BY <1>1, <1>2, <1>10, <1>12 DEF AtWork
<1> QED BY <1>1, <1>8, <1>9, <1>13, StepInside DEF Outside

\* A validation reads the files that the manifest on disk names.
LEMMA Parsing ==
  ASSUME Inv, NEW w \in Workers, Parse(w)
  PROVE  Inv'
<1>1. pc[w] = "parse" BY DEF Parse
<1>2. AtWork(w) /\ draft[w].task = "validate" /\ mem[w] = manifest /\ Accepts(manifest)
  BY <1>1 DEF Inv, Typed, AtWork, Outside, Ends, Tasks, Uploading, Validating, Analyzing,
     Materializing
<1>3. CASE Refuse(w) BY <1>1, <1>3, Refusing DEF Outside
<1>4. CASE ~Refuse(w)
  <2> DEFINE e == Evidence(manifest)
             mine == [task |-> "validate", report |-> e]
  <2>0. Evidence(mem[w]) = e BY <1>2
  <2> HIDE DEF e
  <2>1. /\ Still /\ UNCHANGED <<lock, mem>> /\ pc' = [pc EXCEPT ![w] = "clear"]
        /\ draft' = [draft EXCEPT ![w] = mine]
    BY <1>4, <2>0 DEF Parse, Goto, Drafts, Still, locks
  <2>2. Disk' /\ Evidence(manifest)' = e BY <2>1, StillDisk DEF e
  <2>3. Typed' BY <2>1 DEF Inv, Typed, Still, Tasks
  <2>4. pc'[w] = "clear" /\ draft'[w] = mine BY <2>1 DEF Inv, Typed
  <2>5. Validating(w)'
    <3>1. Current(draft[w].report)' BY <2>2, <2>4 DEF Current
    <3>2. recommendation' = None
      BY <1>1, <1>2, <2>1 DEF AtWork, Validating, Still, reports
    <3> QED BY <1>2, <2>1, <2>4, <3>1, <3>2 DEF Validating, Accepts, Still
  <2>6. AtWork(w)' BY <1>2, <2>1, <2>4, <2>5 DEF AtWork, Still
  <2> QED BY <1>1, <2>1, <2>2, <2>3, <2>6, StepInside DEF Outside
<1> QED BY <1>3, <1>4

\* What a report is written by, and what its writer leaves alone.
Makes(w, to) ==
  /\ pc[w] \notin Outside \union Ends /\ to \notin Outside
  /\ pc' = [pc EXCEPT ![w] = to]
  /\ UNCHANGED <<manifest, raw, mem, draft, lock, promised>>

LEMMA Making ==
  ASSUME Inv, NEW w \in Workers, NEW to, Makes(w, to)
  PROVE  /\ Typed' /\ Lineage' /\ Evidence(manifest)' = Evidence(manifest)
         /\ pc'[w] = to /\ AtWork(w) /\ mem[w] = manifest
<1>1. Typed' BY KeepTypes DEF Inv, Makes, Outside
<1>2. Lineage' BY DEF Inv, Disk, Lineage, Makes
<1>3. Evidence(manifest)' = Evidence(manifest) BY SameEvidence DEF Inv, Makes
<1> QED BY <1>1, <1>2, <1>3 DEF Inv, Typed, AtWork, Makes

LEMMA Reporting ==
  ASSUME Inv, NEW w \in Workers, Normalize(w) \/ Judge(w) \/ Advise(w)
  PROVE  Inv'
<1>1. PICK to \in {"judge", "record"} : Makes(w, to)
  BY DEF Normalize, Judge, Advise, Makes, Moves, Goto, locks, Outside, Ends
<1>2. /\ Typed' /\ Lineage' /\ Evidence(manifest)' = Evidence(manifest)
      /\ pc'[w] = to /\ AtWork(w) /\ mem[w] = manifest
  BY <1>1, Making
<1>3. /\ pc[w] \in {"normalize", "judge", "advise"}
      /\ pc[w] = "advise" <=> draft[w].task = "analyze"
      /\ draft[w].task \in {"validate", "analyze"}
      /\ Accepts(manifest)
  BY <1>2 DEF Normalize, Judge, Advise, Moves, AtWork, Inv, Typed, Tasks, Ends, Uploading,
     Validating, Analyzing, Materializing
<1>4. Reports'
  <2>1. CASE Normalize(w) \/ Judge(w)
    <3>1. Current(draft[w].report) /\ recommendation = None
      BY <1>2, <1>3, <2>1 DEF AtWork, Validating, Normalize, Judge, Moves
    <3> QED BY <1>2, <2>1, <3>1 DEF Normalize, Judge, Inv, Disk, Reports, Current
  <2>2. CASE Advise(w)
    <3>1. Current(draft[w].report.judged) /\ draft[w].report.of = normalized
      BY <1>2, <1>3, <2>2 DEF AtWork, Analyzing, Advise, Moves
    <3> QED BY <1>2, <2>2, <3>1 DEF Advise, Inv, Disk, Reports, Current
  <2> QED BY <2>1, <2>2
<1>5. Final' BY <1>1, <1>3 DEF Final, Accepts, Makes
<1>6. AtWork(w)'
  <2>1. (lock = w)' /\ mem'[w] = manifest' BY <1>1, <1>2 DEF AtWork, Makes
  <2>2. ASSUME draft[w].task = "validate" PROVE Validating(w)'
    <3>1. Current(draft[w].report) /\ recommendation = None
      BY <1>2, <1>3, <2>2 DEF AtWork, Validating
    <3>2. Current(draft[w].report)' BY <1>1, <1>2, <3>1 DEF Current, Makes
    <3>3. recommendation' = recommendation
      BY <1>3, <2>2 DEF Normalize, Judge, Advise, Moves
    <3> QED BY <1>1, <1>2, <1>3, <3>1, <3>2, <3>3 DEF Validating, Accepts, Makes
  <2>3. ASSUME draft[w].task = "analyze" PROVE Analyzing(w)'
    <3>1. to = "record" BY <1>2, <1>3, <2>3 DEF Normalize, Judge, Advise, Moves, Goto, Inv, Typed
    <3> QED BY <1>1, <1>2, <1>3, <3>1 DEF Analyzing, Accepts, Makes
  <2> QED BY <1>1, <1>3, <2>1, <2>2, <2>3 DEF AtWork, Makes
<1> QED BY <1>1, <1>2, <1>4, <1>5, <1>6, StepInside DEF Disk, Makes

\* A materialised batch gets its projection and scenario again, of the same.
LEMMA Projecting ==
  ASSUME Inv, NEW w \in Workers, Project(w) \/ Stage(w) \/ Link(w)
  PROVE  Inv'
<1>1. PICK to \in {"stage", "link", "record"} : Makes(w, to)
  BY DEF Project, Stage, Link, Makes, Moves, Goto, locks, Outside, Ends
<1>2. /\ Typed' /\ Lineage' /\ Evidence(manifest)' = Evidence(manifest)
      /\ pc'[w] = to /\ AtWork(w) /\ mem[w] = manifest
  BY <1>1, Making
<1>3. /\ pc[w] \in {"project", "stage", "link"} /\ draft[w].task = "materialize"
      /\ Materializing(w)
  BY <1>2 DEF Project, Stage, Link, Moves, AtWork, Inv, Typed, Tasks, Ends, Uploading,
     Validating, Analyzing
<1>4. /\ recommendation # None
      /\ draft[w].report.of = normalized /\ draft[w].report.analysis = recommendation
  BY <1>3 DEF Materializing
<1>5. UNCHANGED <<normalized, quality, recommendation>>
  BY DEF Project, Stage, Link
<1>6. Reports'
  <2>1. draft[w].report.analysis = recommendation BY <1>4
  <2>2. scenario' = scenario \/ scenario' = draft[w].report BY DEF Project, Stage, Link
  <2> QED BY <1>2, <1>4, <1>5, <2>1, <2>2 DEF Inv, Disk, Reports, Current
<1>7. Final'
  BY <1>1, <1>3, <1>4, <1>5 DEF Inv, Disk, Final, Project, Stage, Link, Makes, Projected
<1>8. AtWork(w)'
  BY <1>1, <1>2, <1>3, <1>4, <1>5 DEF AtWork, Materializing, Project, Stage, Link, Moves,
     Goto, Makes, Inv, Typed, Ends, Projected
<1> QED BY <1>1, <1>2, <1>6, <1>7, <1>8, StepInside DEF Disk, Makes

\* A history with one more file.
LEMMA OneMore ==
  ASSUME NEW S, NEW named \in Seq(S), NEW x \in S
  PROVE  /\ Len(named) + 1 \in DOMAIN Append(named, x)
         /\ Append(named, x)[Len(named) + 1] = x
         /\ \A i \in DOMAIN named : /\ i \in DOMAIN Append(named, x)
                                  /\ Append(named, x)[i] = named[i]
         /\ \A i \in DOMAIN Append(named, x) : i \in DOMAIN named \/ i = Len(named) + 1
OBVIOUS

\* The manifest that is written is the one on disk with the change.
LEMMA Recording ==
  ASSUME Inv, NEW w \in Workers, Record(w)
  PROVE  Inv'
<1> DEFINE f == draft[w].file
           s == SourceOf[f]
           status == StatusOf(VerdictOn(draft[w].report))
<1>1. /\ UNCHANGED <<raw, reports, lock, mem, draft, promised>>
      /\ pc[w] = "record" /\ pc' = [pc EXCEPT ![w] = "done"] /\ pc'[w] = "done"
  BY DEF Record, Moves, Goto, locks, Inv, Typed
<1>2. /\ AtWork(w) /\ mem[w] = manifest /\ draft[w].task \in Tasks
      /\ draft[w].task = "upload" => f \in Files
      /\ manifest \in Manifests
  BY <1>1 DEF Inv, Typed, AtWork, Outside, Ends
<1> DEFINE m == [manifest EXCEPT !.updated_at = Now(w)]
<1>3. /\ m \in Manifests /\ m.history = manifest.history /\ m.analyses = manifest.analyses
      /\ m = [mem[w] EXCEPT !.updated_at = Now(w)]
  BY <1>2 DEF Manifests, Now
<1> HIDE DEF m
<1>4. CASE draft[w].task = "upload"
  <2>1. manifest' = [m EXCEPT !.history[s] = Append(@, f), !.status = "FILES_UPLOADED"]
    BY <1>4, <1>3 DEF Record, Recorded, Task
  <2>2. /\ s \in Sources /\ manifest.history[s] \in Seq(Files)
        /\ quality = None /\ recommendation = None /\ scenario = None /\ normalized = None
        /\ Len(manifest.history[s]) + 1 \in DOMAIN raw[s]
        /\ raw[s][Len(manifest.history[s]) + 1] = f
    BY <1>1, <1>2, <1>4, FilesAssumption, SMTT(30) DEF AtWork, Uploading, Ends, Manifests
  <2>3. /\ manifest'.history = [manifest.history EXCEPT ![s] = Append(@, f)]
        /\ manifest'.status = "FILES_UPLOADED" /\ manifest'.analyses = manifest.analyses
        /\ manifest'.history[s] = Append(manifest.history[s], f)
    <3> DEFINE more == [manifest.history EXCEPT ![s] = Append(@, f)]
    <3>1. manifest' = [m EXCEPT !.history = more, !.status = "FILES_UPLOADED"]
      BY <1>3, <2>1, Zenon
    <3>2. more[s] = Append(manifest.history[s], f) BY <1>2, <2>2 DEF Manifests
    <3> HIDE DEF more
    <3>3. /\ manifest'.history = more
          /\ manifest'.status = "FILES_UPLOADED" /\ manifest'.analyses = manifest.analyses
      BY <1>3, <3>1 DEF Manifests
    <3> QED BY <3>2, <3>3 DEF more
  <2>4. Append(manifest.history[s], f) \in Seq(Files)
    BY <1>2, <1>4, <2>2
  <2>5. manifest' \in Manifests
    BY <1>2, <1>3, <2>1, <2>2, <2>4 DEF Manifests, Statuses
  <2>6. Typed' BY <1>1, <2>5 DEF Inv, Typed
  <2> DEFINE named == manifest.history[s]
             next == Len(named) + 1
             more == Append(named, f)
  <2>7. /\ next \in DOMAIN more /\ more[next] = f
        /\ \A i \in DOMAIN named : i \in DOMAIN more /\ more[i] = named[i]
        /\ \A i \in DOMAIN more : i \in DOMAIN named \/ i = next
    <3>1. f \in Files /\ named \in Seq(Files) BY <1>2, <1>4, <2>2
    <3> HIDE DEF f, named
    <3> QED BY <3>1, OneMore
  <2>8. Lineage'
    <3>1. \A t \in Sources : manifest'.history[t] = IF t = s THEN more ELSE manifest.history[t]
      BY <1>2, <2>2, <2>3, Zenon DEF Manifests
    <3>2. named = manifest.history[s] /\ raw[s][next] = f /\ next \in DOMAIN raw[s]
      BY <2>2
    <3> HIDE DEF more, next, named, s
    <3>3. ASSUME NEW t \in Sources, NEW i \in DOMAIN manifest'.history[t]
          PROVE  i \in DOMAIN raw[t] /\ raw[t][i] = manifest'.history[t][i]
      BY <2>7, <3>1, <3>2, <3>3 DEF Inv, Disk, Lineage
    <3>4. ASSUME NEW p \in promised
          PROVE  /\ p.file \in Files
                 /\ p.revision \in DOMAIN manifest'.history[SourceOf[p.file]]
                 /\ manifest'.history[SourceOf[p.file]][p.revision] = p.file
      <4>1. p.file \in Files /\ SourceOf[p.file] \in Sources
        BY FilesAssumption DEF Inv, Disk, Lineage
      <4> QED BY <2>7, <3>1, <3>2, <4>1 DEF Inv, Disk, Lineage
    <3> QED BY <1>1, <3>3, <3>4, SMTT(30) DEF Lineage
  <2>9. Reports' BY <1>1, <2>2, SMTT(30) DEF Reports, reports
  <2>10. Final' BY <2>3, ZenonT(60) DEF Final
  <2>11. AtWork(w)'
    BY <1>1, <1>2, <1>4, <2>3, <2>7, Zenon DEF AtWork, Uploading, Ends
  <2> QED BY <1>1, <2>6, <2>8, <2>9, <2>10, <2>11, StepInside DEF Disk, Outside
<1>5. CASE draft[w].task # "upload"
  <2>1. /\ manifest'.history = manifest.history
        /\ manifest' \in Manifests
        /\ manifest'.status = "MATERIALIZED" => draft[w].task = "materialize"
    <3>1. CASE draft[w].task = "validate"
      <4>1. manifest' = [m EXCEPT !.status = status]
        BY <1>3, <3>1 DEF Record, Recorded, Task
      <4>2. status \in Verdicts BY VerdictStatus
      <4> HIDE DEF status
      <4> QED BY <1>3, <4>1, <4>2, <3>1 DEF Statuses, Verdicts, Manifests
    <3>2. CASE draft[w].task = "analyze"
      <4>1. manifest' = [m EXCEPT !.status = "ANALYZED", !.analyses = @ + 1]
        BY <1>3, <3>2 DEF Record, Recorded, Task
      <4>2. m.analyses \in Nat /\ m.analyses + 1 \in Nat BY <1>3 DEF Manifests
      <4>3. manifest'.status = "ANALYZED" /\ "ANALYZED" \in Statuses
        BY <1>3, <4>1 DEF Statuses, Manifests
      <4> QED BY <1>3, <4>1, <4>2, <4>3 DEF Manifests
    <3>3. CASE draft[w].task = "materialize"
      <4>1. manifest' = [m EXCEPT !.status = "MATERIALIZED"]
        BY <1>3, <3>3 DEF Record, Recorded, Task
      <4> QED BY <1>3, <3>3, <4>1 DEF Statuses, Manifests
    <3> QED BY <1>2, <1>5, <3>1, <3>2, <3>3 DEF Tasks
  <2>2. Evidence(manifest)' = Evidence(manifest) BY <1>1, <2>1, SameEvidence DEF Inv
  <2>3. Typed' BY <1>1, <2>1 DEF Inv, Typed
  <2>4. Lineage' BY <1>1, <2>1 DEF Inv, Disk, Lineage
  <2>5. Reports' BY <1>1, <2>2 DEF Inv, Disk, Reports, Current, reports
  <2>6. Final'
    <3>1. SUFFICES ASSUME manifest'.status = "MATERIALIZED"
                   PROVE  /\ recommendation # None
                          /\ projection = [of |-> normalized, analysis |-> recommendation]
                          /\ Projected(scenario) = projection
      BY <1>1 DEF Final, reports
    <3> QED BY <1>1, <1>2, <2>1, <3>1 DEF AtWork, Materializing, Ends, Projected
  <2>7. AtWork(w)'
    BY <1>1, <1>2, <1>5, ZenonT(60) DEF AtWork, Validating, Analyzing, Materializing, Ends
  <2> QED BY <1>1, <2>3, <2>4, <2>5, <2>6, <2>7, StepInside DEF Disk, Outside
<1> QED BY <1>4, <1>5

-----------------------------------------------------------------------------
(* The invariant and what it gives *)

LEMMA Monotone ==
  ASSUME Next, ~usurped'
  PROVE  ~usurped
BY ZenonT(60) DEF Next, Ask, AskUpload, AskValidate, AskAnalyze, AskMaterialize, Want, TakeLock,
   FindExpired, TimeOut, BreakLock, Release, Start, Upload, Validate, Analyze, Materialize,
   Refuse, Proceed, Write, Store, DropQuality, DropRecommendation, DropProjection,
   DropScenario, Parse, ClearRows, Normalize, Judge, Advise, Project, Stage, Link, Record,
   Expire, Die

LEMMA InitInv == Init => Inv
<1> SUFFICES ASSUME Init PROVE Inv OBVIOUS
<1>1. Typed BY DEF Init, Typed, Statuses, Manifests
<1>2. Disk
  <2>1. Lineage BY DEF Init, Lineage
  <2> QED BY <2>1 DEF Init, Disk, Reports, Final
<1> QED BY <1>1, <1>2 DEF Init, Inv, Outside

LEMMA StepInv ==
  ASSUME Inv, Next, ~usurped'
  PROVE  Inv'
<1>1. CASE Expire BY <1>1, Idling DEF Expire
<1>2. ASSUME NEW w \in Workers,
             \/ Ask(w) \/ TakeLock(w) \/ FindExpired(w) \/ TimeOut(w) \/ BreakLock(w)
             \/ Release(w) \/ Start(w) \/ Write(w) \/ Die(w)
      PROVE  Inv'
  <2>1. CASE Write(w)
    BY <2>1, Storing, Dropping, Parsing, Reporting, Projecting, Recording DEF Write
  <2> QED BY <1>2, <2>1, Waiting, Entering, Breaking, Leaving, Starting
<1> QED BY <1>1, <1>2 DEF Next

\* The batch is as it should be at every step, whoever dies, until the lock of a
\* living request is broken.
THEOREM Inductive == Spec => []IInv
<1>1. Init => IInv BY InitInv DEF Init, IInv
<1>2. ASSUME IInv, [Next]_vars PROVE IInv'
  <2>1. usurped' \in BOOLEAN
    BY <1>2, ZenonT(60) DEF IInv, vars, Next, Ask, AskUpload, AskValidate, AskAnalyze, AskMaterialize,
       Want, TakeLock, FindExpired, TimeOut, BreakLock, Release, Start, Upload, Validate,
       Analyze, Materialize, Refuse, Proceed, Write, Store, DropQuality, DropRecommendation,
       DropProjection, DropScenario, Parse, ClearRows, Normalize, Judge, Advise, Project,
       Stage, Link, Record, Expire, Die
  <2>2. CASE Next BY <1>2, <2>1, <2>2, Monotone, StepInv DEF IInv
  <2>3. CASE UNCHANGED vars BY <1>2, <2>3, Idling DEF vars, locks, IInv
  <2> QED BY <1>2, <2>2, <2>3
<1> QED BY <1>1, <1>2, PTL DEF Spec

\* An acknowledged upload is kept, for any files and requests.
THEOREM UploadsAreKept == Spec => []PromisedIsKept
<1>1. IInv => PromisedIsKept
  BY FilesAssumption DEF IInv, Inv, Typed, Disk, Lineage, PromisedIsKept
<1> QED BY <1>1, Inductive, PTL

\* Every report on disk is of the files the manifest names.
THEOREM ReportsFollowManifest == Spec => []ReportsAreCurrent
<1>1. IInv => ReportsAreCurrent
  BY DEF IInv, Inv, Disk, Reports, Final, ReportsAreCurrent
<1> QED BY <1>1, Inductive, PTL

\* What materialising a batch again leaves as it is.
Fixed ==
  /\ UNCHANGED <<manifest.history, manifest.status, manifest.analyses>>
  /\ UNCHANGED <<raw, normalized, quality, recommendation, projection>>
  /\ UNCHANGED Projected(scenario)

\* Of a materialised batch, a request of any kind leaves that.
LEMMA StepFinal ==
  ASSUME Inv, Next, manifest.status = "MATERIALIZED"
  PROVE  Fixed
<1>1. CASE Expire BY <1>1 DEF Expire, reports, Fixed, Projected
<1>2. ASSUME NEW w \in Workers,
             \/ Ask(w) \/ TakeLock(w) \/ FindExpired(w) \/ TimeOut(w) \/ BreakLock(w)
             \/ Release(w) \/ Start(w) \/ Die(w) \/ Parse(w)
      PROVE  Fixed
  BY <1>2 DEF Ask, AskUpload, AskValidate, AskAnalyze, AskMaterialize, Want, TakeLock,
     FindExpired, TimeOut, BreakLock, Release, Start, Upload, Validate, Analyze, Materialize,
     Refuse, Proceed, Parse, Die, reports, Fixed, Projected
<1>3. ASSUME NEW w \in Workers,
             \/ Store(w) \/ DropQuality(w) \/ DropRecommendation(w) \/ DropProjection(w)
             \/ DropScenario(w) \/ ClearRows(w) \/ Normalize(w) \/ Judge(w) \/ Advise(w)
      PROVE  FALSE
  <2>1. pc[w] \in {"store", "drop quality", "drop recommendation", "drop projection",
                  "drop scenario", "clear", "normalize", "judge", "advise"}
    BY <1>3 DEF Store, DropQuality, DropRecommendation, DropProjection, DropScenario,
       ClearRows, Normalize, Judge, Advise, Moves
  <2>2. AtWork(w) /\ draft[w].task \in Tasks BY <2>1 DEF Inv, Typed, Outside
  <2> QED BY <2>1, <2>2 DEF AtWork, Tasks, Uploading, Validating, Analyzing, Materializing,
             Accepts, Ends
<1>4. ASSUME NEW w \in Workers, Project(w) \/ Stage(w) \/ Link(w) \/ Record(w) PROVE Fixed
  <2>1. pc[w] \in {"project", "stage", "link", "record"}
    BY <1>4 DEF Project, Stage, Link, Record, Moves
  <2>2. AtWork(w) /\ draft[w].task \in Tasks /\ mem[w] = manifest
    BY <2>1 DEF Inv, Typed, Outside, AtWork, Ends
  <2>3. /\ recommendation # None
        /\ projection = [of |-> normalized, analysis |-> recommendation]
        /\ Projected(scenario) = projection
    BY DEF Inv, Disk, Final
  <2>4. draft[w].task = "materialize"
    BY <2>1, <2>2 DEF AtWork, Tasks, Uploading, Validating, Analyzing, Accepts, Ends
  <2>5. Projected(draft[w].report) = [of |-> normalized, analysis |-> recommendation]
    BY <2>1, <2>2, <2>4 DEF AtWork, Materializing, Projected
  <2>6. CASE Record(w)
    <3>1. manifest' = [manifest EXCEPT !.status = "MATERIALIZED", !.updated_at = ~@]
      BY <2>2, <2>4, <2>6 DEF Record, Recorded, Task, Now
    <3>2. UNCHANGED <<manifest.history, manifest.status, manifest.analyses>>
      BY <3>1 DEF Inv, Typed, Manifests
    <3> QED BY <2>6, <3>2 DEF Record, reports, Fixed, Projected
  <2>7. CASE Project(w) \/ Stage(w) \/ Link(w)
    <3>1. /\ UNCHANGED <<manifest, raw, normalized, quality, recommendation>>
          /\ projection' = projection \/ projection' = Projected(draft[w].report)
          /\ scenario' = scenario \/ scenario' = draft[w].report
      BY <2>7 DEF Project, Stage, Link
    <3>2. projection' = projection BY <2>3, <2>5, <3>1
    <3>3. UNCHANGED Projected(scenario)
      BY <2>3, <2>5, <3>1 DEF Projected
    <3> QED BY <3>1, <3>2, <3>3 DEF Fixed
  <2> QED BY <1>4, <2>6, <2>7
<1> QED BY <1>1, <1>2, <1>3, <1>4 DEF Next, Write

\* A materialised batch keeps its evidence, its status and every report, but for the
\* run, the time of creation and the time of the last change, which materialising
\* it again replaces.
THEOREM MaterializedStays == Spec => MaterializedIsFinal
<1> DEFINE Kept ==
             /\ Evidence(manifest)' = Evidence(manifest)
             /\ UNCHANGED <<manifest.history, manifest.status, manifest.analyses>>
             /\ UNCHANGED <<normalized, quality, recommendation, projection>>
             /\ UNCHANGED Projected(scenario)
           P == manifest.status = "MATERIALIZED" /\ ~usurped' => Kept
<1>1. IInv /\ [Next]_vars => [P]_vars
  <2>1. SUFFICES ASSUME IInv, Next, manifest.status = "MATERIALIZED", ~usurped'
                 PROVE  Kept
    OBVIOUS
  <2>2. Inv BY <2>1, Monotone DEF IInv
  <2>3. Fixed BY <2>1, <2>2, StepFinal
  <2>4. Evidence(manifest)' = Evidence(manifest)
    BY <2>2, <2>3, SameEvidence DEF Inv, Fixed
  <2> QED BY <2>3, <2>4 DEF Fixed
<1> QED BY <1>1, Inductive, PTL DEF Spec, MaterializedIsFinal

-----------------------------------------------------------------------------
(* What the verdict on some files is *)

\* All files together are rows one after the other, and correlation keeps
\* their places, their times, and the service of a row without an identity.
LEMMA ParsedType ==
  ASSUME NEW e, \A s \in DOMAIN e : e[s] \in Seq(Records)
  PROVE  Parsed(e) \in Seq(Records)
<1> DEFINE FileOf(n) == IF SourceOrder[n] \in DOMAIN e THEN e[SourceOrder[n]] ELSE << >>
<1>1. \A n \in 1..7 : FileOf(n) \in Seq(Records)
  OBVIOUS
<1>2. Parsed(e) = FileOf(1) \o FileOf(2) \o FileOf(3) \o FileOf(4) \o FileOf(5) \o FileOf(6)
                    \o FileOf(7)
  BY DEF Parsed
<1> HIDE DEF FileOf
<1>3. /\ FileOf(1) \in Seq(Records) /\ FileOf(2) \in Seq(Records) /\ FileOf(3) \in Seq(Records)
      /\ FileOf(4) \in Seq(Records) /\ FileOf(5) \in Seq(Records) /\ FileOf(6) \in Seq(Records)
      /\ FileOf(7) \in Seq(Records)
  BY <1>1
<1> QED BY <1>2, <1>3

LEMMA CorrelatedRows ==
  ASSUME NEW R \in Seq(Records), NEW ids
  PROVE  LET C == Correlated(R, ids)
         IN /\ DOMAIN C = DOMAIN R
            /\ \A i \in DOMAIN R :
                 /\ C[i].at = R[i].at
                 /\ i \in Matched(R, ids) => C[i].service = Identity(R, ids, i).service
                 /\ i \notin Matched(R, ids) => C[i] = R[i]
<1> DEFINE C == Correlated(R, ids)
<1>1. DOMAIN C = DOMAIN R
  BY DEF Correlated
<1>2. ASSUME NEW i \in DOMAIN R, i \in Matched(R, ids)
      PROVE  C[i].at = R[i].at /\ C[i].service = Identity(R, ids, i).service
  <2> DEFINE known == Identity(R, ids, i)
  <2>1. C[i] = [R[i] EXCEPT !.service = known.service,
                            !.device = Filled(@, known.device),
                            !.technology = Filled(@, known.technology),
                            !.tap = Filled(@, known.tap)]
    BY <1>2 DEF Correlated
  <2>2. R[i] \in Records
    OBVIOUS
  <2> HIDE DEF known, C
  <2> QED BY <2>1, <2>2 DEF Records, known
<1>3. ASSUME NEW i \in DOMAIN R, i \notin Matched(R, ids) PROVE C[i] = R[i]
  BY <1>3 DEF Correlated
<1> QED BY <1>1, <1>2, <1>3

\* An error of a row that stands, but for its form or its identifier, is filed
\* under the service the row has in the end.
LEMMA ErrorsNameTheirService ==
  ASSUME NEW e, \A s \in DOMAIN e : e[s] \in Seq(Records),
         NEW x \in Verdict(e).issues, x.severity = "ERROR",
         x.code \notin {"FORM", "DUPLICATE_SOURCE_RECORD_ID"},
         x.row \in DOMAIN Verdict(e).rows
  PROVE  x.service = Verdict(e).rows[x.row].service
<1> DEFINE given == Parsed(e)
           ids == Correlates(given)
           R == Correlated(given, ids)
           before == FormIssues(given) \union DuplicateIssues(given) \union IdentityIssues(given, ids)
                       \union MeaningIssues(R)
<1>1. /\ Verdict(e).rows = R
      /\ Verdict(e).issues = before \union CrossIssues(R, Errors(before))
  BY DEF Verdict
<1>2. given \in Seq(Records)
  BY ParsedType
<1>3. /\ DOMAIN R = DOMAIN given
      /\ \A i \in DOMAIN given :
           /\ i \in Matched(given, ids) => R[i].service = Identity(given, ids, i).service
           /\ i \notin Matched(given, ids) => R[i] = given[i]
  BY <1>2, CorrelatedRows
<1>4. 0 \notin DOMAIN given
  BY <1>2
<1> DEFINE errors == Errors(before)
<1> HIDE DEF given, ids, R, errors
<1>5. CASE x \in FormIssues(given)
  BY <1>1, <1>3, <1>4, <1>5 DEF FormIssues, Issue
<1>6. CASE x \in DuplicateIssues(given)
  BY <1>6 DEF DuplicateIssues, Issue
<1>7. CASE x \in IdentityIssues(given, ids)
  <2>1. CASE x = Issue("IDENTITY_MAP_MISSING", "ERROR", 0, 0)
    BY <1>1, <1>3, <1>4, <2>1 DEF Issue
  <2>2. CASE \E i \in DOMAIN given : i \notin Matched(given, ids) /\ x.row = i /\ x.service = given[i].service
    BY <1>1, <1>3, <2>2
  <2>3. CASE \E i \in DOMAIN given : i \in Matched(given, ids) /\ x.row = i
                                   /\ x.service = Identity(given, ids, i).service
    BY <1>1, <1>3, <2>3
  <2>4. OtherRows(given) \subseteq DOMAIN given /\ Matched(given, ids) \subseteq DOMAIN given
    BY DEF OtherRows, Matched
  <2>5. ASSUME NEW i \in OtherRows(given), Cardinality(IdentitiesOf(given, ids, i)) = 2
        PROVE  i \notin Matched(given, ids)
    BY <2>5 DEF Matched
  <2>6. ASSUME NEW i \in OtherRows(given), IdentitiesOf(given, ids, i) = {}
        PROVE  i \notin Matched(given, ids)
    <3>1. Cardinality(IdentitiesOf(given, ids, i)) = 0
      BY <2>6, FS_EmptySet, Zenon
    <3>2. Cardinality(IdentitiesOf(given, ids, i)) # 1
      BY <3>1
    <3> QED BY <3>2, Zenon DEF Matched
  <2>7. CASE x \in {Issue("SERVICE_DEVICE_IDENTITY_CONFLICT", "ERROR", i, given[i].service) :
                      i \in {j \in OtherRows(given) : Cardinality(IdentitiesOf(given, ids, j)) = 2}}
    BY <2>2, <2>4, <2>5, <2>7 DEF Issue
  <2>8. CASE x \in {Issue("IDENTITY_NOT_RESOLVED", "ERROR", i, given[i].service) :
                      i \in {j \in OtherRows(given) : IdentitiesOf(given, ids, j) = {}}}
    BY <2>2, <2>4, <2>6, <2>8 DEF Issue
  <2>9. CASE x \in {Issue("MISMATCH", "ERROR", i, Identity(given, ids, i).service) :
                      i \in {j \in Matched(given, ids) :
                               \/ Differs(given[j].device, Identity(given, ids, j).device)
                               \/ Differs(given[j].technology, Identity(given, ids, j).technology)}}
    BY <2>3, <2>4, <2>9 DEF Issue
  <2>10. CASE x \in {Issue("DELIMITER_ID_MISMATCH", "WARNING", i, Identity(given, ids, i).service) :
                      i \in {j \in Matched(given, ids) :
                               Differs(given[j].tap, Identity(given, ids, j).tap)}}
    BY <2>3, <2>4, <2>10 DEF Issue
  <2> QED BY <1>7, <2>1, <2>7, <2>8, <2>9, <2>10 DEF IdentityIssues
<1>8. CASE x \in MeaningIssues(R)
  BY <1>1, <1>8 DEF MeaningIssues, Issue
<1>9. CASE x \in CrossIssues(R, errors)
  BY <1>1, <1>9 DEF CrossIssues, RepairIssues, Issue
<1> QED BY <1>1, <1>5, <1>6, <1>7, <1>8, <1>9 DEF errors

\* Every position is somewhere in the order of time.
LEMMA SortedHasAll ==
  ASSUME NEW R, NEW S \in SUBSET Nat, IsFiniteSet(S), \A i \in S : R[i].at \in Int,
         NEW i \in S
  PROVE  \E k \in DOMAIN SortedByTime(R, S) : SortedByTime(R, S)[k] = i
<1> DEFINE B(j) == {h \in S : Earlier(R, h, j)}
           k == Cardinality(B(i)) + 1
<1>1. \A j \in S : IsFiniteSet(B(j)) /\ Cardinality(B(j)) \in Nat
  <2>1. \A j \in S : B(j) \in SUBSET S
    OBVIOUS
  <2> QED BY <2>1, FS_Subset, FS_CardinalityType
<1>2. ASSUME NEW g \in S, NEW h \in S, g # h PROVE Cardinality(B(g)) # Cardinality(B(h))
  <2>1. ASSUME NEW a \in S, NEW b \in S, Earlier(R, a, b)
        PROVE  Cardinality(B(a)) # Cardinality(B(b))
    <3>1. a \in B(b) /\ a \notin B(a)
      BY <2>1 DEF Earlier
    <3>2. B(a) \subseteq B(b)
      <4>1. SUFFICES ASSUME NEW c \in S, Earlier(R, c, a) PROVE Earlier(R, c, b)
        OBVIOUS
      <4>2. R[a].at \in Int /\ R[b].at \in Int /\ R[c].at \in Int
        OBVIOUS
      <4>3. a \in Nat /\ b \in Nat /\ c \in Nat
        OBVIOUS
      <4> DEFINE x == R[a].at
                 y == R[b].at
                 z == R[c].at
      <4>4. (x < y \/ (x = y /\ a < b)) /\ (z < x \/ (z = x /\ c < a))
        BY <2>1, <4>1 DEF Earlier
      <4>5. z < y \/ (z = y /\ c < b)
        <5> HIDE DEF x, y, z
        <5> QED BY <4>2, <4>3, <4>4 DEF x, y, z
      <4> QED BY <4>5 DEF Earlier
    <3> HIDE DEF B
    <3> QED BY <1>1, <3>1, <3>2, FS_Subset
  <2>2. Earlier(R, g, h) \/ Earlier(R, h, g)
    <3>1. R[g].at \in Int /\ R[h].at \in Int /\ g \in Nat /\ h \in Nat
      OBVIOUS
    <3> QED BY <1>2, <3>1 DEF Earlier
  <2> QED BY <2>1, <2>2
<1>3. k \in 1..Cardinality(S)
  <2>1. i \notin B(i) /\ B(i) \in SUBSET S
    BY DEF Earlier
  <2> HIDE DEF B
  <2>2. Cardinality(B(i)) <= Cardinality(S) /\ Cardinality(B(i)) # Cardinality(S)
    BY <2>1, FS_Subset
  <2> QED BY <1>1, <2>2, FS_CardinalityType
<1>4. SortedByTime(R, S)[k] = CHOOSE j \in S : Cardinality(B(j)) = k - 1
  BY <1>3 DEF SortedByTime
<1> HIDE DEF B
<1>5. (CHOOSE j \in S : Cardinality(B(j)) = k - 1) = i
  BY <1>1, <1>2
<1>6. k \in DOMAIN SortedByTime(R, S)
  BY <1>3 DEF SortedByTime
<1> QED BY <1>4, <1>5, <1>6

-----------------------------------------------------------------------------
(* What is advised, and who is spared *)

\* Whatever the lock does: an analysis is what the rules make of the rows and the
\* quality report it names, with some answer of the agent.
Advised(report) ==
  \E style \in Styles : report = Analysis(report.of, report.judged, style)

Advises ==
  /\ DOMAIN pc = Workers /\ DOMAIN draft = Workers
  /\ recommendation # None => Advised(recommendation)
  /\ \A w \in Workers :
       /\ pc[w] \in {"locking", "breaking"} => draft[w].task \in Tasks
       /\ pc[w] = "advise" => Advised(draft[w].report)

\* What goes elsewhere than to the agent's answer, and does not ask anew.
LEMMA AdvisesElsewhere ==
  ASSUME Advises, NEW w \in Workers, NEW to, pc' = [pc EXCEPT ![w] = to],
         to \notin {"locking", "breaking", "advise"},
         NEW d, draft' = draft \/ draft' = [draft EXCEPT ![w] = d],
         recommendation' = recommendation \/ recommendation' = None
  PROVE  Advises'
<1>1. DOMAIN pc' = Workers /\ DOMAIN draft' = Workers BY DEF Advises
<1>2. recommendation' # None => Advised(recommendation)' BY DEF Advises, Advised
<1>3. ASSUME NEW u \in Workers
      PROVE  /\ pc'[u] \in {"locking", "breaking"} => draft'[u].task \in Tasks
             /\ pc'[u] = "advise" => Advised(draft'[u].report)
  <2>1. CASE u = w BY <2>1 DEF Advises
  <2>2. CASE u # w BY <2>2 DEF Advises
  <2> QED BY <2>1, <2>2
<1> QED BY <1>1, <1>2, <1>3 DEF Advises, Advised

LEMMA AdvisesAsks ==
  ASSUME Advises, NEW w \in Workers, NEW to \in {"locking", "breaking"},
         pc' = [pc EXCEPT ![w] = to], recommendation' = recommendation,
         NEW d, d.task \in Tasks,
         draft' = [draft EXCEPT ![w] = d] \/ (draft' = draft /\ draft[w] = d)
  PROVE  Advises'
<1>1. DOMAIN pc' = Workers /\ DOMAIN draft' = Workers BY DEF Advises
<1>2. recommendation' # None => Advised(recommendation)' BY DEF Advises, Advised
<1>3. ASSUME NEW u \in Workers
      PROVE  /\ pc'[u] \in {"locking", "breaking"} => draft'[u].task \in Tasks
             /\ pc'[u] = "advise" => Advised(draft'[u].report)
  <2>1. CASE u = w BY <2>1 DEF Advises
  <2>2. CASE u # w BY <2>2 DEF Advises
  <2> QED BY <2>1, <2>2
<1> QED BY <1>1, <1>2, <1>3 DEF Advises, Advised

LEMMA AdvisesStep ==
  ASSUME Advises, NEW w \in Workers,
         \/ Ask(w) \/ TakeLock(w) \/ FindExpired(w) \/ TimeOut(w) \/ BreakLock(w)
         \/ Release(w) \/ Start(w) \/ Write(w) \/ Die(w)
  PROVE  Advises'
<1>1. CASE Ask(w)
  <2>1. PICK request \in Requests : Want(w, request)
    <3>1. CASE AskUpload(w)
      BY <3>1 DEF AskUpload, Requests
    <3>2. CASE AskValidate(w)
      <4>1. [task |-> "validate"] \in Requests BY DEF Requests
      <4> QED BY <3>2, <4>1 DEF AskValidate
    <3>3. CASE AskAnalyze(w)
      <4>1. [task |-> "analyze"] \in Requests BY DEF Requests
      <4> QED BY <3>3, <4>1 DEF AskAnalyze
    <3>4. CASE AskMaterialize(w)
      BY <3>4 DEF AskMaterialize, Requests
    <3> QED BY <1>1, <3>1, <3>2, <3>3, <3>4 DEF Ask
  <2>2. pc' = [pc EXCEPT ![w] = "locking"] /\ draft' = [draft EXCEPT ![w] = request]
        /\ recommendation' = recommendation
    BY <2>1 DEF Want, Moves, Goto, Drafts, reports
  <2>3. request.task \in Tasks BY DEF Requests, Tasks
  <2> QED BY <2>2, <2>3, AdvisesAsks
<1>2. CASE TakeLock(w)
  <2>1. /\ pc[w] = "locking" /\ pc' = [pc EXCEPT ![w] = draft[w].task]
        /\ draft' = draft /\ recommendation' = recommendation
    BY <1>2 DEF TakeLock, Moves, Goto, reports
  <2>2. draft[w].task \notin {"locking", "breaking", "advise"}
    BY <2>1 DEF Advises, Tasks
  <2> QED BY <2>1, <2>2, AdvisesElsewhere
<1>3. CASE FindExpired(w) \/ BreakLock(w)
  <2>1. /\ pc[w] \in {"locking", "breaking"} /\ draft' = draft
        /\ \E to \in {"locking", "breaking"} : pc' = [pc EXCEPT ![w] = to]
        /\ recommendation' = recommendation
    BY <1>3 DEF FindExpired, BreakLock, Moves, Goto, reports
  <2>2. draft[w].task \in Tasks
    BY <2>1 DEF Advises
  <2> QED BY <2>1, <2>2, AdvisesAsks
<1>4. CASE TimeOut(w) \/ Release(w) \/ Die(w)
  <2>1. /\ \E to \in {"idle", "lost"} : pc' = [pc EXCEPT ![w] = to]
        /\ draft' = [draft EXCEPT ![w] = None] /\ recommendation' = recommendation
    BY <1>4 DEF TimeOut, Release, Die, Moves, Goto, Forgets, Drafts, reports
  <2> QED BY <2>1, AdvisesElsewhere
<1>5. CASE Upload(w) \/ Validate(w) \/ Materialize(w)
  <2>1. /\ \E to \in {"failed", "store", "drop recommendation", "project"} :
             pc' = [pc EXCEPT ![w] = to]
        /\ draft' = draft \/ \E d : draft' = [draft EXCEPT ![w] = d]
        /\ recommendation' = recommendation
    BY <1>5 DEF Upload, Validate, Materialize, Refuse, Proceed, Goto, Drafts, reports
  <2> QED BY <2>1, AdvisesElsewhere
<1>6. CASE Analyze(w)
  <2>1. CASE Refuse(w)
    BY <2>1, AdvisesElsewhere DEF Refuse, Goto, reports
  <2>2. CASE ~Refuse(w)
    <3>1. PICK style \in Styles :
            draft' = [draft EXCEPT ![w] = [task |-> "analyze",
                        report |-> Analysis(normalized, quality, style)]]
      BY <1>6, <2>2 DEF Analyze, Drafts
    <3>2. pc' = [pc EXCEPT ![w] = "advise"] /\ recommendation' = recommendation
      BY <1>6, <2>2 DEF Analyze, Goto, reports
    <3>3. Advised(Analysis(normalized, quality, style))
      BY DEF Advised, Analysis
    <3>4. ASSUME NEW u \in Workers
          PROVE  /\ pc'[u] \in {"locking", "breaking"} => draft'[u].task \in Tasks
                 /\ pc'[u] = "advise" => Advised(draft'[u].report)
      <4>1. CASE u = w BY <3>1, <3>2, <3>3, <4>1 DEF Advises
      <4>2. CASE u # w BY <3>1, <3>2, <4>2 DEF Advises
      <4> QED BY <4>1, <4>2
    <3>5. DOMAIN pc' = Workers /\ DOMAIN draft' = Workers BY <3>1, <3>2 DEF Advises
    <3>6. recommendation' # None => Advised(recommendation)' BY <3>2 DEF Advises, Advised
    <3> QED BY <3>4, <3>5, <3>6 DEF Advises, Advised
  <2> QED BY <2>1, <2>2
<1>7. CASE Advise(w)
  <2>1. /\ pc[w] = "advise" /\ pc' = [pc EXCEPT ![w] = "record"] /\ draft' = draft
        /\ recommendation' = draft[w].report
    BY <1>7 DEF Advise, Moves, Goto
  <2>2. Advised(recommendation)' BY <2>1 DEF Advises, Advised
  <2>3. ASSUME NEW u \in Workers
        PROVE  /\ pc'[u] \in {"locking", "breaking"} => draft'[u].task \in Tasks
               /\ pc'[u] = "advise" => Advised(draft'[u].report)
    <3>1. CASE u = w BY <2>1, <3>1 DEF Advises
    <3>2. CASE u # w BY <2>1, <3>2 DEF Advises
    <3> QED BY <3>1, <3>2
  <2>4. DOMAIN pc' = Workers /\ DOMAIN draft' = Workers BY <2>1 DEF Advises
  <2> QED BY <2>2, <2>3, <2>4 DEF Advises, Advised
<1>8. CASE \/ Store(w) \/ DropQuality(w) \/ DropRecommendation(w) \/ DropProjection(w)
           \/ DropScenario(w) \/ ClearRows(w) \/ Normalize(w) \/ Judge(w)
           \/ Project(w) \/ Stage(w) \/ Link(w) \/ Record(w)
  <2>1. \E to \in {"drop quality", "drop recommendation", "drop projection",
                   "drop scenario", "clear", "parse", "record", "normalize", "judge",
                   "stage", "link", "done"} : pc' = [pc EXCEPT ![w] = to]
    BY <1>8 DEF Store, DropQuality, DropRecommendation, DropProjection, DropScenario,
       ClearRows, Normalize, Judge, Project, Stage, Link, Record, Moves, Goto
  <2>2. draft' = draft /\ (recommendation' = recommendation \/ recommendation' = None)
    BY <1>8 DEF Store, DropQuality, DropRecommendation, DropProjection, DropScenario,
       ClearRows, Normalize, Judge, Project, Stage, Link, Record, reports
  <2> QED BY <2>1, <2>2, AdvisesElsewhere
<1>9. CASE Parse(w)
  <2>1. /\ \E to \in {"failed", "clear"} : pc' = [pc EXCEPT ![w] = to]
        /\ draft' = draft \/ \E d : draft' = [draft EXCEPT ![w] = d]
        /\ recommendation' = recommendation
    BY <1>9 DEF Parse, Refuse, Goto, Drafts, reports
  <2> QED BY <2>1, AdvisesElsewhere
<1> QED BY <1>1, <1>2, <1>3, <1>4, <1>5, <1>6, <1>7, <1>8, <1>9 DEF Start, Write

\* The analysis on disk is what the rules make of what it names.
THEOREM AdviceIsDerived == Spec => []Advises
<1>1. Init => Advises BY DEF Init, Advises
<1>2. ASSUME Advises, [Next]_vars PROVE Advises'
  <2>1. CASE Expire \/ UNCHANGED vars
    BY <1>2, <2>1 DEF Expire, vars, reports, Advises, Advised
  <2> QED BY <1>2, <2>1, AdvisesStep DEF Next
<1> QED BY <1>1, <1>2, PTL DEF Spec

\* The reviews that are not asked for have a reason each.
LEMMA SparedByRules ==
  ASSUME NEW v, NEW style, NEW s, ~Reconcile(v, style, s).review
  PROVE  /\ Reconcile(v, style, s).agrees
         /\ OpenRepairs(v, s) = {} /\ ~HasIncident(v, s)
         /\ ~HasIssue(v, s)
<1>1. Reconcile(v, style, s).agrees /\ ~Advice(v, s).review
  BY DEF Reconcile
<1>2. ~HasIssue(v, s) BY <1>1 DEF Advice
<1>3. Standing(v, s).action = "collect_more_evidence"
  <2> DEFINE domain == Proposed(v, s, Standing(v, s).domain)
             said == IF Standing(v, s).action = "collect_more_evidence"
                     THEN Diagnosed(v, s, domain)
                     ELSE [domain |-> domain, action |-> Standing(v, s).action]
  <2>1. said.action = "collect_more_evidence"
    BY <1>1 DEF Advice
  <2> HIDE DEF domain
  <2> QED BY <2>1
<1>4. OpenRepairs(v, s) = {} /\ ~HasIncident(v, s)
  BY <1>3 DEF Standing
<1> QED BY <1>1, <1>2, <1>4

\* A verdict on files of records.
LEMMA VerdictRows ==
  ASSUME NEW e, \A s \in DOMAIN e : e[s] \in Seq(Records)
  PROVE  LET v == Verdict(e)
         IN /\ DOMAIN v.rows \in SUBSET Nat /\ IsFiniteSet(DOMAIN v.rows)
            /\ \A i \in DOMAIN v.rows : v.rows[i].at \in Int
            /\ v.accepted = DOMAIN v.rows \ Errors(v.issues)
            /\ \A i \in DOMAIN v.rows :
                 Future(v.rows, i) =>
                   Issue("FUTURE_EVIDENCE_EXCLUDED", "WARNING", i, v.rows[i].service)
                     \in v.issues
<1> DEFINE given == Parsed(e)
           ids == Correlates(given)
           R == Correlated(given, ids)
           before == FormIssues(given) \union DuplicateIssues(given) \union IdentityIssues(given, ids)
                       \union MeaningIssues(R)
           errors == Errors(before)
           issues == before \union CrossIssues(R, errors)
<1>1. Verdict(e) = [rows |-> R, issues |-> issues, accepted |-> DOMAIN R \ Errors(issues)]
  BY DEF Verdict
<1>2. given \in Seq(Records) BY ParsedType
<1>3. DOMAIN R = DOMAIN given /\ \A i \in DOMAIN given : R[i].at = given[i].at
  BY <1>2, CorrelatedRows
<1>4. \A i \in DOMAIN given : given[i] \in Records
  <2> HIDE DEF given
  <2> QED BY <1>2
<1>5. \A i \in DOMAIN given : given[i].at \in Int
  <2> HIDE DEF given
  <2> QED BY <1>4 DEF Records, NoTime
<1>6. DOMAIN given = 1..Len(given) /\ Len(given) \in Nat
  <2> HIDE DEF given
  <2> QED BY <1>2
<1>7. IsFiniteSet(1..Len(given)) /\ 1..Len(given) \in SUBSET Nat
  <2> HIDE DEF given
  <2> QED BY <1>6, FS_Interval
<1>8. \A i \in DOMAIN R : Future(R, i) =>
        Issue("FUTURE_EVIDENCE_EXCLUDED", "WARNING", i, R[i].service) \in CrossIssues(R, errors)
  <2> HIDE DEF R, errors
  <2> QED BY DEF CrossIssues
<1> HIDE DEF given, ids, R, before, errors
<1> QED BY <1>1, <1>3, <1>5, <1>6, <1>7, <1>8

\* The files the manifest names are files.
LEMMA EvidenceFiles ==
  ASSUME Typed, Lineage
  PROVE  \A s \in DOMAIN Evidence(manifest) : Rows[Evidence(manifest)[s]] \in Seq(Records)
<1> DEFINE e == Evidence(manifest)
<1>1. SUFFICES ASSUME NEW s \in DOMAIN e PROVE Rows[e[s]] \in Seq(Records)
  OBVIOUS
<1>2. s \in Sources /\ manifest.history[s] # << >> /\ e[s] = raw[s][Len(manifest.history[s])]
  BY <1>1 DEF Evidence
<1>3. manifest.history[s] \in Seq(Files) BY <1>2 DEF Typed, Manifests
<1>4. /\ Len(manifest.history[s]) \in DOMAIN manifest.history[s]
      /\ manifest.history[s][Len(manifest.history[s])] \in Files
  BY <1>2, <1>3
<1>5. e[s] \in Files BY <1>2, <1>4 DEF Lineage
<1> QED BY <1>5, FilesAssumption

\* Spared is only who is uncontested, for any rows, files, answers, and part of the
\* rows left by a validation that died.
THEOREM SparedOnlyUncontested == Spec => []SparedIsUncontested
<1>1. IInv /\ Advises => SparedIsUncontested
  <2>1. SUFFICES ASSUME Inv, Advises, recommendation # None, recommendation.of # None,
                        NEW s \in DOMAIN recommendation.advice,
                        ~recommendation.advice[s].review
                 PROVE  LET read == Seen(recommendation.of, recommendation.judged)
                            v == VerdictOn(recommendation.judged)
                        IN /\ recommendation.advice[s].agrees
                           /\ OpenRepairs(read, s) = {} /\ ~HasIncident(read, s)
                           /\ Correlation(v)[s].status = "MATCHED"
                           /\ \A i \in Correlation(v)[s].records :
                                v.rows[i].at # NoTime =>
                                  \E k \in DOMAIN Timeline(v) : Timeline(v)[k] = i
                           /\ \A i \in DOMAIN v.rows :
                                v.rows[i].service = s /\ i \notin v.accepted =>
                                  \E x \in v.issues :
                                    x.row = i
                                    /\ x.code \in {"FORM", "DUPLICATE_SOURCE_RECORD_ID"}
    BY DEF SparedIsUncontested, IInv
  <2> DEFINE e == recommendation.judged
             rows == [t \in DOMAIN e |-> Rows[e[t]]]
             v == VerdictOn(e)
             read == Seen(recommendation.of, e)
  <2>2. e = Evidence(manifest) /\ recommendation.of.of = e
    BY <2>1 DEF Inv, Disk, Reports, Current
  <2>3. PICK style \in Styles : recommendation = Analysis(recommendation.of, e, style)
    BY <2>1 DEF Advises, Advised
  <2>4. \A t \in DOMAIN e : Rows[e[t]] \in Seq(Records)
    <3>1. \A t \in DOMAIN Evidence(manifest) : Rows[Evidence(manifest)[t]] \in Seq(Records)
      BY <2>1, EvidenceFiles DEF Inv, Disk
    <3> HIDE DEF e
    <3> QED BY <2>2, <3>1
  <2>5. v = Verdict(rows) BY DEF VerdictOn
  <2>6. \A t \in DOMAIN rows : rows[t] \in Seq(Records)
    BY <2>4
  <2>7. read.rows = v.rows /\ read.issues = v.issues /\ read.accepted \subseteq v.accepted
    <3> HIDE DEF e, v
    <3> QED BY <2>1, <2>2 DEF Seen, v, read, e
  <2>8. s \in Services(read) /\ recommendation.advice[s] = Reconcile(read, style, s)
    <3>1. recommendation.advice = [t \in Services(read) |-> Reconcile(read, style, t)]
      <4> HIDE DEF read
      <4> QED BY <2>3 DEF Analysis, read
    <3> HIDE DEF read
    <3> QED BY <2>1, <3>1
  <2>9. /\ recommendation.advice[s].agrees
        /\ OpenRepairs(read, s) = {} /\ ~HasIncident(read, s) /\ ~HasIssue(v, s)
    <3> HIDE DEF v, read
    <3>1. ~HasIssue(read, s) BY <2>1, <2>8, SparedByRules
    <3>2. ~HasIssue(v, s) BY <2>7, <3>1 DEF HasIssue
    <3> QED BY <2>1, <2>8, <3>2, SparedByRules
  <2>10. /\ DOMAIN v.rows \in SUBSET Nat /\ IsFiniteSet(DOMAIN v.rows)
         /\ \A i \in DOMAIN v.rows : v.rows[i].at \in Int
         /\ v.accepted = DOMAIN v.rows \ Errors(v.issues)
         /\ \A i \in DOMAIN v.rows :
              Future(v.rows, i) =>
                Issue("FUTURE_EVIDENCE_EXCLUDED", "WARNING", i, v.rows[i].service)
                  \in v.issues
    BY <2>5, <2>6, VerdictRows
  <2>11. \A x \in v.issues :
           /\ x.severity = "ERROR"
           /\ x.code \notin {"FORM", "DUPLICATE_SOURCE_RECORD_ID"}
           /\ x.row \in DOMAIN v.rows
           => x.service = v.rows[x.row].service
    <3> HIDE DEF rows
    <3> QED BY <2>5, <2>6, ErrorsNameTheirService
  <2> HIDE DEF v, read
  <2>12. s \in {v.rows[i].service : i \in v.accepted} \ {0}
    BY <2>7, <2>8 DEF Services, Eligible
  <2> DEFINE C == Correlation(v)[s]
  <2>13. /\ C.records = {i \in v.accepted : v.rows[i].service = s}
         /\ C.status = IF \E x \in {y \in v.issues : y.service = s} : x.severity = "ERROR"
                       THEN "CONFLICT" ELSE "MATCHED"
    BY <2>12 DEF Correlation
  <2>14. C.status = "MATCHED"
    BY <2>9, <2>13 DEF HasIssue
  <2>15. ASSUME NEW i \in C.records, v.rows[i].at # NoTime
         PROVE  \E k \in DOMAIN Timeline(v) : Timeline(v)[k] = i
    <3> DEFINE S == {j \in v.accepted : v.rows[j].at # NoTime /\ ~Future(v.rows, j)}
    <3>1. i \in v.accepted /\ v.rows[i].service = s
      BY <2>13, <2>15
    <3>2. ~Future(v.rows, i)
      <4>1. SUFFICES ASSUME Future(v.rows, i) PROVE FALSE OBVIOUS
      <4> DEFINE x == Issue("FUTURE_EVIDENCE_EXCLUDED", "WARNING", i, v.rows[i].service)
      <4>2. x.service = v.rows[i].service /\ x.severity = "WARNING"
        BY DEF Issue
      <4>3. x \in v.issues BY <2>10, <3>1, <4>1
      <4> HIDE DEF x
      <4> QED BY <2>9, <3>1, <4>2, <4>3 DEF HasIssue
    <3>3. i \in S BY <2>15, <3>1, <3>2
    <3>4. S \in SUBSET DOMAIN v.rows BY <2>10
    <3>5. S \in SUBSET Nat /\ IsFiniteSet(S) /\ \A j \in S : v.rows[j].at \in Int
      BY <2>10, <3>4, FS_Subset
    <3>6. Timeline(v) = SortedByTime(v.rows, S) BY DEF Timeline
    <3> HIDE DEF S
    <3> QED BY <3>3, <3>5, <3>6, SortedHasAll
  <2>16. ASSUME NEW i \in DOMAIN v.rows, v.rows[i].service = s, i \notin v.accepted
         PROVE  \E x \in v.issues :
                  x.row = i /\ x.code \in {"FORM", "DUPLICATE_SOURCE_RECORD_ID"}
    <3>1. i \in Errors(v.issues) BY <2>10, <2>16
    <3>2. PICK x \in v.issues : x.severity = "ERROR" /\ x.row = i
      BY <3>1 DEF Errors
    <3> QED BY <2>9, <2>11, <2>16, <3>2 DEF HasIssue
  <2> QED BY <2>9, <2>14, <2>15, <2>16 DEF v, read
<1> QED BY <1>1, Inductive, AdviceIsDerived, PTL
=============================================================================
