------------------------- MODULE LiveDecisionProofs --------------------------
(***************************************************************************)
(* For every published run, every set of requests and any number of        *)
(* workers, overlapping or not, with crashes or without: a case takes one  *)
(* decision, and no work is on disk for a case that was not approved.      *)
(*                                                                         *)
(* The rows a worker holds in memory are a mixture of files it read at     *)
(* different moments, so the invariant has to speak about them too: they   *)
(* hold no work for an unapproved case either, and a worker that mirrors a *)
(* decision mirrors the one the store accepted (IInv).                     *)
(*                                                                         *)
(* When requests do not overlap (Serial), a worker's rows are the files it *)
(* has read so far, plus the decision it mirrors (MirrorInv).  From that   *)
(* follow what a client was told, for good, and that the decisions         *)
(* implement CaseBoard, in which a case is decided in one step.            *)
(*                                                                         *)
(* And when the run was published sound, as the generator publishes it     *)
(* (RunGenerationProofs), whatever is decided on it leaves it sound: it    *)
(* passes the gate and its projections add up (RestInv).                   *)
(***************************************************************************)
EXTENDS LiveDecisionProperties, ProjectionProofs

Mirroring == {"opening", "reading", "writing", "hashing", "recording", "filling", "verifying"}

\* A mapping from file names to rows that has room for the work of every case.
Kept(f) == \A name \in WorkFiles : name \in DOMAIN f /\ LiveCases \subseteq DOMAIN f[name]

\* It holds no work of the cases in C.
Clean(f, C) == \A c \in C : \A name \in WorkFiles : f[name][c] = << >>

Unapproved == {c \in LiveCases : store[c].response # "approve"}

\* A worker that is past the compare and swap speaks for the accepted decision.
Speaks(w) ==
  /\ pc[w] \in Mirroring \union {"deciding"} => request[w].case \in LiveCases
  /\ pc[w] \in Mirroring => /\ store[request[w].case].response = request[w].response
                            /\ accepted[request[w].case] = 1

\* The revision counts the decision and the verification.
RevisionFollowsState ==
  \A c \in LiveCases :
    /\ store[c].state = "WAITING_HUMAN" => store[c].revision = 1
    /\ store[c].state \in {"ACTION_SIMULATED", "NEEDS_EVIDENCE", "ESCALATED"} =>
         store[c].revision = 2
    /\ store[c].response = "approve" => store[c].state \in {"ACTION_SIMULATED", "CLOSED_SIMULATED"}
    /\ store[c].state = "ACTION_SIMULATED" => store[c].response = "approve"
    /\ store[c].state # "WAITING_HUMAN" => store[c].response # "none"

Controlled == OneDecisionPerCase /\ RevisionFollowsState /\ \A w \in Workers : Speaks(w)

Worked ==
  /\ Kept(files) /\ Clean(files, Unapproved)
  /\ DOMAIN rows = Workers
  /\ \A w \in Workers : Kept(rows[w]) /\ Clean(rows[w], Unapproved)

IInv == TypeOK /\ Controlled /\ Worked

-----------------------------------------------------------------------------
(* What mirroring touches *)

\* The work of a case in a mapping is what Unworked looks at.
LEMMA CleanIsUnworked ==
  ASSUME NEW f, NEW C, NEW c \in C, Clean(f, C)
  PROVE  Unworked(f, c)
BY DEF Clean, Unworked, WorkFiles

LEMMA UnworkedIsClean ==
  ASSUME NEW f, NEW C, \A c \in C : Unworked(f, c)
  PROVE  Clean(f, C)
BY DEF Clean, Unworked, WorkFiles

\* What is worked with is among the files.
LEMMA FilesAre ==
  /\ "human_decisions" \in Files /\ "resolution_events" \in Files
  /\ WorkFiles \subseteq Files
<1>1. DOMAIN ReadOrder = 1..11
  BY DEF ReadOrder
<1>2. /\ ReadOrder[8] = "human_decisions" /\ ReadOrder[7] = "resolution_events"
      /\ ReadOrder[3] = "work_orders" /\ ReadOrder[5] = "mrs" /\ ReadOrder[6] = "validation_events"
  BY DEF ReadOrder
<1> QED BY <1>1, <1>2 DEF Files, Members, WorkFiles

\* Live cases are published without work.
LEMMA PublishedClean == Kept(Published) /\ Clean(Published, LiveCases)
<1>1. Kept(Published)
  BY PublishedRowsAssumption, FilesAre DEF Kept, LiveCases
<1>2. ASSUME NEW c \in LiveCases PROVE Unworked(Published, c)
  <2>1. c \in Cases(Published) /\ Published.human_decisions[c].status = "PENDING"
    BY DEF LiveCases
  <2>2. ControlsHold(Published)
    BY PublishedAssumption DEF Gate
  <2> QED BY <2>1, <2>2 DEF ControlsHold
<1> QED BY <1>1, <1>2, UnworkedIsClean

\* The control files and the care files hold no work.
LEMMA RefreshCareKeepsWork ==
  ASSUME NEW f, Kept(f), NEW C, Clean(f, C)
  PROVE  Kept(RefreshCare(f)) /\ Clean(RefreshCare(f), C)
<1>1. \A name \in WorkFiles : name \in DOMAIN RefreshCare(f) /\ RefreshCare(f)[name] = f[name]
  BY DEF RefreshCare, WorkFiles, Kept
<1> QED BY <1>1 DEF Kept, Clean

LEMMA BlockedKeepsWork ==
  ASSUME NEW f, Kept(f), NEW C, Clean(f, C), NEW q, NEW t
  PROVE  Kept(Blocked(f, q, t)) /\ Clean(Blocked(f, q, t), C)
<1>1. \A name \in WorkFiles : name \in DOMAIN Blocked(f, q, t) /\ Blocked(f, q, t)[name] = f[name]
  BY DEF Blocked, WorkFiles, Kept
<1> QED BY <1>1 DEF Kept, Clean

\* An effect leaves work for its own case only.
LEMMA MaterializeKeepsOthers ==
  ASSUME NEW g, Kept(g), NEW C \in SUBSET LiveCases, Clean(g, C),
         NEW c, c \notin C, NEW at, NEW diagnosis
  PROVE  Kept(Materialize(g, c, at, diagnosis)) /\ Clean(Materialize(g, c, at, diagnosis), C)
<1> DEFINE s == ScenarioOf(g, c)
           root == Manifest(g, c).root
           e == Downstream(BestAction(s), at, diagnosis)
           done == [g EXCEPT !.work_orders[c] = @ \o e.work,
                             !.field_evidence[c] = @ \o e.evidence,
                             !.mrs[c] = @ \o e.mr]
           full == [done EXCEPT
                      !.telemetry_tr181[c] = Append(@, e.post),
                      !.validation_events[c] = Append(@, e.post + Minutes(10)),
                      !.resolution_events[c] = Append(@, e.post + Minutes(10)),
                      !.incidents[root] = Restored(@, e.post)]
           Others(x, y) == \A name \in WorkFiles :
                             /\ name \in DOMAIN y
                             /\ DOMAIN y[name] = DOMAIN x[name]
                             /\ \A n \in DOMAIN x[name] : n # c => y[name][n] = x[name][n]
<1>1. Materialize(g, c, at, diagnosis) = IF ~Restores(s) \/ e.post = NoTime THEN done ELSE full
  BY DEF Materialize
<1> HIDE DEF s, root, e
<1>2. Others(g, done)
  BY DEF WorkFiles, Kept
<1>3. Others(done, full)
  <2> HIDE DEF done
  <2>1. \A name \in WorkFiles : name \in DOMAIN done
    BY <1>2
  <2> QED BY <2>1 DEF WorkFiles
<1>4. ASSUME NEW m, m = done \/ m = full PROVE Kept(m) /\ Clean(m, C)
  <2> HIDE DEF done, full
  <2>1. Others(g, m)
    BY <1>2, <1>3, <1>4
  <2>2. Kept(m)
    BY <2>1 DEF Kept
  <2>3. ASSUME NEW n \in C, NEW name \in WorkFiles PROVE m[name][n] = << >>
    BY <2>1 DEF Clean, Kept
  <2> QED BY <2>2, <2>3 DEF Clean
<1> HIDE DEF done, full
<1> QED BY <1>1, <1>4

LEMMA ApprovedKeepsOthers ==
  ASSUME NEW f, Kept(f), NEW C \in SUBSET LiveCases, Clean(f, C),
         NEW q, q.case \notin C, NEW t
  PROVE  Kept(Approved(f, q, t)) /\ Clean(Approved(f, q, t), C)
<1>1. \A name \in WorkFiles : /\ name \in DOMAIN Executes(f, q, t)
                              /\ Executes(f, q, t)[name] = f[name]
  BY DEF Executes, WorkFiles, Kept
<1>2. Kept(Executes(f, q, t)) /\ Clean(Executes(f, q, t), C)
  BY <1>1 DEF Kept, Clean
<1> QED BY <1>2, MaterializeKeepsOthers DEF Approved

\* Mirroring a decision leaves the cases in C without work, when the decided
\* case is not one of them or was not approved.
LEMMA MirroredKeepsOthers ==
  ASSUME NEW f, Kept(f), NEW C \in SUBSET LiveCases, Clean(f, C),
         NEW q, q.response = "approve" => q.case \notin C, NEW t
  PROVE  Kept(Mirrored(f, q, t)) /\ Clean(Mirrored(f, q, t), C)
<1>1. CASE q.response = "approve"
  BY <1>1, ApprovedKeepsOthers, RefreshCareKeepsWork DEF Mirrored
<1>2. CASE q.response # "approve"
  BY <1>2, BlockedKeepsWork, RefreshCareKeepsWork DEF Mirrored
<1> QED BY <1>1, <1>2

\* Replacing one file by the same file of a clean mapping keeps it clean.
LEMMA ReplacedKeepsWork ==
  ASSUME NEW f, Kept(f), NEW h, Kept(h), NEW C, Clean(f, C), Clean(h, C), NEW name
  PROVE  LET g == [f EXCEPT ![name] = h[name]] IN Kept(g) /\ Clean(g, C)
BY DEF Kept, Clean

-----------------------------------------------------------------------------
(* The invariant *)

LEMMA InitIInv == Init => IInv
<1> SUFFICES ASSUME Init PROVE IInv
  OBVIOUS
<1>1. TypeOK
  BY DEF Init, TypeOK, Waiting, States, Responses, PCs, Ends
<1>2. Controlled
  BY DEF Init, Controlled, OneDecisionPerCase, RevisionFollowsState, Speaks, Waiting, Mirroring
<1>3. Worked
  BY PublishedClean DEF Init, Worked, Clean, Unapproved
<1> QED BY <1>1, <1>2, <1>3 DEF IInv

\* A step that leaves the store, the files and the rows alone, and moves one
\* worker between two points where it speaks for the same decision.
LEMMA QuietStep ==
  ASSUME IInv, UNCHANGED <<control, files, request, decided, rows>>,
         catalog'.torn \in BOOLEAN,
         NEW w \in Workers, NEW to \in PCs, Goto(w, to),
         to \in Mirroring => pc[w] \in Mirroring,
         to = "deciding" => request[w].case \in LiveCases
  PROVE  IInv'
<1>1. TypeOK'
  BY DEF IInv, TypeOK, Goto, control
<1>2. Controlled'
  BY DEF IInv, Controlled, OneDecisionPerCase, RevisionFollowsState, Speaks, Goto, control, TypeOK
<1>3. Worked'
  BY DEF IInv, Worked, Clean, Unapproved, Kept, control
<1> QED BY <1>1, <1>2, <1>3 DEF IInv

LEMMA StepIInv == IInv /\ [Next]_vars => IInv'
<1> SUFFICES ASSUME IInv, [Next]_vars PROVE IInv'
  OBVIOUS
<1> USE DEF PCs, Ends, Mirroring
<1>1. ASSUME NEW w \in Workers, Read(w) PROVE IInv'
  <2>1. catalog'.torn \in BOOLEAN
    BY <1>1 DEF Read, disk, IInv, TypeOK
  <2>2. CASE MayDecide(request[w])
    BY <1>1, <2>1, <2>2, QuietStep DEF Read, MayDecide, control, disk, memory
  <2>3. CASE ~MayDecide(request[w])
    BY <1>1, <2>1, <2>3, QuietStep DEF Read, control, disk, memory
  <2> QED BY <2>2, <2>3
<1>2. ASSUME NEW w \in Workers, OpenCatalog(w) PROVE IInv'
  <2>1. catalog'.torn \in BOOLEAN
    BY <1>2 DEF OpenCatalog, disk, IInv, TypeOK
  <2> QED BY <1>2, <2>1, QuietStep DEF OpenCatalog, control, disk
<1>3. ASSUME NEW w \in Workers, HashDataset(w) PROVE IInv'
  <2>1. catalog'.torn \in BOOLEAN
    BY <1>3 DEF HashDataset, disk, IInv, TypeOK
  <2> QED BY <1>3, <2>1, QuietStep DEF HashDataset, control, disk
<1>4. ASSUME NEW w \in Workers, TruncateCatalog(w) PROVE IInv'
  <2>1. catalog'.torn \in BOOLEAN
    BY <1>4 DEF TruncateCatalog, IInv, TypeOK
  <2> QED BY <1>4, <2>1, QuietStep DEF TruncateCatalog, control, memory
<1>5. ASSUME NEW w \in Workers, FillCatalog(w) PROVE IInv'
  <2>1. catalog'.torn \in BOOLEAN
    BY <1>5 DEF FillCatalog
  <2> QED BY <1>5, <2>1, QuietStep DEF FillCatalog, control, memory
<1>6. ASSUME NEW w \in Workers, Decide(w) PROVE IInv'
  <2> DEFINE q == request[w]
  <2>1. q.case \in LiveCases /\ pc[w] = "deciding" /\ q \in Requests
    BY <1>6 DEF Decide, IInv, Controlled, Speaks, TypeOK
  <2>2. CASE Swaps(q)
    <3>1. PICK t \in Clocks : decided' = [decided EXCEPT ![w] = t]
      BY <1>6, <2>2 DEF Decide
    <3>2. /\ store' = [store EXCEPT ![q.case] =
                         [revision |-> q.revision + 1, state |-> StateAfter(q.response),
                          response |-> q.response]]
          /\ accepted' = [accepted EXCEPT ![q.case] = @ + 1]
          /\ pc' = [pc EXCEPT ![w] = "opening"]
          /\ UNCHANGED <<disk, request, rows>>
      BY <1>6, <2>2 DEF Decide, Goto
    <3>3. /\ store[q.case].state = "WAITING_HUMAN"
          /\ q.revision = 1 /\ accepted[q.case] = 0
          /\ store[q.case].response # "approve"
      BY <2>1, <2>2 DEF Swaps, IInv, Controlled, OneDecisionPerCase, RevisionFollowsState
    <3>4. /\ q.response \in {"approve", "reject", "request_evidence", "escalate"}
          /\ StateAfter(q.response) \in States \ {"WAITING_HUMAN", "CLOSED_SIMULATED"}
          /\ StateAfter(q.response) = "ACTION_SIMULATED" <=> q.response = "approve"
      BY <2>1, RequestsAssumption DEF StateAfter, States
    <3>5. TypeOK'
      <4>1. store' \in [LiveCases -> [revision : 1..3, state : States, response : Responses]]
        BY <2>1, <3>2, <3>3, <3>4 DEF IInv, TypeOK, Responses
      <4>2. accepted' \in [LiveCases -> 0..1]
        BY <2>1, <3>2, <3>3 DEF IInv, TypeOK
      <4> QED BY <3>1, <3>2, <4>1, <4>2 DEF IInv, TypeOK, disk
    <3>6. Controlled'
      <4>1. OneDecisionPerCase'
        BY <2>1, <3>2, <3>3, <3>4 DEF IInv, TypeOK, Controlled, OneDecisionPerCase
      <4>2. RevisionFollowsState'
        BY <2>1, <3>2, <3>3, <3>4 DEF IInv, TypeOK, Controlled, RevisionFollowsState, States
      <4>3. ASSUME NEW v \in Workers PROVE Speaks(v)'
        BY <2>1, <3>2, <3>3, <4>3 DEF IInv, TypeOK, Controlled, Speaks
      <4> QED BY <4>1, <4>2, <4>3 DEF Controlled
    <3>7. Worked'
      <4>1. Unapproved' \subseteq Unapproved
        BY <2>1, <3>2, <3>3 DEF Unapproved, IInv, TypeOK
      <4> QED BY <3>2, <4>1 DEF IInv, Worked, Clean, disk
    <3> QED BY <3>5, <3>6, <3>7 DEF IInv
  <2>3. CASE ~Swaps(q)
    <3>1. catalog'.torn \in BOOLEAN
      BY <1>6 DEF Decide, disk, IInv, TypeOK
    <3> QED BY <1>6, <2>3, <3>1, QuietStep DEF Decide, disk
  <2> QED BY <2>2, <2>3
<1>7. ASSUME NEW w \in Workers, ReadDataset(w) PROVE IInv'
  <2> DEFINE name == NextIn(ReadOrder, left[w])
  <2>1. /\ rows' = [rows EXCEPT ![w] = [rows[w] EXCEPT ![name] = files[name]]]
        /\ UNCHANGED <<control, disk, pc, request, decided>>
    BY <1>7 DEF ReadDataset
  <2>2. Kept(rows'[w]) /\ Clean(rows'[w], Unapproved)
    BY <2>1, ReplacedKeepsWork DEF IInv, Worked
  <2>3. Worked'
    BY <2>1, <2>2 DEF IInv, Worked, Unapproved, control, disk
  <2>4. TypeOK' /\ Controlled'
    BY <2>1 DEF IInv, TypeOK, Controlled, OneDecisionPerCase, RevisionFollowsState, Speaks,
                control, disk
  <2> QED BY <2>3, <2>4 DEF IInv
<1>8. ASSUME NEW w \in Workers, Mirror(w) PROVE IInv'
  <2> DEFINE q == request[w]
             d == Mirrored(rows[w], q, decided[w])
  <2>1. pc[w] = "reading" /\ UNCHANGED <<control, disk, request, decided>>
    BY <1>8 DEF Mirror
  <2>2. catalog'.torn \in BOOLEAN
    BY <2>1 DEF disk, IInv, TypeOK
  <2>3. CASE Gate(d)
    <3>1. rows' = [rows EXCEPT ![w] = d] /\ pc' = [pc EXCEPT ![w] = "writing"]
      BY <1>8, <2>3 DEF Mirror, Goto
    <3>2. q.response = "approve" => q.case \notin Unapproved
      BY <2>1 DEF IInv, Controlled, Speaks, Unapproved
    <3>3. Kept(d) /\ Clean(d, Unapproved)
      <4>1. Unapproved \in SUBSET LiveCases
        BY DEF Unapproved
      <4> QED BY <3>2, <4>1, MirroredKeepsOthers DEF IInv, Worked
    <3> HIDE DEF d
    <3>4. Worked'
      BY <2>1, <3>1, <3>3 DEF IInv, Worked, Unapproved, control, disk
    <3>5. TypeOK' /\ Controlled'
      BY <2>1, <3>1 DEF IInv, TypeOK, Controlled, OneDecisionPerCase, RevisionFollowsState,
                        Speaks, control, disk
    <3> QED BY <3>4, <3>5 DEF IInv
  <2>4. CASE ~Gate(d)
    BY <1>8, <2>1, <2>2, <2>4, QuietStep DEF Mirror, disk
  <2> QED BY <2>3, <2>4
<1>9. ASSUME NEW w \in Workers, WriteDataset(w) PROVE IInv'
  <2> DEFINE name == NextIn(WriteOrder, left[w])
  <2>1. /\ files' = [files EXCEPT ![name] = rows[w][name]]
        /\ pc[w] = "writing" /\ pc' = [pc EXCEPT ![w] = "hashing"]
        /\ UNCHANGED <<control, catalog, request, decided, rows>>
    BY <1>9 DEF WriteDataset, Goto, memory
  <2>2. Kept(files') /\ Clean(files', Unapproved)
    BY <2>1, ReplacedKeepsWork DEF IInv, Worked
  <2>3. Worked'
    BY <2>1, <2>2 DEF IInv, Worked, Unapproved, control
  <2>4. TypeOK' /\ Controlled'
    BY <2>1 DEF IInv, TypeOK, Controlled, OneDecisionPerCase, RevisionFollowsState, Speaks, control
  <2> QED BY <2>3, <2>4 DEF IInv
<1>10. ASSUME NEW w \in Workers, MarkVerified(w) PROVE IInv'
  <2> DEFINE c == request[w].case
  <2>1. c \in LiveCases /\ pc[w] = "verifying" /\ UNCHANGED <<accepted, disk, memory>>
    BY <1>10 DEF MarkVerified, IInv, Controlled, Speaks
  <2>2. CASE store[c].state = "ACTION_SIMULATED"
    <3>1. /\ store' = [store EXCEPT ![c] =
                         [revision |-> store[c].revision + 1, state |-> "CLOSED_SIMULATED",
                          response |-> store[c].response]]
          /\ pc' = [pc EXCEPT ![w] = "done"]
      BY <1>10, <2>2 DEF MarkVerified, Goto
    <3>2. store[c].response = "approve" /\ store[c].revision = 2 /\ accepted[c] = 1
      BY <2>1, <2>2 DEF IInv, Controlled, RevisionFollowsState, Speaks
    <3>3. TypeOK'
      <4>1. store[c] \in [revision : 1..3, state : States, response : Responses]
        BY <2>1 DEF IInv, TypeOK
      <4>2. store' \in [LiveCases -> [revision : 1..3, state : States, response : Responses]]
        BY <2>1, <3>1, <3>2, <4>1 DEF IInv, TypeOK, States
      <4> QED BY <2>1, <3>1, <4>2 DEF IInv, TypeOK, disk, memory
    <3>4. Controlled'
      <4>1. OneDecisionPerCase'
        BY <2>1, <3>1, <3>2 DEF IInv, TypeOK, Controlled, OneDecisionPerCase
      <4>2. RevisionFollowsState'
        BY <2>1, <3>1, <3>2 DEF IInv, TypeOK, Controlled, RevisionFollowsState
      <4>3. ASSUME NEW v \in Workers PROVE Speaks(v)'
        BY <2>1, <3>1, <4>3 DEF IInv, TypeOK, Controlled, Speaks, memory
      <4> QED BY <4>1, <4>2, <4>3 DEF Controlled
    <3>5. Worked'
      <4>1. Unapproved' = Unapproved
        BY <2>1, <3>1 DEF Unapproved, IInv, TypeOK
      <4> QED BY <2>1, <4>1 DEF IInv, Worked, disk, memory
    <3> QED BY <3>3, <3>4, <3>5 DEF IInv
  <2>3. CASE store[c].state # "ACTION_SIMULATED"
    <3>1. catalog'.torn \in BOOLEAN
      BY <2>1 DEF disk, IInv, TypeOK
    <3> QED BY <1>10, <2>1, <2>3, <3>1, QuietStep DEF MarkVerified, control, disk, memory
  <2> QED BY <2>2, <2>3
<1>11. ASSUME Crash PROVE IInv'
  <2>1. /\ pc' = [w \in Workers |-> IF InFlight(w) THEN "lost" ELSE pc[w]]
        /\ UNCHANGED <<control, disk, memory>>
    BY <1>11 DEF Crash
  <2>2. TypeOK'
    BY <2>1 DEF IInv, TypeOK, control, disk, memory
  <2>3. Controlled'
    BY <2>1 DEF IInv, Controlled, OneDecisionPerCase, RevisionFollowsState, Speaks, TypeOK,
                control, memory
  <2>4. Worked'
    BY <2>1 DEF IInv, Worked, Unapproved, control, disk, memory
  <2> QED BY <2>2, <2>3, <2>4 DEF IInv
<1>12. CASE UNCHANGED vars
  BY <1>12 DEF vars, control, disk, memory, IInv, TypeOK, Controlled, OneDecisionPerCase,
               RevisionFollowsState, Speaks, Worked, Unapproved
<1> QED
  BY <1>1, <1>2, <1>3, <1>4, <1>5, <1>6, <1>7, <1>8, <1>9, <1>10, <1>11, <1>12
     DEF Next, Step, Ended

\* The invariant holds of every behaviour.
THEOREM Inductive == Spec => []IInv
BY InitIInv, StepIInv, PTL DEF Spec

\* The control state has its type, whatever the run and the requests.
THEOREM TypeCorrect == Spec => []TypeOK
BY Inductive, PTL DEF IInv

\* A case takes at most one decision, and its state is that decision's.
THEOREM DecidedOnce == Spec => []OneDecisionPerCase
BY Inductive, PTL DEF IInv, Controlled

\* No work is ever on disk for a case that was not approved, although the rows
\* that are written come from files read at different moments.
THEOREM WorkIsApproved == Spec => []NoWorkWithoutApproval
<1>1. IInv => NoWorkWithoutApproval
  BY CleanIsUnworked DEF IInv, Worked, NoWorkWithoutApproval, Unapproved
<1> QED BY <1>1, Inductive, PTL
-----------------------------------------------------------------------------
(* Requests that do not overlap                                               *)
(*                                                                         *)
(* One request at a time reads what its predecessors have written, dead or *)
(* alive.  So what it has in memory differs from the disk by its own       *)
(* decision only, and what it does to the disk, file by file, adds to what *)
(* the others were told.                                                   *)

OneAtATime == \A v, w \in Workers : InFlight(v) /\ InFlight(w) => v = w

\* The files that carry a decision and its success, with rows for the live cases.
Tracked == {"human_decisions", "resolution_events"}
Shaped(f) ==
  /\ Files \union {"scenario_manifests"} \subseteq DOMAIN f
  /\ f.scenario_manifests = Published.scenario_manifests
  /\ LiveCases \subseteq DOMAIN f.human_decisions
  /\ \A c \in LiveCases : c \in DOMAIN f.resolution_events /\ f.resolution_events[c] \in Seq(Int)

\* Whoever has decided a case, and was not lost, is the only one to have done so.
Owns(w) == pc[w] \in Mirroring \union {"done"}
Owned ==
  /\ \A w \in Workers : Owns(w) => /\ request[w].case \in LiveCases
                                   /\ accepted[request[w].case] = 1
                                   /\ store[request[w].case].response = request[w].response
                                   /\ decided[w] \in Clocks
  /\ \A v, w \in Workers : Owns(v) /\ Owns(w) /\ v # w => request[v].case # request[w].case

\* An exported decision is the one the store has accepted.
Exports ==
  \A c \in LiveCases :
    \/ files.human_decisions[c].status = "PENDING"
    \/ accepted[c] = 1 /\ files.human_decisions[c].status = StatusAfter(store[c].response)

Restoring(w) ==
  request[w].response = "approve" /\ Restores(ScenarioOf(Published, request[w].case))
RulingOf(w) == Ruling(Published, request[w], decided[w])

\* What was read is what is on disk.
Reads(w) ==
  pc[w] = "reading" => \A name \in Tracked \ left[w] : rows[w][name] = files[name]

\* What is to be written adds the decision of the worker, and nothing else that
\* matters here; what was written is on disk.
Written(w, name) ==
  \/ name \notin left[w]
  \/ pc[w] = "hashing" /\ name = NextIn(WriteOrder, left[w])
Mirrors(w) ==
  pc[w] \in Mirroring \ {"opening", "reading"} =>
    /\ rows[w].human_decisions =
         [files.human_decisions EXCEPT ![request[w].case] = RulingOf(w)]
    /\ \A c \in LiveCases : Restoration(files, c) => Restoration(rows[w], c)
    /\ Restoring(w) => Restoration(rows[w], request[w].case)
    /\ Written(w, "human_decisions") => files.human_decisions[request[w].case] = RulingOf(w)
    /\ Written(w, "resolution_events") /\ Restoring(w) => Restoration(files, request[w].case)
    /\ pc[w] \notin {"writing", "hashing"} => left[w] = {}

\* What a client was told.
Told(w) ==
  pc[w] = "done" =>
    /\ files.human_decisions[request[w].case] = RulingOf(w)
    /\ Restoring(w) => /\ store[request[w].case].state = "CLOSED_SIMULATED"
                       /\ Restoration(files, request[w].case)

MirrorInv ==
  /\ IInv /\ OneAtATime /\ Owned /\ DOMAIN left = Workers
  /\ Shaped(files) /\ (\A w \in Workers : Shaped(rows[w])) /\ Exports
  /\ \A w \in Workers : Reads(w) /\ Mirrors(w) /\ Told(w)

-----------------------------------------------------------------------------
(* What a decision adds to the files *)

LEMMA PublishedShaped == Shaped(Published)
<1>1. \A c \in LiveCases : Published.resolution_events[c] = << >>
  BY PublishedClean DEF Clean, WorkFiles
<1>2. LiveCases \subseteq Cases(Published)
  BY DEF LiveCases
<1>3. Cases(Published) \subseteq DOMAIN Published["human_decisions"]
      /\ Cases(Published) \subseteq DOMAIN Published["resolution_events"]
  BY PublishedRowsAssumption DEF WorkFiles
<1>4. Files \union {"scenario_manifests"} \subseteq DOMAIN Published
  BY PublishedRowsAssumption
<1>5. << >> \in Seq(Int)
  OBVIOUS
<1>6. \A c \in LiveCases : Published.resolution_events[c] \in Seq(Int)
  BY <1>1, <1>5
<1> QED BY <1>2, <1>3, <1>4, <1>6 DEF Shaped

\* A restoring action ends with healthy telemetry.
LEMMA RestoringHasPost ==
  ASSUME NEW s \in Scenarios, Restores(s), NEW at \in Int, at > NoTime, NEW diagnosis
  PROVE  Downstream(BestAction(s), at, diagnosis).post \in {t \in Int : t > NoTime}
<1>1. BestAction(s) \in {"remote_repair", "dispatch_clean", "create_mr", "cpe_swap"}
  BY DEF Scenarios, Restores, BestAction, Policy
<1> DEFINE a == BestAction(s)
<1> HIDE DEF a
<1>2. a \in {"remote_repair", "dispatch_clean", "create_mr", "cpe_swap"}
  BY <1>1 DEF a
<1>3. CASE a = "remote_repair"
  <2>1. Downstream(a, at, diagnosis).post = at + Minutes(10)
    BY <1>3, Zenon DEF Downstream, NothingDone
  <2> QED BY <2>1, NoTimeIsInt DEF Minutes, a
<1>4. CASE a = "dispatch_clean"
  <2>1. Downstream(a, at, diagnosis).post = at + Minutes(95)
    BY <1>4, Zenon DEF Downstream, NothingDone
  <2> QED BY <2>1, NoTimeIsInt DEF Minutes, a
<1>5. CASE a = "create_mr"
  <2>1. Downstream(a, at, diagnosis).post = at + Minutes(115)
    BY <1>5, Zenon DEF Downstream, NothingDone
  <2> QED BY <2>1, NoTimeIsInt DEF Minutes, a
<1>6. CASE a = "cpe_swap"
  <2>1. Downstream(a, at, diagnosis).post = at + Minutes(95)
    BY <1>6, Zenon DEF Downstream, NothingDone
  <2> QED BY <2>1, NoTimeIsInt DEF Minutes, a
<1> QED BY <1>2, <1>3, <1>4, <1>5, <1>6 DEF a

\* Nothing but a resolution of its own case reaches the tracked files.
LEMMA MaterializeResolves ==
  ASSUME NEW g, {"human_decisions", "resolution_events", "scenario_manifests"} \subseteq DOMAIN g,
         NEW c \in DOMAIN g.resolution_events, g.resolution_events[c] \in Seq(Int),
         NEW at \in Int, at > NoTime, NEW diagnosis
  PROVE  LET m == Materialize(g, c, at, diagnosis)
         IN /\ DOMAIN m = DOMAIN g
            /\ m.scenario_manifests = g.scenario_manifests
            /\ m.human_decisions = g.human_decisions
            /\ DOMAIN m.resolution_events = DOMAIN g.resolution_events
            /\ \A n \in DOMAIN g.resolution_events :
                 n # c => m.resolution_events[n] = g.resolution_events[n]
            /\ ScenarioOf(g, c) \in Scenarios =>
                 /\ m.resolution_events[c] \in Seq(Int)
                 /\ Restores(ScenarioOf(g, c)) \/ Restoration(g, c) => Restoration(m, c)
<1> DEFINE s == ScenarioOf(g, c)
           root == Manifest(g, c).root
           e == Downstream(BestAction(s), at, diagnosis)
           done == [g EXCEPT !.work_orders[c] = @ \o e.work,
                             !.field_evidence[c] = @ \o e.evidence,
                             !.mrs[c] = @ \o e.mr]
           full == [done EXCEPT
                      !.telemetry_tr181[c] = Append(@, e.post),
                      !.validation_events[c] = Append(@, e.post + Minutes(10)),
                      !.resolution_events[c] = Append(@, e.post + Minutes(10)),
                      !.incidents[root] = Restored(@, e.post)]
           m == Materialize(g, c, at, diagnosis)
           Same(x, y) == /\ DOMAIN y = DOMAIN x
                         /\ y.scenario_manifests = x.scenario_manifests
                         /\ y.human_decisions = x.human_decisions
<1>1. m = IF ~Restores(s) \/ e.post = NoTime THEN done ELSE full
  BY DEF Materialize
<1>2. s \in Scenarios /\ Restores(s) => e.post \in Int /\ e.post # NoTime
  BY RestoringHasPost, NoTimeIsInt
<1> HIDE DEF s, root, e, m
<1>3. Same(g, done) /\ done.resolution_events = g.resolution_events
  OBVIOUS
<1>4. Same(done, full)
      /\ full.resolution_events = [done.resolution_events EXCEPT ![c] = Append(@, e.post + Minutes(10))]
  <2> HIDE DEF done
  <2>1. {"human_decisions", "resolution_events", "scenario_manifests"} \subseteq DOMAIN done
    BY <1>3
  <2> QED BY <2>1
<1> HIDE DEF done, full
<1>5. CASE m = done /\ ~(s \in Scenarios /\ Restores(s))
  BY <1>5, <1>3 DEF Restoration, s, m
<1>6. CASE m = full /\ Restores(s)
  <2>1. Same(g, m)
    BY <1>6, <1>3, <1>4
  <2>2. m.resolution_events = [g.resolution_events EXCEPT ![c] = Append(@, e.post + Minutes(10))]
    BY <1>6, <1>3, <1>4
  <2>3. s \in Scenarios => m.resolution_events[c] \in Seq(Int) /\ m.resolution_events[c] # << >>
    <3>1. SUFFICES ASSUME s \in Scenarios
                   PROVE m.resolution_events[c] \in Seq(Int) /\ m.resolution_events[c] # << >>
      OBVIOUS
    <3>2. e.post + Minutes(10) \in Int
      BY <1>2, <1>6, <3>1 DEF Minutes
    <3>3. m.resolution_events[c] = Append(g.resolution_events[c], e.post + Minutes(10))
      BY <2>2
    <3> QED BY <3>2, <3>3
  <2> QED BY <2>1, <2>2, <2>3 DEF Restoration, s, m
<1> QED BY <1>1, <1>2, <1>5, <1>6

LEMMA RefreshCareTracks ==
  ASSUME NEW f, {"human_decisions", "resolution_events", "scenario_manifests"} \subseteq DOMAIN f
  PROVE  LET g == RefreshCare(f)
         IN /\ DOMAIN g = DOMAIN f
            /\ g.scenario_manifests = f.scenario_manifests
            /\ g.human_decisions = f.human_decisions
            /\ g.resolution_events = f.resolution_events
BY DEF RefreshCare

\* Mirroring a decision exports it, and its resolution if it restores.
LEMMA MirroredExports ==
  ASSUME NEW f, Shaped(f), NEW q, q.case \in LiveCases, NEW t \in Clocks
  PROVE  LET g == Mirrored(f, q, t)
         IN /\ Shaped(g)
            /\ g.human_decisions =
                 [f.human_decisions EXCEPT ![q.case] = Ruling(Published, q, t)]
            /\ \A c \in LiveCases : Restoration(f, c) => Restoration(g, c)
            /\ q.response = "approve" /\ Restores(ScenarioOf(Published, q.case)) =>
                 Restoration(g, q.case)
<1> DEFINE g == Mirrored(f, q, t)
           c == q.case
           T == {"human_decisions", "resolution_events", "scenario_manifests"}
           human == [f.human_decisions EXCEPT ![c] = Ruling(f, q, t)]
<1>1. T \subseteq DOMAIN f /\ c \in DOMAIN f.resolution_events
      /\ f.resolution_events[c] \in Seq(Int)
  BY FilesAre DEF Shaped
<1>2. Ruling(f, q, t) = Ruling(Published, q, t) /\ ScenarioOf(f, c) = ScenarioOf(Published, c)
  BY DEF Shaped, Ruling, Manifest, ScenarioOf
<1>3. ScenarioOf(f, c) \in Scenarios
  BY <1>2, PublishedRowsAssumption DEF LiveCases
<1>4. SUFFICES /\ DOMAIN g = DOMAIN f
               /\ g.scenario_manifests = f.scenario_manifests
               /\ g.human_decisions = human
               /\ DOMAIN g.resolution_events = DOMAIN f.resolution_events
               /\ \A n \in DOMAIN f.resolution_events :
                    n # c => g.resolution_events[n] = f.resolution_events[n]
               /\ g.resolution_events[c] \in Seq(Int)
               /\ Restoration(f, c) => Restoration(g, c)
               /\ q.response = "approve" /\ Restores(ScenarioOf(f, c)) => Restoration(g, c)
  <2> HIDE DEF g
  <2>1. LiveCases \subseteq DOMAIN human
    BY DEF Shaped
  <2> HIDE DEF human
  <2>2. \A n \in LiveCases : n # c => (Restoration(f, n) => Restoration(g, n))
    BY <1>4 DEF Shaped, Restoration
  <2>3. Shaped(g)
    BY <1>4, <2>1 DEF Shaped
  <2> QED BY <1>2, <1>4, <2>2, <2>3 DEF human, g
<1>5. CASE q.response # "approve"
  <2>1. g = RefreshCare(Blocked(f, q, t))
    BY <1>5 DEF Mirrored
  <2>2. LET b == Blocked(f, q, t)
        IN /\ DOMAIN b = DOMAIN f
           /\ b.scenario_manifests = f.scenario_manifests
           /\ b.human_decisions = human
           /\ b.resolution_events = f.resolution_events
    BY <1>1 DEF Blocked
  <2>3. /\ DOMAIN g = DOMAIN f
        /\ g.scenario_manifests = f.scenario_manifests
        /\ g.human_decisions = human
        /\ g.resolution_events = f.resolution_events
    BY <1>1, <2>1, <2>2, RefreshCareTracks
  <2> HIDE DEF g, human
  <2> QED BY <1>1, <1>5, <2>3 DEF Restoration
<1>6. CASE q.response = "approve"
  <2> DEFINE x == Executes(f, q, t)
             a == Materialize(x, c, t + Minutes(1), t - Minutes(1))
  <2>1. g = RefreshCare(a)
    BY <1>6 DEF Mirrored, Approved
  <2>2. /\ DOMAIN x = DOMAIN f
        /\ x.scenario_manifests = f.scenario_manifests
        /\ x.human_decisions = human
        /\ x.resolution_events = f.resolution_events
    BY <1>1 DEF Executes
  <2>3. ScenarioOf(x, c) = ScenarioOf(f, c)
    BY <2>2 DEF ScenarioOf, Manifest
  <2>4. t + Minutes(1) \in Int /\ t + Minutes(1) > NoTime
    BY ClocksAssumption, NoTimeIsInt DEF Minutes
  <2> HIDE DEF x
  <2>5. /\ DOMAIN a = DOMAIN x
        /\ a.scenario_manifests = x.scenario_manifests
        /\ a.human_decisions = x.human_decisions
        /\ DOMAIN a.resolution_events = DOMAIN x.resolution_events
        /\ \A n \in DOMAIN x.resolution_events :
             n # c => a.resolution_events[n] = x.resolution_events[n]
        /\ a.resolution_events[c] \in Seq(Int)
        /\ Restores(ScenarioOf(x, c)) \/ Restoration(x, c) => Restoration(a, c)
    BY <1>1, <1>3, <2>2, <2>3, <2>4, MaterializeResolves
  <2> HIDE DEF a
  <2>6. /\ DOMAIN g = DOMAIN a
        /\ g.scenario_manifests = a.scenario_manifests
        /\ g.human_decisions = a.human_decisions
        /\ g.resolution_events = a.resolution_events
    BY <1>1, <2>1, <2>2, <2>5, RefreshCareTracks
  <2> HIDE DEF g, human
  <2> QED BY <2>2, <2>3, <2>5, <2>6 DEF Restoration
<1> QED BY <1>5, <1>6

-----------------------------------------------------------------------------
(* The invariant of requests that do not overlap *)

LEMMA InitMirrorInv == Init => MirrorInv
<1> SUFFICES ASSUME Init PROVE MirrorInv
  OBVIOUS
<1>1. IInv
  BY InitIInv
<1>2. \A w \in Workers : pc[w] = "idle"
  BY DEF Init
<1>3. OneAtATime /\ Owned /\ DOMAIN left = Workers
  BY <1>2 DEF OneAtATime, Owned, InFlight, Owns, Mirroring, Init
<1>4. Shaped(files) /\ \A w \in Workers : Shaped(rows[w])
  BY PublishedShaped DEF Init
<1>5. Exports
  BY DEF Init, Exports, LiveCases
<1>6. \A w \in Workers : Reads(w) /\ Mirrors(w) /\ Told(w)
  BY <1>2 DEF Reads, Mirrors, Told, Mirroring
<1> QED BY <1>1, <1>3, <1>4, <1>5, <1>6 DEF MirrorInv

\* A step that moves one worker and leaves everything but the catalog alone.
LEMMA MovedMirror ==
  ASSUME MirrorInv, IInv', UNCHANGED <<store, accepted, files, request, decided, rows, left>>,
         NEW w \in Workers, NEW to, Goto(w, to),
         to \in Ends \/ InFlight(w) \/ AtRest,
         to \in Mirroring \union {"done"} => pc[w] \in {"recording", "filling"},
         to \in {"recording", "filling", "verifying", "done"} \union (PCs \ Mirroring),
         to = "done" /\ Restoring(w) =>
           /\ Restoration(files, request[w].case)
           /\ store[request[w].case].state = "CLOSED_SIMULATED"
  PROVE  MirrorInv'
<1> USE DEF Mirroring, Ends
<1>1. /\ pc' = [pc EXCEPT ![w] = to] /\ pc'[w] = to
      /\ \A v \in Workers : v # w => pc'[v] = pc[v]
  BY DEF Goto, MirrorInv, IInv, TypeOK
<1>2. OneAtATime'
  BY <1>1 DEF MirrorInv, OneAtATime, InFlight, AtRest
<1>3. Owned'
  BY <1>1 DEF MirrorInv, Owned, Owns
<1>4. Shaped(files)' /\ (\A v \in Workers : Shaped(rows[v])') /\ Exports'
  BY DEF MirrorInv, Shaped, Exports
<1>5. ASSUME NEW v \in Workers, v # w PROVE Reads(v)' /\ Mirrors(v)' /\ Told(v)'
  BY <1>1, <1>5 DEF MirrorInv, Reads, Mirrors, Told, Written, Restoring, RulingOf, Restoration
<1>6. Reads(w)'
  BY <1>1 DEF Reads, PCs
<1>7. Mirrors(w)'
  <2>1. SUFFICES ASSUME to \in {"recording", "filling", "verifying"} PROVE Mirrors(w)'
    BY <1>1 DEF Mirrors, PCs
  <2>2. pc[w] \in {"recording", "filling"} /\ Mirrors(w)
    BY <2>1 DEF MirrorInv
  <2> QED BY <1>1, <2>1, <2>2 DEF Mirrors, Written, Restoring, RulingOf, Restoration
<1>8. Told(w)'
  <2>1. SUFFICES ASSUME to = "done" PROVE Told(w)'
    BY <1>1 DEF Told
  <2>2. pc[w] \in {"recording", "filling"} /\ Mirrors(w)
    BY <2>1 DEF MirrorInv
  <2> QED BY <1>1, <2>1, <2>2 DEF Mirrors, Written, Told, Restoring, RulingOf, Restoration
<1> QED BY <1>2, <1>3, <1>4, <1>5, <1>6, <1>7, <1>8 DEF MirrorInv

\* The other requests are over, so that a step of one only has to keep what
\* their clients were told.
LEMMA OthersRest ==
  ASSUME MirrorInv, NEW w \in Workers, InFlight(w), NEW v \in Workers, v # w
  PROVE  pc[v] \notin Mirroring \union {"deciding"}
BY DEF MirrorInv, OneAtATime, InFlight, Ends, Mirroring

\* A step of one worker in flight that decides nothing: what is left to show is
\* about the files, the rows and this worker.
LEMMA WorkingMirror ==
  ASSUME MirrorInv, IInv', UNCHANGED <<store, accepted, request, decided>>,
         NEW w \in Workers, pc[w] \in Mirroring,
         NEW to \in Mirroring, pc' = [pc EXCEPT ![w] = to], DOMAIN left' = Workers,
         \A v \in Workers : v # w => rows'[v] = rows[v] /\ left'[v] = left[v],
         Shaped(files'), Shaped(rows'[w]), Exports',
         Reads(w)', Mirrors(w)',
         \A v \in Workers : v # w /\ pc[v] = "done" => Told(v)'
  PROVE  MirrorInv'
<1> USE DEF Mirroring, Ends
<1>1. /\ pc'[w] = to
      /\ \A v \in Workers : v # w => pc'[v] = pc[v]
  BY DEF MirrorInv, IInv, TypeOK
<1>2. OneAtATime'
  BY <1>1 DEF MirrorInv, OneAtATime, InFlight
<1>3. Owned'
  BY <1>1 DEF MirrorInv, Owned, Owns
<1>4. \A v \in Workers : Shaped(rows[v])'
  <2>1. \A v \in Workers : Shaped(rows'[v])
    BY DEF MirrorInv
  <2> QED BY <2>1 DEF Shaped
<1>5. ASSUME NEW v \in Workers, v # w PROVE Reads(v)' /\ Mirrors(v)' /\ Told(v)'
  <2>1. InFlight(w)
    BY DEF InFlight
  <2>2. pc[v] \notin Mirroring
    BY <1>5, <2>1, OthersRest
  <2>3. Reads(v)' /\ Mirrors(v)'
    BY <1>1, <1>5, <2>2 DEF Reads, Mirrors
  <2>4. Told(v)'
    <3>1. CASE pc[v] = "done"
      BY <1>5, <3>1
    <3>2. CASE pc[v] # "done"
      BY <1>1, <1>5, <3>2 DEF Told
    <3> QED BY <3>1, <3>2
  <2> QED BY <2>3, <2>4
<1>6. Told(w)'
  BY <1>1 DEF Told
<1> QED BY <1>2, <1>3, <1>4, <1>5, <1>6 DEF MirrorInv, Shaped

\* A ruling keeps the status of its response.
LEMMA RulingHasStatus ==
  ASSUME NEW w \in Workers PROVE RulingOf(w).status = StatusAfter(request[w].response)
BY DEF RulingOf, Ruling

LEMMA ReadsMirror ==
  ASSUME MirrorInv, IInv', NEW w \in Workers, ReadDataset(w) PROVE MirrorInv'
<1> DEFINE name == NextIn(ReadOrder, left[w])
<1>1. /\ pc[w] = "reading" /\ pc' = [pc EXCEPT ![w] = "reading"]
      /\ rows' = [rows EXCEPT ![w] = [rows[w] EXCEPT ![name] = files[name]]]
      /\ left' = [left EXCEPT ![w] = left[w] \ {name}]
      /\ UNCHANGED <<store, accepted, files, request, decided>>
  BY DEF ReadDataset, control, disk, MirrorInv, IInv, TypeOK
<1> HIDE DEF name
<1>2. Shaped(files') /\ Exports'
  BY <1>1 DEF MirrorInv, Exports
<1>3. rows'[w] = [rows[w] EXCEPT ![name] = files[name]]
  BY <1>1 DEF MirrorInv, IInv, Worked
<1>4. Shaped(rows'[w])
  <2>1. Shaped(rows[w]) /\ Shaped(files)
    BY DEF MirrorInv
  <2>2. /\ DOMAIN rows'[w] = DOMAIN rows[w]
        /\ \A n \in DOMAIN rows[w] : rows'[w][n] = rows[w][n] \/ rows'[w][n] = files[n]
    BY <1>3
  <2>3. \A n \in {"human_decisions", "resolution_events", "scenario_manifests"} :
          rows'[w][n] = rows[w][n] \/ rows'[w][n] = files[n]
    BY <2>1, <2>2, FilesAre DEF Shaped
  <2> HIDE <1>3
  <2> QED BY <2>1, <2>2, <2>3 DEF Shaped
<1>5. Reads(w)'
  <2>1. SUFFICES ASSUME NEW n \in Tracked, n \notin left'[w] PROVE rows'[w][n] = files[n]
    BY <1>1 DEF Reads
  <2>2. n \in DOMAIN rows[w]
    BY FilesAre DEF MirrorInv, Shaped, Tracked
  <2>3. left'[w] = left[w] \ {name} \/ left'[w] = left[w]
    BY <1>1
  <2>4. CASE n = name
    BY <1>3, <2>2, <2>4
  <2>5. CASE n # name /\ left'[w] = left[w] \ {name}
    BY <1>1, <1>3, <2>1, <2>2, <2>5 DEF MirrorInv, Reads
  <2>6. CASE n # name /\ left'[w] = left[w]
    BY <1>1, <1>3, <2>1, <2>2, <2>6 DEF MirrorInv, Reads
  <2> QED BY <2>3, <2>4, <2>5, <2>6
<1>6. Mirrors(w)'
  <2>1. pc'[w] = "reading"
    BY <1>1 DEF MirrorInv, IInv, TypeOK
  <2> QED BY <2>1 DEF Mirrors
<1>7. \A v \in Workers : v # w /\ pc[v] = "done" => Told(v)'
  BY <1>1 DEF MirrorInv, IInv, TypeOK, Told, RulingOf, Restoring, Restoration
<1>8. /\ \A v \in Workers : v # w => rows'[v] = rows[v] /\ left'[v] = left[v]
      /\ DOMAIN left' = Workers
  BY <1>1 DEF MirrorInv
<1> QED BY <1>1, <1>2, <1>4, <1>5, <1>6, <1>7, <1>8, WorkingMirror DEF Mirroring

LEMMA MirrorsMirror ==
  ASSUME MirrorInv, IInv', NEW w \in Workers, Mirror(w) PROVE MirrorInv'
<1> DEFINE q == request[w]
           d == Mirrored(rows[w], q, decided[w])
<1>1. pc[w] = "reading" /\ left[w] = {}
      /\ UNCHANGED <<store, accepted, files, request, decided>>
  BY DEF Mirror, control, disk
<1>2. CASE ~Gate(d)
  <2>1. UNCHANGED <<rows, left>> /\ Goto(w, "refused")
    BY <1>2 DEF Mirror
  <2> QED BY <1>1, <2>1, MovedMirror DEF Ends, PCs, Mirroring
<1>3. CASE Gate(d)
  <2>1. /\ rows' = [rows EXCEPT ![w] = d]
        /\ left' = [left EXCEPT ![w] = Changed(rows[w], d, q)]
        /\ pc' = [pc EXCEPT ![w] = "writing"]
    BY <1>3 DEF Mirror, Goto
  <2>2. q.case \in LiveCases /\ decided[w] \in Clocks /\ Shaped(rows[w])
    BY <1>1 DEF MirrorInv, Owned, Owns, Mirroring
  <2>3. /\ rows[w].human_decisions = files.human_decisions
        /\ rows[w].resolution_events = files.resolution_events
    BY <1>1 DEF MirrorInv, Reads, Tracked
  <2>4. /\ Shaped(d)
        /\ d.human_decisions = [files.human_decisions EXCEPT ![q.case] = RulingOf(w)]
        /\ \A c \in LiveCases : Restoration(files, c) => Restoration(d, c)
        /\ Restoring(w) => Restoration(d, q.case)
    BY <2>2, <2>3, MirroredExports DEF RulingOf, Restoring, Restoration
  <2>5. /\ "human_decisions" \in Changed(rows[w], d, q)
        /\ Restoring(w) => "resolution_events" \in Changed(rows[w], d, q)
    BY DEF Changed, Restoring
  <2>6. rows'[w] = d
    BY <2>1 DEF MirrorInv, IInv, Worked
  <2> HIDE DEF d
  <2>7. pc'[w] = "writing"
    BY <2>1 DEF MirrorInv, IInv, TypeOK
  <2>8. left'[w] = Changed(rows[w], d, q) /\ DOMAIN left' = Workers
    BY <2>1 DEF MirrorInv
  <2>9. Mirrors(w)'
    <3>1. ~Written(w, "human_decisions")' /\ (Restoring(w) => ~Written(w, "resolution_events")')
      BY <2>5, <2>7, <2>8 DEF Written
    <3> QED BY <1>1, <2>4, <2>6, <2>7, <3>1 DEF Mirrors, RulingOf, Restoring, Restoration
  <2>10. Reads(w)'
    BY <2>7 DEF Reads
  <2>11. \A v \in Workers : v # w /\ pc[v] = "done" => Told(v)'
    BY <1>1, <2>1 DEF MirrorInv, IInv, TypeOK, Told, RulingOf, Restoring, Restoration
  <2>12. Shaped(files') /\ Exports' /\ Shaped(rows'[w])
    BY <1>1, <2>4, <2>6 DEF MirrorInv, Exports
  <2>13. \A v \in Workers : v # w => rows'[v] = rows[v] /\ left'[v] = left[v]
    BY <2>1
  <2> QED
    BY <1>1, <2>1, <2>8, <2>9, <2>10, <2>11, <2>12, <2>13, WorkingMirror DEF Mirroring
<1> QED BY <1>2, <1>3

LEMMA WritesMirror ==
  ASSUME MirrorInv, IInv', NEW w \in Workers, WriteDataset(w) PROVE MirrorInv'
<1> DEFINE name == NextIn(WriteOrder, left[w])
           c == request[w].case
<1>1. /\ pc[w] = "writing" /\ pc' = [pc EXCEPT ![w] = "hashing"]
      /\ files' = [files EXCEPT ![name] = rows[w][name]]
      /\ UNCHANGED <<store, accepted, request, decided, rows, left>>
  BY DEF WriteDataset, control, memory, Goto
<1>2. /\ c \in LiveCases /\ accepted[c] = 1 /\ store[c].response = request[w].response
      /\ Mirrors(w) /\ Shaped(files) /\ Shaped(rows[w])
  BY <1>1 DEF MirrorInv, Owned, Owns, Mirroring
<1>3. pc'[w] = "hashing"
  BY <1>1 DEF MirrorInv, IInv, TypeOK
<1> DEFINE Replaced(n) == files'[n] = IF n = name THEN rows[w][n] ELSE files[n]
<1>4. /\ DOMAIN files' = DOMAIN files
      /\ Replaced("human_decisions") /\ Replaced("resolution_events")
      /\ Replaced("scenario_manifests")
  BY <1>1, <1>2, FilesAre DEF Shaped
<1>5. Shaped(files')
  <2>1. \A n \in {"human_decisions", "resolution_events", "scenario_manifests"} :
          files'[n] = rows[w][n] \/ files'[n] = files[n]
    BY <1>4
  <2> HIDE DEF name, Replaced
  <2> QED BY <1>2, <1>4, <2>1 DEF Shaped
<1>6. rows[w].human_decisions = [files.human_decisions EXCEPT ![c] = RulingOf(w)]
      /\ (\A n \in LiveCases : Restoration(files, n) => Restoration(rows[w], n))
      /\ (Restoring(w) => Restoration(rows[w], c))
  BY <1>1, <1>2 DEF Mirrors, Mirroring
<1>7. c \in DOMAIN files.human_decisions /\ LiveCases \subseteq DOMAIN files.human_decisions
  BY <1>2 DEF Shaped
<1> HIDE DEF name, c
<1>8. \/ files'.human_decisions = files.human_decisions
      \/ files'.human_decisions = rows[w].human_decisions
  BY <1>4 DEF Replaced
<1>9. \A n \in LiveCases : Restoration(files, n) => Restoration(files', n)
  BY <1>4, <1>6 DEF Restoration, Replaced
<1>10. Exports'
  <2>1. SUFFICES ASSUME NEW n \in LiveCases
                 PROVE \/ files'.human_decisions[n].status = "PENDING"
                       \/ /\ accepted[n] = 1
                          /\ files'.human_decisions[n].status = StatusAfter(store[n].response)
    BY <1>1 DEF Exports
  <2>2. CASE files'.human_decisions[n] = files.human_decisions[n]
    BY <2>2 DEF MirrorInv, Exports
  <2>3. CASE n = c /\ files'.human_decisions[n] = RulingOf(w)
    BY <1>2, <2>3, RulingHasStatus DEF c
  <2> QED BY <1>6, <1>7, <1>8, <2>2, <2>3
<1>11. RulingOf(w)' = RulingOf(w) /\ Restoring(w)' = Restoring(w) /\ request[w].case' = c
  BY <1>1 DEF RulingOf, Restoring, c
<1>12. Mirrors(w)'
  <2>1. rows[w].human_decisions = [files'.human_decisions EXCEPT ![c] = RulingOf(w)]
    BY <1>6, <1>7, <1>8
  <2>2. \A n \in LiveCases : Restoration(files', n) => Restoration(rows[w], n)
    BY <1>4, <1>6 DEF Restoration, Replaced
  <2>3. ASSUME Written(w, "human_decisions")'
        PROVE  files'.human_decisions[c] = RulingOf(w)
    <3>1. CASE name = "human_decisions"
      BY <1>4, <1>6, <1>7, <3>1 DEF Replaced
    <3>2. CASE name # "human_decisions"
      <4>1. Written(w, "human_decisions")
        BY <1>1, <1>3, <2>3, <3>2 DEF Written, name
      <4>2. files.human_decisions[c] = RulingOf(w)
        BY <1>1, <1>2, <4>1 DEF Mirrors, Mirroring, c
      <4> QED BY <1>4, <3>2, <4>2 DEF Replaced
    <3> QED BY <3>1, <3>2
  <2>4. ASSUME Written(w, "resolution_events")', Restoring(w)
        PROVE  Restoration(files', c)
    <3>1. CASE name = "resolution_events"
      BY <1>4, <1>6, <2>4, <3>1 DEF Replaced, Restoration
    <3>2. CASE name # "resolution_events"
      <4>1. Written(w, "resolution_events")
        BY <1>1, <1>3, <2>4, <3>2 DEF Written, name
      <4>2. Restoration(files, c)
        BY <1>1, <1>2, <2>4, <4>1 DEF Mirrors, Mirroring, c
      <4> QED BY <1>2, <1>9, <4>2 DEF c
    <3> QED BY <3>1, <3>2
  <2>5. UNCHANGED rows[w]
    BY <1>1
  <2> QED BY <1>3, <1>6, <1>11, <2>1, <2>2, <2>3, <2>4, <2>5 DEF Mirrors, Restoration
<1>13. Reads(w)'
  BY <1>3 DEF Reads
<1>14. ASSUME NEW v \in Workers, v # w, pc[v] = "done" PROVE Told(v)'
  <2>1. Told(v) /\ request[v].case \in LiveCases /\ request[v].case # c
    BY <1>1, <1>14 DEF MirrorInv, Owned, Owns, Mirroring, c
  <2>2. files'.human_decisions[request[v].case] = files.human_decisions[request[v].case]
    BY <1>6, <1>7, <1>8, <2>1
  <2>3. Restoration(files, request[v].case) => Restoration(files', request[v].case)
    BY <1>9, <2>1
  <2>4. RulingOf(v)' = RulingOf(v) /\ Restoring(v)' = Restoring(v)
    BY <1>1 DEF RulingOf, Restoring
  <2> QED BY <1>1, <1>14, <2>1, <2>2, <2>3, <2>4 DEF Told, Restoration
<1>15. Shaped(rows'[w]) /\ DOMAIN left' = Workers
  BY <1>1, <1>2 DEF MirrorInv
<1>16. \A v \in Workers : v # w => rows'[v] = rows[v] /\ left'[v] = left[v]
  BY <1>1
<1> QED
  BY <1>1, <1>5, <1>10, <1>12, <1>13, <1>14, <1>15, <1>16, WorkingMirror DEF Mirroring

LEMMA HashesMirror ==
  ASSUME MirrorInv, IInv', NEW w \in Workers, HashDataset(w) PROVE MirrorInv'
<1> DEFINE name == NextIn(WriteOrder, left[w])
           to == IF left[w] = {name} THEN "recording" ELSE "writing"
<1>1. /\ pc[w] = "hashing" /\ pc' = [pc EXCEPT ![w] = to]
      /\ left' = [left EXCEPT ![w] = left[w] \ {name}]
      /\ UNCHANGED <<store, accepted, files, request, decided, rows>>
  BY DEF HashDataset, control, disk, Goto
<1>2. pc'[w] = to /\ left'[w] = left[w] \ {name} /\ DOMAIN left' = Workers
  BY <1>1 DEF MirrorInv, IInv, TypeOK
<1>3. /\ Written(w, "human_decisions")' => Written(w, "human_decisions")
      /\ Written(w, "resolution_events")' => Written(w, "resolution_events")
      /\ to = "recording" => left'[w] = {}
  BY <1>1, <1>2 DEF Written
<1> HIDE DEF name
<1>4. Mirrors(w)'
  <2>1. Mirrors(w) /\ UNCHANGED rows[w]
    BY <1>1 DEF MirrorInv
  <2> QED BY <1>1, <1>2, <1>3, <2>1 DEF Mirrors, Mirroring, RulingOf, Restoring, Restoration
<1>5. Reads(w)'
  BY <1>2 DEF Reads
<1>6. \A v \in Workers : v # w /\ pc[v] = "done" => Told(v)'
  BY <1>1 DEF MirrorInv, IInv, TypeOK, Told, RulingOf, Restoring, Restoration
<1>7. Shaped(files') /\ Exports' /\ Shaped(rows'[w])
  BY <1>1 DEF MirrorInv, Exports
<1>8. \A v \in Workers : v # w => rows'[v] = rows[v] /\ left'[v] = left[v]
  BY <1>1
<1>9. to \in Mirroring
  BY DEF Mirroring
<1> HIDE DEF to
<1> QED BY <1>1, <1>2, <1>4, <1>5, <1>6, <1>7, <1>8, <1>9, WorkingMirror DEF Mirroring

LEMMA OpensMirror ==
  ASSUME MirrorInv, IInv', NEW w \in Workers, OpenCatalog(w) PROVE MirrorInv'
<1>1. pc[w] = "opening" /\ UNCHANGED <<store, accepted, files, request, decided, rows>>
  BY DEF OpenCatalog, control, disk
<1>2. CASE catalog.torn
  BY <1>1, <1>2, MovedMirror DEF OpenCatalog, Ends, PCs, Mirroring
<1>3. CASE ~catalog.torn
  <2>1. left' = [left EXCEPT ![w] = Files] /\ pc' = [pc EXCEPT ![w] = "reading"]
    BY <1>3 DEF OpenCatalog, Goto
  <2>2. left'[w] = Files /\ DOMAIN left' = Workers /\ pc'[w] = "reading"
    BY <2>1 DEF MirrorInv, IInv, TypeOK
  <2>3. Reads(w)' /\ Mirrors(w)'
    BY <2>2, FilesAre DEF Reads, Mirrors, Tracked
  <2>4. \A v \in Workers : v # w /\ pc[v] = "done" => Told(v)'
    BY <1>1, <2>1 DEF MirrorInv, IInv, TypeOK, Told, RulingOf, Restoring, Restoration
  <2>5. Shaped(files') /\ Exports' /\ Shaped(rows'[w])
    BY <1>1 DEF MirrorInv, Exports
  <2>6. \A v \in Workers : v # w => rows'[v] = rows[v] /\ left'[v] = left[v]
    BY <1>1, <2>1
  <2> QED BY <1>1, <2>1, <2>2, <2>3, <2>4, <2>5, <2>6, WorkingMirror DEF Mirroring
<1> QED BY <1>2, <1>3

LEMMA FillsMirror ==
  ASSUME MirrorInv, IInv', NEW w \in Workers, FillCatalog(w) PROVE MirrorInv'
<1> DEFINE to == IF Verifies(w) THEN "verifying" ELSE "done"
<1>1. pc[w] = "filling" /\ Goto(w, to)
      /\ UNCHANGED <<store, accepted, files, request, decided, rows, left>>
  BY DEF FillCatalog, control, memory
<1>2. Restoring(w) => Verifies(w)
  BY <1>1 DEF MirrorInv, Mirrors, Mirroring, Restoring, Verifies
<1>3. to = "done" => ~Restoring(w)
  BY <1>2
<1>4. to \in {"verifying", "done"} /\ InFlight(w)
  BY <1>1 DEF InFlight, Ends
<1> HIDE DEF to
<1> QED BY <1>1, <1>3, <1>4, MovedMirror DEF Mirroring

LEMMA VerifiesMirror ==
  ASSUME MirrorInv, IInv', NEW w \in Workers, MarkVerified(w) PROVE MirrorInv'
<1> DEFINE c == request[w].case
<1>1. pc[w] = "verifying" /\ UNCHANGED <<accepted, files, request, decided, rows, left>>
  BY DEF MarkVerified, disk, memory
<1>2. CASE store[c].state # "ACTION_SIMULATED"
  <2>1. UNCHANGED store /\ Goto(w, "refused")
    BY <1>2 DEF MarkVerified
  <2> QED BY <1>1, <2>1, MovedMirror DEF Ends, PCs, Mirroring
<1>3. CASE store[c].state = "ACTION_SIMULATED"
  <2>1. /\ store' = [store EXCEPT ![c] =
                       [revision |-> store[c].revision + 1, state |-> "CLOSED_SIMULATED",
                        response |-> store[c].response]]
        /\ pc' = [pc EXCEPT ![w] = "done"]
    BY <1>3 DEF MarkVerified, Goto
  <2>2. c \in LiveCases /\ Mirrors(w) /\ Owned /\ OneAtATime
    BY <1>1 DEF MirrorInv, Owned, Owns, Mirroring
  <2>3. /\ pc'[w] = "done" /\ \A v \in Workers : v # w => pc'[v] = pc[v]
        /\ store'[c].state = "CLOSED_SIMULATED"
        /\ \A n \in LiveCases : /\ n # c => store'[n] = store[n]
                                /\ store'[n].response = store[n].response
    BY <2>1, <2>2 DEF MirrorInv, IInv, TypeOK
  <2>4. Owned'
    BY <1>1, <2>2, <2>3 DEF Owned, Owns, Mirroring
  <2>5. OneAtATime'
    BY <2>2, <2>3 DEF OneAtATime, InFlight, Ends
  <2>6. Exports' /\ Shaped(files)' /\ (\A v \in Workers : Shaped(rows[v])')
    BY <1>1, <2>3 DEF MirrorInv, Exports, Shaped
  <2>7. \A v \in Workers : v # w => pc[v] \notin Mirroring
    BY <1>1, OthersRest DEF InFlight, Ends
  <2>8. \A v \in Workers : Reads(v)' /\ Mirrors(v)'
    BY <2>3, <2>7 DEF Reads, Mirrors, Mirroring
  <2>9. Told(w)'
    BY <1>1, <2>2, <2>3 DEF Told, Mirrors, Mirroring, Written, RulingOf, Restoring, Restoration
  <2>10. ASSUME NEW v \in Workers, v # w PROVE Told(v)'
    <3>1. SUFFICES ASSUME pc[v] = "done" PROVE Told(v)'
      BY <2>3, <2>10 DEF Told
    <3>2. Told(v) /\ request[v].case \in LiveCases /\ request[v].case # c
      BY <1>1, <2>2, <2>10, <3>1 DEF MirrorInv, Owned, Owns, Mirroring
    <3> QED BY <1>1, <2>3, <3>1, <3>2 DEF Told, RulingOf, Restoring, Restoration
  <2> QED
    BY <1>1, <2>4, <2>5, <2>6, <2>8, <2>9, <2>10 DEF MirrorInv
<1> QED BY <1>2, <1>3

LEMMA DecidesMirror ==
  ASSUME MirrorInv, IInv', NEW w \in Workers, Decide(w) PROVE MirrorInv'
<1> DEFINE q == request[w]
<1>1. pc[w] = "deciding" /\ q.case \in LiveCases /\ UNCHANGED <<files, request, rows, left>>
  BY DEF Decide, disk, MirrorInv, IInv, Controlled, Speaks
<1>2. CASE ~Swaps(q)
  <2>1. UNCHANGED <<store, accepted, decided>> /\ Goto(w, "refused")
    BY <1>2 DEF Decide, control
  <2> QED BY <1>1, <2>1, MovedMirror DEF Ends, PCs, Mirroring
<1>3. CASE Swaps(q)
  <2>1. /\ store' = [store EXCEPT ![q.case] =
                       [revision |-> q.revision + 1, state |-> StateAfter(q.response),
                        response |-> q.response]]
        /\ accepted' = [accepted EXCEPT ![q.case] = @ + 1]
        /\ pc' = [pc EXCEPT ![w] = "opening"]
    BY <1>3 DEF Decide, Goto
  <2>2. PICK t \in Clocks : decided' = [decided EXCEPT ![w] = t]
    BY <1>3 DEF Decide
  <2>3. accepted[q.case] = 0
    BY <1>1, <1>3 DEF Swaps, MirrorInv, IInv, Controlled, OneDecisionPerCase
  <2>4. /\ pc'[w] = "opening" /\ decided'[w] = t
        /\ \A v \in Workers : v # w => pc'[v] = pc[v] /\ decided'[v] = decided[v]
        /\ accepted'[q.case] = 1 /\ store'[q.case].response = q.response
        /\ \A n \in LiveCases : n # q.case => store'[n] = store[n] /\ accepted'[n] = accepted[n]
    BY <1>1, <2>1, <2>2, <2>3 DEF MirrorInv, IInv, TypeOK
  <2>5. ASSUME NEW v \in Workers, v # w, Owns(v)
        PROVE  request[v].case \in LiveCases /\ request[v].case # q.case
    BY <2>3, <2>5 DEF MirrorInv, Owned
  <2>6. Owned'
    BY <1>1, <2>4, <2>5 DEF MirrorInv, Owned, Owns, Mirroring
  <2>7. OneAtATime'
    BY <1>1, <2>4 DEF MirrorInv, OneAtATime, InFlight, Ends
  <2>8. Exports'
    <3>1. files.human_decisions[q.case].status = "PENDING"
      BY <1>1, <2>3 DEF MirrorInv, Exports
    <3>2. \A n \in LiveCases : n # q.case =>
            \/ files.human_decisions[n].status = "PENDING"
            \/ accepted[n] = 1 /\ files.human_decisions[n].status = StatusAfter(store[n].response)
      BY DEF MirrorInv, Exports
    <3> QED BY <1>1, <2>4, <3>1, <3>2 DEF Exports
  <2>9. Shaped(files)' /\ (\A v \in Workers : Shaped(rows[v])')
    BY <1>1 DEF MirrorInv, Shaped
  <2>10. \A v \in Workers : v # w => pc[v] \notin Mirroring
    BY <1>1, OthersRest DEF InFlight, Ends
  <2>11. \A v \in Workers : Reads(v)' /\ Mirrors(v)'
    BY <2>4, <2>10 DEF Reads, Mirrors, Mirroring
  <2>12. Told(w)'
    BY <2>4 DEF Told
  <2>13. ASSUME NEW v \in Workers, v # w PROVE Told(v)'
    <3>1. SUFFICES ASSUME pc[v] = "done" PROVE Told(v)'
      BY <2>4, <2>13 DEF Told
    <3>2. Told(v) /\ request[v].case \in LiveCases /\ request[v].case # q.case
      BY <2>5, <2>13, <3>1 DEF MirrorInv, Owns
    <3> QED BY <1>1, <2>4, <2>13, <3>1, <3>2 DEF Told, RulingOf, Restoring, Restoration
  <2> QED
    BY <1>1, <2>6, <2>7, <2>8, <2>9, <2>11, <2>12, <2>13 DEF MirrorInv
<1> QED BY <1>2, <1>3

LEMMA CrashMirror == ASSUME MirrorInv, IInv', Crash PROVE MirrorInv'
<1> USE DEF Mirroring, Ends
<1>1. /\ UNCHANGED <<store, accepted, files, request, decided, rows, left>>
      /\ \A v \in Workers : pc'[v] = IF InFlight(v) THEN "lost" ELSE pc[v]
  BY DEF Crash, control, disk, memory
<1>2. \A v \in Workers : pc'[v] \in {"done", "idle", "refused", "lost"}
                         /\ (pc'[v] = "done" => pc[v] = "done")
  BY <1>1 DEF InFlight
<1>3. OneAtATime' /\ Owned'
  BY <1>1, <1>2 DEF MirrorInv, OneAtATime, InFlight, Owned, Owns
<1>4. Shaped(files)' /\ (\A v \in Workers : Shaped(rows[v])') /\ Exports'
  BY <1>1 DEF MirrorInv, Shaped, Exports
<1>5. \A v \in Workers : Reads(v)' /\ Mirrors(v)'
  BY <1>2 DEF Reads, Mirrors
<1>6. \A v \in Workers : Told(v)'
  BY <1>1, <1>2 DEF MirrorInv, Told, RulingOf, Restoring, Restoration
<1> QED BY <1>1, <1>3, <1>4, <1>5, <1>6 DEF MirrorInv

LEMMA StepMirrorInv == Serial /\ MirrorInv /\ [Next]_vars => MirrorInv'
<1> SUFFICES ASSUME Serial, MirrorInv, [Next]_vars PROVE MirrorInv'
  OBVIOUS
<1>0. IInv'
  BY StepIInv DEF MirrorInv
<1>1. ASSUME NEW w \in Workers, Read(w) PROVE MirrorInv'
  <2>1. AtRest /\ UNCHANGED <<store, accepted, files, request, decided, rows, left>>
        /\ \E to \in {"deciding", "refused"} : Goto(w, to)
    BY <1>1 DEF Read, control, disk, memory
  <2> QED BY <1>0, <2>1, MovedMirror DEF Ends, PCs, Mirroring
<1>2. ASSUME NEW w \in Workers, TruncateCatalog(w) PROVE MirrorInv'
  <2>1. pc[w] = "recording" /\ Goto(w, "filling") /\ InFlight(w)
        /\ UNCHANGED <<store, accepted, files, request, decided, rows, left>>
    BY <1>2 DEF TruncateCatalog, control, memory, InFlight, Ends
  <2> QED BY <1>0, <2>1, MovedMirror DEF Mirroring
<1>3. CASE UNCHANGED vars
  BY <1>0, <1>3 DEF vars, control, disk, memory, MirrorInv, OneAtATime, InFlight, Owned, Owns,
    Exports, Shaped, Reads, Mirrors, Told, Written, RulingOf, Restoring, Restoration
<1> QED
  BY <1>0, <1>1, <1>2, <1>3, ReadsMirror, MirrorsMirror, WritesMirror, HashesMirror,
     OpensMirror, FillsMirror, VerifiesMirror, DecidesMirror, CrashMirror
     DEF Next, Step, Ended

\* When requests do not overlap, the invariant holds of every behaviour.
THEOREM MirrorInductive == Serial => (Spec => []MirrorInv)
<1>1. Serial /\ MirrorInv /\ [Next]_vars => MirrorInv'
  BY StepMirrorInv
<1>2. Init => MirrorInv
  BY InitMirrorInv
<1>3. ASSUME Serial PROVE Spec => []MirrorInv
  <2>1. MirrorInv /\ [Next]_vars => MirrorInv'
    BY <1>1, <1>3
  <2> QED BY <1>2, <2>1, PTL DEF Spec
<1> QED BY <1>3

\* Without overlap, what a client was told stays on disk: its ruling as it was
\* taken, and the restoration and closure of an approved case.
THEOREM ToldStaysTrue == Serial => (Spec => []DecisionIsMirrored)
<1>1. MirrorInv => DecisionIsMirrored
  <2> SUFFICES ASSUME MirrorInv, NEW w \in Workers, pc[w] = "done"
               PROVE  LET q == request[w]
                      IN /\ files.human_decisions[q.case] = Ruling(files, q, decided[w])
                         /\ q.response = "approve" /\ Restores(ScenarioOf(files, q.case)) =>
                              store[q.case].state = "CLOSED_SIMULATED" /\ Restoration(files, q.case)
    BY DEF DecisionIsMirrored
  <2>1. Told(w) /\ files.scenario_manifests = Published.scenario_manifests
    BY DEF MirrorInv, Shaped
  <2>2. RulingOf(w) = Ruling(files, request[w], decided[w])
    BY <2>1 DEF RulingOf, Ruling, Manifest
  <2>3. ScenarioOf(Published, request[w].case) = ScenarioOf(files, request[w].case)
    BY <2>1 DEF ScenarioOf, Manifest
  <2> QED BY <2>1, <2>2, <2>3 DEF Told, Restoring
<1>2. ASSUME Serial PROVE Spec => []DecisionIsMirrored
  <2>1. Spec => []MirrorInv
    BY <1>2, MirrorInductive
  <2> QED BY <1>1, <2>1, PTL
<1> QED BY <1>2

-----------------------------------------------------------------------------
(* The refinement of CaseBoard *)

Boards == [c \in LiveCases |-> store[c].state]
Exported == [c \in LiveCases |-> files.human_decisions[c].status]

\* What the board may put on record of a decided case is what the response asks for.
LEMMA RecordsAreRulings ==
  ASSUME IInv, NEW c \in LiveCases, accepted[c] = 1
  PROVE  /\ store[c].state # "WAITING_HUMAN"
         /\ StatusAfter(store[c].response) \in Board!Records(store[c].state)
         /\ store[c].state = "ACTION_SIMULATED" => StatusAfter(store[c].response) = "APPROVED"
<1>1. store[c].state \in States /\ store[c].response \in Responses
  BY DEF IInv, TypeOK
<1>2. store[c].state # "WAITING_HUMAN"
  BY DEF IInv, Controlled, OneDecisionPerCase
<1>3. /\ store[c].state = "ACTION_SIMULATED" => store[c].response = "approve"
      /\ store[c].response = "approve" => store[c].state \in {"ACTION_SIMULATED", "CLOSED_SIMULATED"}
      /\ \/ store[c].state = StateAfter(store[c].response)
         \/ store[c].state = "CLOSED_SIMULATED" /\ store[c].response = "approve"
  BY DEF IInv, Controlled, OneDecisionPerCase, RevisionFollowsState
<1>4. store[c].response # "none"
  BY <1>2 DEF IInv, Controlled, RevisionFollowsState
<1> QED
  BY <1>1, <1>2, <1>3, <1>4, Zenon DEF Board!Records, StatusAfter, StateAfter, Responses

LEMMA InitBoard == Init => Board!Init
BY DEF Init, Board!Init, Waiting, LiveCases

LEMMA DecideBoard ==
  ASSUME MirrorInv, NEW w \in Workers, Decide(w)
  PROVE  Board!Next \/ UNCHANGED <<Boards, Exported>>
<1> DEFINE q == request[w]
<1>1. q.case \in LiveCases /\ q \in Requests /\ UNCHANGED Exported
  BY DEF Decide, disk, MirrorInv, IInv, TypeOK, Controlled, Speaks, Exported
<1>2. CASE ~Swaps(q)
  BY <1>1, <1>2 DEF Decide, control, Boards
<1>3. CASE Swaps(q)
  <2>1. store' = [store EXCEPT ![q.case] =
                    [revision |-> q.revision + 1, state |-> StateAfter(q.response),
                     response |-> q.response]]
    BY <1>3 DEF Decide
  <2>2. Boards' = [Boards EXCEPT ![q.case] = StateAfter(q.response)]
    BY <1>1, <2>1 DEF Boards, MirrorInv, IInv, TypeOK
  <2>3. StateAfter(q.response) \in {"ACTION_SIMULATED", "NEEDS_EVIDENCE", "ESCALATED"}
    BY DEF StateAfter
  <2>4. Boards[q.case] = "WAITING_HUMAN"
    BY <1>1, <1>3 DEF Boards, Swaps
  <2>5. Board!Decide(q.case)
    BY <1>1, <2>2, <2>3, <2>4 DEF Board!Decide, Boards, Exported
  <2> QED BY <1>1, <2>5 DEF Board!Next, Board!Decide
<1> QED BY <1>2, <1>3

LEMMA WriteBoard ==
  ASSUME MirrorInv, NEW w \in Workers, WriteDataset(w)
  PROVE  Board!Next \/ UNCHANGED <<Boards, Exported>>
<1> DEFINE name == NextIn(WriteOrder, left[w])
           c == request[w].case
<1>1. /\ pc[w] = "writing" /\ files' = [files EXCEPT ![name] = rows[w][name]]
      /\ UNCHANGED Boards
  BY DEF WriteDataset, control, Boards
<1>2. /\ c \in LiveCases /\ accepted[c] = 1 /\ store[c].response = request[w].response
      /\ Shaped(files) /\ IInv
      /\ rows[w].human_decisions = [files.human_decisions EXCEPT ![c] = RulingOf(w)]
  BY <1>1 DEF MirrorInv, Owned, Owns, Mirrors, Mirroring
<1> DEFINE s == StatusAfter(store[c].response)
<1>3. CASE files'.human_decisions = files.human_decisions
  BY <1>1, <1>3 DEF Exported
<1>4. CASE files'.human_decisions = [files.human_decisions EXCEPT ![c] = RulingOf(w)]
  <2>1. RulingOf(w).status = s
    BY <1>2, RulingHasStatus
  <2>2. Exported' = [Exported EXCEPT ![c] = s]
    BY <1>2, <1>4, <2>1 DEF Exported, Shaped
  <2>3. CASE Exported[c] = s
    <3>1. Exported' = Exported
      BY <1>2, <2>2, <2>3 DEF Exported
    <3> QED BY <1>1, <3>1
  <2>4. CASE Exported[c] = "PENDING"
    <3>1. Boards[c] # "WAITING_HUMAN" /\ s \in Board!Records(Boards[c])
      BY <1>2, RecordsAreRulings DEF Boards
    <3> HIDE DEF s
    <3>2. Board!Export(c)
      BY <1>1, <1>2, <2>2, <2>4, <3>1 DEF Board!Export, Boards, Exported
    <3> QED BY <1>2, <3>2 DEF Board!Next, Board!Export
  <2>5. Exported[c] \in {"PENDING", s}
    BY <1>2 DEF MirrorInv, Exports, Exported
  <2> QED BY <2>3, <2>4, <2>5
<1>5. files'.human_decisions = files.human_decisions
      \/ files'.human_decisions = rows[w].human_decisions
  BY <1>1, <1>2, FilesAre DEF Shaped
<1> QED BY <1>2, <1>3, <1>4, <1>5

LEMMA CloseBoard ==
  ASSUME MirrorInv, NEW w \in Workers, MarkVerified(w)
  PROVE  Board!Next \/ UNCHANGED <<Boards, Exported>>
<1> DEFINE c == request[w].case
<1>1. pc[w] = "verifying" /\ UNCHANGED Exported
  BY DEF MarkVerified, disk, Exported
<1>2. CASE store[c].state # "ACTION_SIMULATED"
  BY <1>1, <1>2 DEF MarkVerified, Boards
<1>3. CASE store[c].state = "ACTION_SIMULATED"
  <2>1. /\ c \in LiveCases /\ accepted[c] = 1 /\ IInv
        /\ store[c].response = request[w].response
        /\ files.human_decisions[c] = RulingOf(w)
    BY <1>1 DEF MirrorInv, Owned, Owns, Mirrors, Mirroring, Written
  <2>2. Exported[c] = "APPROVED"
    BY <1>3, <2>1, RecordsAreRulings, RulingHasStatus DEF Exported
  <2>3. store' = [store EXCEPT ![c] =
                    [revision |-> store[c].revision + 1, state |-> "CLOSED_SIMULATED",
                     response |-> store[c].response]]
    BY <1>3 DEF MarkVerified
  <2>4. Boards' = [Boards EXCEPT ![c] = "CLOSED_SIMULATED"] /\ Boards[c] = "ACTION_SIMULATED"
    BY <1>3, <2>1, <2>3 DEF Boards, IInv, TypeOK
  <2>5. Board!Close(c)
    BY <1>1, <2>2, <2>4 DEF Board!Close, Boards, Exported
  <2> QED BY <2>1, <2>5 DEF Board!Next, Board!Close
<1> QED BY <1>2, <1>3

LEMMA StepBoard == MirrorInv /\ [Next]_vars => [Board!Next]_<<Boards, Exported>>
<1> SUFFICES ASSUME MirrorInv, [Next]_vars
             PROVE  Board!Next \/ UNCHANGED <<Boards, Exported>>
  OBVIOUS
<1>1. CASE UNCHANGED <<store, files>>
  BY <1>1 DEF Boards, Exported
<1> QED
  BY <1>1, DecideBoard, WriteBoard, CloseBoard
     DEF Next, Step, Ended, Crash, Read, OpenCatalog, ReadDataset, Mirror, HashDataset,
         TruncateCatalog, FillCatalog, vars, control, disk

\* Requests that do not overlap implement the board an operator is promised: a
\* case is decided at most once, the exported record takes over that decision
\* and never another, and the case closes only after that.
THEOREM BoardIsImplemented == Serial => (Spec => ImplementsBoard)
<1>1. ASSUME Serial PROVE Spec => ImplementsBoard
  <2>1. Spec => []MirrorInv
    BY <1>1, MirrorInductive
  <2>2. MirrorInv /\ [Next]_vars => [Board!Next]_<<Boards, Exported>>
    BY StepBoard
  <2> QED
    BY <2>1, <2>2, InitBoard, PTL DEF Spec, ImplementsBoard, Board!Spec, Boards, Exported
<1> QED BY <1>1

-----------------------------------------------------------------------------
(* A sound run stays sound                                                 *)
(*                                                                         *)
(* The gate sees rows in memory.  That the files pass it too, once all of  *)
(* them are written, and that they still add up, takes an invariant about  *)
(* every file (RestInv): while a request reads, the rows it has read are   *)
(* the files and its catalog describes them; from then on the rows are a   *)
(* sound run (Sound), every file it has written or need not write is as in *)
(* the rows, and every one it need not hash is in the catalog as it is on  *)
(* disk.  A decision that passes the gate leads from a sound run to a      *)
(* sound run, and changes no file that is not written (MirroredKeeps: the  *)
(* reviews of the care queue are only written when its tickets change).    *)

\* A row replaced by one of its kind leaves a sequence of that kind, as long as before.
LEMMA RowReplaced ==
  ASSUME NEW S, NEW f \in Seq(S), NEW c, NEW v, c \in DOMAIN f => v \in S
  PROVE  [f EXCEPT ![c] = v] \in Seq(S) /\ Len([f EXCEPT ![c] = v]) = Len(f)
<1> DEFINE n == Len(f)
           g == [f EXCEPT ![c] = v]
<1>1. n \in Nat /\ DOMAIN f = 1..n /\ \A i \in 1..n : f[i] \in S
  OBVIOUS
<1>2. g = [i \in 1..n |-> IF i = c THEN v ELSE f[i]]
  BY <1>1
<1>3. \A i \in 1..n : (IF i = c THEN v ELSE f[i]) \in S
  BY <1>1
<1> HIDE DEF n, g
<1>4. g \in [1..n -> S]
  BY <1>2, <1>3
<1>5. g \in Seq(S) /\ Len(g) = n
  BY <1>1, <1>4
<1> QED BY <1>5 DEF n, g

\* So do rows that are added to those of a case ...
LEMMA RowsJoined ==
  ASSUME NEW S, NEW f \in Seq(Seq(S)), NEW c, NEW v \in Seq(S)
  PROVE  [f EXCEPT ![c] = @ \o v] \in Seq(Seq(S)) /\ Len([f EXCEPT ![c] = @ \o v]) = Len(f)
<1>1. c \in DOMAIN f => f[c] \o v \in Seq(S)
  <2>1. ASSUME c \in DOMAIN f PROVE f[c] \in Seq(S)
    BY <2>1
  <2> QED BY <2>1
<1> QED BY <1>1, RowReplaced

LEMMA WorkJoined ==
  \A S \in {Works, Proofs, MRs} : \A f \in Seq(Seq(S)), v \in Seq(S) : \A c :
    LET g == [f EXCEPT ![c] = @ \o v] IN g \in Seq(Seq(S)) /\ Len(g) = Len(f)
BY RowsJoined

\* ... and a time that is appended to them.
LEMMA RowAppended ==
  ASSUME NEW f \in Seq(Seq(Int)), NEW c, NEW t \in Int
  PROVE  [f EXCEPT ![c] = Append(@, t)] \in Seq(Seq(Int))
         /\ Len([f EXCEPT ![c] = Append(@, t)]) = Len(f)
<1>1. c \in DOMAIN f => Append(f[c], t) \in Seq(Int)
  <2>1. ASSUME c \in DOMAIN f PROVE f[c] \in Seq(Int)
    BY <2>1
  <2> QED BY <2>1
<1> QED BY <1>1, RowReplaced

\* The state of an incident changes, when it was opened does not.
SameOpening(f, g) == DOMAIN g = DOMAIN f /\ \A r \in DOMAIN f : g[r].opened = f[r].opened

\* An incident is reopened, or restored, and stays the incident that was opened then.
LEMMA IncidentReopens ==
  ASSUME NEW R, NEW f \in [R -> Incidents], NEW r
  PROVE  LET g == [f EXCEPT ![r] = Reopened(@)]
         IN g \in [R -> Incidents] /\ SameOpening(f, g)
<1>1. ASSUME NEW i \in Incidents PROVE Reopened(i) \in Incidents /\ Reopened(i).opened = i.opened
  <2>1. i.reopens + 1 \in Nat
    BY DEF Incidents
  <2> QED BY <2>1, NoTimeIsInt DEF Reopened, Incidents
<1> QED BY <1>1 DEF SameOpening

LEMMA IncidentRestores ==
  ASSUME NEW R, NEW f \in [R -> Incidents], NEW r, NEW post \in Int
  PROVE  LET g == [f EXCEPT ![r] = Restored(@, post)]
         IN g \in [R -> Incidents] /\ SameOpening(f, g)
<1>0. post + Minutes(10) \in Int /\ post + Minutes(15) \in Int
  BY DEF Minutes
<1>1. ASSUME NEW i \in Incidents
      PROVE Restored(i, post) \in Incidents /\ Restored(i, post).opened = i.opened
  BY <1>0 DEF Restored, Incidents
<1> QED BY <1>1 DEF SameOpening

\* What neither an effect nor the care queue touches.
Decisions == {"scenario_manifests", "agent_decisions", "reconciliation_records",
              "human_decisions", "action_events"}
Care == {"care_tickets", "care_ticket_reviews"}

\* An effect adds its rows to those of its case, and changes the state of one incident.
HasEffect(x, c, at, y) ==
  LET b == BestAction(ScenarioOf(x, c))
  IN \E e : /\ Shape(y)
            /\ \A name \in Decisions \union Care : y[name] = x[name]
            /\ y.work_orders = [x.work_orders EXCEPT ![c] = @ \o e.work]
            /\ SameOpening(x.incidents, y.incidents)
            /\ b \in {"remote_repair", "dispatch_clean", "create_mr", "collect_evidence", "cpe_swap"}
            /\ Followed(b, at, e)

\* Materialize has such an effect, for every best action.
LEMMA MaterializedIs ==
  ASSUME NEW x, Shape(x), NEW c \in Cases(x), NEW at \in Int, NEW diagnosis \in Int,
         diagnosis = at - Minutes(2)
  PROVE  HasEffect(x, c, at, Materialize(x, c, at, diagnosis))
<1> DEFINE b == BestAction(ScenarioOf(x, c))
           e == Downstream(b, at, diagnosis)
           y == Materialize(x, c, at, diagnosis)
           root == Manifest(x, c).root
           done == [x EXCEPT !.work_orders[c] = @ \o e.work,
                             !.field_evidence[c] = @ \o e.evidence,
                             !.mrs[c] = @ \o e.mr]
           full == [done EXCEPT
                      !.telemetry_tr181[c] = Append(@, e.post),
                      !.validation_events[c] = Append(@, e.post + Minutes(10)),
                      !.resolution_events[c] = Append(@, e.post + Minutes(10)),
                      !.incidents[root] = Restored(@, e.post)]
<1>1. y = done \/ y = full
  BY DEF Materialize
<1>2. /\ b \in {"remote_repair", "dispatch_clean", "create_mr", "collect_evidence", "cpe_swap"}
      /\ Followed(b, at, e)
  BY CaseTyped, DownstreamFollows
<1> HIDE DEF y, root
<1>3. /\ e.work \in Seq(Works) /\ e.evidence \in Seq(Proofs) /\ e.mr \in Seq(MRs)
      /\ e.post \in Int /\ e.post + Minutes(10) \in Int
  BY <1>2 DEF Followed, Minutes
<1> HIDE DEF b, e
<1>4. /\ DOMAIN done = Datasets
      /\ \A name \in Datasets \ {"work_orders", "field_evidence", "mrs"} : done[name] = x[name]
      /\ done.work_orders = [x.work_orders EXCEPT ![c] = @ \o e.work]
      /\ done.field_evidence = [x.field_evidence EXCEPT ![c] = @ \o e.evidence]
      /\ done.mrs = [x.mrs EXCEPT ![c] = @ \o e.mr]
  <2>1. DOMAIN x = Datasets
    BY DEF Shape
  <2> QED BY <2>1 DEF Datasets
<1> HIDE DEF done
<1>5. /\ DOMAIN full = Datasets
      /\ \A name \in Datasets \ {"telemetry_tr181", "validation_events", "resolution_events",
                                  "incidents"} : full[name] = done[name]
      /\ full.telemetry_tr181 = [done.telemetry_tr181 EXCEPT ![c] = Append(@, e.post)]
      /\ full.validation_events =
           [done.validation_events EXCEPT ![c] = Append(@, e.post + Minutes(10))]
      /\ full.resolution_events =
           [done.resolution_events EXCEPT ![c] = Append(@, e.post + Minutes(10))]
      /\ full.incidents = [done.incidents EXCEPT ![root] = Restored(@, e.post)]
  <2>1. DOMAIN done = Datasets
    BY <1>4
  <2> QED BY <2>1 DEF Datasets
<1> HIDE DEF full
<1>6. /\ \A name \in Decisions \union Care : done[name] = x[name] /\ full[name] = x[name]
      /\ full.work_orders = done.work_orders
  BY <1>4, <1>5 DEF Datasets, Decisions, Care
<1>7. Shape(done) /\ SameOpening(x.incidents, done.incidents)
  <2>1. /\ done.work_orders \in Seq(Seq(Works)) /\ Len(done.work_orders) = Len(x.work_orders)
        /\ done.field_evidence \in Seq(Seq(Proofs)) /\ Len(done.field_evidence) = Len(x.field_evidence)
        /\ done.mrs \in Seq(Seq(MRs)) /\ Len(done.mrs) = Len(x.mrs)
    <3>0. /\ done.work_orders = [x.work_orders EXCEPT ![c] = @ \o e.work]
          /\ done.field_evidence = [x.field_evidence EXCEPT ![c] = @ \o e.evidence]
          /\ done.mrs = [x.mrs EXCEPT ![c] = @ \o e.mr]
      BY <1>4
    <3>1. /\ x.work_orders \in Seq(Seq(Works)) /\ x.field_evidence \in Seq(Seq(Proofs))
          /\ x.mrs \in Seq(Seq(MRs))
      BY DEF Shape
    <3>2. done.work_orders \in Seq(Seq(Works)) /\ Len(done.work_orders) = Len(x.work_orders)
      BY <1>3, <3>0, <3>1, WorkJoined
    <3>3. done.field_evidence \in Seq(Seq(Proofs)) /\ Len(done.field_evidence) = Len(x.field_evidence)
      BY <1>3, <3>0, <3>1, WorkJoined
    <3>4. done.mrs \in Seq(Seq(MRs)) /\ Len(done.mrs) = Len(x.mrs)
      BY <1>3, <3>0, <3>1, WorkJoined
    <3> QED BY <3>2, <3>3, <3>4
  <2>2. /\ done.scenario_manifests = x.scenario_manifests /\ done.agent_decisions = x.agent_decisions
        /\ done.reconciliation_records = x.reconciliation_records
        /\ done.human_decisions = x.human_decisions /\ done.action_events = x.action_events
        /\ done.telemetry_tr181 = x.telemetry_tr181 /\ done.validation_events = x.validation_events
        /\ done.resolution_events = x.resolution_events /\ done.incidents = x.incidents
    BY <1>4 DEF Datasets
  <2>3. Size(done) = Size(x) /\ Cases(done) = Cases(x) /\ Roots(done) = Roots(x)
        /\ SameOpening(x.incidents, done.incidents)
    BY <2>2 DEF Size, Cases, Roots, SameOpening
  <2>4. Shape(done)
    BY <1>4, <2>1, <2>2, <2>3 DEF Shape
  <2> QED BY <2>3, <2>4
<1>8. Shape(full) /\ SameOpening(x.incidents, full.incidents)
  <2>1. /\ full.telemetry_tr181 \in Seq(Seq(Int))
        /\ Len(full.telemetry_tr181) = Len(done.telemetry_tr181)
        /\ full.validation_events \in Seq(Seq(Int))
        /\ Len(full.validation_events) = Len(done.validation_events)
        /\ full.resolution_events \in Seq(Seq(Int))
        /\ Len(full.resolution_events) = Len(done.resolution_events)
    <3>0. /\ full.telemetry_tr181 = [done.telemetry_tr181 EXCEPT ![c] = Append(@, e.post)]
          /\ full.validation_events =
               [done.validation_events EXCEPT ![c] = Append(@, e.post + Minutes(10))]
          /\ full.resolution_events =
               [done.resolution_events EXCEPT ![c] = Append(@, e.post + Minutes(10))]
      BY <1>5
    <3>1. /\ done.telemetry_tr181 \in Seq(Seq(Int)) /\ done.validation_events \in Seq(Seq(Int))
          /\ done.resolution_events \in Seq(Seq(Int))
      BY <1>7 DEF Shape
    <3>2. /\ full.telemetry_tr181 \in Seq(Seq(Int))
          /\ Len(full.telemetry_tr181) = Len(done.telemetry_tr181)
      BY <1>3, <3>0, <3>1, RowAppended
    <3>3. /\ full.validation_events \in Seq(Seq(Int))
          /\ Len(full.validation_events) = Len(done.validation_events)
      BY <1>3, <3>0, <3>1, RowAppended
    <3>4. /\ full.resolution_events \in Seq(Seq(Int))
          /\ Len(full.resolution_events) = Len(done.resolution_events)
      BY <1>3, <3>0, <3>1, RowAppended
    <3> QED BY <3>2, <3>3, <3>4
  <2>2. /\ full.scenario_manifests = done.scenario_manifests
        /\ full.agent_decisions = done.agent_decisions
        /\ full.reconciliation_records = done.reconciliation_records
        /\ full.human_decisions = done.human_decisions /\ full.action_events = done.action_events
        /\ full.work_orders = done.work_orders /\ full.field_evidence = done.field_evidence
        /\ full.mrs = done.mrs
    BY <1>5 DEF Datasets
  <2>3. /\ full.incidents \in [Roots(done) -> Incidents]
        /\ SameOpening(done.incidents, full.incidents)
    <3>1. full.incidents = [done.incidents EXCEPT ![root] = Restored(@, e.post)]
      BY <1>5
    <3>2. done.incidents \in [Roots(done) -> Incidents]
      BY <1>7 DEF Shape
    <3>3. \A R : \A f \in [R -> Incidents], post \in Int :
            LET g == [f EXCEPT ![root] = Restored(@, post)]
            IN g \in [R -> Incidents] /\ SameOpening(f, g)
      BY IncidentRestores
    <3> QED BY <1>3, <3>1, <3>2, <3>3
  <2>4. /\ Size(full) = Size(done) /\ Cases(full) = Cases(done) /\ Roots(full) = Roots(done)
        /\ done.incidents = x.incidents
    BY <1>4, <2>2, <2>3 DEF SameOpening, Roots, Size, Cases, Datasets
  <2>5. Shape(full)
    BY <1>5, <1>7, <2>1, <2>2, <2>3, <2>4 DEF Shape
  <2> QED BY <2>3, <2>4, <2>5
<1>9. /\ Shape(y) /\ \A name \in Decisions \union Care : y[name] = x[name]
      /\ y.work_orders = [x.work_orders EXCEPT ![c] = @ \o e.work]
      /\ SameOpening(x.incidents, y.incidents)
  BY <1>1, <1>4, <1>6, <1>7, <1>8
<1> QED BY <1>2, <1>9, Zenon DEF HasEffect, y, b

\* A ruling ends the wait for it.
LEMMA RulingTyped ==
  ASSUME NEW x, NEW q, q.response \in {"approve", "reject", "request_evidence", "escalate"},
         NEW t \in Int
  PROVE  Ruling(x, q, t) \in Humans /\ Ruling(x, q, t).status # "PENDING"
<1>1. StatusAfter(q.response) \in {"APPROVED", "EVIDENCE_REQUESTED", "REJECTED", "ESCALATED"}
  BY DEF StatusAfter
<1>2. (Manifest(x, q.case).seq > 0) \in BOOLEAN
  OBVIOUS
<1> QED BY <1>1, <1>2, Zenon DEF Ruling, Humans

\* A decision, before what follows from it: the ruling, the state of the action
\* and, for an approval, the incident reopened.
DecidedIs(x, c, ruling, action, y) ==
  /\ Shape(y)
  /\ \A name \in (Decisions \ {"human_decisions", "action_events"}) \union Care
                  \union {"work_orders"} : y[name] = x[name]
  /\ y.human_decisions = [x.human_decisions EXCEPT ![c] = ruling]
  /\ y.action_events = [x.action_events EXCEPT ![c] = action]
  /\ SameOpening(x.incidents, y.incidents)

\* Rows that change so keep their shape.
LEMMA DecisionShaped ==
  ASSUME NEW x, Shape(x), NEW c, NEW ruling \in Humans, NEW action \in Actions, NEW incidents,
         incidents \in [Roots(x) -> Incidents], SameOpening(x.incidents, incidents),
         NEW y, DOMAIN y = Datasets,
         \A name \in Datasets \ {"human_decisions", "action_events", "incidents"} :
           y[name] = x[name],
         y.human_decisions = [x.human_decisions EXCEPT ![c] = ruling],
         y.action_events = [x.action_events EXCEPT ![c] = action],
         y.incidents = incidents
  PROVE  DecidedIs(x, c, ruling, action, y)
<1>1. /\ y.human_decisions \in Seq(Humans) /\ Len(y.human_decisions) = Len(x.human_decisions)
      /\ y.action_events \in Seq(Actions) /\ Len(y.action_events) = Len(x.action_events)
  <2>1. x.human_decisions \in Seq(Humans) /\ x.action_events \in Seq(Actions)
    BY DEF Shape
  <2> QED BY <2>1, RowReplaced
<1>2. /\ y.scenario_manifests = x.scenario_manifests /\ y.agent_decisions = x.agent_decisions
      /\ y.reconciliation_records = x.reconciliation_records
      /\ y.work_orders = x.work_orders /\ y.field_evidence = x.field_evidence /\ y.mrs = x.mrs
      /\ y.telemetry_tr181 = x.telemetry_tr181 /\ y.validation_events = x.validation_events
      /\ y.resolution_events = x.resolution_events
  BY DEF Datasets
<1>3. Size(y) = Size(x) /\ Cases(y) = Cases(x) /\ Roots(y) = Roots(x)
  BY <1>2 DEF Size, Cases, Roots, SameOpening
<1>4. Shape(y)
  BY <1>1, <1>2, <1>3 DEF Shape
<1> QED BY <1>4, Zenon DEF DecidedIs, Datasets, Decisions, Care

\* An approval executes the action of its case ...
LEMMA ExecutesIs ==
  ASSUME NEW x, Shape(x), NEW q, NEW t \in Int, q.response = "approve"
  PROVE  DecidedIs(x, q.case, Ruling(x, q, t),
                   [status |-> "SIMULATED_EXECUTED", at |-> t + Minutes(1)], Executes(x, q, t))
<1> DEFINE y == Executes(x, q, t)
           c == q.case
           root == Manifest(x, q.case).root
           ruling == Ruling(x, q, t)
           action == [status |-> "SIMULATED_EXECUTED", at |-> t + Minutes(1)]
           incidents == [x.incidents EXCEPT ![root] = Reopened(@)]
<1>1. ruling \in Humans /\ action \in Actions
  BY RulingTyped DEF Actions, Minutes
<1>2. incidents \in [Roots(x) -> Incidents] /\ SameOpening(x.incidents, incidents)
  BY IncidentReopens DEF Shape
<1>3. y = [x EXCEPT !.human_decisions = [@ EXCEPT ![c] = ruling],
                    !.action_events = [@ EXCEPT ![c] = action],
                    !.incidents = incidents]
  BY Zenon DEF Executes
<1> HIDE DEF y, c, ruling, action, incidents
<1>4. /\ DOMAIN y = Datasets
      /\ \A name \in Datasets \ {"human_decisions", "action_events", "incidents"} :
           y[name] = x[name]
      /\ y.human_decisions = [x.human_decisions EXCEPT ![c] = ruling]
      /\ y.action_events = [x.action_events EXCEPT ![c] = action]
      /\ y.incidents = incidents
  <2>1. DOMAIN x = Datasets
    BY DEF Shape
  <2> QED BY <1>3, <2>1 DEF Datasets
<1>5. DecidedIs(x, c, ruling, action, y)
  BY <1>1, <1>2, <1>4, DecisionShaped
<1> QED BY <1>5 DEF y, c, ruling, action

\* ... and any other answer leaves it blocked.
LEMMA BlockedIs ==
  ASSUME NEW x, Shape(x), NEW q, NEW t \in Int, q.case \in Cases(x),
         q.response \in {"reject", "request_evidence", "escalate"}
  PROVE  \E action \in Actions :
           /\ action.status # "SIMULATED_EXECUTED"
           /\ DecidedIs(x, q.case, Ruling(x, q, t), action, Blocked(x, q, t))
<1> DEFINE y == Blocked(x, q, t)
           c == q.case
           ruling == Ruling(x, q, t)
           status == IF q.response = "request_evidence" THEN "BLOCKED_NEEDS_EVIDENCE"
                     ELSE "BLOCKED_ESCALATED"
           action == [x.action_events[c] EXCEPT !.status = status]
<1>1. ruling \in Humans
  BY RulingTyped
<1>2. action \in Actions /\ action.status # "SIMULATED_EXECUTED"
  <2>1. x.action_events[c] \in Actions
    BY CaseTyped
  <2> QED BY <2>1 DEF Actions
<1>3. y = [x EXCEPT !.human_decisions = [@ EXCEPT ![c] = ruling],
                    !.action_events = [@ EXCEPT ![c] = action]]
  BY Zenon DEF Blocked
<1> HIDE DEF y, c, ruling, action
<1>4. /\ DOMAIN y = Datasets
      /\ \A name \in Datasets \ {"human_decisions", "action_events", "incidents"} :
           y[name] = x[name]
      /\ y.human_decisions = [x.human_decisions EXCEPT ![c] = ruling]
      /\ y.action_events = [x.action_events EXCEPT ![c] = action]
      /\ y.incidents = x.incidents
  <2>1. DOMAIN x = Datasets
    BY DEF Shape
  <2> QED BY <1>3, <2>1 DEF Datasets
<1>5. x.incidents \in [Roots(x) -> Incidents] /\ SameOpening(x.incidents, x.incidents)
  BY DEF Shape, SameOpening
<1>6. DecidedIs(x, c, ruling, action, y)
  BY <1>1, <1>2, <1>4, <1>5, DecisionShaped
<1> QED BY <1>2, <1>6 DEF y, c, ruling

\* The care queue is refreshed from incidents that passed the gate: an open one has no
\* closing time, so that the rows are again copies of their incidents, and a row that
\* stays as it was keeps a review that is still right.
LEMMA RefreshIs ==
  ASSUME NEW x, Shape(x), GraphIsRooted(x), CareBuilt(x), NEW z, Shape(z),
         \A name \in {"scenario_manifests"} \union Care : z[name] = x[name],
         SameOpening(x.incidents, z.incidents), IncidentsMatchAttempts(RefreshCare(z))
  PROVE  LET y == RefreshCare(z)
         IN /\ Shape(y) /\ CareBuilt(y)
            /\ \A name \in Datasets \ Care : y[name] = z[name]
<1> DEFINE y == RefreshCare(z)
           Root(c) == Manifest(z, c).root
           i(c) == z.incidents[Root(c)]
           Now(c) == [z.care_tickets[c] EXCEPT
                        !.status = CareStatus(i(c)),
                        !.closed = IF i(c).status = "CLOSED" THEN i(c).closed ELSE NoTime]
           reviews == [c \in Cases(z) |-> IF z.care_tickets[c] # Now(c) THEN i(c).status
                                          ELSE z.care_ticket_reviews[c]]
<1>1. /\ DOMAIN y = Datasets /\ \A name \in Datasets \ Care : y[name] = z[name]
      /\ y.care_tickets = [c \in Cases(z) |-> Now(c)]
      /\ y.care_ticket_reviews = reviews
  <2>1. DOMAIN z = Datasets
    BY DEF Shape
  <2>2. y = [z EXCEPT !.care_tickets = [c \in Cases(z) |-> Now(c)],
                      !.care_ticket_reviews =
                         [c \in Cases(z) |-> IF c \in {e \in Cases(z) : z.care_tickets[e] # Now(e)}
                                             THEN i(c).status ELSE @[c]]]
    BY Zenon DEF RefreshCare
  <2> HIDE DEF y, Now, i
  <2>3. y.care_ticket_reviews =
          [c \in Cases(z) |-> IF c \in {e \in Cases(z) : z.care_tickets[e] # Now(e)}
                              THEN i(c).status ELSE z.care_ticket_reviews[c]]
    BY <2>1, <2>2 DEF Datasets
  <2>4. y.care_ticket_reviews = reviews
    BY <2>3
  <2>5. /\ DOMAIN y = Datasets /\ y.care_tickets = [c \in Cases(z) |-> Now(c)]
        /\ \A name \in Datasets \ Care : y[name] = z[name]
    BY <2>1, <2>2 DEF Datasets, Care
  <2> QED BY <2>4, <2>5
<1> HIDE DEF y
<1>2. /\ y.scenario_manifests = z.scenario_manifests /\ y.agent_decisions = z.agent_decisions
      /\ y.reconciliation_records = z.reconciliation_records
      /\ y.human_decisions = z.human_decisions /\ y.action_events = z.action_events
      /\ y.work_orders = z.work_orders /\ y.field_evidence = z.field_evidence /\ y.mrs = z.mrs
      /\ y.telemetry_tr181 = z.telemetry_tr181 /\ y.validation_events = z.validation_events
      /\ y.resolution_events = z.resolution_events /\ y.incidents = z.incidents
  BY <1>1 DEF Datasets, Care
<1>3. /\ Size(y) = Size(z) /\ Cases(y) = Cases(z) /\ Roots(y) = Roots(z)
      /\ Cases(x) = Cases(z) /\ Roots(x) = Roots(z)
      /\ \A c : Manifest(x, c) = Manifest(z, c) /\ Manifest(y, c) = Manifest(z, c)
  BY <1>2 DEF Size, Cases, Roots, SameOpening, Manifest
<1>4. Shape(y)
  BY <1>1, <1>2, <1>3 DEF Shape
<1>5. \A c \in Cases(z) : Root(c) \in Roots(z)
  BY <1>3 DEF GraphIsRooted
<1>6. ASSUME NEW r \in Roots(z)
      PROVE  /\ z.incidents[r].status \in {"OPEN", "CLOSED"}
             /\ x.incidents[r].status \in {"OPEN", "CLOSED"}
             /\ z.incidents[r].opened = x.incidents[r].opened
             /\ z.incidents[r].status = "OPEN" => z.incidents[r].closed = NoTime
  <2>1. z.incidents[r] \in Incidents /\ x.incidents[r] \in Incidents
    BY <1>3 DEF Shape
  <2>2. z.incidents[r].opened = x.incidents[r].opened
    BY <1>3 DEF SameOpening, Roots
  <2>3. y.incidents[r].status = "OPEN" => y.incidents[r].closed = NoTime
    BY <1>3, Zenon DEF IncidentsMatchAttempts, y
  <2> QED BY <1>2, <2>1, <2>2, <2>3 DEF Incidents
<1>7. PICK S \in SUBSET Roots(x) :
        /\ x.care_tickets = [c \in Cases(x) |->
             [status |-> CareStatus(x.incidents[Manifest(x, c).root]),
              closed |-> x.incidents[Manifest(x, c).root].closed,
              match |-> Manifest(x, c).root \in S]]
        /\ x.care_ticket_reviews =
             [c \in Cases(x) |-> x.incidents[Manifest(x, c).root].status]
        /\ \A r \in S : x.incidents[r].opened = -Minutes(60)
  BY Zenon DEF CareBuilt
<1>8. z.care_tickets = x.care_tickets /\ z.care_ticket_reviews = x.care_ticket_reviews
  BY DEF Care
<1> DEFINE Ticket(c) == [status |-> CareStatus(i(c)), closed |-> i(c).closed,
                         match |-> Root(c) \in S]
<1>9. ASSUME NEW c \in Cases(z) PROVE Now(c) = Ticket(c) /\ reviews[c] = i(c).status
  <2> DEFINE old == x.incidents[Root(c)]
             was == [status |-> CareStatus(old), closed |-> old.closed, match |-> Root(c) \in S]
  <2>1. z.care_tickets[c] = was /\ z.care_ticket_reviews[c] = old.status
    BY <1>3, <1>7, <1>8
  <2>2. /\ i(c).status \in {"OPEN", "CLOSED"} /\ old.status \in {"OPEN", "CLOSED"}
        /\ i(c).status = "OPEN" => i(c).closed = NoTime
    BY <1>5, <1>6
  <2>3. Now(c) = [was EXCEPT !.status = CareStatus(i(c)),
                             !.closed = IF i(c).status = "CLOSED" THEN i(c).closed ELSE NoTime]
    BY <2>1
  <2>4. reviews[c] = IF z.care_tickets[c] # Now(c) THEN i(c).status ELSE z.care_ticket_reviews[c]
    OBVIOUS
  <2>5. CareStatus(i(c)) = i(c).status /\ CareStatus(old) = old.status
    BY <2>2 DEF CareStatus
  <2> HIDE DEF i, old, Root, Now, reviews
  <2>6. Now(c) = Ticket(c)
    BY <2>2, <2>3
  <2>7. z.care_tickets[c] = Now(c) => old.status = i(c).status
    <3>1. was.status = old.status /\ Ticket(c).status = i(c).status
      BY <2>5
    <3> QED BY <2>1, <2>6, <3>1
  <2> QED BY <2>1, <2>4, <2>6, <2>7
<1>10. CareBuilt(y)
  <2>1. S \in SUBSET Roots(y)
    BY <1>3
  <2>2. y.care_tickets = [c \in Cases(y) |->
             [status |-> CareStatus(y.incidents[Manifest(y, c).root]),
              closed |-> y.incidents[Manifest(y, c).root].closed,
              match |-> Manifest(y, c).root \in S]]
    <3>1. y.care_tickets = [c \in Cases(z) |-> Ticket(c)]
      <4> HIDE DEF Now, Ticket
      <4> QED BY <1>1, <1>9
    <3> QED BY <1>2, <1>3, <3>1
  <2>3. y.care_ticket_reviews = [c \in Cases(y) |-> y.incidents[Manifest(y, c).root].status]
    <3>1. y.care_ticket_reviews = [c \in Cases(z) |-> reviews[c]]
      BY <1>1
    <3>2. y.care_ticket_reviews = [c \in Cases(z) |-> i(c).status]
      <4> HIDE DEF i, reviews
      <4> QED BY <1>9, <3>1
    <3> QED BY <1>2, <1>3, <3>2
  <2>4. \A r \in S : y.incidents[r].opened = -Minutes(60)
    <3>1. \A r \in S : r \in Roots(z)
      BY <1>3
    <3> QED BY <1>2, <1>6, <1>7, <3>1
  <2> QED BY <2>1, <2>2, <2>3, <2>4, Zenon DEF CareBuilt
<1> QED BY <1>1, <1>4, <1>10 DEF y

\* A case that was decided as it was executed or blocked is settled, and the others
\* stay so.
LEMMA DecidedIsSettled ==
  ASSUME NEW x, Sound(x), NEW c \in Cases(x), NEW y, NEW ruling, NEW action,
         y.scenario_manifests = x.scenario_manifests,
         y.human_decisions = [x.human_decisions EXCEPT ![c] = ruling],
         y.action_events = [x.action_events EXCEPT ![c] = action],
         ruling.status # "PENDING",
         \A n \in Cases(x) : n # c => y.work_orders[n] = x.work_orders[n],
         action.status = "SIMULATED_EXECUTED" /\ Dispatched(x, c) =>
           OneTrip(y.work_orders[c], BestAction(ScenarioOf(x, c)))
  PROVE  \A n \in Cases(y) : Settled(y, n)
<1>1. /\ Cases(y) = Cases(x) /\ \A n : Manifest(y, n) = Manifest(x, n)
      /\ \A n : ScenarioOf(y, n) = ScenarioOf(x, n) /\ (Dispatched(y, n) <=> Dispatched(x, n))
  BY DEF Cases, Manifest, ScenarioOf, Dispatched
<1>2. /\ \A n \in Cases(x) : n \in DOMAIN x.human_decisions /\ n \in DOMAIN x.action_events
      /\ \A n \in Cases(x) : Manifest(x, n).seq > 0 => Manifest(x, n).root \in Cases(x)
  <2>1. /\ x.human_decisions \in Seq(Humans) /\ Len(x.human_decisions) = Size(x)
        /\ x.action_events \in Seq(Actions) /\ Len(x.action_events) = Size(x)
        /\ Cases(x) = 1..Size(x)
    BY SoundGate, SizeIs DEF Shape
  <2>2. \A n \in Cases(x) : n \in DOMAIN x.human_decisions /\ n \in DOMAIN x.action_events
    BY <2>1
  <2>3. \A n \in Cases(x) : Manifest(x, n).root \in Cases(x)
    BY SoundGate DEF GraphIsRooted
  <2> QED BY <2>2, <2>3
<1>3. /\ y.human_decisions[c] = ruling /\ y.action_events[c] = action
      /\ \A n \in Cases(x) : n # c => /\ y.human_decisions[n] = x.human_decisions[n]
                                     /\ y.action_events[n] = x.action_events[n]
  BY <1>2
<1> TAKE n \in Cases(y)
<1> DEFINE m == Manifest(x, n)
<1>4. Settled(x, n) /\ n \in Cases(x)
  BY <1>1 DEF Sound
<1>5. /\ m.at >= 0
      /\ x.human_decisions[n].status = "PENDING" => m.seq = 0
      /\ m.seq > 0 => x.human_decisions[m.root].status # "PENDING"
      /\ Executed(x, n) /\ Dispatched(x, n) =>
           OneTrip(x.work_orders[n], BestAction(ScenarioOf(x, n)))
  BY <1>4, Zenon DEF Settled
<1> HIDE DEF m
<1>6. y.human_decisions[n].status = "PENDING" => m.seq = 0
  <2>1. CASE n = c
    BY <1>3, <2>1
  <2>2. CASE n # c
    BY <1>3, <1>4, <1>5, <2>2
  <2> QED BY <2>1, <2>2
<1>7. m.seq > 0 => y.human_decisions[m.root].status # "PENDING"
  <2>1. m.seq > 0 => m.root \in Cases(x)
    BY <1>2, <1>4 DEF m
  <2>2. CASE m.root = c
    BY <1>3, <2>2
  <2>3. CASE m.root # c
    BY <1>3, <1>5, <2>1, <2>3
  <2> QED BY <2>2, <2>3
<1>8. Executed(y, n) /\ Dispatched(y, n) =>
        OneTrip(y.work_orders[n], BestAction(ScenarioOf(y, n)))
  <2>1. CASE n = c
    BY <1>1, <1>3, <2>1, Zenon DEF Executed
  <2>2. CASE n # c
    <3>1. y.action_events[n] = x.action_events[n] /\ y.work_orders[n] = x.work_orders[n]
      BY <1>3, <1>4, <2>2
    <3> QED BY <1>1, <1>5, <3>1, Zenon DEF Executed
  <2> QED BY <2>1, <2>2
<1> QED BY <1>1, <1>5, <1>6, <1>7, <1>8, Zenon DEF Settled, m

\* Mirroring a decision on a case that waits keeps a run sound, when the gate lets it
\* pass.
LEMMA MirroredIsSound ==
  ASSUME NEW x, Sound(x), NEW q, q.case \in Cases(x),
         x.human_decisions[q.case].status = "PENDING",
         q.response \in {"approve", "reject", "request_evidence", "escalate"},
         NEW t \in Int, Gate(Mirrored(x, q, t))
  PROVE  Sound(Mirrored(x, q, t))
<1> DEFINE c == q.case
           y == Mirrored(x, q, t)
           ruling == Ruling(x, q, t)
           z == IF q.response = "approve" THEN Approved(x, q, t) ELSE Blocked(x, q, t)
           b == BestAction(ScenarioOf(x, c))
<1>0. c \in Cases(x)
  OBVIOUS
<1>1. y = RefreshCare(z)
  BY Zenon DEF Mirrored
<1>2. Shape(x) /\ GraphIsRooted(x) /\ CareBuilt(x) /\ IncidentsMatchAttempts(y)
  BY SoundGate DEF Gate
<1>3. x.work_orders[c] = << >>
  BY ControlIs DEF Unworked
<1>4. \E action \in Actions :
        /\ Shape(z) /\ \A name \in {"scenario_manifests"} \union Care : z[name] = x[name]
        /\ SameOpening(x.incidents, z.incidents)
        /\ z.human_decisions = [x.human_decisions EXCEPT ![c] = ruling]
        /\ z.action_events = [x.action_events EXCEPT ![c] = action]
        /\ \A n \in Cases(x) : n # c => z.work_orders[n] = x.work_orders[n]
        /\ action.status = "SIMULATED_EXECUTED" /\ b \in DispatchActions =>
             OneTrip(z.work_orders[c], b)
  <2> HIDE DEF y
  <2>1. CASE q.response = "approve"
    <3> DEFINE f == Executes(x, q, t)
               action == [status |-> "SIMULATED_EXECUTED", at |-> t + Minutes(1)]
               at == t + Minutes(1)
               diagnosis == t - Minutes(1)
    <3>1. DecidedIs(x, c, ruling, action, f) /\ action \in Actions
      BY <1>2, <2>1, ExecutesIs DEF Actions, Minutes
    <3>2. z = Materialize(f, c, at, diagnosis)
      BY <2>1, Zenon DEF Approved
    <3> HIDE DEF z, f, ruling, action
    <3>3. /\ Shape(f) /\ f.scenario_manifests = x.scenario_manifests
          /\ \A name \in {"scenario_manifests"} \union Care : f[name] = x[name]
          /\ f.human_decisions = [x.human_decisions EXCEPT ![c] = ruling]
          /\ f.action_events = [x.action_events EXCEPT ![c] = action]
          /\ f.work_orders = x.work_orders /\ SameOpening(x.incidents, f.incidents)
      BY <3>1 DEF DecidedIs, Decisions
    <3> HIDE DEF c
    <3>4. c \in Cases(f) /\ ScenarioOf(f, c) = ScenarioOf(x, c)
      BY <1>0, <3>3 DEF Cases, ScenarioOf, Manifest
    <3>5. at \in Int /\ diagnosis \in Int /\ diagnosis = at - Minutes(2)
      BY DEF Minutes
    <3> HIDE DEF at, diagnosis
    <3> HIDE DEF b
    <3>6. PICK e :
            /\ Shape(z)
            /\ \A name \in Decisions \union Care : z[name] = f[name]
            /\ z.work_orders = [f.work_orders EXCEPT ![c] = @ \o e.work]
            /\ SameOpening(f.incidents, z.incidents)
            /\ b \in {"remote_repair", "dispatch_clean", "create_mr", "collect_evidence", "cpe_swap"}
            /\ Followed(b, at, e)
      <4>1. HasEffect(f, c, at, z)
        BY <3>2, <3>3, <3>4, <3>5, MaterializedIs
      <4>2. b = BestAction(ScenarioOf(f, c))
        BY <3>4 DEF b
      <4> QED BY <4>1, <4>2, Zenon DEF HasEffect
    <3>7. /\ \A name \in {"scenario_manifests"} \union Care : z[name] = x[name]
          /\ z.human_decisions = f.human_decisions /\ z.action_events = f.action_events
      BY <3>3, <3>6 DEF Decisions
    <3>8. SameOpening(x.incidents, z.incidents)
      BY <3>3, <3>6 DEF SameOpening
    <3>9. z.work_orders[c] = e.work /\ \A n \in Cases(x) : n # c => z.work_orders[n] = x.work_orders[n]
      <4>1. x.work_orders \in Seq(Seq(Works)) /\ c \in DOMAIN x.work_orders /\ Cases(x) \subseteq DOMAIN x.work_orders
        <5>1. x.work_orders \in Seq(Seq(Works)) /\ Len(x.work_orders) = Size(x) /\ Cases(x) = 1..Size(x)
          BY <1>2, SizeIs DEF Shape
        <5> QED BY <1>0, <5>1
      <4>2. e.work \in Seq(Works)
        BY <3>6 DEF Followed
      <4>3. << >> \o e.work = e.work
        BY <4>2
      <4> QED BY <1>3, <3>3, <3>6, <4>1, <4>3
    <3>10. b \in DispatchActions => OneTrip(z.work_orders[c], b)
      BY <3>5, <3>6, <3>9, FollowedWork
    <3> QED BY <3>1, <3>3, <3>6, <3>7, <3>8, <3>9, <3>10
  <2>2. CASE q.response # "approve"
    <3>1. z = Blocked(x, q, t)
      BY <2>2
    <3>2. PICK action \in Actions : /\ action.status # "SIMULATED_EXECUTED"
                                    /\ DecidedIs(x, c, ruling, action, z)
      BY <1>2, <2>2, <3>1, BlockedIs
    <3> HIDE DEF z, ruling, b
    <3> QED BY <3>2 DEF DecidedIs, Decisions
  <2> QED BY <2>1, <2>2
<1>5. PICK action \in Actions :
        /\ Shape(z) /\ \A name \in {"scenario_manifests"} \union Care : z[name] = x[name]
        /\ SameOpening(x.incidents, z.incidents)
        /\ z.human_decisions = [x.human_decisions EXCEPT ![c] = ruling]
        /\ z.action_events = [x.action_events EXCEPT ![c] = action]
        /\ \A n \in Cases(x) : n # c => z.work_orders[n] = x.work_orders[n]
        /\ action.status = "SIMULATED_EXECUTED" /\ b \in DispatchActions =>
             OneTrip(z.work_orders[c], b)
  BY <1>4
<1> HIDE DEF z
<1>6. /\ Shape(y) /\ CareBuilt(y)
      /\ \A name \in Datasets \ Care : y[name] = z[name]
  <2> HIDE DEF y, ruling, b
  <2> QED BY <1>1, <1>2, <1>5, RefreshIs
<1>7. ByName(y)
  <2>1. ByName(RefreshCare(z))
    BY UpdateIsByName, Zenon DEF RefreshCare
  <2> QED BY <1>1, <2>1
<1>8. /\ y.scenario_manifests = x.scenario_manifests /\ y.human_decisions = z.human_decisions
      /\ y.action_events = z.action_events /\ y.work_orders = z.work_orders
  <2> HIDE DEF y, ruling, b
  <2> QED BY <1>5, <1>6 DEF Datasets, Care
<1>9. ruling.status # "PENDING"
  BY RulingTyped
<1>10. \A n \in Cases(y) : Settled(y, n)
  <2> HIDE DEF y, ruling
  <2>1. Dispatched(x, c) <=> b \in DispatchActions
    BY DEF Dispatched
  <2> QED BY <1>5, <1>8, <1>9, <2>1, DecidedIsSettled
<1> QED BY <1>6, <1>7, <1>10 DEF Sound

\* Care rows that are the same were reviewed the same.
LEMMA ReviewsFollow ==
  ASSUME NEW x, Sound(x), NEW y, Sound(y), y.scenario_manifests = x.scenario_manifests,
         y.care_tickets = x.care_tickets
  PROVE  y.care_ticket_reviews = x.care_ticket_reviews
<1>1. /\ Cases(y) = Cases(x) /\ \A c : Manifest(y, c) = Manifest(x, c)
  BY DEF Cases, Manifest
<1> DEFINE Status(f) == [c \in Cases(x) |-> f.incidents[Manifest(x, c).root].status]
<1>2. ASSUME NEW f, Sound(f), Cases(f) = Cases(x), \A c : Manifest(f, c) = Manifest(x, c)
      PROVE  /\ f.care_ticket_reviews = Status(f)
             /\ \A c \in Cases(x) :
                  f.care_tickets[c].status = f.incidents[Manifest(x, c).root].status
  <2>1. PICK S : /\ f.care_tickets = [c \in Cases(f) |->
                      [status |-> CareStatus(f.incidents[Manifest(f, c).root]),
                       closed |-> f.incidents[Manifest(f, c).root].closed,
                       match |-> Manifest(f, c).root \in S]]
                 /\ f.care_ticket_reviews =
                      [c \in Cases(f) |-> f.incidents[Manifest(f, c).root].status]
    BY <1>2, Zenon DEF Sound, CareBuilt
  <2>2. ASSUME NEW c \in Cases(x)
        PROVE  f.incidents[Manifest(x, c).root].status \in {"OPEN", "CLOSED"}
    <3>1. Manifest(x, c).root \in Roots(f) /\ f.incidents \in [Roots(f) -> Incidents]
      BY <1>2, SoundGate DEF GraphIsRooted, Shape
    <3> QED BY <3>1 DEF Incidents
  <2>3. ASSUME NEW c \in Cases(x)
        PROVE  f.care_tickets[c].status = f.incidents[Manifest(x, c).root].status
    BY <1>2, <2>1, <2>2 DEF CareStatus
  <2>4. f.care_ticket_reviews = Status(f)
    BY <1>2, <2>1
  <2> QED BY <2>3, <2>4
<1>3. /\ x.care_ticket_reviews = Status(x) /\ y.care_ticket_reviews = Status(y)
      /\ \A c \in Cases(x) : y.incidents[Manifest(x, c).root].status = x.incidents[Manifest(x, c).root].status
  <2> HIDE DEF Status
  <2> QED BY <1>1, <1>2
<1>4. Status(x) = Status(y)
  BY <1>3
<1> QED BY <1>3, <1>4

\* The files that change after publication, one by one.
LEMMA FileNames ==
  Files = {"telemetry_tr181", "incidents", "work_orders", "field_evidence", "mrs",
           "validation_events", "resolution_events", "human_decisions", "action_events",
           "care_tickets", "care_ticket_reviews"}
<1> DEFINE names == {"telemetry_tr181", "incidents", "work_orders", "field_evidence", "mrs",
                     "validation_events", "resolution_events", "human_decisions",
                     "action_events", "care_tickets", "care_ticket_reviews"}
<1>1. DOMAIN ReadOrder = 1..11
  BY DEF ReadOrder
<1>2. /\ ReadOrder[1] = "telemetry_tr181" /\ ReadOrder[2] = "incidents"
      /\ ReadOrder[3] = "work_orders" /\ ReadOrder[4] = "field_evidence"
      /\ ReadOrder[5] = "mrs" /\ ReadOrder[6] = "validation_events"
      /\ ReadOrder[7] = "resolution_events" /\ ReadOrder[8] = "human_decisions"
      /\ ReadOrder[9] = "action_events" /\ ReadOrder[10] = "care_tickets"
      /\ ReadOrder[11] = "care_ticket_reviews"
  BY DEF ReadOrder
<1>3. \A i \in 1..11 : i \in {1, 2, 3, 4, 5, 6, 7, 8, 9, 10, 11}
  OBVIOUS
<1>4. \A i \in 1..11 : ReadOrder[i] \in names
  BY <1>2, <1>3
<1>5. \A n \in names : \E i \in 1..11 : n = ReadOrder[i]
  BY <1>2
<1> HIDE DEF names
<1>6. Files = names
  BY <1>1, <1>4, <1>5 DEF Files, Members
<1> QED BY <1>6 DEF names

\* What is not exported did not change.
LEMMA MirroredKeeps ==
  ASSUME NEW x, Sound(x), NEW q, q.case \in Cases(x),
         x.human_decisions[q.case].status = "PENDING",
         q.response \in {"approve", "reject", "request_evidence", "escalate"},
         NEW t \in Int, NEW y, y = Mirrored(x, q, t), Sound(y)
  PROVE  \A name \in Datasets \ (Files \cap Changed(x, y, q)) : y[name] = x[name]
<1> DEFINE z == IF q.response = "approve" THEN Approved(x, q, t) ELSE Blocked(x, q, t)
           Export == {"telemetry_tr181", "incidents", "work_orders", "field_evidence", "mrs",
                      "validation_events", "resolution_events"}
           Control == {"human_decisions", "action_events"}
<1>1. /\ DOMAIN z = Datasets
      /\ \A name \in Datasets \ (Control \union Export) : z[name] = x[name]
      /\ q.response # "approve" => \A name \in Datasets \ Control : z[name] = x[name]
  <2>1. CASE q.response = "approve"
    <3> DEFINE f == Executes(x, q, t)
               action == [status |-> "SIMULATED_EXECUTED", at |-> t + Minutes(1)]
    <3>1. Shape(x) /\ z = Materialize(f, q.case, t + Minutes(1), t - Minutes(1))
      BY <2>1, SoundGate, Zenon DEF Approved
    <3>2. DecidedIs(x, q.case, Ruling(x, q, t), action, f)
      BY <2>1, <3>1, ExecutesIs
    <3> HIDE DEF f, z, action
    <3>3. /\ Shape(f) /\ f.scenario_manifests = x.scenario_manifests
          /\ \A name \in (Decisions \ Control) \union Care : f[name] = x[name]
      BY <3>2, Zenon DEF DecidedIs, Decisions
    <3>4. q.case \in Cases(f)
      BY <3>3 DEF Cases
    <3>5. /\ t + Minutes(1) \in Int /\ t - Minutes(1) \in Int
          /\ t - Minutes(1) = (t + Minutes(1)) - Minutes(2)
      BY DEF Minutes
    <3>6. HasEffect(f, q.case, t + Minutes(1), z)
      BY <3>1, <3>3, <3>4, <3>5, MaterializedIs
    <3>7. DOMAIN z = Datasets /\ \A name \in Decisions \union Care : z[name] = f[name]
      BY <3>6 DEF HasEffect, Shape
    <3> QED BY <2>1, <3>3, <3>7 DEF Datasets, Decisions, Care
  <2>2. CASE q.response # "approve"
    <3>1. DOMAIN x = Datasets /\ z = Blocked(x, q, t)
      BY <2>2, SoundGate DEF Shape
    <3> HIDE DEF z
    <3> QED BY <2>2, <3>1 DEF Blocked, Datasets
  <2> QED BY <2>1, <2>2
<1>2. y = RefreshCare(z)
  BY Zenon DEF Mirrored
<1> HIDE DEF z
<1>3. \A name \in Datasets \ Care : y[name] = z[name]
  BY <1>1, <1>2 DEF RefreshCare, Care, Datasets
<1>4. y.scenario_manifests = x.scenario_manifests
  BY <1>1, <1>3 DEF Datasets, Care
<1>5. y.care_tickets = x.care_tickets => y.care_ticket_reviews = x.care_ticket_reviews
  BY <1>4, ReviewsFollow
<1>6. /\ Control \subseteq Changed(x, y, q) /\ (q.response = "approve" => Export \subseteq Changed(x, y, q))
      /\ (y.care_tickets # x.care_tickets => Care \subseteq Changed(x, y, q))
  BY DEF Changed, Care
<1>7. Control \union Export \union Care = Files
  BY FileNames DEF Care
<1> SUFFICES ASSUME NEW name \in Datasets, name \notin Files \/ name \notin Changed(x, y, q)
             PROVE  y[name] = x[name]
  OBVIOUS
<1>8. CASE name \in Care
  <2>1. y.care_tickets = x.care_tickets
    BY <1>6, <1>7, <1>8
  <2> QED BY <1>5, <1>8, <2>1 DEF Care
<1>9. CASE name \notin Care
  <2>1. y[name] = z[name] /\ name \notin Control
    BY <1>3, <1>6, <1>7, <1>9
  <2>2. z[name] = x[name]
    BY <1>1, <1>6, <1>7, <2>1
  <2> QED BY <2>1, <2>2
<1> QED BY <1>8, <1>9

\* The steps that leave the files and the catalog between two decisions.
Amending == {"writing", "hashing", "recording", "filling"}

\* Every dataset by its name; those that no decision touches are as published.
Laid(f) ==
  ByName(f) /\ DOMAIN f = Datasets /\ \A name \in Datasets \ Files : f[name] = Published[name]

\* The case of a request that has yet to be mirrored waits on disk.
Waits(w) ==
  pc[w] \in {"opening", "reading"} =>
    files.human_decisions[request[w].case].status = "PENDING"

\* What was read is what is on disk, and what the catalog had recorded.
Collects(w) ==
  pc[w] = "reading" =>
    entries[w] = files /\ \A name \in Files \ left[w] : rows[w][name] = files[name]

\* What is to be written is a sound run; what was written is on disk, and what was
\* hashed will be recorded.
Amends(w) ==
  pc[w] \in Amending =>
    /\ Sound(rows[w])
    /\ \A name \in Files :
         /\ Written(w, name) => files[name] = rows[w][name]
         /\ name \notin left[w] => entries[w][name] = rows[w][name]

RestInv ==
  /\ DOMAIN entries = Workers /\ DOMAIN catalog = {"torn", "recorded"}
  /\ Laid(files) /\ Laid(catalog.recorded)
  /\ \A w \in Workers : Laid(rows[w]) /\ Laid(entries[w]) /\ Waits(w)
  /\ \/ \E w \in Workers : pc[w] = "lost"
     \/ /\ (\A w \in Workers : pc[w] \notin Amending) =>
             Sound(files) /\ ~catalog.torn /\ catalog.recorded = files
        /\ \A w \in Workers : Collects(w) /\ Amends(w)

\* Such mappings that agree on the files are the same.
LEMMA LaidIs ==
  ASSUME NEW f, Laid(f), NEW g, Laid(g), \A name \in Files : f[name] = g[name]
  PROVE  f = g
<1>1. f = [name \in Datasets |-> f[name]] /\ g = [name \in Datasets |-> g[name]]
  BY DEF Laid, ByName
<1>2. \A name \in Datasets : f[name] = g[name]
  BY DEF Laid
<1>3. [name \in Datasets |-> f[name]] = [name \in Datasets |-> g[name]]
  BY <1>2
<1> QED BY <1>1, <1>3, Zenon

\* One file is replaced by that of another such mapping.
LEMMA LaidUpdated ==
  ASSUME NEW f, Laid(f), NEW g, Laid(g), NEW name
  PROVE  Laid([f EXCEPT ![name] = g[name]])
<1> DEFINE h == [f EXCEPT ![name] = g[name]]
<1>1. ByName(h)
  BY UpdateIsByName, Zenon
<1>2. DOMAIN h = Datasets /\ \A n \in Datasets \ Files : h[n] = Published[n]
  BY DEF Laid
<1> QED BY <1>1, <1>2 DEF Laid

\* A sound run is published, with nobody at work.
LEMMA InitRestInv == ASSUME Init, Sound(Published) PROVE RestInv
<1>1. Laid(Published)
  BY DEF Sound, Shape, Laid
<1>2. \A w \in Workers : pc[w] = "idle" /\ rows[w] = Published /\ entries[w] = Published
  BY DEF Init
<1>3. files = Published /\ catalog = [torn |-> FALSE, recorded |-> Published] /\ DOMAIN entries = Workers
  BY DEF Init
<1> QED BY <1>1, <1>2, <1>3 DEF RestInv, Waits, Collects, Amends, Amending

\* A step of one worker, while the others are not in flight.
LEMMA WorkingRest ==
  ASSUME RestInv, TypeOK, request' = request, NEW w \in Workers, pc[w] \notin Ends,
         \A v \in Workers : v # w => pc[v] \notin Mirroring,
         NEW to \in PCs \ {"lost"}, pc' = [pc EXCEPT ![w] = to],
         \A v \in Workers : v # w => rows'[v] = rows[v] /\ entries'[v] = entries[v],
         DOMAIN entries' = Workers, DOMAIN catalog' = {"torn", "recorded"},
         Laid(files'), Laid(catalog'.recorded), Laid(rows'[w]), Laid(entries'[w]), Waits(w)',
         (\A v \in Workers : pc[v] # "lost") =>
            /\ to \notin Amending => Sound(files') /\ ~catalog'.torn /\ catalog'.recorded = files'
            /\ Collects(w)' /\ Amends(w)'
  PROVE  RestInv'
<1>1. /\ pc'[w] = to
      /\ \A v \in Workers : v # w => pc'[v] = pc[v]
  BY DEF TypeOK
<1>2. \A v \in Workers : Laid(rows'[v]) /\ Laid(entries'[v])
  BY DEF RestInv
<1>3. ASSUME NEW v \in Workers, v # w PROVE Waits(v)' /\ Collects(v)' /\ Amends(v)'
  BY <1>1, <1>3 DEF Waits, Collects, Amends, Amending, Mirroring
<1>4. \A v \in Workers : Waits(v)'
  BY <1>3
<1>5. CASE \E v \in Workers : pc[v] = "lost"
  <2>1. \E v \in Workers : pc'[v] = "lost"
    BY <1>1, <1>5 DEF Ends
  <2> QED BY <1>2, <1>4, <2>1 DEF RestInv, Laid
<1>6. CASE \A v \in Workers : pc[v] # "lost"
  <2>1. \A v \in Workers : Collects(v)' /\ Amends(v)'
    BY <1>3, <1>6
  <2>2. (\A v \in Workers : pc'[v] \notin Amending) =>
          Sound(files') /\ ~catalog'.torn /\ catalog'.recorded = files'
    BY <1>1, <1>6
  <2> QED BY <1>2, <1>4, <2>1, <2>2 DEF RestInv, Laid
<1> QED BY <1>5, <1>6

\* What an invariant state says of a worker in flight and of the rest.
LEMMA RestFacts ==
  ASSUME MirrorInv, RestInv, NEW w \in Workers
  PROVE  /\ TypeOK
         /\ InFlight(w) => \A v \in Workers : v # w => pc[v] \notin Mirroring
         /\ Laid(files) /\ Laid(catalog.recorded) /\ Laid(rows[w]) /\ Laid(entries[w])
         /\ DOMAIN entries = Workers /\ DOMAIN catalog = {"torn", "recorded"}
         /\ DOMAIN rows = Workers /\ DOMAIN left = Workers
         /\ (\A v \in Workers : pc[v] # "lost") =>
              /\ Collects(w) /\ Amends(w)
              /\ InFlight(w) /\ pc[w] \notin Amending =>
                   Sound(files) /\ ~catalog.torn /\ catalog.recorded = files
<1>1. InFlight(w) => \A v \in Workers : v # w => pc[v] \notin Mirroring
  BY OthersRest
<1>2. InFlight(w) /\ pc[w] \notin Amending => \A v \in Workers : pc[v] \notin Amending
  BY <1>1 DEF Amending, Mirroring
<1> QED BY <1>1, <1>2 DEF MirrorInv, IInv, Worked, RestInv

\* A worker that moves on without touching the disk or its memory.
LEMMA MovesRest ==
  ASSUME MirrorInv, RestInv, UNCHANGED <<disk, memory>>, NEW w \in Workers,
         pc[w] \notin Amending \union Ends, NEW to \in {"deciding", "verifying", "done", "refused"},
         pc' = [pc EXCEPT ![w] = to], \A v \in Workers : v # w => pc[v] \notin Mirroring
  PROVE  RestInv'
<1>1. /\ pc'[w] = to
      /\ UNCHANGED <<files, catalog, request, rows, entries, left>>
  BY RestFacts DEF TypeOK, disk, memory
<1>2. Waits(w)' /\ Collects(w)' /\ Amends(w)'
  BY <1>1 DEF Waits, Collects, Amends, Amending
<1>3. (\A v \in Workers : pc[v] # "lost") =>
         Sound(files) /\ ~catalog.torn /\ catalog.recorded = files
  BY DEF RestInv, Amending, Mirroring
<1>4. to \in PCs \ {"lost"}
  BY DEF PCs, Ends
<1>5. Laid(files') /\ Laid(catalog'.recorded) /\ Laid(rows'[w]) /\ Laid(entries'[w])
      /\ DOMAIN entries' = Workers /\ DOMAIN catalog' = {"torn", "recorded"} /\ TypeOK
  BY <1>1, RestFacts
<1>6. (\A v \in Workers : pc[v] # "lost") =>
         Sound(files') /\ ~catalog'.torn /\ catalog'.recorded = files'
  BY <1>1, <1>3
<1> QED BY <1>1, <1>2, <1>4, <1>5, <1>6, WorkingRest

\* With nobody else at work, the files do not change while they are read.
LEMMA ReadsRest == ASSUME MirrorInv, RestInv, NEW w \in Workers, ReadDataset(w) PROVE RestInv'
<1> DEFINE name == NextIn(ReadOrder, left[w])
<1>1. /\ pc[w] = "reading" /\ pc' = [pc EXCEPT ![w] = "reading"] /\ InFlight(w)
      /\ rows' = [rows EXCEPT ![w] = [rows[w] EXCEPT ![name] = files[name]]]
      /\ left' = [left EXCEPT ![w] = left[w] \ {name}]
      /\ UNCHANGED <<files, catalog, request, entries>>
  BY RestFacts DEF ReadDataset, disk, TypeOK, InFlight, Ends
<1> HIDE DEF name
<1>2. /\ rows'[w] = [rows[w] EXCEPT ![name] = files[name]] /\ left'[w] = left[w] \ {name}
      /\ pc'[w] = "reading" /\ \A v \in Workers : v # w => rows'[v] = rows[v]
  BY <1>1, RestFacts DEF TypeOK
<1>3. Laid(rows'[w])
  BY <1>2, LaidUpdated, RestFacts
<1>4. ASSUME \A v \in Workers : pc[v] # "lost" PROVE Collects(w)' /\ Amends(w)'
  <2>1. Collects(w) /\ Laid(rows[w])
    BY <1>4, RestFacts
  <2>2. ASSUME NEW n \in Files \ left'[w] PROVE rows'[w][n] = files[n]
    <3>1. n \in DOMAIN rows[w]
      BY <2>1, FileNames DEF Laid, Datasets
    <3>2. CASE n = name
      BY <1>2, <3>1, <3>2
    <3>3. CASE n # name
      <4>1. rows[w][n] = files[n]
        BY <1>1, <1>2, <2>1, <3>3 DEF Collects
      <4> QED BY <1>2, <3>1, <3>3, <4>1
    <3> QED BY <3>2, <3>3
  <2> QED BY <1>1, <1>2, <2>1, <2>2 DEF Collects, Amends, Amending
<1>5. Waits(w)'
  BY <1>1, <1>2 DEF RestInv, Waits
<1>6. "reading" \in PCs \ {"lost"} /\ "reading" \notin Amending
  BY DEF PCs, Amending, Ends
<1>7. ASSUME \A v \in Workers : pc[v] # "lost"
      PROVE  Sound(files') /\ ~catalog'.torn /\ catalog'.recorded = files'
  BY <1>1, <1>6, <1>7, RestFacts
<1>8. pc[w] \notin Ends
  BY <1>1 DEF Ends
<1>9. Laid(files') /\ Laid(catalog'.recorded) /\ Laid(entries'[w])
      /\ DOMAIN entries' = Workers /\ DOMAIN catalog' = {"torn", "recorded"} /\ TypeOK
      /\ (\A v \in Workers : v # w => pc[v] \notin Mirroring)
      /\ \A v \in Workers : v # w => entries'[v] = entries[v]
  BY <1>1, RestFacts
<1> QED BY <1>1, <1>2, <1>3, <1>4, <1>5, <1>6, <1>7, <1>8, <1>9, WorkingRest

\* The catalog that is opened describes the files.
LEMMA OpensRest == ASSUME MirrorInv, RestInv, NEW w \in Workers, OpenCatalog(w) PROVE RestInv'
<1>1. /\ pc[w] = "opening" /\ InFlight(w) /\ UNCHANGED <<files, catalog, request, decided, rows>>
  BY DEF OpenCatalog, disk, InFlight, Ends
<1>2. CASE catalog.torn
  <2>1. pc' = [pc EXCEPT ![w] = "refused"] /\ UNCHANGED <<disk, memory>>
    BY <1>1, <1>2 DEF OpenCatalog, Goto, memory, disk
  <2>2. pc[w] \notin Amending \union Ends /\ \A v \in Workers : v # w => pc[v] \notin Mirroring
    BY <1>1, RestFacts DEF Amending, Ends
  <2> QED BY <2>1, <2>2, MovesRest
<1>3. CASE ~catalog.torn
  <2>1. /\ entries' = [entries EXCEPT ![w] = catalog.recorded]
        /\ left' = [left EXCEPT ![w] = Files] /\ pc' = [pc EXCEPT ![w] = "reading"]
    BY <1>3 DEF OpenCatalog, Goto
  <2>2. /\ entries'[w] = catalog.recorded /\ left'[w] = Files /\ pc'[w] = "reading"
        /\ DOMAIN entries' = Workers /\ \A v \in Workers : v # w => entries'[v] = entries[v]
    BY <2>1, RestFacts DEF TypeOK
  <2>3. ASSUME \A v \in Workers : pc[v] # "lost"
        PROVE  /\ Sound(files') /\ ~catalog'.torn /\ catalog'.recorded = files'
               /\ Collects(w)' /\ Amends(w)'
    <3>1. Sound(files) /\ ~catalog.torn /\ catalog.recorded = files
      BY <1>1, <2>3, RestFacts DEF Amending
    <3> QED BY <1>1, <2>2, <3>1 DEF Collects, Amends, Amending
  <2>4. Waits(w)'
    BY <1>1, <2>2 DEF RestInv, Waits
  <2>5. "reading" \in PCs \ {"lost"} /\ pc[w] \notin Ends
    BY <1>1 DEF PCs, Ends
  <2>6. Laid(files') /\ Laid(catalog'.recorded) /\ Laid(rows'[w]) /\ Laid(entries'[w])
        /\ DOMAIN catalog' = {"torn", "recorded"} /\ TypeOK
        /\ (\A v \in Workers : v # w => pc[v] \notin Mirroring)
        /\ \A v \in Workers : v # w => rows'[v] = rows[v]
    BY <1>1, <2>2, RestFacts
  <2> QED BY <1>1, <2>1, <2>2, <2>3, <2>4, <2>5, <2>6, WorkingRest
<1> QED BY <1>2, <1>3

\* The case that is decided still waits on disk: it was never exported.
LEMMA DecidesRest == ASSUME MirrorInv, RestInv, NEW w \in Workers, Decide(w) PROVE RestInv'
<1> DEFINE q == request[w]
<1>1. /\ pc[w] = "deciding" /\ InFlight(w) /\ q.case \in LiveCases
      /\ UNCHANGED <<files, catalog, request, rows, entries, left>>
  BY DEF Decide, disk, InFlight, Ends, MirrorInv, IInv, Controlled, Speaks
<1>2. \A v \in Workers : v # w => pc[v] \notin Mirroring
  BY <1>1, RestFacts
<1>3. CASE ~Swaps(q)
  <2>1. pc' = [pc EXCEPT ![w] = "refused"] /\ UNCHANGED <<disk, memory>>
    BY <1>1, <1>3 DEF Decide, Goto, memory, disk
  <2>2. pc[w] \notin Amending \union Ends
    BY <1>1 DEF Amending, Ends
  <2> QED BY <1>2, <2>1, <2>2, MovesRest
<1>4. CASE Swaps(q)
  <2>1. pc' = [pc EXCEPT ![w] = "opening"]
    BY <1>4 DEF Decide, Goto
  <2>2. pc'[w] = "opening"
    BY <2>1, RestFacts DEF TypeOK
  <2>3. files.human_decisions[q.case].status = "PENDING"
    <3>1. accepted[q.case] = 0
      BY <1>1, <1>4 DEF Swaps, MirrorInv, IInv, Controlled, OneDecisionPerCase
    <3> QED BY <1>1, <3>1 DEF MirrorInv, Exports
  <2>4. Waits(w)' /\ Collects(w)' /\ Amends(w)'
    BY <1>1, <2>2, <2>3 DEF Waits, Collects, Amends, Amending
  <2>5. "opening" \in PCs \ {"lost"} /\ pc[w] \notin Ends
    BY <1>1 DEF PCs, Ends
  <2>6. ASSUME \A v \in Workers : pc[v] # "lost"
        PROVE  Sound(files') /\ ~catalog'.torn /\ catalog'.recorded = files'
    BY <1>1, <2>6, RestFacts DEF Amending
  <2>7. Laid(files') /\ Laid(catalog'.recorded) /\ Laid(rows'[w]) /\ Laid(entries'[w])
        /\ DOMAIN entries' = Workers /\ DOMAIN catalog' = {"torn", "recorded"} /\ TypeOK
        /\ \A v \in Workers : v # w => rows'[v] = rows[v] /\ entries'[v] = entries[v]
    BY <1>1, RestFacts
  <2> QED BY <1>1, <1>2, <2>1, <2>4, <2>5, <2>6, <2>7, WorkingRest
<1> QED BY <1>3, <1>4

\* Two mappings that differ in the files decisions change.
Alike(f, g) == DOMAIN g = Datasets /\ \A name \in Datasets \ Files : g[name] = f[name]

\* Mirroring a decision touches nothing else, sound or not.
LEMMA MirroredIsLaid ==
  ASSUME NEW f, Laid(f), NEW q, NEW t
  PROVE  Laid(Mirrored(f, q, t))
<1> DEFINE c == q.case
           x == Executes(f, q, t)
           at == t + Minutes(1)
           diagnosis == t - Minutes(1)
           s == ScenarioOf(x, c)
           root == Manifest(x, c).root
           e == Downstream(BestAction(s), at, diagnosis)
           done == [x EXCEPT !.work_orders[c] = @ \o e.work,
                             !.field_evidence[c] = @ \o e.evidence,
                             !.mrs[c] = @ \o e.mr]
           full == [done EXCEPT
                      !.telemetry_tr181[c] = Append(@, e.post),
                      !.validation_events[c] = Append(@, e.post + Minutes(10)),
                      !.resolution_events[c] = Append(@, e.post + Minutes(10)),
                      !.incidents[root] = Restored(@, e.post)]
           z == IF q.response = "approve" THEN Approved(f, q, t) ELSE Blocked(f, q, t)
           y == Mirrored(f, q, t)
<1>0. DOMAIN f = Datasets
  BY DEF Laid
<1>1. Alike(f, x)
  <2>1. "incidents" \in Files /\ "human_decisions" \in Files /\ "action_events" \in Files
    BY FileNames
  <2> QED BY <1>0, <2>1 DEF Executes, Alike
<1>2. Approved(f, q, t) = done \/ Approved(f, q, t) = full
  BY DEF Approved, Materialize
<1> HIDE DEF x, s, root, e, at, diagnosis
<1>3. Alike(x, done)
  <2>1. "work_orders" \in Files /\ "field_evidence" \in Files /\ "mrs" \in Files
    BY FileNames
  <2> QED BY <1>1, <2>1 DEF Alike
<1> HIDE DEF done
<1>4. Alike(done, full)
  <2>1. /\ "telemetry_tr181" \in Files /\ "validation_events" \in Files
        /\ "resolution_events" \in Files /\ "incidents" \in Files
    BY FileNames
  <2> QED BY <1>3, <2>1 DEF Alike
<1> HIDE DEF full
<1>5. Alike(f, Blocked(f, q, t))
  <2>1. "human_decisions" \in Files /\ "action_events" \in Files
    BY FileNames
  <2> QED BY <1>0, <2>1 DEF Blocked, Alike
<1>6. Alike(f, z)
  BY <1>1, <1>2, <1>3, <1>4, <1>5 DEF Alike
<1>7. y = RefreshCare(z)
  BY Zenon DEF Mirrored
<1> HIDE DEF z, y
<1>8. Alike(z, y)
  <2>1. "care_tickets" \in Files /\ "care_ticket_reviews" \in Files
    BY FileNames
  <2>2. DOMAIN z = Datasets
    BY <1>6 DEF Alike
  <2>3. DOMAIN y = Datasets
    BY <1>7, <2>2, Zenon DEF RefreshCare
  <2>4. \A name \in Datasets \ Care : y[name] = z[name]
    BY <1>7, <2>2 DEF RefreshCare, Care, Datasets
  <2> QED BY <2>1, <2>3, <2>4 DEF Alike, Care
<1>9. ByName(y)
  BY <1>7, UpdateIsByName, Zenon DEF RefreshCare
<1>10. DOMAIN y = Datasets /\ \A name \in Datasets \ Files : y[name] = Published[name]
  BY <1>6, <1>8 DEF Alike, Laid
<1>11. Laid(y)
  BY <1>9, <1>10 DEF Laid
<1> QED BY <1>11 DEF y

\* All files are read, so the rows are the files, the decision is mirrored on a sound
\* run, and what is not to be written is on disk as it was.
LEMMA MirrorsRest == ASSUME MirrorInv, RestInv, NEW w \in Workers, Mirror(w) PROVE RestInv'
<1> DEFINE q == request[w]
           d == Mirrored(rows[w], q, decided[w])
<1>1. /\ pc[w] = "reading" /\ left[w] = {} /\ InFlight(w)
      /\ UNCHANGED <<files, catalog, request, decided, entries>>
  BY DEF Mirror, disk, InFlight, Ends
<1>2. \A v \in Workers : v # w => pc[v] \notin Mirroring
  BY <1>1, RestFacts
<1>3. CASE ~Gate(d)
  <2>1. pc' = [pc EXCEPT ![w] = "refused"] /\ UNCHANGED <<disk, memory>>
    BY <1>1, <1>3 DEF Mirror, Goto, memory, disk
  <2>2. pc[w] \notin Amending \union Ends
    BY <1>1 DEF Amending, Ends
  <2> QED BY <1>2, <2>1, <2>2, MovesRest
<1>4. CASE Gate(d)
  <2>1. /\ rows' = [rows EXCEPT ![w] = d]
        /\ left' = [left EXCEPT ![w] = Changed(rows[w], d, q)]
        /\ pc' = [pc EXCEPT ![w] = "writing"]
    BY <1>4 DEF Mirror, Goto
  <2>2. Laid(d)
    <3>1. Laid(rows[w])
      BY RestFacts
    <3> QED BY <3>1, MirroredIsLaid
  <2>3. /\ q.case \in LiveCases /\ decided[w] \in Int
        /\ q.response \in {"approve", "reject", "request_evidence", "escalate"}
    <3>1. q.case \in LiveCases /\ decided[w] \in Clocks
      BY <1>1 DEF MirrorInv, Owned, Owns, Mirroring
    <3>2. q \in Requests
      BY RestFacts DEF TypeOK
    <3> QED BY <3>1, <3>2, RequestsAssumption, ClocksAssumption
  <2>4. ASSUME \A v \in Workers : pc[v] # "lost"
        PROVE  /\ Sound(d) /\ rows[w] = files /\ entries[w] = files
               /\ \A name \in Datasets \ (Files \cap Changed(rows[w], d, q)) :
                    d[name] = rows[w][name]
    <3>1. Sound(files) /\ Collects(w) /\ Laid(files) /\ Laid(rows[w])
      BY <1>1, <2>4, RestFacts DEF Amending
    <3>2. rows[w] = files /\ entries[w] = files
      <4>1. entries[w] = files /\ \A name \in Files : rows[w][name] = files[name]
        BY <1>1, <3>1 DEF Collects
      <4> QED BY <3>1, <4>1, LaidIs
    <3>3. rows[w].human_decisions[q.case].status = "PENDING"
      BY <1>1, <3>2 DEF RestInv, Waits
    <3>4. q.case \in Cases(rows[w])
      <4>1. files.scenario_manifests = Published.scenario_manifests
        BY DEF MirrorInv, Shaped
      <4> QED BY <2>3, <3>2, <4>1 DEF LiveCases, Cases
    <3> DEFINE x == rows[w]
               t == decided[w]
    <3>5. Sound(x) /\ q.case \in Cases(x) /\ x.human_decisions[q.case].status = "PENDING"
          /\ t \in Int /\ Gate(Mirrored(x, q, t)) /\ d = Mirrored(x, q, t)
      BY <1>4, <2>3, <3>1, <3>2, <3>3, <3>4
    <3> HIDE DEF x, q, t, d
    <3>6. Sound(d)
      BY <2>3, <3>5, MirroredIsSound
    <3>7. \A name \in Datasets \ (Files \cap Changed(x, d, q)) : d[name] = x[name]
      BY <2>3, <3>5, <3>6, MirroredKeeps
    <3> QED BY <3>2, <3>6, <3>7 DEF x
  <2> HIDE DEF d, q
  <2>5. /\ rows'[w] = d /\ left'[w] = Changed(rows[w], d, q) /\ pc'[w] = "writing"
        /\ \A v \in Workers : v # w => rows'[v] = rows[v]
    BY <2>1, RestFacts DEF TypeOK
  <2>6. Waits(w)' /\ Collects(w)'
    BY <2>5 DEF Waits, Collects
  <2>7. ASSUME \A v \in Workers : pc[v] # "lost" PROVE Amends(w)'
    <3>1. ASSUME NEW name \in Files, name \notin left'[w]
          PROVE  files[name] = d[name] /\ entries[w][name] = d[name]
      <4>1. name \in Datasets
        BY FileNames DEF Datasets
      <4> QED BY <2>4, <2>5, <2>7, <3>1, <4>1
    <3>2. \A name : Written(w, name)' => name \notin left'[w]
      BY <2>5 DEF Written
    <3>3. Sound(d)
      BY <2>4, <2>7
    <3> QED BY <1>1, <2>5, <3>1, <3>2, <3>3 DEF Amends
  <2>8. "writing" \in PCs \ {"lost"} /\ "writing" \in Amending /\ pc[w] \notin Ends
    BY <1>1 DEF PCs, Amending, Ends
  <2>9. Laid(files') /\ Laid(catalog'.recorded) /\ Laid(rows'[w]) /\ Laid(entries'[w])
        /\ DOMAIN entries' = Workers /\ DOMAIN catalog' = {"torn", "recorded"} /\ TypeOK
        /\ \A v \in Workers : v # w => entries'[v] = entries[v]
    BY <1>1, <2>2, <2>5, RestFacts
  <2> QED BY <1>1, <1>2, <2>1, <2>5, <2>6, <2>7, <2>8, <2>9, WorkingRest
<1> QED BY <1>3, <1>4

\* One more file on disk is as in the rows ...
LEMMA WritesRest == ASSUME MirrorInv, RestInv, NEW w \in Workers, WriteDataset(w) PROVE RestInv'
<1> DEFINE name == NextIn(WriteOrder, left[w])
<1>1. /\ pc[w] = "writing" /\ pc' = [pc EXCEPT ![w] = "hashing"] /\ InFlight(w)
      /\ files' = [files EXCEPT ![name] = rows[w][name]]
      /\ UNCHANGED <<catalog, request, rows, entries, left>>
  BY DEF WriteDataset, Goto, memory, InFlight, Ends
<1>2. pc'[w] = "hashing"
  BY <1>1, RestFacts DEF TypeOK
<1>3. Laid(files')
  <2> HIDE DEF name
  <2> QED BY <1>1, LaidUpdated, RestFacts
<1>4. Waits(w)' /\ Collects(w)'
  BY <1>2 DEF Waits, Collects
<1>5. ASSUME \A v \in Workers : pc[v] # "lost" PROVE Amends(w)'
  <2>1. /\ Sound(rows[w])
        /\ \A n \in Files : /\ n \notin left[w] => files[n] = rows[w][n]
                            /\ n \notin left[w] => entries[w][n] = rows[w][n]
    BY <1>1, <1>5, RestFacts DEF Amends, Amending, Written
  <2>2. ASSUME NEW n \in Files, n \notin left[w] \/ n = name PROVE files'[n] = rows[w][n]
    <3> HIDE DEF name
    <3>1. n \in DOMAIN files
      BY FileNames, RestFacts DEF Laid, Datasets
    <3>2. files'[n] = IF n = name THEN rows[w][n] ELSE files[n]
      BY <1>1, <3>1
    <3> QED BY <2>1, <2>2, <3>2
  <2>3. \A n \in Files : Written(w, n)' => n \notin left[w] \/ n = name
    BY <1>1 DEF Written
  <2> HIDE DEF name
  <2> QED BY <1>1, <2>1, <2>2, <2>3 DEF Amends
<1>6. "hashing" \in PCs \ {"lost"} /\ "hashing" \in Amending /\ pc[w] \notin Ends
  BY <1>1 DEF PCs, Amending, Ends
<1>7. Laid(files') /\ Laid(catalog'.recorded) /\ Laid(rows'[w]) /\ Laid(entries'[w])
      /\ DOMAIN entries' = Workers /\ DOMAIN catalog' = {"torn", "recorded"} /\ TypeOK
      /\ (\A v \in Workers : v # w => pc[v] \notin Mirroring)
      /\ \A v \in Workers : v # w => rows'[v] = rows[v] /\ entries'[v] = entries[v]
  BY <1>1, <1>3, RestFacts
<1> QED BY <1>1, <1>4, <1>5, <1>6, <1>7, WorkingRest

\* ... and is hashed as it is on disk.
LEMMA HashesRest == ASSUME MirrorInv, RestInv, NEW w \in Workers, HashDataset(w) PROVE RestInv'
<1> DEFINE name == NextIn(WriteOrder, left[w])
           to == IF left[w] = {name} THEN "recording" ELSE "writing"
<1>1. /\ pc[w] = "hashing" /\ pc' = [pc EXCEPT ![w] = to] /\ InFlight(w)
      /\ entries' = [entries EXCEPT ![w] = [entries[w] EXCEPT ![name] = files[name]]]
      /\ left' = [left EXCEPT ![w] = left[w] \ {name}]
      /\ UNCHANGED <<files, catalog, request, rows>>
  BY DEF HashDataset, disk, Goto, InFlight, Ends
<1>2. to \in PCs \ {"lost"} /\ to \in Amending /\ pc[w] \notin Ends
      /\ to \notin {"opening", "reading", "hashing"}
  BY <1>1 DEF PCs, Amending, Ends
<1>3. \A n : Written(w, n) <=> n \notin left[w] \/ n = name
  BY <1>1 DEF Written
<1> HIDE DEF name, to
<1>4. /\ pc'[w] = to /\ left'[w] = left[w] \ {name} /\ DOMAIN entries' = Workers
      /\ entries'[w] = [entries[w] EXCEPT ![name] = files[name]]
      /\ \A v \in Workers : v # w => entries'[v] = entries[v]
  BY <1>1, RestFacts DEF TypeOK
<1>5. Laid(entries'[w])
  <2>1. Laid(entries[w]) /\ Laid(files)
    BY RestFacts
  <2> QED BY <1>4, <2>1, LaidUpdated
<1>6. Waits(w)' /\ Collects(w)'
  BY <1>2, <1>4 DEF Waits, Collects
<1>7. ASSUME \A v \in Workers : pc[v] # "lost" PROVE Amends(w)'
  <2>1. /\ Sound(rows[w])
        /\ \A n \in Files : /\ n \notin left[w] \/ n = name => files[n] = rows[w][n]
                            /\ n \notin left[w] => entries[w][n] = rows[w][n]
    BY <1>1, <1>3, <1>7, RestFacts DEF Amends, Amending
  <2>2. ASSUME NEW n \in Files, n \notin left'[w]
        PROVE  files[n] = rows[w][n] /\ entries'[w][n] = rows[w][n]
    <3>1. n \in DOMAIN entries[w]
      BY FileNames, RestFacts DEF Laid, Datasets
    <3>2. entries'[w][n] = IF n = name THEN files[n] ELSE entries[w][n]
      BY <1>4, <3>1
    <3>3. n \notin left[w] \/ n = name
      BY <1>4, <2>2
    <3> QED BY <2>1, <3>2, <3>3
  <2>3. \A n : Written(w, n)' => n \notin left'[w]
    BY <1>2, <1>4 DEF Written
  <2> QED BY <1>1, <2>1, <2>2, <2>3 DEF Amends
<1>8. Laid(files') /\ Laid(catalog'.recorded) /\ Laid(rows'[w])
      /\ DOMAIN catalog' = {"torn", "recorded"} /\ TypeOK
      /\ (\A v \in Workers : v # w => pc[v] \notin Mirroring)
      /\ \A v \in Workers : v # w => rows'[v] = rows[v]
  BY <1>1, RestFacts
<1> QED BY <1>1, <1>2, <1>4, <1>5, <1>6, <1>7, <1>8, WorkingRest

\* The catalog is torn while it is rewritten.
LEMMA TruncatesRest ==
  ASSUME MirrorInv, RestInv, NEW w \in Workers, TruncateCatalog(w) PROVE RestInv'
<1>1. /\ pc[w] = "recording" /\ pc' = [pc EXCEPT ![w] = "filling"] /\ InFlight(w)
      /\ catalog' = [catalog EXCEPT !.torn = TRUE]
      /\ UNCHANGED <<files, request, rows, entries, left>>
  BY DEF TruncateCatalog, memory, Goto, InFlight, Ends
<1>2. /\ pc'[w] = "filling" /\ catalog'.recorded = catalog.recorded
      /\ DOMAIN catalog' = {"torn", "recorded"}
  BY <1>1, RestFacts DEF TypeOK
<1>3. Waits(w)' /\ Collects(w)'
  BY <1>2 DEF Waits, Collects
<1>4. ASSUME \A v \in Workers : pc[v] # "lost" PROVE Amends(w)'
  BY <1>1, <1>2, <1>4, RestFacts DEF Amends, Amending, Written
<1>5. "filling" \in PCs \ {"lost"} /\ "filling" \in Amending /\ pc[w] \notin Ends
  BY <1>1 DEF PCs, Amending, Ends
<1>6. Laid(files') /\ Laid(catalog'.recorded) /\ Laid(rows'[w]) /\ Laid(entries'[w])
      /\ DOMAIN entries' = Workers /\ TypeOK
      /\ (\A v \in Workers : v # w => pc[v] \notin Mirroring)
      /\ \A v \in Workers : v # w => rows'[v] = rows[v] /\ entries'[v] = entries[v]
  BY <1>1, <1>2, RestFacts
<1> QED BY <1>1, <1>2, <1>3, <1>4, <1>5, <1>6, WorkingRest

\* The catalog is filled with what is on disk, and both are the sound rows.
LEMMA FillsRest == ASSUME MirrorInv, RestInv, NEW w \in Workers, FillCatalog(w) PROVE RestInv'
<1> DEFINE to == IF Verifies(w) THEN "verifying" ELSE "done"
<1>1. /\ pc[w] = "filling" /\ pc' = [pc EXCEPT ![w] = to] /\ InFlight(w)
      /\ catalog' = [torn |-> FALSE, recorded |-> entries[w]]
      /\ UNCHANGED <<files, request, rows, entries, left>>
  BY DEF FillCatalog, memory, Goto, InFlight, Ends
<1>2. /\ to \in PCs \ {"lost"} /\ to \in {"verifying", "done"} /\ pc[w] \notin Ends
  BY <1>1 DEF PCs, Ends
<1> HIDE DEF to
<1>3. /\ pc'[w] = to /\ catalog'.recorded = entries[w] /\ ~catalog'.torn
      /\ DOMAIN catalog' = {"torn", "recorded"}
  BY <1>1, RestFacts DEF TypeOK
<1>4. Waits(w)' /\ Collects(w)' /\ Amends(w)'
  BY <1>2, <1>3 DEF Waits, Collects, Amends, Amending
<1>5. ASSUME \A v \in Workers : pc[v] # "lost"
      PROVE  Sound(files') /\ catalog'.recorded = files'
  <2>1. left[w] = {}
    BY <1>1 DEF MirrorInv, Mirrors, Mirroring
  <2>2. /\ Sound(rows[w])
        /\ \A n \in Files : files[n] = rows[w][n] /\ entries[w][n] = rows[w][n]
    BY <1>1, <1>5, <2>1, RestFacts DEF Amends, Amending, Written
  <2>3. Laid(files) /\ Laid(rows[w]) /\ Laid(entries[w])
    BY RestFacts
  <2>4. files = rows[w] /\ entries[w] = rows[w]
    BY <2>2, <2>3, LaidIs
  <2> QED BY <1>1, <1>3, <2>2, <2>4
<1>6. Laid(files') /\ Laid(catalog'.recorded) /\ Laid(rows'[w]) /\ Laid(entries'[w])
      /\ DOMAIN entries' = Workers /\ TypeOK
      /\ (\A v \in Workers : v # w => pc[v] \notin Mirroring)
      /\ \A v \in Workers : v # w => rows'[v] = rows[v] /\ entries'[v] = entries[v]
  BY <1>1, <1>3, RestFacts
<1> QED BY <1>1, <1>2, <1>3, <1>4, <1>5, <1>6, WorkingRest

\* Verification leaves the files alone.
LEMMA VerifiesRest ==
  ASSUME MirrorInv, RestInv, NEW w \in Workers, MarkVerified(w) PROVE RestInv'
<1>1. pc[w] = "verifying" /\ InFlight(w) /\ UNCHANGED <<disk, memory>>
  BY DEF MarkVerified, InFlight, Ends
<1>2. PICK to \in {"done", "refused"} : pc' = [pc EXCEPT ![w] = to]
  BY DEF MarkVerified, Goto
<1>3. pc[w] \notin Amending \union Ends /\ \A v \in Workers : v # w => pc[v] \notin Mirroring
  BY <1>1, RestFacts DEF Amending, Ends
<1> QED BY <1>1, <1>2, <1>3, MovesRest

\* With one request at a time a request is read when no other is in flight.
LEMMA PostsRest ==
  ASSUME Serial, MirrorInv, RestInv, NEW w \in Workers, Read(w) PROVE RestInv'
<1>1. pc[w] = "idle" /\ AtRest /\ UNCHANGED <<disk, memory>>
  BY DEF Read
<1>2. PICK to \in {"deciding", "refused"} : pc' = [pc EXCEPT ![w] = to]
  BY DEF Read, Goto
<1>3. pc[w] \notin Amending \union Ends /\ \A v \in Workers : v # w => pc[v] \notin Mirroring
  BY <1>1 DEF Amending, Ends, AtRest, InFlight, Mirroring
<1> QED BY <1>1, <1>2, <1>3, MovesRest

\* A crash loses a request, and leaves files that nobody vouches for any more.
LEMMA CrashRest == ASSUME MirrorInv, RestInv, Crash PROVE RestInv'
<1>1. /\ pc' = [w \in Workers |-> IF InFlight(w) THEN "lost" ELSE pc[w]]
      /\ UNCHANGED <<files, catalog, request, rows, entries>>
  BY DEF Crash, disk, memory
<1>2. \E w \in Workers : pc'[w] = "lost"
  BY <1>1 DEF Crash, AtRest
<1>3. \A w \in Workers : Waits(w)'
  BY <1>1 DEF RestInv, Waits
<1>4. \A w \in Workers : Laid(rows'[w]) /\ Laid(entries'[w])
  BY <1>1 DEF RestInv
<1> QED BY <1>1, <1>2, <1>3, <1>4 DEF RestInv

\* Every step of requests that do not overlap keeps the invariant.
LEMMA StepRestInv == Serial /\ MirrorInv /\ RestInv /\ [Next]_vars => RestInv'
<1> SUFFICES ASSUME Serial, MirrorInv, RestInv, [Next]_vars PROVE RestInv'
  OBVIOUS
<1>1. ASSUME NEW w \in Workers, Step(w) PROVE RestInv'
  BY <1>1, PostsRest, DecidesRest, OpensRest, ReadsRest, MirrorsRest, WritesRest, HashesRest,
     TruncatesRest, FillsRest, VerifiesRest DEF Step
<1>2. CASE UNCHANGED vars
  BY <1>2 DEF vars, control, disk, memory, RestInv, Laid, Waits, Collects, Amends, Written
<1> QED BY <1>1, <1>2, CrashRest DEF Next, Ended

\* One request at a time keeps a sound run sound.
THEOREM RestInductive == Serial /\ Sound(Published) => (Spec => []RestInv)
<1>1. ASSUME Serial, Sound(Published) PROVE Spec => []RestInv
  <2>1. Spec => []MirrorInv
    BY <1>1, MirrorInductive
  <2>2. MirrorInv /\ RestInv /\ [Next]_vars => RestInv'
    BY <1>1, StepRestInv
  <2>3. Init => RestInv
    BY <1>1, InitRestInv
  <2> QED BY <2>1, <2>2, <2>3, PTL DEF Spec
<1> QED BY <1>1

\* As long as requests are posted one at a time and none dies, a published run that is
\* sound (every one that the generator publishes is: PublishedRunsAreSound in
\* RunGenerationProofs) passes the gate, is described by its catalog and adds up after
\* every decision, for all rows, requests, clocks and places of the services.
THEOREM RestIsAccounted == Serial /\ Sound(Published) => (Spec => []RestIsProjectable)
<1>1. RestInv => RestIsProjectable
  <2> SUFFICES ASSUME RestInv, Undisturbed
               PROVE  Gate(files) /\ ~catalog.torn /\ Accounts(catalog.recorded, files, Places)
    BY DEF RestIsProjectable
  <2>1. \A w \in Workers : pc[w] \notin Amending /\ pc[w] # "lost"
    BY DEF Undisturbed, InFlight, Ends, Amending
  <2>2. Sound(files) /\ ~catalog.torn /\ catalog.recorded = files
    BY <2>1 DEF RestInv
  <2>3. Places \in SUBSET PlanningPlaces
    BY PlacesAssumption DEF PlanningPlaces
  <2>4. Accounts(files, files, Places)
    BY <2>2, <2>3, SoundIsAccounted
  <2> QED BY <2>2, <2>4 DEF Sound
<1>2. ASSUME Serial, Sound(Published) PROVE Spec => []RestIsProjectable
  <2>1. Spec => []RestInv
    BY <1>2, RestInductive
  <2> QED BY <1>1, <2>1, PTL
<1> QED BY <1>2
=============================================================================
