---------------------------- MODULE LiveDecisions ----------------------------
(***************************************************************************)
(* Live human decisions on the pending cases of a published digital-twin   *)
(* run (digital_twin/api.py decide, workflow.py CaseStore, orchestrator.py *)
(* materialize_live_decision).                                             *)
(*                                                                         *)
(* A request first advances its case in control.sqlite by compare and      *)
(* swap, and then mirrors the decision: it reads the catalog and the       *)
(* datasets file by file, computes the new rows in memory, runs the gate,  *)
(* replaces the changed files one by one, rewrites the catalog in place,   *)
(* and verifies the case.  Nothing serialises two requests, and the        *)
(* process can die between any two steps.                                  *)
(*                                                                         *)
(* The content of a file stands for its hash.  The caller is an            *)
(* authenticated operator or supervisor acting under their own name.       *)
(***************************************************************************)
EXTENDS QualityGate

CONSTANTS
  Published,    \* the datasets the run was published with
  Requests,     \* the decisions that may be posted
  Workers,      \* request threads; each serves one request (a bound)
  Clocks,       \* the times a decision may be taken at
  Serial,       \* requests are posted one at a time
  MayCrash      \* the process may die

\* The files that hold what follows an action.
WorkFiles == {"work_orders", "mrs", "validation_events", "resolution_events"}

\* The files that change after publication, in the order they are read
\* (DATASETS) and in the order they are written (sorted).
ReadOrder ==
  <<"telemetry_tr181", "incidents", "work_orders", "field_evidence", "mrs",
    "validation_events", "resolution_events", "human_decisions", "action_events",
    "care_tickets", "care_ticket_reviews">>
WriteOrder ==
  <<"action_events", "care_ticket_reviews", "care_tickets", "field_evidence",
    "human_decisions", "incidents", "mrs", "resolution_events", "telemetry_tr181",
    "validation_events", "work_orders">>
Files == Members(ReadOrder)
NextIn(order, names) ==
  order[CHOOSE i \in DOMAIN order :
          order[i] \in names /\ \A j \in DOMAIN order : order[j] \in names => i <= j]

ASSUME PublishedAssumption == Gate(Published)
ASSUME PublishedRowsAssumption ==
  /\ Files \union {"scenario_manifests"} \subseteq DOMAIN Published
  /\ \A name \in WorkFiles \union {"human_decisions"} :
       Cases(Published) \subseteq DOMAIN Published[name]
  /\ \A c \in Cases(Published) : ScenarioOf(Published, c) \in Scenarios
ASSUME RequestsAssumption ==
  Requests \subseteq [case : Nat, revision : Nat \ {0},
                      response : {"approve", "reject", "request_evidence", "escalate"}]
ASSUME ClocksAssumption == Clocks \subseteq {t \in Int : t > NoTime}
ASSUME SwitchesAssumption == Serial \in BOOLEAN /\ MayCrash \in BOOLEAN

VARIABLES
  store,      \* control.sqlite: the live cases
  accepted,   \* how many decisions of a case the store has accepted
  files,      \* the dataset files of the run directory
  catalog,    \* catalog.json: the content it records for each file
  pc, request, decided,   \* of each worker: progress, request, updated_at
  rows,       \* its datasets in memory
  entries,    \* its catalog in memory
  left        \* the files it has still to read, then to write

control == <<store, accepted>>
disk == <<files, catalog>>
memory == <<request, decided, rows, entries, left>>
vars == <<control, disk, pc, memory>>

-----------------------------------------------------------------------------
(* The case store *)

LiveCases == {c \in Cases(Published) : Published.human_decisions[c].status = "PENDING"}
Waiting == [revision |-> 1, state |-> "WAITING_HUMAN", response |-> "none"]

StateAfter(response) ==
  CASE response = "approve" -> "ACTION_SIMULATED"
    [] response = "request_evidence" -> "NEEDS_EVIDENCE"
    [] OTHER -> "ESCALATED"

\* The checks on the row that was read.
MayDecide(q) ==
  /\ q.case \in LiveCases
  /\ store[q.case].state = "WAITING_HUMAN"
  /\ store[q.case].revision = q.revision

SwapsUnchecked(q) == TRUE       \* mutant: UPDATE without its WHERE

\* UPDATE ... WHERE case_id=? AND revision=? AND state='WAITING_HUMAN'
Swaps(q) ==
  store[q.case].state = "WAITING_HUMAN" /\ store[q.case].revision = q.revision

-----------------------------------------------------------------------------
(* materialize_live_decision, in memory *)

StatusAfter(response) ==
  CASE response = "approve" -> "APPROVED"
    [] response = "request_evidence" -> "EVIDENCE_REQUESTED"
    [] response = "reject" -> "REJECTED"
    [] OTHER -> "ESCALATED"

Ruling(d, q, t) ==
  [status |-> StatusAfter(q.response), required |-> TRUE, response |-> q.response,
   senior |-> Manifest(d, q.case).seq > 0, decided |-> t]

Executes(d, q, t) ==
  [d EXCEPT
     !.human_decisions[q.case] = Ruling(d, q, t),
     !.action_events[q.case] = [status |-> "SIMULATED_EXECUTED", at |-> t + Minutes(1)],
     !.incidents[Manifest(d, q.case).root] = Reopened(@)]

Approved(d, q, t) ==
  Materialize(Executes(d, q, t), q.case, t + Minutes(1), t - Minutes(1))

Blocked(d, q, t) ==
  [d EXCEPT
     !.human_decisions[q.case] = Ruling(d, q, t),
     !.action_events[q.case].status =
        IF q.response = "request_evidence" THEN "BLOCKED_NEEDS_EVIDENCE"
        ELSE "BLOCKED_ESCALATED"]

Mirrored(d, q, t) ==
  RefreshCare(IF q.response = "approve" THEN Approved(d, q, t) ELSE Blocked(d, q, t))

\* Mutants: the effect, the care queue or the decision itself is not exported.
ChangedOnlyControl(d, after, q) == {"human_decisions", "action_events"}
ChangedButHuman(d, after, q) == Files \ {"human_decisions"}

Changed(d, after, q) ==
  {"human_decisions", "action_events"}
    \union (IF q.response = "approve"
            THEN {"telemetry_tr181", "incidents", "work_orders", "field_evidence", "mrs",
                  "validation_events", "resolution_events"} ELSE {})
    \union (IF after.care_tickets # d.care_tickets
            THEN {"care_tickets", "care_ticket_reviews"} ELSE {})

-----------------------------------------------------------------------------
(* Requests *)

Ends == {"done", "refused", "lost"}
InFlight(w) == pc[w] \notin Ends \union {"idle"}
AtRest == \A w \in Workers : ~InFlight(w)

Init ==
  /\ store = [c \in LiveCases |-> Waiting]
  /\ accepted = [c \in LiveCases |-> 0]
  /\ files = Published
  /\ catalog = [torn |-> FALSE, recorded |-> Published]
  /\ pc = [w \in Workers |-> "idle"]
  /\ request \in [Workers -> Requests]
  /\ decided = [w \in Workers |-> NoTime]
  /\ rows = [w \in Workers |-> Published]
  /\ entries = [w \in Workers |-> Published]
  /\ left = [w \in Workers |-> {}]

Goto(w, to) == pc' = [pc EXCEPT ![w] = to]

\* store.decide reads the row and checks it ...
Read(w) ==
  /\ pc[w] = "idle"
  /\ Serial => AtRest
  /\ Goto(w, IF MayDecide(request[w]) THEN "deciding" ELSE "refused")
  /\ UNCHANGED <<control, disk, memory>>

DecideRegardless(w) ==      \* mutant: the swap's rowcount is not looked at
  LET q == request[w]
  IN /\ pc[w] = "deciding"
     /\ IF Swaps(q)
        THEN /\ store' = [store EXCEPT ![q.case] =
                            [revision |-> q.revision + 1, state |-> StateAfter(q.response),
                             response |-> q.response]]
             /\ accepted' = [accepted EXCEPT ![q.case] = @ + 1]
        ELSE UNCHANGED control
     /\ \E t \in Clocks : decided' = [decided EXCEPT ![w] = t]
     /\ Goto(w, "opening")
     /\ UNCHANGED <<disk, request, rows, entries, left>>

\* ... and updates it in another transaction.
Decide(w) ==
  LET q == request[w]
  IN /\ pc[w] = "deciding"
     /\ IF Swaps(q)
        THEN /\ store' = [store EXCEPT ![q.case] =
                            [revision |-> q.revision + 1, state |-> StateAfter(q.response),
                             response |-> q.response]]
             /\ accepted' = [accepted EXCEPT ![q.case] = @ + 1]
             /\ \E t \in Clocks : decided' = [decided EXCEPT ![w] = t]
             /\ Goto(w, "opening")
        ELSE UNCHANGED <<control, decided>> /\ Goto(w, "refused")
     /\ UNCHANGED <<disk, request, rows, entries, left>>

\* A truncated catalog does not parse, and the error refuses the request.
OpenCatalog(w) ==
  /\ pc[w] = "opening"
  /\ IF catalog.torn
     THEN Goto(w, "refused") /\ UNCHANGED <<entries, left>>
     ELSE /\ entries' = [entries EXCEPT ![w] = catalog.recorded]
          /\ left' = [left EXCEPT ![w] = Files]
          /\ Goto(w, "reading")
  /\ UNCHANGED <<control, disk, request, decided, rows>>

ReadDataset(w) ==
  /\ pc[w] = "reading"
  /\ left[w] # {}
  /\ LET name == NextIn(ReadOrder, left[w])
     IN /\ rows' = [rows EXCEPT ![w][name] = files[name]]
        /\ left' = [left EXCEPT ![w] = @ \ {name}]
  /\ UNCHANGED <<control, disk, pc, request, decided, entries>>

Mirror(w) ==
  LET q == request[w]
      d == Mirrored(rows[w], q, decided[w])
  IN /\ pc[w] = "reading"
     /\ left[w] = {}
     /\ IF Gate(d)
        THEN /\ rows' = [rows EXCEPT ![w] = d]
             /\ left' = [left EXCEPT ![w] = Changed(rows[w], d, q)]
             /\ Goto(w, "writing")
        ELSE Goto(w, "refused") /\ UNCHANGED <<rows, left>>
     /\ UNCHANGED <<control, disk, request, decided, entries>>

\* A file is replaced, and then read again to be hashed.
WriteDataset(w) ==
  /\ pc[w] = "writing"
  /\ LET name == NextIn(WriteOrder, left[w])
     IN files' = [files EXCEPT ![name] = rows[w][name]]
  /\ Goto(w, "hashing")
  /\ UNCHANGED <<control, catalog, memory>>

HashNothing(w) ==       \* mutant: the catalog keeps the old hash
  /\ pc[w] = "hashing"
  /\ left' = [left EXCEPT ![w] = @ \ {NextIn(WriteOrder, @)}]
  /\ Goto(w, IF left'[w] = {} THEN "recording" ELSE "writing")
  /\ UNCHANGED <<control, disk, request, decided, rows, entries>>

HashDataset(w) ==
  LET name == NextIn(WriteOrder, left[w])
  IN /\ pc[w] = "hashing"
     /\ entries' = [entries EXCEPT ![w][name] = files[name]]
     /\ left' = [left EXCEPT ![w] = @ \ {name}]
     /\ Goto(w, IF left[w] = {name} THEN "recording" ELSE "writing")
     /\ UNCHANGED <<control, disk, request, decided, rows>>

\* The catalog is truncated and written in place.
TruncateCatalog(w) ==
  /\ pc[w] = "recording"
  /\ catalog' = [catalog EXCEPT !.torn = TRUE]
  /\ Goto(w, "filling")
  /\ UNCHANGED <<control, files, memory>>

Verifies(w) ==
  request[w].response = "approve" /\ Restoration(rows[w], request[w].case)

FillCatalog(w) ==
  /\ pc[w] = "filling"
  /\ catalog' = [torn |-> FALSE, recorded |-> entries[w]]
  /\ Goto(w, IF Verifies(w) THEN "verifying" ELSE "done")
  /\ UNCHANGED <<control, files, memory>>

MarkVerified(w) ==
  LET c == request[w].case
  IN /\ pc[w] = "verifying"
     /\ IF store[c].state = "ACTION_SIMULATED"
        THEN /\ store' = [store EXCEPT ![c] =
                            [revision |-> @.revision + 1, state |-> "CLOSED_SIMULATED",
                             response |-> @.response]]
             /\ Goto(w, "done")
        ELSE UNCHANGED store /\ Goto(w, "refused")
     /\ UNCHANGED <<accepted, disk, memory>>

\* The process dies with every request it serves; its files stay as they are.
Crash ==
  /\ MayCrash
  /\ ~AtRest
  /\ pc' = [w \in Workers |-> IF InFlight(w) THEN "lost" ELSE pc[w]]
  /\ UNCHANGED <<control, disk, memory>>

Ended ==
  /\ \A w \in Workers : pc[w] \in Ends
  /\ UNCHANGED vars

Step(w) ==
  \/ Read(w) \/ Decide(w) \/ OpenCatalog(w) \/ ReadDataset(w) \/ Mirror(w)
  \/ WriteDataset(w) \/ HashDataset(w) \/ TruncateCatalog(w) \/ FillCatalog(w)
  \/ MarkVerified(w)

Next == (\E w \in Workers : Step(w)) \/ Crash \/ Ended

Spec == Init /\ [][Next]_vars
=============================================================================
