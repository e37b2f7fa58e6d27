--------------------------- MODULE ProjectionProofs ---------------------------
(***************************************************************************)
(* Why the projections of a run add up, for any run that is whole, passes  *)
(* the quality gate and has the care queue of its incidents (Sound), and   *)
(* wherever the planning model puts its services: the ledger of a case is  *)
(* a sequence whose totals are sums (Adds), the row of a case follows from *)
(* its charges (CostIs, RowIs), and the summaries from the rows.           *)
(*                                                                         *)
(* What the gate does not look at, and the accounts rest on, is said of    *)
(* each case (Settled).  That a run is Sound when it is published, and     *)
(* stays so under live decisions, is shown where those are.                *)
(***************************************************************************)
EXTENDS ExecutiveProjection, TLAPS, FiniteSetTheorems, WellFoundedInduction

-----------------------------------------------------------------------------
(* What an action leaves behind *)

Works ==
  [kind : {"CLEAN_BOOTS", "CPE_SWAP", "PLANT_REPAIR"}, diagnosis : Int, readiness : Int,
   assigned : Int, dispatched : Int, arrived : Int, completed : Int, replacement : Int]
Proofs ==
  [kind : {"last_good_first_bad", "cpe_diagnostic_failed", "cpe_replacement_completed",
           "plant_repair_completion"}, at : Int]
MRs == [created : Int, accepted : Int, completed : Int]

LEMMA NoTimeIsInt == NoTime \in Int /\ \A t \in Int : t >= 0 => t # NoTime
BY SMT DEF NoTime

\* The rows that follow each kind of action, for an action taken at the time at.
Followed(a, at, e) ==
  /\ e.work \in Seq(Works) /\ e.evidence \in Seq(Proofs) /\ e.mr \in Seq(MRs)
  /\ e.post \in Int
  /\ a = "collect_evidence" =>
       e.work = << >> /\ e.evidence = << >> /\ e.mr = << >>
  /\ a = "remote_repair" =>
       e.work = << >> /\ e.evidence = << >> /\ e.mr = << >> /\ e.post = at + Minutes(10)
  /\ a \in {"dispatch_clean", "cpe_swap"} =>
       /\ Len(e.work) = 1 /\ e.mr = << >> /\ e.post = at + Minutes(95)
       /\ e.work[1].diagnosis = at - Minutes(2) \/ e.work[1].diagnosis = at - Minutes(3)
       /\ e.work[1].readiness = at + 1 /\ e.work[1].assigned = at + 2
       /\ e.work[1].dispatched = at + Minutes(5) /\ e.work[1].arrived = at + Minutes(40)
       /\ e.work[1].completed = at + Minutes(90)
  /\ a = "dispatch_clean" =>
       /\ e.work[1].kind = "CLEAN_BOOTS"
       /\ Len(e.evidence) = 1 /\ e.evidence[1].at = at + Minutes(85)
  /\ a = "cpe_swap" =>
       /\ e.work[1].kind = "CPE_SWAP" /\ e.work[1].replacement = at + Minutes(60)
       /\ Len(e.evidence) = 2
       /\ e.evidence[1].kind = "cpe_diagnostic_failed" /\ e.evidence[1].at = at + Minutes(55)
       /\ e.evidence[2].kind = "cpe_replacement_completed" /\ e.evidence[2].at = at + Minutes(85)
  /\ a = "create_mr" =>
       /\ Len(e.work) = 1 /\ Len(e.evidence) = 1 /\ Len(e.mr) = 1 /\ e.post = at + Minutes(115)
       /\ e.work[1].kind = "PLANT_REPAIR"
       /\ e.work[1].diagnosis = at - Minutes(2) \/ e.work[1].diagnosis = at - Minutes(3)
       /\ e.work[1].readiness = at + 1 /\ e.work[1].assigned = at + 2
       /\ e.work[1].dispatched = at + Minutes(10) /\ e.work[1].arrived = at + Minutes(50)
       /\ e.work[1].completed = at + Minutes(110) /\ e.evidence[1].at = at + Minutes(105)
       /\ e.mr[1].created = at + Minutes(2) /\ e.mr[1].accepted = at + Minutes(5) /\ e.mr[1].completed = at + Minutes(112)

LEMMA DownstreamFollows ==
  ASSUME NEW s \in Scenarios, NEW at \in Int, NEW diagnosis \in Int,
         diagnosis = at - Minutes(2) \/ diagnosis = at - Minutes(3)
  PROVE  /\ BestAction(s) \in {"remote_repair", "dispatch_clean", "create_mr",
                               "collect_evidence", "cpe_swap"}
         /\ Restores(s) <=> BestAction(s) # "collect_evidence"
         /\ Followed(BestAction(s), at, Downstream(BestAction(s), at, diagnosis))
<1> DEFINE a == BestAction(s)
           e == Downstream(a, at, diagnosis)
<1>1. /\ a \in {"remote_repair", "dispatch_clean", "create_mr", "collect_evidence", "cpe_swap"}
      /\ Restores(s) <=> a # "collect_evidence"
  BY DEF Scenarios, Restores, BestAction, Policy
<1>2. \A n \in Nat : Minutes(n) \in Nat /\ at + Minutes(n) \in Int
  BY DEF Minutes
<1>3. ~(diagnosis + Minutes(1) > at + 1) /\ (at + 1) + 1 = at + 2 BY DEF Minutes
<1>10. diagnosis = at - Minutes(2) \/ diagnosis = at - Minutes(3)
  OBVIOUS
<1>9. SUFFICES Followed(a, at, e)
  BY <1>1
<1> HIDE DEF a
<1>4. CASE a = "collect_evidence"
  <2>1. e = NothingDone BY <1>4, Zenon DEF Downstream
  <2>2. NothingDone.work = << >> /\ NothingDone.evidence = << >> /\ NothingDone.mr = << >>
        /\ NothingDone.post = NoTime
    BY DEF NothingDone
  <2>3. << >> \in Seq(Works) /\ << >> \in Seq(Proofs) /\ << >> \in Seq(MRs)
    OBVIOUS
  <2> HIDE DEF e
  <2> QED BY <1>4, <2>1, <2>2, <2>3, NoTimeIsInt DEF Followed
<1>5. CASE a = "remote_repair"
  <2>1. e.work = << >> /\ e.evidence = << >> /\ e.mr = << >> /\ e.post = at + Minutes(10)
    BY <1>5, Zenon DEF Downstream, NothingDone
  <2>2. << >> \in Seq(Works) /\ << >> \in Seq(Proofs) /\ << >> \in Seq(MRs)
    OBVIOUS
  <2> HIDE DEF e
  <2> QED BY <1>2, <1>5, <2>1, <2>2 DEF Followed
<1>6. CASE a = "dispatch_clean"
  <2> DEFINE w == WorkOrder("CLEAN_BOOTS", diagnosis, at, at + Minutes(5), at + Minutes(40),
                            at + Minutes(90), NoTime)
             p == [kind |-> "last_good_first_bad", at |-> at + Minutes(85)]
  <2>1. e.work = <<w>> /\ e.evidence = <<p>> /\ e.mr = << >> /\ e.post = at + Minutes(95)
    BY <1>6, Zenon DEF Downstream, NothingDone
  <2>2. /\ w \in Works /\ w.kind = "CLEAN_BOOTS" /\ w.diagnosis = diagnosis
        /\ w.readiness = at + 1 /\ w.assigned = at + 2 /\ w.dispatched = at + Minutes(5)
        /\ w.arrived = at + Minutes(40) /\ w.completed = at + Minutes(90)
    <3>1. w = [kind |-> "CLEAN_BOOTS", diagnosis |-> diagnosis, readiness |-> at + 1,
               assigned |-> at + 2, dispatched |-> at + Minutes(5), arrived |-> at + Minutes(40),
               completed |-> at + Minutes(90), replacement |-> NoTime]
      BY <1>3, Zenon DEF WorkOrder
    <3> HIDE DEF w
    <3>2. /\ at + Minutes(5) \in Int /\ at + Minutes(40) \in Int /\ at + Minutes(90) \in Int
          /\ NoTime \in Int /\ at + 1 \in Int /\ at + 2 \in Int
      BY <1>2, NoTimeIsInt
    <3> QED BY <3>1, <3>2 DEF Works
  <2>3. p \in Proofs /\ p.at = at + Minutes(85)
    BY <1>2 DEF Proofs
  <2> HIDE DEF e, w, p
  <2>4. /\ <<w>> \in Seq(Works) /\ Len(<<w>>) = 1 /\ <<w>>[1] = w
        /\ <<p>> \in Seq(Proofs) /\ Len(<<p>>) = 1 /\ <<p>>[1] = p
        /\ << >> \in Seq(MRs)
    BY <2>2, <2>3
  <2>5. /\ e.work \in Seq(Works) /\ e.evidence \in Seq(Proofs) /\ e.mr \in Seq(MRs)
        /\ e.post \in Int
    BY <1>2, <2>1, <2>4
  <2>6. /\ Len(e.work) = 1 /\ e.mr = << >> /\ e.work[1] = w
    BY <2>1, <2>4
  <2>7. w.diagnosis = at - Minutes(2) \/ w.diagnosis = at - Minutes(3)
    BY <1>10, <2>2
  <2>8. Len(e.evidence) = 1 /\ e.evidence[1] = p
    BY <2>1, <2>4
  <2>9. /\ a \notin {"collect_evidence", "remote_repair", "cpe_swap", "create_mr"}
    BY <1>6
  <2> QED BY <1>6, <2>1, <2>2, <2>3, <2>5, <2>6, <2>7, <2>8, <2>9 DEF Followed
<1>7. CASE a = "cpe_swap"
  <2> DEFINE w == WorkOrder("CPE_SWAP", diagnosis, at, at + Minutes(5), at + Minutes(40),
                            at + Minutes(90), at + Minutes(60))
             p == [kind |-> "cpe_diagnostic_failed", at |-> at + Minutes(55)]
             q == [kind |-> "cpe_replacement_completed", at |-> at + Minutes(85)]
  <2>1. e.work = <<w>> /\ e.evidence = <<p, q>> /\ e.mr = << >> /\ e.post = at + Minutes(95)
    BY <1>7, Zenon DEF Downstream, NothingDone
  <2>2. /\ w \in Works /\ w.kind = "CPE_SWAP" /\ w.diagnosis = diagnosis
        /\ w.readiness = at + 1 /\ w.assigned = at + 2 /\ w.dispatched = at + Minutes(5)
        /\ w.arrived = at + Minutes(40) /\ w.completed = at + Minutes(90)
        /\ w.replacement = at + Minutes(60)
    <3>1. w = [kind |-> "CPE_SWAP", diagnosis |-> diagnosis, readiness |-> at + 1,
               assigned |-> at + 2, dispatched |-> at + Minutes(5), arrived |-> at + Minutes(40),
               completed |-> at + Minutes(90), replacement |-> at + Minutes(60)]
      BY <1>3, Zenon DEF WorkOrder
    <3> HIDE DEF w
    <3>2. /\ at + Minutes(5) \in Int /\ at + Minutes(40) \in Int /\ at + Minutes(90) \in Int
          /\ at + Minutes(60) \in Int /\ at + 1 \in Int /\ at + 2 \in Int
      BY <1>2, NoTimeIsInt
    <3> QED BY <3>1, <3>2 DEF Works
  <2>3. /\ p \in Proofs /\ p.kind = "cpe_diagnostic_failed" /\ p.at = at + Minutes(55)
        /\ q \in Proofs /\ q.kind = "cpe_replacement_completed" /\ q.at = at + Minutes(85)
    BY <1>2 DEF Proofs
  <2> HIDE DEF e, w, p, q
  <2>4. /\ <<w>> \in Seq(Works) /\ Len(<<w>>) = 1 /\ <<w>>[1] = w
        /\ <<p, q>> \in Seq(Proofs) /\ Len(<<p, q>>) = 2 /\ <<p, q>>[1] = p /\ <<p, q>>[2] = q
        /\ << >> \in Seq(MRs)
    BY <2>2, <2>3
  <2>5. /\ e.work \in Seq(Works) /\ e.evidence \in Seq(Proofs) /\ e.mr \in Seq(MRs)
        /\ e.post \in Int
    BY <1>2, <2>1, <2>4
  <2>6. /\ Len(e.work) = 1 /\ e.mr = << >> /\ e.work[1] = w
    BY <2>1, <2>4
  <2>7. w.diagnosis = at - Minutes(2) \/ w.diagnosis = at - Minutes(3)
    BY <1>10, <2>2
  <2>8. Len(e.evidence) = 2 /\ e.evidence[1] = p /\ e.evidence[2] = q
    BY <2>1, <2>4
  <2>9. /\ a \notin {"collect_evidence", "remote_repair", "dispatch_clean", "create_mr"}
    BY <1>7
  <2> QED BY <1>7, <2>1, <2>2, <2>3, <2>5, <2>6, <2>7, <2>8, <2>9 DEF Followed
<1>8. CASE a = "create_mr"
  <2> DEFINE w == WorkOrder("PLANT_REPAIR", diagnosis, at, at + Minutes(10), at + Minutes(50),
                            at + Minutes(110), NoTime)
             p == [kind |-> "plant_repair_completion", at |-> at + Minutes(105)]
             m == [created |-> at + Minutes(2), accepted |-> at + Minutes(5),
                   completed |-> at + Minutes(112)]
  <2>1. e.work = <<w>> /\ e.evidence = <<p>> /\ e.mr = <<m>> /\ e.post = at + Minutes(115)
    BY <1>8, Zenon DEF Downstream, NothingDone
  <2>2. /\ w \in Works /\ w.kind = "PLANT_REPAIR" /\ w.diagnosis = diagnosis
        /\ w.readiness = at + 1 /\ w.assigned = at + 2 /\ w.dispatched = at + Minutes(10)
        /\ w.arrived = at + Minutes(50) /\ w.completed = at + Minutes(110)
    <3>1. w = [kind |-> "PLANT_REPAIR", diagnosis |-> diagnosis, readiness |-> at + 1,
               assigned |-> at + 2, dispatched |-> at + Minutes(10), arrived |-> at + Minutes(50),
               completed |-> at + Minutes(110), replacement |-> NoTime]
      BY <1>3, Zenon DEF WorkOrder
    <3> HIDE DEF w
    <3>2. /\ at + Minutes(10) \in Int /\ at + Minutes(50) \in Int /\ at + Minutes(110) \in Int
          /\ NoTime \in Int /\ at + 1 \in Int /\ at + 2 \in Int
      BY <1>2, NoTimeIsInt
    <3> QED BY <3>1, <3>2 DEF Works
  <2>3. p \in Proofs /\ p.at = at + Minutes(105)
    BY <1>2 DEF Proofs
  <2>4. /\ m \in MRs /\ m.created = at + Minutes(2) /\ m.accepted = at + Minutes(5)
        /\ m.completed = at + Minutes(112)
    BY <1>2 DEF MRs
  <2> HIDE DEF e, w, p, m
  <2>5. /\ <<w>> \in Seq(Works) /\ Len(<<w>>) = 1 /\ <<w>>[1] = w
        /\ <<p>> \in Seq(Proofs) /\ Len(<<p>>) = 1 /\ <<p>>[1] = p
        /\ <<m>> \in Seq(MRs) /\ Len(<<m>>) = 1 /\ <<m>>[1] = m
    BY <2>2, <2>3, <2>4
  <2> QED BY <1>2, <1>10, <1>8, <2>1, <2>2, <2>3, <2>4, <2>5 DEF Followed
<1> QED BY <1>1, <1>4, <1>5, <1>6, <1>7, <1>8

-----------------------------------------------------------------------------
(* A run that is sound *)

Manifests == [scenario : Scenarios, root : Nat, parent : Nat, seq : Nat, at : Int]
Humans ==
  [status : {"PENDING", "APPROVED", "NOT_REQUIRED", "REJECTED", "EVIDENCE_REQUESTED", "ESCALATED"},
   required : BOOLEAN, response : {"none", "approve", "reject", "request_evidence", "escalate"},
   senior : BOOLEAN, decided : Int]
Actions ==
  [status : {"SIMULATED_EXECUTED", "BLOCKED_PENDING_HUMAN", "BLOCKED_NEEDS_EVIDENCE",
             "BLOCKED_ESCALATED"}, at : Int]
Incidents == [status : {"OPEN", "CLOSED"}, opened : Int, resolved : Int, closed : Int,
              repeats : Nat, reopens : Nat]

Datasets == {"scenario_manifests", "agent_decisions", "reconciliation_records",
             "human_decisions", "action_events", "work_orders", "field_evidence", "mrs",
             "telemetry_tr181", "validation_events", "resolution_events", "incidents",
             "care_tickets", "care_ticket_reviews"}

Size(x) == Len(x.scenario_manifests)

\* Every dataset kept per case has a row for every case.
Shape(x) ==
  /\ DOMAIN x = Datasets
  /\ x.scenario_manifests \in Seq(Manifests)
  /\ x.agent_decisions \in Seq(Agents) /\ Len(x.agent_decisions) = Size(x)
  /\ x.reconciliation_records \in Seq(BOOLEAN) /\ Len(x.reconciliation_records) = Size(x)
  /\ x.human_decisions \in Seq(Humans) /\ Len(x.human_decisions) = Size(x)
  /\ x.action_events \in Seq(Actions) /\ Len(x.action_events) = Size(x)
  /\ x.work_orders \in Seq(Seq(Works)) /\ Len(x.work_orders) = Size(x)
  /\ x.field_evidence \in Seq(Seq(Proofs)) /\ Len(x.field_evidence) = Size(x)
  /\ x.mrs \in Seq(Seq(MRs)) /\ Len(x.mrs) = Size(x)
  /\ x.telemetry_tr181 \in Seq(Seq(Int)) /\ Len(x.telemetry_tr181) = Size(x)
  /\ x.validation_events \in Seq(Seq(Int)) /\ Len(x.validation_events) = Size(x)
  /\ x.resolution_events \in Seq(Seq(Int)) /\ Len(x.resolution_events) = Size(x)
  /\ Roots(x) \subseteq Cases(x) /\ x.incidents \in [Roots(x) -> Incidents]

LEMMA SizeIs ==
  ASSUME NEW x, Shape(x)
  PROVE  Size(x) \in Nat /\ Cases(x) = 1..Size(x) /\ Roots(x) \subseteq 1..Size(x)
         /\ \A c \in Cases(x) : Manifest(x, c) \in Manifests
<1>1. x.scenario_manifests \in Seq(Manifests) /\ Roots(x) \subseteq Cases(x)
  BY DEF Shape
<1>2. Size(x) \in Nat /\ Cases(x) = 1..Size(x)
  BY <1>1 DEF Size, Cases
<1>3. \A c \in Cases(x) : Manifest(x, c) \in Manifests
  BY <1>1 DEF Cases, Manifest
<1> QED BY <1>1, <1>2, <1>3

\* A set of numbers that is not empty has a least one: among the intervals below
\* its members one has no other inside.
LEMMA LeastNumber ==
  ASSUME NEW N \in SUBSET Nat, N # {}
  PROVE  \E n \in N : \A m \in N : n <= m
<1> DEFINE below == {0..(n - 1) : n \in N}
<1>1. below \subseteq FiniteSubsetsOf(Int) /\ below # {}
  <2>1. \A n \in N : IsFiniteSet(0..(n - 1)) /\ 0..(n - 1) \in SUBSET Int
    BY FS_Interval
  <2> QED
    BY <2>1 DEF FiniteSubsetsOf
<1>2. PICK x \in below : \A y \in below : ~(<<y, x>> \in StrictSubsetOrdering(Int))
  <2> HIDE DEF below
  <2> QED
    BY <1>1, FS_StrictSubsetOrderingWellFounded, WFMin
<1>3. PICK n \in N : x = 0..(n - 1)
  OBVIOUS
<1>4. ASSUME NEW m \in N, m < n PROVE FALSE
  <2>1. 0..(m - 1) \in below
    OBVIOUS
  <2>2. 0..(m - 1) \subseteq 0..(n - 1) /\ m \in 0..(n - 1) /\ m \notin 0..(m - 1)
    BY <1>4
  <2>3. 0..(m - 1) \in SUBSET Int /\ 0..(n - 1) \in SUBSET Int
    OBVIOUS
  <2>4. <<0..(m - 1), 0..(n - 1)>> \in StrictSubsetOrdering(Int)
    BY <2>2, <2>3 DEF StrictSubsetOrdering
  <2> QED
    BY <1>2, <1>3, <2>1, <2>4
<1> QED
  BY <1>4

\* The care queue is a row per case, a copy of its incident; the incidents a
\* prediction was matched to were opened by the scan, before any case.
CareBuilt(x) ==
  \E S \in SUBSET Roots(x) :
    /\ x.care_tickets = [c \in Cases(x) |->
         [status |-> CareStatus(x.incidents[Manifest(x, c).root]),
          closed |-> x.incidents[Manifest(x, c).root].closed,
          match |-> Manifest(x, c).root \in S]]
    /\ x.care_ticket_reviews =
         [c \in Cases(x) |-> x.incidents[Manifest(x, c).root].status]
    /\ \A r \in S : x.incidents[r].opened = -Minutes(60)

\* The work of a dispatch fits a shift.
Timely(w) ==
  /\ w.arrived - w.dispatched \in {Minutes(35), Minutes(40)}
  /\ w.completed - w.arrived \in {Minutes(50), Minutes(60)}
OneTrip(works, action) ==
  \E w \in Works :
    works = <<w>> /\ Timely(w) /\ (w.kind = "PLANT_REPAIR" <=> action = "create_mr")
Dispatched(x, c) == BestAction(ScenarioOf(x, c)) \in DispatchActions

\* What the accounts rest on and the gate does not check: a case comes
\* after noon of the run's day, a repeat waits for no live decision and hangs on no
\* case that does, and a dispatch is one trip.
Settled(x, c) ==
  LET m == Manifest(x, c)
  IN /\ m.at >= 0
     /\ x.human_decisions[c].status = "PENDING" => m.seq = 0
     /\ m.seq > 0 => x.human_decisions[m.root].status # "PENDING"
     /\ Executed(x, c) /\ Dispatched(x, c) =>
          OneTrip(x.work_orders[c], BestAction(ScenarioOf(x, c)))

\* The datasets are files by name, and an update of them is.
ByName(x) == x = [name \in DOMAIN x |-> x[name]]

LEMMA UpdateIsByName == \A f, k, v : ByName([f EXCEPT ![k] = v])
BY DEF ByName

LEMMA MaterializeIsByName ==
  ASSUME NEW x, NEW c, NEW at, NEW diagnosis
  PROVE  ByName(Materialize(x, c, at, diagnosis))
<1> DEFINE e == Downstream(BestAction(ScenarioOf(x, c)), at, diagnosis)
           done == [x EXCEPT !.work_orders[c] = @ \o e.work,
                             !.field_evidence[c] = @ \o e.evidence,
                             !.mrs[c] = @ \o e.mr]
           full == [done EXCEPT
                      !.telemetry_tr181[c] = Append(@, e.post),
                      !.validation_events[c] = Append(@, e.post + Minutes(10)),
                      !.resolution_events[c] = Append(@, e.post + Minutes(10)),
                      !.incidents[Manifest(x, c).root] = Restored(@, e.post)]
<1>1. Materialize(x, c, at, diagnosis) = done \/ Materialize(x, c, at, diagnosis) = full
  BY DEF Materialize
<1>2. ByName(done)
  BY UpdateIsByName, Zenon
<1>3. ByName(full)
  <2> HIDE DEF done
  <2> QED BY UpdateIsByName, Zenon
<1> QED BY <1>1, <1>2, <1>3

\* The run has all its rows, passes the gate, and its care queue is that of its
\* incidents.
Sound(x) ==
  /\ ByName(x) /\ Shape(x)
  /\ Gate(x)
  /\ CareBuilt(x)
  /\ \A c \in Cases(x) : Settled(x, c)

\* The checks of the gate that are used below.
LEMMA SoundGate ==
  ASSUME NEW x, Sound(x)
  PROVE  /\ Shape(x) /\ CareBuilt(x) /\ RowsAreUnique(x) /\ GraphIsRooted(x)
         /\ IncidentsMatchAttempts(x) /\ ControlsHold(x) /\ BranchIsFollowed(x)
         /\ RestorationIsVerified(x) /\ ClosuresAreLinked(x)
BY DEF Sound, Gate

\* A case opens an incident or repeats one, so the incidents are as many as the
\* cases less the repeats.
LEMMA RootsAreTheRest ==
  ASSUME NEW x, Shape(x), GraphIsRooted(x)
  PROVE  /\ Cardinality(Cases(x)) = Size(x)
         /\ Cardinality(Roots(x)) =
              Size(x) - Cardinality({c \in Cases(x) : Manifest(x, c).seq > 0})
<1> DEFINE T == {c \in Cases(x) : Manifest(x, c).seq > 0}
<1>1. /\ Size(x) \in Nat /\ Cases(x) = 1..Size(x) /\ Roots(x) \subseteq Cases(x)
      /\ \A c \in Cases(x) : Manifest(x, c).seq \in Nat
  BY SizeIs DEF Manifests
<1>2. \A c \in Cases(x) : c \in Roots(x) <=> Manifest(x, c).seq = 0
  <2> SUFFICES ASSUME NEW c \in Cases(x) PROVE c \in Roots(x) <=> Manifest(x, c).seq = 0
    OBVIOUS
  <2>1. /\ Manifest(x, c).root \in Roots(x)
        /\ Manifest(x, c).seq = 0 => Manifest(x, c).root = c
        /\ Manifest(x, c).seq > 0 => c \notin Roots(x)
    BY DEF GraphIsRooted
  <2> QED BY <1>1, <2>1
<1>3. Cases(x) \ T = Roots(x)
  BY <1>1, <1>2
<1>4. Cases(x) \cap T = T
  OBVIOUS
<1>5. IsFiniteSet(Cases(x)) /\ Cardinality(Cases(x)) = Size(x)
  BY <1>1, FS_Interval
<1>6. Cardinality(Cases(x) \ T) = Cardinality(Cases(x)) - Cardinality(Cases(x) \cap T)
  BY <1>5, FS_Difference
<1> QED BY <1>3, <1>4, <1>5, <1>6

-----------------------------------------------------------------------------
(* Sums *)

\* u adds up the first numbers of f.
Sums(u, f, n) == u[0] = 0 /\ \A k \in 1..n : u[k] = u[k - 1] + f[k]

\* Whatever adds f up is its sums.
LEMMA SumsAreUnique ==
  ASSUME NEW n \in Nat, NEW f, NEW u, Sums(u, f, n), NEW v, Sums(v, f, n)
  PROVE  \A k \in 0..n : u[k] = v[k]
<1> DEFINE bad == {k \in 0..n : u[k] # v[k]}
<1> SUFFICES ASSUME bad # {} PROVE FALSE
  OBVIOUS
<1>1. PICK k \in bad : \A m \in bad : k <= m
  <2>1. bad \in SUBSET Nat
    OBVIOUS
  <2> HIDE DEF bad
  <2> QED BY <2>1, LeastNumber
<1>2. k \in 1..n
  BY <1>1 DEF Sums
<1>3. k - 1 \in 0..n /\ k - 1 \notin bad
  BY <1>1, <1>2
<1> QED BY <1>1, <1>2, <1>3 DEF Sums

\* A sequence of numbers can be added up.
LEMMA SumsExist ==
  ASSUME NEW n \in Nat, NEW f \in [1..n -> Int]
  PROVE  \E u \in [0..n -> Int] : Sums(u, f, n)
<1> DEFINE Good(k) == \E u \in [0..k -> Int] : Sums(u, f, k)
           bad == {k \in 0..n : ~Good(k)}
<1> SUFFICES ASSUME bad # {} PROVE FALSE
  <2>1. n \in 0..n
    OBVIOUS
  <2> QED BY <2>1
<1>1. PICK k \in bad : \A m \in bad : k <= m
  <2>1. bad \in SUBSET Nat
    OBVIOUS
  <2> HIDE DEF bad
  <2> QED BY <2>1, LeastNumber
<1>2. k \in 0..n /\ ~Good(k) /\ \A m \in 0..n : m < k => Good(m)
  BY <1>1
<1> HIDE DEF bad
<1>3. CASE k = 0
  <2> DEFINE u == [j \in 0..0 |-> 0]
  <2>1. u \in [0..0 -> Int] /\ Sums(u, f, 0)
    BY DEF Sums
  <2>2. Good(0)
    BY <2>1
  <2> QED BY <1>2, <1>3, <2>2
<1>4. CASE k # 0
  <2>1. k \in 1..n /\ k - 1 \in 0..n /\ k - 1 < k
    BY <1>2, <1>4
  <2>2. Good(k - 1)
    BY <1>2, <2>1
  <2>3. PICK v \in [0..(k - 1) -> Int] : Sums(v, f, k - 1)
    BY <2>2
  <2> DEFINE u == [j \in 0..k |-> IF j = k THEN v[k - 1] + f[k] ELSE v[j]]
  <2>4. u \in [0..k -> Int]
    BY <2>1, <2>3
  <2>5. u[0] = 0
    BY <2>1, <2>3 DEF Sums
  <2>6. \A j \in 1..k : u[j] = u[j - 1] + f[j]
    BY <2>1, <2>3 DEF Sums
  <2> HIDE DEF u
  <2>7. Good(k)
    BY <2>4, <2>5, <2>6 DEF Sums
  <2> QED BY <1>2, <2>7
<1> QED BY <1>3, <1>4

\* The total of a function on 1..n is the last of its sums.
LEMMA TotalIs ==
  ASSUME NEW n \in Nat, NEW f \in [1..n -> Int]
  PROVE  \E u \in [0..n -> Int] : Sums(u, f, n) /\ Total(f) = u[n]
<1> DEFINE upTo[k \in 0..Cardinality(DOMAIN f)] == IF k = 0 THEN 0 ELSE upTo[k - 1] + f[k]
<1>1. Cardinality(DOMAIN f) = n
  BY FS_Interval
<1>2. Total(f) = upTo[Cardinality(DOMAIN f)]
  BY DEF Total
<1>3. upTo = CHOOSE u : u = [k \in 0..Cardinality(DOMAIN f) |-> IF k = 0 THEN 0 ELSE u[k - 1] + f[k]]
  BY Zenon DEF upTo
<1> HIDE DEF upTo
<1>4. upTo = CHOOSE u : u = [k \in 0..n |-> IF k = 0 THEN 0 ELSE u[k - 1] + f[k]]
  BY <1>1, <1>3
<1>5. PICK v \in [0..n -> Int] : Sums(v, f, n)
  BY SumsExist
<1>6. v = [k \in 0..n |-> IF k = 0 THEN 0 ELSE v[k - 1] + f[k]]
  <2>1. \A k \in 0..n : v[k] = IF k = 0 THEN 0 ELSE v[k - 1] + f[k]
    BY <1>5 DEF Sums
  <2>2. v = [k \in 0..n |-> v[k]]
    BY <1>5
  <2> QED BY <2>1, <2>2, Zenon
<1>7. upTo = [k \in 0..n |-> IF k = 0 THEN 0 ELSE upTo[k - 1] + f[k]]
  BY <1>4, <1>6, Zenon
<1>8. Sums(upTo, f, n)
  <2> DEFINE s == [k \in 0..n |-> IF k = 0 THEN 0 ELSE upTo[k - 1] + f[k]]
  <2>1. s[0] = 0 /\ \A k \in 1..n : s[k] = upTo[k - 1] + f[k]
    OBVIOUS
  <2>2. upTo = s
    BY <1>7
  <2> HIDE DEF s
  <2> QED BY <2>1, <2>2 DEF Sums
<1>9. \A k \in 0..n : upTo[k] = v[k]
  BY <1>5, <1>8, SumsAreUnique
<1>10. Total(f) = upTo[n]
  BY <1>1, <1>2, Zenon
<1>11. upTo[n] = v[n]
  <2>1. n \in 0..n OBVIOUS
  <2> QED BY <1>9, <2>1, Zenon
<1> QED BY <1>5, <1>10, <1>11, Zenon

\* A total of nothing, and of one number.
LEMMA TotalOfFew ==
  /\ \A f \in [1..0 -> Int] : Total(f) = 0
  /\ \A f \in [1..1 -> Int] : Total(f) = f[1]
<1>1. ASSUME NEW f \in [1..0 -> Int] PROVE Total(f) = 0
  BY TotalIs DEF Sums
<1>2. ASSUME NEW f \in [1..1 -> Int] PROVE Total(f) = f[1]
  <2>1. PICK u \in [0..1 -> Int] : Sums(u, f, 1) /\ Total(f) = u[1]
    BY TotalIs
  <2>2. u[0] = 0 /\ u[1] = u[0] + f[1]
    BY <2>1 DEF Sums
  <2> QED BY <2>1, <2>2
<1> QED BY <1>1, <1>2

\* A total that counts the members of a set.
LEMMA TotalCounts ==
  ASSUME NEW n \in Nat, NEW A \in SUBSET (1..n)
  PROVE  Total([c \in 1..n |-> IF c \in A THEN 1 ELSE 0]) = Cardinality(A)
<1> DEFINE f == [c \in 1..n |-> IF c \in A THEN 1 ELSE 0]
           S(k) == {c \in A : c <= k}
           v == [k \in 0..n |-> Cardinality(S(k))]
<1>1. f \in [1..n -> Int]
  OBVIOUS
<1>2. PICK u \in [0..n -> Int] : Sums(u, f, n) /\ Total(f) = u[n]
  BY <1>1, TotalIs
<1>0. \A c \in A : c \in 1..n /\ c \in Int
  OBVIOUS
<1>3. IsFiniteSet(A)
  <2>1. IsFiniteSet(1..n) BY FS_Interval
  <2> QED BY <2>1, FS_Subset
<1>4. \A k \in 0..n : IsFiniteSet(S(k)) /\ Cardinality(S(k)) \in Nat
  BY <1>3, FS_Subset, FS_CardinalityType
<1>5. v[0] = 0
  <2>1. S(0) = {}
    <3>1. \A c \in A : ~(c <= 0) BY <1>0
    <3> QED BY <3>1
  <2> QED BY <2>1, FS_EmptySet
<1>6. \A k \in 1..n : v[k] = v[k - 1] + f[k]
  <2> SUFFICES ASSUME NEW k \in 1..n PROVE Cardinality(S(k)) = Cardinality(S(k - 1)) + f[k]
    OBVIOUS
  <2>1. k - 1 \in 0..n /\ k \in 0..n OBVIOUS
  <2>2. CASE k \in A
    <3>1. S(k) = S(k - 1) \union {k} /\ k \notin S(k - 1)
      <4>1. \A c \in A : c <= k <=> c <= k - 1 \/ c = k BY <1>0
      <4>2. ~(k <= k - 1) /\ k <= k OBVIOUS
      <4> QED BY <2>2, <4>1, <4>2, Zenon
    <3>2. Cardinality(S(k - 1) \union {k}) = Cardinality(S(k - 1)) + 1
      BY <1>4, <2>1, <3>1, FS_AddElement
    <3>3. f[k] = 1 BY <2>2
    <3> QED BY <3>1, <3>2, <3>3
  <2>3. CASE k \notin A
    <3>1. S(k) = S(k - 1)
      <4>1. \A c \in A : c <= k <=> c <= k - 1 BY <1>0, <2>3
      <4> QED BY <4>1, Zenon
    <3>2. f[k] = 0 BY <2>3
    <3>3. Cardinality(S(k - 1)) \in Nat BY <1>4, <2>1
    <3> HIDE DEF S, f
    <3> QED BY <3>1, <3>2, <3>3
  <2> QED BY <2>2, <2>3
<1>7. \A k \in 0..n : u[k] = v[k]
  <2>1. Sums(v, f, n)
    <3> HIDE DEF v, f
    <3> QED BY <1>5, <1>6 DEF Sums
  <2> HIDE DEF v, f
  <2> QED BY <1>2, <2>1, SumsAreUnique
<1>8. S(n) = A
  <2>1. \A c \in A : c <= n BY <1>0
  <2> QED BY <2>1, Zenon
<1>9. u[n] = Cardinality(A)
  <2>1. n \in 0..n OBVIOUS
  <2>2. v[n] = Cardinality(S(n)) BY <2>1
  <2> QED BY <1>7, <1>8, <2>1, <2>2, Zenon
<1> QED BY <1>2, <1>9, Zenon

\* What is added up in two parts is the sum of the parts.
LEMMA TotalJoined ==
  ASSUME NEW n \in Nat, NEW m \in Nat, NEW f \in [1..n -> Int], NEW g \in [1..m -> Int],
         NEW h \in [1..(n + m) -> Int],
         \A k \in 1..n : h[k] = f[k], \A k \in 1..m : h[n + k] = g[k]
  PROVE  Total(h) = Total(f) + Total(g)
<1>1. PICK u \in [0..n -> Int] : Sums(u, f, n) /\ Total(f) = u[n]
  BY TotalIs
<1>2. PICK v \in [0..m -> Int] : Sums(v, g, m) /\ Total(g) = v[m]
  BY TotalIs
<1>3. PICK w \in [0..(n + m) -> Int] : Sums(w, h, n + m) /\ Total(h) = w[n + m]
  <2>1. n + m \in Nat OBVIOUS
  <2> QED BY <2>1, TotalIs
<1> DEFINE z == [k \in 0..(n + m) |-> IF k <= n THEN u[k] ELSE u[n] + v[k - n]]
<1>4. z[0] = 0
  BY <1>1 DEF Sums
<1>5. \A k \in 1..(n + m) : z[k] = z[k - 1] + h[k]
  <2> SUFFICES ASSUME NEW k \in 1..(n + m) PROVE z[k] = z[k - 1] + h[k]
    OBVIOUS
  <2>1. k \in 0..(n + m) /\ k - 1 \in 0..(n + m)
    OBVIOUS
  <2>2. CASE k <= n
    <3>1. u[k] = u[k - 1] + f[k] /\ h[k] = f[k]
      BY <1>1, <2>2, SMTT(30) DEF Sums
    <3> QED BY <2>1, <2>2, <3>1
  <2>3. CASE k = n + 1
    <3>1. 1 \in 1..m /\ h[n + 1] = g[1] /\ v[1] = v[1 - 1] + g[1] /\ v[0] = 0
      BY <1>2, <2>3 DEF Sums
    <3>2. z[k] = u[n] + v[1] /\ z[k - 1] = u[n]
      BY <2>1, <2>3
    <3>3. u[n] \in Int /\ v[1] \in Int /\ g[1] \in Int
      BY <3>1
    <3> QED BY <2>3, <3>1, <3>2, <3>3
  <2>4. CASE k > n + 1
    <3>1. k - n \in 1..m /\ k - 1 - n \in 1..m
      BY <2>4
    <3>2. h[n + (k - n)] = g[k - n] /\ v[k - n] = v[(k - n) - 1] + g[k - n]
      BY <1>2, <3>1 DEF Sums
    <3>3. z[k] = u[n] + v[k - n] /\ z[k - 1] = u[n] + v[k - 1 - n]
      BY <2>1, <2>4
    <3>4. u[n] \in Int /\ v[k - n] \in Int /\ v[k - 1 - n] \in Int /\ g[k - n] \in Int
      BY <3>1
    <3>5. n + (k - n) = k /\ (k - n) - 1 = k - 1 - n
      OBVIOUS
    <3>6. h[k] = g[k - n] /\ v[k - n] = v[k - 1 - n] + g[k - n]
      BY <3>2, <3>5, Zenon
    <3> DEFINE a == u[n]
               b == v[k - n]
               c == v[k - 1 - n]
               e == g[k - n]
    <3>7. z[k] = a + b /\ z[k - 1] = a + c /\ h[k] = e /\ b = c + e
          /\ a \in Int /\ b \in Int /\ c \in Int /\ e \in Int
      BY <3>3, <3>4, <3>6
    <3> HIDE DEF z, a, b, c, e
    <3> QED BY <3>7
  <2> QED BY <2>2, <2>3, <2>4
<1>6. Sums(z, h, n + m) /\ n + m \in Nat
  <2> HIDE DEF z
  <2> QED BY <1>4, <1>5 DEF Sums
<1>7. w[n + m] = z[n + m]
  <2> HIDE DEF z
  <2> QED BY <1>3, <1>6, SumsAreUnique
<1>8. z[n + m] = u[n] + v[m]
  <2>1. CASE m = 0
    BY <1>1, <1>2, <2>1 DEF Sums
  <2>2. CASE m # 0
    BY <2>2
  <2> QED BY <2>1, <2>2
<1> QED BY <1>1, <1>2, <1>3, <1>7, <1>8

-----------------------------------------------------------------------------
(* What the lines of a ledger add up to *)

\* The lines of the office, and those of a visit.
Office == {"triage", "RCA", "review", "remote", "evidence", "planning", "handoff_package",
           "handoff_review", "parts", "validation", "closure"}
Visiting == {"travel", "ferry", "on_site", "overnight"}
Roles == {"noc", "l2", "dispatcher", "clean", "dirty", "remote",      \* or what is fitted
          "cpe", "drop", "odp", "tap", "none"}
LedgerLines == [step : Office \union Visiting, role : Roles, minutes : Int, road : Int]
Counting(l, step) == [k \in 1..Len(l) |-> IF l[k].step = step THEN 1 ELSE 0]
Timing(l, steps) == [k \in 1..Len(l) |-> IF l[k].step \in steps THEN l[k].minutes ELSE 0]

\* The lines of a step are counted by a total.
LEMMA StepsAre ==
  ASSUME NEW l \in Seq(LedgerLines), NEW step
  PROVE  /\ Counting(l, step) \in [1..Len(l) -> Int]
         /\ StepsIn(l, step) = Total(Counting(l, step))
<1> DEFINE A == {i \in DOMAIN l : l[i].step = step}
<1>1. Len(l) \in Nat /\ DOMAIN l = 1..Len(l)
  OBVIOUS
<1>2. Counting(l, step) = [c \in 1..Len(l) |-> IF c \in A THEN 1 ELSE 0]
  BY <1>1 DEF Counting
<1>3. A \in SUBSET (1..Len(l))
  BY <1>1
<1>4. Total([c \in 1..Len(l) |-> IF c \in A THEN 1 ELSE 0]) = Cardinality(A)
  <2> HIDE DEF A
  <2> QED BY <1>1, <1>3, TotalCounts
<1>5. Counting(l, step) \in [1..Len(l) -> Int]
  BY DEF Counting
<1> QED BY <1>2, <1>4, <1>5, Zenon DEF StepsIn

\* The minutes of some steps are a total.
LEMMA MinutesAre ==
  ASSUME NEW l \in Seq(LedgerLines), NEW steps
  PROVE  /\ Timing(l, steps) \in [1..Len(l) -> Int]
         /\ MinutesOn(l, steps) = Total(Timing(l, steps))
<1> DEFINE n == Len(l)
           f == Timing(l, steps)
           upTo[k \in 0..Len(l)] ==
             IF k = 0 THEN 0
             ELSE upTo[k - 1] + IF l[k].step \in steps THEN l[k].minutes ELSE 0
<1>1. n \in Nat /\ \A k \in 1..n : l[k] \in LedgerLines
  OBVIOUS
<1>2. \A k \in 1..n : l[k].minutes \in Int
  BY <1>1 DEF LedgerLines
<1>3. f \in [1..n -> Int]
  BY <1>2 DEF Timing
<1>4. PICK v \in [0..n -> Int] : Sums(v, f, n) /\ Total(f) = v[n]
  <2> HIDE DEF f, n
  <2> QED BY <1>1, <1>3, TotalIs
<1>5. MinutesOn(l, steps) = upTo[n]
  BY Zenon DEF MinutesOn
<1>6. upTo = CHOOSE u : u = [k \in 0..n |-> IF k = 0 THEN 0 ELSE u[k - 1]
                               + IF l[k].step \in steps THEN l[k].minutes ELSE 0]
  BY Zenon DEF upTo
<1> HIDE DEF upTo
<1>7. v = [k \in 0..n |-> IF k = 0 THEN 0 ELSE v[k - 1]
                               + IF l[k].step \in steps THEN l[k].minutes ELSE 0]
  <2>1. \A k \in 0..n : v[k] = IF k = 0 THEN 0 ELSE v[k - 1]
                               + IF l[k].step \in steps THEN l[k].minutes ELSE 0
    BY <1>1, <1>4 DEF Sums, Timing
  <2>2. v = [k \in 0..n |-> v[k]]
    BY <1>4
  <2> QED BY <2>1, <2>2, Zenon
<1>8. upTo = [k \in 0..n |-> IF k = 0 THEN 0 ELSE upTo[k - 1]
                               + IF l[k].step \in steps THEN l[k].minutes ELSE 0]
  BY <1>6, <1>7, Zenon
<1>9. Sums(upTo, f, n)
  <2> DEFINE s == [k \in 0..n |-> IF k = 0 THEN 0 ELSE upTo[k - 1]
                               + IF l[k].step \in steps THEN l[k].minutes ELSE 0]
  <2>1. s[0] = 0 /\ \A k \in 1..n : s[k] = upTo[k - 1] + f[k]
    BY <1>1 DEF Timing
  <2>2. upTo = s
    BY <1>8
  <2> HIDE DEF s, f
  <2> QED BY <2>1, <2>2 DEF Sums
<1>10. upTo[n] = v[n]
  <2> HIDE DEF f
  <2> QED BY <1>1, <1>4, <1>9, SumsAreUnique
<1> QED BY <1>3, <1>4, <1>5, <1>10, Zenon

\* What two pieces of a ledger come to is the sum of the pieces.
LEMMA LedgersJoined ==
  ASSUME NEW p \in Seq(LedgerLines), NEW q \in Seq(LedgerLines)
  PROVE  /\ p \o q \in Seq(LedgerLines)
         /\ \A step : StepsIn(p \o q, step) = StepsIn(p, step) + StepsIn(q, step)
         /\ \A steps : MinutesOn(p \o q, steps) = MinutesOn(p, steps) + MinutesOn(q, steps)
<1> DEFINE n == Len(p)
           m == Len(q)
           r == p \o q
<1>1. /\ n \in Nat /\ m \in Nat /\ r \in Seq(LedgerLines) /\ Len(r) = n + m
      /\ \A k \in 1..n : r[k] = p[k]
      /\ \A k \in 1..m : r[n + k] = q[k]
  OBVIOUS
<1>2. /\ \A k \in 1..n : k \in 1..(n + m)
      /\ \A k \in 1..m : n + k \in 1..(n + m)
  BY <1>1
<1> HIDE DEF r, n, m
<1>3. ASSUME NEW step PROVE StepsIn(r, step) = StepsIn(p, step) + StepsIn(q, step)
  <2> DEFINE f == Counting(p, step)
             g == Counting(q, step)
             h == Counting(r, step)
  <2>1. /\ f \in [1..n -> Int] /\ g \in [1..m -> Int] /\ h \in [1..(n + m) -> Int]
        /\ StepsIn(p, step) = Total(f) /\ StepsIn(q, step) = Total(g)
        /\ StepsIn(r, step) = Total(h)
    BY <1>1, StepsAre DEF n, m
  <2>2. \A k \in 1..n : h[k] = f[k]
    BY <1>1, <1>2 DEF Counting, n, m
  <2>3. \A k \in 1..m : h[n + k] = g[k]
    BY <1>1, <1>2 DEF Counting, n, m
  <2> HIDE DEF f, g, h
  <2>4. n \in Nat /\ m \in Nat
    BY <1>1
  <2>5. Total(h) = Total(f) + Total(g)
    BY <2>1, <2>2, <2>3, <2>4, TotalJoined
  <2> QED BY <2>1, <2>5
<1>4. ASSUME NEW steps PROVE MinutesOn(r, steps) = MinutesOn(p, steps) + MinutesOn(q, steps)
  <2> DEFINE f == Timing(p, steps)
             g == Timing(q, steps)
             h == Timing(r, steps)
  <2>1. /\ f \in [1..n -> Int] /\ g \in [1..m -> Int] /\ h \in [1..(n + m) -> Int]
        /\ MinutesOn(p, steps) = Total(f) /\ MinutesOn(q, steps) = Total(g)
        /\ MinutesOn(r, steps) = Total(h)
    BY <1>1, MinutesAre DEF n, m
  <2>2. \A k \in 1..n : h[k] = f[k]
    BY <1>1, <1>2 DEF Timing, n, m
  <2>3. \A k \in 1..m : h[n + k] = g[k]
    BY <1>1, <1>2 DEF Timing, n, m
  <2> HIDE DEF f, g, h
  <2>4. n \in Nat /\ m \in Nat
    BY <1>1
  <2>5. Total(h) = Total(f) + Total(g)
    BY <2>1, <2>2, <2>3, <2>4, TotalJoined
  <2> QED BY <2>1, <2>5
<1> QED BY <1>1, <1>3, <1>4 DEF r

\* What a piece of a ledger adds: truck rolls, minutes on the road and on site,
\* ferries and overnight stays.
Adds(p, rolls, minutes, ferries, overnights) ==
  /\ p \in Seq(LedgerLines)
  /\ rolls \in Int /\ minutes \in Int /\ ferries \in Int /\ overnights \in Int
  /\ StepsIn(p, "on_site") = rolls
  /\ MinutesOn(p, Crewed) = minutes
  /\ StepsIn(p, "ferry") = ferries
  /\ StepsIn(p, "overnight") = overnights

LEMMA JoinedAdds ==
  ASSUME NEW p, NEW q, NEW a, NEW b, NEW c, NEW e, NEW i, NEW j, NEW k, NEW l,
         Adds(p, a, b, c, e), Adds(q, i, j, k, l)
  PROVE  Adds(p \o q, a + i, b + j, c + k, e + l)
BY LedgersJoined DEF Adds

LEMMA OneLine ==
  ASSUME NEW line \in LedgerLines
  PROVE  /\ <<line>> \in Seq(LedgerLines)
         /\ \A step : StepsIn(<<line>>, step) = IF line.step = step THEN 1 ELSE 0
         /\ \A steps : MinutesOn(<<line>>, steps) = IF line.step \in steps THEN line.minutes ELSE 0
<1> DEFINE p == <<line>>
<1>1. p \in Seq(LedgerLines) /\ Len(p) = 1 /\ p[1] = line /\ 1 \in 1..1
  OBVIOUS
<1> HIDE DEF p
<1>2. ASSUME NEW step PROVE StepsIn(p, step) = IF line.step = step THEN 1 ELSE 0
  <2>1. Counting(p, step) \in [1..1 -> Int] /\ StepsIn(p, step) = Total(Counting(p, step))
    BY <1>1, StepsAre
  <2>2. Counting(p, step)[1] = IF line.step = step THEN 1 ELSE 0
    BY <1>1 DEF Counting
  <2> QED BY <2>1, <2>2, TotalOfFew
<1>3. ASSUME NEW steps PROVE MinutesOn(p, steps) = IF line.step \in steps THEN line.minutes ELSE 0
  <2>1. Timing(p, steps) \in [1..1 -> Int] /\ MinutesOn(p, steps) = Total(Timing(p, steps))
    BY <1>1, MinutesAre
  <2>2. Timing(p, steps)[1] = IF line.step \in steps THEN line.minutes ELSE 0
    BY <1>1 DEF Timing
  <2> QED BY <2>1, <2>2, TotalOfFew
<1> QED BY <1>1, <1>2, <1>3 DEF p

LEMMA NoLine == Adds(<< >>, 0, 0, 0, 0)
<1> DEFINE p == << >>
<1>1. p \in Seq(LedgerLines) /\ Len(p) = 0
  OBVIOUS
<1> HIDE DEF p
<1>2. \A step : StepsIn(p, step) = 0
  <2> TAKE step
  <2>1. Counting(p, step) \in [1..0 -> Int] /\ StepsIn(p, step) = Total(Counting(p, step))
    BY <1>1, StepsAre
  <2> QED BY <2>1, TotalOfFew
<1>3. \A steps : MinutesOn(p, steps) = 0
  <2> TAKE steps
  <2>1. Timing(p, steps) \in [1..0 -> Int] /\ MinutesOn(p, steps) = Total(Timing(p, steps))
    BY <1>1, MinutesAre
  <2> QED BY <2>1, TotalOfFew
<1>4. 0 \in Int
  OBVIOUS
<1> QED BY <1>1, <1>2, <1>3, <1>4, Zenon DEF Adds, p

\* The lines of the office add nothing to these.
LEMMA LineAdds ==
  ASSUME NEW role \in Roles, NEW minutes \in Int, NEW road \in Int
  PROVE  /\ \A step \in Office : Adds(<<Line(step, role, minutes, road)>>, 0, 0, 0, 0)
         /\ Adds(<<Line("travel", role, minutes, road)>>, 0, minutes, 0, 0)
         /\ Adds(<<Line("on_site", role, minutes, road)>>, 1, minutes, 0, 0)
         /\ Adds(<<Line("ferry", role, minutes, road)>>, 0, 0, 1, 0)
         /\ Adds(<<Line("overnight", role, minutes, road)>>, 0, 0, 0, 1)
<1>1. ASSUME NEW step \in Office \union Visiting
      PROVE  LET l == Line(step, role, minutes, road)
             IN l \in LedgerLines /\ l.step = step /\ l.minutes = minutes
  BY DEF Line, LedgerLines
<1>2. ASSUME NEW step \in Office \union Visiting
      PROVE  Adds(<<Line(step, role, minutes, road)>>,
                  IF step = "on_site" THEN 1 ELSE 0, IF step \in Crewed THEN minutes ELSE 0,
                  IF step = "ferry" THEN 1 ELSE 0, IF step = "overnight" THEN 1 ELSE 0)
  <2> DEFINE l == Line(step, role, minutes, road)
             a == IF step = "on_site" THEN 1 ELSE 0
             b == IF step \in Crewed THEN minutes ELSE 0
             c == IF step = "ferry" THEN 1 ELSE 0
             e == IF step = "overnight" THEN 1 ELSE 0
  <2>1. l \in LedgerLines /\ l.step = step /\ l.minutes = minutes
    BY <1>1
  <2> HIDE DEF l
  <2>2. /\ <<l>> \in Seq(LedgerLines)
        /\ \A z : StepsIn(<<l>>, z) = IF step = z THEN 1 ELSE 0
        /\ \A z : MinutesOn(<<l>>, z) = IF step \in z THEN minutes ELSE 0
    BY <2>1, OneLine
  <2>3. a \in Int /\ b \in Int /\ c \in Int /\ e \in Int
    OBVIOUS
  <2>4. Adds(<<l>>, a, b, c, e)
    BY <2>2, <2>3, Zenon DEF Adds
  <2> QED BY <2>4 DEF l
<1>3. ASSUME NEW step \in Office PROVE Adds(<<Line(step, role, minutes, road)>>, 0, 0, 0, 0)
  <2>1. step \in Office \union Visiting /\ step \notin Visiting
    BY DEF Office, Visiting
  <2>2. step \notin Crewed /\ step # "on_site" /\ step # "ferry" /\ step # "overnight"
    BY <2>1 DEF Visiting, Crewed
  <2> QED BY <1>2, <2>1, <2>2
<1>4. Visiting \subseteq Office \union Visiting /\ "travel" \in Visiting /\ "on_site" \in Visiting
      /\ "ferry" \in Visiting /\ "overnight" \in Visiting
      /\ "travel" \in Crewed /\ "on_site" \in Crewed /\ "ferry" \notin Crewed
      /\ "overnight" \notin Crewed
  BY DEF Visiting, Crewed
<1>5. Adds(<<Line("travel", role, minutes, road)>>, 0, minutes, 0, 0)
  BY <1>2, <1>4
<1>6. Adds(<<Line("on_site", role, minutes, road)>>, 1, minutes, 0, 0)
  BY <1>2, <1>4
<1>7. Adds(<<Line("ferry", role, minutes, road)>>, 0, 0, 1, 0)
  BY <1>2, <1>4
<1>8. Adds(<<Line("overnight", role, minutes, road)>>, 0, 0, 0, 1)
  BY <1>2, <1>4
<1> QED BY <1>3, <1>5, <1>6, <1>7, <1>8

\* A line that is there under a condition.
LEMMA LinesAdd ==
  ASSUME NEW role \in Roles, NEW on \in BOOLEAN, NEW n, n = IF on THEN 1 ELSE 0
  PROVE  /\ \A step \in Office, minutes \in Int :
              Adds(Lines(on, Line(step, role, minutes, 0)), 0, 0, 0, 0)
         /\ Adds(Lines(on, Line("ferry", role, 0, 0)), 0, 0, n, 0)
         /\ Adds(Lines(on, Line("overnight", role, 0, 0)), 0, 0, 0, n)
<1>1. CASE on
  <2>1. n = 1 /\ \A l : Lines(on, l) = <<l>>
    BY <1>1 DEF Lines
  <2>2. 0 \in Int
    OBVIOUS
  <2>3. /\ \A step \in Office, minutes \in Int : Adds(<<Line(step, role, minutes, 0)>>, 0, 0, 0, 0)
        /\ Adds(<<Line("ferry", role, 0, 0)>>, 0, 0, 1, 0)
        /\ Adds(<<Line("overnight", role, 0, 0)>>, 0, 0, 0, 1)
    BY <2>2, LineAdds, Zenon
  <2> QED BY <2>1, <2>3
<1>2. CASE ~on
  <2>1. n = 0 /\ \A l : Lines(on, l) = << >>
    BY <1>2 DEF Lines
  <2> QED BY <2>1, NoLine
<1> QED BY <1>1, <1>2

\* A visit is one truck roll, charged there and back and on site.
LEMMA VisitAdds ==
  ASSUME NEW crew \in Roles, NEW v, v.oneWay \in Int, v.onSite \in Int, v.road \in Int,
         v.ferry \in BOOLEAN, v.overnight \in BOOLEAN
  PROVE  Adds(VisitLines(crew, v), 1, 2 * v.oneWay + v.onSite,
              IF v.ferry THEN 1 ELSE 0, IF v.overnight THEN 1 ELSE 0)
<1> DEFINE f == IF v.ferry THEN 1 ELSE 0
           o == IF v.overnight THEN 1 ELSE 0
           a == Line("planning", "dispatcher", Durations.planning, 0)
           b == Line("travel", crew, 2 * v.oneWay, 2 * v.road)
           p == Lines(v.ferry, Line("ferry", crew, 0, 0))
           c == <<Line("on_site", crew, v.onSite, 0)>>
           q == Lines(v.overnight, Line("overnight", crew, 0, 0))
<1>1. Adds(<<a>>, 0, 0, 0, 0)
  <2>1. Durations.planning \in Int BY DEF Durations
  <2>2. "planning" \in Office BY DEF Office
  <2>3. 0 \in Int /\ "dispatcher" \in Roles BY DEF Roles
  <2> QED BY <2>1, <2>2, <2>3, LineAdds
<1>2. Adds(<<b>>, 0, 2 * v.oneWay, 0, 0)
  <2>1. 2 * v.oneWay \in Int /\ 2 * v.road \in Int OBVIOUS
  <2> QED BY <2>1, LineAdds, Zenon
<1>3. Adds(p, 0, 0, f, 0)
  BY LinesAdd
<1>4. Adds(c, 1, v.onSite, 0, 0)
  <2>1. 0 \in Int OBVIOUS
  <2> QED BY <2>1, LineAdds
<1>5. Adds(q, 0, 0, 0, o)
  BY LinesAdd
<1>6. f \in Int /\ o \in Int /\ 2 * v.oneWay \in Int /\ <<a, b>> = <<a>> \o <<b>>
  OBVIOUS
<1>7. VisitLines(crew, v) = ((<<a, b>> \o p) \o c) \o q
  BY Zenon DEF VisitLines
<1> DEFINE t == 2 * v.oneWay
<1> HIDE DEF a, b, c, p, q, f, o
<1>8. Adds(<<a, b>>, 0, t, 0, 0)
  <2>1. Adds(<<a>> \o <<b>>, 0 + 0, 0 + t, 0 + 0, 0 + 0)
    BY <1>1, <1>2, JoinedAdds
  <2>2. t \in Int /\ <<a, b>> = <<a>> \o <<b>> BY <1>6
  <2> HIDE DEF t
  <2>3. 0 + t = t /\ 0 + 0 = 0 BY <2>2
  <2> QED BY <2>1, <2>2, <2>3, Zenon
<1>9. Adds(<<a, b>> \o p, 0, t, f, 0)
  <2>1. Adds(<<a, b>> \o p, 0 + 0, t + 0, 0 + f, 0 + 0)
    BY <1>3, <1>8, JoinedAdds
  <2>2. t + 0 = t /\ 0 + f = f BY <1>6
  <2> QED BY <2>1, <2>2
<1>10. Adds((<<a, b>> \o p) \o c, 1, t + v.onSite, f, 0)
  <2>1. Adds((<<a, b>> \o p) \o c, 0 + 1, t + v.onSite, f + 0, 0 + 0)
    BY <1>4, <1>9, JoinedAdds
  <2>2. f + 0 = f BY <1>6
  <2> QED BY <2>1, <2>2
<1>11. Adds(((<<a, b>> \o p) \o c) \o q, 1, t + v.onSite, f, o)
  <2>1. Adds(((<<a, b>> \o p) \o c) \o q, 1 + 0, (t + v.onSite) + 0, f + 0, 0 + o)
    BY <1>5, <1>10, JoinedAdds
  <2>2. f + 0 = f /\ 0 + o = o /\ (t + v.onSite) + 0 = t + v.onSite BY <1>6
  <2> QED BY <2>1, <2>2
<1> QED BY <1>7, <1>11 DEF f, o

-----------------------------------------------------------------------------
(* The ledger of a case *)

CrewOf(x, c) == Crew(BestAction(ScenarioOf(x, c)), x.work_orders[c])

\* A dispatch leaves one work order, inside a shift, and nothing else does.
LEMMA FollowedWork ==
  ASSUME NEW b \in {"remote_repair", "dispatch_clean", "create_mr", "collect_evidence", "cpe_swap"},
         NEW at \in Int, NEW e, Followed(b, at, e)
  PROVE  /\ b \in DispatchActions => OneTrip(e.work, b)
         /\ b \notin DispatchActions => e.work = << >>
<1>1. CASE b \in {"remote_repair", "collect_evidence"}
  BY <1>1 DEF Followed, DispatchActions
<1>2. CASE b \in {"dispatch_clean", "cpe_swap", "create_mr"}
  <2> DEFINE w == e.work[1]
  <2>1. e.work \in Seq(Works) /\ Len(e.work) = 1
    BY <1>2, Zenon DEF Followed
  <2>2. w \in Works /\ e.work = <<w>>
    BY <2>1
  <2>3. /\ b \in {"dispatch_clean", "cpe_swap"} =>
             /\ w.dispatched = at + Minutes(5) /\ w.arrived = at + Minutes(40)
             /\ w.completed = at + Minutes(90)
        /\ b = "create_mr" =>
             /\ w.dispatched = at + Minutes(10) /\ w.arrived = at + Minutes(50)
             /\ w.completed = at + Minutes(110) /\ w.kind = "PLANT_REPAIR"
        /\ b = "dispatch_clean" => w.kind = "CLEAN_BOOTS"
        /\ b = "cpe_swap" => w.kind = "CPE_SWAP"
    BY Zenon DEF Followed
  <2>4. w.kind = "PLANT_REPAIR" <=> b = "create_mr"
    BY <1>2, <2>3
  <2> HIDE DEF w
  <2>5. Timely(w)
    BY <1>2, <2>3 DEF Timely, Minutes
  <2> QED BY <1>2, <2>2, <2>4, <2>5 DEF DispatchActions, OneTrip
<1> QED BY <1>1, <1>2

\* The rows of a case, as the datasets have them.
LEMMA CaseTyped ==
  ASSUME NEW x, Shape(x), NEW c \in Cases(x)
  PROVE  /\ x.human_decisions[c] \in Humans /\ x.action_events[c] \in Actions
         /\ x.reconciliation_records[c] \in BOOLEAN
         /\ x.work_orders[c] \in Seq(Works) /\ x.mrs[c] \in Seq(MRs)
         /\ ScenarioOf(x, c) \in Scenarios
<1>1. c \in 1..Size(x) /\ Size(x) \in Nat /\ Manifest(x, c) \in Manifests
  BY SizeIs
<1>2. x.human_decisions[c] \in Humans
  <2>1. x.human_decisions \in Seq(Humans) /\ Len(x.human_decisions) = Size(x)
    BY DEF Shape
  <2> QED BY <1>1, <2>1
<1>3. x.action_events[c] \in Actions
  <2>1. x.action_events \in Seq(Actions) /\ Len(x.action_events) = Size(x)
    BY DEF Shape
  <2> QED BY <1>1, <2>1
<1>4. x.reconciliation_records[c] \in BOOLEAN
  <2>1. x.reconciliation_records \in Seq(BOOLEAN) /\ Len(x.reconciliation_records) = Size(x)
    BY DEF Shape
  <2> QED BY <1>1, <2>1
<1>5. x.work_orders[c] \in Seq(Works)
  <2>1. x.work_orders \in Seq(Seq(Works)) /\ Len(x.work_orders) = Size(x)
    BY DEF Shape
  <2> QED BY <1>1, <2>1
<1>6. x.mrs[c] \in Seq(MRs)
  <2>1. x.mrs \in Seq(Seq(MRs)) /\ Len(x.mrs) = Size(x)
    BY DEF Shape
  <2> QED BY <1>1, <2>1
<1>7. ScenarioOf(x, c) \in Scenarios
  BY <1>1 DEF Manifests, ScenarioOf
<1> QED BY <1>2, <1>3, <1>4, <1>5, <1>6, <1>7

\* What was not executed left nothing, and what waits was not executed.
LEMMA ControlIs ==
  ASSUME NEW x, Sound(x), NEW c \in Cases(x)
  PROVE  /\ ~Executed(x, c) => Unworked(x, c)
         /\ x.human_decisions[c].status = "PENDING" =>
              ~Executed(x, c) /\ x.reconciliation_records[c] = TRUE
<1> DEFINE human == x.human_decisions[c]
           action == x.action_events[c]
           needed == x.reconciliation_records[c]
<1>1. /\ needed \in BOOLEAN
      /\ action.status \in {"SIMULATED_EXECUTED", "BLOCKED_PENDING_HUMAN",
                             "BLOCKED_NEEDS_EVIDENCE", "BLOCKED_ESCALATED"}
  <2>1. action \in Actions /\ needed \in BOOLEAN
    BY CaseTyped, SoundGate
  <2> HIDE DEF action, needed
  <2> QED BY <2>1 DEF Actions
<1>2. (CASE action.status = "BLOCKED_PENDING_HUMAN" ->
              /\ human.status = "PENDING" /\ human.required /\ needed
              /\ Unworked(x, c)
        [] action.status = "SIMULATED_EXECUTED" ->
             IF needed
             THEN /\ human.status = "APPROVED" /\ human.response = "approve" /\ human.required
                  /\ human.decided # NoTime /\ human.decided <= action.at
             ELSE human.status = "NOT_REQUIRED" /\ ~human.required
        [] action.status = "BLOCKED_NEEDS_EVIDENCE" ->
             /\ human.status = "EVIDENCE_REQUESTED" /\ human.response = "request_evidence"
             /\ Unworked(x, c)
        [] action.status = "BLOCKED_ESCALATED" ->
             /\ human.status \in {"ESCALATED", "REJECTED"}
             /\ human.response \in {"escalate", "reject"}
             /\ Unworked(x, c)
        [] OTHER -> FALSE)
  BY SoundGate, Zenon DEF ControlsHold
<1> HIDE DEF human, action, needed
<1>3. /\ action.status = "BLOCKED_PENDING_HUMAN" => needed /\ Unworked(x, c)
      /\ action.status = "SIMULATED_EXECUTED" => human.status \in {"APPROVED", "NOT_REQUIRED"}
      /\ action.status = "BLOCKED_NEEDS_EVIDENCE" =>
           human.status = "EVIDENCE_REQUESTED" /\ Unworked(x, c)
      /\ action.status = "BLOCKED_ESCALATED" =>
           human.status \in {"ESCALATED", "REJECTED"} /\ Unworked(x, c)
  BY <1>2
<1>4. /\ action.status # "SIMULATED_EXECUTED" => Unworked(x, c)
      /\ human.status = "PENDING" => action.status # "SIMULATED_EXECUTED" /\ needed = TRUE
  BY <1>1, <1>3
<1> QED BY <1>4 DEF human, action, needed, Executed

\* What the ledger reads of a case.
LEMMA CaseFacts ==
  ASSUME NEW x, Sound(x), NEW c \in Cases(x)
  PROVE  /\ ScenarioOf(x, c) \in Scenarios
         /\ BestAction(ScenarioOf(x, c)) \in
              {"remote_repair", "dispatch_clean", "create_mr", "collect_evidence", "cpe_swap"}
         /\ x.human_decisions[c].required \in BOOLEAN
         /\ ~Executed(x, c) =>
              ~Restoration(x, c) /\ ~Validated(x, c) /\ x.work_orders[c] = << >>
         /\ Executed(x, c) =>
              /\ x.human_decisions[c].status # "PENDING"
              /\ Dispatched(x, c) => OneTrip(x.work_orders[c], BestAction(ScenarioOf(x, c)))
              /\ ~Dispatched(x, c) => x.work_orders[c] = << >>
              /\ Restoration(x, c) <=> BestAction(ScenarioOf(x, c)) # "collect_evidence"
         /\ Validated(x, c) <=> Restoration(x, c)
<1> DEFINE b == BestAction(ScenarioOf(x, c))
<1>1. /\ ScenarioOf(x, c) \in Scenarios /\ x.human_decisions[c].required \in BOOLEAN
      /\ x.work_orders[c] \in Seq(Works)
  BY CaseTyped, SoundGate DEF Humans
<1>2. b \in {"remote_repair", "dispatch_clean", "create_mr", "collect_evidence", "cpe_swap"}
  BY <1>1 DEF Scenarios, BestAction, Policy
<1>3. CASE ~Executed(x, c)
  <2>1. ~Restoration(x, c) /\ ~Validated(x, c) /\ x.work_orders[c] = << >>
    BY <1>3, ControlIs, Zenon DEF Unworked, Restoration, Validated
  <2> HIDE DEF b
  <2> QED BY <1>1, <1>2, <1>3, <2>1, Zenon DEF b
<1>4. CASE Executed(x, c)
  <2>1. x.human_decisions[c].status # "PENDING"
    BY <1>4, ControlIs
  <2>2. Dispatched(x, c) => OneTrip(x.work_orders[c], b)
    BY <1>4 DEF Sound, Settled
  <2>3. ~Dispatched(x, c) => x.work_orders[c] = << >>
    <3>1. b \in {"remote_repair", "collect_evidence"} => Len(x.work_orders[c]) = 0
      BY <1>4, SoundGate, Zenon DEF BranchIsFollowed
    <3>2. Dispatched(x, c) <=> b \in DispatchActions
      BY DEF Dispatched
    <3> HIDE DEF b
    <3>3. ~Dispatched(x, c) => b \in {"remote_repair", "collect_evidence"}
      BY <1>2, <3>2 DEF DispatchActions
    <3> QED BY <1>1, <3>1, <3>3
  <2>4. IF b = "collect_evidence"
        THEN x.resolution_events[c] = << >> /\ x.validation_events[c] = << >>
        ELSE x.resolution_events[c] # << >> /\ x.validation_events[c] # << >>
    BY <1>4, SoundGate, Zenon DEF RestorationIsVerified
  <2> HIDE DEF b
  <2>5. /\ Restoration(x, c) <=> b # "collect_evidence"
        /\ Validated(x, c) <=> Restoration(x, c)
    BY <2>4, Zenon DEF Restoration, Validated
  <2> QED BY <1>1, <1>2, <1>4, <2>1, <2>2, <2>3, <2>5, Zenon DEF b
<1> QED BY <1>3, <1>4

PlanningPlaces ==
  [minutes : Nat, road : Nat, ferry : BOOLEAN, island : BOOLEAN, family : {"HFC", "PON"}]

\* What an order says of its own cost.
Spent(w) == Whole(2 * (w.arrived - w.dispatched) + w.completed - w.arrived)

\* The charges of a work order are the minutes between its own times.
LEMMA EconomicsAre ==
  ASSUME NEW w \in Works, Timely(w), NEW place \in PlanningPlaces
  PROVE  LET v == Economics(w, place)
         IN /\ v.oneWay \in Int /\ v.onSite \in Int /\ v.road \in Int
            /\ v.ferry = place.island /\ v.overnight = FALSE
            /\ 2 * v.oneWay + v.onSite = Spent(w)
<1> DEFINE v == Economics(w, place)
           a == w.arrived - w.dispatched
           b == w.completed - w.arrived
<1>1. w.arrived \in Int /\ w.dispatched \in Int /\ w.completed \in Int
  BY DEF Works
<1>2. a \in {70, 80} /\ b \in {100, 120}
  BY DEF Timely, Minutes
<1>3. Spent(w) = Whole(2 * a + b)
  <2>1. 2 * (w.arrived - w.dispatched) + w.completed - w.arrived = 2 * a + b
    BY <1>1
  <2> QED BY <2>1, Zenon DEF Spent
<1>4. v = [oneWay |-> Whole(a), onSite |-> Whole(b), road |-> Whole(a), ferry |-> place.island,
           overnight |-> 2 * Whole(a) + Whole(b) > Shift]
  BY Zenon DEF Economics
<1> HIDE DEF v, a, b
<1>5. /\ Whole(a) \in {35, 40} /\ Whole(b) \in {50, 60} /\ Whole(2 * a + b) = 2 * Whole(a) + Whole(b)
  BY <1>2 DEF Whole, Minutes
<1>6. (2 * Whole(a) + Whole(b) > Shift) = FALSE
  BY <1>5 DEF Shift
<1>7. Whole(a) \in Int /\ Whole(b) \in Int
  BY <1>5
<1>8. v.oneWay = Whole(a) /\ v.onSite = Whole(b) /\ v.road = Whole(a) /\ v.ferry = place.island
      /\ v.overnight = FALSE
  BY <1>4, <1>6
<1> QED BY <1>3, <1>5, <1>7, <1>8 DEF v

\* The visit a dispatch is charged for.
VisitOf(x, c, place) ==
  IF Executed(x, c) THEN Economics(x.work_orders[c][1], place)
  ELSE Planned(CrewOf(x, c), x.work_orders[c], place)

\* A dispatch is charged one visit: of its order if executed, of the plan if not.
LEMMA VisitsAre ==
  ASSUME NEW x, Sound(x), NEW c \in Cases(x), Dispatched(x, c)
  PROVE  /\ CrewOf(x, c) = IF BestAction(ScenarioOf(x, c)) = "create_mr" THEN "dirty" ELSE "clean"
         /\ \A place : Visits(x, c, place) = <<VisitOf(x, c, place)>>
         /\ \A place \in PlanningPlaces :
              LET v == VisitOf(x, c, place)
              IN /\ v.oneWay \in Int /\ v.onSite \in Int /\ v.road \in Int
                 /\ v.ferry = IF Executed(x, c) THEN place.island ELSE place.ferry
                 /\ Executed(x, c) => v.overnight = FALSE
                 /\ v.overnight \in BOOLEAN
<1> DEFINE b == BestAction(ScenarioOf(x, c))
           works == x.work_orders[c]
           crew == Crew(b, works)
<1>1. /\ b \in {"dispatch_clean", "create_mr", "cpe_swap"}
      /\ Executed(x, c) => OneTrip(works, b)
      /\ ~Executed(x, c) => works = << >>
  <2>1. b \in DispatchActions
    BY DEF Dispatched
  <2> QED BY <2>1, CaseFacts DEF DispatchActions
<1>2. \A place : Visits(x, c, place) =
        IF Executed(x, c) /\ works # << >>
        THEN [i \in DOMAIN works |-> Economics(works[i], place)]
        ELSE <<Planned(crew, works, place)>>
  BY Zenon DEF Visits
<1>3. \A place : VisitOf(x, c, place) = IF Executed(x, c) THEN Economics(works[1], place)
                                        ELSE Planned(crew, works, place)
  BY Zenon DEF VisitOf, CrewOf
<1>4. crew = CrewOf(x, c)
  BY DEF CrewOf
<1>5. CASE Executed(x, c)
  <2>1. PICK w \in Works : works = <<w>> /\ Timely(w) /\ (w.kind = "PLANT_REPAIR" <=> b = "create_mr")
    BY <1>1, <1>5 DEF OneTrip
  <2>2. works # << >> /\ works[1] = w /\ DOMAIN works = {1}
    <3> HIDE DEF works
    <3> QED BY <2>1
  <2>3. crew = IF b = "create_mr" THEN "dirty" ELSE "clean"
    <3> HIDE DEF works, b
    <3> QED BY <2>1, <2>2 DEF Crew
  <2> HIDE DEF works, b, crew
  <2>4. \A place : Visits(x, c, place) = <<Economics(w, place)>>
    <3> TAKE place
    <3>1. Visits(x, c, place) = [i \in {1} |-> Economics(w, place)]
      <4>1. Visits(x, c, place) = [i \in DOMAIN works |-> Economics(works[i], place)]
        BY <1>2, <1>5, <2>2
      <4>2. \A i \in {1} : Economics(works[i], place) = Economics(w, place)
        BY <2>2
      <4> QED BY <2>2, <4>1, <4>2
    <3> DEFINE y == Economics(w, place)
    <3> HIDE DEF y
    <3>2. [i \in {1} |-> y] = <<y>>
      OBVIOUS
    <3> QED BY <3>1, <3>2 DEF y
  <2>5. \A place : VisitOf(x, c, place) = Economics(w, place)
    BY <1>3, <1>5, <2>2
  <2>6. \A place \in PlanningPlaces :
          LET v == Economics(w, place)
          IN /\ v.oneWay \in Int /\ v.onSite \in Int /\ v.road \in Int
             /\ v.ferry = place.island /\ v.overnight = FALSE /\ v.overnight \in BOOLEAN
    BY <2>1, EconomicsAre
  <2> QED BY <1>4, <1>5, <2>3, <2>4, <2>5, <2>6 DEF b
<1>6. CASE ~Executed(x, c)
  <2>1. works = << >>
    BY <1>1, <1>6
  <2>2. crew = IF b = "create_mr" THEN "dirty" ELSE "clean"
    <3> HIDE DEF works, b
    <3> QED BY <1>1, <2>1 DEF Crew
  <2>3. \A place : Visits(x, c, place) = <<Planned(crew, works, place)>>
    BY <1>2, <1>6
  <2>4. \A place : VisitOf(x, c, place) = Planned(crew, works, place)
    BY <1>3, <1>6
  <2>5. Durations[crew] \in Int
    <3> HIDE DEF crew
    <3> QED BY <2>2 DEF Durations
  <2>6. \A place \in PlanningPlaces :
          LET v == Planned(crew, works, place)
          IN /\ v.oneWay \in Int /\ v.onSite \in Int /\ v.road \in Int
             /\ v.ferry = place.ferry /\ v.overnight \in BOOLEAN
    <3> TAKE place \in PlanningPlaces
    <3> HIDE DEF crew, works
    <3>1. place.minutes \in Int /\ place.road \in Int
      BY DEF PlanningPlaces
    <3> QED BY <2>5, <3>1 DEF Planned
  <2> HIDE DEF works, b, crew
  <2> QED BY <1>4, <1>6, <2>2, <2>3, <2>4, <2>6 DEF b
<1> QED BY <1>5, <1>6

PartsOf(x, c, place) ==
  PartsKey(BestAction(ScenarioOf(x, c)), PolicyDomain(ScenarioOf(x, c)), place.family)

\* The lines of an action, without the recursion that joins its visits.
LEMMA ActionLinesAre ==
  ASSUME NEW x, NEW c, NEW place
  PROVE  LET b == BestAction(ScenarioOf(x, c))
             parts == PartsOf(x, c, place)
         IN /\ b = "remote_repair" =>
                 ActionLines(x, c, place) = <<Line("remote", "noc", Durations.remote, 0)>>
            /\ b = "collect_evidence" =>
                 ActionLines(x, c, place) = <<Line("evidence", "noc", Durations.rca, 0)>>
            /\ \A v, crew :
                 b \in DispatchActions /\ Visits(x, c, place) = <<v>> /\ crew = CrewOf(x, c)
                 /\ VisitLines(crew, v) \in Seq(LedgerLines)
                 => ActionLines(x, c, place) =
                      HandoffLines(b, crew) \o VisitLines(crew, v)
                        \o Lines(parts # "none", Line("parts", parts, 0, 0))
<1> DEFINE s == ScenarioOf(x, c)
           b == BestAction(s)
           crew == Crew(b, x.work_orders[c])
           visits == IF b \in DispatchActions THEN Visits(x, c, place) ELSE << >>
           upTo[i \in 0..Len(visits)] ==
             IF i = 0 THEN << >> ELSE upTo[i - 1] \o VisitLines(crew, visits[i])
           parts == PartsKey(b, PolicyDomain(s), place.family)
           rest == HandoffLines(b, crew) \o upTo[Len(visits)]
                     \o Lines(parts # "none", Line("parts", parts, 0, 0))
<1>1. ActionLines(x, c, place) =
        CASE b = "remote_repair" -> <<Line("remote", "noc", Durations.remote, 0)>>
          [] b = "collect_evidence" -> <<Line("evidence", "noc", Durations.rca, 0)>>
          [] OTHER -> rest
  BY Zenon DEF ActionLines
<1>2. upTo = CHOOSE u : u = [i \in 0..Len(visits) |->
                 IF i = 0 THEN << >> ELSE u[i - 1] \o VisitLines(crew, visits[i])]
  BY Zenon DEF upTo
<1> HIDE DEF upTo
<1>3. ASSUME NEW v, b \in DispatchActions, Visits(x, c, place) = <<v>>,
             VisitLines(crew, v) \in Seq(LedgerLines)
      PROVE  upTo[Len(visits)] = VisitLines(crew, v)
  <2> DEFINE V == VisitLines(crew, v)
  <2>1. visits = <<v>>
    BY <1>3
  <2>2. Len(visits) = 1 /\ visits[1] = v /\ 0..1 = {0, 1}
    <3> HIDE DEF visits
    <3> QED BY <2>1
  <2> HIDE DEF visits, crew
  <2>3. upTo = CHOOSE u : u = [i \in 0..1 |->
                 IF i = 0 THEN << >> ELSE u[i - 1] \o VisitLines(crew, visits[i])]
    BY <1>2, <2>2
  <2> DEFINE w == [i \in 0..1 |-> IF i = 0 THEN << >> ELSE V]
  <2>4. << >> \o V = V
    <3>1. V \in Seq(LedgerLines) BY <1>3
    <3> HIDE DEF V
    <3> QED BY <3>1
  <2>5. w = [i \in 0..1 |-> IF i = 0 THEN << >> ELSE w[i - 1] \o VisitLines(crew, visits[i])]
    <3>1. w[0] = << >> /\ w[1] = V
      OBVIOUS
    <3>2. \A i \in 0..1 : w[i] = IF i = 0 THEN << >> ELSE w[i - 1] \o VisitLines(crew, visits[i])
      <4>1. w[1] = w[1 - 1] \o VisitLines(crew, visits[1])
        <5>1. 1 - 1 = 0 OBVIOUS
        <5> HIDE DEF w
        <5> QED BY <2>2, <2>4, <3>1, <5>1
      <4>2. 0..1 = {0, 1} /\ 1 # 0
        OBVIOUS
      <4> HIDE DEF w, V
      <4>3. ASSUME NEW i \in {0, 1}
            PROVE  w[i] = IF i = 0 THEN << >> ELSE w[i - 1] \o VisitLines(crew, visits[i])
        <5>1. CASE i = 0 BY <3>1, <5>1, Zenon
        <5>2. CASE i = 1 BY <4>1, <4>2, <5>2, Zenon
        <5> QED BY <5>1, <5>2
      <4> QED BY <4>2, <4>3, Zenon
    <3> QED BY <3>2, Zenon
  <2>6. upTo = [i \in 0..1 |-> IF i = 0 THEN << >> ELSE upTo[i - 1] \o VisitLines(crew, visits[i])]
    BY <2>3, <2>5, Zenon
  <2>7. upTo[0] = << >>
    <3>1. 0 \in 0..1 OBVIOUS
    <3> QED BY <2>6, <3>1, Zenon
  <2>8. upTo[1] = upTo[0] \o VisitLines(crew, v)
    <3>1. 1 \in 0..1 /\ 1 # 0 /\ 1 - 1 = 0 OBVIOUS
    <3>2. upTo[1] = upTo[1 - 1] \o VisitLines(crew, visits[1])
      BY <2>6, <3>1, Zenon
    <3> QED BY <2>2, <3>1, <3>2
  <2> QED BY <2>2, <2>4, <2>7, <2>8
<1>4. ASSUME b = "remote_repair"
      PROVE  ActionLines(x, c, place) = <<Line("remote", "noc", Durations.remote, 0)>>
  BY <1>1, <1>4, Zenon
<1>5. ASSUME b = "collect_evidence"
      PROVE  ActionLines(x, c, place) = <<Line("evidence", "noc", Durations.rca, 0)>>
  <2>1. b # "remote_repair" BY <1>5
  <2> QED BY <1>1, <1>5, <2>1, Zenon
<1>6. ASSUME b \in DispatchActions PROVE ActionLines(x, c, place) = rest
  <2>1. b # "remote_repair" /\ b # "collect_evidence"
    <3> HIDE DEF b
    <3> QED BY <1>6 DEF DispatchActions
  <2> QED BY <1>1, <2>1, Zenon
<1>7. crew = CrewOf(x, c) /\ parts = PartsOf(x, c, place)
  BY Zenon DEF CrewOf, PartsOf
<1> HIDE DEF b, crew, visits, parts
<1>8. ASSUME NEW v, b \in DispatchActions, Visits(x, c, place) = <<v>>,
             VisitLines(crew, v) \in Seq(LedgerLines)
      PROVE  ActionLines(x, c, place) =
               HandoffLines(b, crew) \o VisitLines(crew, v)
                 \o Lines(parts # "none", Line("parts", parts, 0, 0))
  BY <1>3, <1>6, <1>8, Zenon
<1> QED BY <1>4, <1>5, <1>7, <1>8 DEF b

LEMMA OfficeJoined ==
  ASSUME NEW p, NEW q, NEW a, NEW b, NEW c, NEW e, Adds(p, a, b, c, e), Adds(q, 0, 0, 0, 0)
  PROVE  Adds(p \o q, a, b, c, e) /\ Adds(q \o p, a, b, c, e)
<1>1. a \in Int /\ b \in Int /\ c \in Int /\ e \in Int
  BY DEF Adds
<1>2. Adds(p \o q, a + 0, b + 0, c + 0, e + 0) /\ Adds(q \o p, 0 + a, 0 + b, 0 + c, 0 + e)
  BY JoinedAdds
<1>3. a + 0 = a /\ b + 0 = b /\ c + 0 = c /\ e + 0 = e /\ 0 + a = a /\ 0 + b = b /\ 0 + c = c /\ 0 + e = e
  BY <1>1
<1> QED BY <1>2, <1>3

LEMMA JoinedIs ==
  ASSUME NEW S, NEW p \in Seq(S), NEW q \in Seq(S)
  PROVE  /\ p \o q \in Seq(S) /\ Len(p \o q) = Len(p) + Len(q)
         /\ \A i \in 1..Len(p) : (p \o q)[i] = p[i]
         /\ \A i \in 1..Len(q) : (p \o q)[Len(p) + i] = q[i]
OBVIOUS

LEMMA PairAdds ==
  ASSUME NEW k, NEW l, Adds(<<k>>, 0, 0, 0, 0), Adds(<<l>>, 0, 0, 0, 0)
  PROVE  Adds(<<k, l>>, 0, 0, 0, 0)
<1>1. <<k, l>> = <<k>> \o <<l>>
  <2> DEFINE S == {k, l}
             p == <<k>>
             q == <<l>>
             r == <<k, l>>
  <2>1. /\ p \in Seq(S) /\ q \in Seq(S) /\ r \in Seq(S)
        /\ Len(p) = 1 /\ Len(q) = 1 /\ Len(r) = 2
        /\ p[1] = k /\ q[1] = l /\ r[1] = k /\ r[2] = l
    OBVIOUS
  <2> HIDE DEF S, p, q, r
  <2>2. p \in Seq(S) /\ q \in Seq(S)
    BY <2>1
  <2>6. p \o q \in Seq(S) /\ Len(p \o q) = Len(p) + Len(q)
    BY <2>2, JoinedIs
  <2>7. \A i \in 1..Len(p) : (p \o q)[i] = p[i]
    BY <2>2, JoinedIs
  <2>8. \A i \in 1..Len(q) : (p \o q)[Len(p) + i] = q[i]
    BY <2>2, JoinedIs
  <2>3. /\ Len(p \o q) = 2 /\ (p \o q)[1] = k /\ (p \o q)[1 + 1] = l /\ 1 + 1 = 2
    BY <2>1, <2>6, <2>7, <2>8
  <2>4. \A i \in 1..2 : r[i] = (p \o q)[i]
    BY <2>1, <2>3
  <2>5. r = p \o q
    BY <2>1, <2>3, <2>4, <2>6
  <2> QED BY <2>5 DEF p, q, r
<1> QED BY <1>1, OfficeJoined

LEMMA OfficeLines ==
  /\ \A step \in Office, role \in Roles, key \in DOMAIN Durations :
       Adds(<<Line(step, role, Durations[key], 0)>>, 0, 0, 0, 0)
  /\ \A step \in Office, role \in Roles, key \in DOMAIN Durations, on \in BOOLEAN :
       Adds(Lines(on, Line(step, role, Durations[key], 0)), 0, 0, 0, 0)
<1>1. \A key \in DOMAIN Durations : Durations[key] \in Int
  BY DEF Durations
<1>2. 0 \in Int
  OBVIOUS
<1> QED BY <1>1, <1>2, LineAdds, LinesAdd

LEMMA DurationNames ==
  DOMAIN Durations = {"triage", "rca", "remote", "review", "planning", "clean", "dirty",
                      "handover", "acceptance", "verification", "closure"}
BY DEF Durations

\* What the lines of its action add up to.
LEMMA ActionAdds ==
  ASSUME NEW x, Sound(x), NEW c \in Cases(x), NEW place \in PlanningPlaces
  PROVE  LET v == VisitOf(x, c, place)
             l == ActionLines(x, c, place)
         IN /\ Dispatched(x, c) =>
                 Adds(l, 1, 2 * v.oneWay + v.onSite,
                      IF v.ferry THEN 1 ELSE 0, IF v.overnight THEN 1 ELSE 0)
            /\ ~Dispatched(x, c) => Adds(l, 0, 0, 0, 0)
<1> DEFINE b == BestAction(ScenarioOf(x, c))
           v == VisitOf(x, c, place)
           crew == CrewOf(x, c)
           parts == PartsOf(x, c, place)
           l == ActionLines(x, c, place)
           f == IF v.ferry THEN 1 ELSE 0
           o == IF v.overnight THEN 1 ELSE 0
           t == 2 * v.oneWay + v.onSite
<1>1. b \in {"remote_repair", "dispatch_clean", "create_mr", "collect_evidence", "cpe_swap"}
  BY CaseFacts
<1>2. Dispatched(x, c) <=> b \in DispatchActions
  BY DEF Dispatched
<1>3. CASE ~Dispatched(x, c)
  <2>1. b \in {"remote_repair", "collect_evidence"}
    <3> HIDE DEF b
    <3> QED BY <1>1, <1>2, <1>3 DEF DispatchActions
  <2>2. l = <<Line("remote", "noc", Durations.remote, 0)>>
        \/ l = <<Line("evidence", "noc", Durations.rca, 0)>>
    BY <2>1, ActionLinesAre
  <2>3. /\ Adds(<<Line("remote", "noc", Durations.remote, 0)>>, 0, 0, 0, 0)
        /\ Adds(<<Line("evidence", "noc", Durations.rca, 0)>>, 0, 0, 0, 0)
    <3>1. "remote" \in Office /\ "evidence" \in Office /\ "noc" \in Roles
          /\ "remote" \in DOMAIN Durations /\ "rca" \in DOMAIN Durations
      BY DurationNames DEF Office, Roles
    <3> QED BY <3>1, OfficeLines
  <2> HIDE DEF l
  <2>4. Adds(l, 0, 0, 0, 0)
    BY <2>2, <2>3, Zenon
  <2> QED BY <1>3, <2>4 DEF l
<1>4. CASE Dispatched(x, c)
  <2>1. /\ crew \in {"clean", "dirty"} /\ Visits(x, c, place) = <<v>>
        /\ v.oneWay \in Int /\ v.onSite \in Int /\ v.road \in Int
        /\ v.ferry \in BOOLEAN /\ v.overnight \in BOOLEAN
    <3>1. place.ferry \in BOOLEAN /\ place.island \in BOOLEAN
      BY DEF PlanningPlaces
    <3> QED BY <1>4, <3>1, VisitsAre
  <2> HIDE DEF v, crew
  <2>2. crew \in Roles
    BY <2>1 DEF Roles
  <2>3. Adds(VisitLines(crew, v), 1, t, f, o)
    BY <2>1, <2>2, VisitAdds
  <2>4. VisitLines(crew, v) \in Seq(LedgerLines)
    BY <2>3, Zenon DEF Adds
  <2>5. l = HandoffLines(b, crew) \o VisitLines(crew, v)
              \o Lines(parts # "none", Line("parts", parts, 0, 0))
    <3> HIDE DEF b
    <3> QED BY <1>2, <1>4, <2>1, <2>4, ActionLinesAre DEF b, crew
  <2>6. Adds(HandoffLines(b, crew), 0, 0, 0, 0)
    <3>1. "handoff_package" \in Office /\ "handoff_review" \in Office /\ "dispatcher" \in Roles
          /\ "handover" \in DOMAIN Durations /\ "acceptance" \in DOMAIN Durations
      BY DurationNames DEF Office, Roles
    <3>2. /\ Adds(<<Line("handoff_package", crew, Durations.handover, 0)>>, 0, 0, 0, 0)
          /\ Adds(<<Line("handoff_review", "dispatcher", Durations.acceptance, 0)>>, 0, 0, 0, 0)
      BY <2>2, <3>1, OfficeLines
    <3>3. CASE b \in {"create_mr", "plant_repair"}
      BY <3>2, <3>3, PairAdds DEF HandoffLines
    <3>4. CASE b \notin {"create_mr", "plant_repair"}
      BY <3>4, NoLine DEF HandoffLines
    <3> QED BY <3>3, <3>4
  <2>7. Adds(Lines(parts # "none", Line("parts", parts, 0, 0)), 0, 0, 0, 0)
    <3>1. parts \in Roles
      <4> USE DEF PartsOf, PartsKey, Roles
      <4> QED OBVIOUS
    <3>2. "parts" \in Office /\ 0 \in Int /\ (parts # "none") \in BOOLEAN
      BY DEF Office
    <3> HIDE DEF parts
    <3> QED BY <3>1, <3>2, LinesAdd
  <2> HIDE DEF b, l, t, f, o
  <2>8. Adds(HandoffLines(b, crew) \o VisitLines(crew, v), 1, t, f, o)
    BY <2>3, <2>6, OfficeJoined
  <2>9. Adds(l, 1, t, f, o)
    BY <2>5, <2>7, <2>8, OfficeJoined
  <2> QED BY <1>4, <2>9 DEF v, l, t, f, o
<1> QED BY <1>3, <1>4

\* A dispatch is one truck roll in the ledger of its case, executed or planned, and
\* nothing else is.
LEMMA LedgerAdds ==
  ASSUME NEW x, Sound(x), NEW c \in Cases(x), NEW place \in PlanningPlaces
  PROVE  LET v == VisitOf(x, c, place)
             l == Ledger(x, c, place)
         IN /\ Dispatched(x, c) =>
                 Adds(l, 1, 2 * v.oneWay + v.onSite,
                      IF v.ferry THEN 1 ELSE 0, IF v.overnight THEN 1 ELSE 0)
            /\ ~Dispatched(x, c) => Adds(l, 0, 0, 0, 0)
<1> DEFINE l == Ledger(x, c, place)
           A == ActionLines(x, c, place)
           first == <<Line("triage", "noc", Durations.triage, 0), Line("RCA", "noc", Durations.rca, 0)>>
           R == Lines(x.human_decisions[c].required, Line("review", "l2", Durations.review, 0))
           V == Lines(Validated(x, c) \/ ~Executed(x, c),
                      Line("validation", "noc", Durations.verification, 0))
           C == Lines(x.incidents[Manifest(x, c).root].status = "CLOSED" \/ ~Executed(x, c),
                      Line("closure", "noc", Durations.closure, 0))
<1>1. l = (((first \o R) \o A) \o V) \o C
  BY Zenon DEF Ledger
<1>2. /\ "triage" \in Office /\ "RCA" \in Office /\ "review" \in Office
      /\ "validation" \in Office /\ "closure" \in Office
      /\ "noc" \in Roles /\ "l2" \in Roles
      /\ {"triage", "rca", "review", "verification", "closure"} \subseteq DOMAIN Durations
  BY DurationNames DEF Office, Roles
<1>3. Adds(first, 0, 0, 0, 0)
  BY <1>2, OfficeLines, PairAdds
<1>4. Adds(R, 0, 0, 0, 0)
  BY <1>2, CaseFacts, OfficeLines
<1>5. Adds(V, 0, 0, 0, 0)
  BY <1>2, OfficeLines
<1>6. Adds(C, 0, 0, 0, 0)
  BY <1>2, OfficeLines
<1> HIDE DEF l, A, first, R, V, C
<1>7. ASSUME NEW a, NEW b, NEW f, NEW o, Adds(A, a, b, f, o) PROVE Adds(l, a, b, f, o)
  <2>1. Adds(first \o R, 0, 0, 0, 0)
    BY <1>3, <1>4, OfficeJoined
  <2>2. Adds((first \o R) \o A, a, b, f, o)
    BY <1>7, <2>1, OfficeJoined
  <2>3. Adds(((first \o R) \o A) \o V, a, b, f, o)
    BY <1>5, <2>2, OfficeJoined
  <2> QED BY <1>1, <1>6, <2>3, OfficeJoined
<1> QED BY <1>7, ActionAdds DEF A, l

-----------------------------------------------------------------------------
(* The row of a case *)

One(on) == IF on THEN 1 ELSE 0

\* The crew follows from the action of the policy.
LEMMA CrewIs ==
  ASSUME NEW x, Sound(x), NEW c \in Cases(x)
  PROVE  CrewOf(x, c) = IF ~Dispatched(x, c) THEN "remote"
                        ELSE IF BestAction(ScenarioOf(x, c)) = "create_mr" THEN "dirty" ELSE "clean"
<1>1. CASE Dispatched(x, c)
  BY <1>1, VisitsAre
<1>2. CASE ~Dispatched(x, c)
  <2> DEFINE b == BestAction(ScenarioOf(x, c))
             works == x.work_orders[c]
  <2>1. works = << >> /\ b \notin DispatchActions
    BY <1>2, CaseFacts DEF Dispatched
  <2> HIDE DEF b, works
  <2>2. Crew(b, works) = "remote"
    BY <2>1 DEF Crew, DispatchActions
  <2> QED BY <1>2, <2>2 DEF CrewOf, b, works
<1> QED BY <1>1, <1>2

\* What a case is charged, in one formula for both bases.
LEMMA CostIs ==
  ASSUME NEW x, Sound(x), NEW c \in Cases(x), NEW place \in PlanningPlaces
  PROVE  LET k == Costed(x, c, place)
             v == VisitOf(x, c, place)
             on == Dispatched(x, c)
         IN /\ k.basis = IF Executed(x, c) THEN "generated_execution" ELSE "governed_forecast"
            /\ k.rolls = One(on)
            /\ k.crew_minutes = IF on THEN 2 * v.oneWay + v.onSite ELSE 0
            /\ k.ferries = One(on /\ v.ferry)
            /\ k.overnights = One(on /\ v.overnight)
            /\ k.crew = CrewOf(x, c)
            /\ k.kind = InterventionKind(PolicyDomain(ScenarioOf(x, c)), place.family)
            /\ k.source = IF Restoration(x, c) THEN "validated_resolution"
                          ELSE "immutable_scenario_truth"
<1> DEFINE k == Costed(x, c, place)
           v == VisitOf(x, c, place)
           on == Dispatched(x, c)
           l == Ledger(x, c, place)
           minutes == IF on THEN 2 * v.oneWay + v.onSite ELSE 0
           t == LedgerTotals(l)
           steps == {l[i].step : i \in DOMAIN l}
<1>1. Adds(l, One(on), minutes, One(on /\ v.ferry), One(on /\ v.overnight))
  <2> HIDE DEF v
  <2>1. CASE on
    BY <2>1, LedgerAdds DEF One, v
  <2>2. CASE ~on
    BY <2>2, LedgerAdds DEF One
  <2> QED BY <2>1, <2>2
<1>2. t = [minutes |-> MinutesOn(l, steps), crew_minutes |-> MinutesOn(l, Crewed),
           rolls |-> StepsIn(l, "on_site"), ferries |-> StepsIn(l, "ferry"),
           overnights |-> StepsIn(l, "overnight")]
  BY Zenon DEF LedgerTotals
<1>3. k = [basis |-> IF Executed(x, c) THEN "generated_execution" ELSE "governed_forecast",
           ledger |-> l,
           minutes |-> t.minutes, crew_minutes |-> t.crew_minutes,
           rolls |-> t.rolls, ferries |-> t.ferries, overnights |-> t.overnights,
           crew |-> CrewOf(x, c),
           kind |-> InterventionKind(PolicyDomain(ScenarioOf(x, c)), place.family),
           source |-> IF Restoration(x, c) /\ Validated(x, c) THEN "validated_resolution"
                      ELSE "immutable_scenario_truth"]
  BY Zenon DEF Costed, CostedBy, CrewOf
<1>4. Validated(x, c) <=> Restoration(x, c)
  BY CaseFacts
<1> HIDE DEF k, v, on, l, minutes, t, steps
<1>5. /\ StepsIn(l, "on_site") = One(on) /\ MinutesOn(l, Crewed) = minutes
      /\ StepsIn(l, "ferry") = One(on /\ v.ferry) /\ StepsIn(l, "overnight") = One(on /\ v.overnight)
  BY <1>1, Zenon DEF Adds
<1>6. /\ t.crew_minutes = minutes /\ t.rolls = One(on)
      /\ t.ferries = One(on /\ v.ferry) /\ t.overnights = One(on /\ v.overnight)
  BY <1>2, <1>5
<1>7. /\ k.basis = IF Executed(x, c) THEN "generated_execution" ELSE "governed_forecast"
      /\ k.rolls = t.rolls /\ k.crew_minutes = t.crew_minutes /\ k.ferries = t.ferries
      /\ k.overnights = t.overnights /\ k.crew = CrewOf(x, c)
      /\ k.kind = InterventionKind(PolicyDomain(ScenarioOf(x, c)), place.family)
      /\ k.source = IF Restoration(x, c) THEN "validated_resolution"
                    ELSE "immutable_scenario_truth"
  BY <1>3, <1>4
<1> QED BY <1>6, <1>7, Zenon DEF k, v, on, minutes

\* What was executed is one roll per order, by ferry to an island, and never
\* overnight; what waits is one roll per dispatch it may become.
LEMMA ChargesAre ==
  ASSUME NEW x, Sound(x), NEW c \in Cases(x), NEW place \in PlanningPlaces
  PROVE  LET k == Costed(x, c, place)
             works == x.work_orders[c]
         IN /\ Len(works) \in {0, 1}
            /\ Executed(x, c) =>
                 /\ k.rolls = Len(works)
                 /\ k.ferries = IF place.island THEN Len(works) ELSE 0
                 /\ k.overnights = 0
                 /\ k.crew_minutes = IF works = << >> THEN 0 ELSE Spent(works[1])
                 /\ works # << >> => DOMAIN works = 1..1 /\ Spent(works[1]) \in Int
            /\ ~Executed(x, c) => works = << >> /\ k.rolls = One(Dispatched(x, c))
<1> DEFINE k == Costed(x, c, place)
           v == VisitOf(x, c, place)
           works == x.work_orders[c]
           on == Dispatched(x, c)
<1>1. /\ k.rolls = One(on)
      /\ k.crew_minutes = IF on THEN 2 * v.oneWay + v.onSite ELSE 0
      /\ k.ferries = One(on /\ v.ferry)
      /\ k.overnights = One(on /\ v.overnight)
  BY CostIs
<1>2. Len(<< >>) = 0
  OBVIOUS
<1>3. CASE ~Executed(x, c)
  <2>1. works = << >> BY <1>3, CaseFacts
  <2> HIDE DEF k, works, on
  <2> QED BY <1>1, <1>2, <1>3, <2>1 DEF k, works, on
<1>4. CASE Executed(x, c) /\ ~on
  <2>1. works = << >> BY <1>4, CaseFacts
  <2> HIDE DEF k, works, on, v
  <2> QED BY <1>1, <1>2, <1>4, <2>1 DEF k, works, on, One
<1>5. CASE Executed(x, c) /\ on
  <2>1. PICK w \in Works : works = <<w>> /\ Timely(w)
    BY <1>5, CaseFacts DEF OneTrip
  <2>2. works[1] = w /\ Len(works) = 1 /\ works # << >> /\ DOMAIN works = 1..1
    <3> HIDE DEF works
    <3> QED BY <2>1
  <2>3. v = Economics(w, place)
    BY <1>5, <2>2 DEF VisitOf
  <2>4. /\ v.oneWay \in Int /\ v.onSite \in Int
        /\ v.ferry = place.island /\ v.overnight = FALSE
        /\ 2 * v.oneWay + v.onSite = Spent(w)
    BY <2>1, <2>3, EconomicsAre
  <2> HIDE DEF k, works, on, v
  <2>5. k.crew_minutes = Spent(w) /\ Spent(w) \in Int /\ k.overnights = 0 /\ k.rolls = 1
        /\ k.ferries = IF place.island THEN 1 ELSE 0
    BY <1>1, <1>5, <2>4 DEF One
  <2> QED BY <1>5, <2>2, <2>5 DEF k, works
<1> QED BY <1>3, <1>4, <1>5

\* A row is what was charged and a copy of the other datasets.
LEMMA RowIs ==
  ASSUME NEW x, Sound(x), NEW c \in Cases(x), NEW place \in PlanningPlaces
  PROVE  LET row == Row(x, c, place)
             k == Costed(x, c, place)
         IN /\ row.cost = k
            /\ row.incident = x.incidents[Manifest(x, c).root].status
            /\ row.match = x.care_tickets[c].match
            /\ row.human = x.human_decisions[c].status
            /\ row.work_orders = {<<c, i>> : i \in DOMAIN x.work_orders[c]}
            /\ row.mrs = {<<c, i>> : i \in DOMAIN x.mrs[c]}
            /\ row.validated = Validated(x, c)
            /\ row.validation = x.validation_events[c]
            /\ row.requires_ferry <=> k.ferries > 0
            /\ ~row.same_day <=> k.overnights > 0
            /\ k.overnights \in Int
<1> DEFINE row == Row(x, c, place)
           k == Costed(x, c, place)
           v == VisitOf(x, c, place)
           planned == Planned(k.crew, x.work_orders[c], place)
           field == k.crew # "remote"
           executed == k.basis = "generated_execution"
           ferry == IF executed THEN k.ferries > 0 ELSE field /\ planned.ferry
           day == IF executed THEN k.overnights = 0 ELSE ~(field /\ planned.overnight)
           ws == {<<c, i>> : i \in DOMAIN x.work_orders[c]}
           ms == {<<c, i>> : i \in DOMAIN x.mrs[c]}
<1>1. row = [cost |-> k,
             incident |-> x.incidents[Manifest(x, c).root].status,
             match |-> x.care_tickets[c].match,
             human |-> x.human_decisions[c].status,
             work_orders |-> ws, mrs |-> ms,
             requires_ferry |-> ferry, same_day |-> day,
             validated |-> Validated(x, c),
             validation |-> x.validation_events[c]]
  BY Zenon DEF Row, RowOf
<1>2. /\ k.basis = IF Executed(x, c) THEN "generated_execution" ELSE "governed_forecast"
      /\ k.ferries = One(Dispatched(x, c) /\ v.ferry)
      /\ k.overnights = One(Dispatched(x, c) /\ v.overnight)
      /\ k.crew = CrewOf(x, c)
  BY CostIs
<1>3. CrewOf(x, c) # "remote" <=> Dispatched(x, c)
  BY CrewIs
<1>4. executed <=> Executed(x, c)
  BY <1>2
<1>5. ASSUME ~Executed(x, c), Dispatched(x, c)
      PROVE  planned = v /\ v.ferry \in BOOLEAN /\ v.overnight \in BOOLEAN
  <2>1. planned = v
    BY <1>2, <1>5, Zenon DEF VisitOf
  <2>2. place.ferry \in BOOLEAN /\ place.island \in BOOLEAN
    BY DEF PlanningPlaces
  <2> QED BY <1>5, <2>1, <2>2, VisitsAre
<1> HIDE DEF row, k, v, planned, ws, ms, ferry, day
<1>6. ferry <=> k.ferries > 0
  <2>1. CASE Executed(x, c)
    BY <1>4, <2>1 DEF ferry
  <2>2. CASE ~Executed(x, c) /\ Dispatched(x, c)
    BY <1>2, <1>3, <1>4, <1>5, <2>2 DEF ferry, One
  <2>3. CASE ~Executed(x, c) /\ ~Dispatched(x, c)
    BY <1>2, <1>3, <1>4, <2>3 DEF ferry, One
  <2> QED BY <2>1, <2>2, <2>3
<1>7. ~day <=> k.overnights > 0
  <2>1. CASE Executed(x, c)
    BY <1>2, <1>4, <2>1 DEF day, One
  <2>2. CASE ~Executed(x, c) /\ Dispatched(x, c)
    BY <1>2, <1>3, <1>4, <1>5, <2>2 DEF day, One
  <2>3. CASE ~Executed(x, c) /\ ~Dispatched(x, c)
    BY <1>2, <1>3, <1>4, <2>3 DEF day, One
  <2> QED BY <2>1, <2>2, <2>3
<1>8. k.overnights \in Int
  BY <1>2 DEF One
<1>9. /\ row.cost = k
      /\ row.incident = x.incidents[Manifest(x, c).root].status
      /\ row.match = x.care_tickets[c].match
      /\ row.human = x.human_decisions[c].status
      /\ row.work_orders = ws /\ row.mrs = ms
      /\ row.validated = Validated(x, c)
      /\ row.validation = x.validation_events[c]
      /\ row.requires_ferry = ferry /\ row.same_day = day
  BY <1>1
<1> QED BY <1>6, <1>7, <1>8, <1>9 DEF row, k, ws, ms

-----------------------------------------------------------------------------
(* Nothing is refused *)

\* A maintenance request comes with a work order.
LEMMA RequestsHaveOrders ==
  ASSUME NEW x, Sound(x), NEW c \in Cases(x)
  PROVE  /\ x.work_orders[c] = << >> => x.mrs[c] = << >>
         /\ x.mrs[c] \in Seq(MRs) /\ x.work_orders[c] \in Seq(Works)
<1>1. x.mrs[c] \in Seq(MRs) /\ x.work_orders[c] \in Seq(Works)
  BY CaseTyped, SoundGate
<1>2. CASE ~Executed(x, c)
  BY <1>1, <1>2, ControlIs DEF Unworked
<1>3. CASE Executed(x, c)
  <2> DEFINE b == BestAction(ScenarioOf(x, c))
             works == x.work_orders[c]
             requests == x.mrs[c]
  <2>1. /\ b \in {"remote_repair", "collect_evidence"} => Len(works) = 0 /\ Len(requests) = 0
        /\ b \in {"dispatch_clean", "cpe_swap"} => Len(works) = 1
        /\ b \in {"create_mr", "plant_repair"} => Len(works) = 1
    BY <1>3, SoundGate, Zenon DEF BranchIsFollowed
  <2>2. b \in {"remote_repair", "dispatch_clean", "create_mr", "collect_evidence", "cpe_swap"}
    BY CaseFacts
  <2> HIDE DEF b, works, requests
  <2>3. Len(works) = 1 \/ Len(requests) = 0
    BY <2>1, <2>2
  <2>4. works = << >> => requests = << >>
    BY <1>1, <2>3 DEF works, requests
  <2> QED BY <1>1, <2>4 DEF works, requests
<1> QED BY <1>2, <1>3

\* The files of a run hang together, so nothing is refused.
LEMMA NotRefused ==
  ASSUME NEW x, Sound(x)
  PROVE  Refusal(x, x) = {}
<1>1. CatalogIssues(x, x) = {}
  BY Zenon DEF CatalogIssues
<1>2. \A c \in Cases(x) : c \in DOMAIN x.agent_decisions /\ c \in DOMAIN x.action_events
  <2>1. /\ x.agent_decisions \in Seq(Agents) /\ Len(x.agent_decisions) = Size(x)
        /\ x.action_events \in Seq(Actions) /\ Len(x.action_events) = Size(x)
    BY SoundGate DEF Shape
  <2>2. Cases(x) = 1..Size(x)
    BY SizeIs DEF Sound
  <2> QED BY <2>1, <2>2
<1>3. \A c \in Cases(x) : Manifest(x, c).root \in Roots(x)
  BY SoundGate DEF GraphIsRooted
<1>4. \A c \in Cases(x) : ~(x.mrs[c] # << >> /\ x.work_orders[c] = << >>)
  BY RequestsHaveOrders
<1>5. \A c \in Cases(x) : ~(Restoration(x, c) /\ ~Validated(x, c))
  BY CaseFacts
<1>6. \A r \in Roots(x) : x.incidents[r].status = "CLOSED" =>
                            \E c \in Attempts(x, r) : Restoration(x, c)
  BY SoundGate DEF ClosuresAreLinked
<1>7. CaseGraphIssues(x) = {}
  BY <1>2, <1>3, <1>4, <1>5, <1>6, Zenon DEF CaseGraphIssues
<1> QED BY <1>1, <1>7 DEF Refusal

-----------------------------------------------------------------------------
(* Work is accounted for *)

\* The exposure of a field is the total of any function that agrees with it.
LEMMA ExposureIs ==
  ASSUME NEW n \in Nat, NEW costs, DOMAIN costs = 1..n, NEW basis, NEW field, NEW f,
         f = [c \in 1..n |-> f[c]],
         \A c \in 1..n : (IF costs[c].basis = basis THEN costs[c][field] ELSE 0) = f[c]
  PROVE  Exposure(costs, basis, field) = Total(f)
<1>1. Exposure(costs, basis, field) =
        Total([c \in DOMAIN costs |-> IF costs[c].basis = basis THEN costs[c][field] ELSE 0])
  BY Zenon DEF Exposure
<1>2. [c \in DOMAIN costs |-> IF costs[c].basis = basis THEN costs[c][field] ELSE 0]
        = [c \in 1..n |-> f[c]]
  BY Zenon
<1> QED BY <1>1, <1>2, Zenon

\* Nothing adds up to nothing.
LEMMA NothingTotals ==
  ASSUME NEW n \in Nat
  PROVE  Total([c \in 1..n |-> 0]) = 0
<1>1. [c \in 1..n |-> IF c \in {} THEN 1 ELSE 0] = [c \in 1..n |-> 0]
  OBVIOUS
<1>2. Total([c \in 1..n |-> IF c \in {} THEN 1 ELSE 0]) = Cardinality({})
  BY TotalCounts
<1> QED BY <1>1, <1>2, FS_EmptySet

\* The charges of the cases, added up over the run, are the work of its orders.
LEMMA WorkIsAccountedHolds ==
  ASSUME NEW x, Sound(x), NEW place \in PlanningPlaces, NEW costs,
         costs = [c \in Cases(x) |-> Costed(x, c, place)]
  PROVE  WorkIsAccounted(x, place, DispatchSummary(x, costs))
<1> DEFINE s == DispatchSummary(x, costs)
           n == Size(x)
           forecast == {c \in Cases(x) : ~Executed(x, c)
                                         /\ BestAction(ScenarioOf(x, c)) \in DispatchActions}
           made == "generated_execution"
           orders == Total([c \in Cases(x) |-> Len(x.work_orders[c])])
<1>1. n \in Nat /\ Cases(x) = 1..n
  BY SizeIs DEF Sound
<1>2. /\ s.executed.rolls = Exposure(costs, made, "rolls")
      /\ s.executed.ferries = Exposure(costs, made, "ferries")
      /\ s.executed.overnights = Exposure(costs, made, "overnights")
      /\ s.executed.crew_minutes = Exposure(costs, made, "crew_minutes")
      /\ s.forecast.rolls = Exposure(costs, "governed_forecast", "rolls")
      /\ s.work_orders = orders
  <2> DEFINE Counted(basis) ==
        [cases |-> Cardinality({c \in Cases(x) : costs[c].basis = basis}),
         rolls |-> Exposure(costs, basis, "rolls"),
         minutes |-> Exposure(costs, basis, "minutes"),
         crew_minutes |-> Exposure(costs, basis, "crew_minutes"),
         ferries |-> Exposure(costs, basis, "ferries"),
         overnights |-> Exposure(costs, basis, "overnights")]
      dirty == {c \in Cases(x) : costs[c].crew = "dirty"}
      off == {c \in Cases(x) : ~AtPremise(costs[c].kind)}
  <2>1. s = [executed |-> Counted(made), forecast |-> Counted("governed_forecast"),
             work_orders |-> orders, dirty_cases |-> dirty, off_premise |-> off]
    BY Zenon DEF DispatchSummary
  <2>2. \A basis :
          /\ Counted(basis).rolls = Exposure(costs, basis, "rolls")
          /\ Counted(basis).ferries = Exposure(costs, basis, "ferries")
          /\ Counted(basis).overnights = Exposure(costs, basis, "overnights")
          /\ Counted(basis).crew_minutes = Exposure(costs, basis, "crew_minutes")
    OBVIOUS
  <2> HIDE DEF s, Counted, orders, dirty, off
  <2>3. s.executed = Counted(made) /\ s.forecast = Counted("governed_forecast")
        /\ s.work_orders = orders
    BY <2>1
  <2> QED BY <2>2, <2>3, Zenon
<1>3. DOMAIN costs = 1..n /\ \A c \in 1..n : costs[c] = Costed(x, c, place)
  BY <1>1
<1>4. ASSUME NEW c \in 1..n
      PROVE  LET k == costs[c]
                 works == x.work_orders[c]
             IN /\ Len(works) \in {0, 1}
                /\ k.basis = IF Executed(x, c) THEN made ELSE "governed_forecast"
                /\ Executed(x, c) =>
                     /\ k.rolls = Len(works)
                     /\ k.ferries = IF place.island THEN Len(works) ELSE 0
                     /\ k.overnights = 0
                     /\ k.crew_minutes = IF works = << >> THEN 0 ELSE Spent(works[1])
                     /\ works # << >> => DOMAIN works = 1..1 /\ Spent(works[1]) \in Int
                /\ ~Executed(x, c) => works = << >> /\ k.rolls = One(Dispatched(x, c))
  <2>1. c \in Cases(x) /\ costs[c] = Costed(x, c, place)
    BY <1>1, <1>3
  <2> QED BY <2>1, ChargesAre, CostIs
<1>11. Len(<< >>) = 0
  OBVIOUS
<1> HIDE DEF n, s
<1>5. Exposure(costs, made, "rolls") = orders
  <2> DEFINE f == [c \in 1..n |-> Len(x.work_orders[c])]
  <2>1. ASSUME NEW c \in 1..n
        PROVE  (IF costs[c].basis = made THEN costs[c]["rolls"] ELSE 0) = f[c]
    <3> DEFINE k == costs[c]
               works == x.work_orders[c]
    <3>1. /\ k.basis = IF Executed(x, c) THEN made ELSE "governed_forecast"
          /\ Executed(x, c) => k.rolls = Len(works)
          /\ ~Executed(x, c) => works = << >>
      BY <1>4
    <3>2. f[c] = Len(works)
      OBVIOUS
    <3> HIDE DEF k, works, f
    <3>3. (IF k.basis = made THEN k["rolls"] ELSE 0) = f[c]
      BY <1>11, <3>1, <3>2
    <3> QED BY <3>3 DEF k
  <2>9. f = [c \in 1..n |-> f[c]]
    OBVIOUS
  <2> HIDE DEF f
  <2>2. Exposure(costs, made, "rolls") = Total(f)
    BY <1>1, <1>3, <2>1, <2>9, ExposureIs
  <2> QED BY <1>1, <2>2, Zenon DEF f
<1>6. Exposure(costs, "governed_forecast", "rolls") = Cardinality(forecast)
  <2> DEFINE f == [c \in 1..n |-> IF c \in forecast THEN 1 ELSE 0]
  <2>1. \A c \in 1..n : c \in forecast <=> ~Executed(x, c) /\ Dispatched(x, c)
    BY <1>1 DEF Dispatched
  <2> HIDE DEF forecast
  <2>2. \A c \in 1..n : (IF costs[c].basis = "governed_forecast" THEN costs[c]["rolls"] ELSE 0) = f[c]
    BY <1>4, <2>1 DEF One
  <2>9. f = [c \in 1..n |-> f[c]]
    OBVIOUS
  <2> HIDE DEF f
  <2>3. Exposure(costs, "governed_forecast", "rolls") = Total(f)
    BY <1>1, <1>3, <2>2, <2>9, ExposureIs
  <2>4. forecast \in SUBSET (1..n)
    BY <1>1 DEF forecast
  <2>5. Total(f) = Cardinality(forecast)
    BY <1>1, <2>4, TotalCounts DEF f
  <2> QED BY <2>3, <2>5
<1>7. Exposure(costs, made, "overnights") = 0
  <2> DEFINE f == [c \in 1..n |-> 0]
  <2>1. ASSUME NEW c \in 1..n
        PROVE  (IF costs[c].basis = made THEN costs[c]["overnights"] ELSE 0) = f[c]
    <3> DEFINE k == costs[c]
    <3>1. /\ k.basis = IF Executed(x, c) THEN made ELSE "governed_forecast"
          /\ Executed(x, c) => k.overnights = 0
      BY <1>4
    <3>2. f[c] = 0
      OBVIOUS
    <3> HIDE DEF k, f
    <3>3. (IF k.basis = made THEN k["overnights"] ELSE 0) = f[c]
      BY <3>1, <3>2
    <3> QED BY <3>3 DEF k
  <2>9. f = [c \in 1..n |-> f[c]]
    OBVIOUS
  <2> HIDE DEF f
  <2>2. Exposure(costs, made, "overnights") = Total(f)
    BY <1>1, <1>3, <2>1, <2>9, ExposureIs
  <2> QED BY <1>1, <2>2, NothingTotals DEF f
<1>8. Exposure(costs, made, "ferries") = IF place.island THEN orders ELSE 0
  <2> DEFINE f == [c \in 1..n |-> IF place.island THEN Len(x.work_orders[c]) ELSE 0]
  <2>1. ASSUME NEW c \in 1..n
        PROVE  (IF costs[c].basis = made THEN costs[c]["ferries"] ELSE 0) = f[c]
    <3> DEFINE k == costs[c]
               works == x.work_orders[c]
    <3>1. /\ k.basis = IF Executed(x, c) THEN made ELSE "governed_forecast"
          /\ Executed(x, c) => k.ferries = IF place.island THEN Len(works) ELSE 0
          /\ ~Executed(x, c) => works = << >>
      BY <1>4
    <3>2. f[c] = IF place.island THEN Len(works) ELSE 0
      OBVIOUS
    <3> HIDE DEF k, works, f
    <3>3. (IF k.basis = made THEN k["ferries"] ELSE 0) = f[c]
      BY <1>11, <3>1, <3>2
    <3> QED BY <3>3 DEF k
  <2>9. f = [c \in 1..n |-> f[c]]
    OBVIOUS
  <2> HIDE DEF f
  <2>2. Exposure(costs, made, "ferries") = Total(f)
    BY <1>1, <1>3, <2>1, <2>9, ExposureIs
  <2>3. CASE place.island
    BY <1>1, <2>2, <2>3, Zenon DEF f
  <2>4. CASE ~place.island
    <3>1. f = [c \in 1..n |-> 0]
      BY <2>4, Zenon DEF f
    <3> QED BY <1>1, <2>2, <2>4, <3>1, NothingTotals
  <2> QED BY <2>3, <2>4
<1>9. Exposure(costs, made, "crew_minutes") =
        Total([c \in Cases(x) |->
                 Total([i \in DOMAIN x.work_orders[c] |-> Spent(x.work_orders[c][i])])])
  <2> DEFINE f == [c \in 1..n |-> Total([i \in DOMAIN x.work_orders[c] |-> Spent(x.work_orders[c][i])])]
  <2>1. ASSUME NEW c \in 1..n
        PROVE  (IF costs[c].basis = made THEN costs[c]["crew_minutes"] ELSE 0) = f[c]
    <3> DEFINE works == x.work_orders[c]
               g == [i \in DOMAIN works |-> Spent(works[i])]
    <3>1. f[c] = Total(g)
      OBVIOUS
    <3>2. CASE works = << >>
      <4>1. DOMAIN works = 1..0
        <5> HIDE DEF works
        <5> QED BY <3>2
      <4>2. g \in [1..0 -> Int]
        <5> HIDE DEF works
        <5> QED BY <4>1
      <4>3. Total(g) = 0
        BY <4>2, TotalOfFew
      <4>4. (IF costs[c].basis = made THEN costs[c]["crew_minutes"] ELSE 0) = 0
        <5> DEFINE k == costs[c]
        <5>1. /\ k.basis = IF Executed(x, c) THEN made ELSE "governed_forecast"
              /\ Executed(x, c) => k.crew_minutes = IF works = << >> THEN 0 ELSE Spent(works[1])
          BY <1>4
        <5> HIDE DEF k, works
        <5>2. (IF k.basis = made THEN k["crew_minutes"] ELSE 0) = 0
          BY <3>2, <5>1
        <5> QED BY <5>2 DEF k
      <4> QED BY <3>1, <4>3, <4>4
    <3>3. CASE works # << >>
      <4>1. Executed(x, c) /\ DOMAIN works = 1..1 /\ Spent(works[1]) \in Int
            /\ costs[c].crew_minutes = Spent(works[1]) /\ costs[c].basis = made
        BY <1>4, <3>3
      <4>2. g \in [1..1 -> Int] /\ g[1] = Spent(works[1])
        <5> HIDE DEF works
        <5>1. 1..1 = {1} OBVIOUS
        <5> QED BY <4>1, <5>1
      <4>3. Total(g) = Spent(works[1])
        BY <4>2, TotalOfFew
      <4> QED BY <3>1, <4>1, <4>3
    <3> QED BY <3>2, <3>3
  <2>9. f = [c \in 1..n |-> f[c]]
    OBVIOUS
  <2> HIDE DEF f
  <2>2. Exposure(costs, made, "crew_minutes") = Total(f)
    BY <1>1, <1>3, <2>1, <2>9, ExposureIs
  <2> QED BY <1>1, <2>2, Zenon DEF f
<1> HIDE DEF forecast, orders
<1>10. /\ s.executed.rolls = s.work_orders
       /\ s.forecast.rolls = Cardinality(forecast)
       /\ s.executed.ferries = IF place.island THEN s.executed.rolls ELSE 0
       /\ s.executed.overnights = 0
       /\ s.executed.crew_minutes =
            Total([c \in Cases(x) |->
                     Total([i \in DOMAIN x.work_orders[c] |-> Spent(x.work_orders[c][i])])])
  BY <1>2, <1>5, <1>6, <1>7, <1>8, <1>9, Zenon
<1> QED BY <1>10, Zenon DEF WorkIsAccounted, Spent, forecast, s

-----------------------------------------------------------------------------
(* Plans, crews and rows *)

\* A place enters the ledger by its visits and its family of plant only.
LEMMA SameLines ==
  ASSUME NEW x, NEW c, NEW p, NEW q, Visits(x, c, p) = Visits(x, c, q), p.family = q.family
  PROVE  Ledger(x, c, p) = Ledger(x, c, q)
<1> DEFINE Of(v, family) ==
      LET s == ScenarioOf(x, c)
          action == BestAction(s)
          crew == Crew(action, x.work_orders[c])
          visits == IF action \in DispatchActions THEN v ELSE << >>
          upTo[i \in 0..Len(visits)] ==
            IF i = 0 THEN << >> ELSE upTo[i - 1] \o VisitLines(crew, visits[i])
          parts == PartsKey(action, PolicyDomain(s), family)
      IN CASE action = "remote_repair" -> <<Line("remote", "noc", Durations.remote, 0)>>
           [] action = "collect_evidence" -> <<Line("evidence", "noc", Durations.rca, 0)>>
           [] OTHER -> HandoffLines(action, crew) \o upTo[Len(visits)]
                         \o Lines(parts # "none", Line("parts", parts, 0, 0))
<1>1. \A place : ActionLines(x, c, place) = Of(Visits(x, c, place), place.family)
  BY Zenon DEF ActionLines
<1> HIDE DEF Of
<1>2. ActionLines(x, c, p) = ActionLines(x, c, q)
  BY <1>1, Zenon
<1> QED BY <1>2, Zenon DEF Ledger

\* An executed visit is priced by its order and the island, not by the route.
LEMMA ExecutedIgnoresPlansHolds ==
  ASSUME NEW x, Sound(x), NEW places
  PROVE  ExecutedIgnoresPlans(x, places)
<1> SUFFICES ASSUME NEW c \in Cases(x), Executed(x, c), NEW p \in places, NEW q \in places,
                    p.island = q.island, p.family = q.family
             PROVE  Ledger(x, c, p) = Ledger(x, c, q)
  BY Zenon DEF ExecutedIgnoresPlans
<1>1. CASE Dispatched(x, c)
  <2> DEFINE works == x.work_orders[c]
  <2>1. PICK w \in Works : works = <<w>>
    BY <1>1, CaseFacts DEF OneTrip
  <2>2. works[1] = w
    <3> HIDE DEF works
    <3> QED BY <2>1
  <2>3. \A place : VisitOf(x, c, place) = Economics(w, place)
    BY <2>2 DEF VisitOf
  <2>4. Economics(w, p) = Economics(w, q)
    BY Zenon DEF Economics
  <2>5. Visits(x, c, p) = Visits(x, c, q)
    BY <1>1, <2>3, <2>4, VisitsAre
  <2> QED BY <2>5, SameLines
<1>2. CASE ~Dispatched(x, c)
  <2> DEFINE b == BestAction(ScenarioOf(x, c))
  <2>1. b \in {"remote_repair", "collect_evidence"}
    BY <1>2, CaseFacts DEF Dispatched, DispatchActions
  <2>2. ActionLines(x, c, p) = ActionLines(x, c, q)
    <3>1. CASE b = "remote_repair"
      BY <3>1, ActionLinesAre
    <3>2. CASE b = "collect_evidence"
      BY <3>2, ActionLinesAre
    <3> HIDE DEF b
    <3> QED BY <2>1, <3>1, <3>2
  <2> QED BY <2>2, Zenon DEF Ledger
<1> QED BY <1>1, <1>2

\* The policy of a scenario sends the crew that works where its domain fails.
LEMMA CrewsMatchPlantHolds ==
  ASSUME NEW x, Sound(x), NEW place \in PlanningPlaces, NEW rows,
         rows = [c \in Cases(x) |-> Row(x, c, place)]
  PROVE  CrewsMatchPlant(rows)
<1> SUFFICES ASSUME NEW c \in Cases(x)
             PROVE  /\ rows[c].cost.crew = "dirty" => ~AtPremise(rows[c].cost.kind)
                    /\ rows[c].cost.crew = "clean" => AtPremise(rows[c].cost.kind)
  BY Zenon DEF CrewsMatchPlant
<1> DEFINE k == Costed(x, c, place)
           s == ScenarioOf(x, c)
           b == BestAction(s)
<1>1. rows[c].cost = k
  BY RowIs
<1>2. k.crew = CrewOf(x, c) /\ k.kind = InterventionKind(PolicyDomain(s), place.family)
  BY CostIs
<1>3. CrewOf(x, c) = IF b \notin DispatchActions THEN "remote"
                     ELSE IF b = "create_mr" THEN "dirty" ELSE "clean"
  BY CrewIs DEF Dispatched
<1>4. s \in Scenarios
  BY CaseFacts
<1>5. ASSUME NEW t \in Scenarios, NEW family
      PROVE  LET a == BestAction(t)
                 kind == InterventionKind(PolicyDomain(t), family)
             IN /\ a = "create_mr" => ~AtPremise(kind)
                /\ a \in DispatchActions /\ a # "create_mr" => AtPremise(kind)
  <2>1. CASE t \in {"fiber_cut", "storm", "flooding", "hurricane"}
    <3>1. PolicyDomain(t) = "plant"
      BY <2>1 DEF PolicyDomain
    <3> QED BY <2>1, <3>1
            DEF BestAction, Policy, InterventionKind, DomainKind, AtPremise
  <2>2. CASE t = "hfc_ingress"
    <3>1. PolicyDomain(t) = "hfc_tap"
      BY <2>2 DEF PolicyDomain
    <3> QED BY <2>2, <3>1
            DEF BestAction, Policy, InterventionKind, DomainKind, AtPremise
  <2>3. CASE t \in {"no_service", "intermittent_service"}
    <3>1. PolicyDomain(t) = "drop"
      BY <2>3 DEF PolicyDomain
    <3> QED BY <2>3, <3>1
            DEF BestAction, Policy, InterventionKind, DomainKind, AtPremise
  <2>4. CASE t = "cpe_failure"
    <3>1. PolicyDomain(t) = "cpe"
      BY <2>4 DEF PolicyDomain
    <3> QED BY <2>4, <3>1
            DEF BestAction, Policy, InterventionKind, DomainKind, AtPremise
  <2>5. CASE t \in {"slow_wifi", "iptv_degradation", "provisioning_error", "congestion",
                    "power_outage"}
    <3>1. BestAction(t) \in {"remote_repair", "collect_evidence"}
      BY <2>5 DEF BestAction, Policy
    <3> QED BY <3>1 DEF DispatchActions
  <2> QED BY <2>1, <2>2, <2>3, <2>4, <2>5 DEF Scenarios, Policy
<1> HIDE DEF k, s
<1>6. CASE b = "create_mr"
  <2>1. k.crew = "dirty" /\ ~AtPremise(k.kind)
    BY <1>2, <1>3, <1>4, <1>5, <1>6 DEF DispatchActions
  <2> QED BY <1>1, <2>1
<1>7. CASE b \in DispatchActions /\ b # "create_mr"
  <2>1. k.crew = "clean" /\ AtPremise(k.kind)
    BY <1>2, <1>3, <1>4, <1>5, <1>7
  <2> QED BY <1>1, <2>1
<1>8. CASE b \notin DispatchActions
  <2>1. k.crew = "remote"
    BY <1>2, <1>3, <1>8
  <2> QED BY <1>1, <2>1
<1> QED BY <1>6, <1>7, <1>8

Named(rows, C, field) == {id[1] : id \in UNION {rows[c][field] : c \in C}}
Having(data, C) == {c \in C : data[c] # << >>}

\* The cases that the identifiers of the rows name are those that have the row.
LEMMA NamedCases ==
  ASSUME NEW C, NEW rows, NEW field, NEW data, NEW S,
         \A c \in C : data[c] \in Seq(S),
         \A c \in C : rows[c][field] = {<<c, i>> : i \in DOMAIN data[c]}
  PROVE  Named(rows, C, field) = Having(data, C)
<1>1. ASSUME NEW c \in C PROVE data[c] # << >> <=> \E i : i \in DOMAIN data[c]
  <2> DEFINE s == data[c]
  <2>1. s \in Seq(S) OBVIOUS
  <2> HIDE DEF s
  <2>2. s # << >> => 1 \in DOMAIN s
    BY <2>1
  <2>3. DOMAIN << >> = {}
    OBVIOUS
  <2>4. s # << >> <=> \E i : i \in DOMAIN s
    BY <2>2, <2>3
  <2> QED BY <2>4 DEF s
<1>2. ASSUME NEW c
      PROVE  c \in {id[1] : id \in UNION {rows[e][field] : e \in C}}
               <=> \E e \in C : \E i \in DOMAIN data[e] : c = <<e, i>>[1]
  <2> DEFINE all == UNION {rows[e][field] : e \in C}
  <2>1. \A id : id \in all <=> \E e \in C : id \in rows[e][field]
    BY Zenon
  <2>2. \A id : id \in all <=> \E e \in C : \E i \in DOMAIN data[e] : id = <<e, i>>
    <3> TAKE id
    <3>1. \A e \in C : id \in rows[e][field] <=> \E i \in DOMAIN data[e] : id = <<e, i>>
      <4> TAKE e \in C
      <4>1. rows[e][field] = {<<e, i>> : i \in DOMAIN data[e]}
        OBVIOUS
      <4> QED BY <4>1
    <3> HIDE DEF all
    <3> QED BY <2>1, <3>1
  <2> HIDE DEF all
  <2>3. c \in {id[1] : id \in all} <=> \E id \in all : c = id[1]
    BY Zenon
  <2>4. (\E id \in all : c = id[1]) <=> \E e \in C : \E i \in DOMAIN data[e] : c = <<e, i>>[1]
    <3>1. ASSUME NEW id \in all, c = id[1]
          PROVE  \E e \in C : \E i \in DOMAIN data[e] : c = <<e, i>>[1]
      <4>1. PICK e \in C : \E i \in DOMAIN data[e] : id = <<e, i>>
        BY <2>2, <3>1, Zenon
      <4>2. PICK i \in DOMAIN data[e] : id = <<e, i>>
        BY <4>1, Zenon
      <4> QED BY <3>1, <4>2, Zenon
    <3>2. ASSUME NEW e \in C, NEW i \in DOMAIN data[e], c = <<e, i>>[1]
          PROVE  \E id \in all : c = id[1]
      <4>1. <<e, i>> \in all
        BY <2>2, Zenon
      <4> QED BY <3>2, <4>1, Zenon
    <3> QED BY <3>1, <3>2, Zenon
  <2> QED BY <2>3, <2>4, Zenon DEF all
<1>3. \A e, i : <<e, i>>[1] = e
  OBVIOUS
<1>4. ASSUME NEW c
      PROVE  c \in {id[1] : id \in UNION {rows[e][field] : e \in C}}
               <=> c \in C /\ data[c] # << >>
  BY <1>1, <1>2, <1>3, Zenon
<1> QED BY <1>4, Zenon DEF Named, Having

\* Each row names the records of its case, and no record is named twice.
LEMMA RowsReconcileHolds ==
  ASSUME NEW x, Sound(x), NEW place \in PlanningPlaces, NEW rows,
         rows = [c \in Cases(x) |-> Row(x, c, place)]
  PROVE  RowsReconcile(x, rows, Reconciliation(x, rows))
<1> DEFINE r == Reconciliation(x, rows)
           CasesOf(field) == {id[1] : id \in UNION {rows[c][field] : c \in Cases(x)}}
           missing == (CasesWith(x, "work_orders") \ CasesOf("work_orders"))
                        \union (CasesWith(x, "mrs") \ CasesOf("mrs"))
           orphaned == (CasesOf("work_orders") \ CasesWith(x, "work_orders"))
                        \union (CasesOf("mrs") \ CasesWith(x, "mrs"))
           passing == {c \in Cases(x) : rows[c].validated}
           failing == {c \in Cases(x) : ~rows[c].validated /\ rows[c].validation # << >>}
<1>1. r = [missing |-> missing, orphaned |-> orphaned,
           duplicated |-> Duplicates(x, "work_orders"), revised |-> Duplicates(x, "mrs"),
           passing |-> passing, failing |-> failing]
  BY Zenon DEF Reconciliation
<1>2. ASSUME NEW c \in Cases(x)
      PROVE  LET row == rows[c]
                 k == Costed(x, c, place)
             IN /\ row.cost = k
                /\ row.human = x.human_decisions[c].status
                /\ row.work_orders = {<<c, i>> : i \in DOMAIN x.work_orders[c]}
                /\ row.mrs = {<<c, i>> : i \in DOMAIN x.mrs[c]}
                /\ (row.validated <=> Validated(x, c))
                /\ row.validation = x.validation_events[c]
                /\ row.requires_ferry <=> k.ferries > 0
                /\ ~row.same_day <=> k.overnights > 0
                /\ k.basis = IF Executed(x, c) THEN "generated_execution" ELSE "governed_forecast"
  <2>1. rows[c] = Row(x, c, place)
    OBVIOUS
  <2> QED BY <2>1, RowIs, CostIs
<1>3. \A c \in Cases(x) : x.work_orders[c] \in Seq(Works) /\ x.mrs[c] \in Seq(MRs)
  BY RequestsHaveOrders
<1> HIDE DEF r
<1>4. CasesOf("work_orders") = CasesWith(x, "work_orders")
  <2>1. CasesOf("work_orders") = {c \in Cases(x) : x.work_orders[c] # << >>}
    <3> DEFINE data == x.work_orders
               C == Cases(x)
               field == "work_orders"
    <3>1. \A c \in C : rows[c][field] = {<<c, i>> : i \in DOMAIN data[c]}
      BY <1>2
    <3>2. \A c \in C : data[c] \in Seq(Works)
      BY <1>3
    <3> HIDE DEF data, C, field
    <3>3. Named(rows, C, field) = Having(data, C)
      BY <3>1, <3>2, NamedCases
    <3> QED BY <3>3, Zenon DEF Named, Having, data, C, field
  <2> QED BY <2>1, Zenon DEF CasesWith
<1>5. CasesOf("mrs") = CasesWith(x, "mrs")
  <2>1. CasesOf("mrs") = {c \in Cases(x) : x.mrs[c] # << >>}
    <3> DEFINE data == x.mrs
               C == Cases(x)
               field == "mrs"
    <3>1. \A c \in C : rows[c][field] = {<<c, i>> : i \in DOMAIN data[c]}
      BY <1>2
    <3>2. \A c \in C : data[c] \in Seq(MRs)
      BY <1>3
    <3> HIDE DEF data, C, field
    <3>3. Named(rows, C, field) = Having(data, C)
      BY <3>1, <3>2, NamedCases
    <3> QED BY <3>3, Zenon DEF Named, Having, data, C, field
  <2> QED BY <2>1, Zenon DEF CasesWith
<1>6. Duplicates(x, "work_orders") = {} /\ Duplicates(x, "mrs") = {}
  <2>1. \A c \in Cases(x) : Len(x.work_orders[c]) <= 1 /\ Len(x.mrs[c]) <= 1
    BY SoundGate DEF RowsAreUnique
  <2>2. \A c \in Cases(x) : Len(x.work_orders[c]) \in Nat /\ Len(x.mrs[c]) \in Nat
    BY <1>3
  <2>3. \A c \in Cases(x) : ~(Len(x.work_orders[c]) > 1) /\ ~(Len(x.mrs[c]) > 1)
    BY <2>1, <2>2
  <2> QED BY <2>3, Zenon DEF Duplicates
<1>7. missing = {} /\ orphaned = {}
  <2> HIDE DEF CasesOf
  <2> QED BY <1>4, <1>5
<1>8. failing = {}
  <2>1. ASSUME NEW c \in Cases(x)
        PROVE  ~(~rows[c].validated /\ rows[c].validation # << >>)
    BY <1>2, Zenon DEF Validated
  <2> QED BY <2>1, Zenon
<1>9. passing = {c \in Cases(x) : Restoration(x, c)}
  <2>1. \A c \in Cases(x) : rows[c].validated <=> Restoration(x, c)
    BY <1>2, CaseFacts
  <2> QED BY <2>1, Zenon
<1> HIDE DEF missing, orphaned, passing, failing
<1>10. r.missing \union r.orphaned \union r.duplicated \union r.revised \union r.failing = {}
  BY <1>1, <1>6, <1>7, <1>8
<1>11. r.passing = passing
  BY <1>1
<1>12. ASSUME NEW c \in Cases(x)
       PROVE  /\ rows[c].requires_ferry <=> rows[c].cost.ferries > 0
              /\ ~rows[c].same_day <=> rows[c].cost.overnights > 0
              /\ rows[c].human = "PENDING" => rows[c].cost.basis = "governed_forecast"
  BY <1>2, CaseFacts
<1> QED BY <1>9, <1>10, <1>11, <1>12, Zenon DEF RowsReconcile, r

-----------------------------------------------------------------------------
(* The two projections *)

WaitingCases(x) == {c \in Cases(x) : x.human_decisions[c].status = "PENDING"}
ClosedRoots(x) == {r \in Roots(x) : x.incidents[r].status = "CLOSED"}

\* A case that waits is an incident of its own, still open: no repeat followed it.
LEMMA WaitingIs ==
  ASSUME NEW x, Sound(x), NEW c \in WaitingCases(x)
  PROVE  /\ c \in Cases(x) /\ x.reconciliation_records[c] = TRUE
         /\ c \in Roots(x) /\ Manifest(x, c).root = c
         /\ x.incidents[c].status # "CLOSED"
<1>1. c \in Cases(x) /\ x.human_decisions[c].status = "PENDING"
  BY DEF WaitingCases
<1>2. ~Restoration(x, c) /\ x.reconciliation_records[c] = TRUE
  BY <1>1, CaseFacts, ControlIs
<1>3. \A e \in Cases(x) : Settled(x, e) /\ Manifest(x, e).seq \in Nat
  BY SizeIs, SoundGate DEF Sound, Manifests
<1>4. c \in Roots(x) /\ Manifest(x, c).root = c
  <2>1. Manifest(x, c).seq = 0
    BY <1>1, <1>3, Zenon DEF Settled
  <2> QED BY <1>1, <2>1, SoundGate DEF GraphIsRooted
<1>5. \A e \in Attempts(x, c) : e = c
  <2> SUFFICES ASSUME NEW e \in Cases(x), Manifest(x, e).root = c PROVE e = c
    BY DEF Attempts
  <2>1. CASE Manifest(x, e).seq = 0
    BY <2>1, SoundGate DEF GraphIsRooted
  <2>2. CASE Manifest(x, e).seq > 0
    <3>1. x.human_decisions[Manifest(x, e).root].status # "PENDING"
      BY <1>3, <2>2, Zenon DEF Settled
    <3> QED BY <1>1, <3>1
  <2>3. Manifest(x, e).seq \in Nat
    BY <1>3
  <2> QED BY <2>1, <2>2, <2>3
<1>6. x.incidents[c].status # "CLOSED"
  <2>1. x.incidents[c].status = "CLOSED" => \E e \in Attempts(x, c) : Restoration(x, e)
    BY <1>4, SoundGate DEF ClosuresAreLinked
  <2> QED BY <1>2, <1>5, <2>1
<1> QED BY <1>1, <1>2, <1>4, <1>6

\* The roots that wait are the cases that wait, and none of them is closed.
LEMMA PartitionIs ==
  ASSUME NEW x, Sound(x)
  PROVE  LET p == StatusPartition(x)
         IN /\ p.open = Roots(x) \ (ClosedRoots(x) \union WaitingCases(x))
            /\ p.waiting = WaitingCases(x) /\ p.closed = ClosedRoots(x)
<1> DEFINE p == StatusPartition(x)
           rooted == {Manifest(x, c).root : c \in WaitingCases(x)}
<1>1. rooted = WaitingCases(x)
  <2>1. \A c \in WaitingCases(x) : Manifest(x, c).root = c
    BY WaitingIs
  <2> QED BY <2>1
<1>2. WaitingCases(x) \ ClosedRoots(x) = WaitingCases(x)
  BY WaitingIs DEF ClosedRoots
<1>3. p = [open |-> Roots(x) \ (ClosedRoots(x) \union (rooted \ ClosedRoots(x))),
           waiting |-> rooted \ ClosedRoots(x), closed |-> ClosedRoots(x)]
  BY Zenon DEF StatusPartition, WaitingCases, ClosedRoots
<1> HIDE DEF p, rooted
<1>4. p = [open |-> Roots(x) \ (ClosedRoots(x) \union WaitingCases(x)),
           waiting |-> WaitingCases(x), closed |-> ClosedRoots(x)]
  BY <1>1, <1>2, <1>3
<1> QED BY <1>4 DEF p

\* The counts of the executive projection, as counts of those sets.
LEMMA MetricsAre ==
  ASSUME NEW x, Sound(x)
  PROVE  LET m == ExecutiveMetrics(x)
         IN /\ m.case_attempts = Cardinality(Cases(x))
            /\ m.root_incidents = Cardinality(Roots(x))
            /\ m.pending_approvals = Cardinality(WaitingCases(x))
            /\ m.waiting_root_incidents = Cardinality(WaitingCases(x))
            /\ m.closed_root_incidents = Cardinality(ClosedRoots(x))
            /\ m.care_contacts = Cardinality(DOMAIN x.care_tickets)
            /\ m.canonical_root_attachments =
                 Cardinality({c \in DOMAIN x.care_tickets : Manifest(x, c).root \in Roots(x)})
<1> DEFINE m == ExecutiveMetrics(x)
           p == StatusPartition(x)
           attached == {c \in DOMAIN x.care_tickets : Manifest(x, c).root \in Roots(x)}
           orders == Total([c \in Cases(x) |-> Len(x.work_orders[c])])
           requests == Total([c \in Cases(x) |-> Len(x.mrs[c])])
<1>1. m = [case_attempts |-> Cardinality(Cases(x)),
           root_incidents |-> Cardinality(Roots(x)),
           pending_approvals |-> Cardinality(WaitingCases(x)),
           waiting_root_incidents |-> Cardinality(p.waiting),
           closed_root_incidents |-> Cardinality(p.closed),
           field_dispatched_root_incidents |-> Cardinality(DispatchedRoots(x)),
           work_orders |-> orders, maintenance_requests |-> requests,
           care_contacts |-> Cardinality(DOMAIN x.care_tickets),
           canonical_root_attachments |-> Cardinality(attached)]
  BY Zenon DEF ExecutiveMetrics, WaitingCases
<1>2. p.waiting = WaitingCases(x) /\ p.closed = ClosedRoots(x)
  BY PartitionIs
<1> HIDE DEF m, p, attached, orders, requests
<1>3. /\ m.case_attempts = Cardinality(Cases(x))
      /\ m.root_incidents = Cardinality(Roots(x))
      /\ m.pending_approvals = Cardinality(WaitingCases(x))
      /\ m.waiting_root_incidents = Cardinality(p.waiting)
      /\ m.closed_root_incidents = Cardinality(p.closed)
      /\ m.care_contacts = Cardinality(DOMAIN x.care_tickets)
      /\ m.canonical_root_attachments = Cardinality(attached)
  BY <1>1
<1> QED BY <1>2, <1>3, Zenon DEF m, attached

\* The care queue has a ticket and a review for every case.
LEMMA CareDomain ==
  ASSUME NEW x, Sound(x)
  PROVE  DOMAIN x.care_tickets = Cases(x) /\ DOMAIN x.care_ticket_reviews = Cases(x)
BY SoundGate DEF CareBuilt

\* Everything that is counted is finite.
LEMMA FiniteCases ==
  ASSUME NEW x, Sound(x), NEW A \in SUBSET Cases(x)
  PROVE  IsFiniteSet(A) /\ Cardinality(A) \in Nat
<1>1. IsFiniteSet(Cases(x))
  BY SizeIs, FS_Interval DEF Sound
<1> QED BY <1>1, FS_Subset, FS_CardinalityType

\* A part of the cases and the rest of them are counted once.
LEMMA SplitCount ==
  ASSUME NEW x, Sound(x), NEW S \in SUBSET Cases(x), NEW A \in SUBSET S
  PROVE  /\ Cardinality(A) + Cardinality(S \ A) = Cardinality(S)
         /\ Cardinality(A) <= Cardinality(S)
<1>1. IsFiniteSet(S) /\ Cardinality(S) \in Nat /\ Cardinality(A) \in Nat
      /\ Cardinality(S \ A) \in Nat
  BY FiniteCases
<1>2. Cardinality(S \ A) = Cardinality(S) - Cardinality(S \cap A)
  BY <1>1, FS_Difference
<1>3. S \cap A = A
  OBVIOUS
<1> QED BY <1>1, <1>2, <1>3

\* Both projections count the same roots, by different joins.
LEMMA ProjectionsAgreeHolds ==
  ASSUME NEW x, Sound(x), NEW place \in PlanningPlaces, NEW rows,
         rows = [c \in Cases(x) |-> Row(x, c, place)]
  PROVE  ProjectionsAgree(x, rows)
<1> DEFINE m == ExecutiveMetrics(x)
           p == StatusPartition(x)
           W == WaitingCases(x)
           C == ClosedRoots(x)
           R == Roots(x)
<1>1. R \subseteq Cases(x) /\ W \subseteq R /\ C \subseteq R /\ W \cap C = {}
  <2>1. R \subseteq Cases(x)
    BY SizeIs DEF Sound
  <2>2. \A c \in W : c \in R /\ c \notin C
    BY WaitingIs DEF ClosedRoots
  <2>3. C \subseteq R
    BY DEF ClosedRoots
  <2> QED BY <2>1, <2>2, <2>3
<1>2. ExecutiveReconciles(x)
  <2> HIDE DEF W, C, R
  <2>1. Cardinality(R \ (C \union W)) + Cardinality(W) + Cardinality(C) = Cardinality(R)
    <3>1. Cardinality(C) + Cardinality(R \ C) = Cardinality(R)
      BY <1>1, SplitCount
    <3>2. Cardinality(W) + Cardinality((R \ C) \ W) = Cardinality(R \ C)
      <4>1. R \ C \in SUBSET Cases(x) /\ W \in SUBSET (R \ C)
        BY <1>1
      <4> QED BY <4>1, SplitCount
    <3>3. (R \ C) \ W = R \ (C \union W)
      OBVIOUS
    <3>4. Cardinality(C) \in Nat /\ Cardinality(W) \in Nat /\ Cardinality(R \ C) \in Nat
          /\ Cardinality(R \ (C \union W)) \in Nat
      BY <1>1, FiniteCases
    <3> DEFINE a == Cardinality(R \ (C \union W))
               b == Cardinality(R \ C)
               v == Cardinality(C)
               w == Cardinality(W)
               r == Cardinality(R)
    <3>5. v + b = r /\ w + a = b /\ v \in Nat /\ w \in Nat /\ b \in Nat /\ a \in Nat
      BY <3>1, <3>2, <3>3, <3>4
    <3> HIDE DEF a, b, v, w, r
    <3>6. a + w + v = r
      BY <3>5
    <3> QED BY <3>6 DEF a, v, w, r
  <2>2. Cardinality(Cases(x)) >= Cardinality(R)
    <3>1. Cardinality(R) <= Cardinality(Cases(x)) /\ Cardinality(R) \in Nat
          /\ Cardinality(Cases(x)) \in Nat
      BY <1>1, SplitCount, FiniteCases
    <3> QED BY <3>1
  <2>3. m.canonical_root_attachments <= m.care_contacts
    <3> DEFINE attached == {c \in Cases(x) : Manifest(x, c).root \in Roots(x)}
    <3>1. attached \in SUBSET Cases(x) /\ Cases(x) \in SUBSET Cases(x)
      OBVIOUS
    <3>2. m.care_contacts = Cardinality(Cases(x)) /\ m.canonical_root_attachments = Cardinality(attached)
      BY MetricsAre, CareDomain
    <3> HIDE DEF attached, m
    <3> QED BY <3>1, <3>2, SplitCount
  <2>4. /\ p.open = R \ (C \union W)
        /\ m.waiting_root_incidents = Cardinality(W) /\ m.closed_root_incidents = Cardinality(C)
        /\ m.root_incidents = Cardinality(R) /\ m.case_attempts = Cardinality(Cases(x))
    BY PartitionIs, MetricsAre DEF W, C, R
  <2> HIDE DEF m, p
  <2>5. /\ Cardinality(p.open) + m.waiting_root_incidents + m.closed_root_incidents
             = m.root_incidents
        /\ m.case_attempts >= m.root_incidents
        /\ m.canonical_root_attachments <= m.care_contacts
    BY <2>1, <2>2, <2>3, <2>4
  <2> QED BY <2>5, Zenon DEF ExecutiveReconciles, m, p
<1>3. m.waiting_root_incidents = m.pending_approvals
  BY MetricsAre
<1>4. ASSUME NEW c \in Cases(x)
      PROVE  /\ x.work_orders[c] # << >> <=> Executed(x, c) /\ rows[c].cost.rolls > 0
             /\ Restoration(x, c) => rows[c].cost.source = "validated_resolution"
  <2> DEFINE works == x.work_orders[c]
             k == Costed(x, c, place)
  <2>1. rows[c].cost = k
    BY RowIs
  <2>2. /\ Executed(x, c) => k.rolls = Len(works)
        /\ ~Executed(x, c) => works = << >>
        /\ Len(works) \in {0, 1}
    BY ChargesAre
  <2>3. Restoration(x, c) => k.source = "validated_resolution"
    BY CostIs
  <2>4. works \in Seq(Works)
    <3>1. x.work_orders \in Seq(Seq(Works)) /\ Len(x.work_orders) = Size(x)
          /\ c \in 1..Size(x) /\ Size(x) \in Nat
      BY SizeIs DEF Sound, Shape
    <3> QED BY <3>1
  <2> HIDE DEF works, k
  <2>5. works # << >> <=> Len(works) > 0
    BY <2>2, <2>4
  <2>6. works # << >> <=> Executed(x, c) /\ k.rolls > 0
    BY <2>2, <2>5
  <2> QED BY <2>1, <2>3, <2>6 DEF works
<1>5. DispatchedRoots(x) = {Manifest(x, c).root : c \in
                              {e \in Cases(x) : Executed(x, e) /\ rows[e].cost.rolls > 0}}
  <2>1. {e \in Cases(x) : x.work_orders[e] # << >>}
          = {e \in Cases(x) : Executed(x, e) /\ rows[e].cost.rolls > 0}
    BY <1>4, Zenon
  <2> QED BY <2>1, Zenon DEF DispatchedRoots
<1>6. \A r \in p.closed : \E c \in Attempts(x, r) : rows[c].cost.source = "validated_resolution"
  <2> SUFFICES ASSUME NEW r \in C
               PROVE  \E c \in Attempts(x, r) : rows[c].cost.source = "validated_resolution"
    BY PartitionIs
  <2>1. PICK c \in Attempts(x, r) : Restoration(x, c)
    BY SoundGate DEF ClosuresAreLinked, ClosedRoots
  <2>2. c \in Cases(x)
    BY DEF Attempts
  <2> QED BY <1>4, <2>1, <2>2
<1> QED BY <1>2, <1>3, <1>5, <1>6, Zenon DEF ProjectionsAgree

-----------------------------------------------------------------------------
(* The stories and the queue *)

\* A ticket is the copy of an incident that the scan did or did not match.
TicketIs(x, c, S) ==
  LET t == x.care_tickets[c]
      root == Manifest(x, c).root
      i == x.incidents[root]
  IN /\ root \in Roots(x)
     /\ t.status \in {"OPEN", "CLOSED"}
     /\ t.status = "CLOSED" <=> i.status = "CLOSED"
     /\ t.closed = i.closed
     /\ t.match \in BOOLEAN
     /\ t.match <=> root \in S
     /\ x.care_ticket_reviews[c] = i.status
     /\ root \in S => i.opened = -Minutes(60)

\* Every ticket of a built queue is such a copy.
LEMMA TicketsAre ==
  ASSUME NEW x, Sound(x)
  PROVE  \E S \in SUBSET Roots(x) : \A c \in Cases(x) : TicketIs(x, c, S)
<1>1. PICK S \in SUBSET Roots(x) :
        /\ x.care_tickets = [c \in Cases(x) |->
             [status |-> CareStatus(x.incidents[Manifest(x, c).root]),
              closed |-> x.incidents[Manifest(x, c).root].closed,
              match |-> Manifest(x, c).root \in S]]
        /\ x.care_ticket_reviews =
             [c \in Cases(x) |-> x.incidents[Manifest(x, c).root].status]
        /\ \A r \in S : x.incidents[r].opened = -Minutes(60)
  BY SoundGate, Zenon DEF CareBuilt
<1>2. ASSUME NEW c \in Cases(x) PROVE TicketIs(x, c, S)
  <2> DEFINE t == x.care_tickets[c]
             root == Manifest(x, c).root
             i == x.incidents[root]
  <2>1. root \in Roots(x)
    BY SoundGate DEF GraphIsRooted
  <2>2. t = [status |-> CareStatus(i), closed |-> i.closed, match |-> root \in S]
        /\ x.care_ticket_reviews[c] = i.status
    BY <1>1
  <2>3. root \in S => i.opened = -Minutes(60)
    BY <1>1
  <2> HIDE DEF t, i, root
  <2>4. t.status = CareStatus(i) /\ t.closed = i.closed /\ t.match = (root \in S)
    BY <2>2
  <2>5. CareStatus(i) \in {"OPEN", "CLOSED"} /\ (CareStatus(i) = "CLOSED" <=> i.status = "CLOSED")
    BY DEF CareStatus
  <2>6. /\ t.status \in {"OPEN", "CLOSED"}
        /\ (t.status = "CLOSED" <=> i.status = "CLOSED")
    BY <2>4, <2>5
  <2>7. t.match \in BOOLEAN /\ (t.match <=> root \in S)
    <3> DEFINE m == root \in S
    <3>1. m \in BOOLEAN /\ t.match = m
      BY <2>4
    <3> HIDE DEF m
    <3>2. t.match \in BOOLEAN /\ (t.match <=> m)
      BY <3>1
    <3> QED BY <3>2, Zenon DEF m
  <2> QED BY <2>1, <2>2, <2>3, <2>4, <2>6, <2>7, Zenon DEF TicketIs, t, i, root
<1> QED BY <1>2

\* What the scorecard counts.
LEMMA ScoreIs ==
  ASSUME NEW x, Sound(x)
  PROVE  LET score == Scorecard(x)
         IN /\ score.care_contacts_pre_correlated =
                 Cardinality({c \in Cases(x) : x.care_tickets[c].match})
            /\ score.care_contacts_total = Cardinality(Cases(x))
            /\ score.cases_closed = Cardinality(ClosedRoots(x))
            /\ score.cases_total = Cardinality(Roots(x))
            /\ score.human_review_required =
                 Cardinality({c \in Cases(x) : x.reconciliation_records[c]})
            /\ CareFunnel(x).reactive =
                 Cases(x) \ {c \in Cases(x) : x.care_tickets[c].match}
<1> DEFINE score == Scorecard(x)
           m == ExecutiveMetrics(x)
           matched == {c \in DOMAIN x.care_tickets : x.care_tickets[c].match}
           required == {c \in DOMAIN x.care_ticket_reviews : x.reconciliation_records[c]}
           funnel == CareFunnel(x)
<1>1. funnel = [matched |-> matched, reactive |-> DOMAIN x.care_tickets \ matched]
  BY Zenon DEF CareFunnel
<1>2. score = [care_contacts_pre_correlated |-> Cardinality(funnel.matched),
               care_contacts_total |-> m.care_contacts,
               cases_closed |-> m.closed_root_incidents, cases_total |-> m.root_incidents,
               governed_decisions |-> Cardinality(DOMAIN x.care_ticket_reviews),
               human_review_required |-> Cardinality(required),
               pending_approvals |-> m.pending_approvals]
  BY Zenon DEF Scorecard
<1>3. DOMAIN x.care_tickets = Cases(x) /\ DOMAIN x.care_ticket_reviews = Cases(x)
  BY CareDomain
<1>4. matched = {c \in Cases(x) : x.care_tickets[c].match}
      /\ required = {c \in Cases(x) : x.reconciliation_records[c]}
  BY <1>3, Zenon
<1>5. /\ m.care_contacts = Cardinality(DOMAIN x.care_tickets)
      /\ m.closed_root_incidents = Cardinality(ClosedRoots(x))
      /\ m.root_incidents = Cardinality(Roots(x))
  BY MetricsAre
<1> HIDE DEF score, m, matched, required, funnel
<1>6. funnel.matched = matched /\ funnel.reactive = DOMAIN x.care_tickets \ matched
  BY <1>1
<1>7. /\ score.care_contacts_pre_correlated = Cardinality(funnel.matched)
      /\ score.care_contacts_total = m.care_contacts
      /\ score.cases_closed = m.closed_root_incidents /\ score.cases_total = m.root_incidents
      /\ score.human_review_required = Cardinality(required)
  BY <1>2
<1>8. /\ score.care_contacts_pre_correlated =
           Cardinality({c \in Cases(x) : x.care_tickets[c].match})
      /\ score.care_contacts_total = Cardinality(Cases(x))
      /\ score.human_review_required =
           Cardinality({c \in Cases(x) : x.reconciliation_records[c]})
      /\ funnel.reactive = Cases(x) \ {c \in Cases(x) : x.care_tickets[c].match}
  BY <1>3, <1>4, <1>5, <1>6, <1>7
<1> QED BY <1>5, <1>7, <1>8 DEF score, funnel

\* Every ticket tells the story of its incident.
LEMMA StoriesHoldHolds ==
  ASSUME NEW x, Sound(x), NEW place \in PlanningPlaces, NEW rows,
         rows = [c \in Cases(x) |-> Row(x, c, place)]
  PROVE  StoriesHold(x, rows)
<1> DEFINE stories == Stories(x)
           score == Scorecard(x)
           p == StatusPartition(x)
           matched == {c \in Cases(x) : x.care_tickets[c].match}
<1>1. PICK S \in SUBSET Roots(x) : \A c \in Cases(x) : TicketIs(x, c, S)
  BY TicketsAre
<1>2. DOMAIN stories = Cases(x) /\ \A c \in Cases(x) : stories[c] = Story(x, c)
  BY CareDomain DEF Stories
<1> HIDE DEF stories
<1>3. ASSUME NEW c \in Cases(x)
      PROVE  LET s == stories[c]
                 root == Manifest(x, c).root
             IN /\ s.root = root /\ s.care = x.care_tickets[c]
                /\ s.saw_it_first = x.care_tickets[c].match
                /\ s.incident = x.incidents[root]
                /\ s.incident_reviewed = x.care_ticket_reviews[c]
                /\ s.required = x.reconciliation_records[c]
                /\ s.human = x.human_decisions[c].status
                /\ s.resolution = x.resolution_events[c]
  <2> DEFINE s == stories[c]
             root == Manifest(x, c).root
             t == x.care_tickets[c]
  <2>1. s = [root |-> root, care |-> t, saw_it_first |-> t.match,
             incident |-> x.incidents[root], incident_reviewed |-> x.care_ticket_reviews[c],
             required |-> x.reconciliation_records[c], human |-> x.human_decisions[c].status,
             action |-> x.action_events[c].status, validation |-> x.validation_events[c],
             resolution |-> x.resolution_events[c]]
    BY <1>2, Zenon DEF Story
  <2> HIDE DEF s, root, t
  <2>2. /\ s.root = root /\ s.care = t /\ s.saw_it_first = t.match
        /\ s.incident = x.incidents[root] /\ s.incident_reviewed = x.care_ticket_reviews[c]
        /\ s.required = x.reconciliation_records[c] /\ s.human = x.human_decisions[c].status
        /\ s.resolution = x.resolution_events[c]
    BY <2>1
  <2> QED BY <2>2, Zenon DEF s, root, t
<1>4. Cardinality({stories[c].root : c \in {e \in DOMAIN stories :
                                            stories[e].care.status = "CLOSED"}})
        = score.cases_closed
  <2> DEFINE told == {stories[c].root : c \in {e \in DOMAIN stories :
                                               stories[e].care.status = "CLOSED"}}
  <2>1. ASSUME NEW r \in told PROVE r \in ClosedRoots(x)
    <3>1. PICK c \in Cases(x) : stories[c].care.status = "CLOSED" /\ r = stories[c].root
      BY <1>2
    <3>2. TicketIs(x, c, S)
      BY <1>1
    <3>3. /\ Manifest(x, c).root \in Roots(x)
          /\ x.incidents[Manifest(x, c).root].status = "CLOSED"
      BY <1>3, <3>1, <3>2 DEF TicketIs
    <3> QED BY <1>3, <3>1, <3>3 DEF ClosedRoots
  <2>2. ASSUME NEW r \in ClosedRoots(x) PROVE r \in told
    <3>1. r \in Cases(x) /\ Manifest(x, r).root = r /\ x.incidents[r].status = "CLOSED"
      BY SoundGate DEF GraphIsRooted, ClosedRoots
    <3>2. TicketIs(x, r, S)
      BY <1>1, <3>1
    <3>3. stories[r].care.status = "CLOSED" /\ stories[r].root = r
      BY <1>3, <3>1, <3>2 DEF TicketIs
    <3> QED BY <1>2, <3>1, <3>3
  <2>3. told = ClosedRoots(x)
    <3> HIDE DEF told
    <3> QED BY <2>1, <2>2
  <2> QED BY <2>3, ScoreIs
<1>5. score.human_review_required = Cardinality({c \in DOMAIN stories : stories[c].required})
  <2>1. {c \in DOMAIN stories : stories[c].required} = {c \in Cases(x) : x.reconciliation_records[c]}
    <3>1. \A c \in Cases(x) : stories[c].required <=> x.reconciliation_records[c]
      BY <1>3
    <3> QED BY <1>2, <3>1, Zenon
  <2> QED BY <2>1, ScoreIs
<1>6. score.care_contacts_pre_correlated + Cardinality(CareFunnel(x).reactive)
        = score.care_contacts_total
  <2>1. matched \in SUBSET Cases(x)
    OBVIOUS
  <2>2. Cardinality(matched) + Cardinality(Cases(x) \ matched) = Cardinality(Cases(x))
    BY <2>1, SplitCount
  <2> QED BY <2>2, ScoreIs
<1>7. ASSUME NEW c \in Cases(x)
      PROVE  LET s == stories[c]
             IN /\ s.care.closed = s.incident.closed
                /\ s.incident_reviewed = s.incident.status
                /\ s.human = "PENDING" => s.root \in p.waiting /\ s.required
                /\ s.saw_it_first => s.incident.opened < Manifest(x, c).at
                /\ \A e \in Cases(x) :
                     stories[e].root = s.root => stories[e].saw_it_first = s.saw_it_first
                /\ rows[c].match = s.saw_it_first
                /\ rows[c].incident = s.incident.status
                /\ rows[c].validated = (s.resolution # << >>)
  <2> DEFINE s == stories[c]
  <2>1. TicketIs(x, c, S)
    BY <1>1
  <2>2. s.care.closed = s.incident.closed /\ s.incident_reviewed = s.incident.status
    BY <1>3, <2>1 DEF TicketIs
  <2>3. ASSUME s.human = "PENDING" PROVE s.root \in p.waiting /\ s.required
    <3>1. c \in WaitingCases(x)
      BY <1>3, <2>3 DEF WaitingCases
    <3>2. Manifest(x, c).root = c /\ p.waiting = WaitingCases(x)
      BY <3>1, WaitingIs, PartitionIs
    <3>3. x.reconciliation_records[c] = TRUE
      BY <3>1, WaitingIs
    <3>4. s.root = c /\ s.required = x.reconciliation_records[c]
      BY <1>3, <3>2
    <3> HIDE DEF s, p
    <3> QED BY <3>1, <3>2, <3>3, <3>4
  <2>4. ASSUME s.saw_it_first PROVE s.incident.opened < Manifest(x, c).at
    <3>1. x.incidents[Manifest(x, c).root].opened = -Minutes(60)
      BY <1>3, <2>1, <2>4 DEF TicketIs
    <3>2. Manifest(x, c).at \in Int /\ Manifest(x, c).at >= 0
      <4>1. Manifest(x, c) \in Manifests
        BY SizeIs, SoundGate
      <4>2. Manifest(x, c).at >= 0
        BY Zenon DEF Sound, Settled
      <4> QED BY <4>1, <4>2 DEF Manifests
    <3>3. s.incident.opened = -Minutes(60)
      BY <1>3, <3>1
    <3> HIDE DEF s
    <3> QED BY <3>2, <3>3 DEF Minutes
  <2>5. ASSUME NEW e \in Cases(x), stories[e].root = s.root
        PROVE  stories[e].saw_it_first = s.saw_it_first
    <3>1. TicketIs(x, e, S)
      BY <1>1
    <3>2. x.care_tickets[e].match \in BOOLEAN /\ x.care_tickets[c].match \in BOOLEAN
          /\ (x.care_tickets[e].match <=> Manifest(x, e).root \in S)
          /\ (x.care_tickets[c].match <=> Manifest(x, c).root \in S)
      BY <2>1, <3>1 DEF TicketIs
    <3>3. Manifest(x, e).root = Manifest(x, c).root
      BY <1>3, <2>5
    <3>4. x.care_tickets[e].match = x.care_tickets[c].match
      BY <3>2, <3>3
    <3> QED BY <1>3, <3>4
  <2>6. /\ rows[c].match = x.care_tickets[c].match
        /\ rows[c].incident = x.incidents[Manifest(x, c).root].status
        /\ rows[c].validated = Validated(x, c)
    BY RowIs
  <2>7. Validated(x, c) = (x.resolution_events[c] # << >>)
    <3>1. Validated(x, c) <=> Restoration(x, c)
      BY CaseFacts
    <3>2. (x.validation_events[c] # << >>) <=> (x.resolution_events[c] # << >>)
      BY <3>1, Zenon DEF Validated, Restoration
    <3> QED BY <3>2 DEF Validated
  <2>8. /\ rows[c].match = s.saw_it_first
        /\ rows[c].incident = s.incident.status
        /\ rows[c].validated = (s.resolution # << >>)
    BY <1>3, <2>6, <2>7
  <2> HIDE DEF s, p
  <2> QED BY <2>2, <2>3, <2>4, <2>5, <2>8, Zenon DEF s
<1> HIDE DEF p, score
<1> QED BY <1>2, <1>4, <1>5, <1>6, <1>7, Zenon DEF StoriesHold, stories, score, p

OfPriority(x, S) ==
  [p \in {"P1", "P2", "P3"} |-> Cardinality({c \in S : Priority(ScenarioOf(x, c)) = p})]

\* What a filter leaves of the queue.
LEMMA QueueIs ==
  ASSUME NEW x, NEW filter
  PROVE  LET q == CareQueue(x, filter)
             wanted == Wanted(x, filter)
         IN /\ q.filtered_total = Cardinality(wanted)
            /\ q.closed = Cardinality({c \in wanted : x.care_tickets[c].status = "CLOSED"})
            /\ q.of = OfPriority(x, wanted)
            /\ q.predictively_matched = Cardinality({c \in wanted : x.care_tickets[c].match})
            /\ q.repeat_contacts = Cardinality({c \in wanted : Manifest(x, c).seq > 0})
<1> DEFINE q == CareQueue(x, filter)
           wanted == Wanted(x, filter)
           open == Cardinality({c \in wanted : x.care_tickets[c].status = "OPEN"})
           closed == Cardinality({c \in wanted : x.care_tickets[c].status = "CLOSED"})
           Ranked(p) == Cardinality({c \in wanted : Priority(ScenarioOf(x, c)) = p})
           of == [p \in {"P1", "P2", "P3"} |-> Ranked(p)]
           matched == Cardinality({c \in wanted : x.care_tickets[c].match})
           repeats == Cardinality({c \in wanted : Manifest(x, c).seq > 0})
<1>1. q = [filtered_total |-> Cardinality(wanted), open |-> open, closed |-> closed, of |-> of,
           predictively_matched |-> matched, repeat_contacts |-> repeats]
  BY Zenon DEF CareQueue
<1> HIDE DEF q, wanted, open, closed, Ranked, of, matched, repeats
<1>3. /\ q.filtered_total = Cardinality(wanted) /\ q.closed = closed /\ q.of = of
      /\ q.predictively_matched = matched /\ q.repeat_contacts = repeats
  BY <1>1
<1> QED BY <1>3, Zenon DEF q, wanted, closed, Ranked, of, matched, repeats, OfPriority

\* The sets the filters of one field leave.
LEMMA FiltersAre ==
  ASSUME NEW x, Sound(x)
  PROVE  /\ Wanted(x, AnyTicket) = Cases(x)
         /\ \A s \in {"OPEN", "CLOSED"} :
              Wanted(x, [AnyTicket EXCEPT !["status"] = s])
                = {c \in Cases(x) : x.care_tickets[c].status = s}
         /\ \A p \in {"P1", "P2", "P3"} :
              Wanted(x, [AnyTicket EXCEPT !["priority"] = p])
                = {c \in Cases(x) : Priority(ScenarioOf(x, c)) = p}
         /\ Wanted(x, [AnyTicket EXCEPT !["match"] = {TRUE}])
              = {c \in Cases(x) : x.care_tickets[c].match}
         /\ Wanted(x, [AnyTicket EXCEPT !["match"] = {FALSE}])
              = Cases(x) \ {c \in Cases(x) : x.care_tickets[c].match}
<1> DEFINE Of(s, p, m) == [status |-> s, priority |-> p, match |-> m]
           both == {TRUE, FALSE}
           Fits(c, s, p, m) == /\ s \in {NoFilter, x.care_tickets[c].status}
                               /\ p \in {NoFilter, Priority(ScenarioOf(x, c))}
                               /\ m \in {both, {x.care_tickets[c].match}}
<1>1. AnyTicket = Of(NoFilter, NoFilter, both)
  BY DEF AnyTicket
<1>2. /\ \A s : [AnyTicket EXCEPT !["status"] = s] = Of(s, NoFilter, both)
      /\ \A p : [AnyTicket EXCEPT !["priority"] = p] = Of(NoFilter, p, both)
      /\ \A m : [AnyTicket EXCEPT !["match"] = m] = Of(NoFilter, NoFilter, m)
  <2> HIDE DEF both
  <2> QED BY <1>1
<1>3. \A s, p, m : Wanted(x, Of(s, p, m)) = {c \in Cases(x) : Fits(c, s, p, m)}
  <2> TAKE s, p, m
  <2> DEFINE filter == Of(s, p, m)
  <2>1. filter.status = s /\ filter.priority = p /\ filter.match = m
    OBVIOUS
  <2>2. DOMAIN x.care_tickets = Cases(x)
    BY CareDomain
  <2> HIDE DEF filter
  <2>3. Wanted(x, filter) =
          {c \in DOMAIN x.care_tickets :
             /\ filter.status \in {NoFilter, x.care_tickets[c].status}
             /\ filter.priority \in {NoFilter, Priority(ScenarioOf(x, c))}
             /\ filter.match \in {{TRUE, FALSE}, {x.care_tickets[c].match}}}
    BY Zenon DEF Wanted
  <2>4. Wanted(x, filter) =
          {c \in Cases(x) : /\ s \in {NoFilter, x.care_tickets[c].status}
                            /\ p \in {NoFilter, Priority(ScenarioOf(x, c))}
                            /\ m \in {{TRUE, FALSE}, {x.care_tickets[c].match}}}
    BY <2>1, <2>2, <2>3, Zenon
  <2> QED BY <2>4 DEF filter
<1>4. \A c \in Cases(x) : x.care_tickets[c].match \in BOOLEAN
  BY TicketsAre DEF TicketIs
<1> HIDE DEF Of
<1>5. Wanted(x, AnyTicket) = Cases(x)
  <2>1. \A c \in Cases(x) : Fits(c, NoFilter, NoFilter, both)
    OBVIOUS
  <2> HIDE DEF Fits
  <2> QED BY <1>1, <1>3, <2>1
<1>6. ASSUME NEW s \in {"OPEN", "CLOSED"}
      PROVE  Wanted(x, [AnyTicket EXCEPT !["status"] = s])
               = {c \in Cases(x) : x.care_tickets[c].status = s}
  <2>1. \A c \in Cases(x) : Fits(c, s, NoFilter, both) <=> x.care_tickets[c].status = s
    BY DEF NoFilter
  <2>2. Wanted(x, [AnyTicket EXCEPT !["status"] = s]) = {c \in Cases(x) : Fits(c, s, NoFilter, both)}
    <3> HIDE DEF Fits, both
    <3>1. [AnyTicket EXCEPT !["status"] = s] = Of(s, NoFilter, both)
      BY <1>2
    <3>2. Wanted(x, Of(s, NoFilter, both)) = {c \in Cases(x) : Fits(c, s, NoFilter, both)}
      BY <1>3, ZenonT(40)
    <3> QED BY <3>1, <3>2, Zenon
  <2> HIDE DEF Fits, both
  <2> QED BY <2>1, <2>2, Zenon
<1>7. ASSUME NEW p \in {"P1", "P2", "P3"}
      PROVE  Wanted(x, [AnyTicket EXCEPT !["priority"] = p])
               = {c \in Cases(x) : Priority(ScenarioOf(x, c)) = p}
  <2>1. \A c \in Cases(x) : Fits(c, NoFilter, p, both) <=> Priority(ScenarioOf(x, c)) = p
    BY DEF NoFilter
  <2>2. Wanted(x, [AnyTicket EXCEPT !["priority"] = p]) = {c \in Cases(x) : Fits(c, NoFilter, p, both)}
    <3> HIDE DEF Fits, both
    <3>1. [AnyTicket EXCEPT !["priority"] = p] = Of(NoFilter, p, both)
      BY <1>2
    <3>2. Wanted(x, Of(NoFilter, p, both)) = {c \in Cases(x) : Fits(c, NoFilter, p, both)}
      BY <1>3, Zenon
    <3> QED BY <3>1, <3>2, Zenon
  <2> HIDE DEF Fits, both
  <2> QED BY <2>1, <2>2, Zenon
<1>8. ASSUME NEW m \in BOOLEAN
      PROVE  Wanted(x, [AnyTicket EXCEPT !["match"] = {m}])
               = {c \in Cases(x) : x.care_tickets[c].match = m}
  <2>1. ASSUME NEW c \in Cases(x)
        PROVE  Fits(c, NoFilter, NoFilter, {m}) <=> x.care_tickets[c].match = m
    <3> DEFINE k == x.care_tickets[c].match
    <3>1. k \in BOOLEAN
      BY <1>4
    <3> HIDE DEF k
    <3>2. {m} # both
      OBVIOUS
    <3>3. {m} = {k} <=> k = m
      OBVIOUS
    <3>4. {m} \in {both, {k}} <=> k = m
      BY <3>2, <3>3
    <3> HIDE DEF both
    <3> QED BY <3>4 DEF k
  <2>2. Wanted(x, [AnyTicket EXCEPT !["match"] = {m}])
          = {c \in Cases(x) : Fits(c, NoFilter, NoFilter, {m})}
    <3> HIDE DEF Fits, both
    <3> DEFINE k == {m}
    <3> HIDE DEF k
    <3>1. [AnyTicket EXCEPT !["match"] = k] = Of(NoFilter, NoFilter, k)
      BY <1>2
    <3>2. Wanted(x, Of(NoFilter, NoFilter, k)) = {c \in Cases(x) : Fits(c, NoFilter, NoFilter, k)}
      BY <1>3, Zenon
    <3>3. Wanted(x, [AnyTicket EXCEPT !["match"] = k]) = {c \in Cases(x) : Fits(c, NoFilter, NoFilter, k)}
      BY <3>1, <3>2, Zenon
    <3> QED BY <3>3 DEF k
  <2> HIDE DEF Fits, both
  <2> QED BY <2>1, <2>2, Zenon
<1>9. Wanted(x, [AnyTicket EXCEPT !["match"] = {TRUE}])
        = {c \in Cases(x) : x.care_tickets[c].match}
  <2>1. TRUE \in BOOLEAN /\ \A c \in Cases(x) : x.care_tickets[c].match = TRUE <=> x.care_tickets[c].match
    BY <1>4
  <2> QED BY <1>8, <2>1, Zenon
<1>10. Wanted(x, [AnyTicket EXCEPT !["match"] = {FALSE}])
         = Cases(x) \ {c \in Cases(x) : x.care_tickets[c].match}
  <2>1. FALSE \in BOOLEAN
    OBVIOUS
  <2>2. Wanted(x, [AnyTicket EXCEPT !["match"] = {FALSE}])
          = {c \in Cases(x) : x.care_tickets[c].match = FALSE}
    BY <1>8, <2>1
  <2>3. \A c \in Cases(x) : x.care_tickets[c].match = FALSE <=> ~x.care_tickets[c].match
    BY <1>4
  <2>4. {c \in Cases(x) : x.care_tickets[c].match = FALSE}
          = Cases(x) \ {c \in Cases(x) : x.care_tickets[c].match}
    BY <2>3, Zenon
  <2> QED BY <2>2, <2>4
<1> QED BY <1>5, <1>6, <1>7, <1>9, <1>10

\* The queue counts row by row what the projection counts by joins.
LEMMA QueueAgreesHolds ==
  ASSUME NEW x, Sound(x)
  PROVE  QueueAgrees(x)
<1> DEFINE all == CareQueue(x, AnyTicket)
           score == Scorecard(x)
           Left(field, value) ==
             CareQueue(x, [AnyTicket EXCEPT ![field] = value]).filtered_total
           matched == {c \in Cases(x) : x.care_tickets[c].match}
           Has(s) == {c \in Cases(x) : x.care_tickets[c].status = s}
           n == Cardinality(Cases(x))
<1>1. PICK S \in SUBSET Roots(x) : \A c \in Cases(x) : TicketIs(x, c, S)
  BY TicketsAre
<1>2. /\ score.care_contacts_pre_correlated = Cardinality(matched)
      /\ score.care_contacts_total = n
      /\ score.cases_closed = Cardinality(ClosedRoots(x))
      /\ score.cases_total = Cardinality(Roots(x))
      /\ ExecutiveMetrics(x).case_attempts = n
  BY ScoreIs, MetricsAre
<1>3. /\ all.closed = Cardinality(Has("CLOSED"))
      /\ all.predictively_matched = Cardinality(matched)
      /\ all.repeat_contacts = Cardinality({c \in Cases(x) : Manifest(x, c).seq > 0})
      /\ DOMAIN all.of = {"P1", "P2", "P3"}
      /\ \A p \in {"P1", "P2", "P3"} :
           all.of[p] = Cardinality({c \in Cases(x) : Priority(ScenarioOf(x, c)) = p})
  <2>1. Wanted(x, AnyTicket) = Cases(x)
    BY FiltersAre
  <2> DEFINE wanted == Wanted(x, AnyTicket)
             Ranked(p) == Cardinality({c \in wanted : Priority(ScenarioOf(x, c)) = p})
  <2>2. /\ all.closed = Cardinality({c \in wanted : x.care_tickets[c].status = "CLOSED"})
        /\ all.predictively_matched = Cardinality({c \in wanted : x.care_tickets[c].match})
        /\ all.repeat_contacts = Cardinality({c \in wanted : Manifest(x, c).seq > 0})
    BY QueueIs, Zenon
  <2>5. all.of = [p \in {"P1", "P2", "P3"} |-> Ranked(p)]
    <3>1. all.of = OfPriority(x, wanted)
      BY QueueIs, Zenon
    <3> QED BY <3>1, Zenon DEF OfPriority
  <2>3. \A p : Ranked(p) = Cardinality({c \in Cases(x) : Priority(ScenarioOf(x, c)) = p})
    BY <2>1, Zenon
  <2> HIDE DEF all, Ranked
  <2>4. DOMAIN all.of = {"P1", "P2", "P3"} /\ \A p \in {"P1", "P2", "P3"} : all.of[p] = Ranked(p)
    BY <2>5
  <2> QED BY <2>1, <2>2, <2>3, <2>4
<1>4. /\ \A s \in {"OPEN", "CLOSED"} : Left("status", s) = Cardinality(Has(s))
      /\ \A p \in {"P1", "P2", "P3"} :
           Left("priority", p) = Cardinality({c \in Cases(x) : Priority(ScenarioOf(x, c)) = p})
      /\ Left("match", {TRUE}) = Cardinality(matched)
      /\ Left("match", {FALSE}) = Cardinality(Cases(x) \ matched)
  <2>1. \A field, value : Left(field, value) = Cardinality(Wanted(x, [AnyTicket EXCEPT ![field] = value]))
    <3> TAKE field, value
    <3> DEFINE filter == [AnyTicket EXCEPT ![field] = value]
    <3> HIDE DEF filter
    <3>1. CareQueue(x, filter).filtered_total = Cardinality(Wanted(x, filter))
      BY QueueIs, Zenon
    <3> QED BY <3>1 DEF filter
  <2> HIDE DEF Left, Has, matched
  <2>2. /\ \A s \in {"OPEN", "CLOSED"} : Wanted(x, [AnyTicket EXCEPT !["status"] = s]) = Has(s)
        /\ Wanted(x, [AnyTicket EXCEPT !["match"] = {TRUE}]) = matched
        /\ Wanted(x, [AnyTicket EXCEPT !["match"] = {FALSE}]) = Cases(x) \ matched
    BY FiltersAre, Zenon DEF Has, matched
  <2>3. \A s \in {"OPEN", "CLOSED"} : Left("status", s) = Cardinality(Has(s))
    BY <2>1, <2>2, Zenon
  <2>4. \A p \in {"P1", "P2", "P3"} :
          Left("priority", p) = Cardinality({c \in Cases(x) : Priority(ScenarioOf(x, c)) = p})
    BY <2>1, FiltersAre, Zenon
  <2>5. Left("match", {TRUE}) = Cardinality(matched)
        /\ Left("match", {FALSE}) = Cardinality(Cases(x) \ matched)
    BY <2>1, <2>2, Zenon
  <2> QED BY <2>3, <2>4, <2>5
<1>5. Cardinality(matched) + Cardinality(Cases(x) \ matched) = n
  <2>1. matched \in SUBSET Cases(x) /\ Cases(x) \in SUBSET Cases(x)
    OBVIOUS
  <2> HIDE DEF matched
  <2> QED BY <2>1, SplitCount
<1>6. Cardinality(Has("OPEN")) + Cardinality(Has("CLOSED")) = n
  <2>1. \A c \in Cases(x) : x.care_tickets[c].status \in {"OPEN", "CLOSED"}
    BY <1>1 DEF TicketIs
  <2>2. Cases(x) \ Has("OPEN") = Has("CLOSED")
    BY <2>1
  <2>3. Has("OPEN") \in SUBSET Cases(x) /\ Cases(x) \in SUBSET Cases(x)
    OBVIOUS
  <2> HIDE DEF Has
  <2> QED BY <2>2, <2>3, SplitCount
<1>7. Cardinality({c \in Cases(x) : Manifest(x, c).seq > 0}) = n - Cardinality(Roots(x))
  <2> DEFINE T == {c \in Cases(x) : Manifest(x, c).seq > 0}
  <2>1. n = Size(x) /\ Cardinality(Roots(x)) = Size(x) - Cardinality(T)
    BY RootsAreTheRest, SoundGate
  <2>2. T \in SUBSET Cases(x) /\ Size(x) \in Nat
    BY SizeIs DEF Sound
  <2>3. Cardinality(T) \in Nat
    BY <2>2, FiniteCases
  <2> HIDE DEF T, n
  <2>4. Cardinality(T) = n - Cardinality(Roots(x))
    BY <2>1, <2>2, <2>3
  <2> QED BY <2>4 DEF T
<1>8. Cardinality(Has("CLOSED")) > 0 <=> Cardinality(ClosedRoots(x)) > 0
  <2>1. Has("CLOSED") # {} => ClosedRoots(x) # {}
    <3> SUFFICES ASSUME NEW c \in Has("CLOSED") PROVE ClosedRoots(x) # {}
      OBVIOUS
    <3>1. TicketIs(x, c, S) /\ x.care_tickets[c].status = "CLOSED"
      BY <1>1
    <3>2. Manifest(x, c).root \in ClosedRoots(x)
      BY <3>1 DEF TicketIs, ClosedRoots
    <3> QED BY <3>2
  <2>2. ClosedRoots(x) # {} => Has("CLOSED") # {}
    <3> SUFFICES ASSUME NEW r \in ClosedRoots(x) PROVE Has("CLOSED") # {}
      OBVIOUS
    <3>1. r \in Cases(x) /\ Manifest(x, r).root = r /\ x.incidents[r].status = "CLOSED"
      BY SoundGate DEF GraphIsRooted, ClosedRoots
    <3>2. TicketIs(x, r, S)
      BY <1>1, <3>1
    <3>3. r \in Has("CLOSED")
      BY <3>1, <3>2 DEF TicketIs
    <3> QED BY <3>3
  <2>3. Has("CLOSED") \in SUBSET Cases(x) /\ ClosedRoots(x) \in SUBSET Cases(x)
    BY SizeIs DEF Sound, ClosedRoots
  <2>4. ASSUME NEW A \in SUBSET Cases(x) PROVE Cardinality(A) > 0 <=> A # {}
    <3>1. IsFiniteSet(A) /\ Cardinality(A) \in Nat
      BY FiniteCases
    <3>2. Cardinality(A) = 0 <=> A = {}
      BY <3>1, FS_EmptySet
    <3> QED BY <3>1, <3>2
  <2> HIDE DEF Has
  <2> QED BY <2>1, <2>2, <2>3, <2>4
<1> HIDE DEF all, score, Left, matched, Has, n
<1>9. /\ all.predictively_matched = score.care_contacts_pre_correlated
      /\ all.repeat_contacts = ExecutiveMetrics(x).case_attempts - score.cases_total
      /\ Left("status", "OPEN") + Left("status", "CLOSED") = score.care_contacts_total
      /\ \A p \in DOMAIN all.of : Left("priority", p) = all.of[p]
      /\ Left("match", {TRUE}) + Left("match", {FALSE}) = score.care_contacts_total
      /\ (all.closed > 0 <=> score.cases_closed > 0)
  <2>1. \A p \in DOMAIN all.of : Left("priority", p) = all.of[p]
    BY <1>3, <1>4
  <2>2. Left("status", "OPEN") + Left("status", "CLOSED") = score.care_contacts_total
    BY <1>2, <1>4, <1>6
  <2>3. Left("match", {TRUE}) + Left("match", {FALSE}) = score.care_contacts_total
    BY <1>2, <1>4, <1>5
  <2>4. all.repeat_contacts = ExecutiveMetrics(x).case_attempts - score.cases_total
    BY <1>2, <1>3, <1>7
  <2>5. (all.closed > 0 <=> score.cases_closed > 0)
        /\ all.predictively_matched = score.care_contacts_pre_correlated
    BY <1>2, <1>3, <1>8
  <2> QED BY <2>1, <2>2, <2>3, <2>4, <2>5
<1> QED BY <1>9, Zenon DEF QueueAgrees, all, score, Left

-----------------------------------------------------------------------------
(* Everything accounted for *)

\* Whatever was generated, with the care queue built from its incidents, is not
\* refused by the projections, and every account they give of it adds up.
THEOREM SoundIsAccounted ==
  ASSUME NEW x, Sound(x), NEW places \in SUBSET PlanningPlaces
  PROVE  Accounts(x, x, places)
<1>1. ASSUME NEW place \in places PROVE Holds(x, place, Projected(x, x, place))
  <2> DEFINE rows == [c \in Cases(x) |-> Row(x, c, place)]
             costs == [c \in Cases(x) |-> rows[c].cost]
             p == Projected(x, x, place)
  <2>1. p = Projection(x, rows)
    BY NotRefused, Zenon DEF Projected
  <2>2. p = [refused |-> FALSE, cases |-> rows, summary |-> DispatchSummary(x, costs),
             reconciliation |-> Reconciliation(x, rows)]
    BY <2>1, Zenon DEF Projection
  <2>3. costs = [c \in Cases(x) |-> Costed(x, c, place)]
    <3>1. \A c \in Cases(x) : rows[c].cost = Costed(x, c, place)
      BY RowIs
    <3> HIDE DEF rows
    <3> QED BY <3>1, Zenon
  <2>4. WorkIsAccounted(x, place, DispatchSummary(x, costs))
    <3> HIDE DEF costs
    <3> QED BY <2>3, WorkIsAccountedHolds
  <2>5. /\ RowsReconcile(x, rows, Reconciliation(x, rows)) /\ CrewsMatchPlant(rows)
        /\ ProjectionsAgree(x, rows) /\ StoriesHold(x, rows)
    BY RowsReconcileHolds, CrewsMatchPlantHolds, ProjectionsAgreeHolds, StoriesHoldHolds
  <2> HIDE DEF rows, costs, p
  <2>6. /\ ~p.refused /\ p.cases = rows /\ p.summary = DispatchSummary(x, costs)
        /\ p.reconciliation = Reconciliation(x, rows)
    BY <2>2
  <2>7. Holds(x, place, p)
    BY <2>4, <2>5, <2>6 DEF Holds
  <2> QED BY <2>7 DEF p
<1> QED BY <1>1, ExecutedIgnoresPlansHolds, QueueAgreesHolds, Zenon DEF Accounts
=============================================================================
