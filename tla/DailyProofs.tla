----------------------------- MODULE DailyProofs -----------------------------
(***************************************************************************)
(* The two parts of the system that run once a day: the predictive branch  *)
(* (PredictiveBranch) and the plan of the crews (CrewDays).                *)
(*                                                                         *)
(* Of the branch, for any modems, courses of their faults, caps, windows,  *)
(* clocks and number of kills: the history remembers every closure of the  *)
(* window that the clock does not make it prune (MemoryInv), and what it   *)
(* calls open was handed over, or was lost by a kill between the write and *)
(* the return (OwnedInv); both hold of the file and of the history in      *)
(* memory, which differ while a run is under way.                          *)
(*                                                                         *)
(* Of the crews, for any kinds of work, customers, crew hours and arrivals *)
(* (CrewInv): what waits was either held, with more than 18 hours left, or *)
(* was left for want of hours.                                             *)
(***************************************************************************)
EXTENDS PredictiveBranch, CrewDays, TLAPS, FiniteSetTheorems

-----------------------------------------------------------------------------
(* The pipeline *)

\* Of two numbers one is the least.
LEMMA MinOfTwo ==
  ASSUME NEW a \in Int, NEW b \in Int
  PROVE  Min({a, b}) = IF a <= b THEN a ELSE b
<1>1. CASE a <= b
  <2>1. \A x \in {a, b} : (\A y \in {a, b} : x <= y) => x = a
    BY <1>1
  <2>2. a \in {a, b} /\ \A y \in {a, b} : a <= y
    BY <1>1
  <2> QED BY <1>1, <2>1, <2>2 DEF Min
<1>2. CASE ~(a <= b)
  <2>1. \A x \in {a, b} : (\A y \in {a, b} : x <= y) => x = b
    BY <1>2
  <2>2. b \in {a, b} /\ \A y \in {a, b} : b <= y
    BY <1>2
  <2> QED BY <1>2, <2>1, <2>2 DEF Min
<1> QED BY <1>1, <1>2

\* Whether the guard stops a dispatch does not depend on what the agents said.
LEMMA StoppedAlike ==
  ASSUME NEW t, NEW disagrees, NEW fallback
  PROVE  Stopped(DispatchRequest(t, disagrees, fallback))
           <=> Stopped(DispatchRequest(t, FALSE, FALSE))
BY DEF Stopped, Malformed, Spent, IllEquipped, DispatchRequest

LEMMA BlockedAlike ==
  ASSUME NEW t, NEW disagrees, NEW fallback
  PROVE  GuardVerdict(DispatchRequest(t, disagrees, fallback)) = "blocked"
           <=> GuardVerdict(DispatchRequest(t, FALSE, FALSE)) = "blocked"
<1>1. \A r : GuardVerdict(r) = "blocked" <=> Stopped(r)
  BY DEF GuardVerdict
<1> QED BY <1>1, StoppedAlike

\* A field visit for a known cause with a finding is never stopped by the guard.
LEMMA DispatchPasses ==
  ASSUME NEW t, t.cause \in Causes, IsFiniteSet(t.findings), t.findings # {}
  PROVE  ~Stopped(DispatchRequest(t, FALSE, FALSE))
<1> DEFINE r == DispatchRequest(t, FALSE, FALSE)
<1>1. /\ r.domain = DomainOf[t.cause] /\ r.action = DispatchOf(t) /\ r.base = NoBase
      /\ r.remoteAttempts = 0 /\ r.fieldVisits = 0 /\ r.maxField = 3
      /\ r.evidence = Cardinality(t.findings)
  BY DEF DispatchRequest
<1>2. /\ r.domain \in KnownDomains
      /\ r.domain \in PlantDomains => t.cause \in PhysicalCauses
  BY <1>1, DomainAssumption DEF Causes
<1>3. /\ r.action \in {"dirty_boots_mr", "clean_boots"}
      /\ r.action = "clean_boots" => t.cause \notin PhysicalCauses
  BY <1>1 DEF DispatchOf
<1>4. r.evidence # 0
  BY <1>1, FS_EmptySet
<1>5. Min({3, MaxField}) = 3
  BY MinOfTwo DEF MaxField
<1> HIDE DEF r
<1>6. ~Malformed(r)
  BY <1>1, <1>2, <1>3 DEF Malformed, KnownActions
<1>7. ~Spent(r)
  BY <1>1, <1>3, <1>5 DEF Spent, RemoteActions
<1>8. ~IllEquipped(r)
  BY <1>1 DEF IllEquipped
<1>9. ~Stopped(r)
  BY <1>2, <1>3, <1>4, <1>6, <1>7, <1>8 DEF Stopped, RemoteActions
<1> QED BY <1>9 DEF r

\* An outcome of the daily run is allowed or goes to a person, and a repeat goes
\* to a person.
LEMMA ProcessIs ==
  ASSUME NEW t, t.cause \in Causes, IsFiniteSet(t.findings), t.findings # {},
         NEW inWindow, NEW works
  PROVE  LET o == Process(t, inWindow, works)
         IN /\ o.ticket = t
            /\ o.verdict \in {"allowed", "requires_approval"}
            /\ o.verdict = "allowed" => ~t.repeat
<1> DEFINE o == Process(t, inWindow, works)
           resolved == Resolved(t, inWindow, works)
           notify == NotifyReasons(t, NeedsTruckRoll(t, inWindow, works), resolved)
<1>1. GuardVerdict(DispatchRequest(t, FALSE, FALSE)) # "blocked"
  BY DispatchPasses DEF GuardVerdict
<1>2. o.ticket = t
  BY DEF Process, Remediate
<1>3. o.verdict = IF ~resolved \/ notify # {} THEN "requires_approval" ELSE "allowed"
  <2> HIDE DEF resolved
  <2> DEFINE stopped == /\ NeedsTruckRoll(t, inWindow, works)
                        /\ GuardVerdict(DispatchRequest(t, FALSE, FALSE)) = "blocked"
  <2>1. ~stopped
    BY <1>1
  <2>2. o.verdict = CASE stopped -> "blocked"
                      [] ~stopped /\ (~resolved \/ notify # {}) -> "requires_approval"
                      [] OTHER -> "allowed"
    BY Zenon DEF Process, Remediate, resolved
  <2> HIDE DEF stopped, o, notify
  <2> QED BY <2>1, <2>2
<1>4. t.repeat => "repeat_offender" \in notify
  BY DEF NotifyReasons
<1> HIDE DEF o, notify, resolved
<1>5. o.verdict = "allowed" => ~t.repeat
  BY <1>3, <1>4
<1> QED BY <1>2, <1>3, <1>5 DEF o

\* What the agents make of a ticket is never milder than what the rules do.
LEMMA AgentsTighten ==
  ASSUME NEW t, NEW inWindow, NEW works, NEW reply
  PROVE  LET rules == Process(t, inWindow, works)
             agents == Reviewed(t, inWindow, works, reply)
         IN /\ agents.verdict = "allowed" => rules.verdict = "allowed"
            /\ rules.truckRoll /\ Breached(rules.ticket.findings) # {} => agents.truckRoll
<1> DEFINE rules == Process(t, inWindow, works)
           agents == Reviewed(t, inWindow, works, reply)
           triage == Decide(reply, TriageAnswers, BaselineTriage(t))
           disagrees == ~Agrees(triage, BaselineTriage(t))
           blocked(a, b) == NeedsTruckRoll(t, inWindow, works)
                              /\ GuardVerdict(DispatchRequest(t, a, b)) = "blocked"
           open == ~Resolved(t, inWindow, works)
                     \/ NotifyReasons(t, NeedsTruckRoll(t, inWindow, works),
                                      Resolved(t, inWindow, works)) # {}
           verdict(stopped) == CASE stopped -> "blocked"
                                 [] ~stopped /\ open -> "requires_approval"
                                 [] OTHER -> "allowed"
<1>1. /\ rules.ticket = t /\ rules.truckRoll = NeedsTruckRoll(t, inWindow, works)
      /\ rules.verdict = verdict(blocked(FALSE, FALSE))
  BY Zenon DEF Process, Remediate
<1>2. CASE triage.choice = "suppress"
  <2>1. agents = Suppressed(t)
    BY <1>2 DEF Reviewed
  <2>2. /\ agents.verdict # "allowed"
        /\ agents.truckRoll = (Breached(t.findings) # {})
    BY <2>1 DEF Suppressed
  <2> HIDE DEF rules, agents
  <2>3. /\ agents.verdict = "allowed" => rules.verdict = "allowed"
        /\ rules.truckRoll /\ Breached(rules.ticket.findings) # {} => agents.truckRoll
    BY <1>1, <2>2
  <2> QED BY <2>3 DEF rules, agents
<1>3. CASE triage.choice # "suppress"
  <2>0. \A a, b : /\ Remediate(t, inWindow, works, a, b).truckRoll = NeedsTruckRoll(t, inWindow, works)
                 /\ Remediate(t, inWindow, works, a, b).verdict = verdict(blocked(a, b))
    BY Zenon DEF Remediate
  <2>1. agents = Remediate(t, inWindow, works, disagrees, triage.fallback)
    BY <1>3, Zenon DEF Reviewed
  <2>2. /\ agents.truckRoll = NeedsTruckRoll(t, inWindow, works)
        /\ agents.verdict = verdict(blocked(disagrees, triage.fallback))
    <3> HIDE DEF agents, disagrees, triage, blocked, verdict
    <3> QED BY <2>0, <2>1
  <2>3. blocked(disagrees, triage.fallback) <=> blocked(FALSE, FALSE)
    BY BlockedAlike, Zenon
  <2> HIDE DEF rules, agents, disagrees, triage, blocked, open
  <2>4. agents.verdict = "allowed" => rules.verdict = "allowed"
    BY <1>1, <2>2, <2>3
  <2>5. rules.truckRoll /\ Breached(rules.ticket.findings) # {} => agents.truckRoll
    BY <1>1, <2>2
  <2>6. /\ agents.verdict = "allowed" => rules.verdict = "allowed"
        /\ rules.truckRoll /\ Breached(rules.ticket.findings) # {} => agents.truckRoll
    BY <2>4, <2>5
  <2> QED BY <2>6 DEF rules, agents
<1> QED BY <1>2, <1>3

-----------------------------------------------------------------------------
(* The history *)

LEMMA OldestIs ==
  /\ Oldest \in Nat /\ KeepDays \in Nat /\ Oldest = KeepDays + 1
  /\ \A age \in 0..Oldest :
       /\ Older(age) \in 0..Oldest
       /\ Older(age) <= KeepDays => Older(age) = age + 1 /\ age <= KeepDays
<1>1. Oldest \in Nat /\ KeepDays \in Nat /\ Oldest = KeepDays + 1
  BY BranchAssumption DEF Oldest
<1>2. \A age \in 0..Oldest : Older(age) = IF age + 1 <= Oldest THEN age + 1 ELSE Oldest
  <2> TAKE age \in 0..Oldest
  <2>1. age + 1 \in Int /\ Oldest \in Int
    BY <1>1
  <2> QED BY <2>1, MinOfTwo, Zenon DEF Older
<1> QED BY <1>1, <1>2

LEMMA BlankIs ==
  /\ Blank \in Histories
  /\ \A m \in Modems : Blank.open[m] = "none"
BY DEF Blank, Histories

LEMMA HistoryIs ==
  ASSUME NEW h \in Histories
  PROVE  /\ h # Torn /\ h # None
         /\ \A m \in Modems : h.flags[m] \in SUBSET (0..Oldest)
                              /\ h.open[m] \in {"none", "forecast", "proactive"}
BY MarkAssumption DEF Histories

LEMMA AgedIs ==
  ASSUME NEW h \in Histories
  PROVE  /\ Aged(h) \in Histories /\ Aged(h).open = h.open
         /\ \A m \in Modems : \A age \in h.flags[m] : Older(age) \in Aged(h).flags[m]
<1> DEFINE flags == [m \in Modems |-> {Older(a) : a \in h.flags[m]}]
<1>1. Aged(h) = [h EXCEPT !.flags = flags]
  BY Zenon DEF Aged
<1>2. /\ \A m \in Modems : flags[m] = {Older(a) : a \in h.flags[m]}
      /\ flags \in [Modems -> SUBSET (0..Oldest)]
  BY HistoryIs, OldestIs
<1> HIDE DEF flags
<1>3. Aged(h) \in Histories /\ Aged(h).open = h.open /\ Aged(h).flags = flags
  BY <1>1, <1>2 DEF Histories
<1> QED BY <1>2, <1>3

\* The outcomes of a run: of modems that are there, one each.
Sound(outcomes) ==
  /\ \A o \in outcomes :
       /\ o.ticket.modem \in Modems /\ o.ticket.class \in {"forecast", "proactive"}
       /\ o.verdict \in {"allowed", "requires_approval"}
  /\ \A o, p \in outcomes : o.ticket.modem = p.ticket.modem => o = p

LEMMA OutcomesAre ==
  ASSUME NEW R, Sound(R)
  PROVE  /\ {o.ticket.modem : o \in R} = Closed(R) \cup Gated(R)
         /\ Closed(R) \cap Gated(R) = {}
         /\ Closed(R) \subseteq Modems /\ Gated(R) \subseteq Modems
         /\ \A m \in Gated(R) : ClassIn(R, m) \in {"forecast", "proactive"}
<1>1. \A m : m \in Closed(R) <=> \E o \in R : o.verdict = "allowed" /\ m = o.ticket.modem
  BY DEF Closed, With
<1>2. \A m : m \in Gated(R) <=> \E o \in R : o.verdict = "requires_approval" /\ m = o.ticket.modem
  BY DEF Gated, With
<1>3. {o.ticket.modem : o \in R} = Closed(R) \cup Gated(R)
  BY <1>1, <1>2 DEF Sound
<1>4. Closed(R) \cap Gated(R) = {}
  BY <1>1, <1>2 DEF Sound
<1>5. Closed(R) \subseteq Modems /\ Gated(R) \subseteq Modems
  BY <1>1, <1>2 DEF Sound
<1>6. \A m \in Gated(R) : ClassIn(R, m) \in {"forecast", "proactive"}
  <2> TAKE m \in Gated(R)
  <2>1. \E o \in R : o.ticket.modem = m
    BY <1>2
  <2>2. (CHOOSE o \in R : o.ticket.modem = m) \in R
    BY <2>1
  <2> QED BY <2>2 DEF ClassIn, Sound
<1> QED BY <1>3, <1>4, <1>5, <1>6

LEMMA RecordedIs ==
  ASSUME NEW h \in Histories, NEW R, Sound(R), lag \in Nat
  PROVE  /\ Recorded(h, R) \in Histories
         /\ \A m \in Modems :
              /\ \A age \in h.flags[m] : age + lag <= KeepDays => age \in Recorded(h, R).flags[m]
              /\ m \in Closed(R) => /\ lag <= KeepDays => 0 \in Recorded(h, R).flags[m]
                                    /\ Recorded(h, R).open[m] = "none"
              /\ m \in Gated(R) => Recorded(h, R).open[m] = ClassIn(R, m)
              /\ m \notin Closed(R) \cup Gated(R) => Recorded(h, R).open[m] = h.open[m]
<1> DEFINE F(m) == {age \in h.flags[m] \cup (IF m \in Closed(R) THEN {0} ELSE {}) : age + lag <= KeepDays}
           G(m) == CASE m \in Closed(R) -> "none"
                     [] m \in {o.ticket.modem : o \in R} \ Closed(R) -> ClassIn(R, m)
                     [] OTHER -> h.open[m]
           new == Recorded(h, R)
<1>1. new = [flags |-> [m \in Modems |-> F(m)], open |-> [m \in Modems |-> G(m)]]
  BY Zenon DEF Recorded
<1>2. \A m \in Modems : new.flags[m] = F(m) /\ new.open[m] = G(m)
  <2> HIDE DEF new, F, G
  <2> QED BY <1>1
<1>3. \A m \in Modems :
        /\ m \in Closed(R) => G(m) = "none"
        /\ m \in Gated(R) => G(m) = ClassIn(R, m)
        /\ m \notin Closed(R) \cup Gated(R) => G(m) = h.open[m]
  BY OutcomesAre
<1>4. \A m \in Modems :
        /\ F(m) \in SUBSET (0..Oldest)
        /\ \A age \in h.flags[m] : age + lag <= KeepDays => age \in F(m)
        /\ m \in Closed(R) => (lag <= KeepDays => 0 \in F(m))
  BY HistoryIs, OldestIs
<1>5. \A m \in Modems : G(m) \in {"none", "forecast", "proactive"}
  BY <1>3, OutcomesAre, HistoryIs
<1> HIDE DEF new, F, G
<1>6. new \in Histories
  BY <1>1, <1>4, <1>5 DEF Histories
<1>7. /\ new \in Histories
      /\ \A m \in Modems :
           /\ \A age \in h.flags[m] : age + lag <= KeepDays => age \in new.flags[m]
           /\ m \in Closed(R) => (lag <= KeepDays => 0 \in new.flags[m]) /\ new.open[m] = "none"
           /\ m \in Gated(R) => new.open[m] = ClassIn(R, m)
           /\ m \notin Closed(R) \cup Gated(R) => new.open[m] = h.open[m]
  BY <1>2, <1>3, <1>4, <1>6
<1> QED BY <1>7 DEF new

\* A finding is a finding of a series, so there are finitely many.
LEMMA FindingsAre ==
  ASSUME NEW series, IsFiniteSet(series)
  PROVE  IsFiniteSet(Evaluate(series))
<1> DEFINE S == {q \in series : q.breached \/ (q.fits /\ q.eta <= Horizon)}
           f == [r \in S |-> [kpi |-> r.kpi, breached |-> r.breached,
                              eta |-> IF r.breached THEN 0 ELSE r.eta]]
<1>1. IsFiniteSet(S)
  BY FS_Subset
<1>2. Evaluate(series) = {f[r] : r \in S}
  BY DEF Evaluate
<1>3. f \in Surjection(S, {f[r] : r \in S})
  BY DEF Surjection
<1> HIDE DEF S, f
<1> QED BY <1>1, <1>2, <1>3, FS_Surjection

-----------------------------------------------------------------------------
(* The invariant *)

\* What was closed within the window is on record, unless the clock had it pruned.
Remembers(h, q, lost) == \A m \in Modems : q[m] <= RepeatWindow => q[m] \in h.flags[m] \/ m \in lost

\* Between the scan and the write the history in memory is ahead of the file: what it
\* closes it closes for the first time within the window, and of that and of what was
\* closed before it has kept what the clock lets it.
MemoryInv ==
  /\ file # Torn => Remembers(file, quiet, lapsed)
  /\ phase \in {"ready", "saved", "returned"} => Remembers(mem, quiet, lapsed)
  /\ phase \in {"recorded", "truncated"} =>
       \A m \in Modems :
         /\ m \in Closed(report) =>
              /\ quiet[m] > RepeatWindow \/ m \in lapsed
              /\ lag <= KeepDays => 0 \in mem.flags[m]
         /\ m \notin Closed(report) /\ quiet[m] <= RepeatWindow /\ quiet[m] + lag <= KeepDays =>
              quiet[m] \in mem.flags[m] \/ m \in lapsed
  /\ phase = "truncated" => file = Torn
  /\ phase \in {"saved", "returned"} => file = mem

\* What is open was handed over, except for what a kill took away.
Owned(h, given, lost) == \A m \in Modems : h.open[m] = given[m] \/ m \in lost

\* Until it returns, a run holds what it is about to hand over.
OwnedInv ==
  /\ phase \in {"off", "ready", "recorded", "returned"} /\ file # Torn =>
       Owned(file, handed, mislaid)
  /\ phase \in {"ready", "returned"} => Owned(mem, handed, mislaid)
  /\ phase \in {"recorded", "truncated", "saved"} =>
       \A m \in Modems :
         /\ m \in Closed(report) => mem.open[m] = "none"
         /\ m \in Gated(report) => mem.open[m] = ClassIn(report, m)
         /\ m \notin Closed(report) \cup Gated(report) =>
              mem.open[m] = handed[m] \/ m \in mislaid
  /\ phase = "saved" => \A m \in Closed(report) : handed[m] = "none"

\* What the agents made of a ticket stands next to what the rules made of it.
Compared ==
  review # None =>
    \E t, inWindow, works, reply :
      review = [rules |-> Process(t, inWindow, works), agents |-> Reviewed(t, inWindow, works, reply)]

InCourse == \A m \in Modems : progress[m] \in 1..Len(Course[cause[m]])

Inv == TypeOK /\ InCourse /\ Sound(report) /\ MemoryInv /\ OwnedInv

LEMMA CourseIs ==
  ASSUME NEW c \in Causes
  PROVE  Len(Course[c]) \in Nat /\ Len(Course[c]) > 0
BY CourseAssumption

LEMMA LagIs == Inv => lag \in Nat
BY BranchAssumption DEF Inv, TypeOK

LEMMA InitInv == Init => Inv
<1> SUFFICES ASSUME Init PROVE Inv
  OBVIOUS
<1>1. TypeOK
  BY BlankIs, OldestIs, BranchAssumption, MarkAssumption DEF Init, TypeOK
<1>2. InCourse
  BY CourseIs DEF Init, InCourse
<1>3. Sound(report)
  BY DEF Init, Sound
<1>4. MemoryInv
  BY OldestIs, BranchAssumption DEF Init, MemoryInv, Remembers
<1>5. OwnedInv
  BY BlankIs DEF Init, OwnedInv, Owned
<1> QED BY <1>1, <1>2, <1>3, <1>4, <1>5 DEF Inv

\* A torn file starts the branch, and the bookkeeping, anew.
LEMMA StartKeeps == ASSUME Inv, Start PROVE Inv'
<1>1. /\ phase = "off" /\ phase' = "ready" /\ file' = file /\ report' = report
      /\ cause' = cause /\ progress' = progress /\ lag' = lag /\ review' = review
      /\ troubles' = troubles /\ mem' = IF file = Torn THEN Blank ELSE file
      /\ due' = FALSE
  BY DEF Start, world
<1>2. CASE file = Torn
  <2>1. /\ handed' = [m \in Modems |-> "none"] /\ quiet' = [m \in Modems |-> Oldest]
        /\ mislaid' = {} /\ lapsed' = {} /\ mem' = Blank
    BY <1>1, <1>2 DEF Start
  <2>2. TypeOK'
    <3>1. /\ mem' \in Histories /\ mem' # None /\ mislaid' \subseteq Modems
          /\ lapsed' \subseteq Modems /\ handed' \in [Modems -> {"none", "forecast", "proactive"}]
          /\ quiet' \in [Modems -> 0..Oldest]
      BY <2>1, BlankIs, HistoryIs, OldestIs
    <3> QED BY <1>1, <3>1 DEF Inv, TypeOK
  <2>3. MemoryInv'
    BY <1>1, <1>2, <2>1, OldestIs, BranchAssumption DEF MemoryInv, Remembers
  <2>4. OwnedInv'
    BY <1>1, <1>2, <2>1, BlankIs DEF OwnedInv, Owned
  <2> QED BY <1>1, <2>2, <2>3, <2>4 DEF Inv, InCourse
<1>3. CASE file # Torn
  <2>1. handed' = handed /\ quiet' = quiet /\ mislaid' = mislaid /\ lapsed' = lapsed /\ mem' = file
    BY <1>1, <1>3 DEF Start, seen
  <2>2. TypeOK'
    BY <1>1, <1>3, <2>1, HistoryIs DEF Inv, TypeOK
  <2>3. MemoryInv'
    BY <1>1, <1>3, <2>1 DEF Inv, MemoryInv
  <2>4. OwnedInv'
    BY <1>1, <1>3, <2>1 DEF Inv, OwnedInv
  <2> QED BY <1>1, <2>1, <2>2, <2>3, <2>4 DEF Inv, InCourse
<1> QED BY <1>2, <1>3

\* The tickets of a run: of modems that show something, one each, and a repeat is
\* known by the flags of the history.
LEMMA TicketsAre ==
  ASSUME Inv, mem \in Histories, NEW t \in Tickets(mem)
  PROVE  /\ t.modem \in Modems /\ t = TicketOf(t.modem, mem)
         /\ t.cause \in Causes /\ t.class \in {"forecast", "proactive"}
         /\ IsFiniteSet(t.findings) /\ t.findings # {}
         /\ t.repeat = IsRepeat(t.modem, mem)
<1>1. t \in Candidates(mem)
  BY DEF Tickets, WithinCap
<1>2. PICK m \in Modems : t = TicketOf(m, mem) /\ Evaluate(SeriesOf(m, mem)) # {}
  BY <1>1 DEF Candidates
<1>3. /\ t.modem = m /\ t.cause = cause[m] /\ t.findings = Evaluate(SeriesOf(m, mem))
      /\ t.class = ClassOf(t.findings) /\ t.repeat = IsRepeat(m, mem)
  BY <1>2 DEF TicketOf, Ticket
<1>4. cause[m] \in Causes /\ progress[m] \in 1..Len(Course[cause[m]])
  BY DEF Inv, TypeOK, InCourse
<1>5. IsFiniteSet(SeriesOf(m, mem))
  <2>1. IsFiniteSet(Course[cause[m]][progress[m]]) /\ IsFiniteSet({})
    BY <1>4, CourseAssumption, FS_EmptySet
  <2> QED BY <2>1 DEF SeriesOf
<1>6. IsFiniteSet(t.findings) /\ t.findings # {}
  BY <1>2, <1>3, <1>5, FindingsAre
<1>7. t.class \in {"forecast", "proactive"}
  BY <1>3 DEF ClassOf
<1> QED BY <1>2, <1>3, <1>4, <1>6, <1>7

\* A run that closes a ticket found no closure on record within the window.
LEMMA ScanIs ==
  ASSUME Inv, Scan
  PROVE  /\ mem \in Histories /\ mem' = Recorded(mem, report') /\ Sound(report')
         /\ \A m \in Closed(report') : quiet[m] > RepeatWindow \/ m \in lapsed
<1>1. PICK inWindow, works :
        report' = {Process(t, inWindow, works[t.modem]) : t \in Tickets(mem)}
  BY DEF Scan
<1>2. mem \in Histories /\ mem' = Recorded(mem, report') /\ mem # None
  BY DEF Inv, TypeOK, Scan
<1>3. \A o \in report' : \E t \in Tickets(mem) :
        /\ o = Process(t, inWindow, works[t.modem]) /\ o.ticket = t
        /\ o.verdict \in {"allowed", "requires_approval"}
        /\ o.verdict = "allowed" => ~IsRepeat(t.modem, mem)
  <2> TAKE o \in report'
  <2>1. PICK t \in Tickets(mem) : o = Process(t, inWindow, works[t.modem])
    BY <1>1
  <2>2. /\ t.cause \in Causes /\ IsFiniteSet(t.findings) /\ t.findings # {}
        /\ t.repeat = IsRepeat(t.modem, mem)
    BY <1>2, TicketsAre
  <2>3. /\ o.ticket = t /\ o.verdict \in {"allowed", "requires_approval"}
        /\ o.verdict = "allowed" => ~t.repeat
    BY <2>1, <2>2, ProcessIs
  <2>4. o.verdict = "allowed" => ~IsRepeat(t.modem, mem)
    BY <2>2, <2>3, Zenon
  <2> QED BY <2>1, <2>3, <2>4
<1>4. \A t \in Tickets(mem) : /\ t.modem \in Modems /\ t = TicketOf(t.modem, mem)
                              /\ t.class \in {"forecast", "proactive"}
  BY <1>2, TicketsAre
<1>5. \A o, p \in report' : o.ticket.modem = p.ticket.modem => o = p
  <2> SUFFICES ASSUME NEW o \in report', NEW p \in report', o.ticket.modem = p.ticket.modem
               PROVE  o = p
    OBVIOUS
  <2>1. /\ o.ticket \in Tickets(mem) /\ o = Process(o.ticket, inWindow, works[o.ticket.modem])
        /\ p.ticket \in Tickets(mem) /\ p = Process(p.ticket, inWindow, works[p.ticket.modem])
    BY <1>3
  <2>2. o.ticket = TicketOf(o.ticket.modem, mem) /\ p.ticket = TicketOf(p.ticket.modem, mem)
    BY <1>4, <2>1
  <2>3. o.ticket = p.ticket
    BY <2>2, Zenon
  <2> QED BY <2>1, <2>3, Zenon
<1>6. Sound(report')
  BY <1>3, <1>4, <1>5 DEF Sound
<1>7. \A m \in Closed(report') : quiet[m] > RepeatWindow \/ m \in lapsed
  <2> TAKE m \in Closed(report')
  <2>1. PICK o \in report' : o.verdict = "allowed" /\ m = o.ticket.modem
    BY DEF Closed, With
  <2>2. ~IsRepeat(m, mem) /\ m \in Modems
    BY <1>3, <1>4, <2>1
  <2>3. quiet[m] <= RepeatWindow => quiet[m] \in mem.flags[m] \/ m \in lapsed
    BY <2>2 DEF Inv, MemoryInv, Remembers, Scan
  <2>4. ~(quiet[m] <= RepeatWindow) \/ m \in lapsed
    BY <2>2, <2>3 DEF IsRepeat
  <2>5. quiet[m] \in Nat /\ RepeatWindow \in Nat
    BY <2>2, OldestIs, BranchAssumption DEF Inv, TypeOK
  <2> QED BY <2>4, <2>5
<1> QED BY <1>2, <1>6, <1>7

LEMMA ScanKeeps == ASSUME Inv, Scan PROVE Inv'
<1>1. /\ phase = "ready" /\ phase' = "recorded" /\ file' = file /\ review' = review
      /\ cause' = cause /\ progress' = progress /\ due' = due /\ troubles' = troubles
      /\ handed' = handed /\ quiet' = quiet /\ mislaid' = mislaid /\ lapsed' = lapsed /\ lag' = lag
  BY DEF Scan, world, schedule, seen
<1>2. /\ mem \in Histories /\ mem' = Recorded(mem, report') /\ Sound(report')
      /\ \A m \in Closed(report') : quiet[m] > RepeatWindow \/ m \in lapsed
  BY ScanIs
<1> DEFINE new == Recorded(mem, report')
<1>3. /\ new \in Histories
      /\ \A m \in Modems :
           /\ \A age \in mem.flags[m] : age + lag <= KeepDays => age \in new.flags[m]
           /\ m \in Closed(report') => (lag <= KeepDays => 0 \in new.flags[m]) /\ new.open[m] = "none"
           /\ m \in Gated(report') => new.open[m] = ClassIn(report', m)
           /\ m \notin Closed(report') \cup Gated(report') => new.open[m] = mem.open[m]
  BY <1>2, LagIs, RecordedIs
<1> HIDE DEF new
<1>4. mem' = new /\ mem' # None /\ mem # None /\ Closed(report') \subseteq Modems
  BY <1>2, <1>3, HistoryIs, OutcomesAre DEF new
<1>5. TypeOK'
  BY <1>1, <1>3, <1>4 DEF Inv, TypeOK
<1>6. MemoryInv'
  <2>1. Remembers(mem, quiet, lapsed)
    BY <1>1 DEF Inv, MemoryInv
  <2>2. \A m \in Modems : quiet[m] <= RepeatWindow /\ quiet[m] + lag <= KeepDays
                            => quiet[m] \in new.flags[m] \/ m \in lapsed
    BY <1>3, <2>1 DEF Remembers
  <2> QED BY <1>1, <1>2, <1>3, <1>4, <2>2 DEF Inv, MemoryInv
<1>7. OwnedInv'
  <2>1. Owned(mem, handed, mislaid)
    BY <1>1 DEF Inv, OwnedInv
  <2> QED BY <1>1, <1>3, <1>4, <2>1 DEF Inv, OwnedInv, Owned
<1> QED BY <1>1, <1>2, <1>5, <1>6, <1>7 DEF Inv, InCourse

LEMMA TruncateKeeps == ASSUME Inv, Truncate PROVE Inv'
<1>1. /\ phase = "recorded" /\ phase' = "truncated" /\ file' = Torn /\ mem' = mem
      /\ cause' = cause /\ progress' = progress /\ due' = due /\ troubles' = troubles
      /\ handed' = handed /\ quiet' = quiet /\ mislaid' = mislaid /\ lapsed' = lapsed /\ lag' = lag /\ report' = report
  BY DEF Truncate, world, schedule, seen
<1>2. TypeOK'
  BY <1>1 DEF Inv, TypeOK
<1>3. MemoryInv' /\ OwnedInv'
  BY <1>1 DEF Inv, MemoryInv, OwnedInv
<1> QED BY <1>1, <1>2, <1>3 DEF Inv, InCourse

LEMMA WriteKeeps == ASSUME Inv, Write PROVE Inv'
<1>1. /\ phase = "truncated" /\ phase' = "saved" /\ file' = mem /\ mem' = mem
      /\ cause' = cause /\ progress' = progress /\ due' = due /\ troubles' = troubles
      /\ report' = report /\ review' = review
      /\ handed' = [m \in Modems |-> IF m \in Closed(report) THEN "none" ELSE handed[m]]
      /\ quiet' = [m \in Modems |-> IF m \in Closed(report) THEN 0 ELSE quiet[m]]
      /\ mislaid' = mislaid \ Closed(report) /\ lag' = lag
      /\ lapsed' = (lapsed \ Closed(report))
                     \cup {m \in Modems : quiet'[m] <= RepeatWindow /\ quiet'[m] + lag > KeepDays}
  BY DEF Write, world, schedule
<1>2. mem \in Histories /\ mem # None /\ mem # Torn
  BY <1>1, HistoryIs DEF Inv, TypeOK
<1>3. TypeOK'
  <2>1. /\ handed' \in [Modems -> {"none", "forecast", "proactive"}]
        /\ quiet' \in [Modems -> 0..Oldest] /\ mislaid' \subseteq Modems /\ lapsed' \subseteq Modems
    BY <1>1, OldestIs DEF Inv, TypeOK
  <2> QED BY <1>1, <1>2, <2>1 DEF Inv, TypeOK
<1>4. MemoryInv'
  <2>1. ASSUME NEW m \in Modems, quiet'[m] <= RepeatWindow, m \notin lapsed'
        PROVE  quiet'[m] \in mem.flags[m]
    <3>0. quiet[m] \in Nat /\ lag \in Nat /\ KeepDays \in Nat /\ RepeatWindow \in Nat
      BY LagIs, OldestIs, BranchAssumption DEF Inv, TypeOK
    <3>1. ~(quiet'[m] + lag > KeepDays) /\ m \notin lapsed \ Closed(report)
      BY <1>1, <2>1
    <3>2. CASE m \in Closed(report)
      <4>1. quiet'[m] = 0 /\ lag <= KeepDays
        BY <1>1, <3>0, <3>1, <3>2
      <4> QED BY <1>1, <3>2, <4>1 DEF Inv, MemoryInv
    <3>3. CASE m \notin Closed(report)
      <4>1. quiet'[m] = quiet[m] /\ quiet[m] + lag <= KeepDays /\ m \notin lapsed
        BY <1>1, <3>0, <3>1, <3>3
      <4> QED BY <1>1, <2>1, <3>3, <4>1 DEF Inv, MemoryInv
    <3> QED BY <3>2, <3>3
  <2>2. Remembers(mem, quiet', lapsed')
    BY <2>1 DEF Remembers
  <2> QED BY <1>1, <2>2 DEF MemoryInv
<1>5. OwnedInv'
  <2>1. Closed(report) \subseteq Modems /\ Closed(report) \cap Gated(report) = {}
    BY OutcomesAre DEF Inv
  <2> QED BY <1>1, <2>1 DEF Inv, OwnedInv
<1> QED BY <1>1, <1>3, <1>4, <1>5 DEF Inv, InCourse

LEMMA ReturnKeeps == ASSUME Inv, Return PROVE Inv'
<1>1. /\ phase = "saved" /\ phase' = "returned" /\ file' = file /\ mem' = mem
      /\ cause' = cause /\ progress' = progress /\ due' = due /\ troubles' = troubles
      /\ report' = report /\ review' = review /\ quiet' = quiet /\ lapsed' = lapsed /\ lag' = lag
      /\ handed' = [m \in Modems |-> IF m \in Gated(report) THEN ClassIn(report, m) ELSE handed[m]]
      /\ mislaid' = mislaid \ Gated(report)
  BY DEF Return, world, schedule
<1>2. /\ Closed(report) \cap Gated(report) = {}
      /\ Gated(report) \subseteq Modems /\ Closed(report) \subseteq Modems
      /\ \A m \in Gated(report) : ClassIn(report, m) \in {"forecast", "proactive"}
  BY OutcomesAre DEF Inv
<1>3. TypeOK'
  <2>1. /\ handed' \in [Modems -> {"none", "forecast", "proactive"}] /\ mislaid' \subseteq Modems
    BY <1>1, <1>2 DEF Inv, TypeOK
  <2> QED BY <1>1, <2>1 DEF Inv, TypeOK
<1>4. MemoryInv'
  BY <1>1 DEF Inv, MemoryInv, Remembers
<1>5. Owned(mem, handed', mislaid') /\ file = mem
  <2>1. file = mem
    BY <1>1 DEF Inv, MemoryInv
  <2>2. ASSUME NEW m \in Modems PROVE mem.open[m] = handed'[m] \/ m \in mislaid'
    <3>1. CASE m \in Gated(report)
      BY <1>1, <3>1 DEF Inv, OwnedInv
    <3>2. CASE m \in Closed(report)
      <4>1. mem.open[m] = "none" /\ handed[m] = "none"
        BY <1>1, <3>2 DEF Inv, OwnedInv
      <4> QED BY <1>1, <1>2, <3>2, <4>1
    <3>3. CASE m \notin Closed(report) \cup Gated(report)
      BY <1>1, <3>3 DEF Inv, OwnedInv
    <3> QED BY <3>1, <3>2, <3>3
  <2> QED BY <2>1, <2>2 DEF Owned
<1>6. OwnedInv'
  BY <1>1, <1>5 DEF OwnedInv
<1> QED BY <1>1, <1>3, <1>4, <1>6 DEF Inv, InCourse

LEMMA ExitKeeps == ASSUME Inv, Exit PROVE Inv'
<1>1. /\ phase = "returned" /\ phase' = "off" /\ file' = file /\ mem' = None /\ report' = {}
      /\ cause' = cause /\ progress' = progress /\ due' = due /\ troubles' = troubles
      /\ handed' = handed /\ quiet' = quiet /\ mislaid' = mislaid /\ lapsed' = lapsed /\ lag' = lag
  BY DEF Exit, Ends, world, schedule, seen
<1>2. TypeOK'
  BY <1>1 DEF Inv, TypeOK
<1>3. MemoryInv' /\ OwnedInv' /\ Sound(report')
  BY <1>1 DEF Inv, MemoryInv, OwnedInv, Sound
<1> QED BY <1>1, <1>2, <1>3 DEF Inv, InCourse

\* A kill between the write and the return takes the tickets away that the history
\* calls open.
LEMMA DieKeeps == ASSUME Inv, Die PROVE Inv'
<1>1. /\ phase # "off" /\ phase' = "off" /\ file' = file /\ mem' = None /\ report' = {}
      /\ cause' = cause /\ progress' = progress /\ due' = due
      /\ troubles < MaxTroubles /\ troubles' = troubles + 1
      /\ handed' = handed /\ quiet' = quiet /\ lapsed' = lapsed /\ lag' = lag
      /\ mislaid' = IF phase = "saved" THEN mislaid \cup Gated(report) ELSE mislaid
  BY DEF Die, Troubled, Ends, world
<1>2. Gated(report) \subseteq Modems
  BY OutcomesAre DEF Inv
<1>3. TypeOK'
  <2>1. troubles' \in 0..MaxTroubles
    BY <1>1, BranchAssumption DEF Inv, TypeOK
  <2>2. mislaid' \subseteq Modems
    BY <1>1, <1>2 DEF Inv, TypeOK
  <2> QED BY <1>1, <2>1, <2>2 DEF Inv, TypeOK
<1>4. MemoryInv' /\ Sound(report')
  BY <1>1 DEF Inv, MemoryInv, Sound
<1>5. OwnedInv'
  <2>1. file # Torn => Owned(file, handed, mislaid')
    <3>1. CASE phase = "saved"
      <4>1. file = mem
        BY <3>1 DEF Inv, MemoryInv
      <4> QED BY <1>1, <3>1, <4>1 DEF Inv, OwnedInv, Owned
    <3>2. CASE phase = "truncated"
      <4>1. file = Torn
        BY <3>2 DEF Inv, MemoryInv
      <4> QED BY <4>1
    <3>3. CASE phase \in {"ready", "recorded", "returned"}
      BY <1>1, <3>3 DEF Inv, OwnedInv
    <3> QED BY <1>1, <3>1, <3>2, <3>3 DEF Inv, TypeOK
  <2> QED BY <1>1, <2>1 DEF OwnedInv
<1> QED BY <1>1, <1>3, <1>4, <1>5 DEF Inv, InCourse

\* A day later every flag and the last closure are a day older.
LEMMA OlderIsRemembered ==
  ASSUME NEW h \in Histories, NEW q \in [Modems -> 0..Oldest], NEW lost, Remembers(h, q, lost)
  PROVE  Remembers(Aged(h), [m \in Modems |-> Older(q[m])], lost)
<1> SUFFICES ASSUME NEW m \in Modems, Older(q[m]) <= RepeatWindow, m \notin lost
             PROVE  Older(q[m]) \in Aged(h).flags[m]
  BY DEF Remembers
<1>1. q[m] \in 0..Oldest /\ q[m] <= RepeatWindow
  BY OldestIs, BranchAssumption
<1>2. q[m] \in h.flags[m]
  BY <1>1 DEF Remembers
<1> QED BY <1>2, AgedIs

LEMMA TomorrowKeeps == ASSUME Inv, Tomorrow PROVE Inv'
<1>1. /\ \/ phase = "returned" /\ phase' = "ready" /\ due' = FALSE /\ troubles' = troubles
         \/ phase = "off" /\ phase' = "off" /\ due' = TRUE
      /\ troubles' = troubles \/ (troubles < MaxTroubles /\ troubles' = troubles + 1)
      /\ file' = IfAny(file) /\ mem' = IfAny(mem) /\ report' = {}
      /\ quiet' = [m \in Modems |-> Older(quiet[m])]
      /\ cause' = cause /\ handed' = handed /\ mislaid' = mislaid /\ lapsed' = lapsed /\ lag' \in Lags
  BY DEF Tomorrow, Troubled
<1>2. PICK worse \in SUBSET {m \in Modems : progress[m] < Len(Course[cause[m]])} :
        progress' = [m \in Modems |-> progress[m] + (IF m \in worse THEN 1 ELSE 0)]
  BY DEF Tomorrow
<1>3. /\ \/ file = Torn /\ file' = Torn
         \/ file \in Histories /\ file' = Aged(file) /\ file' \in Histories /\ file' # Torn
      /\ \/ mem = None /\ mem' = None
         \/ mem \in Histories /\ mem' = Aged(mem) /\ mem' \in Histories /\ mem' # None
  <2>1. \A h \in Histories : /\ h # Torn /\ h # None /\ IfAny(h) = Aged(h)
                            /\ Aged(h) \in Histories /\ Aged(h) # Torn /\ Aged(h) # None
    BY AgedIs, HistoryIs DEF IfAny
  <2>2. IfAny(Torn) = Torn /\ IfAny(None) = None
    BY DEF IfAny
  <2>3. file \in Histories \cup {Torn} /\ mem \in Histories \cup {None}
    BY DEF Inv, TypeOK
  <2> QED BY <1>1, <2>1, <2>2, <2>3
<1>4. InCourse'
  <2>1. \A m \in Modems : /\ cause[m] \in Causes /\ progress[m] \in 1..Len(Course[cause[m]])
                          /\ m \in worse => progress[m] < Len(Course[cause[m]])
    BY <1>2 DEF Inv, TypeOK, InCourse
  <2>2. \A m \in Modems : progress'[m] \in 1..Len(Course[cause[m]])
    BY <1>2, <2>1, CourseIs
  <2>3. cause' = cause
    BY <1>1
  <2> QED BY <2>2, <2>3 DEF InCourse
<1>5. TypeOK'
  <2>1. progress' \in [Modems -> Nat]
    <3>1. \A m \in Modems : progress[m] \in Nat
      BY DEF Inv, TypeOK
    <3> QED BY <1>2, <3>1
  <2>4. quiet' \in [Modems -> 0..Oldest]
    <3>1. \A m \in Modems : quiet[m] \in 0..Oldest
      BY DEF Inv, TypeOK
    <3>2. \A m \in Modems : Older(quiet[m]) \in 0..Oldest
      BY <3>1, OldestIs
    <3> QED BY <1>1, <3>2
  <2>5. troubles' \in 0..MaxTroubles
    BY <1>1, BranchAssumption DEF Inv, TypeOK
  <2>2. (mem' = None) = (phase' = "off")
    BY <1>1, <1>3, HistoryIs DEF Inv, TypeOK
  <2>3. /\ file' \in Histories \cup {Torn} /\ mem' \in Histories \cup {None}
        /\ phase' \in {"off", "ready", "recorded", "truncated", "saved", "returned"}
        /\ due' \in BOOLEAN
    BY <1>1, <1>3
  <2> QED BY <1>1, <2>1, <2>2, <2>3, <2>4, <2>5 DEF Inv, TypeOK
<1>6. MemoryInv'
  <2>1. file' # Torn => Remembers(file', quiet', lapsed)
    BY <1>1, <1>3, HistoryIs, OlderIsRemembered DEF Inv, TypeOK, MemoryInv
  <2>2. phase' = "ready" => Remembers(mem', quiet', lapsed)
    BY <1>1, <1>3, HistoryIs, OlderIsRemembered DEF Inv, TypeOK, MemoryInv
  <2> QED BY <1>1, <2>1, <2>2 DEF MemoryInv
<1>7. OwnedInv'
  <2>1. file' # Torn => Owned(file', handed, mislaid)
    <3>1. file' # Torn => file # Torn /\ file \in Histories /\ file' = Aged(file)
      BY <1>3, HistoryIs
    <3>2. file # Torn => Owned(file, handed, mislaid)
      BY <1>1 DEF Inv, OwnedInv
    <3> QED BY <3>1, <3>2, AgedIs DEF Owned
  <2>2. phase' = "ready" => Owned(mem', handed, mislaid)
    <3>1. phase' = "ready" => Owned(mem, handed, mislaid) /\ mem # None
      BY <1>1 DEF Inv, OwnedInv, TypeOK
    <3>2. mem # None => mem \in Histories /\ mem' = Aged(mem)
      BY <1>3
    <3> QED BY <3>1, <3>2, AgedIs DEF Owned
  <2> QED BY <1>1, <2>1, <2>2 DEF OwnedInv
<1>8. Sound(report')
  BY <1>1 DEF Sound
<1> QED BY <1>4, <1>5, <1>6, <1>7, <1>8 DEF Inv

LEMMA ReviewKeeps == ASSUME Inv, Review PROVE Inv'
<1>1. UNCHANGED <<world, file, mem, phase, report, schedule, seen>>
  BY DEF Review
<1>2. TypeOK'
  BY <1>1 DEF Inv, TypeOK, world, schedule, seen
<1>3. MemoryInv' /\ OwnedInv' /\ InCourse' /\ Sound(report')
  BY <1>1 DEF Inv, MemoryInv, OwnedInv, InCourse, Remembers, world, schedule, seen
<1> QED BY <1>2, <1>3 DEF Inv

LEMMA NextInv == Inv /\ [Next]_vars => Inv'
<1> SUFFICES ASSUME Inv, [Next]_vars PROVE Inv'
  OBVIOUS
<1>1. CASE UNCHANGED vars
  <2>1. TypeOK'
    BY <1>1 DEF Inv, TypeOK, vars, world, schedule, seen
  <2>2. MemoryInv' /\ OwnedInv' /\ InCourse' /\ Sound(report')
    BY <1>1 DEF Inv, MemoryInv, OwnedInv, InCourse, vars, world, schedule, seen
  <2> QED BY <2>1, <2>2 DEF Inv
<1>2. CASE Run
  BY <1>2, StartKeeps, ScanKeeps, TruncateKeeps, WriteKeeps, ReturnKeeps, ExitKeeps DEF Run
<1>3. CASE Die
  BY <1>3, DieKeeps
<1>4. CASE Tomorrow
  BY <1>4, TomorrowKeeps
<1>5. CASE Review
  BY <1>5, ReviewKeeps
<1> QED BY <1>1, <1>2, <1>3, <1>4, <1>5 DEF Next

\* The history remembers as far as the clock lets it, and what it calls open is owned,
\* on every day and whenever the process is killed.
THEOREM Inductive == Spec => []Inv
<1> QED BY InitInv, NextInv, PTL DEF Spec

\* The type invariant, for every value of the constants.
THEOREM TypeCorrect == Spec => []TypeOK
<1>1. Inv => TypeOK
  BY DEF Inv
<1> QED BY <1>1, Inductive, PTL

\* A modem that was closed without a word is not closed without a word again
\* within the window, unless the clock is so far ahead of the date of the runs that
\* it prunes the closure within the window (service.py:record, scanner.py:scan).
THEOREM RepeatsGoToAPerson == Spec => []RepeatsAreNotified
<1>1. Inv => RepeatsAreNotified
  <2>1. Inv => Closed(report) \subseteq Modems
    BY OutcomesAre DEF Inv
  <2> QED BY <2>1 DEF Inv, MemoryInv, RepeatsAreNotified
<1> QED BY <1>1, Inductive, PTL

\* What the history calls open was handed over or lost by a kill (service.py:
\* run_once).
THEOREM OpenIsOwned == Spec => []OpenTicketsAreOwned
<1>1. Inv => OpenTicketsAreOwned
  BY DEF Inv, OwnedInv, Owned, OpenTicketsAreOwned
<1> QED BY <1>1, Inductive, PTL

\* An agent never makes the outcome of a ticket milder than the rules do
\* (pipeline.py:process).
THEOREM AgentsNeverLoosen == Spec => []AgentsOnlyTighten
<1>1. Init => Compared
  BY DEF Init, Compared
<1>2. Compared /\ [Next]_vars => Compared'
  <2> SUFFICES ASSUME Compared, [Next]_vars PROVE Compared'
    OBVIOUS
  <2>1. CASE Review
    BY <2>1 DEF Review, Compared
  <2>2. CASE review' = None \/ review' = review
    BY <2>2 DEF Compared
  <2> QED BY <2>1, <2>2 DEF Next, Run, Start, Scan, Truncate, Write, Return, Exit, Die,
                          Tomorrow, Ends, vars
<1>3. Compared => AgentsOnlyTighten
  <2> SUFFICES ASSUME Compared, review # None
               PROVE  /\ review.agents.verdict = "allowed" => review.rules.verdict = "allowed"
                      /\ review.rules.truckRoll /\ Breached(review.rules.ticket.findings) # {}
                           => review.agents.truckRoll
    BY DEF AgentsOnlyTighten
  <2>1. PICK t, inWindow, works, reply :
          review = [rules |-> Process(t, inWindow, works),
                    agents |-> Reviewed(t, inWindow, works, reply)]
    BY DEF Compared
  <2>2. /\ review.rules = Process(t, inWindow, works)
        /\ review.agents = Reviewed(t, inWindow, works, reply)
    BY <2>1
  <2> QED BY <2>2, AgentsTighten
<1> QED BY <1>1, <1>2, <1>3, PTL DEF Spec

-----------------------------------------------------------------------------
(* The crew days *)

Jobs == [kind : Kinds, age : Nat]

\* The backlog is of what the plan of the last day did not do, a day older; whoever was
\* held had more than the 18 hours left that force a run.
CrewInv ==
  /\ plan.held \subseteq Jobs /\ plan.deferred \subseteq Jobs
  /\ waiting \subseteq DayOlder(plan.held \cup plan.deferred)
  /\ \A j \in plan.held : ~(Slack(j) <= ForceRunHours)

Deadlines == {0, 4, 12, 24, 36, 72}

\* What protects a job is known to the table of deadlines.
LEMMA ProtectionsAreKnown ==
  ASSUME NEW k \in Kinds PROVE Protections(k) \subseteq DOMAIN DeadlineHours
<1>1. CustomerOf[k].flags \subseteq RecordFlags
  BY CrewAssumption DEF Acceptable
<1>2. DOMAIN DeadlineHours = {"sla_breached", "medical_or_safety", "total_loss_of_service",
        "regulatory_obligation", "vulnerable_customer", "repeat_unresolved"}
  BY DEF DeadlineHours
<1> QED
  BY <1>1, <1>2 DEF Protections, RecordFlags

\* A set of whole hours that is not empty has an earliest one.
LEMMA EarliestExists ==
  ASSUME NEW H \in SUBSET Deadlines, H # {}
  PROVE  \E h \in H : \A i \in H : h <= i
<1>0. PICK d \in H : TRUE
  OBVIOUS
<1>1. CASE 0 \in H
  BY <1>1 DEF Deadlines
<1>2. CASE 0 \notin H /\ 4 \in H
  BY <1>2 DEF Deadlines
<1>3. CASE 0 \notin H /\ 4 \notin H /\ 12 \in H
  BY <1>3 DEF Deadlines
<1>4. CASE 0 \notin H /\ 4 \notin H /\ 12 \notin H /\ 24 \in H
  BY <1>4 DEF Deadlines
<1>5. CASE 0 \notin H /\ 4 \notin H /\ 12 \notin H /\ 24 \notin H /\ 36 \in H
  BY <1>5 DEF Deadlines
<1>6. CASE 0 \notin H /\ 4 \notin H /\ 12 \notin H /\ 24 \notin H /\ 36 \notin H
  <2>1. \A i \in H : i = 72
    BY <1>6 DEF Deadlines
  <2> QED
    BY <2>1, <1>0
<1> QED
  BY <1>1, <1>2, <1>3, <1>4, <1>5, <1>6, Zenon

\* Whatever protects a job, its deadline is one of six.
LEMMA DeadlineType ==
  ASSUME NEW j \in Jobs PROVE Deadline(j) \in Deadlines
<1> DEFINE limits == {DeadlineHours[p] : p \in Protections(j.kind)}
<1>1. j.kind \in Kinds
  BY DEF Jobs
<1>2. \A p \in DOMAIN DeadlineHours : DeadlineHours[p] \in Deadlines
  BY DEF DeadlineHours, Deadlines
<1>3. limits \subseteq Deadlines
  BY <1>1, <1>2, ProtectionsAreKnown
<1>4. CASE limits = {}
  BY <1>4 DEF Deadline, DefaultDeadline, Deadlines
<1>5. CASE limits # {}
  <2>1. \E h \in limits : \A i \in limits : h <= i
    BY <1>3, <1>5, EarliestExists
  <2>2. Deadline(j) = CHOOSE h \in limits : \A i \in limits : h <= i
    BY <1>5 DEF Deadline
  <2>3. Deadline(j) \in limits
    BY <2>1, <2>2
  <2> QED
    BY <2>3, <1>3
<1> QED
  BY <1>4, <1>5

\* A job that forces no run and was raised at the hour of the planning has a day left.
LEMMA UnforcedHasADay ==
  ASSUME NEW j \in Jobs, ~(Slack(j) <= ForceRunHours), j.age % Day = 0
  PROVE  Slack(j) >= Day
<1>1. Deadline(j) \in Deadlines /\ j.age \in Nat
  BY DeadlineType DEF Jobs
<1>2. j.age \in 0..53
  BY <1>1 DEF Slack, ForceRunHours, Deadlines
<1>3. j.age \in {0, 24, 48}
  BY <1>2 DEF Day
<1> QED
  BY <1>1, <1>3 DEF Slack, ForceRunHours, Day, Deadlines

LEMMA DayOlderIs ==
  ASSUME NEW S \in SUBSET Jobs, NEW j \in S
  PROVE  /\ [j EXCEPT !.age = @ + Day] \in Jobs
         /\ Slack([j EXCEPT !.age = @ + Day]) = Slack(j) - Day
<1> DEFINE k == [j EXCEPT !.age = @ + Day]
<1>1. k \in Jobs /\ k.kind = j.kind /\ k.age = j.age + Day
  BY DEF Jobs, Day
<1>2. Deadline(k) = Deadline(j)
  BY <1>1 DEF Deadline
<1>3. Deadline(j) \in Int /\ j.age \in Int
  BY DeadlineType DEF Deadlines, Jobs
<1> HIDE DEF k
<1>4. k \in Jobs /\ Slack(k) = Slack(j) - Day
  BY <1>1, <1>2, <1>3 DEF Slack, Day
<1> QED
  BY <1>4 DEF k

\* One day: what the day holds is unforced, and what it does not do waits.
LEMMA DayStep == CrewInv /\ [PlanDay]_crew => CrewInv'
<1> SUFFICES ASSUME CrewInv, [PlanDay]_crew PROVE CrewInv'
  OBVIOUS
<1>1. CASE UNCHANGED crew
  BY <1>1 DEF CrewInv, crew, Slack, Deadline
<1>2. CASE PlanDay
  <2>1. PICK fresh \in SUBSET Arrivals :
          LET jobs == waiting \cup fresh
              day == ScheduleDay(jobs)
          IN plan' = day /\ waiting' = DayOlder(jobs \ day.scheduled)
    BY <1>2 DEF PlanDay
  <2> DEFINE jobs == waiting \cup fresh
  <2>2. waiting \subseteq Jobs
    <3>1. \A j \in plan.held \cup plan.deferred : [j EXCEPT !.age = @ + Day] \in Jobs
      BY DayOlderIs DEF CrewInv
    <3> QED
      BY <3>1 DEF CrewInv, DayOlder
  <2>3. fresh \subseteq Jobs
    BY CrewAssumption DEF Arrivals, Jobs, Day
  <2>4. jobs \subseteq Jobs
    BY <2>2, <2>3
  <2>5. Held(jobs) \subseteq jobs /\ \A j \in Held(jobs) : ~(Slack(j) <= ForceRunHours)
    BY DEF Held
  <2> HIDE DEF jobs
  <2>6. /\ plan'.held = Held(jobs)
        /\ plan'.deferred = (jobs \ Held(jobs)) \ plan'.scheduled
        /\ waiting' = DayOlder(jobs \ plan'.scheduled)
    BY <2>1 DEF ScheduleDay, jobs
  <2>7. jobs \ plan'.scheduled \subseteq plan'.held \cup plan'.deferred
    BY <2>5, <2>6
  <2>8. waiting' \subseteq DayOlder(plan'.held \cup plan'.deferred)
    BY <2>6, <2>7 DEF DayOlder
  <2>9. \A j \in plan'.held : ~(Slack(j) <= ForceRunHours)'
    BY <2>5, <2>6 DEF Slack, Deadline
  <2> QED
    BY <2>4, <2>5, <2>6, <2>8, <2>9 DEF CrewInv
<1> QED
  BY <1>1, <1>2

\* Whatever arrives, holding for a batch costs an island job less than six hours of
\* its deadline (commercial.py:schedule_day, FORCE_RUN_HOURS and the deadlines).
THEOREM HeldInTime == CrewSpec => []IslandsAreHeldInTime
<1>1. CrewInit => CrewInv
  BY DEF CrewInit, CrewInv, DayOlder
<1>2. CrewInv => IslandsAreHeldInTime
  <2> SUFFICES ASSUME CrewInv PROVE IslandsAreHeldInTime
    OBVIOUS
  <2>1. ASSUME NEW j \in plan.held, j.age % Day = 0 PROVE Slack(j) >= Day
    BY <2>1, UnforcedHasADay DEF CrewInv
  <2>2. ASSUME NEW j \in waiting, Slack(j) <= ForceRunHours - Day
        PROVE  j \in DayOlder(plan.deferred)
    <3>1. PICK i \in plan.held \cup plan.deferred : j = [i EXCEPT !.age = @ + Day]
      BY DEF CrewInv, DayOlder
    <3>2. Slack(j) = Slack(i) - Day /\ Slack(i) \in Int
      BY <3>1, DayOlderIs, DeadlineType DEF CrewInv, Slack, Jobs, Deadlines
    <3>3. i \notin plan.held
      BY <2>2, <3>2 DEF CrewInv, ForceRunHours, Day
    <3> QED
      BY <3>1, <3>3 DEF DayOlder
  <2> QED
    BY <2>1, <2>2 DEF IslandsAreHeldInTime
<1>3. CrewInv /\ [PlanDay]_crew => CrewInv'
  BY DayStep
<1> QED
  BY <1>1, <1>2, <1>3, PTL DEF CrewSpec
=============================================================================
