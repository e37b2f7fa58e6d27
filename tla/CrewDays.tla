------------------------------ MODULE CrewDays ------------------------------
(***************************************************************************)
(* The daily schedule of the crews (commercial.py): jobs arrive, the hours *)
(* of a day go to the jobs with the most value at risk for each hour, and  *)
(* what does not fit waits and gets more urgent.  Jobs on the islands are  *)
(* held until a run is worth making.                                       *)
(*                                                                         *)
(* A job is a kind of dispatch and the hours since its fault was raised;   *)
(* of each kind at most one arrives in a day, and it is planned within a   *)
(* day.  Money is in whole units, multipliers are in hundredths,           *)
(* probabilities in ten-thousandths, ages and durations in whole hours.    *)
(***************************************************************************)
EXTENDS Integers, FiniteSets, Sequences, SequencesExt, FiniteSetsExt

CONSTANTS
  Kinds,         \* numbers, in the order of their tickets
  CustomerOf,    \* the CRM record of the customer of the dispatch
  ContextOf,     \* households, crew hours, SLA, service and site of the dispatch
  UrgencyAt,     \* of the slack in hours: the multiplier, falling
  CrewHours,     \* crew_hours_available
  RaisedHours,   \* of each kind: hours between a fault and the first plan of its job
  ArrivalHours,  \* bound on the work that arrives in a day
  MaxWait        \* the days after which a job has starved

Day == 24
MinRemoteBatch == 4
ForceRunHours == 18
UrgencyAtDeadline == 1200

\* What decides who waits: churn in thousandths, fault uplift in tenths, the rest
\* in hundredths.
ChurnBase == [residential |-> 55, smb |-> 38, enterprise |-> 21, wholesale |-> 12]
FaultUplift(faults) == IF faults >= 3 THEN 52 ELSE IF faults = 2 THEN 34 ELSE 21
ContractMobility ==
  [in_term |-> 25, expiring_soon |-> 85, rolling |-> 100, out_of_term |-> 110,
   pending_disconnect |-> 140]
PaymentChurn ==
  [current |-> 100, late |-> 115, arrears_30 |-> 135, arrears_60 |-> 155,
   arrears_90_plus |-> 180, suspended |-> 220]
Collectability ==
  [current |-> 100, late |-> 97, arrears_30 |-> 88, arrears_60 |-> 74,
   arrears_90_plus |-> 55, suspended |-> 35]

RecordFlags == {"medical_or_safety", "vulnerable_customer", "regulatory_obligation"}

MaxPlausibleMRR == 250000   \* the largest monthly charge that is believed

\* A customer record that cannot be reasoned about is refused.
Acceptable(customer) ==
  /\ customer.segment \in DOMAIN ChurnBase
  /\ customer.contract \in DOMAIN ContractMobility
  /\ customer.payment \in DOMAIN PaymentChurn
  /\ customer.revenue \in 0..MaxPlausibleMRR
  /\ customer.months >= 0 /\ customer.faults >= 0
  /\ customer.flags \subseteq RecordFlags

ASSUME CrewAssumption ==
  /\ Kinds \subseteq Nat /\ CrewHours \in Nat
  /\ \A k \in Kinds : RaisedHours[k] \subseteq 0..(Day - 1)
  /\ \A k \in Kinds : Acceptable(CustomerOf[k]) /\ ContextOf[k].hours \in Nat \ {0}
  /\ \A s, t \in DOMAIN UrgencyAt : s < t => UrgencyAt[s] >= UrgencyAt[t]

VARIABLES
  waiting,   \* the jobs of the backlog
  plan       \* the schedule of the last day

crew == <<waiting, plan>>

-----------------------------------------------------------------------------
(* The value and the urgency of a job *)

\* The months the customer is committed to, or else those the segment implies.
ExpectedMonths(customer) ==
  IF customer.contract = "in_term" /\ customer.months > 0 THEN Max({customer.months, 6})
  ELSE Min({1000 \div ChurnBase[customer.segment], 60})

CollectableValue(customer) ==
  (customer.revenue * ExpectedMonths(customer) * Collectability[customer.payment]) \div 100

ChurnProbability(customer) ==
  Min({9500, (ChurnBase[customer.segment] * FaultUplift(customer.faults)
                * ContractMobility[customer.contract] * PaymentChurn[customer.payment])
               \div 10000})

\* Several households behind one element put several accounts at risk.
ValueAtRisk(k) ==
  ((CollectableValue(CustomerOf[k]) * ChurnProbability(CustomerOf[k])) \div 10000)
    * ContextOf[k].households

Protections(k) ==
  CustomerOf[k].flags
    \cup (IF ContextOf[k].slaBreached THEN {"sla_breached"} ELSE {})
    \cup (IF ContextOf[k].serviceDown THEN {"total_loss_of_service"} ELSE {})
    \cup (IF CustomerOf[k].faults >= 3 THEN {"repeat_unresolved"} ELSE {})

DeadlineHours ==
  [sla_breached |-> 0, medical_or_safety |-> 4, total_loss_of_service |-> 12,
   regulatory_obligation |-> 24, vulnerable_customer |-> 24, repeat_unresolved |-> 36]
DefaultDeadline == 72
AbsolutePrecedence == {"medical_or_safety", "sla_breached"}

Deadline(job) ==
  LET limits == {DeadlineHours[p] : p \in Protections(job.kind)}
  IN IF limits = {} THEN DefaultDeadline ELSE CHOOSE h \in limits : \A i \in limits : h <= i

Slack(job) == Deadline(job) - job.age
Overdue(job) == Slack(job) <= 0
Absolute(job) == Protections(job.kind) \cap AbsolutePrecedence # {}
Remote(job) == ContextOf[job.kind].remote
HoursOf(job) == ContextOf[job.kind].hours

\* Capped at the deadline: an ancient job does not justify a week on its own.
Urgency(job) == IF Overdue(job) THEN UrgencyAtDeadline ELSE UrgencyAt[Slack(job)]

\* Value grows while the fault waits, because the customer gets likelier to leave.
AgedValue(job) ==
  LET growth == 100 + (18 * job.age) \div Day
  IN ValueAtRisk(job.kind) * (IF growth > 250 THEN 250 ELSE growth)

Score(job) == (AgedValue(job) * Urgency(job)) \div HoursOf(job)

TierByClass(job) == IF Absolute(job) THEN 0 ELSE 2   \* mutant: what is overdue competes by score

Tier(job) == IF Absolute(job) THEN 0 ELSE IF Overdue(job) THEN 1 ELSE 2

DaysOld(job) == job.age \div Day

\* Where a job stands, whatever else there is to do.
Standing ==
  [kind \in Kinds, age \in {Day * days + hours : days \in 0..MaxWait, hours \in UNION {RaisedHours[k] : k \in Kinds}} |->
     LET job == [kind |-> kind, age |-> age]
     IN <<Tier(job), - Score(job), - DaysOld(job), kind>>]

\* The order of the day; the tickets of an earlier day come first.
Before(i, j) ==
  LET p == Standing[i.kind, i.age]
      q == Standing[j.kind, j.age]
  IN \E n \in 1..4 : p[n] < q[n] /\ \A m \in 1..(n - 1) : p[m] = q[m]

-----------------------------------------------------------------------------
(* One day *)

HeldUntilDue(jobs) ==   \* mutant: only a deadline that is reached forces a run
  LET remote == {j \in jobs : Remote(j)}
      forced == \E j \in remote : Overdue(j)
  IN IF Cardinality(remote) < MinRemoteBatch /\ ~forced THEN remote ELSE {}

\* The island jobs that stay at home: all of them or none.
Held(jobs) ==
  LET remote == {j \in jobs : Remote(j)}
      forced == \E j \in remote : Slack(j) <= ForceRunHours
  IN IF Cardinality(remote) < MinRemoteBatch /\ ~forced THEN remote ELSE {}

InOrder(jobs) ==
  [n \in 1..Cardinality(jobs) |->
     CHOOSE j \in jobs : Cardinality({i \in jobs : Before(i, j)}) = n - 1]

\* Down the order, whatever still fits the hours that are left.
Fill(jobs) ==
  FoldLeft(LAMBDA day, j : IF HoursOf(j) <= day.left
                           THEN [left |-> day.left - HoursOf(j), taken |-> day.taken \cup {j}]
                           ELSE day,
           [left |-> CrewHours, taken |-> {}],
           InOrder(jobs)).taken

ScheduleDay(jobs) ==
  LET scheduled == Fill(jobs \ Held(jobs))
  IN [scheduled |-> scheduled, held |-> Held(jobs),
      deferred |-> (jobs \ Held(jobs)) \ scheduled]

HoursIn(jobs) == FoldSet(LAMBDA j, sum : sum + HoursOf(j), 0, jobs)

DayOlder(jobs) == {[j EXCEPT !.age = @ + Day] : j \in jobs}

CrewInit ==
  /\ waiting = {}
  /\ plan = [scheduled |-> {}, held |-> {}, deferred |-> {}]

Arrivals ==
  UNION {{[kind |-> k, age |-> hours] : hours \in RaisedHours[k]} : k \in Kinds}

\* New jobs join the backlog, the day is planned, and the rest waits.
PlanDay ==
  \E fresh \in SUBSET Arrivals :
    LET jobs == waiting \cup fresh
        day == ScheduleDay(jobs)
    IN /\ \A i, j \in fresh : i.kind = j.kind => i = j
       /\ HoursIn(fresh) <= ArrivalHours
       /\ plan' = day
       /\ waiting' = DayOlder(jobs \ day.scheduled)

CrewSpec == CrewInit /\ [][PlanDay]_crew

-----------------------------------------------------------------------------
(* Properties *)

\* Nobody starves as long as what arrives in a day leaves a margin of the hours:
\* the growth of value and urgency brings up every job, also the large ones that
\* smaller ones crowd out of a day (commercial.py:schedule_day,
\* aged_value_at_risk).  Arrivals that merely fit are not enough.
NobodyStarves == \A j \in waiting : DaysOld(j) <= MaxWait

\* Holding for a batch costs an island job less than six hours of its deadline:
\* one that was raised at the hour of the planning is never held past it, and
\* one that is later than what 18 hours of a day leave over was not held, but
\* left for want of crew hours (commercial.py:schedule_day, FORCE_RUN_HOURS).
IslandsAreHeldInTime ==
  /\ \A j \in plan.held : j.age % Day = 0 => Slack(j) >= Day
  /\ \A j \in waiting : Remote(j) /\ Slack(j) <= ForceRunHours - Day
                          => j \in DayOlder(plan.deferred)
=============================================================================
