-------------------------- MODULE PredictiveBranch --------------------------
(***************************************************************************)
(* The scheduled service (predictive/service.py): a daily run loads the    *)
(* history of flags, scans the modems, tries what it may on its own, saves *)
(* the history and only then returns the tickets it hands to the incident  *)
(* workflow.  The process may be killed anywhere, while it writes the file *)
(* too.                                                                    *)
(*                                                                         *)
(* A time is its age in days, at the date the run carries (ran_at).  The   *)
(* clock of the machine, by which the history is pruned, may be days ahead *)
(* of that date.  An age past every limit is as good as one day past the   *)
(* longest.                                                                *)
(***************************************************************************)
EXTENDS TicketPipeline

CONSTANTS
  Modems,         \* numbered as in the population
  TechnologyOf,   \* the technology of each modem
  Course,         \* of each cause: the series of a modem as it gets worse
  RelapseAfter,   \* RELAPSE_AFTER_DAYS, or Never
  Never,
  RepeatWindow,   \* repeat_window_days
  KeepDays,       \* keep_days
  Lags,           \* the days the clock may be ahead of the date of a run
  MaxTroubles,    \* bound on kills of the process and days without a run
  Torn, None

Causes == DOMAIN DomainOf

ASSUME BranchAssumption ==
  /\ Modems \subseteq Nat
  /\ RepeatWindow \in Nat /\ KeepDays \in Nat /\ RepeatWindow <= KeepDays
  /\ DOMAIN Course = Causes /\ DOMAIN RelapseAfter = Causes
  /\ MaxTroubles \in Nat /\ Lags \subseteq Nat

\* A course has a series for each of its days, with a reading for some of the KPIs.
Readings == [kpi : STRING, breached : BOOLEAN, fits : BOOLEAN, eta : Nat]
ASSUME CourseAssumption ==
  \A c \in Causes :
    /\ Course[c] \in Seq(SUBSET Readings) /\ Len(Course[c]) > 0
    /\ \A day \in 1..Len(Course[c]) : IsFiniteSet(Course[c][day])

VARIABLES
  cause, progress,   \* what each modem suffers from, and how far it has come
  lag,               \* the days the clock is ahead of the date of the run
  file,              \* the history on disk, or Torn
  mem,               \* the history of the process, or None
  phase,             \* how far the run has come
  report,            \* the outcomes of the run
  review,            \* a ticket put to the agents, or None
  due,               \* the run of the day is yet to start
  troubles,
  handed,            \* class last handed over since the last closure (for checking only)
  quiet,             \* age of the last closure on record (for checking only)
  mislaid,           \* tickets that a kill took away (for checking only)
  lapsed             \* modems whose closure was pruned too early (for checking only)

world == <<cause, progress, lag>>
seen == <<handed, quiet, mislaid, lapsed>>
schedule == <<due, troubles>>
vars == <<world, file, mem, phase, report, review, schedule, seen>>

Oldest == KeepDays + 1
Older(age) == Min({age + 1, Oldest})

Histories ==
  [flags : [Modems -> SUBSET (0..Oldest)], open : [Modems -> {"none", "forecast", "proactive"}]]
ASSUME MarkAssumption == Torn \notin Histories /\ None \notin Histories /\ Torn # None

Blank == [flags |-> [m \in Modems |-> {}], open |-> [m \in Modems |-> "none"]]

Init ==
  /\ cause \in [Modems -> Causes]
  /\ progress = [m \in Modems |-> 1]
  /\ lag \in Lags
  /\ file = Blank
  /\ mem = None
  /\ phase = "off"
  /\ report = {}
  /\ review = None
  /\ due = TRUE
  /\ troubles = 0
  /\ handed = [m \in Modems |-> "none"]
  /\ quiet = [m \in Modems |-> Oldest]
  /\ mislaid = {}
  /\ lapsed = {}

-----------------------------------------------------------------------------
(* The run *)

\* What cannot be read is a history of nothing.  From here on the branch
\* starts anew, and so does the bookkeeping of what it has done.
Start ==
  /\ phase = "off"
  /\ phase' = "ready"
  /\ mem' = IF file = Torn THEN Blank ELSE file
  /\ IF file = Torn
     THEN /\ handed' = [m \in Modems |-> "none"]
          /\ quiet' = [m \in Modems |-> Oldest]
          /\ mislaid' = {}
          /\ lapsed' = {}
     ELSE UNCHANGED seen
  /\ due' = FALSE
  /\ UNCHANGED <<world, file, report, review, troubles>>

\* A modem whose ticket was closed reads as sound until its cause comes back.
Relapsed(m, flags) ==
  /\ RelapseAfter[cause[m]] # Never
  /\ Min(flags) >= RelapseAfter[cause[m]]

SeriesOf(m, history) ==
  LET flags == history.flags[m]
  IN IF flags = {} \/ Relapsed(m, flags) THEN Course[cause[m]][progress[m]] ELSE {}

IsRepeat(m, history) == \E age \in history.flags[m] : age <= RepeatWindow

TicketOf(m, history) ==
  Ticket(m, cause[m], TechnologyOf[m], Evaluate(SeriesOf(m, history)), IsRepeat(m, history))

Candidates(history) ==
  {TicketOf(m, history) :
     m \in {n \in Modems : LET findings == Evaluate(SeriesOf(n, history))
                           IN findings # {} /\ ~IsDuplicate(history.open[n], ClassOf(findings))}}

Tickets(history) == WithinCap(Candidates(history))

With(verdict, outcomes) == {o.ticket.modem : o \in {p \in outcomes : p.verdict = verdict}}
Closed(outcomes) == With("allowed", outcomes)
Gated(outcomes) == With("requires_approval", outcomes)
ClassIn(outcomes, m) == (CHOOSE o \in outcomes : o.ticket.modem = m).ticket.class

RecordedOnTop(history, outcomes) ==   \* mutant: a closure leaves the ticket open
  [flags |-> [m \in Modems |->
                {age \in history.flags[m] \cup (IF m \in Closed(outcomes) THEN {0} ELSE {}) :
                   age + lag <= KeepDays}],
   open |-> [m \in Modems |->
               IF m \in {o.ticket.modem : o \in outcomes} \ Closed(outcomes)
               THEN ClassIn(outcomes, m) ELSE history.open[m]]]

\* record(): a closed ticket becomes a flag, any other one is open.  A flag is kept by
\* the clock, the one just made as well.
Recorded(history, outcomes) ==
  [flags |-> [m \in Modems |->
                {age \in history.flags[m] \cup (IF m \in Closed(outcomes) THEN {0} ELSE {}) :
                   age + lag <= KeepDays}],
   open |-> [m \in Modems |->
               CASE m \in Closed(outcomes) -> "none"
                 [] m \in {o.ticket.modem : o \in outcomes} \ Closed(outcomes) -> ClassIn(outcomes, m)
                 [] OTHER -> history.open[m]]]

\* The run scans and processes every ticket; nothing is on disk before Write.
Scan ==
  /\ phase = "ready"
  /\ phase' = "recorded"
  /\ \E inWindow \in BOOLEAN, works \in [Modems -> [1..MaxAttempts -> BOOLEAN]] :
       report' = {Process(t, inWindow, works[t.modem]) : t \in Tickets(mem)}
  /\ mem' = Recorded(mem, report')
  /\ UNCHANGED <<world, file, review, schedule, seen>>

\* write_text() empties the file before it fills it.
Truncate ==
  /\ phase = "recorded"
  /\ phase' = "truncated"
  /\ file' = Torn
  /\ UNCHANGED <<world, mem, report, review, schedule, seen>>

Write ==
  /\ phase = "truncated"
  /\ phase' = "saved"
  /\ file' = mem
  /\ handed' = [m \in Modems |-> IF m \in Closed(report) THEN "none" ELSE handed[m]]
  /\ quiet' = [m \in Modems |-> IF m \in Closed(report) THEN 0 ELSE quiet[m]]
  /\ mislaid' = mislaid \ Closed(report)
  /\ lapsed' = (lapsed \ Closed(report))
                 \cup {m \in Modems : quiet'[m] <= RepeatWindow /\ quiet'[m] + lag > KeepDays}
  /\ UNCHANGED <<world, mem, report, review, schedule>>

ReturnNotices ==   \* mutant: only the tickets with something to tell are handed over
  LET told == {o \in report : o.notify # {}}
  IN /\ phase = "saved"
     /\ phase' = "returned"
     /\ handed' = [m \in Modems |-> IF m \in Gated(told) THEN ClassIn(report, m) ELSE handed[m]]
     /\ mislaid' = mislaid \ Gated(told)
     /\ UNCHANGED <<world, file, mem, report, review, schedule, quiet, lapsed>>

\* The caller gets the report, and with it the tickets for the main flow.
Return ==
  /\ phase = "saved"
  /\ phase' = "returned"
  /\ handed' = [m \in Modems |-> IF m \in Gated(report) THEN ClassIn(report, m) ELSE handed[m]]
  /\ mislaid' = mislaid \ Gated(report)
  /\ UNCHANGED <<world, file, mem, report, review, schedule, quiet, lapsed>>

Ends == mem' = None /\ report' = {} /\ review' = None /\ phase' = "off"

Exit ==
  /\ phase = "returned"
  /\ Ends
  /\ UNCHANGED <<world, file, schedule, seen>>

Troubled == troubles < MaxTroubles /\ troubles' = troubles + 1

Die ==
  /\ phase # "off"
  /\ Troubled
  /\ Ends
  /\ mislaid' = IF phase = "saved" THEN mislaid \cup Gated(report) ELSE mislaid
  /\ UNCHANGED <<world, file, due, handed, quiet, lapsed>>

-----------------------------------------------------------------------------
(* Around the run *)

Aged(history) == [history EXCEPT !.flags = [m \in Modems |-> {Older(a) : a \in @[m]}]]
IfAny(history) == IF history \in {Torn, None} THEN history ELSE Aged(history)

\* The next date: any modem may have got worse.  A process that runs several
\* dates keeps its history in memory; the clock never goes back.
Tomorrow ==
  /\ \/ phase = "returned" /\ phase' = "ready" /\ due' = FALSE /\ UNCHANGED troubles
     \/ /\ phase = "off" /\ phase' = "off" /\ due' = TRUE
        /\ IF due THEN Troubled ELSE UNCHANGED troubles
  /\ file' = IfAny(file)
  /\ mem' = IfAny(mem)
  /\ quiet' = [m \in Modems |-> Older(quiet[m])]
  /\ \E worse \in SUBSET {m \in Modems : progress[m] < Len(Course[cause[m]])} :
       progress' = [m \in Modems |-> progress[m] + (IF m \in worse THEN 1 ELSE 0)]
  /\ lag' \in {l \in Lags : l >= lag - 1}
  /\ report' = {}
  /\ review' = None
  /\ UNCHANGED <<cause, handed, mislaid, lapsed>>

\* What the provider says, and how it went; the calls after the last one made, and
\* the choice in an answer that does not parse, make no difference.
Replies ==
  {r \in [calls : [1..Tries -> Calls], parses : BOOLEAN, choice : TriageAnswers] :
     /\ \A i \in (EndsAt(r.calls) + 1)..Tries : r.calls[i] = "failed"
     /\ ~(Completes(r.calls) /\ r.parses) => r.choice = "monitor"}

\* A ticket of the run is put to the agents, to compare.
Review ==
  /\ phase = "returned"
  /\ review = None
  /\ \E o \in report, inWindow \in BOOLEAN, works \in [1..MaxAttempts -> BOOLEAN],
        reply \in Replies :
       review' = [rules |-> Process(o.ticket, inWindow, works),
                  agents |-> Reviewed(o.ticket, inWindow, works, reply)]
  /\ UNCHANGED <<world, file, mem, phase, report, schedule, seen>>

Run == Start \/ Scan \/ Truncate \/ Write \/ Return \/ Exit
Next == Run \/ Die \/ Tomorrow \/ Review
Spec == Init /\ [][Next]_vars

\* A run that is not killed goes on, and days pass whenever the service has
\* ended or sleeps between two days.
FairSpec == Spec /\ WF_vars(Run) /\ SF_vars(Tomorrow)

-----------------------------------------------------------------------------
(* Properties *)

\* Every variable has its type.
TypeOK ==
  /\ cause \in [Modems -> Causes] /\ progress \in [Modems -> Nat] /\ lag \in Lags
  /\ file \in Histories \cup {Torn} /\ mem \in Histories \cup {None}
  /\ phase \in {"off", "ready", "recorded", "truncated", "saved", "returned"}
  /\ (mem = None) = (phase = "off")
  /\ due \in BOOLEAN /\ troubles \in 0..MaxTroubles
  /\ handed \in [Modems -> {"none", "forecast", "proactive"}]
  /\ quiet \in [Modems -> 0..Oldest]
  /\ mislaid \subseteq Modems /\ lapsed \subseteq Modems

\* A modem that was closed without a word is not closed without a word again
\* within the window: the flag survives restarts, pruning and other tickets,
\* and gates the repeat (service.py:record, scanner.py:scan, pipeline.py:
\* notification_reasons).  Only a clock so far ahead of the date of a run that
\* it prunes the flag within the window breaks that.
RepeatsAreNotified ==
  phase = "truncated" => \A m \in Closed(report) : quiet[m] > RepeatWindow \/ m \in lapsed

\* What the history calls open is what was handed over, and nothing else,
\* except for a ticket that was lost because the process was killed between
\* saving the history and returning it (service.py:run_once).
OpenTicketsAreOwned ==
  (phase \in {"off", "ready", "recorded", "returned"} /\ file # Torn) =>
    \A m \in Modems : file.open[m] = handed[m] \/ m \in mislaid

\* An agent never makes the outcome of a ticket milder than the rules do: what
\* the rules take to a person is not closed, and a breach is not dismissed
\* (pipeline.py:process, on suppression).
AgentsOnlyTighten ==
  review # None =>
    /\ review.agents.verdict = "allowed" => review.rules.verdict = "allowed"
    /\ review.rules.truckRoll /\ Breached(review.rules.ticket.findings) # {}
         => review.agents.truckRoll

Degraded(m) == file # Torn /\ Evaluate(SeriesOf(m, file)) # {}
Answered(m) == handed[m] # "none" \/ quiet[m] = 0 \/ m \in mislaid

\* A modem that shows a finding is closed or handed over, however many more
\* urgent ones the cap lets go first (scanner.py:scan), as long as the clock
\* prunes no closure within the window.
FindingsAreAnswered ==
  [](lag + RepeatWindow <= KeepDays) => \A m \in Modems : Degraded(m) ~> Answered(m)
=============================================================================
