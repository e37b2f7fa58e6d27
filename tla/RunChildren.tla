----------------------------- MODULE RunChildren -----------------------------
(***************************************************************************)
(* What is kept under a published run (digital_twin/install_assurance.py   *)
(* and the predictive scans of orchestrator.py): watches of installations  *)
(* and scans of modems, each in a directory named after its request, built *)
(* aside and renamed into place.  Clients create them and read them at the *)
(* same time, and may die.                                                 *)
(*                                                                         *)
(* The run itself does not change, and what a file holds follows from the  *)
(* request; so a directory is the set of the files in it.                  *)
(***************************************************************************)
EXTENDS InstallWatch

CONSTANTS
  Homes, TechnologyOf, Cases, ScenarioOf, TicketFloor,
  Clients,
  WatchRequests,   \* what the clients may ask for
  ScanRequests,
  Legacy,          \* watches of an earlier version, without the newest file
  None

Modems == INSTANCE ModemSnapshot

ASSUME RequestAssumption ==
  /\ IsFiniteSet(Clients)
  /\ Legacy \subseteq WatchRequests
  /\ Of({"HFC"}) # << >> /\ Of({"PON"}) # << >>
  /\ \A r \in WatchRequests :
       r.population \in 1..Len(Services) /\ r.seed \in Nat /\ r.asOf \in Int /\ r.tail \in Int
  /\ \A r \in ScanRequests : r.population \in 1..Homes /\ r.days \in 7..60

\* The cases of a run are of homes of the run, each named once, and of scenarios
\* that the bridge knows.
ASSUME CasesAssumption ==
  /\ Homes \in Nat /\ TicketFloor \in Nat
  /\ Cases \in Seq(1..Homes)
  /\ \A i, j \in 1..Len(Cases) : Cases[i] = Cases[j] => i = j
  /\ \A h \in ToSet(Cases) : ScenarioOf[h] \in DOMAIN Modems!ScenarioSignal

VARIABLES
  watches,    \* the files of each watch; none if there is no directory
  scans,      \* the directory of each scan
  pc, ask,    \* of each client: progress, and the request it works on
  handle,     \* the directory it removes, and the entries it has yet to
  view,       \* the files it found
  answered,   \* the scans that were acknowledged (for checking only)
  wrecked     \* scans that a client died on while it replaced them (for checking only)

client == <<pc, ask, handle, view>>
vars == <<watches, scans, client, answered, wrecked>>

\* In the order in which they are read.
WatchOrder ==
  <<"summary", "episodes", "observations", "actions", "contacts", "incidents", "caddi_contexts">>
WatchFiles == ToSet(WatchOrder)
ScanFiles == {"summary", "tickets", "pulls"}

\* Directories are told apart by their node; the file system may use it again.
Nodes == 0..Cardinality(Clients)
ASSUME NodeAssumption == None \notin Nodes

Absent == [node |-> None, files |-> {}]
Exists(r) == scans[r].node # None
NewNode(r) ==
  CHOOSE n \in Nodes : n # scans[r].node /\ \A c \in Clients : handle[c].node # n
Closed == [node |-> None, left |-> {}]

Init ==
  /\ watches = [r \in WatchRequests |->
                  IF r \in Legacy THEN WatchFiles \ {"caddi_contexts"} ELSE {}]
  /\ scans = [r \in ScanRequests |-> Absent]
  /\ pc = [c \in Clients |-> "idle"]
  /\ ask = [c \in Clients |-> None]
  /\ handle = [c \in Clients |-> Closed]
  /\ view = [c \in Clients |-> {}]
  /\ answered = {}
  /\ wrecked = {}

\* What the files hold.
Cohort == [r \in WatchRequests |-> Episodes(r)]
Outages == [r \in WatchRequests |-> Incidents(r)]
Summaries == [r \in WatchRequests |-> Summary(r)]
Tickets == [r \in ScanRequests |-> Modems!Ticketed(r)]

Goto(c, place) == pc' = [pc EXCEPT ![c] = place]
Moves(c, from, to) == pc[c] = from /\ Goto(c, to)

\* The call is over: an answer or an error.  A directory built aside is gone.
Ends(c) ==
  /\ Goto(c, "idle")
  /\ ask' = [ask EXCEPT ![c] = None]
  /\ handle' = [handle EXCEPT ![c] = Closed]
  /\ view' = [view EXCEPT ![c] = {}]

-----------------------------------------------------------------------------
(* Watches *)

\* A request out of range is refused; a summary that is there is the answer.
AskWatch(c, r) ==
  /\ pc[c] = "idle"
  /\ Acceptable(r)
  /\ "summary" \notin watches[r]
  /\ Goto(c, "build watch")
  /\ ask' = [ask EXCEPT ![c] = r]
  /\ UNCHANGED <<watches, scans, handle, view, answered, wrecked>>

\* Nobody sees the files before they are in place.
BuildWatch(c) ==
  /\ Moves(c, "build watch", "place watch")
  /\ UNCHANGED <<watches, scans, ask, handle, view, answered, wrecked>>

PlaceWatchAnew(c) ==   \* mutant: what is there makes way
  /\ pc[c] = "place watch"
  /\ watches' = [watches EXCEPT ![ask[c]] = IF @ = {} THEN WatchFiles ELSE {}]
  /\ IF watches[ask[c]] = {} THEN Ends(c) ELSE UNCHANGED client
  /\ UNCHANGED <<scans, answered, wrecked>>

\* A directory that is not empty is not replaced; its builder gets an error.
PlaceWatch(c) ==
  /\ pc[c] = "place watch"
  /\ watches' = [watches EXCEPT ![ask[c]] = IF @ = {} THEN WatchFiles ELSE @]
  /\ Ends(c)
  /\ UNCHANGED <<scans, answered, wrecked>>

\* A watch with a file missing is refused as incomplete.
OpenWatch(c, r) ==
  /\ pc[c] = "idle"
  /\ watches[r] = WatchFiles
  /\ Goto(c, "read watch")
  /\ ask' = [ask EXCEPT ![c] = r]
  /\ UNCHANGED <<watches, scans, handle, view, answered, wrecked>>

\* The files are read one after the other.
ReadWatch(c) ==
  /\ pc[c] = "read watch"
  /\ view[c] # WatchFiles
  /\ LET next == WatchOrder[Cardinality(view[c]) + 1]
     IN next \in watches[ask[c]] /\ view' = [view EXCEPT ![c] = @ \cup {next}]
  /\ UNCHANGED <<watches, scans, pc, ask, handle, answered, wrecked>>

AnswerWatch(c) ==
  /\ pc[c] = "read watch"
  /\ view[c] = WatchFiles
  /\ Ends(c)
  /\ UNCHANGED <<watches, scans, answered, wrecked>>

\* The executive view takes the latest that is complete.
Listed == {r \in WatchRequests : "summary" \in watches[r]}
Latest(requests) == CHOOSE r \in requests : \A q \in requests : q.asOf <= r.asOf

OpenLatest(c) ==
  LET complete == {r \in Listed : watches[r] = WatchFiles}
  IN /\ pc[c] = "idle"
     /\ complete # {}
     /\ Goto(c, "read watch")
     /\ ask' = [ask EXCEPT ![c] = Latest(complete)]
     /\ UNCHANGED <<watches, scans, handle, view, answered, wrecked>>

Watch(c) ==
  \/ \E r \in WatchRequests : AskWatch(c, r) \/ OpenWatch(c, r)
  \/ BuildWatch(c) \/ PlaceWatch(c) \/ OpenLatest(c) \/ ReadWatch(c) \/ AnswerWatch(c)

-----------------------------------------------------------------------------
(* Scans *)

AskScan(c, r) ==
  /\ pc[c] = "idle"
  /\ IF "summary" \in scans[r].files
     THEN answered' = answered \cup {r} /\ UNCHANGED <<pc, ask>>
     ELSE /\ Goto(c, "build scan")
          /\ ask' = [ask EXCEPT ![c] = r]
          /\ UNCHANGED answered
  /\ UNCHANGED <<watches, scans, handle, view, wrecked>>

\* Built aside; then a directory that is there is to be removed first.
BuildScan(c) ==
  /\ pc[c] = "build scan"
  /\ Goto(c, IF Exists(ask[c]) THEN "clear scan" ELSE "place scan")
  /\ UNCHANGED <<watches, scans, ask, handle, view, answered, wrecked>>

\* rmtree() opens the directory and lists it.
OpenScan(c) ==
  /\ pc[c] = "clear scan"
  /\ IF Exists(ask[c])
     THEN /\ handle' = [handle EXCEPT ![c] = [node |-> scans[ask[c]].node,
                                              left |-> scans[ask[c]].files]]
          /\ Goto(c, "unlink")
          /\ UNCHANGED <<ask, view>>
     ELSE Ends(c)
  /\ UNCHANGED <<watches, scans, answered, wrecked>>

\* A file that somebody else has removed is passed over.
Unlink(c) ==
  /\ pc[c] = "unlink"
  /\ \E f \in handle[c].left :
       /\ handle' = [handle EXCEPT ![c].left = @ \ {f}]
       /\ scans' = [scans EXCEPT ![ask[c]].files =
                      IF scans[ask[c]].node = handle[c].node THEN @ \ {f} ELSE @]
  /\ UNCHANGED <<watches, pc, ask, view, answered, wrecked>>

\* The directory of that name goes, if there is one and it is empty.
RemoveScan(c) ==
  /\ pc[c] = "unlink"
  /\ handle[c].left = {}
  /\ IF Exists(ask[c]) /\ scans[ask[c]].files = {}
     THEN /\ scans' = [scans EXCEPT ![ask[c]] = Absent]
          /\ Goto(c, "place scan")
          /\ handle' = [handle EXCEPT ![c] = Closed]
          /\ UNCHANGED <<ask, view>>
     ELSE Ends(c) /\ UNCHANGED scans
  /\ UNCHANGED <<watches, answered, wrecked>>

PlaceScanClearing(c) ==   \* mutant: on an error the directory of that name is removed
  LET r == ask[c]
  IN /\ pc[c] = "place scan"
     /\ IF scans[r].files = {}
        THEN /\ scans' = [scans EXCEPT ![r] = [node |-> NewNode(r), files |-> ScanFiles]]
             /\ answered' = answered \cup {r}
             /\ wrecked' = wrecked \ {r}
        ELSE scans' = [scans EXCEPT ![r] = Absent] /\ UNCHANGED <<answered, wrecked>>
     /\ Ends(c)
     /\ UNCHANGED watches

PlaceScan(c) ==
  LET r == ask[c]
  IN /\ pc[c] = "place scan"
     /\ IF scans[r].files = {}
        THEN /\ scans' = [scans EXCEPT ![r] = [node |-> NewNode(r), files |-> ScanFiles]]
             /\ answered' = answered \cup {r}
             /\ wrecked' = wrecked \ {r}
        ELSE UNCHANGED <<scans, answered, wrecked>>
     /\ Ends(c)
     /\ UNCHANGED watches

\* A scan that is there is read: the summary, the tickets, the pulls.  One that
\* is being replaced is an error.
ReadScan(c, r) ==
  /\ pc[c] = "idle"
  /\ Exists(r)
  /\ Goto(c, "read scan")
  /\ ask' = [ask EXCEPT ![c] = r]
  /\ UNCHANGED <<watches, scans, handle, view, answered, wrecked>>

ReadScanFile(c) ==
  LET order == <<"summary", "tickets", "pulls">>
      next == order[Cardinality(view[c]) + 1]
  IN /\ pc[c] = "read scan"
     /\ IF Cardinality(view[c]) < 2 /\ next \in scans[ask[c]].files
        THEN view' = [view EXCEPT ![c] = @ \cup {next}] /\ UNCHANGED <<pc, ask, handle>>
        ELSE Ends(c)
     /\ UNCHANGED <<watches, scans, answered, wrecked>>

Scan(c) ==
  \/ \E r \in ScanRequests : AskScan(c, r) \/ ReadScan(c, r)
  \/ BuildScan(c) \/ OpenScan(c) \/ Unlink(c) \/ RemoveScan(c) \/ PlaceScan(c) \/ ReadScanFile(c)

Die(c) ==
  /\ pc[c] # "idle"
  /\ wrecked' = IF pc[c] \in {"unlink", "place scan"} THEN wrecked \cup {ask[c]} ELSE wrecked
  /\ Ends(c)
  /\ UNCHANGED <<watches, scans, answered>>

Next == \E c \in Clients : Watch(c) \/ Scan(c) \/ Die(c)
Spec == Init /\ [][Next]_vars

-----------------------------------------------------------------------------
(* Properties *)

\* Who has found a watch complete reads all of it: no builder in sight of the
\* readers and none that clears (install_assurance.py:load_install_assurance_watch).
ReadersSeeWholeWatches ==
  \A c \in Clients :
    pc[c] = "read watch" => WatchFiles \ view[c] \subseteq watches[ask[c]]

\* When everyone is done, a scan that was ever acknowledged is there and whole,
\* however many built it and removed it at once, unless one died on the way
\* (orchestrator.py:run_predictive_scan).
AnsweredScansAreWhole ==
  (\A c \in Clients : pc[c] = "idle") =>
    \A r \in answered \ wrecked : scans[r].files = ScanFiles

Final == {"PASSED_24H", "PROMOTED_TO_INCIDENT"}
Later(r, s) ==
  /\ r.asOf < s.asOf /\ r.tail = s.tail
  /\ r.population = s.population /\ r.seed = s.seed

\* Of two watches of a cohort, the later one never takes back that an
\* installation has passed or is an incident (install_assurance.py:_lifecycle,
\* with the times of _event_plan).
LifecycleOnlyAdvances ==
  \A r, s \in Listed :
    Later(r, s) => \A e \in Cohort[r], f \in Cohort[s] :
                     e.service = f.service /\ e.lifecycle \in Final
                       => f.lifecycle = e.lifecycle

\* Each installation is told one way: through with it, an incident, or watched
\* further; whoever was sent out is on the record of the one incident that called
\* for it, and what was stabilised remotely saw no crew (_build_artifact, summary).
WatchAddsUp(s) ==
  /\ s.passed \subseteq s.matured
  /\ Cardinality(s.passed) + Cardinality(s.promoted) + Cardinality(s.in_progress)
       = Cardinality(s.passed \cup s.promoted \cup s.in_progress)
  /\ s.promoted = UNION {i.episodes : i \in s.root_incidents}
  /\ s.remote_stabilized \subseteq s.remote_actions \ s.clean_boots_work_orders
  /\ s.clean_boots_work_orders = s.incident_work_orders
  /\ s.maintenance_requests = s.incident_requests
  /\ s.maintenance_requests \subseteq s.clean_boots_work_orders
  /\ \A e \in s.contacts \ s.network_before_call : e.health = "GREEN"
  /\ \A i, j \in s.root_incidents : i # j => i.episodes \cap j.episodes = {}

\* An installation passes after a day without an incident and after the tail of
\* whatever touched its service, and counts among the mature ones
\* (install_assurance.py:_build_artifact).
PassedIsEarned ==
  \A r \in Listed :
    /\ WatchAddsUp(Summaries[r])
    /\ \A e \in Passed(Cohort[r]) :
         /\ e.age >= Day /\ e.incident = "none"
         /\ \A w \in e.work \cap ServiceAffecting :
              r.asOf >= e.start + EventPlan[e.scenario][w] + r.tail

\* A closed incident leaves none of its services impaired, also when several
\* share it (install_assurance.py:_build_artifact).
ClosedIncidentIsRestored ==
  \A r \in Listed : \A i \in Outages[r] :
    i.closed => \A e \in i.episodes : e.health = "GREEN"

\* However few modems a scan is asked to pull, every case with a fault that the
\* access network shows has its ticket (predictive_bridge.py:build_snapshot).
EveryImpairmentIsTicketed ==
  \A r \in answered : \A h \in ToSet(Cases) :
    Modems!ScenarioSignal[ScenarioOf[h]] # "none" => h \in Tickets[r]
=============================================================================
