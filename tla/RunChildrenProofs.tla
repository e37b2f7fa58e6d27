-------------------------- MODULE RunChildrenProofs --------------------------
(***************************************************************************)
(* What a missing lock leaves of the children of a run, for any requests   *)
(* and any number of clients.  A watch never changes once it is complete,  *)
(* so readers are safe.  A scan is taken apart by whoever found it without *)
(* a summary; but whoever works on the directory that is there has all the *)
(* files it still holds on the list, so that one of those who are at work  *)
(* can always finish, unless one of them died.                             *)
(*                                                                         *)
(* In the files: a scan has room for a ticket for every case, and what a   *)
(* watch says is compared from one watch of a cohort to the next.  For     *)
(* that the cohort must be the same and name nobody twice (PickedIs), and  *)
(* the plan of each scenario must be in order (OrderIs) and over within a  *)
(* day (DueIs).                                                            *)
(***************************************************************************)
EXTENDS RunChildren, TLAPS, FiniteSetTheorems

WatchPlaces == {"build watch", "place watch", "read watch"}
ScanPlaces == {"build scan", "clear scan", "unlink", "place scan", "read scan"}
Directories == [node : Nodes \cup {None}, files : SUBSET ScanFiles]
Handles == [node : Nodes \cup {None}, left : SUBSET ScanFiles]

TypeOK ==
  /\ watches \in [WatchRequests -> SUBSET WatchFiles]
  /\ scans \in [ScanRequests -> Directories]
  /\ pc \in [Clients -> {"idle"} \cup WatchPlaces \cup ScanPlaces]
  /\ ask \in [Clients -> WatchRequests \cup ScanRequests \cup {None}]
  /\ handle \in [Clients -> Handles]
  /\ answered \subseteq ScanRequests /\ wrecked \subseteq ScanRequests
  /\ \A c \in Clients : /\ pc[c] \in WatchPlaces => ask[c] \in WatchRequests
                        /\ pc[c] \in ScanPlaces => ask[c] \in ScanRequests

\* Who reads a watch reads one that is complete.
ReadersHaveAll ==
  \A c \in Clients : pc[c] = "read watch" => watches[ask[c]] = WatchFiles

\* Only what was asked for in range is built and complete.
WatchesInRange ==
  /\ \A c \in Clients : pc[c] \in {"build watch", "place watch"} => Acceptable(ask[c])
  /\ \A r \in WatchRequests : watches[r] = WatchFiles => Acceptable(r)

\* A handle is of a directory that was there while it is worked with.
HandlesAreOpen ==
  /\ \A c \in Clients : pc[c] = "unlink" <=> handle[c].node # None
  /\ \A r \in ScanRequests : scans[r].files # {} => scans[r].node # None

\* A client that works on the directory that is there has its files on the list.
ListsAreComplete ==
  \A c \in Clients :
    pc[c] = "unlink" /\ handle[c].node = scans[ask[c]].node
      => scans[ask[c]].files \subseteq handle[c].left

\* Some client can still finish scan r.
Finishes(r, c) ==
  /\ ask[c] = r
  /\ \/ pc[c] = "place scan" /\ scans[r].files = {}
     \/ pc[c] = "unlink" /\ handle[c].node = scans[r].node

\* A scan is whole, was never answered, or is being worked on.
Covered(r) ==
  \/ scans[r].files = ScanFiles
  \/ scans[r].files = {} /\ r \notin answered
  \/ \E c \in Clients : Finishes(r, c)

\* So is every scan that was not wrecked.
ScansAreCovered == \A r \in ScanRequests \ wrecked : Covered(r)

\* Watches are settled by the first three parts; scans need the lists, which
\* keep the last one at work on a directory from failing.
IInv ==
  /\ TypeOK /\ ReadersHaveAll /\ WatchesInRange
  /\ HandlesAreOpen /\ ListsAreComplete /\ ScansAreCovered

-----------------------------------------------------------------------------
(* Names of directories *)

\* There is a name that neither the directory that is there nor any of the
\* clients uses, as long as the client that asks for it uses none.
LEMMA NewNodeIsNew ==
  ASSUME TypeOK, NEW c \in Clients, handle[c].node = None, NEW r \in ScanRequests
  PROVE  /\ NewNode(r) \in Nodes
         /\ NewNode(r) # scans[r].node
         /\ \A d \in Clients : handle[d].node # NewNode(r)
<1> DEFINE used == [d \in Clients |-> IF d = c THEN scans[r].node ELSE handle[d].node]
           taken == {used[d] : d \in Clients}
<1>1. IsFiniteSet(Clients) /\ Cardinality(Clients) \in Nat
  BY RequestAssumption, FS_CardinalityType
<1>2. used \in Surjection(Clients, taken)
  BY DEF Surjection
<1>3. IsFiniteSet(taken) /\ Cardinality(taken) <= Cardinality(Clients)
  <2> HIDE DEF used, taken
  <2> QED
    BY <1>1, <1>2, FS_Surjection
<1>4. IsFiniteSet(Nodes) /\ Cardinality(Nodes) = Cardinality(Clients) + 1
  BY <1>1, FS_Interval DEF Nodes
<1>5. ~(Nodes \subseteq taken)
  <2> HIDE DEF taken
  <2> SUFFICES ASSUME Nodes \in SUBSET taken PROVE FALSE
    OBVIOUS
  <2>1. Cardinality(Nodes) <= Cardinality(taken)
    BY <1>3, FS_Subset
  <2>2. Cardinality(taken) \in Nat
    BY <1>3, FS_CardinalityType
  <2> QED
    BY <2>1, <2>2, <1>1, <1>3, <1>4
<1>6. \E n \in Nodes : n # scans[r].node /\ \A d \in Clients : handle[d].node # n
  <2>1. PICK n \in Nodes : n \notin taken
    BY <1>5
  <2>2. n # used[c] /\ \A d \in Clients : n # used[d]
    BY <2>1
  <2>3. n # None
    BY <1>1, NodeAssumption DEF Nodes
  <2>4. \A d \in Clients : handle[d].node # n
    BY <2>2, <2>3
  <2> QED
    BY <2>2, <2>4
<1> QED
  BY <1>6 DEF NewNode

-----------------------------------------------------------------------------
(* Watches *)

\* A legacy watch is not complete, and no watch is when it is not there.
LEMMA WatchFilesAreSeven == "caddi_contexts" \in WatchFiles
<1>1. WatchOrder[7] = "caddi_contexts" /\ 7 \in DOMAIN WatchOrder
  BY DEF WatchOrder
<1> QED
  BY <1>1 DEF WatchFiles, ToSet

\* A set of numbers that is not empty has a least one: among the intervals below
\* its members one has no other inside.
LEMMA LeastNumber ==
  ASSUME NEW N \in SUBSET Nat, N # {}
  PROVE  \E n \in N : \A m \in N : n <= m
<1> DEFINE below == {0..(n - 1) : n \in N}
<1>1. below \subseteq FiniteSubsetsOf(Int) /\ below # {}
  <2>1. \A n \in N : IsFiniteSet(0..(n - 1)) /\ 0..(n - 1) \in SUBSET Int
    BY FS_Interval
  <2> QED
    BY <2>1 DEF FiniteSubsetsOf
<1>2. PICK x \in below : \A y \in below : ~(<<y, x>> \in StrictSubsetOrdering(Int))
  <2> HIDE DEF below
  <2> QED
    BY <1>1, FS_StrictSubsetOrderingWellFounded, WFMin
<1>3. PICK n \in N : x = 0..(n - 1)
  OBVIOUS
<1>4. ASSUME NEW m \in N, m < n PROVE FALSE
  <2>1. 0..(m - 1) \in below
    OBVIOUS
  <2>2. 0..(m - 1) \subseteq 0..(n - 1) /\ m \in 0..(n - 1) /\ m \notin 0..(m - 1)
    BY <1>4
  <2>3. 0..(m - 1) \in SUBSET Int /\ 0..(n - 1) \in SUBSET Int
    OBVIOUS
  <2>4. <<0..(m - 1), 0..(n - 1)>> \in StrictSubsetOrdering(Int)
    BY <2>2, <2>3 DEF StrictSubsetOrdering
  <2> QED
    BY <1>2, <1>3, <2>1, <2>4
<1> QED
  BY <1>4

\* Among requests in range there is a latest one.
LEMMA LatestIsThere ==
  ASSUME NEW R \in SUBSET WatchRequests, R # {}, \A r \in R : Acceptable(r)
  PROVE  Latest(R) \in R
<1> DEFINE ahead == {3 * Day - r.asOf : r \in R}
<1>1. \A r \in R : r.asOf \in Nat /\ r.asOf <= 3 * Day
  BY DEF Acceptable, Day, Hour
<1>2. 3 * Day \in Nat
  BY DEF Day, Hour
<1>3. ahead \in SUBSET Nat /\ ahead # {}
  BY <1>1, <1>2
<1>4. PICK n \in ahead : \A m \in ahead : n <= m
  <2> HIDE DEF ahead
  <2> QED
    BY <1>3, LeastNumber
<1>5. PICK r \in R : n = 3 * Day - r.asOf
  OBVIOUS
<1>6. \A q \in R : q.asOf <= r.asOf
  <2> SUFFICES ASSUME NEW q \in R PROVE q.asOf <= r.asOf
    OBVIOUS
  <2>1. 3 * Day - r.asOf <= 3 * Day - q.asOf
    BY <1>4, <1>5
  <2> QED
    BY <2>1, <1>1, <1>2
<1> QED
  BY <1>6, Zenon DEF Latest

-----------------------------------------------------------------------------
(* Steps *)

\* Nothing, and a directory that is taken apart, are of the type.
LEMMA Closing == Closed \in Handles /\ Absent \in Directories
BY DEF Closed, Handles, Absent, Directories

\* A directory of a scan and a handle of it.
LEMMA DirectoryTypes ==
  ASSUME TypeOK, NEW r \in ScanRequests, NEW c \in Clients, NEW f
  PROVE  /\ [node |-> scans[r].node, left |-> scans[r].files] \in Handles
         /\ [scans[r] EXCEPT !.files = scans[r].files \ {f}] \in Directories
         /\ [handle[c] EXCEPT !.left = handle[c].left \ {f}] \in Handles
<1>1. scans[r] \in Directories /\ handle[c] \in Handles
  BY DEF TypeOK
<1> QED
  BY <1>1 DEF Directories, Handles

\* Every step keeps the types.
LEMMA TypeStep ==
  ASSUME TypeOK, WatchesInRange, HandlesAreOpen, NEW c \in Clients, Watch(c) \/ Scan(c) \/
         Die(c)
  PROVE  TypeOK'
<1>1. ASSUME NEW r \in WatchRequests, AskWatch(c, r) PROVE TypeOK'
  BY <1>1 DEF AskWatch, TypeOK, Ends, Goto, Moves, WatchPlaces, ScanPlaces
<1>2. ASSUME NEW r \in WatchRequests, OpenWatch(c, r) PROVE TypeOK'
  BY <1>2 DEF OpenWatch, TypeOK, Ends, Goto, Moves, WatchPlaces, ScanPlaces
<1>3. CASE BuildWatch(c)
  BY <1>3 DEF BuildWatch, TypeOK, Ends, Goto, Moves, WatchPlaces, ScanPlaces
<1>4. CASE PlaceWatch(c)
  BY <1>4, Closing DEF PlaceWatch, TypeOK, Ends, Goto, Moves, WatchPlaces, ScanPlaces
<1>5. CASE OpenLatest(c)
  <2> DEFINE complete == {r \in Listed : watches[r] = WatchFiles}
  <2>1. Latest(complete) \in WatchRequests
    <3>1. complete \in SUBSET WatchRequests /\ \A r \in complete : Acceptable(r)
      BY DEF Listed, WatchesInRange
    <3>2. complete # {}
      BY <1>5 DEF OpenLatest
    <3> HIDE DEF complete
    <3> QED
      BY <3>1, <3>2, LatestIsThere
  <2>2. ask' = [ask EXCEPT ![c] = Latest(complete)]
    BY <1>5 DEF OpenLatest
  <2> HIDE DEF complete
  <2> QED
    BY <1>5, <2>1, <2>2 DEF OpenLatest, TypeOK, Goto, WatchPlaces, ScanPlaces
<1>6. CASE ReadWatch(c)
  BY <1>6 DEF ReadWatch, TypeOK, Ends, Goto, Moves, WatchPlaces, ScanPlaces
<1>7. CASE AnswerWatch(c)
  BY <1>7, Closing DEF AnswerWatch, TypeOK, Ends, Goto, Moves, WatchPlaces, ScanPlaces
<1>8. ASSUME NEW r \in ScanRequests, AskScan(c, r) PROVE TypeOK'
  BY <1>8 DEF AskScan, TypeOK, Ends, Goto, Moves, WatchPlaces, ScanPlaces
<1>9. ASSUME NEW r \in ScanRequests, ReadScan(c, r) PROVE TypeOK'
  BY <1>9 DEF ReadScan, TypeOK, Ends, Goto, Moves, WatchPlaces, ScanPlaces
<1>10. CASE BuildScan(c)
  BY <1>10 DEF BuildScan, TypeOK, Ends, Goto, Moves, WatchPlaces, ScanPlaces
<1>11. CASE OpenScan(c)
  <2>1. ask[c] \in ScanRequests
    BY <1>11 DEF OpenScan, TypeOK, ScanPlaces
  <2>2. handle' \in [Clients -> Handles]
    BY <1>11, <2>1, Closing, DirectoryTypes DEF OpenScan, TypeOK, Ends
  <2> QED
    BY <1>11, <2>1, <2>2 DEF OpenScan, TypeOK, Ends, Goto, Moves, WatchPlaces, ScanPlaces
<1>12. CASE Unlink(c)
  <2>1. ask[c] \in ScanRequests
    BY <1>12 DEF Unlink, TypeOK, ScanPlaces
  <2>2. PICK f \in handle[c].left :
          /\ handle' = [handle EXCEPT ![c].left = handle[c].left \ {f}]
          /\ scans' = [scans EXCEPT ![ask[c]].files =
                         IF scans[ask[c]].node = handle[c].node
                         THEN scans[ask[c]].files \ {f} ELSE scans[ask[c]].files]
    BY <1>12 DEF Unlink
  <2>3. handle' \in [Clients -> Handles]
    BY <2>1, <2>2, DirectoryTypes DEF TypeOK
  <2>4. scans' \in [ScanRequests -> Directories]
    <3>1. CASE scans[ask[c]].node = handle[c].node
      <4>1. scans' = [scans EXCEPT ![ask[c]] =
                       [scans[ask[c]] EXCEPT !.files = scans[ask[c]].files \ {f}]]
        BY <2>2, <3>1
      <4> QED
        BY <4>1, <2>1, DirectoryTypes DEF TypeOK
    <3>2. CASE scans[ask[c]].node # handle[c].node
      <4>1. scans' = scans
        BY <2>1, <2>2, <3>2 DEF TypeOK, Directories
      <4> QED
        BY <4>1 DEF TypeOK
    <3> QED
      BY <3>1, <3>2
  <2> QED
    BY <1>12, <2>3, <2>4 DEF Unlink, TypeOK
<1>13. CASE RemoveScan(c)
  <2>1. ask[c] \in ScanRequests
    BY <1>13 DEF RemoveScan, TypeOK, ScanPlaces
  <2>2. scans' \in [ScanRequests -> Directories] /\ handle' \in [Clients -> Handles]
    BY <1>13, <2>1, Closing DEF RemoveScan, TypeOK, Ends
  <2> QED
    BY <1>13, <2>1, <2>2, ZenonT(60) DEF RemoveScan, TypeOK, Ends, Goto, Moves, WatchPlaces, ScanPlaces
<1>14. CASE PlaceScan(c)
  <2>1. ask[c] \in ScanRequests
    BY <1>14 DEF PlaceScan, TypeOK, ScanPlaces
  <2>2. scans' \in [ScanRequests -> Directories]
    <3>1. handle[c].node = None
      BY <1>14 DEF PlaceScan, HandlesAreOpen
    <3>2. [node |-> NewNode(ask[c]), files |-> ScanFiles] \in Directories
      BY <2>1, <3>1, NewNodeIsNew DEF Directories
    <3> QED
      BY <1>14, <2>1, <3>2 DEF PlaceScan, TypeOK
  <2>3. handle' \in [Clients -> Handles]
    BY <1>14, Closing DEF PlaceScan, TypeOK, Ends
  <2> QED
    BY <1>14, <2>1, <2>2, <2>3 DEF PlaceScan, TypeOK, Ends, Goto, Moves, WatchPlaces,
       ScanPlaces
<1>15. CASE ReadScanFile(c)
  BY <1>15, Closing DEF ReadScanFile, TypeOK, Ends, Goto, Moves, WatchPlaces, ScanPlaces
<1>16. CASE Die(c)
  BY <1>16, Closing DEF Die, TypeOK, Ends, Goto, Moves, WatchPlaces, ScanPlaces
<1> QED
  BY <1>1, <1>2, <1>3, <1>4, <1>5, <1>6, <1>7, <1>8, <1>9, <1>10, <1>11, <1>12, <1>13,
     <1>14, <1>15, <1>16 DEF Watch, Scan

\* What a client does to the directory it removes, and to the list it has of it.
LEMMA Unlinked ==
  ASSUME TypeOK, NEW c \in Clients, Unlink(c)
  PROVE  \E f :
           /\ \A d \in Clients :
                /\ handle'[d].node = handle[d].node
                /\ handle'[d].left = IF d = c THEN handle[d].left \ {f} ELSE handle[d].left
           /\ \A r \in ScanRequests :
                /\ scans'[r].node = scans[r].node
                /\ scans'[r].files =
                     IF r = ask[c] /\ scans[r].node = handle[c].node
                     THEN scans[r].files \ {f} ELSE scans[r].files
<1>1. PICK f \in handle[c].left :
        /\ handle' = [handle EXCEPT ![c].left = handle[c].left \ {f}]
        /\ scans' = [scans EXCEPT ![ask[c]].files =
                       IF scans[ask[c]].node = handle[c].node
                       THEN scans[ask[c]].files \ {f} ELSE scans[ask[c]].files]
  BY DEF Unlink
<1> WITNESS f
<1>2. ask[c] \in ScanRequests
  BY DEF Unlink, TypeOK, ScanPlaces
<1>3. \A d \in Clients : handle[d] \in [node : Nodes \cup {None}, left : SUBSET ScanFiles]
  BY DEF TypeOK, Handles
<1>4. \A r \in ScanRequests : scans[r] \in [node : Nodes \cup {None}, files : SUBSET ScanFiles]
  BY DEF TypeOK, Directories
<1>5. handle \in [Clients -> Handles] /\ scans \in [ScanRequests -> Directories]
  BY DEF TypeOK
<1>6. \A d \in Clients :
        /\ handle'[d].node = handle[d].node
        /\ handle'[d].left = IF d = c THEN handle[d].left \ {f} ELSE handle[d].left
  BY <1>1, <1>3, <1>5
<1>7. \A r \in ScanRequests :
        /\ scans'[r].node = scans[r].node
        /\ scans'[r].files =
             IF r = ask[c] /\ scans[r].node = handle[c].node
             THEN scans[r].files \ {f} ELSE scans[r].files
  BY <1>1, <1>2, <1>4, <1>5
<1> QED
  BY <1>6, <1>7

\* What a step leaves of the other clients, and of one whose call is over.
Others(c) ==
  \A d \in Clients \ {c} : pc'[d] = pc[d] /\ ask'[d] = ask[d] /\ handle'[d] = handle[d]
Left(c) == pc'[c] = "idle" /\ handle'[c].node = None /\ Others(c)

LEMMA EndsLeft ==
  ASSUME TypeOK, NEW c \in Clients, Ends(c) PROVE Left(c)
BY DEF TypeOK, Ends, Goto, Closed, Left, Others

\* Where a client gets that opens the directory of its scan.
LEMMA Opened ==
  ASSUME TypeOK, NEW c \in Clients, OpenScan(c)
  PROVE  /\ ask[c] \in ScanRequests /\ pc[c] = "clear scan" /\ scans' = scans
         /\ \/ Left(c)
            \/ /\ Others(c) /\ pc'[c] = "unlink" /\ ask'[c] = ask[c]
               /\ scans[ask[c]].node # None
               /\ handle'[c].node = scans[ask[c]].node
               /\ handle'[c].left = scans[ask[c]].files
<1>1. ask[c] \in ScanRequests /\ pc[c] = "clear scan" /\ scans' = scans
  BY DEF OpenScan, TypeOK, ScanPlaces
<1>2. CASE Exists(ask[c])
  <2>1. handle' = [handle EXCEPT ![c] = [node |-> scans[ask[c]].node, left |-> scans[ask[c]].files]]
    BY <1>2 DEF OpenScan
  <2>2. Others(c) /\ pc'[c] = "unlink" /\ ask'[c] = ask[c]
    BY <1>2, <2>1 DEF OpenScan, TypeOK, Goto, Others
  <2>3. handle'[c] = [node |-> scans[ask[c]].node, left |-> scans[ask[c]].files]
    BY <2>1 DEF TypeOK
  <2>4. handle'[c].node = scans[ask[c]].node /\ handle'[c].left = scans[ask[c]].files
    BY <2>3
  <2> QED
    BY <1>1, <1>2, <2>2, <2>4, Zenon DEF Exists
<1>3. CASE ~Exists(ask[c])
  BY <1>1, <1>3, EndsLeft DEF OpenScan
<1> QED
  BY <1>2, <1>3

\* Where it gets when its list is done.
LEMMA Removed ==
  ASSUME TypeOK, NEW c \in Clients, RemoveScan(c)
  PROVE  /\ ask[c] \in ScanRequests /\ pc[c] = "unlink" /\ handle[c].left = {}
         /\ \/ /\ Left(c) /\ scans' = scans
               /\ scans[ask[c]].node = None \/ scans[ask[c]].files # {}
            \/ /\ Others(c) /\ pc'[c] = "place scan" /\ ask'[c] = ask[c]
               /\ handle'[c].node = None
               /\ scans'[ask[c]].node = None /\ scans'[ask[c]].files = {}
               /\ \A r \in ScanRequests \ {ask[c]} : scans'[r] = scans[r]
<1>1. ask[c] \in ScanRequests /\ pc[c] = "unlink" /\ handle[c].left = {}
  BY DEF RemoveScan, TypeOK, ScanPlaces
<1>2. CASE Exists(ask[c]) /\ scans[ask[c]].files = {}
  <2>1. Others(c) /\ pc'[c] = "place scan" /\ ask'[c] = ask[c]
    BY <1>2 DEF RemoveScan, TypeOK, Goto, Others
  <2>2. handle'[c] = Closed
    BY <1>2 DEF RemoveScan, TypeOK
  <2>3. scans'[ask[c]] = Absent /\ \A r \in ScanRequests \ {ask[c]} : scans'[r] = scans[r]
    BY <1>1, <1>2 DEF RemoveScan, TypeOK
  <2>4. handle'[c].node = None /\ scans'[ask[c]].node = None /\ scans'[ask[c]].files = {}
    BY <2>2, <2>3 DEF Closed, Absent
  <2> QED
    BY <1>1, <2>1, <2>3, <2>4, Zenon
<1>3. CASE ~(Exists(ask[c]) /\ scans[ask[c]].files = {})
  BY <1>1, <1>3, EndsLeft DEF RemoveScan, Exists
<1> QED
  BY <1>2, <1>3

\* What it puts in place, if there is nothing in the way.
LEMMA Placed ==
  ASSUME TypeOK, HandlesAreOpen, NEW c \in Clients, PlaceScan(c)
  PROVE  /\ ask[c] \in ScanRequests /\ pc[c] = "place scan" /\ Left(c)
         /\ \/ /\ UNCHANGED <<scans, answered, wrecked>> /\ scans[ask[c]].files # {}
            \/ /\ answered' = answered \cup {ask[c]} /\ wrecked' = wrecked \ {ask[c]}
               /\ scans'[ask[c]].files = ScanFiles /\ scans'[ask[c]].node # None
               /\ \A d \in Clients : handle[d].node # scans'[ask[c]].node
               /\ \A r \in ScanRequests \ {ask[c]} : scans'[r] = scans[r]
<1>1. ask[c] \in ScanRequests /\ pc[c] = "place scan" /\ Left(c)
  BY EndsLeft DEF PlaceScan, TypeOK, ScanPlaces
<1>2. CASE scans[ask[c]].files = {}
  <2>1. handle[c].node = None
    BY <1>1 DEF HandlesAreOpen
  <2>2. /\ NewNode(ask[c]) # None
        /\ \A d \in Clients : handle[d].node # NewNode(ask[c])
    BY <1>1, <2>1, NewNodeIsNew, NodeAssumption
  <2>3. scans' = [scans EXCEPT ![ask[c]] = [node |-> NewNode(ask[c]), files |-> ScanFiles]]
    BY <1>2 DEF PlaceScan
  <2>4. scans'[ask[c]] = [node |-> NewNode(ask[c]), files |-> ScanFiles]
    BY <1>1, <2>3 DEF TypeOK
  <2>5. \A r \in ScanRequests \ {ask[c]} : scans'[r] = scans[r]
    BY <2>3 DEF TypeOK
  <2>6. answered' = answered \cup {ask[c]} /\ wrecked' = wrecked \ {ask[c]}
    BY <1>2 DEF PlaceScan
  <2>7. scans'[ask[c]].node = NewNode(ask[c]) /\ scans'[ask[c]].files = ScanFiles
    BY <2>4
  <2> QED
    BY <1>1, <2>2, <2>5, <2>6, <2>7, Zenon
<1>3. CASE scans[ask[c]].files # {}
  BY <1>1, <1>3 DEF PlaceScan
<1> QED
  BY <1>2, <1>3

\* A step that has nothing to do with the removal of a scan.
Quiet(c) ==
  \/ Watch(c) \/ BuildScan(c) \/ ReadScanFile(c)
  \/ \E r \in ScanRequests : AskScan(c, r) \/ ReadScan(c, r)

LEMMA Elsewhere ==
  ASSUME TypeOK, HandlesAreOpen, NEW c \in Clients, Quiet(c)
  PROVE  /\ Others(c) /\ scans' = scans /\ wrecked' = wrecked
         /\ pc'[c] # "unlink" /\ handle'[c].node = None
         /\ \A q \in ScanRequests : ~Finishes(q, c)
         /\ \A q \in answered' \ answered : scans[q].files # {}
<1>1. Others(c) /\ pc'[c] # "unlink"
  <2>1. CASE Watch(c)
    BY <2>1, EndsLeft DEF Watch, AskWatch, BuildWatch, PlaceWatch, OpenWatch, OpenLatest,
       ReadWatch,
       AnswerWatch, TypeOK, Goto, Moves, Left, Others
  <2>2. CASE ~Watch(c)
    BY <2>2, EndsLeft DEF Quiet, AskScan, BuildScan, ReadScan, ReadScanFile, TypeOK, Goto,
       Left, Others
  <2> QED
    BY <2>1, <2>2
<1>2. pc[c] \notin {"unlink", "place scan"}
  BY DEF Quiet, Watch, AskWatch, BuildWatch, PlaceWatch, OpenWatch, OpenLatest, ReadWatch,
     AnswerWatch, AskScan, BuildScan, ReadScan, ReadScanFile, Moves
<1>3. scans' = scans /\ wrecked' = wrecked /\ \A q \in answered' \ answered : scans[q].files # {}
  BY DEF Quiet, Watch, AskWatch, BuildWatch, PlaceWatch, OpenWatch, OpenLatest, ReadWatch,
     AnswerWatch, AskScan, BuildScan, ReadScan, ReadScanFile
<1>4. handle'[c].node = None
  <2>1. handle' = handle \/ Left(c)
    BY EndsLeft DEF Quiet, Watch, AskWatch, BuildWatch, PlaceWatch, OpenWatch, OpenLatest,
       ReadWatch,
       AnswerWatch, AskScan, BuildScan, ReadScan, ReadScanFile
  <2> QED
    BY <1>2, <2>1 DEF HandlesAreOpen, Left
<1> QED
  BY <1>1, <1>2, <1>3, <1>4 DEF Finishes

\* A watch that is complete stays, and only requests in range are built.
LEMMA WatchStep ==
  ASSUME TypeOK, ReadersHaveAll, WatchesInRange, NEW c \in Clients, Watch(c) \/ Scan(c) \/
         Die(c)
  PROVE  ReadersHaveAll' /\ WatchesInRange'
<1>1. ASSUME NEW r \in WatchRequests, AskWatch(c, r) PROVE ReadersHaveAll' /\ WatchesInRange'
  BY <1>1 DEF AskWatch, TypeOK, ReadersHaveAll, WatchesInRange, Ends, Goto, Moves,
     WatchPlaces, ScanPlaces
<1>2. ASSUME NEW r \in WatchRequests, OpenWatch(c, r) PROVE ReadersHaveAll' /\ WatchesInRange'
  BY <1>2 DEF OpenWatch, TypeOK, ReadersHaveAll, WatchesInRange, Ends, Goto, Moves,
     WatchPlaces, ScanPlaces
<1>3. CASE BuildWatch(c)
  BY <1>3 DEF BuildWatch, TypeOK, ReadersHaveAll, WatchesInRange, Ends, Goto, Moves,
     WatchPlaces, ScanPlaces
<1>4. CASE PlaceWatch(c)
  BY <1>4 DEF PlaceWatch, TypeOK, ReadersHaveAll, WatchesInRange, Ends, Goto, Moves,
     WatchPlaces, ScanPlaces
<1>5. CASE OpenLatest(c)
  <2> DEFINE complete == {r \in Listed : watches[r] = WatchFiles}
  <2>1. Latest(complete) \in complete
    <3>1. complete \in SUBSET WatchRequests /\ \A r \in complete : Acceptable(r)
      BY DEF Listed, WatchesInRange
    <3>2. complete # {}
      BY <1>5 DEF OpenLatest
    <3> HIDE DEF complete
    <3> QED
      BY <3>1, <3>2, LatestIsThere
  <2>2. watches[Latest(complete)] = WatchFiles
    BY <2>1
  <2>3. ask' = [ask EXCEPT ![c] = Latest(complete)]
    BY <1>5 DEF OpenLatest
  <2> HIDE DEF complete
  <2> QED
    BY <1>5, <2>2, <2>3 DEF OpenLatest, TypeOK, Goto, ReadersHaveAll, WatchesInRange
<1>6. CASE ReadWatch(c)
  BY <1>6 DEF ReadWatch, TypeOK, ReadersHaveAll, WatchesInRange, Ends, Goto, Moves,
     WatchPlaces, ScanPlaces
<1>7. CASE AnswerWatch(c)
  BY <1>7 DEF AnswerWatch, TypeOK, ReadersHaveAll, WatchesInRange, Ends, Goto, Moves,
     WatchPlaces, ScanPlaces
<1>8. CASE Scan(c) \/ Die(c)
  <2>1. watches' = watches /\ pc'[c] \notin {"build watch", "place watch", "read watch"}
    BY <1>8 DEF Scan, AskScan, BuildScan, OpenScan, Unlink, RemoveScan, PlaceScan, ReadScan,
       ReadScanFile, Die, TypeOK, Ends, Goto
  <2>2. \A d \in Clients \ {c} : pc'[d] = pc[d] /\ ask'[d] = ask[d]
    BY <1>8 DEF Scan, AskScan, BuildScan, OpenScan, Unlink, RemoveScan, PlaceScan, ReadScan,
       ReadScanFile, Die, TypeOK, Ends, Goto
  <2> QED
    BY <2>1, <2>2 DEF ReadersHaveAll, WatchesInRange
<1> QED
  BY <1>1, <1>2, <1>3, <1>4, <1>5, <1>6, <1>7, <1>8 DEF Watch

\* A handle is open while it is worked with.
LEMMA HandleStep ==
  ASSUME TypeOK, HandlesAreOpen, NEW c \in Clients, Watch(c) \/ Scan(c) \/ Die(c)
  PROVE  HandlesAreOpen'
<1>1. CASE Quiet(c)
  BY <1>1, Elsewhere DEF HandlesAreOpen, Others
<1>2. CASE OpenScan(c)
  BY <1>2, Opened, ZenonT(60) DEF HandlesAreOpen, Left, Others, ScanPlaces
<1>3. CASE Unlink(c)
  BY <1>3, Unlinked DEF HandlesAreOpen, Left, Others, ScanPlaces, Unlink, TypeOK
<1>4. CASE RemoveScan(c)
  <2>1. CASE Left(c) /\ scans' = scans
    BY <1>4, <2>1, Removed, ZenonT(60) DEF HandlesAreOpen, Left, Others
  <2>2. CASE ~(Left(c) /\ scans' = scans)
    <3>1. /\ Others(c) /\ pc'[c] = "place scan" /\ handle'[c].node = None
          /\ scans'[ask[c]].files = {}
          /\ \A r \in ScanRequests \ {ask[c]} : scans'[r] = scans[r]
      BY <1>4, <2>2, Removed, Zenon
    <3>2. \A d \in Clients : pc'[d] = "unlink" <=> handle'[d].node # None
      BY <3>1 DEF HandlesAreOpen, Others
    <3>3. \A r \in ScanRequests : scans'[r].files # {} => scans'[r].node # None
      BY <3>1 DEF HandlesAreOpen
    <3> QED
      BY <3>2, <3>3 DEF HandlesAreOpen
  <2> QED
    BY <2>1, <2>2
<1>5. CASE PlaceScan(c)
  <2>1. \A d \in Clients : pc'[d] = "unlink" <=> handle'[d].node # None
    <3>1. Left(c) /\ pc[c] # "unlink"
      BY <1>5, Placed
    <3> QED
      BY <3>1 DEF HandlesAreOpen, Left, Others
  <2>2. \A r \in ScanRequests : scans'[r].files # {} => scans'[r].node # None
    BY <1>5, Placed DEF HandlesAreOpen
  <2> QED
    BY <2>1, <2>2 DEF HandlesAreOpen
<1>6. CASE Die(c)
  BY <1>6, EndsLeft, ZenonT(60) DEF Die, HandlesAreOpen, TypeOK, Left, Others, WatchPlaces, ScanPlaces
<1> QED
  BY <1>1, <1>2, <1>3, <1>4, <1>5, <1>6 DEF Quiet, Scan

\* Whoever opens the directory lists it all; a new one is told apart.
LEMMA ListStep ==
  ASSUME TypeOK, HandlesAreOpen, ListsAreComplete, NEW c \in Clients, Watch(c) \/ Scan(c) \/
         Die(c)
  PROVE  ListsAreComplete'
<1>1. CASE Quiet(c)
  BY <1>1, Elsewhere DEF ListsAreComplete, Others, TypeOK, ScanPlaces
<1>2. CASE OpenScan(c)
  BY <1>2, Opened, ZenonT(60) DEF ListsAreComplete, Left, Others, ScanPlaces
<1>3. CASE Unlink(c)
  <2> SUFFICES ASSUME NEW d \in Clients, pc'[d] = "unlink", handle'[d].node = scans'[ask'[d]].node
               PROVE  scans'[ask'[d]].files \subseteq handle'[d].left
    BY DEF ListsAreComplete
  <2>1. pc[d] = "unlink" /\ ask'[d] = ask[d] /\ ask[d] \in ScanRequests
    BY <1>3 DEF Unlink, TypeOK, ScanPlaces
  <2>2. PICK f :
          /\ handle'[d].node = handle[d].node
          /\ handle'[d].left = IF d = c THEN handle[d].left \ {f} ELSE handle[d].left
          /\ scans'[ask[d]].node = scans[ask[d]].node
          /\ scans'[ask[d]].files =
               IF ask[d] = ask[c] /\ scans[ask[d]].node = handle[c].node
               THEN scans[ask[d]].files \ {f} ELSE scans[ask[d]].files
    BY <1>3, <2>1, Unlinked
  <2>3. scans[ask[d]].files \subseteq handle[d].left
    BY <2>1, <2>2 DEF ListsAreComplete
  <2> QED
    BY <2>1, <2>2, <2>3
<1>4. CASE RemoveScan(c)
  <2> SUFFICES ASSUME NEW d \in Clients, pc'[d] = "unlink", handle'[d].node = scans'[ask'[d]].node
               PROVE  scans'[ask'[d]].files \subseteq handle'[d].left
    BY DEF ListsAreComplete
  <2>1. d # c /\ Others(c)
    BY <1>4, Removed DEF Left
  <2>2. /\ pc[d] = "unlink" /\ ask'[d] = ask[d] /\ handle'[d] = handle[d]
        /\ ask[d] \in ScanRequests /\ handle[d].node # None
    BY <2>1 DEF Others, TypeOK, HandlesAreOpen, ScanPlaces
  <2>3. scans'[ask[d]] = scans[ask[d]]
    <3>1. ask[d] = ask[c] => scans'[ask[c]].node # None
      BY <2>2
    <3> QED
      BY <1>4, <2>2, <3>1, Removed, Zenon
  <2> QED
    BY <2>2, <2>3 DEF ListsAreComplete
<1>5. CASE PlaceScan(c)
  <2> SUFFICES ASSUME NEW d \in Clients, pc'[d] = "unlink", handle'[d].node = scans'[ask'[d]].node
               PROVE  scans'[ask'[d]].files \subseteq handle'[d].left
    BY DEF ListsAreComplete
  <2>1. d # c /\ Others(c)
    BY <1>5, Placed DEF Left
  <2>2. /\ pc[d] = "unlink" /\ ask'[d] = ask[d] /\ handle'[d] = handle[d]
        /\ ask[d] \in ScanRequests
    BY <2>1 DEF Others, TypeOK, ScanPlaces
  <2>3. scans'[ask[d]] = scans[ask[d]]
    BY <1>5, <2>2, Placed
  <2> QED
    BY <2>2, <2>3 DEF ListsAreComplete
<1>6. CASE Die(c)
  BY <1>6, EndsLeft DEF Die, ListsAreComplete, TypeOK, Left, Others, WatchPlaces, ScanPlaces
<1> QED
  BY <1>1, <1>2, <1>3, <1>4, <1>5, <1>6 DEF Quiet, Scan

\* A scan stays covered by a step that leaves its directory alone, of a client
\* that could not have finished it.
LEMMA StaysCovered ==
  ASSUME NEW r \in ScanRequests, Covered(r), NEW c \in Clients, Others(c), ~Finishes(r, c),
         scans'[r].node = scans[r].node, scans'[r].files = scans[r].files,
         r \in answered' => r \in answered \/ scans[r].files # {}
  PROVE  Covered(r)'
<1>1. CASE scans[r].files = ScanFiles
  BY <1>1 DEF Covered
<1>2. CASE scans[r].files = {} /\ r \notin answered
  BY <1>2 DEF Covered
<1>3. ASSUME NEW d \in Clients, Finishes(r, d) PROVE Covered(r)'
  <2>1. d # c
    BY <1>3
  <2>2. Finishes(r, d)'
    BY <1>3, <2>1 DEF Finishes, Others
  <2> QED
    BY <2>2 DEF Covered
<1> QED
  BY <1>1, <1>2, <1>3 DEF Covered

\* So do all when nothing on disk changes.
LEMMA StayCovered ==
  ASSUME ScansAreCovered, NEW c \in Clients, Others(c), scans' = scans,
         wrecked \subseteq wrecked',
         \A r \in ScanRequests \ wrecked' : ~Finishes(r, c),
         \A r \in answered' \ answered : scans[r].files # {}
  PROVE  ScansAreCovered'
<1> SUFFICES ASSUME NEW r \in ScanRequests, r \notin wrecked' PROVE Covered(r)'
  BY DEF ScansAreCovered
<1>1. Covered(r) /\ ~Finishes(r, c)
  BY DEF ScansAreCovered
<1>2. r \in answered' => r \in answered \/ scans[r].files # {}
  OBVIOUS
<1>3. scans'[r].node = scans[r].node /\ scans'[r].files = scans[r].files
  OBVIOUS
<1> QED
  BY <1>1, <1>2, <1>3, StaysCovered

\* Of those who are at work on a scan one can finish it, unless one has died.
LEMMA CoverStep ==
  ASSUME TypeOK, HandlesAreOpen, ListsAreComplete, ScansAreCovered, NEW c \in Clients,
         Watch(c) \/ Scan(c) \/ Die(c)
  PROVE  ScansAreCovered'
<1>1. CASE Quiet(c)
  BY <1>1, Elsewhere, StayCovered
<1>2. CASE OpenScan(c)
  <2>1. Others(c) /\ scans' = scans
    BY <1>2, Opened DEF Left
  <2>2. wrecked' = wrecked /\ answered' = answered /\ \A q \in ScanRequests : ~Finishes(q, c)
    BY <1>2 DEF OpenScan, Finishes
  <2> QED
    BY <2>1, <2>2, StayCovered
<1>3. CASE Unlink(c)
  <2> SUFFICES ASSUME NEW r \in ScanRequests, r \notin wrecked' PROVE Covered(r)'
    BY DEF ScansAreCovered
  <2>1. /\ pc' = pc /\ ask' = ask /\ pc[c] = "unlink" /\ answered' = answered
        /\ wrecked' = wrecked
    BY <1>3 DEF Unlink
  <2>2. Covered(r)
    BY <2>1 DEF ScansAreCovered
  <2>3. PICK f :
          /\ \A d \in Clients : handle'[d].node = handle[d].node
          /\ scans'[r].node = scans[r].node
          /\ scans'[r].files = IF r = ask[c] /\ scans[r].node = handle[c].node
                               THEN scans[r].files \ {f} ELSE scans[r].files
    BY <1>3, Unlinked
  <2>4. ASSUME NEW d \in Clients, Finishes(r, d) PROVE Covered(r)'
    <3>1. Finishes(r, d)'
      BY <2>1, <2>3, <2>4 DEF Finishes
    <3> QED
      BY <3>1 DEF Covered
  <2>5. CASE r = ask[c] /\ scans[r].node = handle[c].node
    <3>1. Finishes(r, c)
      BY <2>1, <2>5 DEF Finishes
    <3> QED
      BY <2>4, <3>1
  <2>6. CASE ~(r = ask[c] /\ scans[r].node = handle[c].node)
    BY <2>1, <2>2, <2>3, <2>4, <2>6 DEF Covered
  <2> QED
    BY <2>5, <2>6
<1>4. CASE RemoveScan(c)
  <2>1. ask[c] \in ScanRequests /\ pc[c] = "unlink" /\ handle[c].left = {}
    BY <1>4, Removed
  <2>2. wrecked' = wrecked /\ answered' = answered
    BY <1>4 DEF RemoveScan
  <2>3. CASE /\ Left(c) /\ scans' = scans
             /\ scans[ask[c]].node = None \/ scans[ask[c]].files # {}
    <3>1. \A q \in ScanRequests : ~Finishes(q, c)
      BY <2>1, <2>3 DEF Finishes, HandlesAreOpen, ListsAreComplete
    <3> QED
      BY <2>2, <2>3, <3>1, StayCovered DEF Left
  <2>4. CASE /\ Others(c) /\ pc'[c] = "place scan" /\ ask'[c] = ask[c]
             /\ scans'[ask[c]].files = {}
             /\ \A r \in ScanRequests \ {ask[c]} : scans'[r] = scans[r]
    <3>1. ASSUME NEW r \in ScanRequests, r = ask[c] PROVE Covered(r)'
      <4>1. Finishes(r, c)'
        BY <2>4, <3>1 DEF Finishes
      <4> QED
        BY <4>1 DEF Covered
    <3>2. ASSUME NEW r \in ScanRequests, r \notin wrecked, r # ask[c] PROVE Covered(r)'
      <4>1. Covered(r) /\ ~Finishes(r, c) /\ scans'[r] = scans[r]
        BY <2>4, <3>2 DEF ScansAreCovered, Finishes
      <4> QED
        BY <2>2, <2>4, <4>1, StaysCovered
    <3> QED
      BY <2>2, <3>1, <3>2 DEF ScansAreCovered
  <2> QED
    BY <1>4, <2>3, <2>4, Removed
<1>5. CASE PlaceScan(c)
  <2>1. ask[c] \in ScanRequests /\ pc[c] = "place scan" /\ Others(c)
    BY <1>5, Placed DEF Left
  <2>2. CASE UNCHANGED <<scans, answered, wrecked>> /\ scans[ask[c]].files # {}
    <3>1. \A q \in ScanRequests : ~Finishes(q, c)
      BY <2>1, <2>2 DEF Finishes
    <3> QED
      BY <2>1, <2>2, <3>1, StayCovered
  <2>3. CASE /\ answered' = answered \cup {ask[c]} /\ wrecked' = wrecked \ {ask[c]}
             /\ scans'[ask[c]].files = ScanFiles
             /\ \A r \in ScanRequests \ {ask[c]} : scans'[r] = scans[r]
    <3>1. ASSUME NEW r \in ScanRequests, r = ask[c] PROVE Covered(r)'
      BY <2>3, <3>1 DEF Covered
    <3>2. ASSUME NEW r \in ScanRequests, r \notin wrecked', r # ask[c] PROVE Covered(r)'
      <4>1. Covered(r) /\ ~Finishes(r, c) /\ scans'[r] = scans[r]
        BY <2>3, <3>2 DEF ScansAreCovered, Finishes
      <4>2. r \in answered' => r \in answered
        BY <2>3, <3>2
      <4> QED
        BY <2>1, <4>1, <4>2, StaysCovered
    <3> QED
      BY <3>1, <3>2 DEF ScansAreCovered
  <2> QED
    BY <1>5, <2>2, <2>3, Placed
<1>6. CASE Die(c)
  <2>1. Others(c) /\ scans' = scans /\ answered' = answered
    BY <1>6, EndsLeft DEF Die, Left
  <2>2. wrecked \subseteq wrecked' /\ \A q \in ScanRequests \ wrecked' : ~Finishes(q, c)
    BY <1>6 DEF Die, Finishes
  <2> QED
    BY <2>1, <2>2, StayCovered
<1> QED
  BY <1>1, <1>2, <1>3, <1>4, <1>5, <1>6 DEF Quiet, Scan

-----------------------------------------------------------------------------
(* Theorems *)

\* Nothing is built, open or answered at first.
LEMMA InitHolds == Init => IInv
<1> SUFFICES ASSUME Init PROVE IInv
  OBVIOUS
<1>1. TypeOK
  <2>1. watches \in [WatchRequests -> SUBSET WatchFiles]
    BY DEF Init
  <2>2. handle \in [Clients -> Handles] /\ scans \in [ScanRequests -> Directories]
    BY Closing DEF Init
  <2> QED
    BY <2>1, <2>2 DEF Init, TypeOK, WatchPlaces, ScanPlaces
<1>2. ReadersHaveAll
  BY DEF Init, ReadersHaveAll
<1>3. WatchesInRange
  BY WatchFilesAreSeven DEF Init, WatchesInRange
<1>4. HandlesAreOpen
  BY DEF Init, HandlesAreOpen, Closed, Absent
<1>5. ListsAreComplete
  BY DEF Init, ListsAreComplete
<1>6. ScansAreCovered
  BY DEF Init, ScansAreCovered, Covered, Absent
<1> QED
  BY <1>1, <1>2, <1>3, <1>4, <1>5, <1>6 DEF IInv

\* Every step of a client keeps the invariant.
LEMMA StepHolds == IInv /\ [Next]_vars => IInv'
<1> SUFFICES ASSUME IInv, [Next]_vars PROVE IInv'
  OBVIOUS
<1>1. ASSUME NEW c \in Clients, Watch(c) \/ Scan(c) \/ Die(c) PROVE IInv'
  BY <1>1, TypeStep, WatchStep, HandleStep, ListStep, CoverStep DEF IInv
<1>2. CASE UNCHANGED vars
  BY <1>2, ZenonT(60) DEF IInv, TypeOK, ReadersHaveAll, WatchesInRange, HandlesAreOpen,
     ListsAreComplete, ScansAreCovered, Covered, Finishes, vars, client
<1> QED
  BY <1>1, <1>2 DEF Next

\* The invariant holds in every reachable state: a complete watch never changes,
\* and of those at work on a scan one can finish it unless one has died.
THEOREM Inductive == Spec => []IInv
BY InitHolds, StepHolds, PTL DEF Spec

\* Who has found a watch complete can read all of it, whoever builds, reads or
\* dies at the same time (install_assurance.py:load_install_assurance_watch).
THEOREM ReadersAreSafe == Spec => []ReadersSeeWholeWatches
<1>1. IInv => ReadersSeeWholeWatches
  BY DEF IInv, ReadersHaveAll, ReadersSeeWholeWatches
<1> QED
  BY <1>1, Inductive, PTL

\* However many clients build and remove a scan at once, one that was answered
\* is whole when they are done, unless one of them died on the way
\* (orchestrator.py:run_predictive_scan).
THEOREM AnswersLast == Spec => []AnsweredScansAreWhole
<1>1. IInv => AnsweredScansAreWhole
  <2> SUFFICES ASSUME IInv, \A c \in Clients : pc[c] = "idle",
                      NEW r \in answered \ wrecked
               PROVE  scans[r].files = ScanFiles
    BY DEF AnsweredScansAreWhole
  <2>1. r \in ScanRequests /\ Covered(r)
    BY DEF IInv, TypeOK, ScansAreCovered
  <2> QED
    BY <2>1 DEF Covered, Finishes
<1> QED
  BY <1>1, Inductive, PTL

-----------------------------------------------------------------------------
(* What a scan holds: a ticket for every case *)

LEMMA Counting == ASSUME NEW n \in Nat PROVE IsFiniteSet(1..n) /\ Cardinality(1..n) = n
<1>1. IsFiniteSet(1..n) /\ Cardinality(1..n) = IF 1 > n THEN 0 ELSE n - 1 + 1
  BY FS_Interval
<1> QED BY <1>1

\* A pull takes in all cases.
LEMMA TargetIs ==
  ASSUME NEW r \in ScanRequests
  PROVE  Modems!Target(r) \in Nat /\ Len(Cases) <= Modems!Target(r)
<1>1. /\ Homes \in Nat /\ r.population \in 1..Homes
      /\ Cases \in Seq(1..Homes) /\ Len(Cases) \in Nat
  BY RequestAssumption, CasesAssumption
<1>2. Len(Cases) <= Homes
  <2>1. IsFiniteSet(1..Len(Cases)) /\ Cardinality(1..Len(Cases)) = Len(Cases)
    BY <1>1, Counting
  <2>2. IsFiniteSet(1..Homes) /\ Cardinality(1..Homes) = Homes
    BY <1>1, Counting
  <2>3. Cases \in Injection(1..Len(Cases), 1..Homes)
    <3>1. Cases \in [1..Len(Cases) -> 1..Homes]
      BY <1>1
    <3> QED BY <3>1, CasesAssumption DEF Injection, IsInjective
  <2> QED BY <2>1, <2>2, <2>3, FS_Injection
<1> DEFINE m == Max({r.population, Len(Cases)})
<1>3. m \in {r.population, Len(Cases)} /\ m >= r.population /\ m >= Len(Cases)
  <2>1. \E x \in {r.population, Len(Cases)} : \A y \in {r.population, Len(Cases)} : x >= y
    BY <1>1
  <2> QED BY <2>1 DEF Max
<1>4. m \in Nat
  BY <1>1, <1>3
<1> HIDE DEF m
<1>5. Min({Homes, m}) \in {Homes, m} /\ (\A y \in {Homes, m} : Min({Homes, m}) <= y)
  <2>1. \E x \in {Homes, m} : \A y \in {Homes, m} : x <= y
    BY <1>1, <1>4
  <2> QED BY <2>1 DEF Min
<1>6. Modems!Target(r) = Min({Homes, m})
  BY DEF Modems!Target, m, Modems!Min, Min, Modems!Max, Max
<1> QED BY <1>1, <1>2, <1>3, <1>4, <1>5, <1>6

\* What the access network shows of a case is a finding.
LEMMA CaseIsFound ==
  ASSUME NEW r \in ScanRequests, NEW i \in 1..Len(Cases),
         Modems!ScenarioSignal[ScenarioOf[Cases[i]]] # "none"
  PROVE  i \in 1..Modems!Target(r) /\ Modems!Selected(r)[i] = Cases[i]
         /\ Modems!FindingsAt(r, i) # {}
<1>1. i \in 1..Modems!Target(r)
  BY TargetIs, CasesAssumption
<1>2. Modems!Selected(r)[i] = Cases[i]
  BY <1>1 DEF Modems!Selected
<1>3. Cases[i] \in ToSet(Cases)
  BY CasesAssumption DEF ToSet
<1>0. Cases[i] \in Modems!ToSet(Cases)
  BY CasesAssumption DEF Modems!ToSet
<1> DEFINE p == Modems!ScenarioSignal[ScenarioOf[Cases[i]]]
<1>4. Modems!Pattern(Cases[i], i - 1) = p
  BY <1>0, Zenon DEF Modems!Pattern
<1>5. p # "none" /\ p # "forecast"
  <2>1. ScenarioOf[Cases[i]] \in DOMAIN Modems!ScenarioSignal
    BY <1>3, CasesAssumption
  <2>2. \A x \in DOMAIN Modems!ScenarioSignal : Modems!ScenarioSignal[x] # "forecast"
    BY DEF Modems!ScenarioSignal
  <2> QED BY <2>1, <2>2
<1> HIDE DEF p
<1> DEFINE T == TechnologyOf[Cases[i]]
           q == [kpi |-> Modems!Kpi(p, T), breached |-> TRUE, fits |-> TRUE, eta |-> 0]
<1>6. Modems!Readings(p, T, r.days) = {q}
  BY <1>5 DEF Modems!Readings
<1>7. Modems!FindingsAt(r, i) = Modems!Scanner(0)!Evaluate({q})
  BY <1>2, <1>4, <1>6 DEF Modems!FindingsAt
<1>8. Modems!Scanner(0)!Evaluate({q}) # {}
  <2>1. q \in {x \in {q} : x.breached \/ (x.fits /\ x.eta <= 14)}
    OBVIOUS
  <2> HIDE DEF q
  <2> QED BY <2>1, ZenonT(60) DEF Modems!Scanner!Evaluate
<1> QED BY <1>1, <1>2, <1>7, <1>8

\* Of the tickets none is put off: a ticket is not before itself, so that fewer
\* than the modems pulled are before it.
LEMMA NoneIsPutOff ==
  ASSUME NEW r \in ScanRequests
  PROVE  Modems!TicketsOf(r) = Modems!CandidatesOf(r)
<1> DEFINE n == Modems!Target(r)
           C == Modems!CandidatesOf(r)
           I == {j \in 1..n : Modems!FindingsAt(r, j) # {}}
           f == [j \in I |-> Modems!TicketAt(r, j)]
<1>1. n \in Nat
  BY TargetIs
<1>2. \A j \in 1..n : Modems!TicketAt(r, j).modem = j
  BY DEF Modems!TicketAt, Modems!Scanner!Ticket
<1>3. C = {Modems!TicketAt(r, j) : j \in I}
  BY DEF Modems!CandidatesOf
<1> HIDE DEF n, C
<1>4. IsFiniteSet(I) /\ Cardinality(I) <= n /\ Cardinality(I) \in Nat
  <2>1. IsFiniteSet(1..n) /\ Cardinality(1..n) = n
    BY <1>1, Counting
  <2> QED BY <2>1, FS_Subset, FS_CardinalityType
<1>5. IsFiniteSet(C) /\ Cardinality(C) <= n /\ Cardinality(C) \in Nat
  <2>1. f \in Surjection(I, C)
    BY <1>3 DEF Surjection
  <2>2. IsFiniteSet(C) /\ Cardinality(C) <= Cardinality(I)
    BY <1>4, <2>1, FS_Surjection
  <2> HIDE DEF I
  <2> QED BY <1>1, <1>4, <2>2, FS_CardinalityType
<1> DEFINE cap == Max({TicketFloor, n})
<1>6. cap \in Nat /\ cap >= n
  <2>1. TicketFloor \in Nat
    BY CasesAssumption
  <2>2. \E x \in {TicketFloor, n} : \A y \in {TicketFloor, n} : x >= y
    BY <1>1, <2>1
  <2> QED BY <1>1, <2>1, <2>2 DEF Max
<1> HIDE DEF cap
<1>7. ASSUME NEW t \in C
      PROVE  Cardinality({s \in C : Modems!Scanner(n)!Precedes(s, t)}) < cap
  <2> DEFINE B == {s \in C : Modems!Scanner(n)!Precedes(s, t)}
  <2>1. t \notin B
    <3>1. PICK j \in I : t = Modems!TicketAt(r, j)
      BY <1>3
    <3>2. t.modem = j /\ j \in Nat
      BY <1>2, <3>1
    <3>3. t.severity \in Int
      BY <3>1 DEF Modems!TicketAt, Modems!Scanner!Ticket, Modems!Scanner!Severity
    <3> QED BY <3>2, <3>3 DEF Modems!Scanner!Precedes, Modems!Scanner!ClassOf
  <2>2. B \subseteq C \ {t}
    BY <2>1
  <2>3. IsFiniteSet(C \ {t}) /\ Cardinality(C \ {t}) = Cardinality(C) - 1
    BY <1>5, FS_RemoveElement
  <2>4. Cardinality(B) <= Cardinality(C \ {t}) /\ Cardinality(B) \in Nat
    BY <2>2, <2>3, FS_Subset, FS_CardinalityType
  <2> QED BY <1>1, <1>5, <1>6, <2>3, <2>4
<1>8. Modems!TicketsOf(r) =
        {t \in C : Cardinality({s \in C : Modems!Scanner(n)!Precedes(s, t)}) < cap}
  <2>1. Modems!Max({TicketFloor, n}) = cap
    BY DEF Modems!Max, Max, cap
  <2> QED BY <2>1, Zenon DEF Modems!TicketsOf, Modems!Scanner!WithinCap, n, C,
             Modems!Scanner!Cardinality, Cardinality
<1> QED BY <1>7, <1>8 DEF C

\* However few modems a scan is asked to pull, every case with a fault that the
\* access network shows has its ticket (predictive_bridge.py:build_snapshot).
THEOREM CasesAreTicketed == Spec => []EveryImpairmentIsTicketed
<1>1. IInv => EveryImpairmentIsTicketed
  <2> SUFFICES ASSUME IInv, NEW r \in answered, NEW h \in ToSet(Cases),
                      Modems!ScenarioSignal[ScenarioOf[h]] # "none"
               PROVE  h \in Tickets[r]
    BY DEF EveryImpairmentIsTicketed
  <2>1. r \in ScanRequests
    BY DEF IInv, TypeOK
  <2>2. PICK i \in 1..Len(Cases) : h = Cases[i]
    BY Len(Cases) \in Nat, DOMAIN Cases = 1..Len(Cases), CasesAssumption DEF ToSet
  <2>3. /\ i \in 1..Modems!Target(r) /\ Modems!Selected(r)[i] = h
        /\ Modems!FindingsAt(r, i) # {}
    BY <2>1, <2>2, CaseIsFound
  <2>4. Modems!TicketAt(r, i) \in Modems!TicketsOf(r)
    BY <2>1, <2>3, NoneIsPutOff DEF Modems!CandidatesOf
  <2>5. Modems!TicketAt(r, i).modem = i
    BY DEF Modems!TicketAt, Modems!Scanner!Ticket
  <2>6. h \in Modems!Ticketed(r)
    BY <2>3, <2>4, <2>5, Zenon DEF Modems!Ticketed
  <2> QED BY <2>1, <2>6 DEF Tickets
<1> QED BY <1>1, Inductive, PTL

-----------------------------------------------------------------------------
(* The plan of a scenario *)

\* The order in which a plan has its events, all of them within a day: what is
\* called for is found first, a crew goes out on an incident, and a repair is
\* followed by stable lines.  Where no incident is planned, work is remote.
Ordered(p) ==
  LET has(e) == e \in DOMAIN p
      first(e, f) == has(f) => has(e) /\ p[e] <= p[f]
  IN /\ \A e \in DOMAIN p : p[e] \in 0..94
     /\ first("finding", "contact") /\ first("finding", "incident")
     /\ first("finding", "stable") /\ first("incident", "dispatch")
     /\ first("dispatch", "mr") /\ first("incident", "repair")
     /\ has("repair") => has("stable") /\ p["stable"] <= p["repair"] + Hour \div 2
     /\ has("stable") => has("remote_action") \/ has("incident")

LEMMA PlansAre ==
  /\ DOMAIN EventPlan = {"remote_stabilized", "wifi_impairment", "persistent_hfc_impairment",
                         "persistent_pon_impairment", "common_cause_hfc",
                         "late_action_extension", "active_amber", "active_red"}
  /\ EventPlan["remote_stabilized"] =
       [finding |-> 8, contact |-> 12, remote_action |-> 16, stable |-> 18]
  /\ EventPlan["wifi_impairment"] =
       [finding |-> 4, contact |-> 6, remote_action |-> 8, stable |-> 10]
  /\ EventPlan["persistent_hfc_impairment"] = Persistent
  /\ EventPlan["persistent_pon_impairment"] = Persistent
  /\ EventPlan["common_cause_hfc"] =
       [finding |-> 3, contact |-> 8, incident |-> 6, dispatch |-> 12, mr |-> 16,
        repair |-> 32, stable |-> 34]
  /\ EventPlan["late_action_extension"] =
       [finding |-> 80, contact |-> 84, remote_action |-> 92, stable |-> 94]
  /\ EventPlan["active_amber"] = [finding |-> 8, contact |-> 12]
  /\ EventPlan["active_red"] = [finding |-> 4, contact |-> 8, incident |-> 12]
BY DEF EventPlan

LEMMA OrderIs ==
  ASSUME NEW scenario \in DOMAIN EventPlan
  PROVE  Ordered(EventPlan[scenario])
<1>1. Hour \div 2 = 2
  BY DEF Hour
<1>2. Ordered([finding |-> 8, contact |-> 12, remote_action |-> 16, stable |-> 18])
  BY <1>1 DEF Ordered
<1>3. Ordered([finding |-> 4, contact |-> 6, remote_action |-> 8, stable |-> 10])
  BY <1>1 DEF Ordered
<1>4. Ordered(Persistent)
  BY <1>1 DEF Ordered, Persistent
<1>5. Ordered([finding |-> 3, contact |-> 8, incident |-> 6, dispatch |-> 12, mr |-> 16,
               repair |-> 32, stable |-> 34])
  BY <1>1 DEF Ordered
<1>6. Ordered([finding |-> 80, contact |-> 84, remote_action |-> 92, stable |-> 94])
  BY <1>1 DEF Ordered
<1>7. Ordered([finding |-> 8, contact |-> 12])
  BY <1>1 DEF Ordered
<1>8. Ordered([finding |-> 4, contact |-> 8, incident |-> 12])
  BY <1>1 DEF Ordered
<1>9. /\ Ordered(EventPlan["remote_stabilized"]) /\ Ordered(EventPlan["wifi_impairment"])
      /\ Ordered(EventPlan["persistent_hfc_impairment"])
      /\ Ordered(EventPlan["persistent_pon_impairment"])
      /\ Ordered(EventPlan["common_cause_hfc"])
      /\ Ordered(EventPlan["late_action_extension"])
      /\ Ordered(EventPlan["active_amber"]) /\ Ordered(EventPlan["active_red"])
  BY <1>2, <1>3, <1>4, <1>5, <1>6, <1>7, <1>8, PlansAre, ZenonT(60)
<1>10. scenario \in {"remote_stabilized", "wifi_impairment", "persistent_hfc_impairment",
                     "persistent_pon_impairment", "common_cause_hfc",
                     "late_action_extension", "active_amber", "active_red"}
  BY PlansAre, Zenon
<1> QED BY <1>9, <1>10, Zenon

\* A day after the start all that is planned is due, for good.
LEMMA DueIs ==
  ASSUME NEW scenario, NEW event, NEW age \in Int
  PROVE  /\ Planned(scenario, event) => EventPlan[scenario][event] \in 0..94
         /\ age >= Day => (Due(scenario, event, age) <=> Planned(scenario, event))
<1>1. Day = 96
  BY DEF Day, Hour
<1>2. Planned(scenario, event) => EventPlan[scenario][event] \in 0..94
  BY OrderIs DEF Planned, Ordered
<1> QED BY <1>1, <1>2 DEF Due

\* What is due stays due.
LEMMA StaysDue ==
  ASSUME NEW scenario, NEW event, NEW age \in Int, NEW later \in Int, age <= later,
         Due(scenario, event, age)
  PROVE  Due(scenario, event, later)
BY DueIs DEF Due

\* The order of a plan is the order in which its events fall due.
LEMMA DueInOrder ==
  ASSUME NEW scenario, NEW age \in Int
  PROVE  /\ Due(scenario, "contact", age) => /\ Due(scenario, "finding", age)
                                             /\ EventPlan[scenario]["finding"]
                                                  <= EventPlan[scenario]["contact"]
         /\ Due(scenario, "incident", age) => Due(scenario, "finding", age)
         /\ Due(scenario, "stable", age) => Due(scenario, "finding", age)
         /\ Due(scenario, "dispatch", age) => Due(scenario, "incident", age)
         /\ Due(scenario, "mr", age) => Due(scenario, "dispatch", age)
         /\ Due(scenario, "repair", age) => Due(scenario, "incident", age)
<1> SUFFICES ASSUME scenario \in DOMAIN EventPlan PROVE
         /\ Due(scenario, "contact", age) => /\ Due(scenario, "finding", age)
                                             /\ EventPlan[scenario]["finding"]
                                                  <= EventPlan[scenario]["contact"]
         /\ Due(scenario, "incident", age) => Due(scenario, "finding", age)
         /\ Due(scenario, "stable", age) => Due(scenario, "finding", age)
         /\ Due(scenario, "dispatch", age) => Due(scenario, "incident", age)
         /\ Due(scenario, "mr", age) => Due(scenario, "dispatch", age)
         /\ Due(scenario, "repair", age) => Due(scenario, "incident", age)
  BY DEF Due, Planned
<1> DEFINE p == EventPlan[scenario]
<1>1. Ordered(p)
  BY OrderIs
<1>2. \A e : Due(scenario, e, age) <=> e \in DOMAIN p /\ age >= p[e]
  BY DEF Due, Planned
<1> HIDE DEF p
<1>3. \A e \in DOMAIN p : p[e] \in Int
  BY <1>1 DEF Ordered
<1>4. /\ "contact" \in DOMAIN p => "finding" \in DOMAIN p /\ p["finding"] <= p["contact"]
      /\ "incident" \in DOMAIN p => "finding" \in DOMAIN p /\ p["finding"] <= p["incident"]
      /\ "stable" \in DOMAIN p => "finding" \in DOMAIN p /\ p["finding"] <= p["stable"]
      /\ "dispatch" \in DOMAIN p => "incident" \in DOMAIN p /\ p["incident"] <= p["dispatch"]
      /\ "mr" \in DOMAIN p => "dispatch" \in DOMAIN p /\ p["dispatch"] <= p["mr"]
      /\ "repair" \in DOMAIN p => "incident" \in DOMAIN p /\ p["incident"] <= p["repair"]
  BY <1>1 DEF Ordered
<1> QED BY <1>2, <1>3, <1>4 DEF p

\* Half an hour after a repair the lines are stable, and the service is well.
LEMMA RepairedIsWell ==
  ASSUME NEW scenario, NEW age \in Int, Due(scenario, "repair", age),
         age >= EventPlan[scenario]["repair"] + Hour \div 2
  PROVE  HealthAt(scenario, age) = "GREEN"
<1>1. Due(scenario, "stable", age)
  <2>1. Ordered(EventPlan[scenario]) /\ "repair" \in DOMAIN EventPlan[scenario]
        /\ scenario \in DOMAIN EventPlan
    BY OrderIs DEF Due, Planned
  <2>2. /\ "stable" \in DOMAIN EventPlan[scenario]
        /\ EventPlan[scenario]["stable"] <= EventPlan[scenario]["repair"] + Hour \div 2
        /\ EventPlan[scenario]["stable"] \in Int /\ EventPlan[scenario]["repair"] \in Int
    BY <2>1 DEF Ordered
  <2>3. Hour \div 2 \in Int
    BY DEF Hour
  <2> QED BY <2>1, <2>2, <2>3 DEF Due, Planned
<1> QED BY <1>1 DEF HealthAt

\* An impaired service is one with a finding.
LEMMA WellOrFound ==
  ASSUME NEW scenario, NEW age
  PROVE  HealthAt(scenario, age) = "GREEN"
           <=> ~Due(scenario, "finding", age) \/ Due(scenario, "stable", age)
BY DEF HealthAt

-----------------------------------------------------------------------------
(* The lifecycle of an installation *)

LEMMA MaturityIs ==
  ASSUME NEW scenario, NEW age \in Int, NEW tail \in Int
  PROVE  /\ EffectiveMaturity(scenario, age, tail) \in Int
         /\ EffectiveMaturity(scenario, age, tail) >= Day
         /\ \A e \in Executed(scenario, age) \cap ServiceAffecting :
              /\ EventPlan[scenario][e] \in Int
              /\ EffectiveMaturity(scenario, age, tail) >= EventPlan[scenario][e] + tail
<1> DEFINE E == Executed(scenario, age) \cap ServiceAffecting
           at(e) == EventPlan[scenario][e] + tail
           S == {Day} \cup {at(e) : e \in E}
           a == at("remote_action")
           b == at("repair")
<1>1. Day \in Int
  BY DEF Day, Hour
<1>2. \A e \in E : EventPlan[scenario][e] \in Int /\ at(e) \in Int
  <2>1. \A e \in E : EventPlan[scenario][e] \in 0..94
    BY DueIs DEF Executed, Due
  <2> QED BY <2>1
<1>3. E \subseteq {"remote_action", "repair"}
  BY DEF ServiceAffecting
<1> HIDE DEF E
<1>4. \E x \in S : \A y \in S : x >= y
  <2>1. CASE "remote_action" \in E /\ "repair" \in E
    <3>1. S = {Day, a, b} /\ a \in Int /\ b \in Int
      BY <1>2, <1>3, <2>1
    <3> HIDE DEF a, b, S
    <3>2. \E x \in {Day, a, b} : x >= Day /\ x >= a /\ x >= b
      BY <1>1, <3>1
    <3> QED BY <3>1, <3>2
  <2>2. CASE "remote_action" \in E /\ "repair" \notin E
    <3>1. E = {"remote_action"}
      BY <1>3, <2>2
    <3>2. S = {Day, a} /\ a \in Int
      BY <1>2, <3>1
    <3> HIDE DEF a
    <3> QED BY <1>1, <3>2
  <2>3. CASE "remote_action" \notin E /\ "repair" \in E
    <3>1. E = {"repair"}
      BY <1>3, <2>3
    <3>2. S = {Day, b} /\ b \in Int
      BY <1>2, <3>1
    <3> HIDE DEF b
    <3> QED BY <1>1, <3>2
  <2>4. CASE "remote_action" \notin E /\ "repair" \notin E
    <3>1. S = {Day}
      BY <1>3, <2>4
    <3> QED BY <1>1, <3>1
  <2> QED BY <2>1, <2>2, <2>3, <2>4
<1>5. Max(S) \in S /\ (\A y \in S : Max(S) >= y)
  <2> HIDE DEF S
  <2> QED BY <1>4 DEF Max
<1>6. EffectiveMaturity(scenario, age, tail) = Max(S)
  BY DEF EffectiveMaturity, E
<1>7. S \subseteq Int
  BY <1>1, <1>2
<1> QED BY <1>2, <1>5, <1>6, <1>7 DEF E

\* What an installation has come to, told by the events that are due.
LEMMA LifecycleIs ==
  ASSUME NEW scenario, NEW age \in Int, NEW tail \in Int
  PROVE  /\ Lifecycle(scenario, age, tail) = "PROMOTED_TO_INCIDENT"
              <=> Due(scenario, "incident", age)
         /\ Lifecycle(scenario, age, tail) = "PASSED_24H"
              <=> /\ ~Due(scenario, "incident", age)
                  /\ age >= EffectiveMaturity(scenario, age, tail)
                  /\ HealthAt(scenario, age) = "GREEN"
         /\ Lifecycle(scenario, age, tail)
              \in {"PROMOTED_TO_INCIDENT", "PASSED_24H", "RECOVERING", "ACTIVE"}
BY DEF Lifecycle

\* A day after the start nothing more happens.
LEMMA NothingMore ==
  ASSUME NEW scenario, NEW age \in Int, NEW later \in Int, NEW tail \in Int,
         Day <= age, age <= later
  PROVE  /\ \A e : Due(scenario, e, later) <=> Due(scenario, e, age)
         /\ HealthAt(scenario, later) = "GREEN" <=> HealthAt(scenario, age) = "GREEN"
         /\ EffectiveMaturity(scenario, later, tail) = EffectiveMaturity(scenario, age, tail)
<1>1. \A e : Due(scenario, e, later) <=> Due(scenario, e, age)
  <2>1. Day \in Int /\ later >= Day
    BY DEF Day, Hour
  <2> QED BY <2>1, DueIs
<1>2. Executed(scenario, later) = Executed(scenario, age)
  BY <1>1 DEF Executed
<1> QED BY <1>1, <1>2, WellOrFound DEF EffectiveMaturity

LEMMA StaysFinal ==
  ASSUME NEW scenario, NEW age \in Int, NEW later \in Int, NEW tail \in Int, age <= later,
         Lifecycle(scenario, age, tail) \in Final
  PROVE  Lifecycle(scenario, later, tail) = Lifecycle(scenario, age, tail)
<1>1. CASE Lifecycle(scenario, age, tail) = "PROMOTED_TO_INCIDENT"
  BY <1>1, LifecycleIs, StaysDue
<1>2. CASE Lifecycle(scenario, age, tail) = "PASSED_24H"
  <2>1. /\ ~Due(scenario, "incident", age) /\ HealthAt(scenario, age) = "GREEN"
        /\ age >= EffectiveMaturity(scenario, age, tail)
    BY <1>2, LifecycleIs
  <2>2. /\ EffectiveMaturity(scenario, age, tail) \in Int
        /\ EffectiveMaturity(scenario, age, tail) >= Day /\ Day \in Int
    BY MaturityIs DEF Day, Hour
  <2>3. Day <= age
    BY <2>1, <2>2
  <2>4. /\ ~Due(scenario, "incident", later) /\ HealthAt(scenario, later) = "GREEN"
        /\ EffectiveMaturity(scenario, later, tail) = EffectiveMaturity(scenario, age, tail)
    BY <2>1, <2>3, NothingMore
  <2>5. later >= EffectiveMaturity(scenario, later, tail)
    BY <2>1, <2>2, <2>4
  <2> QED BY <1>2, <2>4, <2>5, LifecycleIs
<1> QED BY <1>1, <1>2 DEF Final

\* An installation that has passed saw remote work, or none.
LEMMA PassedWork ==
  ASSUME NEW scenario, NEW age \in Int, NEW tail \in Int,
         Lifecycle(scenario, age, tail) = "PASSED_24H"
  PROVE  /\ age >= Day /\ ~Due(scenario, "dispatch", age)
         /\ Executed(scenario, age) # {} => Due(scenario, "remote_action", age)
<1>1. /\ ~Due(scenario, "incident", age) /\ HealthAt(scenario, age) = "GREEN"
      /\ age >= EffectiveMaturity(scenario, age, tail)
  BY LifecycleIs
<1>2. age >= Day /\ Day \in Int
  <2>1. /\ EffectiveMaturity(scenario, age, tail) \in Int
        /\ EffectiveMaturity(scenario, age, tail) >= Day /\ Day \in Int
    BY MaturityIs DEF Day, Hour
  <2> QED BY <1>1, <2>1
<1>3. ~Due(scenario, "dispatch", age)
  BY <1>1, DueInOrder
<1>4. ASSUME NEW e \in Executed(scenario, age) PROVE Due(scenario, "remote_action", age)
  <2>1. Due(scenario, e, age) /\ e \in WorkEvents
    BY <1>4 DEF Executed
  <2>2. e \in {"remote_action", "stable"}
    BY <2>1, <1>1, DueInOrder DEF WorkEvents
  <2>3. CASE e = "stable"
    <3>1. scenario \in DOMAIN EventPlan /\ "stable" \in DOMAIN EventPlan[scenario]
      BY <2>1, <2>3 DEF Due, Planned
    <3>2. \/ "remote_action" \in DOMAIN EventPlan[scenario]
          \/ "incident" \in DOMAIN EventPlan[scenario]
      BY <3>1, OrderIs DEF Ordered
    <3>3. Planned(scenario, "remote_action") \/ Planned(scenario, "incident")
      BY <3>1, <3>2 DEF Planned
    <3> QED BY <3>3, <1>1, <1>2, DueIs
  <2> QED BY <2>1, <2>2, <2>3
<1> QED BY <1>2, <1>3, <1>4

-----------------------------------------------------------------------------
(* Functions that are defined along a sequence *)

LEMMA Along ==
  ASSUME NEW n \in Nat, NEW G, 0 \in G, \A i \in 1..n : i - 1 \in G => i \in G
  PROVE  \A i \in 0..n : i \in G
<1> DEFINE N == {i \in 0..n : i \notin G}
<1> SUFFICES ASSUME N # {} PROVE FALSE
  OBVIOUS
<1>1. PICK m \in N : \A k \in N : m <= k
  <2>1. N \in SUBSET Nat
    OBVIOUS
  <2> HIDE DEF N
  <2> QED BY <2>1, LeastNumber
<1>2. m \in 1..n /\ m - 1 \in 0..n
  OBVIOUS
<1>3. m - 1 \in N
  BY <1>2
<1> QED BY <1>1, <1>2, <1>3

\* From a first value, and a step for each place, there is a function along.
Follows(f, n, X, first, step) ==
  /\ f \in [0..n -> X]
  /\ f[0] = first
  /\ \A i \in 1..n : f[i] = step[i][f[i - 1]]

LEMMA FunctionAlong ==
  ASSUME NEW n \in Nat, NEW X, NEW first \in X, NEW step \in [1..n -> [X -> X]]
  PROVE  \E f : Follows(f, n, X, first, step)
<1> DEFINE G == {k \in 0..n : \E f : Follows(f, k, X, first, step)}
<1>1. 0 \in G
  <2>1. Follows([i \in 0..0 |-> first], 0, X, first, step)
    BY DEF Follows
  <2> QED BY <2>1
<1>2. ASSUME NEW k \in 1..n, k - 1 \in G PROVE k \in G
  <2>1. PICK f : Follows(f, k - 1, X, first, step)
    BY <1>2
  <2> DEFINE g == [i \in 0..k |-> IF i = k THEN step[k][f[k - 1]] ELSE f[i]]
  <2>2. f[k - 1] \in X
    BY <2>1 DEF Follows
  <2>3. step[k][f[k - 1]] \in X
    BY <2>2
  <2>4. Follows(g, k, X, first, step)
    BY <2>1, <2>3 DEF Follows
  <2> HIDE DEF g
  <2> QED BY <2>4
<1>3. n \in G
  <2> HIDE DEF G
  <2>1. \A i \in 0..n : i \in G
    BY <1>1, <1>2, Along
  <2> QED BY <2>1
<1> QED BY <1>3

LEMMA AmongIs ==
  ASSUME NEW S, NEW pool \in Seq(S), NEW chosen
  PROVE  Among(pool, chosen) \in Seq(S \cap chosen)
<1> DEFINE n == Len(pool)
           X == Seq(S \cap chosen)
           step == [i \in 1..n |->
                      [x \in X |-> IF pool[i] \in chosen THEN Append(x, pool[i]) ELSE x]]
           kept == CHOOSE f : f = [i \in 0..n |->
                      IF i = 0 THEN << >>
                      ELSE IF pool[i] \in chosen THEN Append(f[i - 1], pool[i]) ELSE f[i - 1]]
<1>1. n \in Nat /\ << >> \in X /\ \A i \in 1..n : pool[i] \in S
  OBVIOUS
<1>2. \A i \in 1..n : \A x \in X :
        (IF pool[i] \in chosen THEN Append(x, pool[i]) ELSE x) \in X
  BY <1>1
<1>3. step \in [1..n -> [X -> X]]
  <2> HIDE DEF X, n
  <2> QED BY <1>2
<1>4. PICK g : Follows(g, n, X, << >>, step)
  <2> HIDE DEF step, X, n
  <2> QED BY <1>1, <1>3, FunctionAlong
<1>5. g = [i \in 0..n |->
             IF i = 0 THEN << >>
             ELSE IF pool[i] \in chosen THEN Append(g[i - 1], pool[i]) ELSE g[i - 1]]
  <2>1. ASSUME NEW i \in 1..n
        PROVE  g[i] = IF pool[i] \in chosen THEN Append(g[i - 1], pool[i]) ELSE g[i - 1]
    <3>1. i - 1 \in 0..n /\ g[i - 1] \in X
      <4> HIDE DEF X, n, step
      <4> QED BY <1>1, <1>4 DEF Follows
    <3>2. g[i] = step[i][g[i - 1]]
      <4> HIDE DEF X, n, step
      <4> QED BY <1>4 DEF Follows
    <3> HIDE DEF X, n
    <3> QED BY <3>1, <3>2
  <2>2. g \in [0..n -> X] /\ g[0] = << >>
    BY <1>4 DEF Follows
  <2> HIDE DEF X, n, step
  <2>3. g = [i \in 0..n |-> g[i]]
    BY <2>2
  <2>4. \A i \in 0..n : g[i] = IF i = 0 THEN << >>
                               ELSE IF pool[i] \in chosen THEN Append(g[i - 1], pool[i])
                                                          ELSE g[i - 1]
    <3>1. \A i \in 0..n : i = 0 \/ i \in 1..n
      BY <1>1
    <3>2. \A i \in 1..n : i # 0
      BY <1>1, SMTT(30)
    <3> QED BY <2>1, <2>2, <3>1, <3>2, Zenon
  <2> QED BY <2>3, <2>4
<1>6. kept = [i \in 0..n |->
                IF i = 0 THEN << >>
                ELSE IF pool[i] \in chosen THEN Append(kept[i - 1], pool[i]) ELSE kept[i - 1]]
  <2> HIDE DEF n
  <2> QED BY <1>5, Zenon
<1> HIDE DEF kept
<1>7. \A i \in 0..n : i \in {k \in 0..n : kept[k] \in X}
  <2> DEFINE G == {k \in 0..n : kept[k] \in X}
  <2>1. 0 \in G
    <3>1. 0 \in 0..n
      BY <1>1
    <3>2. kept[0] = << >>
      <4> HIDE DEF n, X, G
      <4> QED BY <1>6, <3>1
    <3> QED BY <1>1, <3>1, <3>2
  <2>2. ASSUME NEW i \in 1..n, i - 1 \in G PROVE i \in G
    <3>1. kept[i] = IF pool[i] \in chosen THEN Append(kept[i - 1], pool[i]) ELSE kept[i - 1]
      <4>1. i \in 0..n /\ i # 0
        BY <1>1
      <4> HIDE DEF n, X, G
      <4> QED BY <1>6, <4>1
    <3>2. kept[i - 1] \in X
      BY <2>2
    <3> HIDE DEF X
    <3> QED BY <1>2, <3>1, <3>2
  <2> HIDE DEF G
  <2>3. \A i \in 0..n : i \in G
    BY <1>1, <2>1, <2>2, Along
  <2> QED BY <2>3 DEF G
<1>8. Among(pool, chosen) = kept[n]
  BY Zenon DEF Among, kept
<1> QED BY <1>1, <1>7, <1>8

-----------------------------------------------------------------------------
(* The population of a watch *)

Population == ToSet(Services)

\* Services in a row, none of them twice.
Rows == {p \in Seq(Population) : \A i, j \in 1..Len(p) : p[i] = p[j] => i = j}
Picks(size) == {p \in Rows : Len(p) <= size}

LEMMA InSeq == ASSUME NEW S, NEW p \in Seq(S), NEW i \in 1..Len(p) PROVE p[i] \in S
OBVIOUS

LEMMA ServicesAre ==
  /\ Services \in Seq(Population) /\ Len(Services) \in Nat
  /\ Population = {Services[i] : i \in 1..Len(Services)}
  /\ \A s \in Population : s \in [name : STRING, technology : STRING, delimiter : STRING]
  /\ \A s, t \in Population : s.name = t.name => s = t
<1>1. /\ Services \in Seq([name : STRING, technology : STRING, delimiter : STRING])
      /\ Len(Services) \in Nat /\ DOMAIN Services = 1..Len(Services)
  BY ServicesAssumption
<1>2. Population = {Services[i] : i \in 1..Len(Services)}
  BY <1>1 DEF Population, ToSet
<1>3. Services \in Seq(Population)
  BY <1>1, <1>2
<1>4. \A s \in Population : s \in [name : STRING, technology : STRING, delimiter : STRING]
  <2> DEFINE R == [name : STRING, technology : STRING, delimiter : STRING]
  <2>1. Services \in Seq(R)
    BY <1>1
  <2> HIDE DEF R
  <2>2. \A s \in Population : s \in R
    BY <1>2, <2>1, InSeq
  <2> QED BY <2>2 DEF R
<1>5. ASSUME NEW s \in Population, NEW t \in Population, s.name = t.name PROVE s = t
  <2>1. PICK i \in 1..Len(Services) : s = Services[i]
    BY <1>2
  <2>2. PICK j \in 1..Len(Services) : t = Services[j]
    BY <1>2
  <2>3. i = j
    BY <1>5, <2>1, <2>2, ServicesAssumption
  <2> QED BY <2>1, <2>2, <2>3
<1> QED BY <1>1, <1>2, <1>3, <1>4, <1>5

LEMMA SeqWider ==
  ASSUME NEW A, NEW B, A \subseteq B, NEW p \in Seq(A)
  PROVE  p \in Seq(B)
OBVIOUS

LEMMA AmongWider ==
  ASSUME NEW S, NEW pool \in Seq(S), NEW chosen
  PROVE  Among(pool, chosen) \in Seq(S)
BY AmongIs, SeqWider, S \cap chosen \subseteq S

LEMMA OfIs ==
  ASSUME NEW technologies PROVE Of(technologies) \in Seq(Population)
BY ServicesAre, AmongWider DEF Of

LEMMA PairIs == CommonPair = << >> \/ {CommonPair[1], CommonPair[2]} \subseteq Population
<1> DEFINE hfc == Of({"HFC"})
           behind(d) == Among(hfc, {s \in ToSet(hfc) : s.delimiter = d})
           two == {s \in ToSet(hfc) : Len(behind(s.delimiter)) >= 2}
           shared == Among(hfc, two)
<1>1. hfc \in Seq(Population)
  BY OfIs
<1>2. \A d : behind(d) \in Seq(Population)
  BY <1>1, AmongWider
<1>3. shared \in Seq(Population \cap two)
  <2> HIDE DEF hfc, two
  <2> QED BY <1>1, AmongIs
<1>4. CommonPair = IF shared = << >> THEN << >> ELSE SubSeq(behind(shared[1].delimiter), 1, 2)
  BY Zenon DEF CommonPair
<1>5. ASSUME shared # << >>
      PROVE  {CommonPair[1], CommonPair[2]} \subseteq Population
  <2> DEFINE pair == behind(shared[1].delimiter)
  <2>1. shared[1] \in two
    <3> HIDE DEF two, shared
    <3> QED BY <1>3, <1>5
  <2>2. Len(pair) >= 2
    BY <2>1, Zenon
  <2>3. pair \in Seq(Population)
    BY <1>2
  <2>4. CommonPair = SubSeq(pair, 1, 2)
    BY <1>4, <1>5, Zenon
  <2> HIDE DEF pair
  <2> QED BY <2>2, <2>3, <2>4
<1> QED BY <1>4, <1>5

LEMMA GeneralIs == General \in Seq(Population) /\ General # << >>
<1> DEFINE rest == Among(Of({"HFC"}), ToSet(Services) \ ToSet(CommonPair))
<1>1. Of({"HFC"}) \in Seq(Population) /\ Of({"HFC"}) # << >>
  BY OfIs, RequestAssumption
<1>2. rest \in Seq(Population)
  BY <1>1, AmongWider
<1>3. General = IF rest = << >> THEN Of({"HFC"}) ELSE rest
  BY Zenon DEF General
<1> HIDE DEF rest
<1> QED BY <1>1, <1>2, <1>3, Zenon

\* One service more, or none; of a pool of one, the service is then in the row.
LEMMA AddFromIs ==
  ASSUME NEW taken \in Rows, NEW pool \in Seq(Population), NEW token \in Nat
  PROVE  LET q == AddFrom(taken, pool, token)
         IN /\ q \in Rows
            /\ Len(q) \in {Len(taken), Len(taken) + 1}
            /\ ToSet(taken) \subseteq ToSet(q)
            /\ Len(pool) = 1 => pool[1] \in ToSet(q)
<1> DEFINE at(k) == pool[((token + k) % Len(pool)) + 1]
           free == {k \in 0..(Len(pool) - 1) : at(k) \notin ToSet(taken)}
           least == CHOOSE k \in free : \A j \in free : k <= j
<1>1. /\ taken \in Seq(Population) /\ Len(taken) \in Nat
      /\ \A i, j \in 1..Len(taken) : taken[i] = taken[j] => i = j
      /\ ToSet(taken) = {taken[i] : i \in 1..Len(taken)}
  BY DEF Rows, ToSet
<1>2. AddFrom(taken, pool, token) = IF free = {} THEN taken ELSE Append(taken, at(least))
  BY Zenon DEF AddFrom
<1>3. \A k \in 0..(Len(pool) - 1) : at(k) \in Population
  <2> SUFFICES ASSUME NEW k \in 0..(Len(pool) - 1) PROVE at(k) \in Population
    OBVIOUS
  <2>1. Len(pool) \in Nat \ {0} /\ token + k \in Nat
    OBVIOUS
  <2>2. ((token + k) % Len(pool)) + 1 \in 1..Len(pool)
    BY <2>1
  <2> QED BY <2>2
<1>4. CASE free = {}
  <2>1. Len(pool) = 1 => pool[1] \in ToSet(taken)
    <3> SUFFICES ASSUME Len(pool) = 1 PROVE at(0) = pool[1] /\ 0 \in 0..(Len(pool) - 1)
      BY <1>4
    <3> QED BY (token + 0) % 1 = 0
  <2> HIDE DEF free
  <2> QED BY <1>1, <1>2, <1>4, <2>1
<1>5. CASE free # {}
  <2>1. least \in free
    <3>1. free \in SUBSET Nat
      OBVIOUS
    <3> HIDE DEF free
    <3>2. \E k \in free : \A j \in free : k <= j
      BY <1>5, <3>1, LeastNumber
    <3> QED BY <3>2
  <2>2. at(least) \in Population /\ at(least) \notin ToSet(taken)
    BY <2>1, <1>3
  <2>3. least = 0 /\ Len(pool) = 1 => at(least) = pool[1]
    <3> SUFFICES ASSUME least = 0, Len(pool) = 1 PROVE at(least) = pool[1]
      OBVIOUS
    <3>1. at(0) = pool[1]
      BY (token + 0) % 1 = 0
    <3> HIDE DEF free
    <3>2. \A k : k = 0 => at(k) = at(0)
      OBVIOUS
    <3> HIDE DEF at, least
    <3> QED BY <3>1, <3>2
  <2>4. Len(pool) = 1 => at(least) = pool[1]
    BY <2>1, <2>3
  <2> DEFINE x == at(least)
             q == Append(taken, x)
  <2>5. AddFrom(taken, pool, token) = q
    BY <1>2, <1>5
  <2> HIDE DEF x, least, free
  <2>6. q \in Seq(Population) /\ Len(q) = Len(taken) + 1
        /\ (\A i \in 1..Len(taken) : q[i] = taken[i]) /\ q[Len(taken) + 1] = x
    BY <1>1, <2>2 DEF x
  <2>7. ToSet(q) = {q[i] : i \in 1..Len(q)}
    BY <2>6 DEF ToSet
  <2> HIDE DEF q
  <2>8. ToSet(taken) \subseteq ToSet(q) /\ x \in ToSet(q)
    BY <1>1, <2>6, <2>7
  <2>9. ASSUME NEW i \in 1..Len(q), NEW j \in 1..Len(q), q[i] = q[j] PROVE i = j
    <3>1. \A k \in 1..Len(taken) : taken[k] # x
      BY <1>1, <2>2 DEF x
    <3> QED BY <1>1, <2>6, <2>9, <3>1
  <2> QED BY <2>4, <2>5, <2>6, <2>8, <2>9 DEF Rows, x
<1> QED BY <1>4, <1>5

\* A slot adds one service, or is skipped.
LEMMA FillSlotIs ==
  ASSUME NEW taken \in Rows, NEW index \in 1..12, NEW seed \in Nat
  PROVE  /\ FillSlot(taken, index, seed) \in Rows
         /\ Len(FillSlot(taken, index, seed)) \in {Len(taken), Len(taken) + 1}
<1> DEFINE slot == SlotTechnologies[index]
           token == seed + 17 * (index - 1)
           Adds(q) == q \in Rows /\ Len(q) \in {Len(taken), Len(taken) + 1}
<1>1. token \in Nat
  OBVIOUS
<1>2. FillSlot(taken, index, seed) =
        CASE slot = "HFC" -> AddFrom(taken, General, token)
          [] slot = "COMMON_A" /\ CommonPair # << >> -> AddFrom(taken, <<CommonPair[1]>>, 0)
          [] slot = "COMMON_B" /\ CommonPair # << >> -> AddFrom(taken, <<CommonPair[2]>>, 0)
          [] OTHER -> AddFrom(taken, Of({"PON"}), token)
  BY Zenon DEF FillSlot
<1>3. Adds(AddFrom(taken, General, token)) /\ Adds(AddFrom(taken, Of({"PON"}), token))
  <2> HIDE DEF token
  <2> QED BY <1>1, GeneralIs, OfIs, AddFromIs
<1>4. ASSUME CommonPair # << >>, NEW s \in {CommonPair[1], CommonPair[2]}
      PROVE  Adds(AddFrom(taken, <<s>>, 0))
  <2>1. <<s>> \in Seq(Population)
    BY <1>4, PairIs
  <2> QED BY <2>1, AddFromIs
<1> HIDE DEF Adds, slot, token
<1>5. Adds(FillSlot(taken, index, seed))
  BY <1>2, <1>3, <1>4
<1> QED BY <1>5 DEF Adds

LEMMA FilledIs ==
  ASSUME NEW size \in Nat, NEW seed \in Nat
  PROVE  Filled(size, seed) \in Picks(size)
<1> DEFINE X == Rows
           step == [i \in 1..12 |-> [x \in X |-> FillSlot(x, i, seed)]]
           filled == CHOOSE f : f = [i \in 0..12 |->
                       IF i = 0 THEN << >> ELSE FillSlot(f[i - 1], i, seed)]
<1>1. << >> \in X /\ \A i \in 1..12 : \A x \in X : FillSlot(x, i, seed) \in X
  <2>1. << >> \in X
    BY DEF Rows
  <2> QED BY <2>1, FillSlotIs
<1> HIDE DEF X
<1>2. step \in [1..12 -> [X -> X]]
  BY <1>1
<1>3. PICK g : Follows(g, 12, X, << >>, step)
  <2> HIDE DEF step
  <2> QED BY <1>1, <1>2, FunctionAlong
<1>4. g = [i \in 0..12 |-> IF i = 0 THEN << >> ELSE FillSlot(g[i - 1], i, seed)]
  <2>1. ASSUME NEW i \in 1..12 PROVE g[i] = FillSlot(g[i - 1], i, seed)
    <3>1. i - 1 \in 0..12 /\ g[i - 1] \in X
      <4> HIDE DEF step
      <4> QED BY <1>3 DEF Follows
    <3>2. g[i] = step[i][g[i - 1]]
      <4> HIDE DEF step
      <4> QED BY <1>3 DEF Follows
    <3> QED BY <3>1, <3>2
  <2>2. g \in [0..12 -> X] /\ g[0] = << >>
    BY <1>3 DEF Follows
  <2> HIDE DEF step
  <2>3. g = [i \in 0..12 |-> g[i]]
    BY <2>2
  <2>4. \A i \in 0..12 : g[i] = IF i = 0 THEN << >> ELSE FillSlot(g[i - 1], i, seed)
    BY <2>1, <2>2
  <2> QED BY <2>3, <2>4
<1>5. filled = [i \in 0..12 |-> IF i = 0 THEN << >> ELSE FillSlot(filled[i - 1], i, seed)]
  BY <1>4
<1> HIDE DEF filled
<1>6. \A i \in 0..12 : i \in {k \in 0..12 : filled[k] \in X /\ Len(filled[k]) <= k}
  <2> DEFINE G == {k \in 0..12 : filled[k] \in X /\ Len(filled[k]) <= k}
  <2>1. 0 \in G
    BY <1>1, <1>5
  <2>2. ASSUME NEW i \in 1..12, i - 1 \in G PROVE i \in G
    <3>1. filled[i] = FillSlot(filled[i - 1], i, seed)
      BY <1>5
    <3>2. filled[i - 1] \in Rows /\ Len(filled[i - 1]) <= i - 1 /\ Len(filled[i - 1]) \in Nat
      BY <2>2 DEF X, Rows
    <3>3. filled[i] \in Rows /\ Len(filled[i]) \in {Len(filled[i - 1]), Len(filled[i - 1]) + 1}
      BY <3>1, <3>2, FillSlotIs
    <3> QED BY <3>2, <3>3 DEF X
  <2> HIDE DEF G
  <2>3. \A i \in 0..12 : i \in G
    BY <2>1, <2>2, Along
  <2> QED BY <2>3 DEF G
<1>7. Filled(size, seed) = filled[IF size < 12 THEN size ELSE 12]
  BY Zenon DEF Filled, filled
<1> DEFINE top == IF size < 12 THEN size ELSE 12
<1>8. top \in 0..12 /\ top <= size
  OBVIOUS
<1>9. filled[top] \in Rows /\ Len(filled[top]) <= top /\ Len(filled[top]) \in Nat
  <2> HIDE DEF top
  <2>1. filled[top] \in X /\ Len(filled[top]) <= top
    BY <1>6, <1>8
  <2> QED BY <2>1 DEF X, Rows
<1> HIDE DEF top
<1>10. Len(filled[top]) <= size
  <2> HIDE DEF filled
  <2>1. top \in Int
    BY <1>8
  <2> QED BY <1>8, <1>9, <2>1
<1> QED BY <1>7, <1>9, <1>10 DEF top, Picks

LEMMA TopUpIs ==
  ASSUME NEW size \in Nat, NEW taken \in Picks(size), NEW service \in Population
  PROVE  LET q == TopUp(taken, service, size)
         IN /\ q \in Picks(size)
            /\ ToSet(taken) \subseteq ToSet(q)
            /\ Len(q) < size => Len(taken) < size /\ service \in ToSet(q)
<1>1. taken \in Rows /\ Len(taken) <= size /\ Len(taken) \in Nat
  BY DEF Picks, Rows
<1>2. CASE Len(taken) < size
  <2> DEFINE q == AddFrom(taken, <<service>>, 0)
  <2>1. q \in Rows /\ Len(q) \in {Len(taken), Len(taken) + 1} /\ ToSet(taken) \subseteq ToSet(q)
        /\ service \in ToSet(q)
    <3>1. <<service>> \in Seq(Population) /\ Len(<<service>>) = 1 /\ <<service>>[1] = service
      OBVIOUS
    <3> QED BY <1>1, <3>1, AddFromIs
  <2>2. TopUp(taken, service, size) = q
    BY <1>2 DEF TopUp
  <2> HIDE DEF q
  <2> QED BY <1>1, <1>2, <2>1, <2>2 DEF Picks
<1>3. CASE ~(Len(taken) < size)
  BY <1>1, <1>3 DEF TopUp
<1> QED BY <1>2, <1>3

\* A watch has as many services as were asked for, none of them twice.
LEMMA PickedIs ==
  ASSUME NEW size \in 1..Len(Services), NEW seed \in Nat
  PROVE  Picked(size, seed) \in Rows /\ Len(Picked(size, seed)) = size
<1> DEFINE n == Len(Services)
           X == Picks(size)
           step == [i \in 1..n |-> [x \in X |-> TopUp(x, Services[i], size)]]
           first == Filled(size, seed)
           taken == CHOOSE f : f = [i \in 0..n |->
                      IF i = 0 THEN first ELSE TopUp(f[i - 1], Services[i], size)]
<1>1. /\ n \in Nat /\ size \in Nat /\ first \in X
      /\ \A i \in 1..n : Services[i] \in Population
  BY ServicesAre, FilledIs
<1>2. \A i \in 1..n : \A x \in X : TopUp(x, Services[i], size) \in X
  BY <1>1, TopUpIs
<1> HIDE DEF X, n, first
<1>3. step \in [1..n -> [X -> X]]
  BY <1>2
<1>4. PICK g : Follows(g, n, X, first, step)
  <2> HIDE DEF step
  <2> QED BY <1>1, <1>3, FunctionAlong
<1>5. g = [i \in 0..n |-> IF i = 0 THEN first ELSE TopUp(g[i - 1], Services[i], size)]
  <2>1. ASSUME NEW i \in 1..n PROVE g[i] = TopUp(g[i - 1], Services[i], size)
    <3>1. i - 1 \in 0..n /\ g[i - 1] \in X
      <4> HIDE DEF step
      <4> QED BY <1>1, <1>4 DEF Follows
    <3>2. g[i] = step[i][g[i - 1]]
      <4> HIDE DEF step
      <4> QED BY <1>4 DEF Follows
    <3> QED BY <3>1, <3>2
  <2>2. g \in [0..n -> X] /\ g[0] = first
    BY <1>4 DEF Follows
  <2> HIDE DEF step
  <2>3. g = [i \in 0..n |-> g[i]]
    BY <2>2
  <2>4. \A i \in 0..n : g[i] = IF i = 0 THEN first ELSE TopUp(g[i - 1], Services[i], size)
    <3>1. \A i \in 0..n : i = 0 \/ i \in 1..n
      BY <1>1
    <3>2. \A i \in 1..n : i # 0
      BY <1>1
    <3> QED BY <2>1, <2>2, <3>1, <3>2, Zenon
  <2> QED BY <2>3, <2>4
<1>6. taken = [i \in 0..n |-> IF i = 0 THEN first ELSE TopUp(taken[i - 1], Services[i], size)]
  BY <1>5
<1> HIDE DEF taken
<1> DEFINE Covers(k) == /\ taken[k] \in X
                        /\ Len(taken[k]) < size =>
                             \A j \in 1..k : Services[j] \in ToSet(taken[k])
<1>7. \A i \in 0..n : Covers(i)
  <2> DEFINE G == {k \in 0..n : Covers(k)}
  <2>1. 0 \in G
    <3>1. 0 \in 0..n /\ taken[0] = first
      BY <1>1, <1>6
    <3> QED BY <1>1, <3>1
  <2>2. ASSUME NEW i \in 1..n, i - 1 \in G PROVE i \in G
    <3>1. taken[i] = TopUp(taken[i - 1], Services[i], size)
      <4>1. i \in 0..n /\ i # 0
        BY <1>1
      <4> HIDE DEF G, Covers
      <4> QED BY <1>6, <4>1
    <3>2. taken[i - 1] \in X /\ Services[i] \in Population
      BY <1>1, <2>2
    <3>3. /\ taken[i] \in X /\ ToSet(taken[i - 1]) \subseteq ToSet(taken[i])
          /\ Len(taken[i]) < size => Len(taken[i - 1]) < size /\ Services[i] \in ToSet(taken[i])
      BY <1>1, <3>1, <3>2, TopUpIs DEF X
    <3>4. \A j \in 1..i : j = i \/ j \in 1..(i - 1)
      BY <1>1
    <3>5. ASSUME Len(taken[i]) < size, NEW j \in 1..i PROVE Services[j] \in ToSet(taken[i])
      BY <2>2, <3>3, <3>4, <3>5
    <3>6. i \in 0..n
      BY <1>1
    <3> QED BY <3>3, <3>5, <3>6
  <2> HIDE DEF G
  <2>3. \A i \in 0..n : i \in G
    BY <1>1, <2>1, <2>2, Along
  <2> QED BY <2>3 DEF G
<1>8. Picked(size, seed) = taken[n]
  BY Zenon DEF Picked, taken, n, first
<1> DEFINE p == taken[n]
<1>9. /\ p \in Rows /\ Len(p) <= size /\ Len(p) \in Nat
      /\ Len(p) < size => \A j \in 1..n : Services[j] \in ToSet(p)
  <2>1. Covers(n)
    BY <1>1, <1>7
  <2> QED BY <2>1 DEF X, Picks, Rows
<1> HIDE DEF p
<1>10. Len(p) = size
  <2> SUFFICES ASSUME Len(p) < size PROVE FALSE
    BY <1>1, <1>9
  <2>1. \A j \in 1..n : \E i \in 1..Len(p) : p[i] = Services[j]
    <3>1. ToSet(p) = {p[i] : i \in 1..Len(p)}
      BY <1>9 DEF ToSet, Rows
    <3> QED BY <1>9, <3>1
  <2> DEFINE at == [j \in 1..n |-> CHOOSE i \in 1..Len(p) : p[i] = Services[j]]
  <2>2. \A j \in 1..n : at[j] \in 1..Len(p) /\ p[at[j]] = Services[j]
    BY <2>1
  <2>3. \A i, j \in 1..n : at[i] = at[j] => i = j
    <3>1. \A i, j \in 1..n : Services[i] = Services[j] => i = j
      BY ServicesAssumption DEF n
    <3> HIDE DEF at
    <3> QED BY <2>2, <3>1
  <2>4. at \in Injection(1..n, 1..Len(p))
    <3>1. at \in [1..n -> 1..Len(p)]
      BY <2>2
    <3> HIDE DEF at
    <3> QED BY <2>3, <3>1 DEF Injection, IsInjective
  <2>5. n <= Len(p)
    <3>1. /\ IsFiniteSet(1..n) /\ Cardinality(1..n) = n
          /\ IsFiniteSet(1..Len(p)) /\ Cardinality(1..Len(p)) = Len(p)
      BY <1>1, <1>9, Counting
    <3>2. Cardinality(1..n) <= Cardinality(1..Len(p))
      BY <2>4, <3>1, FS_Injection
    <3> QED BY <3>1, <3>2
  <2> QED BY <1>1, <1>9, <2>5 DEF n
<1> QED BY <1>8, <1>9, <1>10 DEF p

-----------------------------------------------------------------------------
(* The episodes of a watch *)

LEMMA OffsetIs == ASSUME NEW scenario PROVE StartOffset(scenario) \in Nat
BY DEF StartOffset, Hour

LEMMA MinIs ==
  ASSUME NEW a \in Int, NEW b \in Int
  PROVE  Min({a, b}) \in {a, b} /\ Min({a, b}) <= a /\ Min({a, b}) <= b
<1>1. \E x \in {a, b} : \A y \in {a, b} : x <= y
  OBVIOUS
<1>2. Min({a, b}) \in {a, b} /\ \A y \in {a, b} : Min({a, b}) <= y
  BY <1>1 DEF Min
<1> QED BY <1>2

\* What an episode says of its service follows from the scenario and the age.
Tells(r, e, scenario) ==
  /\ e.scenario = scenario /\ e.age \in Nat /\ e.start \in Int /\ r.asOf = e.start + e.age
  /\ e.age >= r.asOf - StartOffset(scenario)
  /\ e.age = 0 \/ e.age = r.asOf - StartOffset(scenario)
  /\ e.health = HealthAt(scenario, e.age)
  /\ e.lifecycle = Lifecycle(scenario, e.age, r.tail)
  /\ e.maturity = EffectiveMaturity(scenario, e.age, r.tail)
  /\ e.work = Executed(scenario, e.age)
  /\ e.contact <=> Due(scenario, "contact", e.age)
  /\ e.beforeCall <=> /\ Due(scenario, "contact", e.age) /\ Due(scenario, "finding", e.age)
                      /\ EventPlan[scenario]["finding"] <= EventPlan[scenario]["contact"]

LEMMA EpisodeIs ==
  ASSUME NEW r \in WatchRequests, NEW i \in 1..r.population
  PROVE  LET service == Picked(r.population, r.seed)[i]
             scenario == ScenarioFor(i, service.technology)
             e == Episode(r, i)
         IN /\ service \in Population /\ e.service = service.name
            /\ e.incident = IncidentOf(service, scenario, e.age)
            /\ Tells(r, e, scenario)
<1> DEFINE service == Picked(r.population, r.seed)[i]
           scenario == ScenarioFor(i, service.technology)
           e == Episode(r, i)
           start == Min({StartOffset(scenario), r.asOf})
           age == r.asOf - start
           called == Due(scenario, "contact", age)
<1>1. service \in Population
  <2>1. r.population \in 1..Len(Services) /\ r.seed \in Nat
    BY RequestAssumption
  <2>2. Picked(r.population, r.seed) \in Seq(Population)
        /\ Len(Picked(r.population, r.seed)) = r.population
    BY <2>1, PickedIs DEF Rows
  <2> QED BY <2>2
<1>2. e = [service |-> service.name, scenario |-> scenario, start |-> start, age |-> age,
           health |-> HealthAt(scenario, age),
           lifecycle |-> Lifecycle(scenario, age, r.tail),
           maturity |-> EffectiveMaturity(scenario, age, r.tail),
           incident |-> IncidentOf(service, scenario, age),
           work |-> Executed(scenario, age),
           contact |-> called,
           beforeCall |-> called /\ Due(scenario, "finding", age)
                            /\ EventPlan[scenario]["finding"] <= EventPlan[scenario]["contact"]]
  BY Zenon DEF Episode, EpisodeOf
<1> HIDE DEF e, service, scenario
<1>3. /\ start \in Int /\ r.asOf \in Int /\ StartOffset(scenario) \in Nat
      /\ start <= r.asOf /\ start <= StartOffset(scenario)
      /\ start = r.asOf \/ start = StartOffset(scenario)
  <2>1. r.asOf \in Int /\ StartOffset(scenario) \in Nat
    BY OffsetIs, RequestAssumption
  <2>2. /\ start \in {StartOffset(scenario), r.asOf}
        /\ start <= StartOffset(scenario) /\ start <= r.asOf
    <3>1. StartOffset(scenario) \in Int
      BY <2>1
    <3> QED BY <2>1, <3>1, MinIs
  <2> QED BY <2>1, <2>2
<1> HIDE DEF start
<1>4. /\ age \in Nat /\ r.asOf = start + age /\ age >= r.asOf - StartOffset(scenario)
      /\ age = 0 \/ age = r.asOf - StartOffset(scenario)
  BY <1>3
<1> HIDE DEF age
<1>5. Tells(r, e, scenario)
  BY <1>2, <1>3, <1>4 DEF Tells
<1>6. e.service = service.name /\ e.incident = IncidentOf(service, scenario, e.age)
  BY <1>2
<1> QED BY <1>1, <1>5, <1>6 DEF e, service, scenario

LEMMA EpisodesAre ==
  ASSUME NEW r \in WatchRequests
  PROVE  /\ r.population \in Nat /\ DOMAIN Watched(r) = 1..r.population
         /\ \A i \in 1..r.population : Watched(r)[i] = Episode(r, i)
         /\ Episodes(r) = {Episode(r, i) : i \in 1..r.population}
         /\ IsFiniteSet(Episodes(r))
<1>1. r.population \in Nat
  BY RequestAssumption, ServicesAre
<1>2. Watched(r) = [i \in 1..r.population |-> Episode(r, i)]
  BY DEF Watched
<1>3. Episodes(r) = {Episode(r, i) : i \in 1..r.population}
  BY <1>2 DEF Episodes, ToSet
<1>4. IsFiniteSet({Episode(r, i) : i \in 1..r.population})
  <2>1. IsFiniteSet(1..r.population)
    BY <1>1, Counting
  <2>2. Watched(r) \in Surjection(1..r.population, Episodes(r))
    BY <1>2, <1>3 DEF Surjection
  <2> QED BY <1>3, <2>1, <2>2, FS_Surjection
<1> QED BY <1>1, <1>2, <1>3, <1>4

\* Every episode is that of a service of the run, in some scenario.
LEMMA EpisodeHas ==
  ASSUME NEW r \in WatchRequests, NEW e \in Episodes(r)
  PROVE  /\ Tells(r, e, e.scenario)
         /\ \E s \in Population : /\ e.service = s.name
                                  /\ e.incident = IncidentOf(s, e.scenario, e.age)
<1>1. PICK i \in 1..r.population : e = Episode(r, i)
  BY EpisodesAre
<1> DEFINE service == Picked(r.population, r.seed)[i]
           scenario == ScenarioFor(i, service.technology)
<1>2. /\ service \in Population /\ e.service = service.name
      /\ e.incident = IncidentOf(service, scenario, e.age)
      /\ Tells(r, e, scenario)
  BY <1>1, EpisodeIs
<1>3. e.scenario = scenario
  BY <1>2 DEF Tells
<1> QED BY <1>2, <1>3, Zenon

\* In watches of a cohort, an installation has one place, and one scenario.
LEMMA OnePlace ==
  ASSUME NEW r \in WatchRequests, NEW q \in WatchRequests,
         r.population = q.population, r.seed = q.seed,
         NEW i \in 1..r.population, NEW j \in 1..q.population,
         Episode(r, i).service = Episode(q, j).service
  PROVE  i = j /\ Episode(r, i).scenario = Episode(q, j).scenario
<1> DEFINE p == Picked(r.population, r.seed)
<1>1. p \in Rows /\ Len(p) = r.population
  BY PickedIs, RequestAssumption
<1>2. /\ p[i] \in Population /\ p[j] \in Population
      /\ Episode(r, i).service = p[i].name /\ Episode(q, j).service = p[j].name
      /\ Tells(r, Episode(r, i), ScenarioFor(i, p[i].technology))
      /\ Tells(q, Episode(q, j), ScenarioFor(j, p[j].technology))
  <2>1. /\ p[i] \in Population /\ Episode(r, i).service = p[i].name
        /\ Tells(r, Episode(r, i), ScenarioFor(i, p[i].technology))
    BY EpisodeIs, Zenon
  <2>2. /\ Picked(q.population, q.seed)[j] \in Population
        /\ Episode(q, j).service = Picked(q.population, q.seed)[j].name
        /\ Tells(q, Episode(q, j), ScenarioFor(j, Picked(q.population, q.seed)[j].technology))
    BY EpisodeIs, Zenon
  <2>3. Picked(q.population, q.seed) = p
    OBVIOUS
  <2> HIDE DEF p
  <2> QED BY <2>1, <2>2, <2>3, Zenon
<1> HIDE DEF p
<1>3. p[i] = p[j]
  BY <1>2, ServicesAre
<1>4. i = j
  BY <1>1, <1>3 DEF Rows
<1> QED BY <1>2, <1>4 DEF Tells

\* Of two watches of a cohort, the later one never takes back that an
\* installation has passed or is an incident: nothing of a plan happens twice or
\* back in time, and the same installation is in the same scenario
\* (install_assurance.py:_lifecycle).
THEOREM FinalIsFinal == Spec => []LifecycleOnlyAdvances
<1>1. ASSUME NEW r \in WatchRequests, NEW q \in WatchRequests, Later(r, q),
             NEW e \in Cohort[r], NEW f \in Cohort[q],
             e.service = f.service, e.lifecycle \in Final
      PROVE  f.lifecycle = e.lifecycle
  <2>1. /\ r.asOf < q.asOf /\ r.tail = q.tail
        /\ r.population = q.population /\ r.seed = q.seed
    BY <1>1 DEF Later
  <2>2. e \in Episodes(r) /\ f \in Episodes(q)
    BY DEF Cohort
  <2>3. PICK i \in 1..r.population : e = Episode(r, i)
    BY <2>2, EpisodesAre
  <2>4. PICK j \in 1..q.population : f = Episode(q, j)
    BY <2>2, EpisodesAre
  <2>5. e.scenario = f.scenario
    BY <1>1, <2>1, <2>3, <2>4, OnePlace
  <2>6. Tells(r, e, e.scenario) /\ Tells(q, f, e.scenario)
    BY <2>2, <2>5, EpisodeHas
  <2>7. e.age \in Int /\ f.age \in Int /\ e.age <= f.age
    <3>1. r.asOf \in Int /\ q.asOf \in Int /\ StartOffset(e.scenario) \in Nat
      BY OffsetIs, RequestAssumption
    <3> QED BY <2>1, <2>6, <3>1 DEF Tells
  <2>8. /\ Lifecycle(e.scenario, e.age, r.tail) = e.lifecycle
        /\ Lifecycle(e.scenario, f.age, r.tail) = f.lifecycle
    BY <2>1, <2>6 DEF Tells
  <2>9. r.tail \in Int
    BY RequestAssumption
  <2>10. Lifecycle(e.scenario, f.age, r.tail) = Lifecycle(e.scenario, e.age, r.tail)
    BY <1>1, <2>7, <2>8, <2>9, StaysFinal
  <2> QED BY <2>8, <2>10
<1>2. LifecycleOnlyAdvances
  BY <1>1 DEF LifecycleOnlyAdvances, Listed
<1> QED BY <1>2, PTL

-----------------------------------------------------------------------------
(* The incidents of a watch *)

LEMMA FirstOf ==
  ASSUME NEW n \in Nat, NEW G \in SUBSET (1..n), G # {}
  PROVE  \E j \in G : \A k \in G : j <= k
BY LeastNumber, G \in SUBSET Nat

\* One incident for each name, with all episodes of that name; its status is that
\* of one of them.
LEMMA IncidentsAre ==
  ASSUME NEW r \in WatchRequests
  PROVE  /\ \A i \in Incidents(r) :
              /\ i.id # "none" /\ i.episodes = {f \in Episodes(r) : f.incident = i.id}
              /\ \E e \in i.episodes : i.closed = ClosesAt(e)
         /\ \A i, j \in Incidents(r) : i.id = j.id => i = j
         /\ \A e \in Episodes(r) : e.incident # "none" => \E i \in Incidents(r) : i.id = e.incident
<1> DEFINE w == Watched(r)
           n == r.population
           First(i) == \A k \in 1..(i - 1) : w[k].incident # w[i].incident
           opens == {j \in DOMAIN w : w[j].incident # "none" /\ First(j)}
           I(e) == [id |-> e.incident, closed |-> ClosesAt(e),
                    episodes |-> {f \in Episodes(r) : f.incident = e.incident}]
<1>1. /\ n \in Nat /\ DOMAIN w = 1..n /\ Episodes(r) = {w[i] : i \in 1..n}
  BY EpisodesAre
<1>2. Incidents(r) = {I(e) : e \in {w[j] : j \in opens}}
  BY Zenon DEF Incidents, IncidentsAmong, Episodes
<1> HIDE DEF w, n
<1>3. ASSUME NEW i \in Incidents(r)
      PROVE  \E j \in opens : i = I(w[j])
  BY <1>2
<1>4. ASSUME NEW j \in opens
      PROVE  /\ I(w[j]) \in Incidents(r) /\ w[j] \in Episodes(r) /\ w[j].incident # "none"
             /\ I(w[j]).id = w[j].incident /\ I(w[j]).closed = ClosesAt(w[j])
             /\ I(w[j]).episodes = {f \in Episodes(r) : f.incident = w[j].incident}
  BY <1>1, <1>2
<1>5. ASSUME NEW i \in opens, NEW j \in opens, w[i].incident = w[j].incident
      PROVE  i = j
  <2>1. i \in 1..n /\ j \in 1..n
    BY <1>1
  <2>2. ~(i < j) /\ ~(j < i)
    BY <1>1, <1>5, <2>1
  <2> QED BY <1>1, <2>1, <2>2
<1>6. ASSUME NEW e \in Episodes(r), e.incident # "none"
      PROVE  \E j \in opens : w[j].incident = e.incident
  <2> DEFINE G == {k \in 1..n : w[k].incident = e.incident}
  <2>1. G # {} /\ G \in SUBSET (1..n)
    BY <1>1
  <2>2. PICK j \in G : \A k \in G : j <= k
    <3> HIDE DEF G
    <3> QED BY <1>1, <2>1, FirstOf
  <2>3. j \in 1..n /\ w[j].incident = e.incident
    OBVIOUS
  <2>4. First(j)
    <3> SUFFICES ASSUME NEW k \in 1..(j - 1), w[k].incident = w[j].incident PROVE FALSE
      OBVIOUS
    <3>1. k \in 1..n /\ k < j
      BY <1>1, <2>3
    <3>2. k \in G
      BY <2>3, <3>1
    <3> QED BY <1>1, <2>2, <2>3, <3>1, <3>2
  <2> QED BY <1>1, <1>6, <2>3, <2>4
<1> HIDE DEF opens, I
<1>7. ASSUME NEW i \in Incidents(r)
      PROVE  /\ i.id # "none" /\ i.episodes = {f \in Episodes(r) : f.incident = i.id}
             /\ \E e \in i.episodes : i.closed = ClosesAt(e)
  <2>1. PICK j \in opens : i = I(w[j])
    BY <1>3
  <2>2. w[j] \in i.episodes
    BY <1>4, <2>1
  <2> QED BY <1>4, <2>1, <2>2
<1>8. ASSUME NEW i \in Incidents(r), NEW j \in Incidents(r), i.id = j.id PROVE i = j
  <2>1. PICK k \in opens : i = I(w[k])
    BY <1>3
  <2>2. PICK l \in opens : j = I(w[l])
    BY <1>3
  <2>3. w[k].incident = w[l].incident
    BY <1>4, <1>8, <2>1, <2>2
  <2> QED BY <1>5, <2>1, <2>2, <2>3
<1>9. ASSUME NEW e \in Episodes(r), e.incident # "none"
      PROVE  \E i \in Incidents(r) : i.id = e.incident
  <2>1. PICK j \in opens : w[j].incident = e.incident
    BY <1>6, <1>9
  <2> QED BY <1>4, <2>1
<1> QED BY <1>7, <1>8, <1>9

\* An episode is of an incident when one is due, and only then.
LEMMA IncidentIsDue ==
  ASSUME NEW r \in WatchRequests, NEW e \in Episodes(r)
  PROVE  e.incident # "none" <=> Due(e.scenario, "incident", e.age)
<1>1. PICK s \in Population : e.incident = IncidentOf(s, e.scenario, e.age)
  BY EpisodeHas
<1>2. s.name # "none" /\ s.delimiter # "none"
  BY ServicesAssumption DEF Population
<1> QED BY <1>1, <1>2 DEF IncidentOf

\* So an incident has exactly the promoted among its watch.
LEMMA PromotedAreOwned ==
  ASSUME NEW r \in WatchRequests, NEW E, E = {e \in Episodes(r) : Due(e.scenario, "incident", e.age)}
  PROVE  /\ E = UNION {i.episodes : i \in Incidents(r)}
         /\ \A D \in SUBSET E : D = UNION {i.episodes \cap D : i \in Incidents(r)}
<1>1. ASSUME NEW e \in E PROVE \E i \in Incidents(r) : e \in i.episodes
  <2>1. e \in Episodes(r) /\ e.incident # "none"
    BY IncidentIsDue
  <2>2. PICK i \in Incidents(r) : i.id = e.incident
    BY <2>1, IncidentsAre
  <2>3. e \in i.episodes
    BY <2>1, <2>2, IncidentsAre
  <2> QED BY <2>2, <2>3
<1>2. ASSUME NEW i \in Incidents(r), NEW e \in i.episodes PROVE e \in E
  <2>1. e \in Episodes(r) /\ e.incident # "none"
    BY IncidentsAre
  <2> QED BY <2>1, IncidentIsDue
<1>3. E = UNION {i.episodes : i \in Incidents(r)}
  BY <1>1, <1>2
<1>4. ASSUME NEW D \in SUBSET E PROVE D = UNION {i.episodes \cap D : i \in Incidents(r)}
  <2>1. ASSUME NEW e \in D PROVE e \in UNION {i.episodes \cap D : i \in Incidents(r)}
    BY <1>1
  <2>2. UNION {i.episodes \cap D : i \in Incidents(r)} \subseteq D
    OBVIOUS
  <2> QED BY <2>1, <2>2, Zenon
<1> QED BY <1>3, <1>4

\* A closed incident leaves none of its services impaired: an incident is of one
\* installation, or of some that started together and follow the same plan; and
\* its repair is half an hour old (install_assurance.py:_build_artifact).
THEOREM ClosedMeansRestored == Spec => []ClosedIncidentIsRestored
<1>1. ASSUME NEW r \in WatchRequests, NEW i \in Incidents(r), i.closed, NEW f \in i.episodes
      PROVE  f.health = "GREEN"
  <2>1. PICK e \in i.episodes : ClosesAt(e)
    BY <1>1, IncidentsAre
  <2>2. /\ e \in Episodes(r) /\ f \in Episodes(r) /\ e.incident = f.incident
        /\ e.incident # "none"
    BY IncidentsAre
  <2>3. /\ Tells(r, e, e.scenario) /\ Tells(r, f, f.scenario)
        /\ Due(e.scenario, "incident", e.age) /\ Due(f.scenario, "incident", f.age)
    BY <2>2, EpisodeHas, IncidentIsDue
  <2>4. PICK s \in Population : e.service = s.name /\ e.incident = IncidentOf(s, e.scenario, e.age)
    BY <2>2, EpisodeHas
  <2>5. PICK t \in Population : f.service = t.name /\ f.incident = IncidentOf(t, f.scenario, f.age)
    BY <2>2, EpisodeHas
  <2>6. /\ s.name # t.delimiter /\ t.name # s.delimiter
    BY ServicesAssumption DEF Population
  <2>7. e.scenario = f.scenario
    <3>1. CASE e.scenario = "common_cause_hfc" \/ f.scenario = "common_cause_hfc"
      BY <2>2, <2>3, <2>4, <2>5, <2>6, <3>1 DEF IncidentOf
    <3>2. CASE ~(e.scenario = "common_cause_hfc" \/ f.scenario = "common_cause_hfc")
      <4>1. e.service = f.service
        BY <2>2, <2>3, <2>4, <2>5, <3>2 DEF IncidentOf
      <4>2. PICK k \in 1..r.population : e = Episode(r, k)
        BY <2>2, EpisodesAre
      <4>3. PICK l \in 1..r.population : f = Episode(r, l)
        BY <2>2, EpisodesAre
      <4> QED BY <4>1, <4>2, <4>3, OnePlace
    <3> QED BY <3>1, <3>2
  <2>8. e.age = f.age
    <3>1. r.asOf \in Int /\ StartOffset(e.scenario) \in Nat
      BY OffsetIs, RequestAssumption
    <3> QED BY <2>3, <2>7, <3>1 DEF Tells
  <2>9. HealthAt(e.scenario, e.age) = "GREEN"
    <3>1. e.age \in Int
      BY <2>3 DEF Tells
    <3> QED BY <2>1, <3>1, RepairedIsWell DEF ClosesAt
  <2> QED BY <2>3, <2>7, <2>8, <2>9 DEF Tells
<1>2. ClosedIncidentIsRestored
  BY <1>1 DEF ClosedIncidentIsRestored, Listed, Outages
<1> QED BY <1>2, PTL

LEMMA ThreeApart ==
  ASSUME NEW E, IsFiniteSet(E), NEW A \in SUBSET E, NEW B \in SUBSET E, NEW C \in SUBSET E,
         A \cap B = {}, A \cap C = {}, B \cap C = {}
  PROVE  Cardinality(A) + Cardinality(B) + Cardinality(C) = Cardinality(A \cup B \cup C)
<1>1. /\ IsFiniteSet(A) /\ IsFiniteSet(B) /\ IsFiniteSet(C)
      /\ Cardinality(A) \in Nat /\ Cardinality(B) \in Nat /\ Cardinality(C) \in Nat
  BY FS_Subset, FS_CardinalityType
<1>2. Cardinality({}) = 0
  BY FS_EmptySet
<1>3. IsFiniteSet(A \cup B) /\ Cardinality(A \cup B) = Cardinality(A) + Cardinality(B)
  <2>1. /\ IsFiniteSet(A \cup B)
        /\ Cardinality(A \cup B) = Cardinality(A) + Cardinality(B) - Cardinality(A \cap B)
    BY <1>1, FS_Union
  <2>2. Cardinality(A \cap B) = 0
    BY <1>2
  <2> QED BY <1>1, <2>1, <2>2
<1>4. (A \cup B) \cap C = {}
  OBVIOUS
<1>5. Cardinality((A \cup B) \cup C) = Cardinality(A \cup B) + Cardinality(C)
  <2> DEFINE D == A \cup B
  <2>1. Cardinality(D \cup C) = Cardinality(D) + Cardinality(C) - Cardinality(D \cap C)
    BY <1>1, <1>3, FS_Union
  <2>2. Cardinality(D \cap C) = 0 /\ Cardinality(D) \in Nat
    BY <1>1, <1>2, <1>3, <1>4
  <2> QED BY <1>1, <2>1, <2>2
<1> QED BY <1>1, <1>3, <1>5

\* What a watch says of the work on an episode comes in the order of the plan.
LEMMA WorkInOrder ==
  ASSUME NEW r \in WatchRequests, NEW e \in Episodes(r)
  PROVE  /\ "dispatch" \in e.work => Due(e.scenario, "incident", e.age)
         /\ "mr" \in e.work => "dispatch" \in e.work
         /\ e.contact => e.beforeCall
         /\ e.lifecycle = "PASSED_24H" =>
              /\ e.age >= Day /\ e.incident = "none" /\ "dispatch" \notin e.work
              /\ e.work # {} => "remote_action" \in e.work
              /\ r.asOf >= e.start + e.maturity
              /\ \A w \in e.work \cap ServiceAffecting :
                   r.asOf >= e.start + EventPlan[e.scenario][w] + r.tail
<1>1. /\ Tells(r, e, e.scenario) /\ e.age \in Int /\ e.start \in Int /\ r.tail \in Int
      /\ r.asOf = e.start + e.age /\ e.work = Executed(e.scenario, e.age)
  BY EpisodeHas, RequestAssumption DEF Tells
<1>2. \A w \in {"dispatch", "mr", "remote_action"} : w \in e.work <=> Due(e.scenario, w, e.age)
  BY <1>1 DEF Executed, WorkEvents
<1>3. /\ Due(e.scenario, "dispatch", e.age) => Due(e.scenario, "incident", e.age)
      /\ Due(e.scenario, "mr", e.age) => Due(e.scenario, "dispatch", e.age)
      /\ Due(e.scenario, "contact", e.age) =>
           /\ Due(e.scenario, "finding", e.age)
           /\ EventPlan[e.scenario]["finding"] <= EventPlan[e.scenario]["contact"]
  BY <1>1, DueInOrder
<1>4. e.contact => e.beforeCall
  BY <1>1, <1>3 DEF Tells
<1>5. ASSUME e.lifecycle = "PASSED_24H"
      PROVE  /\ e.age >= Day /\ e.incident = "none" /\ "dispatch" \notin e.work
             /\ e.work # {} => "remote_action" \in e.work
             /\ r.asOf >= e.start + e.maturity
             /\ \A w \in e.work \cap ServiceAffecting :
                  r.asOf >= e.start + EventPlan[e.scenario][w] + r.tail
  <2>1. Lifecycle(e.scenario, e.age, r.tail) = "PASSED_24H"
    BY <1>1, <1>5 DEF Tells
  <2>2. /\ e.age >= Day /\ ~Due(e.scenario, "dispatch", e.age)
        /\ Executed(e.scenario, e.age) # {} => Due(e.scenario, "remote_action", e.age)
    BY <1>1, <2>1, PassedWork
  <2>3. /\ ~Due(e.scenario, "incident", e.age)
        /\ e.age >= EffectiveMaturity(e.scenario, e.age, r.tail)
    BY <1>1, <2>1, LifecycleIs
  <2>4. e.incident = "none"
    BY <2>3, IncidentIsDue
  <2>5. e.maturity = EffectiveMaturity(e.scenario, e.age, r.tail)
    BY <1>1 DEF Tells
  <2>6. /\ e.maturity \in Int
        /\ \A w \in e.work \cap ServiceAffecting :
             /\ EventPlan[e.scenario][w] \in Int
             /\ e.maturity >= EventPlan[e.scenario][w] + r.tail
    BY <1>1, <2>5, MaturityIs
  <2>7. e.age >= e.maturity
    BY <2>3, <2>5
  <2>8. r.asOf >= e.start + e.maturity
    BY <1>1, <2>6, <2>7
  <2>9. ASSUME NEW w \in e.work \cap ServiceAffecting
        PROVE  r.asOf >= e.start + EventPlan[e.scenario][w] + r.tail
    <3> DEFINE planned == EventPlan[e.scenario][w]
    <3>1. planned \in Int /\ e.maturity >= planned + r.tail
      BY <2>6
    <3> HIDE DEF planned
    <3>2. r.asOf >= e.start + planned + r.tail
      BY <1>1, <2>6, <2>7, <3>1
    <3> QED BY <3>2 DEF planned
  <2> QED BY <1>1, <1>2, <2>2, <2>4, <2>8, <2>9
<1> QED BY <1>2, <1>3, <1>4, <1>5

LEMMA SummaryAddsUp == ASSUME NEW r \in WatchRequests PROVE WatchAddsUp(Summary(r))
<1> DEFINE E == Episodes(r)
           J == Incidents(r)
           s == Summary(r)
           Doing(event) == {e \in E : event \in e.work}
           Within(state) == {e \in E : e.lifecycle = state}
           ending == Within("ACTIVE") \cup Within("RECOVERING")
<1>1. /\ s.matured = {e \in E : r.asOf >= e.start + e.maturity}
      /\ s.passed = Within("PASSED_24H") /\ s.promoted = Within("PROMOTED_TO_INCIDENT")
      /\ s.in_progress = ending
      /\ s.remote_stabilized = {e \in E : Outcome(e) = "PASSED_AFTER_REMOTE_STABILIZATION"}
      /\ s.contacts = {e \in E : e.contact} /\ s.network_before_call = {e \in E : e.beforeCall}
      /\ s.remote_actions = Doing("remote_action")
      /\ s.clean_boots_work_orders = Doing("dispatch") /\ s.maintenance_requests = Doing("mr")
      /\ s.incident_work_orders = UNION {i.episodes \cap Doing("dispatch") : i \in J}
      /\ s.incident_requests = UNION {i.episodes \cap Doing("mr") : i \in J}
      /\ s.root_incidents = J
  BY DEF Summary, SummaryOf, Matured, Passed
<1>2. Within("PROMOTED_TO_INCIDENT") = {e \in E : Due(e.scenario, "incident", e.age)}
  <2>1. ASSUME NEW e \in E
        PROVE  e.lifecycle = "PROMOTED_TO_INCIDENT" <=> Due(e.scenario, "incident", e.age)
    <3>1. Tells(r, e, e.scenario) /\ r.tail \in Int /\ e.age \in Int
      BY EpisodeHas, RequestAssumption DEF Tells
    <3> QED BY <3>1, LifecycleIs DEF Tells
  <2> QED BY <2>1
<1>3. /\ Doing("dispatch") \subseteq Within("PROMOTED_TO_INCIDENT")
      /\ Doing("mr") \subseteq Doing("dispatch")
  <2>1. Doing("dispatch") \subseteq {e \in E : Due(e.scenario, "incident", e.age)}
    BY WorkInOrder
  <2> QED BY <1>2, <2>1, WorkInOrder
<1>4. s.passed \subseteq s.matured
  BY <1>1, WorkInOrder
<1>5. Cardinality(s.passed) + Cardinality(s.promoted) + Cardinality(s.in_progress)
        = Cardinality(s.passed \cup s.promoted \cup s.in_progress)
  <2>1. IsFiniteSet(E)
    BY EpisodesAre
  <2>2. /\ Within("PASSED_24H") \in SUBSET E /\ Within("PROMOTED_TO_INCIDENT") \in SUBSET E
        /\ ending \in SUBSET E
        /\ Within("PASSED_24H") \cap Within("PROMOTED_TO_INCIDENT") = {}
        /\ Within("PASSED_24H") \cap ending = {} /\ Within("PROMOTED_TO_INCIDENT") \cap ending = {}
    OBVIOUS
  <2> HIDE DEF E, Within, ending, s
  <2>3. Cardinality(Within("PASSED_24H")) + Cardinality(Within("PROMOTED_TO_INCIDENT"))
          + Cardinality(ending)
          = Cardinality(Within("PASSED_24H") \cup Within("PROMOTED_TO_INCIDENT") \cup ending)
    BY <2>1, <2>2, ThreeApart
  <2> QED BY <1>1, <2>3
<1>6. /\ s.promoted = UNION {i.episodes : i \in s.root_incidents}
      /\ s.clean_boots_work_orders = s.incident_work_orders
      /\ s.maintenance_requests = s.incident_requests
  <2> DEFINE P == Within("PROMOTED_TO_INCIDENT")
  <2>1. Doing("dispatch") \in SUBSET P /\ Doing("mr") \in SUBSET P
    BY <1>3
  <2> HIDE DEF Within, Doing, s
  <2>2. P = UNION {i.episodes : i \in J}
        /\ \A D \in SUBSET P : D = UNION {i.episodes \cap D : i \in J}
    BY <1>2, PromotedAreOwned
  <2> HIDE DEF P
  <2>3. /\ Doing("dispatch") = UNION {i.episodes \cap Doing("dispatch") : i \in J}
        /\ Doing("mr") = UNION {i.episodes \cap Doing("mr") : i \in J}
    BY <2>1, <2>2
  <2> QED BY <1>1, <2>2, <2>3 DEF P
<1>7. s.remote_stabilized \subseteq s.remote_actions \ s.clean_boots_work_orders
  <2>1. ASSUME NEW e \in E, Outcome(e) = "PASSED_AFTER_REMOTE_STABILIZATION"
        PROVE  e.lifecycle = "PASSED_24H" /\ e.work # {}
    BY <2>1 DEF Outcome
  <2> QED BY <1>1, <2>1, WorkInOrder
<1>8. s.maintenance_requests \subseteq s.clean_boots_work_orders
  BY <1>1, <1>3
<1>9. \A e \in s.contacts \ s.network_before_call : e.health = "GREEN"
  BY <1>1, WorkInOrder
<1>10. \A i, j \in s.root_incidents : i # j => i.episodes \cap j.episodes = {}
  <2>1. ASSUME NEW i \in J, NEW j \in J, NEW e \in i.episodes \cap j.episodes PROVE i = j
    <3>1. e.incident = i.id /\ e.incident = j.id
      BY IncidentsAre
    <3> QED BY <3>1, IncidentsAre
  <2> QED BY <1>1, <2>1
<1> HIDE DEF s
<1>11. WatchAddsUp(s)
  BY <1>4, <1>5, <1>6, <1>7, <1>8, <1>9, <1>10 DEF WatchAddsUp
<1> QED BY <1>11 DEF s

\* What a watch counts adds up: each installation is told one way, all work of a
\* crew is that of the one incident that called for it, and who has passed has
\* done so after a day and the tail (install_assurance.py:_build_artifact).
THEOREM WatchesAddUp == Spec => []PassedIsEarned
<1>1. ASSUME NEW r \in WatchRequests
      PROVE  /\ WatchAddsUp(Summaries[r])
             /\ \A e \in Passed(Cohort[r]) :
                  /\ e.age >= Day /\ e.incident = "none"
                  /\ \A w \in e.work \cap ServiceAffecting :
                       r.asOf >= e.start + EventPlan[e.scenario][w] + r.tail
  <2>1. Summaries[r] = Summary(r) /\ Cohort[r] = Episodes(r)
    BY DEF Summaries, Cohort
  <2>2. WatchAddsUp(Summaries[r])
    BY <2>1, SummaryAddsUp
  <2>3. \A e \in Passed(Cohort[r]) : e \in Episodes(r) /\ e.lifecycle = "PASSED_24H"
    BY <2>1 DEF Passed
  <2> QED BY <2>2, <2>3, WorkInOrder
<1>2. PassedIsEarned
  BY <1>1 DEF PassedIsEarned, Listed
<1> QED BY <1>2, PTL
=============================================================================
