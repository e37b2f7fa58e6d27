---------------------------- MODULE MCRunChildren ----------------------------
(***************************************************************************)
(* Two clients of one run.  Thirteen services, two of them behind one tap, *)
(* and a cohort of twelve of them watched at four points in time: just     *)
(* after the repair of the tap, on the second day (by an earlier version), *)
(* when a day is over, and when the tail of a late action is.  Four cases, *)
(* of which a scan of a single modem is to raise three tickets.            *)
(***************************************************************************)
EXTENDS RunChildren, TLC

Service(name, technology, delimiter) ==
  [name |-> name, technology |-> technology, delimiter |-> delimiter]
MCServices ==
  <<Service("s1", "HFC", "t1"), Service("s2", "PON", "o1"), Service("s3", "HFC", "t2"),
    Service("s4", "HFC", "t2"), Service("s5", "PON", "o2"), Service("s6", "HFC", "t3"),
    Service("s7", "PON", "o3"), Service("s8", "HFC", "t4"), Service("s9", "PON", "o4"),
    Service("s10", "HFC", "t5"), Service("s11", "PON", "o5"), Service("s12", "HFC", "t6"),
    Service("s13", "PON", "o6")>>

At(asOf) == [population |-> 12, asOf |-> asOf, tail |-> 16, seed |-> 3]
MCLegacy == {At(50)}
MCWatchRequests == {At(33), At(96), At(108)} \cup MCLegacy

MCTechnologyOf == <<"HFC", "PON", "HFC", "PON", "HFC", "PON">>
MCCases == <<4, 1, 6, 3>>
MCScenarioOf ==
  4 :> "fiber_cut" @@ 1 :> "iptv_degradation" @@ 6 :> "provisioning_error" @@ 3 :> "slow_wifi"
MCScanRequests == {[population |-> 1, days |-> 14, sample |-> <<2, 5>>]}

Symmetry == Permutations(Clients)
=============================================================================
