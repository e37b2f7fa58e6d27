--------------------------- MODULE MCImportBatch ----------------------------
(***************************************************************************)
(* An import batch for TLC: an identity map of two services; telemetry     *)
(* that names only a device, and the wrong technology for it; a            *)
(* maintenance request that is closed after the point in time of the       *)
(* batch, and another that cannot be read.                                 *)
(***************************************************************************)
EXTENDS ImportBatch, TLC

Row(source, id, service, device) ==
  [source |-> source, id |-> id, service |-> service, device |-> device,
   technology |-> "", tap |-> "", at |-> NoTime, form |-> "ok", sound |-> TRUE,
   key |-> 0, status |-> "", domain |-> "", signal |-> "", refs |-> {}, incident |-> FALSE,
   acted |-> FALSE]

Knows(id, service, device, technology) ==
  [Row("identity_map", id, service, device) EXCEPT !.technology = technology]
Repair(id, at, status, form) ==
  [Row("jtrack_events", id, 2, "") EXCEPT !.at = at, !.status = status, !.form = form,
                                         !.key = 1, !.domain = "hfc_tap"]
Metric(id, device, technology) ==
  [Row("nxt_telemetry", id, 0, device) EXCEPT !.at = 1, !.technology = technology]

MCRows ==
  [twoServices |-> <<Knows(1, 1, "modem", "HFC"), Knows(2, 2, "ont", "GPON")>>,
   repair |-> <<Repair(11, 1, "ASSIGNED", "ok"), Repair(12, 4, "CLOSED", "ok")>>,
   unreadable |-> <<Repair(13, 1, "CREATED", "fatal")>>,
   telemetry |-> <<Metric(21, "modem", "GPON")>>]
MCFiles == DOMAIN MCRows
MCSourceOf == [f \in MCFiles |-> MCRows[f][1].source]

\* The workers are alike (the properties of the run are invariants).
MCSymmetry == Permutations(Workers)
=============================================================================
