----------------------------- MODULE MCCrewDays -----------------------------
(***************************************************************************)
(* Six kinds of work for crews of 30 hours in all: a routine job in the    *)
(* city, a medical one, a loss of service behind a tap, two island jobs of *)
(* which one takes eleven hours, and a breached commitment.                *)
(***************************************************************************)
EXTENDS CrewDays

Customer(segment, revenue, contract, payment, flags, faults) ==
  [segment |-> segment, revenue |-> revenue, contract |-> contract, payment |-> payment,
   months |-> IF contract = "in_term" THEN 10 ELSE 0, flags |-> flags, faults |-> faults]
Context(hours, remote, down, households) ==
  [hours |-> hours, remote |-> remote, serviceDown |-> down, slaBreached |-> FALSE,
   households |-> households]

MCCustomerOf ==
  <<Customer("residential", 90, "rolling", "current", {}, 0),
    Customer("residential", 70, "expiring_soon", "late", {"medical_or_safety"}, 1),
    Customer("smb", 60, "rolling", "current", {}, 3),
    Customer("residential", 50, "out_of_term", "arrears_60", {"vulnerable_customer"}, 0),
    Customer("residential", 35, "in_term", "suspended", {}, 0),
    Customer("enterprise", 200, "pending_disconnect", "current", {"regulatory_obligation"}, 2)>>
MCContextOf ==
  <<Context(3, FALSE, FALSE, 1), Context(2, FALSE, FALSE, 1),
    Context(5, FALSE, TRUE, 4), Context(9, TRUE, FALSE, 1),
    Context(11, TRUE, FALSE, 1), [Context(4, FALSE, FALSE, 1) EXCEPT !.slaBreached = TRUE]>>

\* The first island job is raised at the hour of the planning or eight hours before.
MCRaisedHours == <<{0}, {2}, {0}, {0, 8}, {2}, {2}>>

\* 1 + 11 * 2 ^ (- slack / 18) at the slacks of those hours.
MCUrgencyAt ==
  [s \in {2, 4, 10, 12, 16, 22, 24, 40, 46, 48, 64, 70, 72} |->
     CASE s = 2 -> 1118 [] s = 4 -> 1043 [] s = 10 -> 848 [] s = 12 -> 793
       [] s = 16 -> 694 [] s = 22 -> 571 [] s = 24 -> 537 [] s = 40 -> 336
       [] s = 46 -> 287 [] s = 48 -> 273 [] s = 64 -> 194 [] s = 70 -> 174
       [] s = 72 -> 169]
=============================================================================
