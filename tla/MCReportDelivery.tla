-------------------------- MODULE MCReportDelivery --------------------------
(* Small instances of ReportDelivery for TLC. *)
EXTENDS ReportDelivery, TLC

CONSTANTS b1, b2, dayClaim

(* Two winners of the same day compete for the day's claim. *)
DayClaims == [b \in {b1, b2} |-> {dayClaim}]

Symmetry == Permutations({b1, b2})
=============================================================================
