---------------------------- MODULE MCQuotaBlock ----------------------------
(* Small instances of QuotaBlock for TLC. *)
EXTENDS QuotaBlock, TLC
=============================================================================
