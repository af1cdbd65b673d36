----------------------------- MODULE MCCdcMerge -----------------------------
(* A small instance of CdcMerge: Debezium sends a key to one partition. *)
EXTENDS CdcMerge, TLC

CONSTANTS k1, k2, p1, p2

LanePerKey == k1 :> {p1} @@ k2 :> {p2}
=============================================================================
