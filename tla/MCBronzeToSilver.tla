-------------------------- MODULE MCBronzeToSilver --------------------------
(* A small instance of BronzeToSilver: two valid versions of one order and *)
(* a newer invalid one, beside a version of another order.                 *)
EXTENDS BronzeToSilver

CONSTANTS a, b, a1, a2, a3, b1

OrderOf == [v \in Versions |-> IF v = b1 THEN b ELSE a]
Updates == [v \in Versions |-> CASE v = a2 -> 2 [] v = a3 -> 3 [] OTHER -> 1]
Checks  == [v \in Versions |-> v # a3]
Deliveries == {S \in SUBSET Versions : Cardinality(S) \in {1, 2}}
=============================================================================
