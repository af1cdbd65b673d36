---------------------------- MODULE MCGoldBuild ----------------------------
(* Small instances of GoldBuild. *)
EXTENDS GoldBuild, TLC

CONSTANTS c1, v1, v2, item, o1, o2, o3

\* o1 and o2 have the same date; o3 is a later order.
BuyerOf == [o \in Orders |-> c1]
ItemOf  == [o \in Orders |-> item]
SoldOn  == [o \in Orders |-> IF o = o3 THEN 2 ELSE 1]

\* The values of the tracked columns are interchangeable.
Alike == Permutations(Values)
=============================================================================
