-------------------------- MODULE MCDqRemediation --------------------------
(* A small instance of DqRemediation: two rows of one order; two clusters  *)
(* of the column and one of a check without a column.                      *)
EXTENDS DqRemediation

CONSTANTS o1, o2, nulls, range, volume

OrderOf  == [r \in Rows |-> "o"]
Updates  == [r \in Rows |-> IF r = o2 THEN 2 ELSE 1]
Columns  == [c \in Clusters |-> c # volume]

Lookbacks == {{nulls, range}, {range, volume}}

Leftovers ==
  {t \in [Rows -> Values \cup {Absent}] :
     /\ t[o1] \in {NULL, 1}
     /\ t[o2] = 2}

Answer(s, v, min, max) ==
  [strategy |-> s, impute_value |-> v, coerce_min |-> min, coerce_max |-> max]
Answers ==
  {Answer("IMPUTE_MODE", NULL, NULL, NULL), Answer("IMPUTE_CONSTANT", 3, NULL, NULL),
   Answer("COERCE", 1, 2, 2), Answer("COERCE", 1, 3, NULL), Answer("COERCE", 1, 3, 2),
   Answer("DEDUPLICATE", NULL, NULL, NULL), Answer("QUARANTINE", NULL, NULL, NULL),
   Answer("REJECT", NULL, NULL, NULL)}
=============================================================================
