----------------------------- MODULE MCNlToSql -----------------------------
(* A small instance of NlToSql: two threads, three requests. *)
EXTENDS NlToSql, TLC

CONSTANTS t1, t2

Alike == Permutations(Threads)

Ask1(first, forbidden, schemas) == [first |-> first, forbidden |-> forbidden, schemas |-> schemas]
Answers ==
  {Ask1("SELECT", FALSE, {"gold"}), Ask1("WITH", FALSE, {"gold", "silver"}),
   Ask1("SELECT", TRUE, {"gold"}), Ask1("other", FALSE, {})}
=============================================================================
