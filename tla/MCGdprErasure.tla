--------------------------- MODULE MCGdprErasure ---------------------------
(* Small instances of GdprErasure: a chain of three layers, deleted from   *)
(* but for the last one, which keeps its rows; the quarantine, listed with *)
(* Bronze, that the DQ agent fills from Silver and that has no customer_id; *)
(* and an audit table that is skipped.                                     *)
EXTENDS GdprErasure

CONSTANTS bronze, quarantine, silver, gold, audit, ann, bob

Layers   == <<bronze, quarantine, silver, gold, audit>>
Edges    == {<<bronze, silver>>, <<silver, gold>>, <<silver, quarantine>>}
Swept    == <<silver, gold>>
Modes    == [t \in Tables |-> CASE t = gold -> "ANONYMIZE" [] t = audit -> "SKIP" [] OTHER -> "DELETE"]
AtStart  == [t \in Tables |-> IF t \in {audit, quarantine} THEN {} ELSE {ann}]
Request(S, dry, now, mode) ==
  [subjects |-> S, dry |-> dry, immediate |-> now, override |-> mode]
AnnBases == {[subject |-> ann, all |-> TRUE, tables |-> {}]}
Asked    == {Request({ann}, FALSE, TRUE, "none"), Request({ann, bob}, TRUE, FALSE, "DELETE")}
=============================================================================
