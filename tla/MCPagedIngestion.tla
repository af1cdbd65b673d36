------------------------- MODULE MCPagedIngestion -------------------------
(* A small instance of PagedIngestion: two records, room for a third,      *)
(* pages of two.                                                           *)
EXTENDS PagedIngestion

AtFirst == [r \in Records |-> IF r = 1 THEN 1 ELSE IF r = 3 THEN 2 ELSE 0]

Rest(paging, order, incremental, column) ==
  [job |-> "rest", paging |-> paging, order |-> order,
   incremental |-> incremental, column |-> column]
OData(paging, incremental) ==
  [job |-> "odata", paging |-> paging, order |-> "key",
   incremental |-> incremental, column |-> FALSE]

Configured ==
  {Rest("offset_limit", "key", TRUE, TRUE), Rest("offset_limit", "time", TRUE, TRUE),
   Rest("cursor", "key", TRUE, FALSE), Rest("link_header", "time", TRUE, TRUE),
   OData("next_link", FALSE), OData("skip", FALSE), OData("next_link", TRUE)}
=============================================================================
