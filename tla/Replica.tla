------------------------------ MODULE Replica ------------------------------
(***************************************************************************)
(* What change data capture promises of its Bronze table, whatever fails   *)
(* in between: the table is a replica of the captured tables.  It changes  *)
(* only by moving, for all keys in one step, to what the feed says at the  *)
(* same or later offsets, never at earlier ones.  Of changes with one time *)
(* any may be shown, and another after a batch is run again.  It may stay  *)
(* behind the feed for ever: nothing here forbids it.                      *)
(***************************************************************************)
EXTENDS Naturals, Sequences

CONSTANTS Keys, Partitions

VARIABLES
  feed,    \* the published events
  begun,   \* has the replica been set up?
  origin,  \* per partition, the position the replica was set up at
  upto,    \* per partition, the position it has reached
  table    \* per key the position of the event its row shows, and is it deleted

vars == <<feed, begun, origin, upto, table>>

Nothing   == [event |-> 0, deleted |-> FALSE]
Origin    == [p \in Partitions |-> 0]
EndOfFeed == [p \in Partitions |-> Len(feed)]

(* Changes of key k that a replica at these positions has seen.            *)
Seen(k, at) ==
  {i \in DOMAIN feed :
     /\ feed[i].key = k /\ feed[i].op # "x"
     /\ origin[feed[i].part] < i /\ i <= at[feed[i].part]}

(* The row of key k is that of a change no other change seen is newer than. *)
RowsOf(k, at) ==
  IF Seen(k, at) = {} THEN {Nothing}
  ELSE {[event |-> i, deleted |-> feed[i].op = "d"] :
          i \in {n \in Seen(k, at) : \A j \in Seen(k, at) : feed[j].ts <= feed[n].ts}}

Init ==
  /\ feed = <<>> /\ begun = FALSE
  /\ origin = Origin /\ upto = Origin
  /\ table = [k \in Keys |-> Nothing]

(* Events are published; none is ever taken back.                          *)
Publish ==
  /\ Len(feed') > Len(feed) /\ \A i \in DOMAIN feed : feed'[i] = feed[i]
  /\ UNCHANGED <<begun, origin, upto, table>>

(* The replica starts empty, with what is published from now on.           *)
Begin ==
  /\ ~begun /\ begun' = TRUE
  /\ origin' = EndOfFeed /\ upto' = EndOfFeed
  /\ UNCHANGED <<feed, table>>

Advance ==
  /\ begun
  /\ upto' \in [Partitions -> 0..Len(feed)]
  /\ \A p \in Partitions : upto[p] <= upto'[p]
  /\ DOMAIN table' = Keys /\ \A k \in Keys : table'[k] \in RowsOf(k, upto')
  /\ UNCHANGED <<feed, begun, origin>>

Next == Publish \/ Begin \/ Advance

Spec == Init /\ [][Next]_vars
=============================================================================
