------------------------------ MODULE CdcMerge ------------------------------
(***************************************************************************)
(* Change data capture into Bronze                                         *)
(* (src/ingestion/cdc/debezium_cdc_ingestion.py): a Structured Streaming   *)
(* query reads Debezium events from the partitions of an Event Hub and     *)
(* MERGEs each micro-batch into one Delta table.                           *)
(*                                                                         *)
(* Event Hubs, Debezium and the engine's checkpoint are external: events   *)
(* of one partition are read in order, a batch's end offsets are logged    *)
(* before it runs, and a restarted query runs the logged batch again.      *)
(***************************************************************************)
EXTENDS Naturals, Sequences, FiniteSets

CONSTANTS
  Keys,        \* primary keys of the captured table
  Partitions,  \* partitions of the Event Hub
  Lanes,       \* the partitions the events of each key are sent to
  BatchLimit,  \* maxEventsPerTrigger
  MaxEvents,   \* bound on published events
  MaxCrashes   \* bound on lost clusters and failed batches

ASSUME LanesAssumption == Lanes \in [Keys -> (SUBSET Partitions) \ {{}}]
ASSUME BoundAssumption ==
  BatchLimit \in Nat \ {0} /\ MaxEvents \in Nat /\ MaxCrashes \in Nat

VARIABLES
  feed,    \* events in the order Debezium published them
  start,   \* per partition, the feed position the first query started after
  done,    \* per partition, the position whose batch is committed
  ahead,   \* per partition, the end of the batch in the offset log
  pc,      \* the query: "new" before it first runs, "down" after a crash
  bronze,  \* the Bronze table: per key its row, or NoRow
  crashes

vars == <<feed, start, done, ahead, pc, bronze, crashes>>

\* _OP_INSERT, _OP_SNAPSHOT, _OP_UPDATE, _OP_DELETE; "x" is a schema change.
Supported == {"c", "r", "u", "d"}

Event == [key : Keys, part : Partitions, op : Supported \cup {"x"}, ts : Nat]
BronzeRow == [event : Nat, deleted : BOOLEAN]
NoRow == [event |-> 0, deleted |-> FALSE]

-----------------------------------------------------------------------------
(* Events of key k the parser keeps, by their position in the feed.        *)
ChangesOf(k) == {i \in DOMAIN feed : feed[i].key = k /\ feed[i].op \in Supported}

Between(k, from, to) ==
  {i \in ChangesOf(k) : from[feed[i].part] < i /\ i <= to[feed[i].part]}

Batch(k) == Between(k, done, ahead)

\* Variant: ORDER BY _cdc_event_ts ASC.
OldestOf(S) == {i \in S : \A j \in S : feed[i].ts <= feed[j].ts}

(* ROW_NUMBER() OVER (PARTITION BY key ORDER BY _cdc_event_ts DESC) = 1:   *)
(* any of the events with the newest timestamp.                            *)
LatestOf(S) == {i \in S : \A j \in S : feed[j].ts <= feed[i].ts}

(* The row an event leaves: its image, and the soft-delete flag.           *)
Row(i) == [event |-> i, deleted |-> feed[i].op = "d"]

-----------------------------------------------------------------------------
Init ==
  /\ feed = <<>>
  /\ start = [p \in Partitions |-> 0]
  /\ done  = [p \in Partitions |-> 0]
  /\ ahead = [p \in Partitions |-> 0]
  /\ pc = "new"
  /\ bronze = [k \in Keys |-> NoRow]
  /\ crashes = 0

(* Operations the source can make on a row, given its changes so far.      *)
Possible(k) ==
  LET past == ChangesOf(k)
      last == CHOOSE i \in past : \A j \in past : j <= i
  IN  CASE past = {}            -> {"c", "r"}
        [] past # {} /\ feed[last].op = "d" -> {"c"}
        [] OTHER                -> {"u", "d"}

Now == IF feed = <<>> THEN 0 ELSE feed[Len(feed)].ts

(* Debezium publishes one event.  ts_ms is a clock of milliseconds: it may *)
(* stand still between two events; it does not run backwards.              *)
Publish(k) ==
  /\ Len(feed) < MaxEvents
  /\ \E op \in Possible(k) \cup {"x"}, p \in Lanes[k],
        ts \in (IF feed = <<>> THEN {0} ELSE {Now, Now + 1}) :
       feed' = Append(feed, [key |-> k, part |-> p, op |-> op, ts |-> ts])
  /\ UNCHANGED <<start, done, ahead, pc, bronze, crashes>>

(* First run: startingPosition "@latest", remembered in the checkpoint.    *)
FirstStart ==
  /\ pc = "new"
  /\ \E here \in {[p \in Partitions |-> Len(feed)]} :
       start' = here /\ done' = here /\ ahead' = here
  /\ pc' = "idle"
  /\ UNCHANGED <<feed, bronze, crashes>>

\* Variant: the checkpoint is lost with the cluster.
RestartFromStart ==
  /\ pc = "down"
  /\ done' = start
  /\ ahead' = start
  /\ pc' = "idle"
  /\ UNCHANGED <<feed, start, bronze, crashes>>

\* Variant: the logged batch is taken for done.
RestartPastBatch ==
  /\ pc = "down"
  /\ done' = ahead
  /\ pc' = "idle"
  /\ UNCHANGED <<feed, start, ahead, bronze, crashes>>

(* max_retries -1: the query resumes, with the logged batch if it has one. *)
Restart ==
  /\ pc = "down"
  /\ pc' = IF ahead = done THEN "idle" ELSE "planned"
  /\ UNCHANGED <<feed, start, done, ahead, bronze, crashes>>

(* The trigger fires: end offsets are chosen and logged.                   *)
PlanBatch ==
  /\ pc = "idle"
  /\ \E to \in [Partitions -> 0..Len(feed)] :
       /\ \A p \in Partitions :
            \/ to[p] = done[p]
            \/ to[p] > done[p] /\ feed[to[p]].part = p
       /\ LET taken == {i \in DOMAIN feed :
                          done[feed[i].part] < i /\ i <= to[feed[i].part]}
          IN  taken # {} /\ Cardinality(taken) <= BatchLimit
       /\ ahead' = to
  /\ pc' = "planned"
  /\ UNCHANGED <<feed, start, done, bronze, crashes>>

\* Variant: keys are merged in parts; a kill, or a reader, can fall between.
MergeInParts ==
  /\ pc = "planned"
  /\ \E keys \in SUBSET Keys \ {{}}, pick \in [Keys -> 0..Len(feed)] :
       /\ \A k \in Keys :
            IF k \notin keys \/ Batch(k) = {} THEN pick[k] = 0 ELSE pick[k] \in LatestOf(Batch(k))
       /\ bronze' = [k \in Keys |-> IF pick[k] = 0 THEN bronze[k] ELSE Row(pick[k])]
       /\ pc' = IF keys = Keys THEN "merged" ELSE "planned"
  /\ UNCHANGED <<feed, start, done, ahead, crashes>>

(* _process_batch: one atomic MERGE, one source row per key, whatever the  *)
(* row in the table says.                                                  *)
Merge ==
  /\ pc = "planned"
  /\ \E pick \in [Keys -> 0..Len(feed)] :
       /\ \A k \in Keys :
            IF Batch(k) = {} THEN pick[k] = 0 ELSE pick[k] \in LatestOf(Batch(k))
       /\ bronze' = [k \in Keys |-> IF pick[k] = 0 THEN bronze[k] ELSE Row(pick[k])]
  /\ pc' = "merged"
  /\ UNCHANGED <<feed, start, done, ahead, crashes>>

(* The engine records the batch as committed.                              *)
CommitBatch ==
  /\ pc = "merged"
  /\ done' = ahead
  /\ pc' = "idle"
  /\ UNCHANGED <<feed, start, ahead, bronze, crashes>>

Crash ==
  /\ crashes < MaxCrashes
  /\ pc \in {"idle", "planned", "merged"}
  /\ pc' = "down"
  /\ crashes' = crashes + 1
  /\ UNCHANGED <<feed, start, done, ahead, bronze>>

(* The trigger fires every 30 seconds, with or without new events; with    *)
(* none the query does nothing.                                            *)
EmptyTrigger ==
  /\ pc = "idle"
  /\ \A i \in DOMAIN feed : i <= done[feed[i].part]
  /\ UNCHANGED vars

Stream == FirstStart \/ Restart \/ PlanBatch \/ Merge \/ CommitBatch

Next == (\E k \in Keys : Publish(k)) \/ Stream \/ Crash \/ EmptyTrigger

Spec == Init /\ [][Next]_vars

(* The query runs continuously and is always restarted (max_retries -1).   *)
FairSpec == Spec /\ WF_vars(Stream)

-----------------------------------------------------------------------------
(* The rows key k may show when its changes up to these positions were     *)
(* merged: of a change with the newest ts_ms among them, whichever the     *)
(* MERGE chose of several.                                                 *)
Images(k, upto) ==
  LET seen == Between(k, start, upto)
  IN  IF seen = {} THEN {NoRow}
      ELSE {Row(i) : i \in {n \in seen : \A j \in seen : feed[j].ts <= feed[n].ts}}

Shows(upto) == \A k \in Keys : bronze[k] \in Images(k, upto)

(* Type correctness of the feed, the checkpoint and the Bronze table.      *)
TypeOK ==
  /\ feed \in Seq(Event)
  /\ start \in [Partitions -> Nat]
  /\ done  \in [Partitions -> Nat]
  /\ ahead \in [Partitions -> Nat]
  /\ pc \in {"new", "idle", "planned", "merged", "down"}
  /\ bronze \in [Keys -> BronzeRow]
  /\ crashes \in Nat

(* Bronze is, for all keys at once, the image of the source at the last    *)
(* committed batch or at the one in the offset log, however often that one *)
(* was run again.  Changes of one millisecond count as equally new.  (One  *)
(* lane per key.)                                                          *)
LatestEventWins == Shows(done) \/ Shows(ahead)

(* What the row of key k shows is at least as new as event i.              *)
AsNewAs(k, i) == bronze[k] # NoRow /\ feed[i].ts <= feed[bronze[k].event].ts

(* No step, a batch run again after a crash included, takes a row away or  *)
(* puts an older event over a newer one.  (One lane per key.)              *)
NeverGoesBack ==
  [][\A k \in Keys, i \in DOMAIN feed : AsNewAs(k, i) => AsNewAs(k, i)']_vars

(* Every change published after the first start is overtaken by Bronze:    *)
(* its key's row becomes that of an event at least as new.                 *)
EventuallyCurrent ==
  \A k \in Keys, i \in 1..MaxEvents :
    (pc # "new" /\ i \in ChangesOf(k) /\ i > start[feed[i].part])
      ~> (i \in DOMAIN feed /\ AsNewAs(k, i))

-----------------------------------------------------------------------------
(* Bronze shows what a batch has brought from its MERGE on, not from its   *)
(* commit: the logged batch counts as soon as the rows are its image.      *)
Reached == IF Shows(ahead) THEN ahead ELSE done

(* The query implements a replica that moves forward batch by batch, also  *)
(* through crashes and batches run again.  (One lane per key.)             *)
Copy == INSTANCE Replica
  WITH begun <- pc # "new", origin <- start, upto <- Reached, table <- bronze

ImplementsReplica == Copy!Spec
=============================================================================
