-------------------------- MODULE IngestionProofs --------------------------
(***************************************************************************)
(* Safety of two of the jobs that fill Bronze; the SQL job has a module of *)
(* its own, WatermarkProofs.                                               *)
(*                                                                         *)
(* CdcMerge, for any tables, partitions, batch limits and number of        *)
(* crashes, as Debezium is deployed: a key's events go to one partition.   *)
(* Otherwise the newest event of a batch need not be the newest of its     *)
(* key.  Then the stream implements the replica of module Replica.  Events *)
(* may have one ts_ms: the image shows one of the newest, and a batch that *)
(* is run again may choose another.                                        *)
(*                                                                         *)
(* PagedIngestion, for any records, page size, configurations and number   *)
(* of failures.  A fetch promises what it has behind it: all of that was   *)
(* fetched, but for what moved there.  The lemmas on ranks say what page   *)
(* follows a position and what a change does to the list.                  *)
(***************************************************************************)
EXTENDS CdcMerge, PagedIngestion, TLAPS, FiniteSetTheorems, WellFoundedInduction

(* A finite set of numbers has a greatest one: the subsets of those above  *)
(* each member have a smallest.                                            *)
LEMMA GreatestExists ==
  ASSUME NEW S \in SUBSET Int, IsFiniteSet(S), S # {}
  PROVE  \E n \in S : \A m \in S : m <= n
  <1> DEFINE Above(n) == {m \in S : m > n}
             Tops     == {Above(n) : n \in S}
  <1>1. Tops \subseteq FiniteSubsetsOf(S) /\ Tops # {}
    <2>1. \A n \in S : Above(n) \in SUBSET S /\ IsFiniteSet(Above(n))
      BY FS_Subset
    <2> QED
      BY <2>1 DEF FiniteSubsetsOf
  <1>2. \E T \in Tops : \A U \in Tops : ~(<<U, T>> \in StrictSubsetOrdering(S))
    <2> HIDE DEF Tops
    <2> QED
      BY <1>1, FS_StrictSubsetOrderingWellFounded, WFMin
  <1>3. PICK n \in S : \A k \in S : ~(<<Above(k), Above(n)>> \in StrictSubsetOrdering(S))
    BY <1>2
  <1>4. ASSUME NEW m \in S, ~(m <= n) PROVE FALSE
    <2>1. m > n
      BY <1>4
    <2>2. Above(m) \subseteq Above(n) /\ m \in Above(n) /\ m \notin Above(m)
      <3>1. ~(m > m) /\ \A k \in S : k > m => k > n
        BY <2>1
      <3>2. Above(m) \subseteq Above(n)
        BY <3>1
      <3>3. m \in Above(n)
        BY <2>1
      <3>4. m \notin Above(m)
        BY <3>1
      <3> QED
        BY <3>2, <3>3, <3>4
    <2>3. <<Above(m), Above(n)>> \in StrictSubsetOrdering(S)
      <3> HIDE DEF Above
      <3>1. Above(m) # Above(n)
        BY <2>2
      <3>2. Above(m) \in SUBSET S /\ Above(n) \in SUBSET S
        BY DEF Above
      <3> QED
        BY <2>2, <3>1, <3>2 DEF StrictSubsetOrdering
    <2> QED
      BY <1>3, <2>3
  <1> QED
    BY <1>4

-----------------------------------------------------------------------------
(* CdcMerge.  Debezium's message key is the primary key, which the         *)
(* partitioner sends to one partition.                                     *)
Deployment == \A k \in Keys : \E p \in Partitions : Lanes[k] = {p}

-----------------------------------------------------------------------------
LEMMA EventAt ==
  ASSUME TypeOK, NEW i \in DOMAIN feed
  PROVE  /\ feed[i].key \in Keys /\ feed[i].part \in Partitions /\ feed[i].ts \in Nat
         /\ i \in Nat \ {0} /\ i <= Len(feed)
  <1>1. feed[i] \in Event /\ i \in 1..Len(feed) /\ Len(feed) \in Nat
    BY DEF TypeOK
  <1>2. QED
    BY <1>1 DEF Event

(* A published event is an event of its key, on a lane of its key, and not *)
(* older than the last.                                                    *)
LEMMA Published ==
  ASSUME TypeOK, NEW k \in Keys, Publish(k)
  PROVE  /\ feed' \in Seq(Event) /\ Len(feed') = Len(feed) + 1 /\ Len(feed) \in Nat
         /\ DOMAIN feed = 1..Len(feed) /\ DOMAIN feed' = 1..(Len(feed) + 1)
         /\ feed'[Len(feed) + 1] \in Event
         /\ \A i \in 1..Len(feed) : feed'[i] = feed[i]
         /\ feed'[Len(feed) + 1].part \in Lanes[feed'[Len(feed) + 1].key]
         /\ \A i \in 1..Len(feed) : i = Len(feed) => feed[i].ts <= feed'[Len(feed) + 1].ts
         /\ UNCHANGED <<start, done, ahead, pc, bronze, crashes>>
  <1>1. PICK op \in Possible(k) \cup {"x"}, p \in Lanes[k],
             ts \in (IF feed = <<>> THEN {0} ELSE {Now, Now + 1}) :
          feed' = Append(feed, [key |-> k, part |-> p, op |-> op, ts |-> ts])
    BY DEF Publish
  <1>2. feed \in Seq(Event) /\ Len(feed) \in Nat
    BY DEF TypeOK
  <1>3. op \in Supported \cup {"x"}
    <2>1. Possible(k) \subseteq Supported
      BY DEF Possible, Supported
    <2>2. QED
      BY <2>1
  <1>4. Now \in Nat /\ (Len(feed) > 0 => Now = feed[Len(feed)].ts)
    <2>1. CASE feed = <<>>
      BY <2>1 DEF Now
    <2>2. CASE feed # <<>>
      <3>1. Len(feed) \in DOMAIN feed
        BY <1>2, <2>2
      <3>2. QED
        BY <2>2, <3>1, EventAt DEF Now
    <2>3. QED
      BY <2>1, <2>2
  <1>5. p \in Partitions /\ ts \in Nat /\ (Len(feed) > 0 => ts >= Now)
    <2>1. ts \in Nat /\ (feed # <<>> => ts >= Now)
      BY <1>1, <1>4
    <2>2. Len(feed) > 0 => feed # <<>>
      BY <1>2
    <2>3. QED
      BY <2>1, <2>2, LanesAssumption
  <1>6. [key |-> k, part |-> p, op |-> op, ts |-> ts] \in Event
    BY <1>3, <1>5 DEF Event
  <1>7. /\ feed' \in Seq(Event) /\ Len(feed') = Len(feed) + 1
        /\ \A i \in 1..Len(feed) : feed'[i] = feed[i]
        /\ feed'[Len(feed) + 1] = [key |-> k, part |-> p, op |-> op, ts |-> ts]
    BY <1>1, <1>2, <1>6
  <1>8. DOMAIN feed = 1..Len(feed) /\ DOMAIN feed' = 1..(Len(feed) + 1)
    BY <1>2, <1>7
  <1>9. UNCHANGED <<start, done, ahead, pc, bronze, crashes>>
    BY DEF Publish
  <1>10. feed'[Len(feed) + 1].part \in Lanes[feed'[Len(feed) + 1].key]
    BY <1>7
  <1>11. ASSUME NEW i \in 1..Len(feed), i = Len(feed)
         PROVE  feed[i].ts <= feed'[Len(feed) + 1].ts
    BY <1>2, <1>4, <1>5, <1>7, <1>11
  <1>12. QED
    BY <1>2, <1>6, <1>7, <1>8, <1>9, <1>10, <1>11

LEMMA RowTypes ==
  ASSUME TypeOK, NEW i \in DOMAIN feed PROVE Row(i) \in BronzeRow
  BY DEF TypeOK, Row, BronzeRow

LEMMA TypeStep ==
  ASSUME TypeOK, [Next]_vars PROVE TypeOK'
  <1>1. ASSUME NEW k \in Keys, Publish(k) PROVE TypeOK'
    BY <1>1, Published DEF TypeOK
  <1>2. ASSUME FirstStart PROVE TypeOK'
    BY <1>2 DEF FirstStart, TypeOK
  <1>3. ASSUME Restart \/ CommitBatch \/ Crash \/ EmptyTrigger \/ UNCHANGED vars PROVE TypeOK'
    BY <1>3 DEF Restart, CommitBatch, Crash, EmptyTrigger, vars, TypeOK
  <1>4. ASSUME PlanBatch PROVE TypeOK'
    BY <1>4 DEF PlanBatch, TypeOK
  <1>5. ASSUME Merge PROVE TypeOK'
    <2>1. PICK pick \in [Keys -> 0..Len(feed)] :
            bronze' = [k \in Keys |-> IF pick[k] = 0 THEN bronze[k] ELSE Row(pick[k])]
      BY <1>5 DEF Merge
    <2>2. \A k \in Keys : pick[k] # 0 => pick[k] \in DOMAIN feed
      BY <2>1 DEF TypeOK
    <2>3. bronze' \in [Keys -> BronzeRow]
      BY <2>1, <2>2, RowTypes DEF TypeOK
    <2>4. QED
      BY <1>5, <2>3 DEF Merge, TypeOK
  <1>6. QED
    BY <1>1, <1>2, <1>3, <1>4, <1>5 DEF Next, Stream

(* Type correctness of the feed, the checkpoint and the Bronze table.      *)
THEOREM TypeCorrect == Spec => []TypeOK
  <1>1. Init => TypeOK
    BY DEF Init, TypeOK, BronzeRow, NoRow
  <1>2. QED
    BY <1>1, TypeStep, PTL DEF Spec

-----------------------------------------------------------------------------
(* A later event of the feed is not older, and every one is on a lane of   *)
(* its key.                                                                *)
FeedInv ==
  /\ \A i, j \in DOMAIN feed : i < j => feed[i].ts <= feed[j].ts
  /\ \A i \in DOMAIN feed : feed[i].part \in Lanes[feed[i].key]

(* The checkpoint: a batch starts where the last one ended, within the     *)
(* feed; between batches nothing is ahead.                                 *)
OffsetInv ==
  /\ \A p \in Partitions : start[p] <= done[p] /\ done[p] <= ahead[p] /\ ahead[p] <= Len(feed)
  /\ pc \in {"new", "idle"} => ahead = done
  /\ pc = "new" => done = start /\ \A k \in Keys : bronze[k] = NoRow

ImageInv ==
  /\ pc = "merged" => Shows(ahead)
  /\ Shows(done) \/ Shows(ahead)

CdcInv == TypeOK /\ FeedInv /\ OffsetInv /\ ImageInv

(* Offsets are positions of the feed.                                      *)
LEMMA Positions ==
  ASSUME TypeOK, NEW k, NEW from, NEW to
  PROVE  Between(k, from, to) \subseteq DOMAIN feed /\ DOMAIN feed \subseteq Nat \ {0}
  BY DEF Between, ChangesOf, TypeOK

(* On its one lane a key's events are read in the order of the feed: those *)
(* of the batch come after those read before.                              *)
LEMMA BatchIsNewer ==
  ASSUME Deployment, CdcInv, NEW k \in Keys,
         NEW i \in Between(k, start, done), NEW j \in Batch(k)
  PROVE  i < j
  <1>1. PICK p \in Partitions : Lanes[k] = {p}
    BY DEF Deployment
  <1>2. i \in DOMAIN feed /\ feed[i].key = k /\ i <= done[feed[i].part]
    BY DEF Between, ChangesOf
  <1>3. j \in DOMAIN feed /\ feed[j].key = k /\ done[feed[j].part] < j
    BY DEF Batch, Between, ChangesOf
  <1>4. feed[i].part = p /\ feed[j].part = p
    BY <1>1, <1>2, <1>3 DEF CdcInv, FeedInv
  <1>5. i \in Nat /\ j \in Nat /\ done[p] \in Nat
    BY <1>1, <1>2, <1>3 DEF CdcInv, TypeOK
  <1>6. QED
    BY <1>2, <1>3, <1>4, <1>5

(* What lies up to the end of the batch was read before or is in the batch. *)
LEMMA BatchCompletes ==
  ASSUME CdcInv, NEW k \in Keys
  PROVE  Between(k, start, ahead) = Between(k, start, done) \cup Batch(k)
  <1>1. \A i \in ChangesOf(k) :
          /\ i \in Nat /\ feed[i].part \in Partitions
    BY EventAt DEF CdcInv, ChangesOf
  <1>2. \A p \in Partitions : /\ start[p] \in Nat /\ done[p] \in Nat /\ ahead[p] \in Nat
                              /\ start[p] <= done[p] /\ done[p] <= ahead[p]
    BY DEF CdcInv, TypeOK, OffsetInv
  <1>3. QED
    BY <1>1, <1>2 DEF Between, Batch

(* No event of the key up to the end of the batch is newer than those with *)
(* the batch's newest time.                                                *)
LEMMA LatestIsNewest ==
  ASSUME Deployment, CdcInv, NEW k \in Keys, NEW i \in LatestOf(Batch(k)),
         NEW j \in Between(k, start, ahead)
  PROVE  feed[j].ts <= feed[i].ts
  <1>1. i \in Batch(k) /\ i \in DOMAIN feed /\ j \in DOMAIN feed
    BY Positions DEF LatestOf, CdcInv, Batch
  <1>2. CASE j \in Between(k, start, done)
    BY <1>1, <1>2, BatchIsNewer DEF CdcInv, FeedInv
  <1>3. CASE j \in Batch(k)
    BY <1>3 DEF LatestOf
  <1>4. QED
    BY <1>2, <1>3, BatchCompletes

(* What a MERGE writes for a key.                                          *)
Merged(k, i) ==
  IF Batch(k) = {} THEN bronze'[k] = bronze[k]
                   ELSE i \in LatestOf(Batch(k)) /\ bronze'[k] = Row(i)

LEMMA MergeWrites ==
  ASSUME TypeOK, Merge, NEW k \in Keys PROVE \E i : Merged(k, i)
  <1>1. PICK pick \in [Keys -> 0..Len(feed)] :
          /\ \A x \in Keys :
               IF Batch(x) = {} THEN pick[x] = 0 ELSE pick[x] \in LatestOf(Batch(x))
          /\ bronze' = [x \in Keys |-> IF pick[x] = 0 THEN bronze[x] ELSE Row(pick[x])]
    BY DEF Merge
  <1>2. CASE Batch(k) = {}
    BY <1>1, <1>2 DEF Merged
  <1>3. CASE Batch(k) # {}
    <2>1. pick[k] \in LatestOf(Batch(k))
      BY <1>1, <1>3
    <2>2. pick[k] # 0
      BY <2>1, Positions DEF LatestOf, Batch
    <2>3. Merged(k, pick[k])
      BY <1>1, <1>3, <2>1, <2>2 DEF Merged
    <2>4. QED
      BY <2>3
  <1>4. QED
    BY <1>2, <1>3

(* A batch merged for the first time or again leaves the image at its end. *)
LEMMA MergeShows ==
  ASSUME Deployment, CdcInv, Merge PROVE Shows(ahead)'
  <1>1. UNCHANGED <<feed, start, done, ahead>>
    BY DEF Merge
  <1>2. \A k \in Keys : Images(k, ahead)' = Images(k, ahead)
    BY <1>1 DEF Images, Between, ChangesOf, Row
  <1>3. SUFFICES ASSUME NEW k \in Keys PROVE bronze'[k] \in Images(k, ahead)
    BY <1>2 DEF Shows
  <1>4. PICK i : Merged(k, i)
    BY MergeWrites DEF CdcInv
  <1>5. CASE Batch(k) = {}
    <2>1. Between(k, start, ahead) = Between(k, start, done) /\ bronze'[k] = bronze[k]
      BY <1>4, <1>5, BatchCompletes DEF Merged
    <2>2. bronze[k] \in Images(k, done) \/ bronze[k] \in Images(k, ahead)
      BY DEF CdcInv, ImageInv, Shows
    <2>3. QED
      BY <2>1, <2>2 DEF Images
  <1>6. CASE Batch(k) # {}
    <2>1. i \in LatestOf(Batch(k)) /\ bronze'[k] = Row(i)
      BY <1>4, <1>6 DEF Merged
    <2>2. i \in Between(k, start, ahead)
      BY <2>1, BatchCompletes DEF LatestOf
    <2>3. \A j \in Between(k, start, ahead) : feed[j].ts <= feed[i].ts
      BY <2>1, LatestIsNewest
    <2>4. QED
      BY <2>1, <2>2, <2>3 DEF Images
  <1>7. QED
    BY <1>5, <1>6

-----------------------------------------------------------------------------
(* Events published later lie past every offset.                           *)
LEMMA PublishKeepsBetween ==
  ASSUME CdcInv, NEW k \in Keys, Publish(k), NEW x \in Keys,
         NEW upto \in [Partitions -> Nat], \A p \in Partitions : upto[p] <= Len(feed)
  PROVE  Between(x, start, upto)' = Between(x, start, upto)
  <1>1. /\ Len(feed') = Len(feed) + 1 /\ Len(feed) \in Nat /\ feed' \in Seq(Event)
        /\ \A i \in 1..Len(feed) : feed'[i] = feed[i]
        /\ start' = start
    BY Published DEF CdcInv
  <1>2. DOMAIN feed = 1..Len(feed) /\ DOMAIN feed' = 1..(Len(feed) + 1)
    BY <1>1 DEF CdcInv, TypeOK
  <1>3. feed'[Len(feed) + 1].part \in Partitions
    <2>1. feed'[Len(feed) + 1] \in Event
      BY <1>1, <1>2
    <2>2. QED
      BY <2>1 DEF Event
  <1>4. Len(feed) + 1 \notin Between(x, start, upto)'
    BY <1>1, <1>3 DEF Between
  <1>5. \A i \in 1..Len(feed) : i \in Between(x, start, upto)' <=> i \in Between(x, start, upto)
    BY <1>1, <1>2 DEF Between, ChangesOf
  <1>6. /\ Between(x, start, upto)' \subseteq 1..Len(feed) \cup {Len(feed) + 1}
        /\ Between(x, start, upto) \subseteq 1..Len(feed)
    <2>1. 1..(Len(feed) + 1) = 1..Len(feed) \cup {Len(feed) + 1}
      BY <1>1
    <2>2. QED
      BY <1>2, <2>1 DEF Between, ChangesOf
  <1>7. QED
    BY <1>4, <1>5, <1>6

LEMMA PublishKeepsFeed ==
  ASSUME CdcInv, NEW k \in Keys, Publish(k) PROVE FeedInv'
  <1>1. PICK n \in Nat : n = Len(feed)
    BY DEF CdcInv, TypeOK
  <1>2. /\ DOMAIN feed = 1..n /\ DOMAIN feed' = 1..(n + 1)
        /\ \A i \in 1..n : feed'[i] = feed[i]
        /\ feed'[n + 1] \in Event /\ feed'[n + 1].part \in Lanes[feed'[n + 1].key]
        /\ \A i \in 1..n : i = n => feed[i].ts <= feed'[n + 1].ts
    BY <1>1, Published DEF CdcInv
  <1>3. \A i \in 1..(n + 1) : i \in 1..n \/ i = n + 1
    OBVIOUS
  <1>4. \A i, j \in 1..n : i < j => feed[i].ts <= feed[j].ts
    BY <1>2 DEF CdcInv, FeedInv
  <1>5. ASSUME NEW i \in 1..n PROVE feed[i].ts <= feed'[n + 1].ts
    <2>1. n \in 1..n /\ feed[n].ts <= feed'[n + 1].ts
      BY <1>2, <1>5
    <2>2. feed[i].ts \in Nat /\ feed[n].ts \in Nat /\ feed'[n + 1].ts \in Nat
      BY <1>2, <2>1, EventAt DEF CdcInv, Event
    <2>3. i = n \/ feed[i].ts <= feed[n].ts
      BY <1>4, <2>1
    <2>4. QED
      BY <2>1, <2>2, <2>3
  <1>6. \A i, j \in 1..(n + 1) : i < j => i \in 1..n /\ (j \in 1..n \/ j = n + 1)
    OBVIOUS
  <1>7. \A i, j \in 1..(n + 1) : i < j => feed'[i].ts <= feed'[j].ts
    BY <1>2, <1>4, <1>5, <1>6
  <1>8. \A i \in 1..(n + 1) : feed'[i].part \in Lanes[feed'[i].key]
    BY <1>2, <1>3 DEF CdcInv, FeedInv
  <1>9. QED
    BY <1>2, <1>7, <1>8 DEF FeedInv

(* ... and change no image up to one.                                      *)
LEMMA PublishKeepsImages ==
  ASSUME CdcInv, NEW k \in Keys, Publish(k), NEW x \in Keys,
         NEW upto \in [Partitions -> Nat], \A p \in Partitions : upto[p] <= Len(feed)
  PROVE  Images(x, upto)' = Images(x, upto)
  <1> DEFINE seen == Between(x, start, upto)
  <1>1. Between(x, start, upto)' = seen
    BY PublishKeepsBetween
  <1>2. \A i \in seen : feed'[i] = feed[i]
    <2>1. \A i \in DOMAIN feed : feed'[i] = feed[i]
      BY Published DEF CdcInv
    <2>2. QED
      BY <2>1, Positions DEF CdcInv
  <1>3. \A i \in seen : Row(i)' = Row(i)
    BY <1>2 DEF Row
  <1>4. {n \in seen : \A j \in seen : feed'[j].ts <= feed'[n].ts}
          = {n \in seen : \A j \in seen : feed[j].ts <= feed[n].ts}
    BY <1>2
  <1>5. QED
    BY <1>1, <1>3, <1>4 DEF Images

LEMMA PublishKeepsShows ==
  ASSUME CdcInv, NEW k \in Keys, Publish(k),
         NEW upto \in [Partitions -> Nat], \A p \in Partitions : upto[p] <= Len(feed)
  PROVE  Shows(upto)' <=> Shows(upto)
  <1>1. bronze' = bronze
    BY DEF Publish
  <1>2. QED
    BY <1>1, PublishKeepsImages DEF Shows

LEMMA CdcStep ==
  ASSUME Deployment, CdcInv, [Next]_vars PROVE CdcInv'
  <1>0. TypeOK /\ TypeOK'
    BY TypeStep DEF CdcInv
  <1> USE DEF CdcInv
  <1>1. ASSUME NEW k \in Keys, Publish(k) PROVE CdcInv'
    <2>1. /\ feed' \in Seq(Event) /\ Len(feed') = Len(feed) + 1 /\ Len(feed) \in Nat
          /\ UNCHANGED <<start, done, ahead, pc, bronze, crashes>>
      BY <1>0, <1>1, Published
    <2>3. FeedInv'
      BY <1>1, PublishKeepsFeed
    <2>4. OffsetInv'
      BY <1>0, <2>1 DEF OffsetInv, TypeOK
    <2>5. ImageInv'
      <3>1. \A upto \in {done, ahead} :
              upto \in [Partitions -> Nat] /\ \A p \in Partitions : upto[p] <= Len(feed)
        BY <2>1 DEF OffsetInv, TypeOK
      <3>2. (Shows(done) => Shows(done)') /\ (Shows(ahead) => Shows(ahead)')
        <4>1. ASSUME NEW upto, upto \in {done, ahead}, Shows(upto) PROVE Shows(upto)'
          BY <1>1, <3>1, <4>1, PublishKeepsShows
        <4>2. Shows(done) => Shows(done)'
          BY <2>1, <4>1 DEF Shows
        <4>3. Shows(ahead) => Shows(ahead)'
          BY <2>1, <4>1 DEF Shows
        <4>4. QED
          BY <4>2, <4>3
      <3>3. QED
        BY <2>1, <3>2 DEF ImageInv
    <2>6. QED
      BY <1>0, <2>3, <2>4, <2>5
  <1>2. ASSUME FirstStart PROVE CdcInv'
    <2>1. /\ start' = [p \in Partitions |-> Len(feed)] /\ done' = start' /\ ahead' = start'
          /\ pc = "new" /\ pc' = "idle" /\ UNCHANGED <<feed, bronze>>
      BY <1>2 DEF FirstStart
    <2>2. Len(feed) \in Nat
      BY DEF TypeOK
    <2>3. OffsetInv' /\ FeedInv'
      BY <2>1, <2>2 DEF OffsetInv, FeedInv
    <2>4. \A k \in Keys : Between(k, start, done)' = {}
      <3>1. \A k \in Keys : \A i \in ChangesOf(k)' :
              i \in Nat /\ feed'[i].part \in Partitions
        BY <1>0, <2>1, EventAt DEF ChangesOf
      <3>2. QED
        BY <2>1, <2>2, <3>1 DEF Between
    <2>5. ImageInv'
      BY <2>1, <2>4 DEF ImageInv, Shows, Images, OffsetInv
    <2>6. QED
      BY <1>0, <2>3, <2>5
  <1>3. ASSUME UNCHANGED <<feed, start, bronze>>,
               UNCHANGED <<done, ahead>> \/ (Shows(ahead) /\ done' = ahead /\ ahead' = ahead)
        PROVE  FeedInv' /\ (Shows(done) \/ Shows(ahead))' /\ (Shows(ahead) => Shows(ahead)')
    <2>1. FeedInv'
      BY <1>3 DEF FeedInv
    <2>2. Shows(ahead) => Shows(ahead)'
      BY <1>3 DEF Shows, Images, Between, ChangesOf, Row
    <2>3. CASE UNCHANGED <<done, ahead>>
      <3>1. Shows(done) => Shows(done)'
        BY <1>3, <2>3 DEF Shows, Images, Between, ChangesOf, Row
      <3>2. Shows(done) \/ Shows(ahead)
        BY DEF ImageInv
      <3>3. QED
        BY <2>1, <2>2, <3>1, <3>2
    <2>4. CASE Shows(ahead) /\ done' = ahead /\ ahead' = ahead
      BY <2>1, <2>2, <2>4
    <2>5. QED
      BY <1>3, <2>3, <2>4
  <1>4. ASSUME Restart \/ Crash \/ EmptyTrigger \/ UNCHANGED vars PROVE CdcInv'
    <2>1. UNCHANGED <<feed, start, bronze, done, ahead>>
      BY <1>4 DEF Restart, Crash, EmptyTrigger, vars
    <2>2. /\ pc' = "merged" => pc = "merged"
          /\ pc' = "new" => pc = "new"
          /\ pc' = "idle" => pc = "idle" \/ ahead = done
      BY <1>4 DEF Restart, Crash, EmptyTrigger, vars
    <2>3. QED
      BY <1>0, <1>3, <2>1, <2>2 DEF OffsetInv, ImageInv
  <1>5. ASSUME CommitBatch PROVE CdcInv'
    <2>1. /\ UNCHANGED <<feed, start, bronze>> /\ pc = "merged" /\ pc' = "idle"
          /\ done' = ahead /\ ahead' = ahead
      BY <1>5 DEF CommitBatch
    <2>2. OffsetInv'
      BY <1>0, <2>1 DEF OffsetInv, TypeOK
    <2>3. QED
      BY <1>0, <1>3, <2>1, <2>2 DEF ImageInv
  <1>6. ASSUME PlanBatch PROVE CdcInv'
    <2>1. /\ UNCHANGED <<feed, start, bronze, done>> /\ pc = "idle" /\ pc' = "planned"
          /\ \A p \in Partitions : done[p] <= ahead'[p] /\ ahead'[p] <= Len(feed)
      BY <1>6 DEF PlanBatch, TypeOK
    <2>2. OffsetInv' /\ FeedInv'
      BY <2>1 DEF OffsetInv, FeedInv
    <2>3. Shows(done)
      BY <2>1 DEF OffsetInv, ImageInv
    <2>4. Shows(done)'
      BY <2>1, <2>3 DEF Shows, Images, Between, ChangesOf, Row
    <2>5. QED
      BY <1>0, <2>1, <2>2, <2>4 DEF ImageInv
  <1>7. ASSUME Merge PROVE CdcInv'
    <2>1. UNCHANGED <<feed, start, done, ahead>> /\ pc' = "merged"
      BY <1>7 DEF Merge
    <2>2. OffsetInv' /\ FeedInv'
      BY <2>1 DEF OffsetInv, FeedInv
    <2>3. QED
      BY <1>0, <1>7, <2>2, MergeShows DEF ImageInv
  <1>8. QED
    BY <1>1, <1>2, <1>4, <1>5, <1>6, <1>7 DEF Next, Stream

LEMMA Cdc == ASSUME Deployment PROVE Spec => []CdcInv
  <1>1. Init => CdcInv
    <2>1. ASSUME Init PROVE TypeOK /\ FeedInv /\ OffsetInv /\ Shows(done) /\ pc # "merged"
      <3>1. feed = <<>> /\ DOMAIN feed = {} /\ Len(feed) = 0
        BY <2>1 DEF Init
      <3>2. QED
        BY <2>1, <3>1 DEF Init, TypeOK, BronzeRow, NoRow, FeedInv, OffsetInv, Shows, Images, Between, ChangesOf
    <2>2. QED
      BY <2>1 DEF CdcInv, ImageInv
  <1>2. CdcInv /\ [Next]_vars => CdcInv'
    BY CdcStep
  <1>3. QED
    BY <1>1, <1>2, PTL DEF Spec

(* Bronze is the image of a batch boundary for all keys at once, however   *)
(* many batches were cut off and run again.                                *)
THEOREM LatestWins == ASSUME Deployment PROVE Spec => []LatestEventWins
  <1>1. CdcInv => LatestEventWins
    BY DEF CdcInv, ImageInv, LatestEventWins
  <1>2. QED
    BY <1>1, Cdc, PTL

(* What a row shows is an event of the feed.                               *)
LEMMA ShownEvent ==
  ASSUME CdcInv, NEW k \in Keys, bronze[k] # NoRow
  PROVE  \E j \in Between(k, start, done) \cup Between(k, start, ahead) : bronze[k] = Row(j)
  BY DEF CdcInv, ImageInv, Shows, Images

(* A batch that is run again puts no older event over a newer one, and no  *)
(* row disappears.                                                         *)
THEOREM NoStepBack == ASSUME Deployment PROVE Spec => NeverGoesBack
  <1>1. ASSUME CdcInv, [Next]_vars
        PROVE  [\A k \in Keys, i \in DOMAIN feed : AsNewAs(k, i) => AsNewAs(k, i)']_vars
    <2>1. SUFFICES ASSUME NEW k \in Keys, NEW e \in DOMAIN feed, AsNewAs(k, e)
                   PROVE  AsNewAs(k, e)'
      OBVIOUS
    <2>2. PICK j \in Between(k, start, done) \cup Between(k, start, ahead) : bronze[k] = Row(j)
      BY <1>1, <2>1, ShownEvent DEF AsNewAs
    <2>3. j \in DOMAIN feed /\ bronze[k].event = j /\ feed[e].ts <= feed[j].ts
      BY <1>1, <2>1, <2>2, Positions DEF Row, AsNewAs, CdcInv
    <2>4. CASE bronze' = bronze /\ feed' = feed
      BY <2>1, <2>4 DEF AsNewAs
    <2>5. ASSUME NEW x \in Keys, Publish(x) PROVE AsNewAs(k, e)'
      <3>1. bronze' = bronze /\ feed'[e] = feed[e] /\ feed'[j] = feed[j]
        BY <1>1, <2>3, <2>5, Published DEF CdcInv
      <3>2. QED
        BY <2>1, <2>3, <3>1 DEF AsNewAs
    <2>6. CASE Merge
      <3>1. PICK i : Merged(k, i)
        BY <1>1, <2>6, MergeWrites DEF CdcInv
      <3>2. feed' = feed
        BY <2>6 DEF Merge
      <3>3. CASE Batch(k) = {}
        BY <2>1, <3>1, <3>2, <3>3 DEF Merged, AsNewAs
      <3>4. CASE Batch(k) # {}
        <4>1. i \in LatestOf(Batch(k)) /\ bronze'[k].event = i
          BY <3>1, <3>4 DEF Merged, Row
        <4>2. feed[j].ts <= feed[i].ts
          BY <1>1, <2>2, <4>1, LatestIsNewest, BatchCompletes
        <4>3. i \in DOMAIN feed /\ i # 0
          BY <1>1, <4>1, Positions DEF LatestOf, Batch, CdcInv
        <4>4. bronze'[k] # NoRow
          BY <4>1, <4>3 DEF NoRow
        <4>5. feed[e].ts \in Nat /\ feed[j].ts \in Nat /\ feed[i].ts \in Nat
          BY <1>1, <2>1, <2>3, <4>3, EventAt DEF CdcInv
        <4>6. feed[e].ts <= feed[i].ts
          BY <2>3, <4>2, <4>5
        <4>7. QED
          BY <3>2, <4>1, <4>4, <4>6 DEF AsNewAs
      <3>5. QED
        BY <3>3, <3>4
    <2>7. QED
      BY <1>1, <2>4, <2>5, <2>6 DEF Next, Stream, FirstStart, Restart, PlanBatch, CommitBatch,
                                    Crash, EmptyTrigger, vars
  <1>2. QED
    BY <1>1, Cdc, PTL DEF Spec, NeverGoesBack

-----------------------------------------------------------------------------
(* The replica that CdcMerge implements.  The two modules read the same    *)
(* rows off the feed.                                                      *)
LEMMA SameRows ==
  ASSUME TypeOK, NEW k, NEW at PROVE Copy!RowsOf(k, at) = Images(k, at)
  <1>1. \A i \in DOMAIN feed : feed[i].op # "x" <=> feed[i].op \in Supported
    <2>1. \A i \in DOMAIN feed : feed[i] \in Event
      BY DEF TypeOK
    <2>2. QED
      BY <2>1 DEF Event, Supported
  <1>2. Copy!Seen(k, at) = Between(k, start, at)
    BY <1>1 DEF Copy!Seen, Between, ChangesOf
  <1>3. QED
    BY <1>2 DEF Copy!RowsOf, Copy!Nothing, Images, NoRow, Row

ReachedOK ==
  /\ Shows(Reached) /\ Reached \in {done, ahead}
  /\ Shows(ahead) => Reached = ahead
  /\ pc = "merged" => Shows(ahead)

LEMMA ReachedShows == CdcInv => ReachedOK
  BY DEF Reached, ReachedOK, CdcInv, ImageInv

LEMMA ReachedShowsNext == CdcInv' => ReachedOK'
  BY ReachedShows, PTL

(* What moves is the whole table, to rows at offsets that are not earlier. *)
LEMMA MoveAdvances ==
  ASSUME CdcInv, CdcInv', UNCHANGED <<feed, start>>, pc # "new", pc' # "new",
         \A p \in Partitions : Reached[p] <= Reached'[p] /\ Reached'[p] <= Len(feed)
  PROVE  Copy!Advance
  <1>1. Reached' \in [Partitions -> Nat] /\ Len(feed) \in Nat
    BY ReachedShowsNext DEF ReachedOK, CdcInv, TypeOK
  <1>2. Reached' \in [Partitions -> 0..Len(feed)]
    BY <1>1
  <1>3. DOMAIN bronze' = Keys
    BY DEF CdcInv, TypeOK
  <1>4. \A k \in Keys : bronze'[k] \in Images(k, Reached')
    <2>1. Shows(Reached)'
      BY ReachedShowsNext DEF ReachedOK
    <2>2. ASSUME NEW k \in Keys PROVE Images(k, Reached)' = Images(k, Reached')
      <3>1. Between(k, start, Reached)' = Between(k, start, Reached')
        BY DEF Between, ChangesOf
      <3>2. QED
        BY <3>1 DEF Images, Row
    <2>3. QED
      BY <2>1, <2>2 DEF Shows
  <1>5. \A k \in Keys : Copy!RowsOf(k, Reached') = Images(k, Reached')
    BY SameRows DEF CdcInv
  <1>6. QED
    BY <1>2, <1>3, <1>4, <1>5 DEF Copy!Advance

LEMMA ReplicaStep ==
  ASSUME Deployment, CdcInv, [Next]_vars PROVE [Copy!Next]_(Copy!vars)
  <1>0. CdcInv'
    BY CdcStep
  <1>a. Shows(Reached) /\ Reached \in {done, ahead}
    BY ReachedShows DEF ReachedOK
  <1>b. ASSUME UNCHANGED <<feed, start, done, ahead, bronze>>, pc # "new" <=> pc' # "new"
        PROVE  UNCHANGED Copy!vars
    BY <1>b DEF Copy!vars, Reached, Shows, Images, Between, ChangesOf, Row
  <1>1. ASSUME NEW k \in Keys, Publish(k) PROVE Copy!Publish
    <2>1. /\ Len(feed') > Len(feed) /\ \A i \in DOMAIN feed : feed'[i] = feed[i]
          /\ UNCHANGED <<start, done, ahead, pc, bronze>>
      BY <1>1, Published DEF CdcInv
    <2>2. ahead \in [Partitions -> Nat] /\ \A p \in Partitions : ahead[p] <= Len(feed)
      BY DEF CdcInv, TypeOK, OffsetInv
    <2>3. Shows(ahead)' <=> Shows(ahead)
      <3>1. \A upto : upto = ahead => (Shows(upto)' <=> Shows(upto))
        BY <1>1, <2>2, PublishKeepsShows
      <3>2. QED
        BY <2>1, <3>1 DEF Shows
    <2>4. Reached' = Reached
      BY <2>1, <2>3 DEF Reached
    <2>5. QED
      BY <2>1, <2>4 DEF Copy!Publish
  <1>2. ASSUME FirstStart PROVE Copy!Begin
    <2>1. /\ start' = [p \in Partitions |-> Len(feed)] /\ done' = start' /\ ahead' = start'
          /\ pc = "new" /\ pc' = "idle" /\ UNCHANGED <<feed, bronze>>
      BY <1>2 DEF FirstStart
    <2>2. Reached' = start'
      BY <2>1 DEF Reached
    <2>3. QED
      BY <2>1, <2>2 DEF Copy!Begin, Copy!EndOfFeed
  <1>3. ASSUME Restart \/ Crash \/ EmptyTrigger \/ UNCHANGED vars PROVE UNCHANGED Copy!vars
    BY <1>3, <1>b DEF Restart, Crash, EmptyTrigger, vars
  <1>4. ASSUME CommitBatch PROVE UNCHANGED Copy!vars
    <2>1. /\ UNCHANGED <<feed, start, bronze>> /\ pc = "merged" /\ pc' = "idle"
          /\ done' = ahead /\ ahead' = ahead
      BY <1>4 DEF CommitBatch
    <2>2. Reached = ahead /\ Reached' = ahead
      BY <1>0, <2>1, ReachedShows, ReachedShowsNext DEF ReachedOK, Reached
    <2>3. QED
      BY <2>1, <2>2 DEF Copy!vars
  <1>5. ASSUME PlanBatch PROVE Copy!Advance
    <2>1. /\ UNCHANGED <<feed, start, bronze, done>> /\ pc = "idle" /\ pc' = "planned"
          /\ \A p \in Partitions : done[p] <= ahead'[p] /\ ahead'[p] <= Len(feed)
      BY <1>5 DEF PlanBatch, CdcInv, TypeOK
    <2>2. Reached = done
      BY <1>a, <2>1 DEF CdcInv, OffsetInv
    <2>3. Reached' \in {done, ahead'}
      BY <2>1 DEF Reached
    <2>4. \A p \in Partitions : done[p] <= done[p] /\ done[p] <= Len(feed)
      BY DEF CdcInv, OffsetInv, TypeOK
    <2>5. \A p \in Partitions : Reached[p] <= Reached'[p] /\ Reached'[p] <= Len(feed)
      BY <2>1, <2>2, <2>3, <2>4
    <2>6. QED
      BY <1>0, <2>1, <2>5, MoveAdvances
  <1>6. ASSUME Merge PROVE Copy!Advance
    <2>1. UNCHANGED <<feed, start, done, ahead>> /\ pc = "planned" /\ pc' = "merged"
      BY <1>6 DEF Merge
    <2>2. Reached' = ahead
      BY <1>0, <2>1, ReachedShowsNext DEF ReachedOK
    <2>3. \A p \in Partitions : done[p] <= ahead[p] /\ ahead[p] <= ahead[p] /\ ahead[p] <= Len(feed)
      BY DEF CdcInv, OffsetInv, TypeOK
    <2>4. \A p \in Partitions : Reached[p] <= Reached'[p] /\ Reached'[p] <= Len(feed)
      BY <1>a, <2>2, <2>3
    <2>5. QED
      BY <1>0, <2>1, <2>4, MoveAdvances
  <1>7. QED
    BY <1>1, <1>2, <1>3, <1>4, <1>5, <1>6 DEF Next, Stream, Copy!Next

(* The stream is a replica that only moves forward, batch by batch, for    *)
(* all keys at once; what a crash makes it run again does not show.        *)
THEOREM ReplicaImplemented == ASSUME Deployment PROVE Spec => ImplementsReplica
  <1>1. Init => Copy!Init
    BY DEF Init, NoRow, Reached, Copy!Init, Copy!Origin, Copy!Nothing
  <1>2. CdcInv /\ [Next]_vars => [Copy!Next]_(Copy!vars)
    BY ReplicaStep
  <1>3. QED
    BY <1>1, <1>2, Cdc, PTL DEF Spec, ImplementsReplica, Copy!Spec

-----------------------------------------------------------------------------
(* PagedIngestion.  Records are changed at different moments.              *)
TimesDiffer == \A q, r \in Records : time[q] = time[r] /\ q # r => time[q] = 0

ListInv == ApiTypeOK /\ TimesDiffer

(* What Max0 gives of a finite set of numbers.                             *)
LEMMA Max0Greatest ==
  ASSUME NEW S \in SUBSET Int, IsFiniteSet(S)
  PROVE  /\ S = {} => Max0(S) = 0
         /\ S # {} => Max0(S) \in S
         /\ \A m \in S : m <= Max0(S)
  BY GreatestExists DEF Max0

(* The maximum of the watermark found and the one recorded.                *)
LEMMA Max0OfTwo ==
  ASSUME NEW m \in Int, NEW n \in Int
  PROVE  Max0({m, n}) \in {m, n} /\ m <= Max0({m, n}) /\ n <= Max0({m, n})
  <1>1. IsFiniteSet({m, n})
    <2>1. IsFiniteSet({m}) /\ {m, n} = {m} \cup {n}
      BY FS_Singleton
    <2> QED
      BY <2>1, FS_AddElement
  <1> QED
    BY <1>1, Max0Greatest

-----------------------------------------------------------------------------
(* Records are listed by distinct positive keys.                           *)
LEMMA SortKeyType ==
  ASSUME ListInv
  PROVE  /\ Listed \subseteq Records
         /\ \A r \in Listed : SortKey(r) \in Nat \ {0} /\ time[r] \in Nat \ {0}
         /\ \A q, r \in Listed : SortKey(q) = SortKey(r) => q = r
  <1>1. \A r \in Listed : r \in Records /\ r \in Nat \ {0} /\ time[r] \in Nat \ {0}
    BY RecordAssumption, TimeAssumption DEF Listed, ListInv, ApiTypeOK
  <1>2. CASE source.order = "key"
    BY <1>1, <1>2 DEF SortKey
  <1>3. CASE source.order # "key"
    BY <1>1, <1>3 DEF SortKey, ListInv, TimesDiffer
  <1> QED
    BY <1>1, <1>2, <1>3

LEMMA CountType ==
  ASSUME ListInv, NEW k \in Int
  PROVE  /\ UpTo(k) \subseteq Listed /\ IsFiniteSet(UpTo(k)) /\ Cardinality(UpTo(k)) \in Nat
  <1>1. UpTo(k) \in SUBSET Records /\ UpTo(k) \subseteq Listed
    BY DEF UpTo, Listed
  <1>2. IsFiniteSet(UpTo(k))
    BY <1>1, RecordAssumption, FS_Subset
  <1> QED
    BY <1>1, <1>2, FS_CardinalityType

(* The further into the list, the more records are counted.                *)
LEMMA CountGrows ==
  ASSUME ListInv, NEW j \in Int, NEW k \in Int, j <= k
  PROVE  /\ Cardinality(UpTo(j)) <= Cardinality(UpTo(k))
         /\ \A r \in Listed : j < SortKey(r) /\ SortKey(r) <= k
                => Cardinality(UpTo(j)) < Cardinality(UpTo(k))
  <1>1. UpTo(j) \in SUBSET UpTo(k)
    BY SortKeyType DEF UpTo
  <1>2. /\ Cardinality(UpTo(j)) <= Cardinality(UpTo(k))
        /\ Cardinality(UpTo(j)) = Cardinality(UpTo(k)) => UpTo(j) = UpTo(k)
    BY <1>1, CountType, FS_Subset
  <1>3. ASSUME NEW r \in Listed, j < SortKey(r), SortKey(r) <= k
        PROVE  Cardinality(UpTo(j)) < Cardinality(UpTo(k))
    <2>1. r \in UpTo(k) /\ r \notin UpTo(j)
      BY <1>3, SortKeyType DEF UpTo
    <2>2. UpTo(j) # UpTo(k)
      BY <2>1
    <2> QED
      BY <1>2, <2>2, CountType
  <1> QED
    BY <1>2, <1>3

(* Ranks follow the keys, so no two records have the same.                 *)
LEMMA RankOrder ==
  ASSUME ListInv, NEW q \in Listed, NEW r \in Listed
  PROVE  /\ Rank(r) \in Nat /\ Rank(r) >= 1
         /\ SortKey(q) <= SortKey(r) => Rank(q) <= Rank(r)
         /\ SortKey(q) < SortKey(r) => Rank(q) < Rank(r)
         /\ Rank(q) = Rank(r) => q = r
  <1>1. SortKey(q) \in Int /\ SortKey(r) \in Int /\ SortKey(r) >= 1
    BY SortKeyType
  <1>2. Rank(r) \in Nat /\ Rank(q) \in Nat
    BY <1>1, CountType DEF Rank
  <1>3. SortKey(q) <= SortKey(r) => Rank(q) <= Rank(r)
    BY <1>1, CountGrows DEF Rank
  <1>4. SortKey(q) < SortKey(r) => Rank(q) < Rank(r)
    BY <1>1, CountGrows DEF Rank
  <1>5. SortKey(r) < SortKey(q) => Rank(r) < Rank(q)
    BY <1>1, CountGrows DEF Rank
  <1>6. Rank(r) >= 1
    <2>1. Cardinality(UpTo(0)) < Rank(r)
      BY <1>1, CountGrows DEF Rank
    <2> QED
      BY <1>2, <2>1, CountType
  <1>7. Rank(q) = Rank(r) => q = r
    BY <1>1, <1>2, <1>4, <1>5, SortKeyType
  <1> QED
    BY <1>2, <1>3, <1>4, <1>6, <1>7

(* No place in the list is empty: the ranks up to a record's are taken.    *)
LEMMA RanksAreTaken ==
  ASSUME ListInv, NEW r \in Listed, NEW m \in 1..Rank(r)
  PROVE  \E q \in Listed : Rank(q) = m
  <1> DEFINE U == UpTo(SortKey(r))
             f == [q \in U |-> Rank(q)]
  <1>1. U \subseteq Listed /\ SortKey(r) \in Int
    BY SortKeyType DEF UpTo
  <1>2. \A q \in U : Rank(q) \in 1..Rank(r)
    BY <1>1, RankOrder DEF UpTo
  <1>3. f \in Injection(U, 1..Rank(r))
    BY <1>1, <1>2, RankOrder DEF Injection, IsInjective
  <1>4. Rank(r) \in Nat /\ Rank(r) >= 1 /\ Cardinality(U) = Rank(r)
    BY RankOrder DEF Rank
  <1>5. IsFiniteSet(1..Rank(r)) /\ Cardinality(1..Rank(r)) = Rank(r)
    BY <1>4, FS_Interval
  <1>6. f \in Surjection(U, 1..Rank(r))
    <2> HIDE DEF f, U
    <2> QED
      BY <1>3, <1>4, <1>5, FS_Injection
  <1> QED
    BY <1>1, <1>6 DEF Surjection

(* A page that is not full is the last: nothing is listed after it.        *)
LEMMA ShortPageIsLast ==
  ASSUME ListInv, Position \in Nat, ~Full, NEW r \in Listed
  PROVE  Rank(r) <= PageEnd
  <1> SUFFICES ASSUME Rank(r) > PageEnd PROVE FALSE
    BY RankOrder, PageAssumption DEF PageEnd
  <1> DEFINE Places == (Position + 1)..PageEnd
             f      == [q \in Page |-> Rank(q)]
  <1>1. PageSize \in Nat /\ PageSize >= 1 /\ PageEnd \in Nat /\ Rank(r) \in Nat
    BY PageAssumption, RankOrder DEF PageEnd
  <1>2. \A q \in Page : q \in Listed /\ Rank(q) \in Places
    BY <1>1, RankOrder DEF Page
  <1>3. f \in Injection(Page, Places)
    BY <1>2, RankOrder DEF Injection, IsInjective
  <1>4. \A m \in Places : \E q \in Page : Rank(q) = m
    <2> SUFFICES ASSUME NEW m \in Places PROVE \E q \in Page : Rank(q) = m
      OBVIOUS
    <2>1. m \in 1..Rank(r)
      BY <1>1
    <2>2. PICK q \in Listed : Rank(q) = m
      BY <2>1, RanksAreTaken
    <2> QED
      BY <1>1, <2>2 DEF Page
  <1>5. f \in Surjection(Page, Places)
    BY <1>3, <1>4 DEF Injection, Surjection
  <1>6. IsFiniteSet(Places) /\ Cardinality(Places) = PageSize
    <2>1. /\ IsFiniteSet(Places)
          /\ Cardinality(Places) = IF Position + 1 > PageEnd THEN 0 ELSE PageEnd - (Position + 1) + 1
      <3>1. Position + 1 \in Int /\ PageEnd \in Int
        BY <1>1
      <3> QED
        BY <3>1, FS_Interval
    <2> QED
      BY <1>1, <2>1 DEF PageEnd
  <1>7. Cardinality(Page) = PageSize
    <2> HIDE DEF f, Places
    <2> QED
      BY <1>3, <1>5, <1>6, FS_Injection
  <1> QED
    BY <1>7 DEF Full

-----------------------------------------------------------------------------
(* The part of the list a fetch has behind it.                             *)
Behind(r) == IF linked THEN SortKey(r) <= after ELSE Rank(r) <= offset

(* Nothing is newer than the clock, nor a run's start than the watermark.  *)
InThePast ==
  /\ \A r \in Records : time[r] <= clock
  /\ \A v \in fetched : v.time <= clock
  /\ source.order = "time" => after <= clock
  /\ since <= saved

(* Links are followed only where they are sent; a verdict comes last.      *)
Progress ==
  /\ linked => source.paging \notin {"offset_limit", "skip"}
  /\ step = "idle" => offset = 0 /\ ~linked /\ since = 0 /\ after = 0 /\ fetched = {}
  /\ step # "end" => verdict = Unfinished

ApiTypeInv == ApiTypeOK /\ TimesDiffer /\ InThePast /\ Progress

LEMMA SourceFields ==
  ASSUME ApiTypeOK
  PROVE  /\ source \in Source /\ source.order \in {"key", "time"}
         /\ source.incremental \in BOOLEAN /\ source.column \in BOOLEAN
         /\ source.job \in {"rest", "odata"}
         /\ source.job = "odata" <=> source.paging \in {"next_link", "skip"}
  BY SourceAssumption DEF ApiTypeOK, Source

LEMMA PositionType == ListInv => Position \in Nat
  <1> SUFFICES ASSUME ListInv PROVE Position \in Nat
    OBVIOUS
  <1>1. offset \in Nat /\ after \in Int
    BY DEF ListInv, ApiTypeOK
  <1> QED
    BY <1>1, CountType DEF Position

(* Behind it are the places up to the next page's.                         *)
LEMMA BehindIsRank ==
  ASSUME ListInv, NEW r \in Listed
  PROVE  Behind(r) <=> Rank(r) <= Position
  <1>1. SortKey(r) \in Int /\ after \in Int /\ Rank(r) \in Nat /\ Cardinality(UpTo(after)) \in Nat
    BY SortKeyType, RankOrder, CountType DEF ListInv, ApiTypeOK
  <1>2. SortKey(r) <= after => Rank(r) <= Cardinality(UpTo(after))
    BY <1>1, CountGrows DEF Rank
  <1>3. after < SortKey(r) => Cardinality(UpTo(after)) < Rank(r)
    BY <1>1, CountGrows DEF Rank
  <1> QED
    BY <1>1, <1>2, <1>3 DEF Behind, Position

LEMMA NothingBehindAtFirst ==
  /\ ListInv /\ offset = 0 /\ ~linked => \A q \in Listed : ~Behind(q)
  /\ (ListInv /\ offset = 0 /\ ~linked)' => (\A q \in Listed : ~Behind(q))'
  <1>1. ListInv /\ offset = 0 /\ ~linked => \A q \in Listed : ~Behind(q)
    BY RankOrder DEF Behind
  <1> QED
    BY <1>1, PTL

(* The greatest key on a page.                                             *)
LEMMA PageKeys ==
  ASSUME ListInv
  PROVE  LET OnPage == {SortKey(r) : r \in Page}
         IN  /\ Max0(OnPage) \in Nat
             /\ \A r \in Page : SortKey(r) <= Max0(OnPage)
             /\ Page # {} => \E r \in Page : SortKey(r) = Max0(OnPage)
             /\ Page = {} => Max0(OnPage) = 0
  <1> DEFINE K == {SortKey(r) : r \in Page}
             f == [r \in Page |-> SortKey(r)]
  <1>1. Page \in SUBSET Records /\ Page \subseteq Listed
    BY DEF Page, Listed
  <1>2. IsFiniteSet(Page)
    BY <1>1, RecordAssumption, FS_Subset
  <1>3. f \in Surjection(Page, K)
    BY DEF Surjection
  <1>4. IsFiniteSet(K)
    <2> HIDE DEF f, K
    <2> QED
      BY <1>2, <1>3, FS_Surjection
  <1>5. K \in SUBSET Int /\ K \subseteq Nat
    BY <1>1, SortKeyType
  <1>6. /\ K = {} => Max0(K) = 0
        /\ K # {} => Max0(K) \in K
        /\ \A m \in K : m <= Max0(K)
    <2> HIDE DEF K
    <2> QED
      BY <1>4, <1>5, Max0Greatest
  <1>7. PICK k : /\ k = Max0(K)
                 /\ K = {} => k = 0
                 /\ K # {} => k \in K
                 /\ \A m \in K : m <= k
    BY <1>6
  <1>8. \A r \in Page : SortKey(r) <= k
    BY <1>7
  <1>9. Page # {} => k \in Nat /\ \E r \in Page : SortKey(r) = k
    BY <1>5, <1>7
  <1>10. Page = {} => k = 0
    BY <1>7
  <1>11. k \in Nat
    BY <1>9, <1>10
  <1>12. k = Max0({SortKey(r) : r \in Page})
    BY <1>7
  <1> QED
    BY <1>8, <1>9, <1>10, <1>11, <1>12, Zenon

-----------------------------------------------------------------------------
(* Versions fetched so far are of the past: their latest is no later.      *)
LEMMA FetchedMax ==
  ASSUME ApiTypeOK, InThePast, fetched # {}
  PROVE  LET Times == {v.time : v \in fetched}
         IN  /\ Max0(Times) \in 0..clock
             /\ \E v \in fetched : v.time = Max0(Times)
             /\ \A v \in fetched : v.time <= Max0(Times)
  <1> DEFINE T == {v.time : v \in fetched}
  <1>1. T \in SUBSET Nat /\ T # {} /\ clock \in Nat /\ \A t \in T : t <= clock
    BY TimeAssumption DEF ApiTypeOK, InThePast, Version
  <1>2. IsFiniteSet(T)
    <2> HIDE DEF T
    <2> QED
      BY <1>1, FS_BoundedSetOfNaturals
  <1>3. Max0(T) \in T /\ \A m \in T : m <= Max0(T)
    <2> HIDE DEF T
    <2> QED
      BY <1>1, <1>2, Max0Greatest
  <1>4. PICK t : t = Max0(T) /\ t \in T /\ \A m \in T : m <= t
    BY <1>3
  <1>5. t \in 0..clock
    BY <1>1, <1>4
  <1>6. (\E v \in fetched : v.time = t) /\ \A v \in fetched : v.time <= t
    BY <1>4
  <1> QED
    BY <1>4, <1>5, <1>6

LEMMA ApiTypeInit == ApiInit => ApiTypeInv
  <1> SUFFICES ASSUME ApiInit PROVE ApiTypeInv
    OBVIOUS
  <1> DEFINE T == {InitialTime[r] : r \in Records}
  <1>1. T \in SUBSET Nat /\ MaxTime \in Nat /\ \A t \in T : t <= MaxTime
    BY TimeAssumption
  <1>2. IsFiniteSet(T)
    <2> HIDE DEF T
    <2> QED
      BY <1>1, FS_BoundedSetOfNaturals
  <1>3. /\ T = {} => Max0(T) = 0
        /\ T # {} => Max0(T) \in T
        /\ \A m \in T : m <= Max0(T)
    <2> HIDE DEF T
    <2> QED
      BY <1>1, <1>2, Max0Greatest
  <1>4. clock \in 0..MaxTime /\ \A r \in Records : time[r] <= clock
    BY <1>1, <1>3 DEF ApiInit
  <1>5. ApiTypeOK
    <2>1. 0 \in 0..clock /\ 0 \in 0..MaxFails /\ time \in [Records -> 0..MaxTime]
      BY <1>4, TimeAssumption, PageAssumption DEF ApiInit
    <2>2. \A versions \in {landed, fetched, raced, shifted} : versions \subseteq Version
      BY DEF ApiInit
    <2> QED
      BY <1>4, <2>1, <2>2 DEF ApiInit, ApiTypeOK, Unfinished, NoWatermark
  <1>6. TimesDiffer /\ InThePast /\ Progress
    BY <1>4, TimeAssumption DEF ApiInit, TimesDiffer, InThePast, Progress
  <1> QED
    BY <1>5, <1>6 DEF ApiTypeInv

LEMMA TakeKeepsTypes ==
  ASSUME ApiTypeInv, NEW more \in BOOLEAN, NEW next \in Nat, Take(more, next), step = "fetch"
  PROVE  ApiTypeInv'
  <1>1. ListInv
    BY DEF ApiTypeInv, ListInv
  <1>2. \A r \in Page : r \in Listed /\ r \in Records
    BY DEF Page, Listed
  <1>3. \A r \in Page : Current(r) \in Version /\ Current(r).time <= clock
    BY <1>2, TimeAssumption DEF Current, Version, ApiTypeInv, ApiTypeOK, InThePast
  <1>4. after' \in Nat /\ (source.order = "time" => after' <= clock)
    <2>1. \A r \in Page : source.order = "time" => SortKey(r) <= clock
      BY <1>2 DEF SortKey, ApiTypeInv, InThePast
    <2>2. clock \in Nat
      BY TimeAssumption DEF ApiTypeInv, ApiTypeOK
    <2> QED
      BY <1>1, <2>1, <2>2, PageKeys DEF Take, ApiTypeInv, ApiTypeOK, InThePast
  <1>5. linked' \in BOOLEAN /\ (linked' => source.paging \notin {"offset_limit", "skip"})
    BY DEF Take, Link
  <1>6. ApiTypeOK'
    BY <1>3, <1>4, <1>5 DEF Take, api, history, ApiTypeInv, ApiTypeOK
  <1>7. TimesDiffer' /\ InThePast'
    BY <1>3, <1>4 DEF Take, api, history, ApiTypeInv, TimesDiffer, InThePast
  <1>8. Progress'
    BY <1>5 DEF Take, ApiTypeInv, Progress
  <1> QED
    BY <1>6, <1>7, <1>8 DEF ApiTypeInv

LEMMA ApiTypeStep == ApiTypeInv /\ [ApiNext]_apiVars => ApiTypeInv'
  <1> SUFFICES ASSUME ApiTypeInv, [ApiNext]_apiVars PROVE ApiTypeInv'
    OBVIOUS
  <1> USE DEF ApiTypeInv
  <1>0. /\ clock \in Nat /\ MaxTime \in Nat /\ MaxFails \in Nat /\ PageSize \in Nat
        /\ offset \in Nat /\ saved \in Nat
        /\ offset + PageSize \in Nat
    BY TimeAssumption, PageAssumption DEF ApiTypeOK
  <1>1. ASSUME NEW r \in Records, Change(r) PROVE ApiTypeInv'
    <2>1. clock' \in 0..MaxTime /\ clock <= clock' /\ clock' = clock + 1
      BY <1>0, <1>1 DEF Change, ApiTypeOK
    <2>2. time' \in [Records -> 0..MaxTime] /\ \A q \in Records : time'[q] <= clock'
      BY <1>1, <2>1 DEF Change, ApiTypeOK, InThePast
    <2>3. [key |-> r, time |-> clock + 1] \in Version
      BY <1>0 DEF Version
    <2>4. Skipped(r) \subseteq Version /\ LandsBehind(r) \subseteq Version
      <3>1. \A q \in Listed : Current(q) \in Version
        BY TimeAssumption DEF Listed, Current, Version, ApiTypeOK
      <3> QED
        BY <2>3, <3>1 DEF Skipped, LandsBehind
    <2>5. raced' \subseteq Version /\ shifted' \subseteq Version
      BY <1>1, <2>3, <2>4 DEF Change, ApiTypeOK
    <2>6. ApiTypeOK'
      BY <1>0, <1>1, <2>1, <2>2, <2>5 DEF Change, fetch, ApiTypeOK
    <2>7. TimesDiffer'
      BY <1>0, <1>1, <2>1 DEF Change, ApiTypeOK, InThePast, TimesDiffer
    <2>8. InThePast'
      BY <1>0, <1>1, <2>1, <2>2 DEF Change, fetch, ApiTypeOK, InThePast, Version
    <2>9. Progress'
      BY <1>1 DEF Change, fetch, Progress
    <2> QED
      BY <2>6, <2>7, <2>8, <2>9
  <1>2. ASSUME NEW r \in Records, Withdraw(r) PROVE ApiTypeInv'
    <2>1. clock' \in 0..MaxTime /\ clock <= clock' /\ clock' = clock + 1
      BY <1>0, <1>2 DEF Withdraw, ApiTypeOK
    <2>2. time' \in [Records -> 0..MaxTime] /\ \A q \in Records : time'[q] <= clock'
      BY <1>0, <1>2, <2>1 DEF Withdraw, ApiTypeOK, InThePast
    <2>4. Skipped(r) \subseteq Version
      <3>1. \A q \in Listed : Current(q) \in Version
        BY TimeAssumption DEF Listed, Current, Version, ApiTypeOK
      <3> QED
        BY <3>1 DEF Skipped
    <2>6. ApiTypeOK'
      BY <1>0, <1>2, <2>1, <2>2, <2>4 DEF Withdraw, fetch, ApiTypeOK
    <2>7. TimesDiffer'
      BY <1>2 DEF Withdraw, ApiTypeOK, TimesDiffer
    <2>8. InThePast'
      BY <1>0, <1>2, <2>1, <2>2 DEF Withdraw, fetch, ApiTypeOK, InThePast, Version
    <2>9. Progress'
      BY <1>2 DEF Withdraw, fetch, Progress
    <2> QED
      BY <2>6, <2>7, <2>8, <2>9
  <1>3. CASE Start
    <2>1. since' \in 0..clock /\ since' <= saved
      BY <1>0, <1>3 DEF Start, ApiTypeOK
    <2> QED
      BY <1>3, <2>1 DEF Start, api, history, ApiTypeOK, TimesDiffer, InThePast, Progress
  <1>4. CASE OffsetPage
    <2>1. Full \in BOOLEAN
      BY DEF Full
    <2> QED
      BY <1>0, <1>4, <2>1, TakeKeepsTypes DEF OffsetPage
  <1>5. CASE LinkedPage
    <2>1. Link \in BOOLEAN
      BY DEF Link
    <2> QED
      BY <1>0, <1>5, <2>1, TakeKeepsTypes DEF LinkedPage
  <1>6. CASE ODataPage
    <2>1. (Link \/ Full) \in BOOLEAN
      BY DEF Link, Full
    <2> QED
      BY <1>0, <1>6, <2>1, TakeKeepsTypes DEF ODataPage
  <1>7. CASE RejectFilter
    BY <1>7 DEF RejectFilter, api, fetch, history, ApiTypeOK, TimesDiffer, InThePast, Progress
  <1>8. CASE AppendToBronze
    <2>1. NewWatermark \in 0..clock \cup {NoWatermark}
      BY <1>0, FetchedMax DEF NewWatermark, ApiTypeOK
    <2>2. ApiTypeOK'
      BY <1>8, <2>1 DEF AppendToBronze, Appended, api, fetch, history, ApiTypeOK
    <2> QED
      BY <1>8, <2>2 DEF AppendToBronze, api, fetch, history, TimesDiffer, InThePast, Progress
  <1>9. CASE Fail
    <2>1. landed' \subseteq Version /\ fails' \in 0..MaxFails
      BY <1>0, <1>9 DEF Fail, Appended, ApiTypeOK
    <2>2. ApiTypeOK'
      BY <1>9, <2>1 DEF Fail, api, fetch, history, ApiTypeOK
    <2> QED
      BY <1>9, <2>2 DEF Fail, api, fetch, history, TimesDiffer, InThePast, Progress
  <1>10. CASE EndRun
    <2>1. saved' \in 0..clock
      <3>1. verdict.watermark \in Int
        BY <1>0 DEF ApiTypeOK, NoWatermark
      <3> QED
        <4>1. saved \in Int /\ saved \in 0..clock
          BY <1>0 DEF ApiTypeOK
        <4>2. Max0({saved, verdict.watermark}) \in {saved, verdict.watermark}
              /\ saved <= Max0({saved, verdict.watermark})
          BY <3>1, <4>1, Max0OfTwo
        <4>3. verdict.watermark \in 0..clock \/ verdict.watermark = -1
          BY DEF ApiTypeOK, NoWatermark
        <4>4. Max0({saved, verdict.watermark}) \in 0..clock
          BY <1>0, <4>1, <4>2, <4>3
        <4> QED
          BY <1>10, <4>1, <4>4 DEF EndRun
    <2>2. ApiTypeOK'
      <3>1. \A versions \in {landed', fetched', raced', shifted'} : versions \subseteq Version
        BY <1>10 DEF EndRun, Forget, history, ApiTypeOK
      <3>2. 0 \in 0..clock' /\ fails' \in 0..MaxFails
        BY <1>0, <1>10 DEF EndRun, api, ApiTypeOK
      <3> QED
        BY <2>1, <1>10, <3>1, <3>2 DEF EndRun, Forget, Unfinished, NoWatermark, api, ApiTypeOK
    <2>3. InThePast'
      BY <1>0, <1>10, <2>1 DEF EndRun, Forget, api, InThePast
    <2> QED
      BY <1>10, <2>2, <2>3 DEF EndRun, Forget, api, TimesDiffer, Progress
  <1>11. CASE LoseCluster
    <2>1. ApiTypeOK'
      <3>1. \A versions \in {landed', fetched', raced', shifted'} : versions \subseteq Version
        BY <1>11 DEF LoseCluster, Forget, history, ApiTypeOK
      <3>2. 0 \in 0..clock' /\ fails' \in 0..MaxFails
        BY <1>0, <1>11 DEF LoseCluster, api, ApiTypeOK
      <3> QED
        BY <1>11, <3>1, <3>2 DEF LoseCluster, Forget, Unfinished, NoWatermark, api, ApiTypeOK
    <2>2. InThePast'
      BY <1>0, <1>11 DEF LoseCluster, Forget, api, InThePast
    <2> QED
      BY <1>11, <2>1, <2>2 DEF LoseCluster, Forget, api, TimesDiffer, Progress
  <1>12. CASE UNCHANGED apiVars
    BY <1>12 DEF apiVars, api, fetch, history, ApiTypeOK, TimesDiffer, InThePast, Progress
  <1> QED
    BY <1>1, <1>2, <1>3, <1>4, <1>5, <1>6, <1>7, <1>8, <1>9, <1>10, <1>11, <1>12
    DEF ApiNext, RunStep

(* The API, the job's locals and Bronze keep their types.                  *)
THEOREM ApiTypeCorrect == ApiSpec => []ApiTypeOK
  <1>1. ApiTypeInv => ApiTypeOK
    BY DEF ApiTypeInv
  <1> QED
    BY <1>1, ApiTypeInit, ApiTypeStep, PTL DEF ApiSpec

-----------------------------------------------------------------------------
(* What a fetch has promised of the records it has behind it.              *)
Missable(r) ==
  \/ Current(r) \in shifted
  \/ source.order = "key" /\ Current(r) \in raced

BehindIsFetched ==
  step = "fetch" =>
    \A r \in Listed : Behind(r) /\ ~Missable(r) => Current(r) \in fetched

(* By time: what is no newer than something fetched was fetched too.       *)
NoGapInTime ==
  step \in {"fetch", "append"} /\ source.order = "time" =>
    \A r \in Listed :
      /\ Current(r) \notin shifted
      /\ \E v \in fetched : time[r] <= v.time
      => Current(r) \in fetched

Settled(w) ==
  \A r \in Records : 0 < time[r] /\ time[r] <= w /\ ~Passed(r) => Current(r) \in landed

VerdictIsSettled ==
  step = "end" /\ verdict.status = "SUCCESS" => Settled(verdict.watermark)

FetchInv ==
  /\ ApiTypeInv
  /\ BehindIsFetched
  /\ NoGapInTime
  /\ FetchIsComplete
  /\ VerdictIsSettled
  /\ NoRecordSkipped

LEMMA FetchInit == ApiInit => FetchInv
  <1> SUFFICES ASSUME ApiInit PROVE FetchInv
    OBVIOUS
  <1>1. ApiTypeInv
    BY ApiTypeInit
  <1>2. NoRecordSkipped
    BY TimeAssumption DEF ApiInit, NoRecordSkipped
  <1> QED
    BY <1>1, <1>2 DEF ApiInit, FetchInv, BehindIsFetched, NoGapInTime, FetchIsComplete,
                      VerdictIsSettled

(* The list is read through the API and a run's start.                     *)
LEMMA ListStays ==
  ASSUME UNCHANGED <<time, since, source>>
  PROVE  /\ Listed' = Listed
         /\ \A r : SortKey(r)' = SortKey(r) /\ Rank(r)' = Rank(r) /\ Current(r)' = Current(r)
  BY DEF Listed, UpTo, SortKey, Rank, Current

(* A page closes the gap between what is behind a fetch and its end.       *)
LEMMA PageReads ==
  ASSUME FetchInv, step = "fetch", fetched' = fetched \cup {Current(r) : r \in Page}
  PROVE  /\ \A r \in Listed : Rank(r) <= PageEnd /\ ~Missable(r) => Current(r) \in fetched'
         /\ ~Full => \A r \in Listed : Rank(r) <= PageEnd
         /\ ~Link /\ source.paging \notin {"offset_limit", "skip"}
              => \A r \in Listed : Rank(r) <= PageEnd
         /\ \A r \in Listed : SortKey(r) <= Max0({SortKey(q) : q \in Page}) => Rank(r) <= PageEnd
  <1>1. ListInv
    BY DEF FetchInv, ApiTypeInv, ListInv
  <1>2. Position \in Nat /\ PageSize \in Nat /\ PageEnd \in Nat
    BY <1>1, PositionType, PageAssumption DEF PageEnd
  <1>3. ASSUME NEW r \in Listed, Rank(r) <= PageEnd, ~Missable(r)
        PROVE  Current(r) \in fetched'
    <2>1. CASE Rank(r) <= Position
      <3>1. Behind(r)
        BY <1>1, <2>1, BehindIsRank
      <3> QED
        BY <1>3, <3>1 DEF FetchInv, BehindIsFetched
    <2>2. CASE ~(Rank(r) <= Position)
      <3>1. Rank(r) \in Nat
        BY <1>1, RankOrder
      <3>2. r \in Page
        BY <1>2, <1>3, <2>2, <3>1 DEF Page
      <3> QED
        BY <3>2
    <2> QED
      BY <2>1, <2>2
  <1>4. ~Full => \A r \in Listed : Rank(r) <= PageEnd
    BY <1>1, <1>2, ShortPageIsLast
  <1>5. ~Link /\ source.paging \notin {"offset_limit", "skip"}
          => \A r \in Listed : Rank(r) <= PageEnd
    BY <1>1, <1>2, RankOrder DEF Link
  <1>6. ASSUME NEW r \in Listed, SortKey(r) <= Max0({SortKey(q) : q \in Page})
        PROVE  Rank(r) <= PageEnd
    <2>1. SortKey(r) >= 1 /\ SortKey(r) \in Nat
      BY <1>1, SortKeyType
    <2>2. PICK q \in Page : SortKey(q) = Max0({SortKey(p) : p \in Page})
      <3>1. Page # {}
        BY <1>1, <1>6, <2>1, PageKeys
      <3> QED
        BY <1>1, <3>1, PageKeys
    <2>3. q \in Listed /\ Rank(q) <= PageEnd
      BY <2>2 DEF Page
    <2>4. Rank(r) <= Rank(q)
      BY <1>1, <1>6, <2>2, <2>3, RankOrder
    <2> QED
      BY <1>1, <1>2, <2>3, <2>4, RankOrder
  <1> QED
    BY <1>3, <1>4, <1>5, <1>6

LEMMA TakeKeepsPromise ==
  ASSUME FetchInv, NEW more \in BOOLEAN, NEW next \in Nat, Take(more, next), step = "fetch",
         Link => more,
         ~Link /\ more => \/ source.paging \notin {"offset_limit", "skip"}
                          \/ next = PageEnd,
         ~more => ~Full \/ (~Link /\ source.paging \notin {"offset_limit", "skip"})
  PROVE  FetchInv'
  <1>1. ListInv /\ UNCHANGED <<time, since, source, landed, raced, shifted, saved, verdict>>
    BY DEF FetchInv, ApiTypeInv, ListInv, Take, api, history
  <1>2. /\ \A r \in Listed : Rank(r) <= PageEnd /\ ~Missable(r) => Current(r) \in fetched'
        /\ ~Full => \A r \in Listed : Rank(r) <= PageEnd
        /\ ~Link /\ source.paging \notin {"offset_limit", "skip"}
             => \A r \in Listed : Rank(r) <= PageEnd
        /\ \A r \in Listed : SortKey(r) <= Max0({SortKey(q) : q \in Page}) => Rank(r) <= PageEnd
    BY PageReads DEF Take
  <1>3. /\ Listed' = Listed
        /\ \A r : SortKey(r)' = SortKey(r) /\ Rank(r)' = Rank(r) /\ Current(r)' = Current(r)
    BY <1>1, ListStays
  <1>4. /\ \A r : Missable(r)' <=> Missable(r)
        /\ \A r : Passed(r)' <=> Passed(r)
        /\ \A r : Excused(r)' <=> Excused(r)
    BY <1>1, <1>3 DEF Missable, Passed, Excused
  <1>5. ApiTypeInv'
    BY TakeKeepsTypes DEF FetchInv
  <1>6. BehindIsFetched'
    <2> SUFFICES ASSUME step' = "fetch", NEW r \in Listed, Behind(r)', ~Missable(r)
                 PROVE  Current(r) \in fetched'
      BY <1>3, <1>4 DEF BehindIsFetched
    <2>1. more
      BY DEF Take
    <2>2. Rank(r) <= PageEnd
      <3>1. CASE Link
        <4>1. SortKey(r) <= Max0({SortKey(q) : q \in Page})
          BY <1>3, <3>1 DEF Take, Behind
        <4> QED
          BY <1>2, <4>1
      <3>2. CASE ~Link /\ source.paging \notin {"offset_limit", "skip"}
        BY <1>2, <3>2
      <3>3. CASE ~Link /\ next = PageEnd
        BY <1>3, <3>3 DEF Take, Behind
      <3> QED
        BY <2>1, <3>1, <3>2, <3>3
    <2> QED
      BY <1>2, <2>2
  <1>7. NoGapInTime'
    <2> SUFFICES ASSUME source.order = "time", NEW r \in Listed, Current(r) \notin shifted,
                        NEW v \in fetched', time[r] <= v.time
                 PROVE  Current(r) \in fetched'
      BY <1>1, <1>3 DEF NoGapInTime
    <2>1. CASE v \in fetched
      BY <2>1 DEF FetchInv, NoGapInTime, Take
    <2>2. CASE v \notin fetched
      <3>1. PICK q \in Page : v = Current(q)
        BY <2>2 DEF Take
      <3>2. q \in Listed /\ Rank(q) <= PageEnd /\ SortKey(r) <= SortKey(q)
        BY <3>1 DEF Page, Current, SortKey
      <3>3. Rank(r) <= Rank(q) /\ Rank(r) \in Nat /\ Rank(q) \in Nat /\ PageEnd \in Nat
        BY <1>1, <3>2, RankOrder, PositionType, PageAssumption DEF PageEnd
      <3>4. Rank(r) <= PageEnd
        BY <3>2, <3>3
      <3> QED
        BY <1>2, <3>4 DEF Missable
    <2> QED
      BY <2>1, <2>2
  <1>8. FetchIsComplete'
    <2> SUFFICES ASSUME step' = "append", NEW r \in Records, time[r] > since, ~Excused(r)
                 PROVE  Current(r) \in fetched'
      BY <1>1, <1>3, <1>4 DEF FetchIsComplete
    <2>1. ~more /\ r \in Listed /\ ~Missable(r)
      BY DEF Take, Listed, Missable, Excused
    <2>2. Rank(r) <= PageEnd
      BY <1>2, <2>1
    <2> QED
      BY <1>2, <2>1, <2>2
  <1>9. VerdictIsSettled'
    BY DEF Take, VerdictIsSettled
  <1>10. NoRecordSkipped'
    BY <1>1, <1>3, <1>4 DEF FetchInv, NoRecordSkipped
  <1> QED
    BY <1>5, <1>6, <1>7, <1>8, <1>9, <1>10 DEF FetchInv

-----------------------------------------------------------------------------
(* When r leaves its place before another record, that one comes behind    *)
(* the fetch only by crossing the boundary of the next page.               *)
LEMMA OnlyTheNextIsSkipped ==
  ASSUME ApiTypeInv, ByOffset, NEW q \in Listed, NEW r \in Records, r # q,
         Cardinality(UpTo(SortKey(q)) \ {r}) <= offset
  PROVE  Rank(q) <= offset \/ Current(q) \in Skipped(r)
  <1> SUFFICES ASSUME ~(Rank(q) <= offset) PROVE Current(q) \in Skipped(r)
    OBVIOUS
  <1> DEFINE U == UpTo(SortKey(q))
  <1>1. ListInv /\ offset \in Nat
    BY DEF ApiTypeInv, ListInv, ApiTypeOK
  <1>2. SortKey(q) \in Int /\ Rank(q) \in Nat /\ Rank(q) = Cardinality(U)
    BY <1>1, SortKeyType, RankOrder DEF Rank
  <1>3. IsFiniteSet(U)
    BY <1>1, <1>2, CountType
  <1>4. Cardinality(U \ {r}) = IF r \in U THEN Cardinality(U) - 1 ELSE Cardinality(U)
    BY <1>3, FS_RemoveElement
  <1>5. r \in U /\ Rank(q) = offset + 1
    BY <1>1, <1>2, <1>4
  <1>6. r \in Listed /\ SortKey(r) <= SortKey(q)
    BY <1>5 DEF UpTo
  <1>7. SortKey(r) < SortKey(q)
    BY <1>1, <1>6, SortKeyType
  <1>8. Rank(r) < Rank(q) /\ Rank(r) \in Nat
    BY <1>1, <1>6, <1>7, RankOrder
  <1>9. Rank(r) <= offset
    BY <1>1, <1>5, <1>8
  <1> QED
    BY <1>5, <1>6, <1>9 DEF Skipped

(* A record that stays where it was is behind the fetch afterwards only if *)
(* it was before, or is counted as shifted.                                *)
LEMMA WithdrawMovesOne ==
  ASSUME ApiTypeInv, NEW r \in Records, Withdraw(r), step = "fetch", NEW q \in Listed, q # r, Behind(q)'
  PROVE  Behind(q) \/ Current(q) \in shifted'
  <1>1. time \in [Records -> 0..MaxTime] /\ r \in Records /\ since \in Nat
    BY TimeAssumption DEF ApiTypeInv, ApiTypeOK
  <1>2. Listed' = Listed \ {r} /\ \A p \in Listed : p # r => time'[p] = time[p]
    BY <1>1 DEF Withdraw, fetch, Listed
  <1>3. \A p \in Listed : p # r => SortKey(p)' = SortKey(p)
    BY <1>2 DEF Withdraw, SortKey
  <1>4. UpTo(SortKey(q))' = UpTo(SortKey(q)) \ {r}
    BY <1>2, <1>3 DEF UpTo
  <1>5. CASE linked
    BY <1>3, <1>5 DEF Withdraw, fetch, Behind
  <1>6. CASE ~linked
    <2>1. Cardinality(UpTo(SortKey(q)) \ {r}) <= offset
      BY <1>4, <1>6 DEF Withdraw, fetch, Behind, Rank
    <2> QED
      BY <1>6, <2>1, OnlyTheNextIsSkipped DEF Withdraw, ByOffset, Behind
  <1> QED
    BY <1>5, <1>6 DEF ApiTypeInv, ApiTypeOK

LEMMA ChangeMovesOne ==
  ASSUME ApiTypeInv, NEW r \in Records, Change(r), step = "fetch", NEW q \in Listed, q # r, Behind(q)'
  PROVE  Behind(q) \/ Current(q) \in shifted'
  <1>1. /\ time \in [Records -> 0..MaxTime] /\ since \in Nat /\ clock \in Nat /\ since <= clock
        /\ ListInv /\ offset \in Nat
    BY TimeAssumption DEF ApiTypeInv, ApiTypeOK, ListInv
  <1>2. /\ Listed' = Listed \cup {r}
        /\ \A p \in Records : p # r => time'[p] = time[p]
        /\ time'[r] = clock + 1
    BY <1>1 DEF Change, fetch, Listed
  <1>3. \A p \in Records : p # r => SortKey(p)' = SortKey(p)
    BY <1>2 DEF Change, SortKey
  <1>4. q \in Records /\ SortKey(q)' = SortKey(q) /\ SortKey(q) \in Int
    BY <1>1, <1>3, SortKeyType
  <1>5. CASE linked
    BY <1>4, <1>5 DEF Change, fetch, Behind
  <1>6. CASE ~linked /\ source.order = "time"
    <2>1. SortKey(q) <= clock /\ SortKey(r)' = clock + 1
      BY <1>2, <1>4, <1>6 DEF ApiTypeInv, InThePast, SortKey, Change
    <2>2. UpTo(SortKey(q))' = UpTo(SortKey(q)) \ {r}
      <3>1. \A p \in Listed : p # r => SortKey(p)' = SortKey(p)
        BY <1>1, <1>3, SortKeyType
      <3>2. ~(SortKey(r)' <= SortKey(q)')
        BY <1>1, <1>4, <2>1
      <3> QED
        BY <1>2, <1>4, <3>1, <3>2 DEF UpTo
    <2>3. Cardinality(UpTo(SortKey(q)) \ {r}) <= offset
      BY <1>6, <2>2 DEF Change, fetch, Behind, Rank
    <2> QED
      BY <1>6, <2>3, OnlyTheNextIsSkipped DEF Change, ByOffset, Behind
  <1>7. CASE ~linked /\ source.order # "time"
    <2>1. \A p \in Records : SortKey(p)' = SortKey(p)
      BY <1>7, SourceFields DEF ApiTypeInv, Change, SortKey
    <2>2. UpTo(SortKey(q)) \in SUBSET UpTo(SortKey(q))' /\ UpTo(SortKey(q))' \in SUBSET Records
      BY <1>1, <1>2, <1>4, <2>1, SortKeyType DEF UpTo
    <2>3. IsFiniteSet(UpTo(SortKey(q))')
      BY <2>2, RecordAssumption, FS_Subset
    <2>4. Cardinality(UpTo(SortKey(q))) <= Cardinality(UpTo(SortKey(q))')
      BY <2>2, <2>3, FS_Subset
    <2>5. Cardinality(UpTo(SortKey(q))') \in Nat /\ Cardinality(UpTo(SortKey(q))) \in Nat
      BY <1>1, <1>4, <2>3, CountType, FS_CardinalityType
    <2>6. Cardinality(UpTo(SortKey(q))') <= offset
      BY <1>7 DEF Change, fetch, Behind, Rank
    <2> QED
      BY <1>1, <1>7, <2>4, <2>5, <2>6 DEF Behind, Rank
  <1> QED
    BY <1>5, <1>6, <1>7 DEF ApiTypeInv, ApiTypeOK

(* The changed record itself is behind the fetch only as a version that    *)
(* may be missed.                                                          *)
LEMMA ChangedIsMissable ==
  ASSUME ApiTypeInv, NEW r \in Records, Change(r), step = "fetch", Behind(r)'
  PROVE  Missable(r)'
  <1>1. /\ time \in [Records -> 0..MaxTime] /\ since \in Nat /\ clock \in Nat /\ since <= clock
        /\ ListInv /\ offset \in Nat /\ after \in Nat
    BY TimeAssumption DEF ApiTypeInv, ApiTypeOK, ListInv
  <1>2. Current(r)' = [key |-> r, time |-> clock + 1]
    BY <1>1 DEF Change, Current
  <1>3. linked \/ offset > 0
    <2> SUFFICES ASSUME ~linked, offset = 0 PROVE FALSE
      BY <1>1
    <2>1. (ListInv /\ offset = 0 /\ ~linked)'
      BY ApiTypeStep DEF Change, fetch, ApiNext, ApiTypeInv, ListInv
    <2>2. (\A q \in Listed : ~Behind(q))'
      BY <2>1, NothingBehindAtFirst
    <2>3. r \in Listed'
      BY <1>1 DEF Change, fetch, Listed
    <2> QED
      BY <2>2, <2>3
  <1>4. CASE source.order = "key"
    BY <1>2, <1>3, <1>4 DEF Change, Reading, Missable
  <1>5. CASE source.order # "key"
    <2>1. source.order = "time" /\ SortKey(r)' = clock + 1
      BY <1>1, <1>5, SourceFields DEF ApiTypeInv, Change, SortKey
    <2>2. ~linked
      <3>1. after <= clock
        BY <2>1 DEF ApiTypeInv, InThePast
      <3> QED
        BY <1>1, <2>1, <3>1 DEF Change, fetch, Behind
    <2>3. UpTo(SortKey(r))' = Listed \cup {r}
      <3>1. Listed' = Listed \cup {r}
        BY <1>1 DEF Change, fetch, Listed
      <3>2. \A p \in Listed' : SortKey(p)' <= SortKey(r)'
        BY <1>1, <2>1, <3>1 DEF ApiTypeInv, InThePast, Change, SortKey, Listed
      <3> QED
        BY <3>1, <3>2 DEF UpTo
    <2>4. Cardinality(Listed \cup {r}) <= offset
      BY <2>2, <2>3 DEF Change, fetch, Behind, Rank
    <2>5. Current(r)' \in LandsBehind(r)
      BY <1>2, <2>2, <2>4 DEF LandsBehind, ByOffset
    <2> QED
      BY <2>1, <2>5 DEF Change, Missable
  <1> QED
    BY <1>4, <1>5

(* What an outside change leaves of the invariant, whatever record it is.  *)
LEMMA OutsideStep ==
  ASSUME FetchInv, ApiTypeInv', NEW r \in Records,
         UNCHANGED <<source, saved, landed, step, fetch, verdict>>,
         raced \subseteq raced', shifted \subseteq shifted',
         \A q \in Records : q # r => time'[q] = time[q],
         \/ time'[r] = 0
         \/ /\ time'[r] = clock + 1
            /\ step = "append" => Current(r)' \in raced'
            /\ step = "fetch" /\ Behind(r)' => Missable(r)',
         \A q \in Listed : step = "fetch" /\ q # r /\ Behind(q)' => Behind(q) \/ Current(q) \in shifted'
  PROVE  FetchInv'
  <1> USE DEF FetchInv
  <1>1. /\ clock \in Nat /\ saved \in 0..clock /\ since \in 0..clock /\ since' = since
        /\ source' = source /\ landed' = landed /\ fetched' = fetched /\ step' = step
        /\ \A v \in fetched : v.time \in Nat /\ v.time <= clock
    BY TimeAssumption DEF ApiTypeInv, ApiTypeOK, InThePast, Version, fetch
  <1>2. \A q \in Records : q # r => /\ Current(q)' = Current(q)
                                    /\ q \in Listed' <=> q \in Listed
                                    /\ Missable(q) => Missable(q)'
                                    /\ Passed(q) => Passed(q)'
                                    /\ Excused(q) => Excused(q)'
    BY <1>1 DEF Current, Listed, Missable, Passed, Excused
  <1>3. Listed' \subseteq Records /\ (r \in Listed' => time'[r] = clock + 1)
    BY <1>1 DEF Listed
  <1>4. BehindIsFetched'
    <2> SUFFICES ASSUME step = "fetch", NEW q \in Listed', Behind(q)', ~Missable(q)'
                 PROVE  Current(q)' \in fetched
      BY <1>1 DEF BehindIsFetched
    <2>1. q # r
      BY <1>1, <1>3 
    <2>2. q \in Listed /\ ~Missable(q) /\ Current(q)' = Current(q)
      BY <1>2, <1>3, <2>1
    <2>3. Current(q) \notin shifted'
      BY <2>2 DEF Missable
    <2> QED
      BY <2>1, <2>2, <2>3 DEF BehindIsFetched
  <1>5. NoGapInTime'
    <2> SUFFICES ASSUME step \in {"fetch", "append"}, source.order = "time",
                        NEW q \in Listed', Current(q)' \notin shifted',
                        NEW v \in fetched, time'[q] <= v.time
                 PROVE  Current(q)' \in fetched
      BY <1>1 DEF NoGapInTime
    <2>1. q # r
      BY <1>1, <1>3
    <2>2. q \in Listed /\ Current(q)' = Current(q) /\ time'[q] = time[q]
      BY <1>2, <1>3, <2>1
    <2> QED
      BY <2>2 DEF NoGapInTime
  <1>6. FetchIsComplete'
    <2> SUFFICES ASSUME step = "append", NEW q \in Records, time'[q] > since, ~Excused(q)'
                 PROVE  Current(q)' \in fetched
      BY <1>1 DEF FetchIsComplete
    <2>1. q # r
      BY <1>1 DEF Excused
    <2> QED
      BY <1>2, <2>1 DEF FetchIsComplete
  <1>7. ASSUME NEW w \in Int, w <= clock, Settled(w), NEW q \in Records,
               0 < time'[q], time'[q] <= w, ~Passed(q)'
        PROVE  Current(q)' \in landed
    <2>1. q # r
      BY <1>1, <1>7
    <2> QED
      BY <1>2, <1>7, <2>1 DEF Settled
  <1>8. NoRecordSkipped'
    BY <1>1, <1>7 DEF NoRecordSkipped, Settled
  <1>9. VerdictIsSettled'
    <2>1. verdict' = verdict /\ verdict.watermark \in Int /\ verdict.watermark <= clock
      BY <1>1 DEF ApiTypeInv, ApiTypeOK, NoWatermark
    <2> QED
      BY <1>1, <1>7, <2>1 DEF VerdictIsSettled, Settled
  <1> QED
    BY <1>4, <1>5, <1>6, <1>8, <1>9

(* The append settles the watermark the run will record.                   *)
LEMMA AppendSettles ==
  ASSUME FetchInv, step = "append", NEW r \in Records,
         0 < time[r], time[r] <= NewWatermark, ~Passed(r)
  PROVE  Current(r) \in Appended
  <1> USE DEF FetchInv
  <1>1. /\ clock \in Nat /\ saved \in Nat /\ since \in Nat /\ since <= saved /\ time[r] \in Nat
    BY TimeAssumption DEF ApiTypeInv, ApiTypeOK, InThePast
  <1>2. CASE time[r] <= saved
    BY <1>2 DEF NoRecordSkipped, Appended
  <1>3. CASE time[r] > saved
    <2>1. r \in Listed /\ time[r] > since
      BY <1>1, <1>3 DEF Listed
    <2>2. source.job # "odata" /\ fetched # {}
      BY <1>1, <1>3 DEF NewWatermark, NoWatermark
    <2>3. CASE ~Excused(r)
      BY <2>1, <2>3 DEF FetchIsComplete, Appended
    <2>4. CASE Excused(r)
      <3>1. source.column /\ source.order = "time" /\ Current(r) \notin shifted
        BY <2>4 DEF Excused, Passed
      <3>2. PICK v \in fetched : v.time = NewWatermark
        <4>1. \E v \in fetched : v.time = Max0({u.time : u \in fetched})
          BY <2>2, FetchedMax DEF ApiTypeInv
        <4> QED
          BY <2>2, <3>1, <4>1 DEF NewWatermark
      <3> QED
        BY <2>1, <3>1, <3>2 DEF NoGapInTime, Appended
    <2> QED
      BY <2>3, <2>4
  <1> QED
    BY <1>1, <1>2, <1>3

LEMMA FetchStep == FetchInv /\ [ApiNext]_apiVars => FetchInv'
  <1> SUFFICES ASSUME FetchInv, [ApiNext]_apiVars PROVE FetchInv'
    OBVIOUS
  <1>0. ApiTypeInv' /\ ApiTypeInv /\ ApiTypeOK
    BY ApiTypeStep DEF FetchInv, ApiTypeInv
  <1>1. ASSUME NEW r \in Records, Change(r) PROVE FetchInv'
    <2>1. /\ Current(r)' = [key |-> r, time |-> clock + 1]
          /\ time'[r] = clock + 1
          /\ step = "append" => Current(r)' \in raced'
      BY <1>0, <1>1 DEF Change, Reading, Current, ApiTypeOK
    <2>2. step = "fetch" /\ Behind(r)' => Missable(r)'
      BY <1>0, <1>1, ChangedIsMissable
    <2>3. \A q \in Listed :
            step = "fetch" /\ q # r /\ Behind(q)' => Behind(q) \/ Current(q) \in shifted'
      BY <1>0, <1>1, ChangeMovesOne
    <2>4. raced \subseteq raced' /\ shifted \subseteq shifted'
      BY <1>1 DEF Change
    <2>5. \A q \in Records : q # r => time'[q] = time[q]
      BY <1>0, <1>1 DEF Change, ApiTypeOK
    <2>6. UNCHANGED <<source, saved, landed, step, fetch, verdict>>
      BY <1>1 DEF Change
    <2> QED
      BY <1>0, <2>1, <2>2, <2>3, <2>4, <2>5, <2>6, OutsideStep
  <1>2. ASSUME NEW r \in Records, Withdraw(r) PROVE FetchInv'
    <2>1. time'[r] = 0
      BY <1>0, <1>2 DEF Withdraw, ApiTypeOK
    <2>3. \A q \in Listed :
            step = "fetch" /\ q # r /\ Behind(q)' => Behind(q) \/ Current(q) \in shifted'
      BY <1>0, <1>2, WithdrawMovesOne
    <2>4. raced \subseteq raced' /\ shifted \subseteq shifted'
      BY <1>2 DEF Withdraw
    <2>5. \A q \in Records : q # r => time'[q] = time[q]
      BY <1>0, <1>2 DEF Withdraw, ApiTypeOK
    <2>6. UNCHANGED <<source, saved, landed, step, fetch, verdict>>
      BY <1>2 DEF Withdraw
    <2> QED
      BY <1>0, <2>1, <2>3, <2>4, <2>5, <2>6, OutsideStep
  <1>3. CASE Start
    <2>1. BehindIsFetched'
      <3>1. (ListInv /\ offset = 0 /\ ~linked)'
        BY <1>0, <1>3 DEF Start, ApiTypeInv, Progress, ListInv
      <3>2. (\A q \in Listed : ~Behind(q))'
        BY <3>1, NothingBehindAtFirst
      <3> QED
        BY <3>2 DEF BehindIsFetched
    <2>2. fetched' = {} /\ step' = "fetch" /\ UNCHANGED <<time, saved, source, landed, history>>
      BY <1>0, <1>3 DEF Start, ApiTypeInv, Progress, api
    <2>3. NoRecordSkipped'
      BY <2>2 DEF FetchInv, NoRecordSkipped, Passed, Current, history
    <2> QED
      BY <1>0, <2>1, <2>2, <2>3 DEF FetchInv, NoGapInTime, FetchIsComplete, VerdictIsSettled
  <1>4. CASE OffsetPage
    <2>1. ~linked /\ ~Link /\ Full \in BOOLEAN /\ offset + PageSize \in Nat
      BY <1>0, <1>4, PageAssumption DEF OffsetPage, ApiTypeInv, Progress, Link, Full, ApiTypeOK
    <2>2. offset + PageSize = PageEnd
      BY <2>1 DEF PageEnd, Position
    <2> QED
      BY <1>4, <2>1, <2>2, TakeKeepsPromise DEF OffsetPage
  <1>5. CASE LinkedPage
    <2>1. Link \in BOOLEAN /\ offset \in Nat
      BY <1>0 DEF Link, ApiTypeOK
    <2> QED
      BY <1>5, <2>1, TakeKeepsPromise DEF LinkedPage
  <1>6. CASE ODataPage
    <2>1. (Link \/ Full) \in BOOLEAN /\ offset + PageSize \in Nat
      BY <1>0, PageAssumption DEF Link, Full, ApiTypeOK
    <2>2. source.paging \notin {"offset_limit", "skip"} \/ offset + PageSize = PageEnd
      BY <1>0 DEF ApiTypeInv, Progress, PageEnd, Position
    <2> QED
      BY <1>6, <2>1, <2>2, TakeKeepsPromise DEF ODataPage
  <1>7. CASE RejectFilter
    <2>1. verdict.status = "FAILED"
      BY <1>0, <1>7 DEF RejectFilter, ApiTypeInv, Progress, Unfinished
    <2>2. NoRecordSkipped'
      BY <1>7 DEF RejectFilter, api, history, FetchInv, NoRecordSkipped, Passed, Current
    <2> QED
      BY <1>0, <1>7, <2>1, <2>2 DEF RejectFilter, FetchInv, BehindIsFetched, NoGapInTime,
        FetchIsComplete, VerdictIsSettled
  <1>8. CASE AppendToBronze
    <2>1. VerdictIsSettled'
      BY <1>8, AppendSettles DEF AppendToBronze, api, history, VerdictIsSettled, Settled, Passed, Current
    <2>2. NoRecordSkipped'
      BY <1>8 DEF AppendToBronze, Appended, api, history, FetchInv, NoRecordSkipped, Passed, Current
    <2> QED
      BY <1>0, <1>8, <2>1, <2>2 DEF AppendToBronze, FetchInv, BehindIsFetched, NoGapInTime,
        FetchIsComplete
  <1>9. CASE Fail
    <2>1. verdict' = Unfinished /\ step' = "end"
      BY <1>0, <1>9 DEF Fail, ApiTypeInv, Progress
    <2>2. landed \subseteq landed'
      BY <1>9 DEF Fail, Appended
    <2>3. NoRecordSkipped'
      BY <1>9, <2>2 DEF Fail, api, history, FetchInv, NoRecordSkipped, Passed, Current
    <2> QED
      BY <1>0, <2>1, <2>3 DEF FetchInv, BehindIsFetched, NoGapInTime, FetchIsComplete,
        VerdictIsSettled, Unfinished
  <1>10. CASE EndRun
    <2>1. NoRecordSkipped'
      <3>1. CASE saved' = saved
        BY <1>10, <3>1 DEF EndRun, api, history, FetchInv, NoRecordSkipped, Passed, Current
      <3>2. CASE verdict.status = "SUCCESS" /\ saved' = Max0({saved, verdict.watermark})
        <4>1. saved' = saved \/ saved' = verdict.watermark
          <5>1. saved \in Int /\ verdict.watermark \in Int
            BY <1>0, TimeAssumption DEF ApiTypeOK, NoWatermark
          <5> QED
            BY <3>2, <5>1, Max0OfTwo
        <4>2. Settled(verdict.watermark) /\ Settled(saved)
          BY <1>10, <3>2 DEF EndRun, FetchInv, VerdictIsSettled, NoRecordSkipped, Settled
        <4> QED
          BY <1>10, <4>1, <4>2 DEF EndRun, api, history, NoRecordSkipped, Settled, Passed, Current
      <3> QED
        BY <1>10, <3>1, <3>2 DEF EndRun
    <2> QED
      BY <1>0, <1>10, <2>1 DEF EndRun, Forget, FetchInv, BehindIsFetched, NoGapInTime,
        FetchIsComplete, VerdictIsSettled
  <1>11. CASE LoseCluster
    <2>1. NoRecordSkipped'
      BY <1>11 DEF LoseCluster, api, history, FetchInv, NoRecordSkipped, Passed, Current
    <2> QED
      BY <1>0, <1>11, <2>1 DEF LoseCluster, Forget, FetchInv, BehindIsFetched, NoGapInTime,
        FetchIsComplete, VerdictIsSettled
  <1>12. CASE UNCHANGED apiVars
    BY <1>0, <1>12 DEF apiVars, api, fetch, history, FetchInv, BehindIsFetched, NoGapInTime,
      FetchIsComplete, VerdictIsSettled, NoRecordSkipped, Settled, Listed, Behind, Rank, UpTo,
      SortKey, Missable, Passed, Excused, Current
  <1> QED
    BY <1>1, <1>2, <1>3, <1>4, <1>5, <1>6, <1>7, <1>8, <1>9, <1>10, <1>11, <1>12
    DEF ApiNext, RunStep

(* However it pages, a fetch misses nothing that held still.               *)
THEOREM FetchComplete == ApiSpec => []FetchIsComplete
  <1>1. FetchInv => FetchIsComplete
    BY DEF FetchInv
  <1> QED
    BY <1>1, FetchInit, FetchStep, PTL DEF ApiSpec

(* No version at or below the watermark is missing in Bronze.              *)
THEOREM NothingSkipped == ApiSpec => []NoRecordSkipped
  <1>1. FetchInv => NoRecordSkipped
    BY DEF FetchInv
  <1> QED
    BY <1>1, FetchInit, FetchStep, PTL DEF ApiSpec
=============================================================================
