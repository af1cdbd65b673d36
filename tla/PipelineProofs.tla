--------------------------- MODULE PipelineProofs ---------------------------
(***************************************************************************)
(* Part 1: the cleaning job keeps its promises for any orders, versions    *)
(* and ingestion, and any number of killed runs.                           *)
(*                                                                         *)
(* Part 2: the daily pipeline is an execution of both of its parts, so     *)
(* their theorems hold of it; and with its schedule they add up to a       *)
(* promise from the source table to Silver.                                *)
(***************************************************************************)
EXTENDS DailyPipeline, WatermarkProofs, TLAPS

-----------------------------------------------------------------------------
(* Part 1: BronzeToSilver.                                                 *)

(* A row of Silver shows a valid version of its order that Bronze has, and *)
(* was stamped in the past.                                                *)
RowsOK ==
  \A k \in Keys :
    /\ silver[k].loaded <= wall
    /\ silver[k] # NoRow =>
         LET v == silver[k].version IN v \in Versions /\ KeyOf[v] = k /\ Valid[v] /\ IsVisible(v)

(* What is in hand or reported came from Bronze.                           *)
FromBronze == \A v \in quarantine \cup unreported \cup batch : IsVisible(v)

(* Up to its MERGE a run's watermark is that of Silver, and its batch the  *)
(* deduplicated rows it saw above it; after it every row it saw is         *)
(* accounted for.                                                          *)
JobOK ==
  /\ at \in {"check", "split", "merge"} => lastTs \in Watermark
  /\ at = "merge" =>
       seen \subseteq visible /\ IsDeduplicated(batch, Cleaned({b \in seen : b.stamp > lastTs}))
  /\ at = "quarantine" => \A b \in seen \ late : AccountedFor(b.version)

CleanInv == CleanTypeOK /\ RowsOK /\ FromBronze /\ JobOK /\ NothingHiddenSilently

-----------------------------------------------------------------------------
(* The versions a MERGE writes.                                            *)
Changed == {v \in ValidOf(batch) : Replaces(v)}

(* What a MERGE does to the row of an order.                               *)
LEMMA MergeWrites ==
  ASSUME CleanTypeOK, Merge
  PROVE  \E now \in Nat :
           /\ now > 0 /\ now >= wall
           /\ \A k \in Keys :
                \/ silver'[k] = silver[k] /\ ~\E v \in Changed : KeyOf[v] = k
                \/ \E v \in Changed : KeyOf[v] = k /\ silver'[k] = [version |-> v, loaded |-> now]
           /\ silver' \in [Keys -> SilverRow]
           /\ IF Changed = {} THEN wall' = wall /\ late' = late
                ELSE wall' = now /\ late' = late \cup {b \in visible \ seen : b.stamp <= now}
  <1>1. PICK now \in Now \ {0} :
          /\ silver' = [k \in Keys |->
               IF \E v \in Changed : KeyOf[v] = k
               THEN [version |-> CHOOSE v \in Changed : KeyOf[v] = k, loaded |-> now]
               ELSE silver[k]]
          /\ wall' = IF Changed = {} THEN wall ELSE now
          /\ late' = IF Changed = {} THEN late
                     ELSE late \cup {b \in visible \ seen : b.stamp <= now}
    BY DEF Merge, Changed
  <1>2. now \in Nat /\ now > 0 /\ now >= wall
    BY <1>1 DEF Now, CleanTypeOK
  <1>3. Changed \subseteq Versions
    BY DEF Changed, ValidOf, CleanTypeOK
  <1>4. ASSUME NEW k \in Keys
        PROVE  \/ silver'[k] = silver[k] /\ ~\E v \in Changed : KeyOf[v] = k
               \/ \E v \in Changed : KeyOf[v] = k /\ silver'[k] = [version |-> v, loaded |-> now]
    BY <1>1
  <1>5. silver' \in [Keys -> SilverRow]
    <2>1. ASSUME NEW k \in Keys PROVE silver'[k] \in SilverRow
      <3>1. CASE silver'[k] = silver[k]
        BY <3>1 DEF CleanTypeOK
      <3>2. ASSUME NEW v \in Changed, silver'[k] = [version |-> v, loaded |-> now]
            PROVE  silver'[k] \in SilverRow
        BY <1>2, <1>3, <3>2 DEF SilverRow
      <3>3. QED
        BY <1>4, <3>1, <3>2
    <2>2. QED
      BY <1>1, <2>1
  <1>6. QED
    BY <1>1, <1>2, <1>4, <1>5

LEMMA WatermarkIsNat == ASSUME CleanTypeOK PROVE Watermark \subseteq Nat
  BY DEF Watermark, CleanTypeOK, SilverRow

LEMMA CleanTypeStep ==
  ASSUME CleanTypeOK, [CleanNext]_cleanVars PROVE CleanTypeOK'
  <1>1. ASSUME BeginAppend \/ AbandonAppend PROVE CleanTypeOK'
    <2>1. CASE BeginAppend
      <3>1. \A now \in Now : now \in Nat
        BY DEF Now, CleanTypeOK
      <3>2. QED
        BY <2>1, <3>1 DEF BeginAppend, CleanTypeOK, local
    <2>2. QED
      BY <1>1, <2>1 DEF AbandonAppend, CleanTypeOK, local
  <1>2. ASSUME CommitAppend PROVE CleanTypeOK'
    <2>1. PICK extract \in Extracts : Land(extract)
      BY <1>2 DEF CommitAppend
    <2>2. {[version |-> v, stamp |-> writing] : v \in extract} \subseteq BronzeRow
      BY ExtractAssumption DEF BronzeRow, CleanTypeOK
    <2>3. QED
      BY <2>1, <2>2 DEF Land, CleanTypeOK, local
  <1>3. ASSUME ReadWatermark PROVE CleanTypeOK'
    BY <1>3, WatermarkIsNat DEF ReadWatermark, CleanTypeOK, external
  <1>4. ASSUME CheckEmpty PROVE CleanTypeOK'
    BY <1>4 DEF CheckEmpty, Finish, CleanTypeOK, external
  <1>5. ASSUME Split PROVE CleanTypeOK'
    BY <1>5 DEF Split, CleanTypeOK, external
  <1>6. ASSUME Merge PROVE CleanTypeOK'
    <2>1. wall' \in Nat /\ late' \subseteq late \cup visible /\ silver' \in [Keys -> SilverRow]
      BY <1>6, MergeWrites DEF CleanTypeOK
    <2>2. QED
      BY <1>6, <2>1 DEF Merge, CleanTypeOK, external
  <1>7. ASSUME WriteQuarantine \/ Kill PROVE CleanTypeOK'
    BY <1>7 DEF WriteQuarantine, Kill, Finish, RejectsOf, CleanTypeOK, external
  <1>8. ASSUME UNCHANGED cleanVars PROVE CleanTypeOK'
    BY <1>8 DEF cleanVars, external, local, CleanTypeOK
  <1>9. QED
    BY <1>1, <1>2, <1>3, <1>4, <1>5, <1>6, <1>7, <1>8 DEF CleanNext, CleanStep

LEMMA CleanTypeInit == CleanInit => CleanTypeOK
  BY DEF CleanInit, CleanTypeOK, BronzeRow, SilverRow, NoRow

(* Type correctness of the three tables and the job's local state.         *)
THEOREM CleanTypeCorrect == CleanSpec => []CleanTypeOK
  BY CleanTypeInit, CleanTypeStep, PTL DEF CleanSpec

-----------------------------------------------------------------------------
(* What accounts for a version accounts for the older ones of its order.   *)
LEMMA OlderAccounted ==
  ASSUME NEW u \in Versions, NEW v \in Versions,
         KeyOf[u] = KeyOf[v], UpdatedAt[u] >= UpdatedAt[v], AccountedFor(u)'
  PROVE  AccountedFor(v)'
  <1>1. \A x \in Versions : UpdatedAt[x] \in Nat
    BY VersionAssumption
  <1>2. PICK x \in Versions :
          /\ KeyOf[x] = KeyOf[u] /\ UpdatedAt[x] >= UpdatedAt[u]
          /\ silver'[KeyOf[x]].version = x \/ (~Valid[x] /\ Told(x)')
    BY DEF AccountedFor
  <1>3. KeyOf[x] = KeyOf[v] /\ UpdatedAt[x] >= UpdatedAt[v]
    BY <1>1, <1>2
  <1>4. QED
    BY <1>2, <1>3 DEF AccountedFor

(* What accounts for a version keeps accounting for it: a report stays, and *)
(* a row of Silver gives way only to a newer version.                      *)
LEMMA AccountedStays ==
  ASSUME CleanTypeOK, [CleanNext]_cleanVars, NEW v \in Versions, AccountedFor(v)
  PROVE  AccountedFor(v)'
  <1>1. PICK u \in Versions :
          /\ KeyOf[u] = KeyOf[v] /\ UpdatedAt[u] >= UpdatedAt[v]
          /\ silver[KeyOf[u]].version = u \/ (~Valid[u] /\ Told(u))
    BY DEF AccountedFor
  <1>2. KeyOf[u] \in Keys /\ u # NoVersion
    BY VersionAssumption
  <1>3. CASE ~Valid[u] /\ Told(u)
    <2>1. Told(u)'
      <3>1. CASE WriteQuarantine \/ Kill
        BY <1>3, <3>1 DEF WriteQuarantine, Kill, Told, RejectsOf
      <3>2. CASE BeginAppend \/ CommitAppend \/ AbandonAppend \/ UNCHANGED cleanVars
        BY <1>3, <3>2 DEF BeginAppend, CommitAppend, Land, AbandonAppend, cleanVars, local, Told
      <3>3. CASE ReadWatermark \/ CheckEmpty \/ Split \/ Merge
        BY <1>3, <3>3 DEF ReadWatermark, CheckEmpty, Split, Merge, Finish, Told
      <3>4. QED
        BY <3>1, <3>2, <3>3 DEF CleanNext, CleanStep
    <2>2. QED
      BY <1>1, <1>3, <2>1 DEF AccountedFor
  <1>4. CASE silver[KeyOf[u]].version = u /\ Merge
    <2>1. PICK now \in Nat : \A k \in Keys :
            \/ silver'[k] = silver[k]
            \/ \E x \in Changed : KeyOf[x] = k /\ silver'[k] = [version |-> x, loaded |-> now]
      BY <1>4, MergeWrites
    <2>2. CASE silver'[KeyOf[u]] = silver[KeyOf[u]]
      BY <1>1, <1>4, <2>2 DEF AccountedFor
    <2>3. ASSUME NEW x \in Changed, KeyOf[x] = KeyOf[u],
                 silver'[KeyOf[u]] = [version |-> x, loaded |-> now]
          PROVE  AccountedFor(v)'
      <3>1. x \in Versions /\ Replaces(x)
        BY DEF Changed, ValidOf, CleanTypeOK
      <3>2. silver[KeyOf[x]] # NoRow
        BY <1>2, <1>4, <2>3 DEF NoRow
      <3>3. UpdatedAt[x] > UpdatedAt[u] /\ \A y \in Versions : UpdatedAt[y] \in Nat
        BY <1>4, <2>3, <3>1, <3>2, VersionAssumption DEF Replaces
      <3>4. KeyOf[x] = KeyOf[v] /\ UpdatedAt[x] >= UpdatedAt[v] /\ silver'[KeyOf[x]].version = x
        BY <1>1, <2>3, <3>1, <3>3
      <3>5. QED
        BY <3>1, <3>4 DEF AccountedFor
    <2>4. QED
      BY <1>2, <2>1, <2>2, <2>3
  <1>5. CASE silver[KeyOf[u]].version = u /\ ~Merge
    <2>1. silver' = silver
      BY <1>5 DEF CleanNext, CleanStep, BeginAppend, CommitAppend, Land, AbandonAppend, ReadWatermark,
                  CheckEmpty, Split, WriteQuarantine, Kill, cleanVars
    <2>2. QED
      BY <1>1, <1>5, <2>1 DEF AccountedFor
  <1>6. QED
    BY <1>1, <1>3, <1>4, <1>5

(* No version becomes hidden while Silver is unchanged and the watermark   *)
(* overlooks no new row.                                                   *)
LEMMA QuietHidesNothing ==
  ASSUME CleanInv, [CleanNext]_cleanVars, silver' = silver,
         \A b \in visible' \ late', w \in Watermark : b.stamp <= w => b \in visible \ late
  PROVE  NothingHiddenSilently'
  <1>1. SUFFICES ASSUME NEW v \in Versions, Passed(v)' PROVE AccountedFor(v)'
    BY DEF NothingHiddenSilently
  <1>2. Watermark' = Watermark
    BY DEF Watermark
  <1>3. PICK b \in visible' \ late', w \in Watermark : b.version = v /\ b.stamp <= w
    BY <1>1, <1>2 DEF Passed
  <1>4. AccountedFor(v)
    BY <1>3 DEF Passed, CleanInv, NothingHiddenSilently
  <1>5. QED
    BY <1>4, AccountedStays DEF CleanInv

(* The MERGE: every row its stamp passes was below the old watermark, or   *)
(* in the batch or behind a newer one there, or is late.                   *)
LEMMA MergeHidesNothing ==
  ASSUME CleanInv, Merge
  PROVE  RowsOK' /\ NothingHiddenSilently' /\ \A b \in seen \ late : AccountedFor(b.version)'
  <1>1. PICK now \in Nat :
          /\ now > 0 /\ now >= wall
          /\ \A k \in Keys :
               \/ silver'[k] = silver[k] /\ ~\E v \in Changed : KeyOf[v] = k
               \/ \E v \in Changed : KeyOf[v] = k /\ silver'[k] = [version |-> v, loaded |-> now]
          /\ silver' \in [Keys -> SilverRow]
          /\ IF Changed = {} THEN wall' = wall /\ late' = late
               ELSE wall' = now /\ late' = late \cup {b \in visible \ seen : b.stamp <= now}
    BY MergeWrites DEF CleanInv
  <1>2. /\ visible' = visible /\ batch' = batch /\ quarantine' = quarantine /\ unreported' = unreported
        /\ at = "merge" /\ at' = "quarantine"
    BY DEF Merge, external
  <1>3. lastTs \in Watermark /\ lastTs \in Nat /\ seen \subseteq visible
    BY <1>2 DEF CleanInv, JobOK, CleanTypeOK
  <1>4. IsDeduplicated(batch, Cleaned({b \in seen : b.stamp > lastTs}))
    BY <1>2 DEF CleanInv, JobOK
  <1>5. \A v \in batch : v \in Versions /\ IsVisible(v) /\ KeyOf[v] \in Keys
    BY <1>3, <1>4, VersionAssumption DEF IsDeduplicated, Cleaned, IsVisible, CleanInv, CleanTypeOK
  <1>6. \A v \in Changed : v \in batch /\ Valid[v] /\ Replaces(v)
    BY DEF Changed, ValidOf
  <1>7. \A v \in Changed : v # NoVersion
    BY <1>5, <1>6, VersionAssumption
  <1>8. RowsOK'
    <2>1. SUFFICES ASSUME NEW k \in Keys
                   PROVE  /\ silver'[k].loaded <= wall'
                          /\ silver'[k] # NoRow =>
                               /\ silver'[k].version \in Versions
                               /\ KeyOf[silver'[k].version] = k /\ Valid[silver'[k].version]
                               /\ \E b \in visible : b.version = silver'[k].version
      BY <1>2 DEF RowsOK, IsVisible
    <2>2. /\ wall \in Nat /\ silver[k].loaded \in Nat /\ silver[k].loaded <= wall
          /\ wall' \in Nat /\ wall <= wall'
      BY <1>1 DEF CleanInv, RowsOK, CleanTypeOK, SilverRow
    <2>3. CASE silver'[k] = silver[k]
      BY <2>2, <2>3 DEF CleanInv, RowsOK, IsVisible
    <2>4. ASSUME NEW v \in Changed, KeyOf[v] = k, silver'[k] = [version |-> v, loaded |-> now]
          PROVE  /\ silver'[k].loaded <= wall'
                 /\ silver'[k].version \in Versions /\ KeyOf[silver'[k].version] = k
                 /\ Valid[silver'[k].version]
                 /\ \E b \in visible : b.version = silver'[k].version
      BY <1>1, <1>5, <1>6, <2>4 DEF IsVisible
    <2>5. QED
      BY <1>1, <2>3, <2>4
  <1>9. ASSUME NEW v \in Versions, AccountedFor(v) PROVE AccountedFor(v)'
    BY <1>9, AccountedStays DEF CleanInv, CleanNext, CleanStep
  <1>10. ASSUME NEW v \in batch PROVE AccountedFor(v)'
    <2>1. v \in Versions /\ KeyOf[v] \in Keys /\ UpdatedAt[v] >= UpdatedAt[v]
      BY <1>5, VersionAssumption
    <2>2. CASE ~Valid[v]
      BY <1>2, <2>1, <2>2 DEF AccountedFor, Told
    <2>3. CASE Valid[v] /\ Replaces(v)
      <3>1. v \in Changed
        BY <2>3 DEF Changed, ValidOf
      <3>2. \A u \in Changed : KeyOf[u] = KeyOf[v] => u = v
        BY <1>4, <1>6 DEF IsDeduplicated
      <3>3. silver'[KeyOf[v]].version = v
        BY <1>1, <2>1, <3>1, <3>2
      <3>4. QED
        BY <2>1, <3>3 DEF AccountedFor
    <2>4. CASE Valid[v] /\ ~Replaces(v)
      <3>1. silver[KeyOf[v]] # NoRow /\ ~(UpdatedAt[v] > UpdatedAt[silver[KeyOf[v]].version])
        BY <2>4 DEF Replaces
      <3>2. PICK u \in Versions : u = silver[KeyOf[v]].version /\ KeyOf[u] = KeyOf[v]
        BY <2>1, <3>1 DEF CleanInv, RowsOK
      <3>3. UpdatedAt[u] >= UpdatedAt[v]
        BY <2>1, <3>1, <3>2, VersionAssumption
      <3>4. AccountedFor(v)
        BY <3>2, <3>3 DEF AccountedFor
      <3>5. QED
        BY <1>9, <2>1, <3>4
    <2>5. QED
      BY <2>2, <2>3, <2>4
  <1>11. ASSUME NEW b \in seen, b.stamp > lastTs PROVE AccountedFor(b.version)'
    <2>1. b.version \in Versions /\ b.version \in Cleaned({x \in seen : x.stamp > lastTs})
      BY <1>11 DEF Cleaned, CleanInv, CleanTypeOK, BronzeRow
    <2>2. PICK u \in batch : KeyOf[u] = KeyOf[b.version] /\ UpdatedAt[u] >= UpdatedAt[b.version]
      BY <1>4, <2>1 DEF IsDeduplicated
    <2>3. QED
      BY <1>5, <1>10, <2>1, <2>2, OlderAccounted
  <1>12. NothingHiddenSilently'
    <2>1. SUFFICES ASSUME NEW v \in Versions, Passed(v)' PROVE AccountedFor(v)'
      BY DEF NothingHiddenSilently
    <2>2. PICK b \in visible \ late', w \in Watermark' : b.version = v /\ b.stamp <= w
      BY <1>2, <2>1 DEF Passed
    <2>3. b \notin late /\ b.stamp \in Nat
      BY <1>1, <2>2 DEF CleanInv, CleanTypeOK, BronzeRow
    <2>4. CASE b.stamp <= lastTs
      <3>1. Passed(v)
        BY <1>3, <2>2, <2>3, <2>4 DEF Passed
      <3>2. QED
        BY <1>9, <3>1 DEF CleanInv, NothingHiddenSilently
    <2>5. CASE b.stamp > lastTs
      <3>1. b \in seen
        <4>1. CASE Changed = {}
          <5>1. \A k \in Keys : silver'[k].loaded = silver[k].loaded
            BY <1>1, <4>1
          <5>2. w \in Watermark
            BY <2>2, <5>1 DEF Watermark
          <5>3. lastTs = w
            BY <1>3, <5>2 DEF Watermark, CleanInv, CleanTypeOK, SilverRow
          <5>4. QED
            BY <1>3, <2>2, <2>3, <2>5, <5>3
        <4>2. CASE Changed # {}
          <5>1. w <= now
            <6>1. \A k \in Keys : silver'[k].loaded <= now
              BY <1>1, <1>8, <4>2 DEF RowsOK
            <6>2. QED
              BY <1>1, <2>2, <6>1 DEF Watermark
          <5>2. b.stamp <= now /\ b \in visible /\ b \notin late'
            <6>1. w \in Nat
              BY <1>1, <2>2 DEF Watermark, SilverRow
            <6>2. QED
              BY <2>2, <2>3, <5>1, <6>1
          <5>3. QED
            BY <1>1, <4>2, <5>2
        <4>3. QED
          BY <4>1, <4>2
      <3>2. QED
        BY <1>11, <2>2, <2>5, <3>1
    <2>6. QED
      BY <1>3, <2>3, <2>4, <2>5
  <1>13. ASSUME NEW b \in seen \ late PROVE AccountedFor(b.version)'
    <2>1. b.version \in Versions /\ b.stamp \in Nat
      BY <1>3 DEF CleanInv, CleanTypeOK, BronzeRow
    <2>2. CASE b.stamp <= lastTs
      <3>1. Passed(b.version)
        BY <1>3, <1>13, <2>2 DEF Passed
      <3>2. QED
        BY <1>9, <2>1, <3>1 DEF CleanInv, NothingHiddenSilently
    <2>3. QED
      BY <1>3, <1>11, <2>1, <2>2
  <1>14. QED
    BY <1>8, <1>12, <1>13

-----------------------------------------------------------------------------
LEMMA BronzeStep ==
  ASSUME CleanInv, [CleanNext]_cleanVars PROVE CleanInv'
  <1>0. CleanTypeOK /\ CleanTypeOK'
    BY CleanTypeStep DEF CleanInv
  <1>1. ASSUME BeginAppend PROVE CleanInv'
    <2>1. wall' \in Nat /\ wall <= wall'
      BY <1>0, <1>1 DEF BeginAppend, Now, CleanTypeOK
    <2>2. UNCHANGED <<visible, late, silver, quarantine, unreported, at, lastTs, seen, batch>>
      BY <1>1 DEF BeginAppend, local
    <2>3. RowsOK'
      BY <1>0, <2>1, <2>2 DEF CleanInv, RowsOK, IsVisible, CleanTypeOK, SilverRow
    <2>4. JobOK'
      BY <2>2 DEF CleanInv, JobOK, Watermark, IsDeduplicated, Cleaned, AccountedFor, Told
    <2>5. FromBronze'
      BY <2>2 DEF CleanInv, FromBronze, IsVisible
    <2>6. NothingHiddenSilently'
      BY <2>2, QuietHidesNothing
    <2>7. QED
      BY <1>0, <2>3, <2>4, <2>5, <2>6 DEF CleanInv
  <1>2. ASSUME CommitAppend PROVE CleanInv'
    <2>1. PICK extract \in Extracts : Land(extract)
      BY <1>2 DEF CommitAppend
    <2>2. PICK w \in Watermark, landed \in SUBSET BronzeRow :
            visible' = visible \cup landed /\ late' = late \cup {b \in landed : b.stamp <= w}
      <3>1. {[version |-> v, stamp |-> writing] : v \in extract} \subseteq BronzeRow
        BY <1>0, ExtractAssumption DEF BronzeRow, CleanTypeOK
      <3>2. QED
        BY <2>1, <3>1 DEF Land
    <2>3. UNCHANGED <<wall, silver, quarantine, unreported, at, lastTs, seen, batch>>
      BY <2>1 DEF Land, local
    <2>4. \A x \in Watermark : x = w
      <3>1. \A x, y \in Watermark : x <= y
        BY <1>0, WatermarkIsNat DEF Watermark
      <3>2. QED
        BY <1>0, <2>2, <3>1, WatermarkIsNat
    <2>5. NothingHiddenSilently'
      BY <2>2, <2>3, <2>4, QuietHidesNothing
    <2>6. RowsOK' /\ FromBronze'
      BY <2>2, <2>3 DEF CleanInv, RowsOK, FromBronze, IsVisible
    <2>7. JobOK'
      BY <2>2, <2>3 DEF CleanInv, JobOK, Watermark, IsDeduplicated, Cleaned, AccountedFor, Told
    <2>8. QED
      BY <1>0, <2>5, <2>6, <2>7 DEF CleanInv
  <1>3. ASSUME UNCHANGED <<wall, visible, late, silver>>, JobOK', FromBronze'
        PROVE  CleanInv'
    <2>1. RowsOK'
      BY <1>3 DEF CleanInv, RowsOK, IsVisible
    <2>2. NothingHiddenSilently'
      BY <1>3, QuietHidesNothing
    <2>3. QED
      BY <1>0, <1>3, <2>1, <2>2 DEF CleanInv
  <1>4. ASSUME ReadWatermark PROVE CleanInv'
    <2>1. JobOK' /\ FromBronze'
      BY <1>4 DEF ReadWatermark, CleanInv, JobOK, Watermark, FromBronze, IsVisible, external
    <2>2. QED
      BY <1>3, <1>4, <2>1 DEF ReadWatermark, external
  <1>5. ASSUME CheckEmpty PROVE CleanInv'
    <2>1. JobOK' /\ FromBronze'
      BY <1>5 DEF CheckEmpty, Finish, CleanInv, JobOK, Watermark, FromBronze, IsVisible, external
    <2>2. QED
      BY <1>3, <1>5, <2>1 DEF CheckEmpty, external
  <1>6. ASSUME Split PROVE CleanInv'
    <2>1. JobOK'
      BY <1>6 DEF Split, CleanInv, JobOK, Watermark, Fresh, external, IsDeduplicated, Cleaned
    <2>2. FromBronze'
      BY <1>6 DEF Split, CleanInv, FromBronze, IsVisible, Fresh, external, IsDeduplicated, Cleaned
    <2>3. QED
      BY <1>3, <1>6, <2>1, <2>2 DEF Split, external
  <1>7. ASSUME Merge PROVE CleanInv'
    <2>1. FromBronze'
      BY <1>7 DEF Merge, CleanInv, FromBronze, IsVisible, external
    <2>2. JobOK'
      <3>1. late \subseteq late' /\ seen' = seen /\ at' = "quarantine"
        BY <1>7 DEF Merge
      <3>2. QED
        BY <1>7, <3>1, MergeHidesNothing DEF JobOK
    <2>3. QED
      BY <1>0, <1>7, <2>1, <2>2, MergeHidesNothing DEF CleanInv
  <1>8. ASSUME WriteQuarantine \/ Kill PROVE CleanInv'
    <2>1. JobOK' /\ FromBronze'
      BY <1>8 DEF WriteQuarantine, Kill, Finish, JobOK, CleanInv, FromBronze, IsVisible, RejectsOf, external
    <2>2. QED
      BY <1>3, <1>8, <2>1 DEF WriteQuarantine, Kill, external
  <1>9. ASSUME AbandonAppend \/ UNCHANGED cleanVars PROVE CleanInv'
    <2>1. UNCHANGED <<wall, visible, late, silver, quarantine, unreported, at, lastTs, seen, batch>>
      BY <1>9 DEF AbandonAppend, cleanVars, local, external
    <2>2. JobOK' /\ FromBronze'
      BY <2>1 DEF CleanInv, JobOK, Watermark, IsDeduplicated, Cleaned, FromBronze, IsVisible,
                  AccountedFor, Told
    <2>3. QED
      BY <1>3, <2>1, <2>2
  <1>10. QED
    BY <1>1, <1>2, <1>4, <1>5, <1>6, <1>7, <1>8, <1>9 DEF CleanNext, CleanStep

LEMMA CleanStart == CleanInit => CleanInv
  <1>1. ASSUME CleanInit PROVE RowsOK /\ FromBronze /\ JobOK /\ NothingHiddenSilently
    BY <1>1 DEF CleanInit, RowsOK, FromBronze, JobOK, NothingHiddenSilently, Passed, NoRow
  <1>2. QED
    BY <1>1, CleanTypeInit DEF CleanInv

LEMMA Bronze == CleanSpec => []CleanInv
  BY CleanStart, BronzeStep, PTL DEF CleanSpec

(* Whatever the watermark has passed is shown, or gave way to a version at *)
(* least as new that is shown or reported: nothing is hidden in silence.   *)
THEOREM NothingHidden == CleanSpec => []NothingHiddenSilently
  <1>1. CleanInv => NothingHiddenSilently
    BY DEF CleanInv
  <1>2. QED
    BY <1>1, Bronze, PTL

(* For the newest version of its order only the version itself does.       *)
LEMMA NewestAccountsForItself ==
  ASSUME CleanInv, NEW v \in Versions, Newest(v), Passed(v)
  PROVE  (silver[KeyOf[v]].version = v /\ Valid[v]) \/ (~Valid[v] /\ Told(v))
  <1>1. PICK u \in Versions :
          /\ KeyOf[u] = KeyOf[v] /\ UpdatedAt[u] >= UpdatedAt[v]
          /\ silver[KeyOf[u]].version = u \/ (~Valid[u] /\ Told(u))
    BY DEF CleanInv, NothingHiddenSilently, AccountedFor
  <1>2. UpdatedAt[u] \in Nat /\ UpdatedAt[v] \in Nat /\ KeyOf[u] \in Keys /\ u # NoVersion
    BY VersionAssumption
  <1>3. silver[KeyOf[u]].version = u => IsVisible(u) /\ Valid[u]
    BY <1>2 DEF CleanInv, RowsOK, NoRow
  <1>4. Told(u) => IsVisible(u)
    BY DEF Told, CleanInv, FromBronze
  <1>5. u = v
    BY <1>1, <1>2, <1>3, <1>4 DEF Newest
  <1>6. CASE silver[KeyOf[u]].version = u
    BY <1>3, <1>5, <1>6
  <1>7. CASE ~Valid[u] /\ Told(u)
    BY <1>5, <1>7
  <1>8. QED
    BY <1>1, <1>6, <1>7

(* The newest version of an order, once the watermark has passed it, is    *)
(* what Silver shows, however rows are repeated, reordered or cut off.     *)
THEOREM LatestServed == CleanSpec => []LatestVersionServed
  <1>1. CleanInv => LatestVersionServed
    BY NewestAccountsForItself DEF LatestVersionServed
  <1>2. QED
    BY <1>1, Bronze, PTL

(* ... or, if it is invalid, it is reported, or its run was cut off.       *)
THEOREM RejectsReported == CleanSpec => []RejectsAreReported
  <1>1. CleanInv => RejectsAreReported
    BY NewestAccountsForItself DEF RejectsAreReported
  <1>2. QED
    BY <1>1, Bronze, PTL

-----------------------------------------------------------------------------
(* Part 2: DailyPipeline.                                                  *)

(* What the ingestion holds are versions of the table, none of which is    *)
(* newer than the current one of its row.                                  *)
FetchedOK ==
  /\ clock <= MaxTime
  /\ \A j \in Jobs : \A v \in fetched[j] : v.ts # 0 /\ v.ts <= source[v.row]

(* The two modules' views of the Bronze table agree.                       *)
Linked ==
  /\ \A x \in bronze  : IsVisible([row |-> x.row, ts |-> x.ts])
  /\ \A b \in visible : b.version.ts <= source[b.version.row]

(* The tasks take turns, and only the ingestion appends.                   *)
OneAtATime ==
  /\ task \in Tasks
  /\ task = "clean"  => \A j \in Jobs : pc[j] = "idle"
  /\ task = "ingest" => at = "idle"
  /\ writing # 0     => \A j \in Jobs : pc[j] = "append"

(* An append is stamped later than all of Silver, and none ends while the  *)
(* cleaning holds its batch.                                               *)
Ahead ==
  /\ late = {}
  /\ writing # 0 => \A k \in Keys : silver[k].loaded < writing
  /\ at \in {"merge", "quarantine"} => seen = visible

(* The version of a row that is current.                                   *)
Current(r) == [row |-> r, ts |-> source[r]]

ServedOK ==
  /\ \A t \in served : t \in Nat /\ t <= clock
  /\ \A t \in served, r \in Rows :
       source[r] # 0 /\ source[r] <= t /\ ~Raced(r) => AccountedFor(Current(r))

PipelineInv ==
  /\ SettleInv /\ CleanInv
  /\ FetchedOK /\ Linked /\ OneAtATime /\ Ahead /\ ServedOK

LEMMA AJob == \E j \in Jobs : Jobs = {j}
  BY PipelineAssumption

LEMMA PipelineStart == PipelineInit => PipelineInv
  <1> SUFFICES ASSUME PipelineInit PROVE PipelineInv
    OBVIOUS
  <1>1. SettleInv /\ CleanInv
    BY SettleInit, CleanStart DEF PipelineInit
  <1>2. FetchedOK /\ Linked /\ ServedOK
    BY BoundAssumption DEF PipelineInit, Init, CleanInit, FetchedOK, Linked, ServedOK
  <1>3. OneAtATime /\ Ahead
    BY DEF PipelineInit, Init, CleanInit, OneAtATime, Ahead, Tasks
  <1>4. QED
    BY <1>1, <1>2, <1>3 DEF PipelineInv

(* What is fetched are versions that the cleaning knows.                   *)
LEMMA FetchedVersions ==
  ASSUME SettleInv, FetchedOK, NEW j \in Jobs
  PROVE  fetched[j] \in Extracts /\ \A v \in fetched[j] : v = [row |-> v.row, ts |-> v.ts]
  <1>1. MaxTime \in Nat
    BY BoundAssumption
  <1>2. ASSUME NEW v \in fetched[j]
        PROVE  v \in [row : Rows, ts : 1..MaxTime] /\ v = [row |-> v.row, ts |-> v.ts]
    <2>1. v \in [row : Rows, ts : Nat]
      BY DEF SettleInv, TypeOK, Version
    <2>2. v.ts # 0 /\ v.ts <= clock /\ clock <= MaxTime /\ clock \in Nat
      BY DEF FetchedOK, SettleInv, InThePast, TypeOK
    <2>3. v.ts \in 1..MaxTime
      BY <1>1, <2>1, <2>2
    <2>4. QED
      BY <2>1, <2>3
  <1>3. QED
    BY <1>2, PipelineAssumption

(* Every step of the pipeline is one of each part, or leaves it alone.     *)
LEMMA PartsStep ==
  ASSUME SettleInv, FetchedOK, [PipelineNext]_pipelineVars
  PROVE  [Next]_vars /\ [CleanNext]_cleanVars
  <1>1. ASSUME NEW r \in Rows, CommitSource(r) PROVE [Next]_vars /\ [CleanNext]_cleanVars
    BY <1>1 DEF CommitSource, Next
  <1>2. ASSUME NEW j \in Jobs, IngestTask(j) PROVE [Next]_vars /\ [CleanNext]_cleanVars
    <2>1. Abandon => [CleanNext]_cleanVars
      BY DEF Abandon, CleanNext
    <2>2. Land(fetched[j]) => [CleanNext]_cleanVars
      BY FetchedVersions DEF CommitAppend, CleanNext
    <2>3. ASSUME Start(j) \/ ReadPartition(j) \/ Aggregate(j) \/ Recompute(j), UNCHANGED cleanVars
          PROVE  [Next]_vars /\ [CleanNext]_cleanVars
      BY <2>3 DEF Next, JobStep
    <2>4. QED
      BY <1>2, <2>1, <2>2, <2>3
      DEF IngestTask, BeginWrite, Write, FailIngest, KillIngest, EndIngest, Next, JobStep, CleanNext
  <1>3. CASE CleanTask \/ KillClean \/ PipelineIdle \/ UNCHANGED pipelineVars
    BY <1>3 DEF CleanTask, KillClean, PipelineIdle, pipelineVars, CleanNext
  <1>4. QED
    BY <1>1, <1>2, <1>3 DEF PipelineNext

(* A query returns current versions.                                       *)
LEMMA QueryCurrent ==
  ASSUME SettleInv, NEW j \in Jobs, Active(j), NEW p \in Partitions, NEW v \in Query(j, p)
  PROVE  v.row \in Rows /\ v.ts = source[v.row] /\ v.ts # 0
  <1>1. PICK r \in Rows : v = [row |-> r, ts |-> source[r]] /\ source[r] > Base(j)
    BY DEF Query, Base
  <1>2. Base(j) \in Nat
    BY RunFields DEF SettleInv, OwnRun, Base
  <1>3. source[r] \in Nat
    BY DEF SettleInv, TypeOK
  <1>4. QED
    BY <1>1, <1>2, <1>3

(* The current version of a row only becomes newer.                        *)
LEMMA SourceGrows ==
  ASSUME SettleInv, [Next]_vars
  PROVE  /\ \A r \in Rows : source'[r] \in Nat /\ source[r] <= source'[r]
         /\ clock' \in Nat /\ clock <= clock'
  <1>1. clock \in Nat /\ \A r \in Rows : source[r] \in Nat
    BY DEF SettleInv, TypeOK
  <1>2. ASSUME NEW q \in Rows, Commit(q)
        PROVE  /\ \A r \in Rows : source'[r] \in Nat /\ source[r] <= source'[r]
               /\ clock' \in Nat /\ clock <= clock'
    <2>1. PICK lag \in 0..MaxLag :
            clock + 1 - lag > source[q] /\ source' = [source EXCEPT ![q] = clock + 1 - lag]
      BY <1>2 DEF Commit
    <2>2. source[q] \in Nat /\ lag \in Int
      BY <1>1
    <2>3. ASSUME NEW r \in Rows PROVE source'[r] \in Nat /\ source[r] <= source'[r]
      <3>1. CASE r = q
        BY <1>1, <2>1, <2>2, <3>1 DEF SettleInv, TypeOK
      <3>2. CASE r # q
        BY <1>1, <2>1, <3>2 DEF SettleInv, TypeOK
      <3>3. QED
        BY <3>1, <3>2
    <2>4. QED
      BY <1>1, <1>2, <2>3 DEF Commit
  <1>3. CASE UNCHANGED <<source, clock>>
    BY <1>1, <1>3
  <1>4. QED
    BY <1>2, <1>3 DEF Next, JobStep, Start, ReadPartition, Aggregate, Recompute, AppendBronze, Fail,
                      EndRun, EndRefused, Crash, Idle, vars

LEMMA FetchedStays ==
  ASSUME SettleInv, FetchedOK, [Next]_vars PROVE FetchedOK'
  <1>1. clock' <= MaxTime
    <2>1. clock \in Nat /\ MaxTime \in Nat
      BY BoundAssumption DEF SettleInv, TypeOK
    <2>2. CASE UNCHANGED clock
      BY <2>2 DEF FetchedOK
    <2>3. ASSUME NEW r \in Rows, Commit(r) PROVE clock' <= MaxTime
      BY <2>1, <2>3 DEF Commit
    <2>4. QED
      BY <2>2, <2>3 DEF Next, JobStep, Start, ReadPartition, Aggregate, Recompute, AppendBronze, Fail,
                        EndRun, EndRefused, Crash, Idle, vars
  <1>2. SUFFICES ASSUME NEW i \in Jobs, NEW v \in fetched'[i] PROVE v.ts # 0 /\ v.ts <= source'[v.row]
    BY <1>1 DEF FetchedOK
  <1>3. \A u \in fetched[i] : u.ts # 0 /\ u.ts <= source[u.row] /\ u.row \in Rows /\ u.ts \in Nat
    BY DEF FetchedOK, SettleInv, TypeOK, Version
  <1>4. \A r \in Rows : source[r] \in Nat /\ source'[r] \in Nat /\ source[r] <= source'[r]
    BY SourceGrows DEF SettleInv, TypeOK
  <1>5. CASE v \in fetched[i]
    BY <1>3, <1>4, <1>5
  <1>6. ASSUME NEW j \in Jobs, ReadPartition(j) \/ Recompute(j), v \notin fetched[i]
        PROVE  v.ts # 0 /\ v.ts <= source'[v.row]
    <2>1. \E p \in Partitions : v \in Query(i, p)
      BY <1>2, <1>6 DEF ReadPartition, Recompute, SettleInv, TypeOK
    <2>2. Active(i)
      BY <1>2, <1>6 DEF ReadPartition, Recompute, SettleInv, TypeOK, Active
    <2>3. QED
      BY <1>4, <2>1, <2>2, QueryCurrent
  <1>7. ASSUME NEW j \in Jobs, Start(j) \/ AppendBronze(j) \/ Fail(j) \/ Forget(j)
        PROVE  fetched'[i] \subseteq fetched[i]
    BY <1>7 DEF Start, AppendBronze, Fail, Forget, SettleInv, TypeOK
  <1>8. CASE UNCHANGED fetched
    BY <1>5, <1>8
  <1>9. QED
    BY <1>5, <1>6, <1>7, <1>8
    DEF Next, JobStep, Commit, Aggregate, EndRun, EndRefused, Crash, Idle, vars

(* What becomes visible when an append commits.                            *)
LEMMA LandShows ==
  ASSUME SettleInv, CleanInv, FetchedOK, Linked, NEW j \in Jobs, Land(fetched[j]),
         UNCHANGED source, bronze' \subseteq Appended(j)
  PROVE  Linked'
  <1>1. visible' = visible \cup {[version |-> v, stamp |-> writing] : v \in fetched[j]}
    BY DEF Land
  <1>2. \A v \in fetched[j] : v = [row |-> v.row, ts |-> v.ts] /\ v.ts <= source[v.row]
    BY FetchedVersions DEF FetchedOK
  <1>3. ASSUME NEW x \in bronze' PROVE IsVisible([row |-> x.row, ts |-> x.ts])'
    <2>1. CASE x \in bronze
      BY <1>1, <2>1 DEF Linked, IsVisible
    <2>2. ASSUME NEW v \in fetched[j], x = [row |-> v.row, ts |-> v.ts, run |-> run[j]]
          PROVE  IsVisible([row |-> x.row, ts |-> x.ts])'
      <3>1. [row |-> x.row, ts |-> x.ts] = v
        BY <1>2, <2>2
      <3>2. [version |-> v, stamp |-> writing] \in visible'
        BY <1>1
      <3>3. QED
        BY <3>1, <3>2 DEF IsVisible
    <2>3. QED
      BY <2>1, <2>2 DEF Appended
  <1>4. \A b \in visible' : b.version.ts <= source'[b.version.row]
    BY <1>1, <1>2 DEF Linked
  <1>5. QED
    BY <1>3, <1>4 DEF Linked

LEMMA LinkedStays ==
  ASSUME SettleInv, CleanInv, FetchedOK, Linked, [PipelineNext]_pipelineVars PROVE Linked'
  <1>1. [Next]_vars /\ [CleanNext]_cleanVars
    BY PartsStep
  <1>2. ASSUME bronze' = bronze, visible' = visible PROVE Linked'
    <2>1. \A b \in visible : b.version.row \in Rows /\ b.version.ts \in Nat
      BY PipelineAssumption, BoundAssumption DEF CleanInv, CleanTypeOK, BronzeRow
    <2>2. \A r \in Rows : source[r] \in Nat /\ source'[r] \in Nat /\ source[r] <= source'[r]
      BY <1>1, SourceGrows DEF SettleInv, TypeOK
    <2>3. QED
      BY <1>2, <2>1, <2>2 DEF Linked, IsVisible
  <1>3. ASSUME NEW j \in Jobs, Write(j) PROVE Linked'
    BY <1>3, LandShows DEF Write, AppendBronze
  <1>4. ASSUME NEW j \in Jobs, FailIngest(j) PROVE Linked'
    <2>1. CASE bronze' = bronze /\ Abandon
      BY <1>2, <2>1 DEF Abandon, AbandonAppend, cleanVars, external
    <2>2. CASE bronze' = Appended(j) /\ Land(fetched[j])
      BY <1>4, <2>2, LandShows DEF FailIngest, Fail
    <2>3. QED
      BY <1>4, <2>1, <2>2 DEF FailIngest
  <1>5. ASSUME NEW j \in Jobs, IngestTask(j), ~Write(j), ~FailIngest(j)
        PROVE  bronze' = bronze /\ visible' = visible
    <2>1. CASE KillIngest(j)
      BY <2>1 DEF KillIngest, Crash, Abandon, AbandonAppend, cleanVars, external
    <2>2. CASE BeginWrite(j)
      BY <2>2 DEF BeginWrite, BeginAppend, vars
    <2>3. CASE EndIngest(j)
      BY <2>3 DEF EndIngest, EndRun, EndRefused, cleanVars, external
    <2>4. QED
      BY <1>5, <2>1, <2>2, <2>3
      DEF IngestTask, Start, ReadPartition, Aggregate, Recompute, cleanVars, external
  <1>6. ASSUME NEW r \in Rows, CommitSource(r) PROVE bronze' = bronze /\ visible' = visible
    BY <1>6 DEF CommitSource, Commit, cleanVars, external
  <1>7. CASE CleanTask \/ KillClean \/ PipelineIdle \/ UNCHANGED pipelineVars
    <2>1. bronze' = bronze /\ visible' = visible
      BY <1>7 DEF CleanTask, CleanStep, ReadWatermark, CheckEmpty, Split, Merge, WriteQuarantine,
                  KillClean, Kill, PipelineIdle, pipelineVars, vars, cleanVars, external
    <2>2. QED
      BY <1>2, <2>1
  <1>8. QED
    BY <1>2, <1>3, <1>4, <1>5, <1>6, <1>7 DEF PipelineNext

LEMMA OneAtATimeStays ==
  ASSUME SettleInv, CleanInv, OneAtATime, [PipelineNext]_pipelineVars PROVE OneAtATime'
  <1>1. ASSUME NEW j \in Jobs, IngestTask(j) PROVE OneAtATime'
    <2>1. Jobs = {j} /\ pc \in [Jobs -> {"idle", "read", "append", "end"}] /\ writing \in Nat
      BY AJob DEF SettleInv, TypeOK, CleanInv, CleanTypeOK
    <2>2. task = "ingest" /\ at = "idle" /\ (writing # 0 => pc[j] = "append")
      BY <1>1 DEF IngestTask, OneAtATime
    <2>3. ASSUME UNCHANGED <<cleanVars, task>>,
                 Start(j) \/ ReadPartition(j) \/ Aggregate(j) \/ Recompute(j)
          PROVE  OneAtATime'
      BY <2>1, <2>2, <2>3 DEF OneAtATime, Tasks, Start, ReadPartition, Aggregate, Recompute, cleanVars,
                              external, local
    <2>4. ASSUME UNCHANGED task, BeginWrite(j) PROVE OneAtATime'
      BY <2>1, <2>2, <2>4 DEF OneAtATime, Tasks, BeginWrite, BeginAppend, vars, local
    <2>5. ASSUME UNCHANGED task, Write(j) PROVE OneAtATime'
      BY <2>1, <2>2, <2>5 DEF OneAtATime, Tasks, Write, AppendBronze, Land, local
    <2>6. ASSUME UNCHANGED task, FailIngest(j) \/ KillIngest(j) PROVE OneAtATime'
      <3>1. writing' = 0 /\ at' = at
        BY <2>6 DEF FailIngest, KillIngest, Abandon, AbandonAppend, Land, cleanVars, external, local
      <3>2. QED
        BY <2>1, <2>2, <2>6, <3>1 DEF OneAtATime, Tasks
    <2>7. ASSUME EndIngest(j) PROVE OneAtATime'
      <3>1. pc[j] = "end" /\ pc'[j] = "idle"
        BY <2>1, <2>7 DEF EndIngest, EndRun, EndRefused, Forget
      <3>2. UNCHANGED cleanVars /\ task' \in Tasks
        BY <2>7 DEF EndIngest, Tasks
      <3>3. QED
        BY <2>1, <2>2, <3>1, <3>2 DEF OneAtATime, Tasks, cleanVars, external, local
    <2>8. QED
      BY <1>1, <2>3, <2>4, <2>5, <2>6, <2>7 DEF IngestTask
  <1>2. CASE CleanTask \/ KillClean
    <2>1. task = "clean" /\ writing' = writing /\ pc' = pc /\ writing = 0
      <3>1. task = "clean" /\ writing' = writing /\ pc' = pc
        BY <1>2 DEF CleanTask, CleanStep, ReadWatermark, CheckEmpty, Split, Merge, WriteQuarantine,
                    KillClean, Kill, vars, external
      <3>2. QED
        BY <3>1, AJob DEF OneAtATime
    <2>2. task' \in Tasks /\ (task' = "ingest" => at' = "idle")
      BY <1>2, <2>1 DEF CleanTask, KillClean, Kill, Finish, Tasks
    <2>3. QED
      BY <2>1, <2>2 DEF OneAtATime
  <1>3. ASSUME (\E r \in Rows : CommitSource(r)) \/ PipelineIdle \/ UNCHANGED pipelineVars
        PROVE  OneAtATime'
    <2>1. UNCHANGED <<task, pc, at, writing>>
      BY <1>3 DEF CommitSource, Commit, PipelineIdle, pipelineVars, vars, cleanVars, external, local
    <2>2. QED
      BY <2>1 DEF OneAtATime
  <1>4. QED
    BY <1>1, <1>2, <1>3 DEF PipelineNext

LEMMA AheadStays ==
  ASSUME SettleInv, CleanInv, FetchedOK, OneAtATime, Ahead, [PipelineNext]_pipelineVars
  PROVE  Ahead'
  <1>1. wall \in Nat /\ writing \in Nat /\ \A k \in Keys : silver[k].loaded \in Nat /\ silver[k].loaded <= wall
    BY DEF CleanInv, CleanTypeOK, RowsOK, SilverRow
  <1>2. ASSUME NEW j \in Jobs, BeginWrite(j) PROVE Ahead'
    <2>1. wall' \in Nat /\ writing' = wall'
      BY <1>1, <1>2 DEF BeginWrite, BeginAppend, Now
    <2>2. UNCHANGED <<late, silver, at, seen, visible>>
      BY <1>2 DEF BeginWrite, BeginAppend, local
    <2>3. QED
      BY <1>1, <1>2, <2>1, <2>2 DEF Ahead, BeginWrite
  <1>3. ASSUME NEW j \in Jobs, task = "ingest", Land(fetched[j]) PROVE Ahead'
    <2>1. PICK w \in Watermark :
            late' = late \cup {b \in {[version |-> v, stamp |-> writing] : v \in fetched[j]} : b.stamp <= w}
      BY <1>3 DEF Land
    <2>2. w < writing /\ w \in Nat
      BY <1>1, <1>3 DEF Land, Watermark, Ahead
    <2>3. late' = {}
      BY <1>1, <2>1, <2>2 DEF Ahead
    <2>4. at = "idle" /\ at' = at /\ writing' = 0
      BY <1>3 DEF OneAtATime, Land, local
    <2>5. QED
      BY <2>3, <2>4 DEF Ahead
  <1>4. CASE Abandon \/ UNCHANGED cleanVars
    <2>1. UNCHANGED <<late, silver, at, seen, visible>> /\ (writing' = writing \/ writing' = 0)
      BY <1>4 DEF Abandon, AbandonAppend, cleanVars, external, local
    <2>2. QED
      BY <2>1 DEF Ahead
  <1>5. ASSUME NEW j \in Jobs, IngestTask(j) PROVE Ahead'
    BY <1>2, <1>3, <1>4, <1>5 DEF IngestTask, Write, FailIngest, KillIngest, EndIngest
  <1>6. CASE task = "clean" /\ (CleanStep \/ Kill)
    <2>1. writing = 0 /\ writing' = writing /\ visible' = visible
      <3>1. writing = 0
        BY <1>6, AJob DEF OneAtATime
      <3>2. QED
        BY <1>6, <3>1 DEF CleanStep, ReadWatermark, CheckEmpty, Split, Merge, WriteQuarantine, Kill,
                          external
    <2>2. late' = {} /\ (at' \in {"merge", "quarantine"} => seen' = visible)
      <3>1. CASE Merge
        <4>1. seen = visible /\ seen' = seen
          BY <3>1 DEF Merge, Ahead
        <4>2. late' = {}
          BY <3>1, <4>1, MergeWrites DEF Ahead, CleanInv
        <4>3. QED
          BY <4>1, <4>2
      <3>2. CASE Split
        BY <3>2 DEF Split, Ahead
      <3>3. CASE ReadWatermark \/ CheckEmpty \/ WriteQuarantine \/ Kill
        BY <3>3 DEF ReadWatermark, CheckEmpty, WriteQuarantine, Kill, Finish, Ahead
      <3>4. QED
        BY <1>6, <3>1, <3>2, <3>3 DEF CleanStep
    <2>3. QED
      BY <2>1, <2>2 DEF Ahead
  <1>7. QED
    BY <1>4, <1>5, <1>6 DEF PipelineNext, CommitSource, CleanTask, KillClean, PipelineIdle, pipelineVars

(* A cleaning that comes to its end accounts for all that it could read.   *)
LEMMA CleaningServes ==
  ASSUME CleanInv, Ahead, CleanStep, at' = "idle", NEW b \in visible
  PROVE  AccountedFor(b.version)'
  <1>1. b.version \in Versions
    BY DEF CleanInv, CleanTypeOK, BronzeRow
  <1>2. CASE WriteQuarantine
    BY <1>1, <1>2, AccountedStays DEF WriteQuarantine, CleanInv, JobOK, Ahead, CleanNext, CleanStep
  <1>3. CASE CheckEmpty
    <2>1. at = "check" /\ Fresh = {} /\ lastTs \in Watermark
      BY <1>3 DEF CheckEmpty, Finish, CleanInv, JobOK
    <2>2. b.stamp <= lastTs
      BY <2>1 DEF Fresh, CleanInv, CleanTypeOK, BronzeRow
    <2>3. Passed(b.version)
      BY <2>1, <2>2 DEF Passed, Ahead
    <2>4. AccountedFor(b.version)
      BY <1>1, <2>3 DEF CleanInv, NothingHiddenSilently
    <2>5. QED
      BY <1>1, <2>4, AccountedStays DEF CleanInv, CleanNext, CleanStep
  <1>4. QED
    BY <1>2, <1>3 DEF CleanStep, ReadWatermark, Split, Merge

LEMMA CurrentIsVersion ==
  ASSUME SettleInv, FetchedOK, NEW r \in Rows, source[r] # 0
  PROVE  Current(r) \in Versions
  <1>1. source[r] \in Nat /\ source[r] <= clock /\ clock \in Nat /\ clock <= MaxTime /\ MaxTime \in Nat
    BY BoundAssumption DEF SettleInv, TypeOK, InThePast, FetchedOK
  <1>2. source[r] \in 1..MaxTime
    BY <1>1
  <1>3. QED
    BY <1>2, PipelineAssumption DEF Current

LEMMA ServedStays ==
  ASSUME PipelineInv, [PipelineNext]_pipelineVars PROVE ServedOK'
  <1>1. [Next]_vars /\ [CleanNext]_cleanVars
    BY PartsStep DEF PipelineInv
  <1>2. clock \in Nat /\ clock' \in Nat /\ clock <= clock'
    BY <1>1, SourceGrows DEF PipelineInv, SettleInv, TypeOK
  <1>3. ASSUME NEW r \in Rows, AccountedFor(Current(r)), source[r] # 0, source'[r] = source[r]
        PROVE  AccountedFor(Current(r))'
    <2>1. AccountedFor(Current(r))' <=> \E u \in Versions :
            /\ KeyOf[u] = KeyOf[Current(r)] /\ UpdatedAt[u] >= UpdatedAt[Current(r)]
            /\ silver'[KeyOf[u]].version = u \/ (~Valid[u] /\ Told(u)')
      BY <1>3 DEF AccountedFor, Current
    <2>2. \A v \in Versions : AccountedFor(v) => \E u \in Versions :
            /\ KeyOf[u] = KeyOf[v] /\ UpdatedAt[u] >= UpdatedAt[v]
            /\ silver'[KeyOf[u]].version = u \/ (~Valid[u] /\ Told(u)')
      BY <1>1, AccountedStays DEF PipelineInv, CleanInv, AccountedFor
    <2>3. QED
      BY <1>3, <2>1, <2>2, CurrentIsVersion DEF PipelineInv
  <1>4. CASE served' = served /\ source' = source /\ raced' = raced
    BY <1>2, <1>3, <1>4 DEF PipelineInv, ServedOK, Raced
  <1>5. ASSUME NEW q \in Rows, CommitSource(q) PROVE ServedOK'
    <2>1. PICK lag \in 0..MaxLag :
            /\ source' = [source EXCEPT ![q] = clock + 1 - lag]
            /\ raced' = IF lag > 0 \/ TornRead(q)
                        THEN raced \cup {[row |-> q, ts |-> clock + 1 - lag]} ELSE raced
      BY <1>5 DEF CommitSource, Commit
    <2>2. served' = served
      BY <1>5 DEF CommitSource
    <2>3. \A t \in served' : t \in Nat /\ t <= clock /\ t <= clock'
      BY <1>2, <2>2 DEF PipelineInv, ServedOK
    <2>4. ASSUME NEW t \in served', NEW r \in Rows,
                 source'[r] # 0, source'[r] <= t, ~Raced(r)'
          PROVE  AccountedFor(Current(r))'
      <3>1. CASE r = q
        <4>1. source'[q] = clock + 1 - lag
          BY <2>1 DEF PipelineInv, SettleInv, TypeOK
        <4>2. lag \in Nat /\ ~(lag > 0)
          BY <2>1, <2>4, <3>1, <4>1, BoundAssumption DEF Raced
        <4>3. QED
          BY <1>2, <2>3, <2>4, <3>1, <4>1, <4>2
      <3>2. CASE r # q
        <4>1. source'[r] = source[r] /\ ~Raced(r)
          BY <2>1, <2>4, <3>2 DEF PipelineInv, SettleInv, TypeOK, Raced
        <4>2. QED
          BY <1>3, <2>2, <2>4, <4>1 DEF PipelineInv, ServedOK
      <3>3. QED
        BY <3>1, <3>2
    <2>5. QED
      BY <2>3, <2>4 DEF ServedOK
  <1>6. ASSUME CleanTask, at' = "idle" PROVE ServedOK'
    <2>1. UNCHANGED <<clock, source, raced, bronze, runs>> /\ served' = Succeeded /\ CleanStep
      BY <1>6 DEF CleanTask, vars
    <2>2. \A t \in Succeeded : t \in Nat /\ t <= clock
      BY RunFields DEF Succeeded, PipelineInv, SettleInv, InThePast
    <2>3. ASSUME NEW t \in Succeeded, NEW r \in Rows, source[r] # 0, source[r] <= t, ~Raced(r)
          PROVE  AccountedFor(Current(r))'
      <3>1. InBronze(r)
        BY <2>3 DEF Succeeded, PipelineInv, SettleInv, RunsSettle, Settled
      <3>2. PICK b \in visible : b.version = Current(r)
        BY <3>1 DEF InBronze, PipelineInv, Linked, IsVisible, Current
      <3>3. AccountedFor(b.version)'
        BY <1>6, <2>1, CleaningServes DEF PipelineInv
      <3>4. QED
        BY <2>1, <3>2, <3>3 DEF AccountedFor, Current
    <2>4. QED
      BY <2>1, <2>2, <2>3 DEF ServedOK, Raced
  <1>7. ASSUME (\E j \in Jobs : IngestTask(j)) \/ KillClean \/ PipelineIdle \/ UNCHANGED pipelineVars
        PROVE  served' = served /\ source' = source /\ raced' = raced
    BY <1>7 DEF IngestTask, Start, ReadPartition, Aggregate, Recompute, BeginWrite, Write, AppendBronze,
                FailIngest, Fail, KillIngest, Crash, EndIngest, EndRun, EndRefused, KillClean,
                PipelineIdle, pipelineVars, vars
  <1>8. ASSUME CleanTask, at' # "idle" PROVE served' = served /\ source' = source /\ raced' = raced
    BY <1>8 DEF CleanTask, vars
  <1>9. QED
    BY <1>4, <1>5, <1>6, <1>7, <1>8 DEF PipelineNext

LEMMA PipelineStep == PipelineInv /\ [PipelineNext]_pipelineVars => PipelineInv'
  <1> SUFFICES ASSUME PipelineInv, [PipelineNext]_pipelineVars PROVE PipelineInv'
    OBVIOUS
  <1>1. [Next]_vars /\ [CleanNext]_cleanVars
    BY PartsStep DEF PipelineInv
  <1>2. SettleInv' /\ CleanInv' /\ FetchedOK'
    BY <1>1, SettleStep, BronzeStep, FetchedStays DEF PipelineInv
  <1>3. Linked' /\ OneAtATime' /\ Ahead' /\ ServedOK'
    BY LinkedStays, OneAtATimeStays, AheadStays, ServedStays DEF PipelineInv
  <1>4. QED
    BY <1>2, <1>3 DEF PipelineInv

LEMMA Pipeline == PipelineSpec => []PipelineInv
  BY PipelineStart, PipelineStep, PTL DEF PipelineSpec

(* The pipeline is an execution of each of its parts: what is proved of    *)
(* the ingestion and of the cleaning, alone, holds of them here.           *)
THEOREM PipelineImplementsParts == PipelineSpec => Spec /\ CleanSpec
  <1>1. PipelineInit => Init /\ CleanInit
    BY DEF PipelineInit
  <1>2. PipelineInv /\ [PipelineNext]_pipelineVars => [Next]_vars /\ [CleanNext]_cleanVars
    BY PartsStep DEF PipelineInv
  <1>3. QED
    BY <1>1, <1>2, Pipeline, PTL DEF PipelineSpec, Spec, CleanSpec

(* Under the schedule of the pipeline no row of Bronze is overtaken by the *)
(* watermark of Silver before a cleaning has read it.                      *)
THEOREM RowsStayAhead == PipelineSpec => []NothingOvertaken
  <1>1. PipelineInv => NothingOvertaken
    BY DEF PipelineInv, Ahead, NothingOvertaken
  <1>2. QED
    BY <1>1, Pipeline, PTL

(* What accounts for a current version is of the same microsecond: nothing *)
(* newer is in Bronze.                                                     *)
LEMMA OnlyCurrentAccounts ==
  ASSUME PipelineInv, NEW r \in Rows, source[r] # 0, AccountedFor(Current(r))
  PROVE  ShowsCurrent(r)
  <1>1. Current(r) \in Versions /\ KeyOf[Current(r)] = r /\ UpdatedAt[Current(r)] = source[r] \div Tick
    <2>1. Current(r) \in Versions
      BY CurrentIsVersion DEF PipelineInv
    <2>2. QED
      BY <2>1, PipelineAssumption DEF Current
  <1>2. PICK u \in Versions :
          /\ KeyOf[u] = r /\ UpdatedAt[u] >= source[r] \div Tick
          /\ silver[KeyOf[u]].version = u \/ (~Valid[u] /\ Told(u))
    BY <1>1 DEF AccountedFor
  <1>3. u.row = r /\ u.ts \in Nat /\ UpdatedAt[u] = u.ts \div Tick /\ r \in Keys
    BY <1>2, PipelineAssumption, BoundAssumption
  <1>4. IsVisible(u)
    <2>1. silver[r].version = u => IsVisible(u)
      BY <1>3, VersionAssumption DEF PipelineInv, CleanInv, RowsOK, NoRow
    <2>2. Told(u) => IsVisible(u)
      BY DEF Told, PipelineInv, CleanInv, FromBronze
    <2>3. QED
      BY <1>2, <2>1, <2>2
  <1>5. u.ts <= source[r] /\ source[r] \in Nat
    BY <1>3, <1>4 DEF IsVisible, PipelineInv, Linked, SettleInv, TypeOK
  <1>6. u.ts \div Tick <= source[r] \div Tick
    BY <1>3, <1>5, TickAssumption
  <1>7. UpdatedAt[u] = source[r] \div Tick
    BY <1>2, <1>3, <1>5, <1>6, TickAssumption
  <1>8. QED
    BY <1>2, <1>3, <1>7 DEF ShowsCurrent

(* From the source to Silver: what was committed before the start of a     *)
(* successful ingestion, and is current, is shown or reported after the    *)
(* cleaning, whatever failed in between.                                   *)
THEOREM SuccessesAreServed == PipelineSpec => []EverySuccessIsServed
  <1>1. PipelineInv => EverySuccessIsServed
    BY OnlyCurrentAccounts DEF PipelineInv, ServedOK, EverySuccessIsServed
  <1>2. QED
    BY <1>1, Pipeline, PTL
=============================================================================
