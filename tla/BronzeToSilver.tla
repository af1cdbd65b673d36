--------------------------- MODULE BronzeToSilver ---------------------------
(***************************************************************************)
(* The cleaning job (src/cleaning/bronze_to_silver.py): it takes the Bronze *)
(* rows ingested after the newest _silver_load_ts, keeps the newest version *)
(* per key, MERGEs the valid ones into Silver and appends the rejected ones *)
(* to the quarantine table.                                                *)
(*                                                                         *)
(* Bronze is external: a writer stamps its rows when its append starts and *)
(* they become visible when it commits, possibly while the job runs, or it *)
(* comes to nothing.  One source version may be ingested several times.    *)
(* Names are disjoint from those of WatermarkIngestion, which is such a    *)
(* writer: module DailyPipeline composes the two.                          *)
(***************************************************************************)
EXTENDS Naturals, FiniteSets

CONSTANTS
  Keys,        \* order_id
  Versions,    \* versions of orders the source ever had
  KeyOf,       \* the order each version is of
  UpdatedAt,   \* its updated_at
  Valid,       \* does it pass the null and range checks, once parsed?
  NoVersion,   \* no row in Silver
  MaxAppends,  \* bound on appends to Bronze
  Extracts,    \* what the rows of an append may be, as sets of versions
  MaxCrashes   \* bound on killed cleaning runs

ASSUME VersionAssumption ==
  /\ KeyOf \in [Versions -> Keys]
  /\ UpdatedAt \in [Versions -> Nat]
  /\ Valid \in [Versions -> BOOLEAN]
  /\ NoVersion \notin Versions
ASSUME ExtractAssumption    == Extracts \subseteq SUBSET Versions
ASSUME CleanBoundAssumption == \A n \in {MaxAppends, MaxCrashes} : n \in Nat

VARIABLES
  wall,        \* the last time anything was stamped with
  appends,     \* appends started
  writing,     \* the stamp of the append under way, or 0
  visible,     \* visible rows: [version, stamp], stamp = _ingestion_timestamp
  late,        \* rows a run's stamp overtook before it could read them (history)
  silver,      \* per key [version, loaded], loaded = _silver_load_ts
  quarantine,  \* versions reported at least once
  unreported,  \* rejects of runs killed after their MERGE (history)
  at,          \* the next step of the cleaning job
  lastTs,      \* last_silver_ts
  seen,        \* rows that were visible when the batch was read (history)
  batch,       \* the deduplicated batch
  crashes

external  == <<appends, writing, visible>>
local     == <<at, lastTs, seen, batch>>
cleanVars == <<wall, external, late, silver, quarantine, unreported, local, crashes>>

BronzeRow == [version : Versions, stamp : Nat]
SilverRow == [version : Versions \cup {NoVersion}, loaded : Nat]
NoRow     == [version |-> NoVersion, loaded |-> 0]

-----------------------------------------------------------------------------
(* COALESCE(MAX(_silver_load_ts), '1900-01-01'), as a set of one time.     *)
Watermark ==
  {w \in {0} \cup {silver[k].loaded : k \in Keys} : \A k \in Keys : silver[k].loaded <= w}

(* Rows not yet promoted: _ingestion_timestamp > last_silver_ts.           *)
Fresh == {b \in visible : b.stamp > lastTs}

(* Trimming, casting and parsing: what is left of a row is its version.    *)
Cleaned(rows) == {b.version : b \in rows}

\* Variant: ORDER BY updated_at ASC.
IsOldestPerKey(S, rows) ==
  /\ S \subseteq rows
  /\ \A v \in rows : \E u \in S : KeyOf[u] = KeyOf[v] /\ UpdatedAt[u] <= UpdatedAt[v]
  /\ \A u, v \in S : KeyOf[u] = KeyOf[v] => u = v

(* deduplicate: one version per key, none older than another of the rows.  *)
IsDeduplicated(S, rows) ==
  /\ S \subseteq rows
  /\ \A v \in rows : \E u \in S : KeyOf[u] = KeyOf[v] /\ UpdatedAt[u] >= UpdatedAt[v]
  /\ \A u, v \in S : KeyOf[u] = KeyOf[v] => u = v

\* Variant: rejects of orders that Silver has are not worth a report.
RejectsOfUnknown(S) == {v \in S : ~Valid[v] /\ silver[KeyOf[v]] = NoRow}

(* split_valid_quarantine.                                                 *)
ValidOf(S)   == {v \in S : Valid[v]}
RejectsOf(S) == {v \in S : ~Valid[v]}

\* Variant: WHEN MATCHED without a condition.
AlwaysReplaces(v) == TRUE

(* WHEN MATCHED AND src.updated_at > target.updated_at, or NOT MATCHED.    *)
Replaces(v) ==
  LET row == silver[KeyOf[v]]
  IN  row = NoRow \/ UpdatedAt[v] > UpdatedAt[row.version]

-----------------------------------------------------------------------------
CleanInit ==
  /\ wall = 0
  /\ appends = 0
  /\ writing = 0
  /\ visible = {}
  /\ late = {}
  /\ silver = [k \in Keys |-> NoRow]
  /\ quarantine = {}
  /\ unreported = {}
  /\ at = "idle"
  /\ lastTs = 0
  /\ seen = {}
  /\ batch = {}
  /\ crashes = 0

(* current_timestamp(): two statements may get the same one.               *)
Now == {wall, wall + 1}

(* An ingestion job starts an append: its rows will carry this stamp.      *)
BeginAppend ==
  /\ writing = 0
  /\ appends < MaxAppends
  /\ appends' = appends + 1
  /\ \E now \in Now \ {0} : writing' = now /\ wall' = now
  /\ UNCHANGED <<visible, late, silver, quarantine, unreported, local, crashes>>

(* The append commits: its rows are visible, with the stamp of its start.  *)
Land(extract) ==
  /\ writing # 0
  /\ \E w \in Watermark :
       LET landed == {[version |-> v, stamp |-> writing] : v \in extract}
       IN  /\ visible' = visible \cup landed
           /\ late' = late \cup {b \in landed : b.stamp <= w}
  /\ writing' = 0
  /\ UNCHANGED <<wall, appends, silver, quarantine, unreported, local, crashes>>

CommitAppend == \E extract \in Extracts : Land(extract)

(* The append, or the job that makes it, fails.                            *)
AbandonAppend ==
  /\ writing # 0
  /\ writing' = 0
  /\ UNCHANGED <<wall, appends, visible, late, silver, quarantine, unreported, local, crashes>>

(* The job starts and collects the watermark.                              *)
ReadWatermark ==
  /\ at = "idle"
  /\ lastTs' \in Watermark
  /\ at' = "check"
  /\ UNCHANGED <<wall, external, late, silver, quarantine, unreported, seen, batch, crashes>>

Finish ==
  /\ at' = "idle"
  /\ lastTs' = 0
  /\ seen' = {}
  /\ batch' = {}

(* bronze_df.isEmpty(): nothing to process, or go on.                      *)
CheckEmpty ==
  /\ at = "check"
  /\ IF Fresh = {} THEN Finish ELSE at' = "split" /\ UNCHANGED <<lastTs, seen, batch>>
  /\ UNCHANGED <<wall, external, late, silver, quarantine, unreported, crashes>>

(* Bronze is read again, cleaned, deduplicated, and persisted by count().  *)
Split ==
  /\ at = "split"
  /\ \E S \in SUBSET Versions : IsDeduplicated(S, Cleaned(Fresh)) /\ batch' = S
  /\ seen' = visible
  /\ at' = "merge"
  /\ UNCHANGED <<wall, external, late, silver, quarantine, unreported, lastTs, crashes>>

(* The MERGE: valid versions are inserted or updated, stamped now.         *)
Merge ==
  /\ at = "merge"
  /\ LET changed == {v \in ValidOf(batch) : Replaces(v)}
     IN  \E now \in Now \ {0} :
           /\ silver' = [k \in Keys |->
                IF \E v \in changed : KeyOf[v] = k
                THEN [version |-> CHOOSE v \in changed : KeyOf[v] = k, loaded |-> now]
                ELSE silver[k]]
           /\ wall' = IF changed = {} THEN wall ELSE now
           /\ late' = IF changed = {} THEN late
                      ELSE late \cup {b \in visible \ seen : b.stamp <= now}
  /\ at' = "quarantine"
  /\ UNCHANGED <<external, quarantine, unreported, lastTs, seen, batch, crashes>>

\* Variant: if quarantine_count > 1.
WriteQuarantineOfMany ==
  /\ at = "quarantine"
  /\ quarantine' = IF Cardinality(RejectsOf(batch)) > 1 THEN quarantine \cup RejectsOf(batch)
                                                        ELSE quarantine
  /\ Finish
  /\ UNCHANGED <<wall, external, late, silver, unreported, crashes>>

(* write_to_quarantine, and the end of the job.                            *)
WriteQuarantine ==
  /\ at = "quarantine"
  /\ quarantine' = quarantine \cup RejectsOf(batch)
  /\ Finish
  /\ UNCHANGED <<wall, external, late, silver, unreported, crashes>>

(* A statement raises, the task times out, or the cluster is lost.         *)
Kill ==
  /\ crashes < MaxCrashes
  /\ at # "idle"
  /\ crashes' = crashes + 1
  /\ unreported' = IF at = "quarantine" THEN unreported \cup RejectsOf(batch) ELSE unreported
  /\ Finish
  /\ UNCHANGED <<wall, external, late, silver, quarantine>>

CleanStep == ReadWatermark \/ CheckEmpty \/ Split \/ Merge \/ WriteQuarantine

CleanNext == BeginAppend \/ CommitAppend \/ AbandonAppend \/ CleanStep \/ Kill

CleanSpec == CleanInit /\ [][CleanNext]_cleanVars

-----------------------------------------------------------------------------
IsVisible(v) == \E b \in visible : b.version = v

(* v is the newest visible version of its order.                           *)
Newest(v) ==
  /\ IsVisible(v)
  /\ \A u \in Versions \ {v} :
       IsVisible(u) /\ KeyOf[u] = KeyOf[v] => UpdatedAt[u] < UpdatedAt[v]

(* A row of v, not overtaken by a run's stamp, is below the watermark: no  *)
(* later run reads it.                                                     *)
Passed(v) ==
  \E b \in visible \ late, w \in Watermark : b.version = v /\ b.stamp <= w

(* A reject is in quarantine, or about to be, or its run was killed.       *)
Told(v) == v \in quarantine \cup unreported \/ (at = "quarantine" /\ v \in batch)

(* Silver shows, or a report names, v or a version at least as new.        *)
AccountedFor(v) ==
  \E u \in Versions :
    /\ KeyOf[u] = KeyOf[v] /\ UpdatedAt[u] >= UpdatedAt[v]
    /\ silver[KeyOf[u]].version = u \/ (~Valid[u] /\ Told(u))

(* Type correctness of the three tables and the job's local state.         *)
CleanTypeOK ==
  /\ wall \in Nat /\ appends \in Nat /\ lastTs \in Nat /\ crashes \in Nat
  /\ writing \in Nat /\ visible \subseteq BronzeRow
  /\ late \subseteq BronzeRow /\ seen \subseteq BronzeRow
  /\ silver \in [Keys -> SilverRow]
  /\ quarantine \subseteq Versions /\ unreported \subseteq Versions /\ batch \subseteq Versions
  /\ at \in {"idle", "check", "split", "merge", "quarantine"}

(* The newest version of an order, once passed by the watermark, is the    *)
(* one Silver shows, if it is valid: neither older rows ingested later,    *)
(* nor duplicates, nor runs killed anywhere displace or skip it.           *)
LatestVersionServed ==
  \A v \in Versions :
    Newest(v) /\ Passed(v) /\ Valid[v] => silver[KeyOf[v]].version = v

(* ... and it is reported if it is not valid, or its run was killed after  *)
(* the MERGE that moved the watermark, or has yet to report it.            *)
RejectsAreReported ==
  \A v \in Versions :
    Newest(v) /\ Passed(v) /\ ~Valid[v] => Told(v)

(* Duplicates are removed before validity is decided, so an invalid        *)
(* version can hide a valid older one, but never in silence: whatever the  *)
(* watermark has passed is shown, or gave way to a version at least as new *)
(* that Silver shows or a report names.                                    *)
NothingHiddenSilently == \A v \in Versions : Passed(v) => AccountedFor(v)
=============================================================================
