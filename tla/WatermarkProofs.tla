-------------------------- MODULE WatermarkProofs --------------------------
(***************************************************************************)
(* Proofs about WatermarkIngestion, for every table, partitioning, number  *)
(* of jobs, clock granularity, commit lag and number of failures.          *)
(*                                                                         *)
(* Everything at or below a point of the clock is "settled" when its       *)
(* current versions are in Bronze.  The invariant says that the starting   *)
(* point of every run is settled, that a run which is reading has captured *)
(* what lies above it, and that a run which is about to succeed has        *)
(* settled both the moment it started and the watermark it will record.    *)
(***************************************************************************)
EXTENDS WatermarkIngestion, TLAPS

Settled(w) ==
  \A r \in Rows : source[r] # 0 /\ source[r] <= w /\ ~Raced(r) => InBronze(r)

Active(j) == pc[j] # "idle"
Base(j)   == runs[run[j]].watermark
AsOf(j)   == runs[run[j]].asof

\* The watermark end_run will leave in the record of j's run.
EndWatermark(j) ==
  IF verdict[j].watermark = NoWatermark THEN Base(j) ELSE verdict[j].watermark

\* An active job owns a RUNNING record of its own.
OwnRun ==
  \A j \in Jobs : Active(j) =>
    /\ run[j] \in DOMAIN runs
    /\ runs[run[j]].status = "RUNNING"
    /\ \A k \in Jobs : Active(k) /\ run[k] = run[j] => k = j

\* Nothing is stamped later than the clock.
InThePast ==
  /\ \A r \in Rows : source[r] <= clock
  /\ \A i \in DOMAIN runs : runs[i].watermark <= clock /\ runs[i].asof <= clock
  /\ \A j \in Jobs : verdict[j].watermark <= clock /\ \A v \in fetched[j] : v.ts <= clock

\* Every run starts from a settled point, and settles what it promises.
RunsSettle ==
  \A i \in DOMAIN runs :
    /\ runs[i].status \in {"RUNNING", "SUCCESS"} => Settled(runs[i].watermark)
    /\ runs[i].status = "SUCCESS" => Settled(runs[i].asof)

\* While the partitions are read: what is committed above the starting point, in a
\* partition already read, was captured, or is newer than all that was captured.
ReadCaptures(j) ==
  pc[j] = "read" =>
    /\ verdict[j] = Unfinished
    /\ \A r \in Rows :
         /\ PartitionOf[r] \notin todo[j]
         /\ source[r] > Base(j)
         /\ ~Raced(r)
         => \/ [row |-> r, ts |-> source[r]] \in fetched[j]
            \/ /\ todo[j] = {}
               /\ source[r] > AsOf(j)
               /\ \A v \in fetched[j] : v.ts < source[r]

\* Before the append: captured, or newer than what the run will promise.
AppendCaptures(j) ==
  pc[j] = "append" =>
    /\ verdict[j].status = "FAILED"
    /\ \A r \in Rows :
         source[r] > Base(j) /\ ~Raced(r)
         => \/ [row |-> r, ts |-> source[r]] \in fetched[j]
            \/ source[r] > AsOf(j) /\ source[r] > verdict[j].watermark

\* After it: the promise holds.
EndSettles(j) ==
  pc[j] = "end" /\ verdict[j].status = "SUCCESS" =>
    Settled(EndWatermark(j)) /\ Settled(AsOf(j))

JobInv(j) == ReadCaptures(j) /\ AppendCaptures(j) /\ EndSettles(j)

SettleInv ==
  /\ TypeOK
  /\ OwnRun
  /\ InThePast
  /\ RunsSettle
  /\ \A j \in Jobs : JobInv(j)

-----------------------------------------------------------------------------
(* Cutting a stamp to the watermark's unit never makes it later.           *)
LEMMA WatermarkCut ==
  ASSUME NEW ts \in Nat
  PROVE  AsWatermark(ts) \in Nat /\ AsWatermark(ts) <= ts
  <1> DEFINE q == ts \div Tick
  <1>1. Tick \in Nat /\ Tick > 0
    BY TickAssumption
  <1>2. q \in Nat /\ ts = Tick * q + (ts % Tick) /\ (ts % Tick) \in 0..(Tick - 1)
    BY <1>1
  <1>3. q * Tick \in Nat /\ q * Tick <= ts
    BY <1>1, <1>2
  <1>4. QED
    BY <1>3 DEF AsWatermark

(* The fields of a run record.                                             *)
LEMMA RunFields ==
  ASSUME TypeOK, NEW i \in DOMAIN runs
  PROVE  /\ runs[i] \in Metadata
         /\ runs[i].watermark \in Nat /\ runs[i].asof \in Nat
         /\ runs[i].status \in {"RUNNING", "SUCCESS", "FAILED"}
  <1>1. runs[i] \in Metadata
    BY DEF TypeOK
  <1>2. QED
    BY <1>1 DEF Metadata

(* What get_last_watermark can return.                                     *)
LEMMA LastWatermarkType ==
  ASSUME TypeOK, NEW w \in LastWatermark
  PROVE  /\ w \in Nat
         /\ w = 0 \/ \E i \in DOMAIN runs : runs[i].status = "SUCCESS" /\ runs[i].watermark = w
  <1>1. CASE w = 0
    BY <1>1
  <1>2. CASE w \in Watermarks
    <2>1. PICK i \in DOMAIN runs : runs[i].status = "SUCCESS" /\ runs[i].watermark = w
      BY <1>2 DEF Watermarks
    <2>2. QED
      BY <2>1, RunFields
  <1>3. QED
    BY <1>1, <1>2 DEF LastWatermark

(* A query returns current versions of one partition, above the start.     *)
LEMMA QueryType ==
  ASSUME TypeOK, NEW j \in Jobs, NEW p \in Partitions
  PROVE  Query(j, p) \subseteq Version
  BY DEF TypeOK, Query, Version

LEMMA AppendedType ==
  ASSUME TypeOK, NEW j \in Jobs
  PROVE  Appended(j) \subseteq [row : Rows, ts : Nat, run : Nat]
  BY DEF TypeOK, Appended, Version

-----------------------------------------------------------------------------
(* Type correctness, with the ownership of run records.                    *)
TypeInv == TypeOK /\ OwnRun

LEMMA TypeInit == Init => TypeInv
  BY DEF Init, TypeInv, TypeOK, OwnRun, Active, Unfinished, Verdict, Verdicts, NoWatermark

LEMMA ForgetKeepsTypes ==
  ASSUME TypeInv, NEW j \in Jobs, Forget(j), Active(j),
         UNCHANGED <<clock, source, raced, bronze>>, failures' \in Nat,
         \/ UNCHANGED runs
         \/ \E v \in Verdicts :
              runs' = [runs EXCEPT ![run[j]] = EndRecord(@, v)]
  PROVE  TypeInv'
  <1> USE DEF TypeInv
  <1>1. runs' \in Seq(Metadata)
    <2>1. CASE UNCHANGED runs
      BY <2>1 DEF TypeOK
    <2>2. ASSUME NEW v \in Verdicts,
                 runs' = [runs EXCEPT ![run[j]] = EndRecord(@, v)]
          PROVE  runs' \in Seq(Metadata)
      <3>1. run[j] \in DOMAIN runs
        BY DEF OwnRun
      <3>2. EndRecord(runs[run[j]], v)
              \in Metadata
        BY <3>1, RunFields DEF EndRecord, Metadata, Verdicts
      <3>3. QED
        BY <2>2, <3>1, <3>2 DEF TypeOK
    <2>3. QED
      BY <2>1, <2>2
  <1>2. TypeOK'
    BY <1>1 DEF TypeOK, Forget, Unfinished, Verdict, Verdicts, NoWatermark
  <1>3. DOMAIN runs' = DOMAIN runs /\ \A i \in DOMAIN runs : i # run[j] => runs'[i] = runs[i]
    BY DEF TypeOK
  <1>4. OwnRun'
    BY <1>3 DEF OwnRun, Active, Forget, TypeOK
  <1>5. QED
    BY <1>2, <1>4

LEMMA TypeStep == TypeInv /\ [Next]_vars => TypeInv'
  <1> SUFFICES ASSUME TypeInv, [Next]_vars PROVE TypeInv'
    OBVIOUS
  <1> USE DEF TypeInv
  <1>1. ASSUME NEW r \in Rows, Commit(r) PROVE TypeInv'
    <2>1. PICK lag \in 0..MaxLag : Commit(r)!3!(lag)
      BY <1>1 DEF Commit
    <2>2. clock' \in Nat /\ clock + 1 - lag \in Nat
      BY <1>1, <2>1, BoundAssumption DEF Commit, TypeOK
    <2>3. source' \in [Rows -> Nat] /\ raced' \subseteq Version
      BY <2>1, <2>2 DEF TypeOK, Version
    <2>4. QED
      BY <1>1, <2>2, <2>3 DEF Commit, TypeOK, OwnRun, Active
  <1>2. ASSUME NEW j \in Jobs, Start(j) PROVE TypeInv'
    <2>1. PICK w \in IF Strategy[j] = "full_refresh" THEN {0} ELSE LastWatermark :
             runs' = Append(runs, RunRecord("RUNNING", w, clock))
      BY <1>2 DEF Start
    <2>2. w \in Nat
      BY <2>1, LastWatermarkType
    <2>3. RunRecord("RUNNING", w, clock)
            \in Metadata
      BY <2>2 DEF RunRecord, TypeOK, Metadata
    <2>4. runs' \in Seq(Metadata)
      BY <2>1, <2>3 DEF TypeOK
    <2>5. TypeOK'
      BY <1>2, <2>4 DEF Start, TypeOK, Unfinished, Verdict, Verdicts, NoWatermark
    <2>6. /\ DOMAIN runs' = 1..(Len(runs) + 1) /\ DOMAIN runs = 1..Len(runs)
          /\ \A i \in DOMAIN runs : runs'[i] = runs[i]
          /\ runs'[Len(runs) + 1].status = "RUNNING"
      BY <2>1, <2>3 DEF TypeOK, RunRecord
    <2>7. OwnRun'
      BY <1>2, <2>6 DEF Start, OwnRun, Active, TypeOK
    <2>8. QED
      BY <2>5, <2>7
  <1>3. ASSUME NEW j \in Jobs, ReadPartition(j) PROVE TypeInv'
    <2>1. PICK p \in todo[j] : ReadPartition(j)!2!(p)
      BY <1>3 DEF ReadPartition
    <2>2. p \in Partitions
      BY DEF TypeOK
    <2>3. QED
      BY <1>3, <2>1, <2>2, QueryType DEF ReadPartition, TypeOK, OwnRun, Active
  <1>4. ASSUME NEW j \in Jobs, Aggregate(j) PROVE TypeInv'
    <2>1. run[j] \in DOMAIN runs
      BY <1>4 DEF Aggregate, OwnRun, Active
    <2>2. verdict' \in [Jobs -> Verdicts]
      <3>1. CASE verdict' = [verdict EXCEPT ![j] = Verdict("SUCCESS", runs[run[j]].watermark)]
        BY <2>1, <3>1, RunFields DEF TypeOK, Verdict, Verdicts
      <3>2. ASSUME NEW newest \in fetched[j],
                   verdict' = [verdict EXCEPT ![j].watermark =
                     IF Strategy[j] = "incremental" THEN AsWatermark(newest.ts) ELSE NoWatermark]
            PROVE  verdict' \in [Jobs -> Verdicts]
        <4>1. newest.ts \in Nat
          BY DEF TypeOK, Version
        <4>2. AsWatermark(newest.ts) \in Nat
          BY <4>1, WatermarkCut
        <4>3. QED
          BY <3>2, <4>2 DEF TypeOK, Verdicts
      <3>3. QED
        BY <1>4, <3>1, <3>2 DEF Aggregate
    <2>3. pc[j] = "read" /\ (pc' = [pc EXCEPT ![j] = "end"] \/ pc' = [pc EXCEPT ![j] = "append"])
      BY <1>4 DEF Aggregate
    <2>4. TypeOK'
      BY <1>4, <2>2, <2>3 DEF Aggregate, TypeOK
    <2>5. OwnRun'
      BY <1>4, <2>3 DEF Aggregate, TypeOK, OwnRun, Active
    <2>6. QED
      BY <2>4, <2>5
  <1>5. ASSUME NEW j \in Jobs, Recompute(j) PROVE TypeInv'
    <2>1. PICK p \in Partitions : Recompute(j)!4!(p)
      BY <1>5 DEF Recompute
    <2>2. fetched' \in [Jobs -> SUBSET Version]
      BY <2>1, QueryType DEF TypeOK
    <2>3. QED
      BY <1>5, <2>2 DEF Recompute, TypeOK, OwnRun, Active
  <1>6. ASSUME NEW j \in Jobs, AppendBronze(j) PROVE TypeInv'
    BY <1>6, AppendedType DEF AppendBronze, TypeOK, Verdicts, OwnRun, Active
  <1>7. ASSUME NEW j \in Jobs, Fail(j) PROVE TypeInv'
    BY <1>7, AppendedType DEF Fail, TypeOK, OwnRun, Active
  <1>8. ASSUME NEW j \in Jobs, EndRun(j) PROVE TypeInv'
    BY <1>8, ForgetKeepsTypes DEF EndRun, TypeOK, Active
  <1>9. ASSUME NEW j \in Jobs, Crash(j) \/ EndRefused(j) PROVE TypeInv'
    BY <1>9, ForgetKeepsTypes DEF Crash, EndRefused, TypeOK, Active
  <1>10. CASE UNCHANGED vars
    BY <1>10 DEF vars, TypeOK, OwnRun, Active
  <1>11. QED
    BY <1>1, <1>2, <1>3, <1>4, <1>5, <1>6, <1>7, <1>8, <1>9, <1>10 DEF Next, JobStep, Idle

(* Every variable keeps its type; a job that is not idle owns a RUNNING    *)
(* record that no other active job has.                                    *)
THEOREM TypeCorrect == Spec => [](TypeOK /\ OwnRun)
  BY TypeInit, TypeStep, PTL DEF Spec, TypeInv

-----------------------------------------------------------------------------
(* No update is skipped.                                                   *)

LEMMA SettleInit == Init => SettleInv
  <1> SUFFICES ASSUME Init PROVE SettleInv
    OBVIOUS
  <1>1. TypeOK /\ OwnRun
    BY TypeInit DEF TypeInv
  <1>2. InThePast
    BY DEF Init, InThePast, Unfinished, Verdict, NoWatermark
  <1>3. RunsSettle /\ \A j \in Jobs : JobInv(j)
    BY DEF Init, RunsSettle, JobInv, ReadCaptures, AppendCaptures, EndSettles
  <1>4. QED
    BY <1>1, <1>2, <1>3 DEF SettleInv

(* A commit that is not raced is newer than everything stamped so far, and *)
(* no job has read its partition while others were still to be read.       *)
LEMMA CommitSettles ==
  ASSUME SettleInv, TypeInv', NEW r \in Rows, Commit(r)
  PROVE  SettleInv'
  <1>1. PICK lag \in 0..MaxLag : Commit(r)!3!(lag)
    BY DEF Commit
  <1> DEFINE new == clock + 1 - lag
  <1>2. clock \in Nat /\ clock' = clock + 1 /\ new \in Nat /\ new <= clock'
    BY <1>1, BoundAssumption DEF Commit, SettleInv, TypeOK
  <1>3. /\ source' = [source EXCEPT ![r] = new] /\ raced \subseteq raced'
        /\ source \in [Rows -> Nat] /\ source' \in [Rows -> Nat]
    BY <1>1, <1>2 DEF SettleInv, TypeOK
  <1>4. /\ ~Raced(r)' => source'[r] = clock + 1 /\ ~TornRead(r)
        /\ \A q \in Rows : q # r => source'[q] = source[q] /\ (~Raced(q)' => ~Raced(q))
    <2>1. ~Raced(r)' => lag = 0 /\ ~TornRead(r)
      BY <1>1, <1>3 DEF Raced
    <2>2. ~Raced(r)' => source'[r] = clock + 1 /\ ~TornRead(r)
      BY <1>2, <1>3, <2>1
    <2>3. \A q \in Rows : q # r => source'[q] = source[q] /\ (~Raced(q)' => ~Raced(q))
      BY <1>3 DEF Raced
    <2>4. QED
      BY <2>2, <2>3
  <1>5. UNCHANGED <<bronze, runs, pc, run, todo, fetched, verdict>>
    BY DEF Commit
  <1>6. InThePast'
    <2>1. \A q \in Rows : source'[q] <= clock'
      BY <1>2, <1>3 DEF SettleInv, InThePast
    <2>2. \A i \in DOMAIN runs : runs[i].watermark <= clock' /\ runs[i].asof <= clock'
      BY <1>2, RunFields DEF SettleInv, InThePast
    <2>3. ASSUME NEW j \in Jobs
          PROVE  verdict[j].watermark <= clock' /\ \A v \in fetched[j] : v.ts <= clock'
      <3>1. verdict[j].watermark \in Int /\ \A v \in fetched[j] : v.ts \in Int
        BY DEF SettleInv, TypeOK, Verdicts, NoWatermark, Version
      <3>2. QED
        BY <1>2, <3>1 DEF SettleInv, InThePast
    <2>4. QED
      BY <1>5, <2>1, <2>2, <2>3 DEF InThePast
  <1>7. \A w \in Int : w <= clock /\ Settled(w) => Settled(w)'
    <2> SUFFICES ASSUME NEW w \in Int, w <= clock, Settled(w), NEW q \in Rows,
                        source'[q] # 0, source'[q] <= w, ~Raced(q)'
                 PROVE  InBronze(q)'
      BY DEF Settled
    <2>1. q # r
      BY <1>2, <1>4
    <2>2. InBronze(q)
      BY <1>4, <2>1 DEF Settled
    <2>3. QED
      BY <1>4, <1>5, <2>1, <2>2 DEF InBronze
  <1>8. RunsSettle'
    <2> SUFFICES ASSUME NEW i \in DOMAIN runs
                 PROVE  /\ runs[i].status \in {"RUNNING", "SUCCESS"} => Settled(runs[i].watermark)'
                        /\ runs[i].status = "SUCCESS" => Settled(runs[i].asof)'
      BY <1>5 DEF RunsSettle
    <2>1. /\ runs[i].watermark \in Int /\ runs[i].watermark <= clock
          /\ runs[i].asof \in Int /\ runs[i].asof <= clock
      BY RunFields DEF SettleInv, InThePast
    <2>2. PICK w \in Int, a \in Int : w = runs[i].watermark /\ a = runs[i].asof
      BY <2>1
    <2>3. runs[i].status \in {"RUNNING", "SUCCESS"} => Settled(w)'
      BY <1>7, <2>1, <2>2 DEF SettleInv, RunsSettle
    <2>4. runs[i].status = "SUCCESS" => Settled(a)'
      BY <1>7, <2>1, <2>2 DEF SettleInv, RunsSettle
    <2>5. QED
      BY <1>5, <2>2, <2>3, <2>4 DEF Settled
  <1>9. ASSUME NEW j \in Jobs PROVE ReadCaptures(j)'
    <2> SUFFICES ASSUME pc[j] = "read", NEW q \in Rows,
                        PartitionOf[q] \notin todo[j], source'[q] > Base(j), ~Raced(q)'
                 PROVE  \/ [row |-> q, ts |-> source'[q]] \in fetched[j]
                        \/ /\ todo[j] = {}
                           /\ source'[q] > AsOf(j)
                           /\ \A v \in fetched[j] : v.ts < source'[q]
      BY <1>5 DEF SettleInv, JobInv, ReadCaptures, Base, AsOf
    <2>1. CASE q # r
      BY <1>4, <2>1 DEF SettleInv, JobInv, ReadCaptures
    <2>2. CASE q = r
      <3>1. todo[j] = {}
        BY <1>4, <2>2 DEF TornRead
      <3>2. AsOf(j) <= clock /\ AsOf(j) \in Nat
        BY RunFields DEF SettleInv, OwnRun, Active, InThePast, AsOf
      <3>3. \A v \in fetched[j] : v.ts \in Nat /\ v.ts <= clock
        BY DEF SettleInv, InThePast, TypeOK, Version
      <3>4. QED
        BY <1>2, <1>4, <2>2, <3>1, <3>2, <3>3
    <2>3. QED
      BY <2>1, <2>2
  <1>10. ASSUME NEW j \in Jobs PROVE AppendCaptures(j)'
    <2> SUFFICES ASSUME pc[j] = "append", NEW q \in Rows,
                        source'[q] > Base(j), ~Raced(q)'
                 PROVE  \/ [row |-> q, ts |-> source'[q]] \in fetched[j]
                        \/ source'[q] > AsOf(j) /\ source'[q] > verdict[j].watermark
      BY <1>5 DEF SettleInv, JobInv, AppendCaptures, Base, AsOf
    <2>1. CASE q # r
      BY <1>4, <2>1 DEF SettleInv, JobInv, AppendCaptures
    <2>2. CASE q = r
      <3>1. AsOf(j) <= clock /\ AsOf(j) \in Nat
        BY RunFields DEF SettleInv, OwnRun, Active, InThePast, AsOf
      <3>2. verdict[j].watermark <= clock /\ verdict[j].watermark \in Int
        BY DEF SettleInv, InThePast, TypeOK, Verdicts, NoWatermark
      <3>3. QED
        BY <1>2, <1>4, <2>2, <3>1, <3>2
    <2>3. QED
      BY <2>1, <2>2
  <1>11. ASSUME NEW j \in Jobs PROVE EndSettles(j)'
    <2> SUFFICES ASSUME pc[j] = "end", verdict[j].status = "SUCCESS"
                 PROVE  Settled(EndWatermark(j))' /\ Settled(AsOf(j))'
      BY <1>5 DEF EndSettles
    <2>1. /\ AsOf(j) \in Int /\ AsOf(j) <= clock
          /\ Base(j) \in Int /\ Base(j) <= clock
      BY RunFields DEF SettleInv, OwnRun, Active, InThePast, AsOf, Base
    <2>2. EndWatermark(j) \in Int /\ EndWatermark(j) <= clock
      BY <2>1 DEF EndWatermark, SettleInv, InThePast, TypeOK, Verdicts, NoWatermark
    <2>3. PICK w \in Int, a \in Int : w = EndWatermark(j) /\ a = AsOf(j)
      BY <2>1, <2>2
    <2>4. Settled(w)' /\ Settled(a)'
      BY <1>7, <2>1, <2>2, <2>3 DEF SettleInv, JobInv, EndSettles
    <2>5. w = EndWatermark(j)' /\ a = AsOf(j)'
      BY <1>5, <2>3 DEF EndWatermark, Base, AsOf
    <2>6. QED
      BY <2>4, <2>5 DEF Settled
  <1>12. QED
    BY <1>6, <1>8, <1>9, <1>10, <1>11 DEF SettleInv, TypeInv, JobInv

(* A step that leaves the source alone and only adds to Bronze unsettles   *)
(* nothing.                                                                *)
LEMMA BronzeGrows ==
  ASSUME UNCHANGED <<source, raced>>, bronze \subseteq bronze', NEW w, Settled(w)
  PROVE  Settled(w)'
  BY DEF Settled, Raced, InBronze

(* What a job holds is not disturbed by a step that leaves its local state *)
(* and its run record alone.                                               *)
LEMMA BystanderKeeps ==
  ASSUME SettleInv, UNCHANGED <<source, raced>>, bronze \subseteq bronze',
         NEW k \in Jobs, pc'[k] = pc[k],
         Active(k) => /\ runs'[run'[k]] = runs[run[k]]
                      /\ todo'[k] = todo[k] /\ fetched'[k] = fetched[k]
                      /\ verdict'[k] = verdict[k]
  PROVE  JobInv(k)'
  <1>1. CASE ~Active(k)
    BY <1>1 DEF Active, JobInv, ReadCaptures, AppendCaptures, EndSettles
  <1>2. CASE Active(k)
    <2>1. Base(k)' = Base(k) /\ AsOf(k)' = AsOf(k) /\ EndWatermark(k)' = EndWatermark(k)
      BY <1>2 DEF Base, AsOf, EndWatermark
    <2>2. ReadCaptures(k)' /\ AppendCaptures(k)'
      BY <1>2, <2>1 DEF SettleInv, JobInv, ReadCaptures, AppendCaptures, Raced
    <2>3. PICK w, a : w = EndWatermark(k) /\ a = AsOf(k)
      OBVIOUS
    <2>4. Settled(w) => Settled(w)'
      BY BronzeGrows
    <2>5. Settled(a) => Settled(a)'
      BY BronzeGrows
    <2>6. w = EndWatermark(k)' /\ a = AsOf(k)'
      BY <2>1, <2>3
    <2>7. pc[k] = "end" /\ verdict[k].status = "SUCCESS" => Settled(w) /\ Settled(a)
      BY <2>3 DEF SettleInv, JobInv, EndSettles, Settled
    <2>8. EndSettles(k)'
      BY <1>2, <2>4, <2>5, <2>6, <2>7 DEF EndSettles, Settled
    <2>9. QED
      BY <2>2, <2>8 DEF JobInv
  <1>3. QED
    BY <1>1, <1>2

(* Records that stay as they are stay settled.                             *)
LEMMA RecordKeeps ==
  ASSUME SettleInv, UNCHANGED <<source, raced>>, bronze \subseteq bronze',
         NEW i \in DOMAIN runs, runs'[i] = runs[i]
  PROVE  /\ runs'[i].status \in {"RUNNING", "SUCCESS"} => Settled(runs[i].watermark)'
         /\ runs'[i].status = "SUCCESS" => Settled(runs[i].asof)'
  <1>1. PICK w, a : w = runs[i].watermark /\ a = runs[i].asof
    OBVIOUS
  <1>2. /\ runs[i].status \in {"RUNNING", "SUCCESS"} => Settled(w)
        /\ runs[i].status = "SUCCESS" => Settled(a)
    BY <1>1 DEF SettleInv, RunsSettle, Settled
  <1>3. Settled(w) => Settled(w)'
    BY BronzeGrows
  <1>4. Settled(a) => Settled(a)'
    BY BronzeGrows
  <1>5. w = runs'[i].watermark /\ a = runs'[i].asof
    BY <1>1
  <1>6. QED
    BY <1>2, <1>3, <1>4, <1>5 DEF Settled

LEMMA RecordsKeep ==
  ASSUME SettleInv, UNCHANGED <<source, raced, runs>>, bronze \subseteq bronze'
  PROVE  RunsSettle'
  BY RecordKeeps DEF RunsSettle

LEMMA StartSettles ==
  ASSUME SettleInv, TypeInv', NEW j \in Jobs, Start(j)
  PROVE  SettleInv'
  <1>1. PICK w \in IF Strategy[j] = "full_refresh" THEN {0} ELSE LastWatermark :
           runs' = Append(runs, RunRecord("RUNNING", w, clock))
    BY DEF Start
  <1>2. w \in Nat /\ w <= clock /\ Settled(w)
    <2>1. TypeOK /\ clock \in Nat /\ source \in [Rows -> Nat]
      BY DEF SettleInv, TypeOK
    <2>2. CASE w = 0
      BY <2>1, <2>2 DEF Settled
    <2>3. CASE w # 0
      <3>1. w \in LastWatermark
        BY <1>1, <2>3
      <3>2. PICK i \in DOMAIN runs : runs[i].status = "SUCCESS" /\ runs[i].watermark = w
        BY <2>1, <2>3, <3>1, LastWatermarkType
      <3>3. Settled(w)
        BY <3>2 DEF SettleInv, RunsSettle, Settled
      <3>4. QED
        BY <2>1, <3>2, <3>3, RunFields DEF SettleInv, InThePast
    <2>4. QED
      BY <2>2, <2>3
  <1>3. /\ DOMAIN runs' = 1..(Len(runs) + 1) /\ DOMAIN runs = 1..Len(runs)
        /\ \A i \in DOMAIN runs : runs'[i] = runs[i]
        /\ runs'[Len(runs) + 1] = RunRecord("RUNNING", w, clock)
        /\ Len(runs) \in Nat
    BY <1>1 DEF SettleInv, TypeOK
  <1>4. UNCHANGED <<clock, source, raced, bronze>>
    BY DEF Start
  <1>5. clock \in Nat
    BY DEF SettleInv, TypeOK
  <1>6. InThePast'
    <2>1. \A i \in DOMAIN runs' : runs'[i].watermark <= clock /\ runs'[i].asof <= clock
      <3> SUFFICES ASSUME NEW i \in DOMAIN runs'
                   PROVE  runs'[i].watermark <= clock /\ runs'[i].asof <= clock
        OBVIOUS
      <3>1. CASE i \in DOMAIN runs
        BY <1>3, <3>1 DEF SettleInv, InThePast
      <3>2. CASE i = Len(runs) + 1
        BY <1>2, <1>3, <1>5, <3>2 DEF RunRecord
      <3>3. QED
        BY <1>3, <3>1, <3>2
    <2>2. ASSUME NEW k \in Jobs
          PROVE  verdict'[k].watermark <= clock /\ \A v \in fetched'[k] : v.ts <= clock
      <3>1. verdict'[k] = Unfinished \/ verdict'[k] = verdict[k]
        BY DEF Start, SettleInv, TypeOK
      <3>2. fetched'[k] = {} \/ fetched'[k] = fetched[k]
        BY DEF Start, SettleInv, TypeOK
      <3>3. QED
        BY <1>5, <3>1, <3>2 DEF SettleInv, InThePast, Unfinished, Verdict, NoWatermark
    <2>3. QED
      BY <1>4, <2>1, <2>2 DEF InThePast, SettleInv
  <1>7. RunsSettle'
    <2> SUFFICES ASSUME NEW i \in DOMAIN runs'
                 PROVE  /\ runs'[i].status \in {"RUNNING", "SUCCESS"} => Settled(runs[i].watermark)'
                        /\ runs'[i].status = "SUCCESS" => Settled(runs[i].asof)'
      BY DEF RunsSettle
    <2>1. CASE i \in DOMAIN runs
      BY <1>3, <1>4, <2>1, RecordKeeps
    <2>2. CASE i = Len(runs) + 1
      <3>1. runs'[i].status = "RUNNING" /\ runs'[i].watermark = w
        BY <1>3, <2>2 DEF RunRecord
      <3>2. QED
        BY <1>2, <1>4, <3>1 DEF Settled, Raced, InBronze
    <2>3. QED
      BY <1>3, <2>1, <2>2
  <1>8. ASSUME NEW k \in Jobs PROVE JobInv(k)'
    <2>1. CASE k = j
      <3>1. pc'[j] = "read" /\ todo'[j] = Partitions /\ verdict'[j] = Unfinished
        BY DEF Start, SettleInv, TypeOK
      <3>2. QED
        BY <2>1, <3>1, PartitionAssumption
        DEF JobInv, ReadCaptures, AppendCaptures, EndSettles
    <2>2. CASE k # j
      <3>1. /\ pc'[k] = pc[k] /\ run'[k] = run[k] /\ todo'[k] = todo[k]
            /\ fetched'[k] = fetched[k] /\ verdict'[k] = verdict[k]
        BY <2>2 DEF Start, SettleInv, TypeOK
      <3>2. Active(k) => runs'[run'[k]] = runs[run[k]]
        BY <1>3, <3>1 DEF SettleInv, OwnRun
      <3>3. QED
        BY <1>4, <3>1, <3>2, BystanderKeeps
    <2>3. QED
      BY <2>1, <2>2
  <1>9. QED
    BY <1>6, <1>7, <1>8 DEF SettleInv, TypeInv

LEMMA ReadSettles ==
  ASSUME SettleInv, TypeInv', NEW j \in Jobs, ReadPartition(j)
  PROVE  SettleInv'
  <1>1. PICK p \in todo[j] : ReadPartition(j)!2!(p)
    BY DEF ReadPartition
  <1>2. /\ pc[j] = "read" /\ pc' = pc /\ run' = run /\ runs' = runs /\ verdict' = verdict
        /\ UNCHANGED <<clock, source, raced, bronze>>
    BY DEF ReadPartition
  <1>3. /\ fetched'[j] = fetched[j] \cup Query(j, p) /\ todo'[j] = todo[j] \ {p}
        /\ \A k \in Jobs : k # j => fetched'[k] = fetched[k] /\ todo'[k] = todo[k]
    BY <1>1 DEF SettleInv, TypeOK
  <1>4. \A v \in Query(j, p) : v.ts <= clock
    BY DEF Query, SettleInv, InThePast
  <1>5. InThePast'
    BY <1>2, <1>3, <1>4 DEF SettleInv, InThePast
  <1>6. RunsSettle'
    BY <1>2, RecordsKeep
  <1>7. JobInv(j)'
    <2>1. ASSUME NEW r \in Rows, PartitionOf[r] \notin todo'[j], source[r] > Base(j), ~Raced(r)
          PROVE  [row |-> r, ts |-> source[r]] \in fetched'[j]
      <3>1. CASE PartitionOf[r] = p
        BY <1>3, <2>1, <3>1 DEF Query, Base
      <3>2. CASE PartitionOf[r] # p
        <4>1. PartitionOf[r] \notin todo[j] /\ todo[j] # {}
          BY <1>3, <2>1, <3>2
        <4>2. QED
          BY <1>2, <1>3, <2>1, <4>1 DEF SettleInv, JobInv, ReadCaptures
      <3>3. QED
        BY <3>1, <3>2
    <2>2. verdict[j] = Unfinished
      BY <1>2 DEF SettleInv, JobInv, ReadCaptures
    <2>3. QED
      BY <1>2, <2>1, <2>2 DEF JobInv, ReadCaptures, AppendCaptures, EndSettles, Base, Raced
  <1>8. ASSUME NEW k \in Jobs, k # j PROVE JobInv(k)'
    BY <1>2, <1>3, <1>8, BystanderKeeps
  <1>9. QED
    BY <1>5, <1>6, <1>7, <1>8 DEF SettleInv, TypeInv

LEMMA AggregateSettles ==
  ASSUME SettleInv, TypeInv', NEW j \in Jobs, Aggregate(j)
  PROVE  SettleInv'
  <1>1. /\ pc[j] = "read" /\ todo[j] = {} /\ run' = run /\ runs' = runs
        /\ todo' = todo /\ fetched' = fetched
        /\ UNCHANGED <<clock, source, raced, bronze>>
    BY DEF Aggregate
  <1>2. \A k \in Jobs : k # j => pc'[k] = pc[k] /\ verdict'[k] = verdict[k]
    BY DEF Aggregate, SettleInv, TypeOK
  <1>3. /\ Base(j) \in Nat /\ Base(j) <= clock /\ Settled(Base(j))
        /\ Base(j)' = Base(j) /\ AsOf(j)' = AsOf(j) /\ AsOf(j) \in Nat
    BY <1>1, RunFields DEF SettleInv, OwnRun, Active, InThePast, RunsSettle, Base, AsOf, Settled
  <1>4. source \in [Rows -> Nat] /\ clock \in Nat /\ fetched[j] \subseteq Version
    BY DEF SettleInv, TypeOK
  <1>5. RunsSettle'
    BY <1>1, RecordsKeep
  <1>6. ASSUME NEW k \in Jobs, k # j PROVE JobInv(k)'
    BY <1>1, <1>2, <1>6, BystanderKeeps
  <1>7. CASE fetched[j] = {}
    <2>1. /\ pc'[j] = "end" /\ verdict'[j] = Verdict("SUCCESS", Base(j))
      BY <1>7 DEF Aggregate, SettleInv, TypeOK, Base
    <2>2. Settled(AsOf(j))
      <3> SUFFICES ASSUME NEW r \in Rows, source[r] # 0, source[r] <= AsOf(j), ~Raced(r)
                   PROVE  InBronze(r)
        BY DEF Settled
      <3>1. ~(source[r] > Base(j))
        <4>1. \/ ~(source[r] > Base(j))
              \/ [row |-> r, ts |-> source[r]] \in fetched[j]
              \/ source[r] > AsOf(j)
          BY <1>1 DEF SettleInv, JobInv, ReadCaptures
        <4>2. ~(source[r] > AsOf(j))
          BY <1>3, <1>4
        <4>3. QED
          BY <1>7, <4>1, <4>2
      <3>2. QED
        BY <1>3, <1>4, <3>1 DEF Settled
    <2>3. EndWatermark(j)' = Base(j)
      BY <1>3, <2>1 DEF EndWatermark, Verdict, NoWatermark
    <2>4. JobInv(j)'
      BY <1>1, <1>3, <2>1, <2>2, <2>3
      DEF JobInv, ReadCaptures, AppendCaptures, EndSettles, Settled, Raced, InBronze
    <2>5. InThePast'
      BY <1>1, <1>2, <1>3, <2>1 DEF SettleInv, InThePast, Verdict
    <2>6. QED
      BY <1>5, <1>6, <2>4, <2>5 DEF SettleInv, TypeInv
  <1>8. CASE fetched[j] # {}
    <2>1. PICK newest \in fetched[j] :
             /\ \A u \in fetched[j] : u.ts <= newest.ts
             /\ verdict' = [verdict EXCEPT ![j].watermark =
                              IF Strategy[j] = "incremental" THEN AsWatermark(newest.ts)
                                                          ELSE NoWatermark]
      BY <1>8 DEF Aggregate
    <2>2. newest.ts \in Nat /\ newest.ts <= clock
      BY <1>4 DEF Version, SettleInv, InThePast
    <2>3. pc'[j] = "append"
      BY <1>8 DEF Aggregate, SettleInv, TypeOK
    <2>4. /\ verdict'[j].watermark \in Int /\ verdict'[j].watermark <= newest.ts
          /\ verdict'[j].watermark <= clock
      <3>1. verdict'[j].watermark = IF Strategy[j] = "incremental" THEN AsWatermark(newest.ts)
                                                               ELSE NoWatermark
        BY <2>1 DEF SettleInv, TypeOK, Verdicts
      <3>2. AsWatermark(newest.ts) \in Nat /\ AsWatermark(newest.ts) <= newest.ts
        BY <2>2, WatermarkCut
      <3>3. QED
        BY <1>4, <2>2, <3>1, <3>2 DEF NoWatermark
    <2>5. JobInv(j)'
      <3> SUFFICES ASSUME NEW r \in Rows, source[r] > Base(j), ~Raced(r)
                   PROVE  \/ [row |-> r, ts |-> source[r]] \in fetched[j]
                          \/ source[r] > AsOf(j) /\ source[r] > verdict'[j].watermark
        <4>1. verdict'[j].status = "FAILED"
          BY <1>1, <2>1
          DEF SettleInv, JobInv, ReadCaptures, Unfinished, Verdict, TypeOK, Verdicts
        <4>2. QED
          BY <1>1, <1>3, <2>3, <4>1 DEF JobInv, ReadCaptures, AppendCaptures, EndSettles, Raced
      <3>1. \/ [row |-> r, ts |-> source[r]] \in fetched[j]
            \/ source[r] > AsOf(j) /\ newest.ts < source[r]
        BY <1>1 DEF SettleInv, JobInv, ReadCaptures
      <3>2. QED
        BY <1>4, <2>2, <2>4, <3>1
    <2>6. InThePast'
      BY <1>1, <1>2, <2>4 DEF SettleInv, InThePast
    <2>7. QED
      BY <1>5, <1>6, <2>5, <2>6 DEF SettleInv, TypeInv
  <1>9. QED
    BY <1>7, <1>8

LEMMA RecomputeSettles ==
  ASSUME SettleInv, TypeInv', NEW j \in Jobs, Recompute(j)
  PROVE  SettleInv'
  <1>1. PICK p \in Partitions : Recompute(j)!4!(p)
    BY DEF Recompute
  <1>2. /\ pc[j] = "append" /\ UNCHANGED <<clock, source, raced, bronze, runs, pc, run, todo, verdict>>
    BY DEF Recompute
  <1>3. /\ fetched'[j] = {v \in fetched[j] : PartitionOf[v.row] # p} \cup Query(j, p)
        /\ \A k \in Jobs : k # j => fetched'[k] = fetched[k]
    BY <1>1 DEF SettleInv, TypeOK
  <1>4. \A v \in Query(j, p) : v.ts <= clock
    BY DEF Query, SettleInv, InThePast
  <1>5. InThePast'
    BY <1>2, <1>3, <1>4 DEF SettleInv, InThePast
  <1>6. RunsSettle'
    BY <1>2, RecordsKeep
  <1>7. JobInv(j)'
    <2>1. ASSUME NEW r \in Rows, source[r] > Base(j), ~Raced(r)
          PROVE  \/ [row |-> r, ts |-> source[r]] \in fetched'[j]
                 \/ source[r] > AsOf(j) /\ source[r] > verdict[j].watermark
      <3>1. CASE PartitionOf[r] = p
        BY <1>3, <2>1, <3>1 DEF Query, Base
      <3>2. CASE PartitionOf[r] # p
        BY <1>2, <1>3, <2>1, <3>2 DEF SettleInv, JobInv, AppendCaptures
      <3>3. QED
        BY <3>1, <3>2
    <2>2. verdict[j].status = "FAILED"
      BY <1>2 DEF SettleInv, JobInv, AppendCaptures
    <2>3. QED
      BY <1>2, <2>1, <2>2 DEF JobInv, ReadCaptures, AppendCaptures, EndSettles, Base, AsOf, Raced
  <1>8. ASSUME NEW k \in Jobs, k # j PROVE JobInv(k)'
    BY <1>2, <1>3, <1>8, BystanderKeeps
  <1>9. QED
    BY <1>5, <1>6, <1>7, <1>8 DEF SettleInv, TypeInv

LEMMA AppendSettles ==
  ASSUME SettleInv, TypeInv', NEW j \in Jobs, AppendBronze(j)
  PROVE  SettleInv'
  <1>1. /\ pc[j] = "append" /\ bronze' = Appended(j) /\ bronze \subseteq bronze'
        /\ UNCHANGED <<clock, source, raced, runs, run, todo>>
    BY DEF AppendBronze, Appended
  <1>2. /\ pc'[j] = "end" /\ fetched'[j] = {}
        /\ verdict'[j].status = "SUCCESS" /\ verdict'[j].watermark = verdict[j].watermark
        /\ \A k \in Jobs : k # j => /\ pc'[k] = pc[k] /\ fetched'[k] = fetched[k]
                                   /\ verdict'[k] = verdict[k]
    BY DEF AppendBronze, SettleInv, TypeOK, Verdicts
  <1>3. /\ Base(j) \in Nat /\ Settled(Base(j)) /\ AsOf(j) \in Nat
        /\ Base(j)' = Base(j) /\ AsOf(j)' = AsOf(j) /\ EndWatermark(j)' = EndWatermark(j)
    BY <1>1, <1>2, RunFields
    DEF SettleInv, OwnRun, Active, RunsSettle, Base, AsOf, Settled, EndWatermark
  <1>4. source \in [Rows -> Nat] /\ verdict[j].watermark \in Int
    BY DEF SettleInv, TypeOK, Verdicts, NoWatermark
  <1>5. InThePast'
    BY <1>1, <1>2 DEF SettleInv, InThePast
  <1>6. RunsSettle'
    BY <1>1, RecordsKeep
  <1>7. ASSUME NEW k \in Jobs, k # j PROVE JobInv(k)'
    BY <1>1, <1>2, <1>7, BystanderKeeps
  <1>8. ASSUME NEW r \in Rows, source[r] # 0, ~Raced(r),
               source[r] <= AsOf(j) \/ source[r] <= EndWatermark(j)
        PROVE  InBronze(r)'
    <2>1. CASE source[r] <= Base(j)
      BY <1>1, <1>3, <1>8, <2>1 DEF Settled, InBronze
    <2>2. CASE source[r] > Base(j)
      <3>1. [row |-> r, ts |-> source[r]] \in fetched[j]
        BY <1>1, <1>3, <1>4, <1>8, <2>2 DEF SettleInv, JobInv, AppendCaptures, EndWatermark
      <3>2. [row |-> r, ts |-> source[r], run |-> run[j]] \in bronze'
        BY <1>1, <3>1 DEF Appended
      <3>3. QED
        BY <1>1, <3>2 DEF InBronze
    <2>3. QED
      BY <1>3, <1>4, <2>1, <2>2
  <1>9. JobInv(j)'
    BY <1>1, <1>2, <1>3, <1>8
    DEF JobInv, ReadCaptures, AppendCaptures, EndSettles, Settled, Raced
  <1>10. QED
    BY <1>5, <1>6, <1>7, <1>9 DEF SettleInv, TypeInv

LEMMA FailSettles ==
  ASSUME SettleInv, TypeInv', NEW j \in Jobs, Fail(j)
  PROVE  SettleInv'
  <1>1. /\ bronze \subseteq bronze' /\ UNCHANGED <<clock, source, raced, runs, run, verdict>>
    BY DEF Fail, Appended
  <1>2. /\ pc'[j] = "end" /\ fetched'[j] = {}
        /\ \A k \in Jobs : k # j => /\ pc'[k] = pc[k] /\ fetched'[k] = fetched[k]
                                   /\ todo'[k] = todo[k]
    BY DEF Fail, SettleInv, TypeOK
  <1>3. InThePast'
    BY <1>1, <1>2 DEF SettleInv, InThePast
  <1>4. RunsSettle'
    BY <1>1, RecordsKeep
  <1>5. ASSUME NEW k \in Jobs, k # j PROVE JobInv(k)'
    BY <1>1, <1>2, <1>5, BystanderKeeps
  <1>6. verdict[j].status # "SUCCESS"
    BY DEF Fail, SettleInv, JobInv, ReadCaptures, AppendCaptures, Unfinished, Verdict
  <1>7. JobInv(j)'
    BY <1>1, <1>2, <1>6 DEF JobInv, ReadCaptures, AppendCaptures, EndSettles
  <1>8. QED
    BY <1>3, <1>4, <1>5, <1>7 DEF SettleInv, TypeInv

LEMMA EndSettlesRun ==
  ASSUME SettleInv, TypeInv', NEW j \in Jobs, EndRun(j)
  PROVE  SettleInv'
  <1>1. /\ pc[j] = "end" /\ Active(j) /\ UNCHANGED <<clock, source, raced, bronze>>
        /\ run[j] \in DOMAIN runs /\ DOMAIN runs' = DOMAIN runs
        /\ runs'[run[j]] = EndRecord(runs[run[j]], verdict[j])
        /\ \A i \in DOMAIN runs : i # run[j] => runs'[i] = runs[i]
    BY DEF EndRun, SettleInv, OwnRun, Active, TypeOK
  <1>2. /\ pc'[j] = "idle" /\ fetched'[j] = {} /\ verdict'[j] = Unfinished
        /\ \A k \in Jobs : k # j => /\ pc'[k] = pc[k] /\ run'[k] = run[k] /\ todo'[k] = todo[k]
                                   /\ fetched'[k] = fetched[k] /\ verdict'[k] = verdict[k]
    BY DEF EndRun, Forget, SettleInv, TypeOK
  <1>3. /\ runs'[run[j]].status = verdict[j].status /\ runs'[run[j]].watermark = EndWatermark(j)
        /\ runs'[run[j]].asof = AsOf(j)
    BY <1>1, RunFields DEF EndRecord, EndWatermark, Base, AsOf, SettleInv, Metadata
  <1>4. clock \in Nat /\ EndWatermark(j) <= clock /\ AsOf(j) <= clock
    BY <1>1 DEF SettleInv, InThePast, TypeOK, EndWatermark, Base, AsOf
  <1>5. InThePast'
    <2>1. \A i \in DOMAIN runs' : runs'[i].watermark <= clock /\ runs'[i].asof <= clock
      BY <1>1, <1>3, <1>4 DEF SettleInv, InThePast
    <2>2. ASSUME NEW k \in Jobs
          PROVE  verdict'[k].watermark <= clock /\ \A v \in fetched'[k] : v.ts <= clock
      BY <1>2, <1>4 DEF SettleInv, InThePast, Unfinished, Verdict, NoWatermark
    <2>3. QED
      BY <1>1, <2>1, <2>2 DEF InThePast, SettleInv
  <1>6. RunsSettle'
    <2> SUFFICES ASSUME NEW i \in DOMAIN runs
                 PROVE  /\ runs'[i].status \in {"RUNNING", "SUCCESS"} => Settled(runs[i].watermark)'
                        /\ runs'[i].status = "SUCCESS" => Settled(runs[i].asof)'
      BY <1>1 DEF RunsSettle
    <2>1. CASE i # run[j]
      BY <1>1, <2>1, RecordKeeps
    <2>2. CASE i = run[j]
      <3>1. verdict[j].status \in {"SUCCESS", "FAILED"}
        BY DEF SettleInv, TypeOK, Verdicts
      <3>2. verdict[j].status = "SUCCESS" => Settled(EndWatermark(j)) /\ Settled(AsOf(j))
        BY <1>1 DEF SettleInv, JobInv, EndSettles
      <3>3. QED
        BY <1>1, <1>3, <2>2, <3>1, <3>2 DEF Settled, Raced, InBronze
    <2>3. QED
      BY <2>1, <2>2
  <1>7. ASSUME NEW k \in Jobs PROVE JobInv(k)'
    <2>1. CASE k = j
      BY <1>2, <2>1 DEF JobInv, ReadCaptures, AppendCaptures, EndSettles
    <2>2. CASE k # j
      <3>1. Active(k) => run[k] # run[j] /\ run[k] \in DOMAIN runs
        BY <1>1, <2>2 DEF SettleInv, OwnRun
      <3>2. QED
        BY <1>1, <1>2, <2>2, <3>1, BystanderKeeps
    <2>3. QED
      BY <2>1, <2>2
  <1>8. QED
    BY <1>5, <1>6, <1>7 DEF SettleInv, TypeInv

LEMMA CrashSettles ==
  ASSUME SettleInv, TypeInv', NEW j \in Jobs, Crash(j) \/ EndRefused(j)
  PROVE  SettleInv'
  <1>1. UNCHANGED <<clock, source, raced, bronze, runs>>
    BY DEF Crash, EndRefused
  <1>2. /\ pc'[j] = "idle" /\ fetched'[j] = {} /\ verdict'[j] = Unfinished
        /\ \A k \in Jobs : k # j => /\ pc'[k] = pc[k] /\ run'[k] = run[k] /\ todo'[k] = todo[k]
                                   /\ fetched'[k] = fetched[k] /\ verdict'[k] = verdict[k]
    BY DEF Crash, EndRefused, Forget, SettleInv, TypeOK
  <1>3. InThePast'
    <2>1. clock \in Nat
      BY DEF SettleInv, TypeOK
    <2>2. ASSUME NEW k \in Jobs
          PROVE  verdict'[k].watermark <= clock /\ \A v \in fetched'[k] : v.ts <= clock
      BY <1>2, <2>1 DEF SettleInv, InThePast, Unfinished, Verdict, NoWatermark
    <2>3. QED
      BY <1>1, <2>2 DEF InThePast, SettleInv
  <1>4. RunsSettle'
    BY <1>1, RecordsKeep
  <1>5. ASSUME NEW k \in Jobs PROVE JobInv(k)'
    <2>1. CASE k = j
      BY <1>2, <2>1 DEF JobInv, ReadCaptures, AppendCaptures, EndSettles
    <2>2. CASE k # j
      BY <1>1, <1>2, <2>2, BystanderKeeps
    <2>3. QED
      BY <2>1, <2>2
  <1>6. QED
    BY <1>3, <1>4, <1>5 DEF SettleInv, TypeInv

LEMMA SettleStep == SettleInv /\ [Next]_vars => SettleInv'
  <1> SUFFICES ASSUME SettleInv, [Next]_vars PROVE SettleInv'
    OBVIOUS
  <1>1. TypeInv'
    BY TypeStep DEF SettleInv, TypeInv
  <1>2. CASE UNCHANGED vars
    <2>1. \A j \in Jobs : JobInv(j)'
      BY <1>2, BystanderKeeps DEF vars
    <2>2. RunsSettle'
      BY <1>2, RecordsKeep DEF vars
    <2>3. InThePast'
      BY <1>2 DEF vars, SettleInv, InThePast
    <2>4. QED
      BY <1>1, <2>1, <2>2, <2>3 DEF SettleInv, TypeInv
  <1>3. QED
    BY <1>1, <1>2, CommitSettles, StartSettles, ReadSettles, AggregateSettles, RecomputeSettles,
       AppendSettles, FailSettles, EndSettlesRun, CrashSettles
    DEF Next, JobStep, Idle

(* No current version at or below a successful watermark is missing from   *)
(* Bronze, unless its commit raced: for every number of jobs, failures and *)
(* partitions (end_run, get_last_watermark, the append and their order).   *)
THEOREM NothingSkipped == Spec => []NoSkippedVersion
  <1>1. SettleInv => NoSkippedVersion
    BY DEF SettleInv, RunsSettle, Settled, NoSkippedVersion, Watermarks
  <1>2. QED
    BY <1>1, SettleInit, SettleStep, PTL DEF Spec

(* A run recorded as SUCCESS has put in Bronze every version committed     *)
(* before it started and still current, unless its commit raced.           *)
THEOREM SuccessMeansComplete == Spec => []SuccessIsComplete
  <1>1. SettleInv => SuccessIsComplete
    BY DEF SettleInv, RunsSettle, Settled, SuccessIsComplete
  <1>2. QED
    BY <1>1, SettleInit, SettleStep, PTL DEF Spec

-----------------------------------------------------------------------------
(* Duplicates.  The deployment runs one ingestion at a time.  The theorem  *)
(* also needs that no cached partition is read again after the watermark   *)
(* was computed and that the watermark keeps the whole stamp; without      *)
(* either, a later successful run does append a version a second time.     *)
Deployment ==
  /\ \A j, k \in Jobs : j = k
  /\ \A j \in Jobs : Strategy[j] = "incremental"
  /\ ~ExecutorLoss
  /\ Tick = 1

\* What a job appends lies between the start and the watermark of its run.
Between(j) ==
  Active(j) =>
    /\ \A i \in DOMAIN runs : runs[i].status = "SUCCESS" => runs[i].watermark <= Base(j)
    /\ \A v \in fetched[j] : v.ts > Base(j)
    /\ \A b \in bronze : b.run = run[j] =>
         /\ pc[j] = "end"
         /\ b.ts > Base(j)
         /\ verdict[j].status = "SUCCESS" => b.ts <= EndWatermark(j)
    /\ pc[j] = "read" => verdict[j].status = "FAILED"
    /\ pc[j] = "append" => /\ verdict[j].status = "FAILED"
                          /\ \A v \in fetched[j] : v.ts <= EndWatermark(j)

CopyInv ==
  /\ TypeInv
  /\ \A b \in bronze :
       /\ b.run \in DOMAIN runs
       /\ runs[b.run].status = "SUCCESS" => b.ts <= runs[b.run].watermark
  /\ OneSuccessfulCopy
  /\ \A j \in Jobs : Between(j)

LEMMA CopyInit == Init => CopyInv
  BY TypeInit DEF CopyInv, Init, OneSuccessfulCopy, Between, Active

LEMMA CopyStep == ASSUME Deployment PROVE CopyInv /\ [Next]_vars => CopyInv'
  <1> SUFFICES ASSUME CopyInv, [Next]_vars PROVE CopyInv'
    OBVIOUS
  <1>t. TypeInv /\ TypeInv' /\ TypeOK /\ OwnRun
    BY TypeStep DEF CopyInv, TypeInv
  <1>1. ASSUME NEW r \in Rows, Commit(r) PROVE CopyInv'
    BY <1>1, <1>t
    DEF Commit, CopyInv, OneSuccessfulCopy, Between, Active, Base, EndWatermark
  <1>2. ASSUME NEW j \in Jobs, Start(j) PROVE CopyInv'
    <2>1. PICK w \in LastWatermark : runs' = Append(runs, RunRecord("RUNNING", w, clock))
      BY <1>2 DEF Start, Deployment
    <2>2. w \in Nat /\ \A i \in DOMAIN runs : runs[i].status = "SUCCESS" => runs[i].watermark <= w
      BY <1>t, <2>1, LastWatermarkType DEF LastWatermark, Watermarks
    <2>3. /\ DOMAIN runs' = 1..(Len(runs) + 1) /\ DOMAIN runs = 1..Len(runs) /\ Len(runs) \in Nat
          /\ \A i \in DOMAIN runs : runs'[i] = runs[i]
          /\ runs'[Len(runs) + 1].status = "RUNNING" /\ runs'[Len(runs) + 1].watermark = w
      BY <1>t, <2>1 DEF TypeOK, RunRecord
    <2>4. /\ run'[j] = Len(runs) + 1 /\ fetched'[j] = {} /\ pc'[j] = "read"
          /\ verdict'[j] = Unfinished /\ bronze' = bronze
      BY <1>2, <1>t DEF Start, TypeOK
    <2>5. \A b \in bronze : b.run \in DOMAIN runs /\ b.run # Len(runs) + 1
      BY <2>3 DEF CopyInv
    <2>6. Between(j)'
      BY <2>2, <2>3, <2>4, <2>5 DEF Between, Base, Unfinished, Verdict
    <2>7. OneSuccessfulCopy'
      BY <2>3, <2>4, <2>5 DEF CopyInv, OneSuccessfulCopy
    <2>8. \A b \in bronze' :
            /\ b.run \in DOMAIN runs'
            /\ runs'[b.run].status = "SUCCESS" => b.ts <= runs'[b.run].watermark
      BY <2>3, <2>4, <2>5 DEF CopyInv
    <2>9. QED
      BY <1>t, <2>6, <2>7, <2>8 DEF CopyInv, Deployment
  <1>3. ASSUME NEW j \in Jobs, ReadPartition(j) PROVE CopyInv'
    <2>1. PICK p \in todo[j] : ReadPartition(j)!2!(p)
      BY <1>3 DEF ReadPartition
    <2>2. fetched'[j] = fetched[j] \cup Query(j, p) /\ \A v \in Query(j, p) : v.ts > Base(j)
      BY <1>t, <2>1 DEF TypeOK, Query, Base
    <2>3. Between(j)'
      BY <1>3, <1>t, <2>2 DEF ReadPartition, CopyInv, Between, Active, Base
    <2>4. QED
      BY <1>3, <1>t, <2>3 DEF ReadPartition, CopyInv, OneSuccessfulCopy, Deployment
  <1>4. ASSUME NEW j \in Jobs, Aggregate(j) PROVE CopyInv'
    <2>1. pc[j] = "read" /\ UNCHANGED <<bronze, runs, run, fetched>>
      BY <1>4 DEF Aggregate
    <2>2. \A b \in bronze : b.run # run[j]
      BY <2>1 DEF CopyInv, Between, Active
    <2>3. pc'[j] = "append" => verdict'[j].status = "FAILED" /\ \A v \in fetched[j] : v.ts <= EndWatermark(j)'
      <3>1. CASE fetched[j] = {}
        BY <1>4, <1>t, <3>1 DEF Aggregate, TypeOK
      <3>2. CASE fetched[j] # {}
        <4>1. PICK newest \in fetched[j] :
                 /\ \A u \in fetched[j] : u.ts <= newest.ts
                 /\ verdict' = [verdict EXCEPT ![j].watermark = AsWatermark(newest.ts)]
          BY <1>4, <3>2 DEF Aggregate, Deployment
        <4>2. newest.ts \in Nat
          BY <1>t DEF TypeOK, Version
        <4>3. AsWatermark(newest.ts) = newest.ts
          BY <4>2 DEF AsWatermark, Deployment
        <4>4. verdict'[j].status = verdict[j].status /\ verdict'[j].watermark = newest.ts
          BY <1>t, <4>1, <4>3 DEF TypeOK, Verdicts
        <4>5. verdict[j].status = "FAILED"
          BY <2>1 DEF CopyInv, Between, Active
        <4>6. QED
          BY <4>1, <4>2, <4>4, <4>5 DEF EndWatermark, NoWatermark
      <3>3. QED
        BY <3>1, <3>2
    <2>4. pc'[j] \in {"append", "end"}
      BY <1>4, <1>t DEF Aggregate, TypeOK
    <2>5. Between(j)'
      BY <2>1, <2>2, <2>3, <2>4 DEF CopyInv, Between, Active, Base
    <2>6. QED
      BY <1>t, <2>1, <2>5 DEF CopyInv, OneSuccessfulCopy, Deployment
  <1>5. ASSUME NEW j \in Jobs, Recompute(j) PROVE CopyInv'
    BY <1>5 DEF Recompute, Deployment
  <1>6. ASSUME NEW j \in Jobs, AppendBronze(j) PROVE CopyInv'
    <2>1. /\ pc[j] = "append" /\ UNCHANGED <<runs, run>> /\ pc'[j] = "end" /\ fetched'[j] = {}
          /\ verdict'[j].watermark = verdict[j].watermark
          /\ bronze' = Appended(j)
      BY <1>6, <1>t DEF AppendBronze, TypeOK, Verdicts
    <2>2. /\ run[j] \in DOMAIN runs /\ runs[run[j]].status = "RUNNING"
          /\ EndWatermark(j)' = EndWatermark(j)
      BY <1>t, <2>1 DEF OwnRun, Active, EndWatermark, Base
    <2>3. \A b \in bronze' :
            \/ b \in bronze
            \/ b.run = run[j] /\ b.ts > Base(j) /\ b.ts <= EndWatermark(j)
      <3>1. \A v \in fetched[j] : v.ts > Base(j) /\ v.ts <= EndWatermark(j)
        BY <2>1 DEF CopyInv, Between, Active
      <3>2. \A b \in bronze' :
              \/ b \in bronze
              \/ \E v \in fetched[j] : b.run = run[j] /\ b.ts = v.ts
        BY <2>1 DEF Appended
      <3>3. QED
        BY <3>1, <3>2
    <2>4. Between(j)'
      BY <2>1, <2>2, <2>3 DEF CopyInv, Between, Active, Base
    <2>5. QED
      BY <1>t, <2>1, <2>2, <2>3, <2>4 DEF CopyInv, OneSuccessfulCopy, Deployment
  <1>7. ASSUME NEW j \in Jobs, Fail(j) PROVE CopyInv'
    <2>1. /\ pc[j] \in {"read", "append"} /\ UNCHANGED <<runs, run, verdict>> /\ pc'[j] = "end"
          /\ fetched'[j] = {} /\ bronze' \in {bronze, Appended(j)}
      BY <1>7, <1>t DEF Fail, TypeOK
    <2>2. /\ run[j] \in DOMAIN runs /\ runs[run[j]].status = "RUNNING"
          /\ verdict[j].status = "FAILED"
      BY <1>t, <2>1 DEF OwnRun, Active, CopyInv, Between
    <2>3. \A b \in bronze' : b \in bronze \/ (b.run = run[j] /\ b.ts > Base(j))
      BY <2>1 DEF Appended, CopyInv, Between, Active
    <2>4. Between(j)'
      BY <2>1, <2>2, <2>3 DEF CopyInv, Between, Active, Base
    <2>5. QED
      BY <1>t, <2>1, <2>2, <2>3, <2>4 DEF CopyInv, OneSuccessfulCopy, Deployment
  <1>8. ASSUME NEW j \in Jobs, EndRun(j) PROVE CopyInv'
    <2>1. /\ pc[j] = "end" /\ Active(j) /\ pc'[j] = "idle" /\ bronze' = bronze
          /\ run[j] \in DOMAIN runs /\ DOMAIN runs' = DOMAIN runs
          /\ runs'[run[j]] = EndRecord(runs[run[j]], verdict[j])
          /\ \A i \in DOMAIN runs : i # run[j] => runs'[i] = runs[i]
      BY <1>8, <1>t DEF EndRun, Forget, OwnRun, Active, TypeOK
    <2>2. runs'[run[j]].status = verdict[j].status /\ runs'[run[j]].watermark = EndWatermark(j)
      BY <1>t, <2>1, RunFields DEF EndRecord, EndWatermark, Base, Metadata
    <2>3. \A b \in bronze :
            /\ b.run \in DOMAIN runs'
            /\ runs'[b.run].status = "SUCCESS" => b.ts <= runs'[b.run].watermark
      BY <2>1, <2>2 DEF CopyInv, Between
    <2>4. ASSUME NEW b \in bronze, NEW c \in bronze, b.ts = c.ts,
                 b.run = run[j], c.run # run[j],
                 runs'[b.run].status = "SUCCESS", runs'[c.run].status = "SUCCESS"
          PROVE  FALSE
      <3>1. c.run \in DOMAIN runs /\ c.ts <= runs[c.run].watermark /\ runs[c.run].status = "SUCCESS"
        BY <2>1, <2>4 DEF CopyInv
      <3>2. runs[c.run].watermark <= Base(j) /\ b.ts > Base(j)
        BY <2>1, <2>4, <3>1 DEF CopyInv, Between
      <3>3. b.ts \in Nat /\ Base(j) \in Nat /\ runs[c.run].watermark \in Nat
        BY <1>t, <2>1, <3>1, RunFields DEF TypeOK, Base
      <3>4. QED
        BY <2>4, <3>1, <3>2, <3>3
    <2>5. OneSuccessfulCopy'
      BY <2>1, <2>4 DEF CopyInv, OneSuccessfulCopy
    <2>6. Between(j)'
      BY <2>1 DEF Between, Active
    <2>7. QED
      BY <1>t, <2>1, <2>3, <2>5, <2>6 DEF CopyInv, Deployment
  <1>9. ASSUME NEW j \in Jobs, Crash(j) \/ EndRefused(j) PROVE CopyInv'
    <2>1. pc'[j] = "idle" /\ UNCHANGED <<bronze, runs>>
      BY <1>9, <1>t DEF Crash, EndRefused, Forget, TypeOK
    <2>2. QED
      BY <1>t, <2>1 DEF CopyInv, OneSuccessfulCopy, Between, Active, Deployment
  <1>10. CASE UNCHANGED vars
    BY <1>t, <1>10
    DEF vars, CopyInv, OneSuccessfulCopy, Between, Active, Base, EndWatermark
  <1>11. QED
    BY <1>1, <1>2, <1>3, <1>4, <1>5, <1>6, <1>7, <1>8, <1>9, <1>10 DEF Next, JobStep, Idle

(* In the deployment, two successful runs never append the same version:   *)
(* a copy that Silver has to drop comes from a failed or lost run.         *)
THEOREM DuplicatesNeedFailure == ASSUME Deployment PROVE Spec => []OneSuccessfulCopy
  <1>1. CopyInv /\ [Next]_vars => CopyInv'
    BY CopyStep
  <1>2. CopyInv => OneSuccessfulCopy
    BY DEF CopyInv
  <1>3. QED
    BY <1>1, <1>2, CopyInit, PTL DEF Spec
=============================================================================
