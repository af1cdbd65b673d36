------------------------------ MODULE DqProofs ------------------------------
(***************************************************************************)
(* What holds of the DQ remediation agent for any table, clusters, answers *)
(* of the model, runs, failures and pipelines.                             *)
(***************************************************************************)
EXTENDS DqRemediation, FiniteSetTheorems, TLAPS

USE LevelAssumption DEF LevelAssumption

Steps   == {"idle", "decide", "fill", "count", "write", "append", "delete", "recount", "log"}
Working == {"fill", "count", "write", "append", "delete", "recount"}
Cells   == Values \cup {Absent, Gone}

TypeInv ==
  /\ table \in [Rows -> Cells]
  /\ quarantine \subseteq Rows /\ turned \subseteq Rows
  /\ pc \in Steps
  /\ todo \subseteq Clusters /\ dry \in BOOLEAN /\ before \in Nat /\ fill \in Values
  /\ pc \in Working => cluster \in Clusters /\ decision \in Decisions
  /\ settled \subseteq Decisions
  /\ counts \in [runs : Nat, writes : Nat, fails : Nat]

(* The fields of an answer.                                                *)
LEMMA AnswerTypes ==
  ASSUME NEW d \in Decisions
  PROVE  d.impute_value \in Values /\ d.coerce_min \in Values /\ d.coerce_max \in Values
BY DecisionAssumption DEF DecisionAssumption, Decision

(* Clipping replaces numbers by numbers, those out of bounds by others.    *)
LEMMA ClipTypes ==
  ASSUME decision \in Decisions, NEW v
  PROVE  /\ v \in Values <=> Clipped(v) \in Values
         /\ v \in Levels <=> Clipped(v) \in Levels
         /\ Clipped(v) # v <=> Below(decision, v) \/ Above(decision, v)
<1>1. /\ decision.coerce_min # NULL => decision.coerce_min \in Levels
      /\ decision.coerce_max # NULL => decision.coerce_max \in Levels
  BY AnswerTypes DEF Values
<1>2. CASE Below(decision, v)
  <2>1. /\ Clipped(v) = decision.coerce_min /\ Clipped(v) \in Levels
        /\ v \in Levels /\ v < decision.coerce_min
    BY <1>1, <1>2 DEF Clipped, Below
  <2>2. Clipped(v) # v
    BY <2>1
  <2> QED
    BY <1>2, <2>1, <2>2 DEF Values
<1>3. CASE ~Below(decision, v) /\ Above(decision, v)
  <2>1. /\ Clipped(v) = decision.coerce_max /\ Clipped(v) \in Levels
        /\ v \in Levels /\ v > decision.coerce_max
    BY <1>1, <1>3 DEF Clipped, Above
  <2>2. Clipped(v) # v
    BY <2>1
  <2> QED
    BY <1>3, <2>1, <2>2 DEF Values
<1>4. CASE ~Below(decision, v) /\ ~Above(decision, v)
  BY <1>4 DEF Clipped
<1> QED
  BY <1>2, <1>3, <1>4

(* Every statement's new table is a table.                                 *)
LEMMA NewTables ==
  ASSUME TypeInv, decision \in Decisions
  PROVE  /\ \A v \in Values : Imputed(v) \in [Rows -> Cells]
         /\ Coerced \in [Rows -> Cells]
         /\ \A S \in SUBSET Rows : Without(S) \in [Rows -> Cells]
<1>1. \A v \in Cells : Clipped(v) \in Cells
  BY AnswerTypes DEF Clipped, Below, Above, Cells
<1> QED
  BY <1>1 DEF TypeInv, Imputed, Coerced, Without, Cells

LEMMA EffectTypes ==
  ASSUME TypeInv, decision \in Decisions, Effect
  PROVE  table' \in [Rows -> Cells]
<1>1. Present \subseteq Rows /\ fill \in Values
  BY DEF Present, TypeInv
<1> QED
  BY <1>1, NewTables DEF Effect, Changing

LEMMA Counted ==
  ASSUME TypeInv
  PROVE  Affected \subseteq Rows /\ IsFiniteSet(Affected) /\ Cardinality(Affected) \in Nat
<1>1. Affected \subseteq Rows
  BY DEF Affected, Outside, Present, Nulls
<1>2. IsFiniteSet(Affected)
  BY <1>1, RowAssumption, FS_Subset DEF RowAssumption
<1> QED
  BY <1>1, <1>2, FS_CardinalityType

LEMMA FillTypes == ASSUME TypeInv, decision \in Decisions PROVE Fills \subseteq Values \ {NULL}
BY AnswerTypes DEF TypeInv, Fills, Present, Values

LEMMA ReportTypes ==
  ASSUME NEW entry, NEW rest, Report(entry, rest)
  PROVE  /\ pc' \in {"log", "decide"} /\ fill' \in Values /\ before' \in Nat
BY DEF Report, Values

LEMMA TypeStep == TypeInv /\ [Next]_vars => TypeInv'
<1> SUFFICES ASSUME TypeInv, [Next]_vars PROVE TypeInv'
  OBVIOUS
<1> USE DEF Steps, Working
<1>1. CASE Load
  BY <1>1, WindowAssumption DEF WindowAssumption, Load, TypeInv, answer, history
<1>2. CASE Decide
  <2> PICK c \in todo, d \in Decisions :
        /\ todo' = todo \ {c}
        /\ IF dry \/ d.strategy = "REJECT"
             THEN Report(Entry(c, d.strategy, Given(d), "SKIPPED", 0), todo \ {c})
             ELSE /\ cluster' = c /\ decision' = d
                  /\ pc' = FirstStep(d)
                  /\ UNCHANGED <<fill, before, actions>>
    BY <1>2 DEF Decide
  <2>1. UNCHANGED <<table, quarantine, dry, turned, settled, counts>>
    BY <1>2 DEF Decide, history
  <2>2. CASE dry \/ d.strategy = "REJECT"
    BY <2>1, <2>2, ReportTypes DEF TypeInv
  <2>3. CASE ~(dry \/ d.strategy = "REJECT")
    BY <2>1, <2>3 DEF TypeInv, FirstStep
  <2> QED
    BY <2>2, <2>3
<1>3. CASE DecideFails
  <2>1. \E c \in todo : \E e : todo' = todo \ {c} /\ Report(e, todo')
    BY <1>3 DEF DecideFails
  <2>2. /\ UNCHANGED <<table, quarantine, dry, turned, settled>>
        /\ counts' \in [runs : Nat, writes : Nat, fails : Nat]
    BY <1>3 DEF DecideFails, TypeInv, history
  <2> QED
    BY <2>1, <2>2, ReportTypes DEF TypeInv
<1>4. CASE ReadFill
  <2>1. /\ UNCHANGED <<table, quarantine, dry, todo, turned, counts>>
        /\ decision \in Decisions /\ cluster \in Clusters
    BY <1>4 DEF ReadFill, TypeInv
  <2>2. CASE Skip
    BY <2>1, <2>2, ReportTypes DEF Skip, TypeInv
  <2>3. CASE (\E v \in Fills : fill' = v) /\ pc' = "count"
             /\ UNCHANGED <<cluster, decision, before, actions, settled>>
    BY <2>1, <2>3, FillTypes DEF TypeInv
  <2> QED
    BY <1>4, <2>2, <2>3 DEF ReadFill
<1>5. CASE Count
  <2>1. /\ UNCHANGED <<table, quarantine, dry, todo, turned, counts>>
        /\ decision \in Decisions /\ cluster \in Clusters
    BY <1>5 DEF Count, TypeInv
  <2>2. CASE Skip
    BY <2>1, <2>2, ReportTypes DEF Skip, TypeInv
  <2>3. CASE before' = Cardinality(Affected) /\ pc' \in {"append", "write"}
             /\ UNCHANGED <<cluster, decision, fill, actions, settled>>
    BY <2>1, <2>3, Counted DEF TypeInv
  <2> QED
    BY <1>5, <2>2, <2>3 DEF Count
<1>6. CASE Write
  <2>1. table' \in [Rows -> Cells] /\ decision \in Decisions /\ cluster \in Clusters
    BY <1>6, EffectTypes DEF Write, TypeInv
  <2>2. /\ UNCHANGED <<quarantine, dry, todo, turned, counts>>
        /\ settled' \subseteq Decisions
    BY <1>6, <2>1 DEF Write, Unopposed, TypeInv
  <2> QED
    BY <1>6, <2>1, <2>2, ReportTypes DEF Write, TypeInv, answer
<1>7. CASE Recount
  BY <1>7, ReportTypes DEF Recount, TypeInv, history
<1>8. CASE AppendBad
  BY <1>8 DEF AppendBad, TypeInv, answer, history, Nulls
<1>9. CASE Delete
  <2>1. table' \in [Rows -> Cells]
    BY <1>9, NewTables DEF Delete, Changing, Nulls, TypeInv
  <2> QED
    BY <1>9, <2>1, ReportTypes DEF Delete, TypeInv
<1>10. CASE Fail
  <2>1. Raise /\ counts' \in [runs : Nat, writes : Nat, fails : Nat]
    BY <1>10 DEF Fail, TypeInv
  <2>2. table' \in [Rows -> Cells]
    BY <2>1, EffectTypes, NewTables DEF Raise, Changing, Nulls, TypeInv
  <2>3. /\ UNCHANGED <<dry, todo, turned>> /\ quarantine' \subseteq Rows
        /\ settled' \subseteq Decisions
    BY <2>1 DEF Raise, Unopposed, TypeInv, Nulls
  <2> QED
    BY <2>1, <2>2, <2>3, ReportTypes DEF Raise, TypeInv
<1>11. CASE WriteLog
  BY <1>11 DEF WriteLog, Idle, TypeInv, history, Values
<1>12. CASE Crash
  <2>1. counts' \in [runs : Nat, writes : Nat, fails : Nat]
    BY <1>12 DEF Crash, TypeInv
  <2>2. Idle /\ UNCHANGED <<table, quarantine, turned, settled>>
    BY <1>12 DEF Crash, history
  <2> QED
    BY <2>1, <2>2 DEF Idle, TypeInv, Values
<1>13. CASE PipelineWrites
  BY <1>13 DEF PipelineWrites, TypeInv, agent, answer, Cells
<1>14. CASE UNCHANGED vars
  BY <1>14 DEF vars, TypeInv, agent, answer, history
<1> QED
  BY <1>1, <1>2, <1>3, <1>4, <1>5, <1>6, <1>7, <1>8, <1>9, <1>10, <1>11, <1>12, <1>13, <1>14
     DEF Next

LEMMA TypeInvariant == Spec => []TypeInv
<1>1. Init => TypeInv
  <2> SUFFICES ASSUME Init PROVE TypeInv
    OBVIOUS
  <2>1. table \in [Rows -> Cells]
    BY ContentAssumption DEF ContentAssumption, Init, Cells
  <2>2. counts \in [runs : Nat, writes : Nat, fails : Nat] /\ fill \in Values
    BY DEF Init, Values
  <2> QED
    BY <2>1, <2>2 DEF Init, TypeInv, Steps, Working
<1> QED
  BY <1>1, TypeStep, PTL DEF Spec

(* Type correctness, whatever the model answers and the pipelines write.   *)
THEOREM TypeCorrect == Spec => []TypeOK
<1>1. TypeInv => TypeOK
  BY DEF TypeInv, TypeOK, Steps, Working, Cells, Values
<1> QED
  BY TypeInvariant, <1>1, PTL
-----------------------------------------------------------------------------
(* When the agent is about to DELETE, what it will delete is saved.        *)
SavedFirst == pc = "delete" => \A r \in Nulls : Saved(r)

RowInv == SavedFirst /\ NoRowVanishes

(* A newer row of the same order makes up for r: it is there, or saved.    *)
MadeUp(r) ==
  \E k \in Rows \ {r} : /\ KeyOf[k] = KeyOf[r] /\ Stamp[k] >= Stamp[r]
                        /\ k \in Present \/ Saved(k)

(* Nothing vanishes in a step that keeps what is saved, and takes from the *)
(* table only rows that are saved or have a newer one that stays.          *)
LEMMA NothingTaken ==
  ASSUME TypeInv, TypeInv', NoRowVanishes,
         quarantine \subseteq quarantine', turned \subseteq turned',
         \A r \in Present \ Present' : Saved(r) \/
            \E k \in Present \cap Present' : k # r /\ KeyOf[k] = KeyOf[r] /\ Stamp[k] >= Stamp[r],
         \A r \in Rows : table'[r] = Gone => table[r] = Gone \/ r \in Present
  PROVE  NoRowVanishes'
<1> SUFFICES ASSUME NEW r \in Rows, table'[r] = Gone, ~Saved(r)'
             PROVE  MadeUp(r)'
  BY DEF NoRowVanishes, MadeUp
<1>1. \A k \in Rows : Saved(k) => Saved(k)'
  BY DEF Saved
<1>2. r \notin Present'
  BY DEF Present, Values
<1>3. Stamp \in [Rows -> Nat]
  BY RowAssumption DEF RowAssumption
<1>4. CASE r \in Present
  BY <1>1, <1>2, <1>4 DEF MadeUp, Present
<1>5. CASE table[r] = Gone
  <2>1. ~Saved(r)
    BY <1>1
  <2>2. PICK k \in Rows \ {r} : /\ KeyOf[k] = KeyOf[r] /\ Stamp[k] >= Stamp[r]
                                /\ k \in Present \/ Saved(k)
    BY <1>5, <2>1 DEF NoRowVanishes
  <2>3. CASE Saved(k) \/ k \in Present'
    BY <1>1, <2>2, <2>3 DEF MadeUp
  <2>4. CASE k \in Present \ Present' /\ ~Saved(k)
    <3>1. PICK j \in Present \cap Present' : j # k /\ KeyOf[j] = KeyOf[k] /\ Stamp[j] >= Stamp[k]
      BY <2>4
    <3>2. j \in Rows \ {r} /\ Stamp[j] >= Stamp[r]
      BY <1>2, <1>3, <2>2, <3>1 DEF Present
    <3> QED
      BY <2>2, <3>1, <3>2 DEF MadeUp
  <2> QED
    BY <2>2, <2>3, <2>4
<1> QED
  BY <1>4, <1>5

(* The statements of Effect take only older rows of an order.              *)
LEMMA EffectTakes ==
  ASSUME TypeInv, decision \in Decisions, Effect
  PROVE  /\ \A r \in Present \ Present' :
              \E k \in Present \cap Present' : k # r /\ KeyOf[k] = KeyOf[r] /\ Stamp[k] >= Stamp[r]
         /\ \A r \in Rows : table'[r] = Gone => table[r] = Gone \/ r \in Present
<1> USE DEF TypeInv, Present, Changing, Values
<1>1. CASE decision.strategy \in Imputations /\ Changing(Imputed(fill))
  <2>1. \A r \in Rows : table'[r] = table[r] \/ (r \in Present /\ r \in Present')
    BY <1>1 DEF Imputed
  <2> QED
    BY <2>1
<1>2. CASE decision.strategy = "COERCE" /\ Changing(Coerced)
  <2>1. \A r \in Rows : table'[r] = table[r] \/ (r \in Present /\ r \in Present')
    BY <1>2, ClipTypes DEF Coerced, Clipped, Below, Above
  <2> QED
    BY <2>1
<1>3. ASSUME NEW K \in SUBSET Present, IsDeduplicated(K), Changing(Without(Present \ K))
      PROVE  /\ \A r \in Present \ Present' :
                  \E k \in Present \cap Present' :
                     k # r /\ KeyOf[k] = KeyOf[r] /\ Stamp[k] >= Stamp[r]
             /\ \A r \in Rows : table'[r] = Gone => table[r] = Gone \/ r \in Present
  <2>1. \A r \in Rows : table'[r] = IF r \in Present \ K THEN Gone ELSE table[r]
    BY <1>3 DEF Without
  <2>2. Present' = K
    BY <2>1
  <2> QED
    BY <1>3, <2>1, <2>2 DEF IsDeduplicated
<1> QED
  BY <1>1, <1>2, <1>3 DEF Effect

(* A DELETE takes rows that are saved.                                     *)
LEMMA DeleteTakes ==
  ASSUME TypeInv, SavedFirst, pc = "delete", Changing(Without(Nulls))
  PROVE  /\ \A r \in Present \ Present' : Saved(r)
         /\ \A r \in Rows : table'[r] = Gone => table[r] = Gone \/ r \in Present
BY DEF TypeInv, SavedFirst, Changing, Without, Nulls, Present, Values

LEMMA RowStep == TypeInv /\ TypeInv' /\ RowInv /\ [Next]_vars => RowInv'
<1> SUFFICES ASSUME TypeInv, TypeInv', RowInv, [Next]_vars PROVE RowInv'
  OBVIOUS
<1> USE DEF RowInv
<1>1. ASSUME UNCHANGED <<table, quarantine, turned>>, pc' # "delete" \/ pc' = pc PROVE RowInv'
  BY <1>1 DEF SavedFirst, Nulls, Saved, NoRowVanishes, Present
<1>2. ASSUME UNCHANGED <<quarantine, turned>>, pc' # "delete", pc = "write", Effect PROVE RowInv'
  <2>1. NoRowVanishes'
    BY <1>2, EffectTakes, NothingTaken DEF TypeInv, Working
  <2> QED
    BY <1>2, <2>1 DEF SavedFirst
<1>3. ASSUME UNCHANGED <<quarantine, turned>>, pc = "delete", pc' # "delete",
             Changing(Without(Nulls))
      PROVE  RowInv'
  <2>1. NoRowVanishes'
    BY <1>3, DeleteTakes, NothingTaken
  <2> QED
    BY <1>3, <2>1 DEF SavedFirst
<1>4. ASSUME quarantine' = quarantine \cup Nulls, UNCHANGED <<table, turned>> PROVE RowInv'
  <2>1. NoRowVanishes'
    BY <1>4, NothingTaken DEF Present
  <2> QED
    BY <1>4, <2>1 DEF SavedFirst, Nulls, Saved
<1>5. CASE Load
  BY <1>1, <1>5 DEF Load, history
<1>6. CASE Decide
  BY <1>1, <1>6 DEF Decide, Report, FirstStep, history
<1>7. CASE DecideFails
  BY <1>1, <1>7 DEF DecideFails, Report, history
<1>8. CASE ReadFill
  BY <1>1, <1>8 DEF ReadFill, Skip, Report
<1>9. CASE Count
  BY <1>1, <1>9 DEF Count, Skip, Report
<1>10. CASE Write
  BY <1>2, <1>10 DEF Write, Report
<1>11. CASE Recount
  BY <1>1, <1>11 DEF Recount, Report, history
<1>12. CASE AppendBad
  BY <1>4, <1>12 DEF AppendBad, history
<1>13. CASE Delete
  BY <1>3, <1>13 DEF Delete, Report
<1>14. CASE Fail
  <2>1. Raise /\ UNCHANGED turned /\ pc' # "delete"
    BY <1>14 DEF Fail, Raise, Report
  <2>2. \/ UNCHANGED <<table, quarantine>>
        \/ pc = "write" /\ Effect /\ UNCHANGED quarantine
        \/ quarantine' = quarantine \cup Nulls /\ UNCHANGED table
        \/ pc = "delete" /\ Changing(Without(Nulls)) /\ UNCHANGED quarantine
    BY <2>1 DEF Raise
  <2> QED
    BY <1>1, <1>2, <1>3, <1>4, <2>1, <2>2
<1>15. CASE WriteLog
  BY <1>1, <1>15 DEF WriteLog, Idle, history
<1>16. CASE Crash
  BY <1>1, <1>16 DEF Crash, Idle, history
<1>17. CASE PipelineWrites
  <2> PICK r \in Rows, v \in Values :
        /\ table' = [table EXCEPT ![r] = v]
        /\ turned' = IF pc = "delete" /\ v = NULL THEN turned \cup {r} ELSE turned
    BY <1>17 DEF PipelineWrites
  <2>1. UNCHANGED <<quarantine, pc>>
    BY <1>17 DEF PipelineWrites, agent
  <2>2. \A q \in Rows : q # r => table'[q] = table[q]
    BY DEF TypeInv
  <2>3. table'[r] = v
    BY DEF TypeInv
  <2>4. SavedFirst'
    BY <2>1, <2>2, <2>3 DEF SavedFirst, Nulls, Saved
  <2>5. NoRowVanishes'
    BY <2>1, <2>2, <2>3, NothingTaken DEF Present, Values
  <2> QED
    BY <2>4, <2>5
<1>18. CASE UNCHANGED vars
  BY <1>1, <1>18 DEF vars, agent, history
<1> QED
  BY <1>5, <1>6, <1>7, <1>8, <1>9, <1>10, <1>11, <1>12, <1>13, <1>14, <1>15, <1>16, <1>17, <1>18
     DEF Next

(* Whatever the model decides, and whatever raises or is killed: a row the *)
(* agent takes from the table is saved, or a row of the same order at      *)
(* least as new is there or was saved.                                     *)
THEOREM NothingVanishes == Spec => []NoRowVanishes
<1>1. Init => RowInv
  BY ContentAssumption
     DEF ContentAssumption, Init, RowInv, SavedFirst, NoRowVanishes, Values
<1>2. RowInv => NoRowVanishes
  BY DEF RowInv
<1> QED
  BY TypeInvariant, RowStep, <1>1, <1>2, PTL DEF Spec
-----------------------------------------------------------------------------
At(c) == [run |-> counts.runs, cluster |-> c]

(* An action of the run under way agrees with what it did.                 *)
Truthful(a) ==
  /\ a.status = "SKIPPED" => At(a.cluster) \notin changes
  /\ a.status = "APPLIED" /\ At(a.cluster) \notin disturbed =>
       (a.rows > 0 <=> At(a.cluster) \in changes)

(* Log and changes are of runs so far; the log not of the one under way.   *)
Numbered ==
  /\ \A l \in log : l.run \in Nat /\ l.run <= counts.runs
  /\ \A x \in changes : /\ x = [run |-> x.run, cluster |-> x.cluster]
                        /\ x.run \in Nat /\ x.run <= counts.runs
  /\ pc # "idle" => \A l \in log : l.run # counts.runs

(* The clusters reported or changed are past, but for the one in hand.     *)
LeftBehind ==
  pc # "idle" =>
    /\ \A a \in actions : a.cluster \in Clusters \ todo /\ a.cluster # cluster
    /\ \A x \in changes : x.run = counts.runs => x.cluster \in Clusters \ todo

(* A change is reported, or was just made by the INSERT OVERWRITE.         *)
Reported ==
  pc # "idle" =>
    \A x \in changes : x.run = counts.runs =>
      \/ pc = "recount" /\ x.cluster = cluster
      \/ \E a \in actions : a.cluster = x.cluster /\ a.status \in {"APPLIED", "FAILED"}

(* The strategy in hand: it has changed nothing before its one statement,  *)
(* and what it counted still holds unless a pipeline wrote.                *)
InHand ==
  /\ pc \notin Working => cluster = NoCluster
  /\ pc \in Working => cluster \notin todo
  /\ pc \in Working \ {"recount"} => Here \notin changes
  /\ pc \in {"count", "write"} /\ decision.strategy \in Imputations => fill # NULL
  /\ Here \notin disturbed =>
       /\ pc = "write" => before = Cardinality(Affected)
       /\ pc \in {"append", "delete"} => before > 0 /\ Nulls # {}
       /\ pc = "recount" => (before > Cardinality(Present) <=> Here \in changes)

LogInv ==
  /\ Numbered /\ LeftBehind /\ Reported /\ InHand
  /\ pc = "idle" => actions = {}
  /\ \A a \in actions : Truthful(a)
  /\ LogTellsTheTruth

(* Counts of the table tell sets of its rows apart.                        *)
LEMMA SizesTell ==
  ASSUME NEW S \in SUBSET Rows, NEW T \in SUBSET S
  PROVE  /\ Cardinality(S) \in Nat /\ Cardinality(T) \in Nat
         /\ Cardinality(S) > 0 <=> S # {}
         /\ Cardinality(S) > Cardinality(T) <=> S # T
<1>1. IsFiniteSet(S)
  BY RowAssumption, FS_Subset DEF RowAssumption
<1>2. IsFiniteSet(T) /\ Cardinality(T) <= Cardinality(S) /\ (Cardinality(S) = Cardinality(T) => S = T)
  BY <1>1, FS_Subset
<1>3. Cardinality(S) \in Nat /\ Cardinality(T) \in Nat
  BY <1>1, <1>2, FS_CardinalityType
<1>4. Cardinality(S) = 0 <=> S = {}
  BY <1>1, FS_EmptySet
<1> QED
  BY <1>2, <1>3, <1>4

(* The end of a strategy, or of a cluster without one: a true report, that *)
(* does not hide a change.                                                 *)
LEMMA ReportKeepsLog ==
  ASSUME TypeInv, LogInv, pc \in Working \cup {"decide"}, NEW entry, Report(entry, todo'),
         entry.cluster \in Clusters \ todo',
         IF pc = "decide" THEN entry.cluster \in todo ELSE entry.cluster = cluster,
         todo' \subseteq todo, changes \subseteq changes',
         \A x \in changes' \ changes : pc # "recount" /\ x = At(entry.cluster),
         UNCHANGED <<disturbed, log, unlogged>>, counts'.runs = counts.runs,
         Truthful(entry)', At(entry.cluster)' \in changes' => entry.status \in {"APPLIED", "FAILED"}
  PROVE  LogInv'
<1> USE DEF LogInv
<1>1. /\ actions' = actions \cup {entry} /\ pc' \in {"log", "decide"} /\ cluster' = NoCluster
      /\ pc # "idle"
  BY DEF Report, Working
<1>2. \A x \in changes' \ changes : x.run = counts.runs /\ x.cluster = entry.cluster
  BY DEF At
<1>3. \A a \in actions : a.cluster # entry.cluster
  BY <1>1 DEF LeftBehind
<1>4. Numbered'
  <2>1. \A x \in changes' : /\ x = [run |-> x.run, cluster |-> x.cluster]
                            /\ x.run \in Nat /\ x.run <= counts.runs
    BY <1>2 DEF Numbered, At, TypeInv
  <2> QED
    BY <1>1, <2>1 DEF Numbered
<1>5. LeftBehind'
  BY <1>1, <1>2, ClusterAssumption DEF LeftBehind, ClusterAssumption
<1>6. Reported'
  <2> SUFFICES ASSUME NEW x \in changes', x.run = counts.runs
               PROVE  \E a \in actions' : a.cluster = x.cluster /\ a.status \in {"APPLIED", "FAILED"}
    BY DEF Reported
  <2>1. CASE x.cluster = entry.cluster
    <3>1. x = [run |-> x.run, cluster |-> x.cluster]
      BY <1>4 DEF Numbered
    <3>2. At(entry.cluster)' \in changes'
      BY <2>1, <3>1 DEF At
    <3> QED
      BY <1>1, <2>1, <3>2
  <2>2. CASE x.cluster # entry.cluster
    <3>1. x \in changes /\ (pc = "recount" => x.cluster # cluster)
      BY <1>2, <2>2 DEF Working
    <3> QED
      BY <1>1, <3>1 DEF Reported
  <2> QED
    BY <2>1, <2>2
<1>7. InHand'
  BY <1>1 DEF InHand, Working
<1>8. \A a \in actions' : Truthful(a)'
  <2> SUFFICES ASSUME NEW a \in actions PROVE Truthful(a)'
    BY <1>1
  <2>1. At(a.cluster)' = At(a.cluster)
    BY DEF At
  <2>2. At(a.cluster) \in changes' <=> At(a.cluster) \in changes
    BY <1>2, <1>3 DEF At
  <2> QED
    BY <2>1, <2>2 DEF Truthful
<1>9. LogTellsTheTruth'
  <2>1. \A l \in log : LET at == [run |-> l.run, cluster |-> l.entry.cluster]
                     IN  at \in changes' <=> at \in changes
    BY <1>1, <1>2 DEF Numbered
  <2>2. \A x \in changes' \ changes : x.run = counts.runs
    BY <1>2
  <2> QED
    BY <1>1, <2>1, <2>2 DEF LogTellsTheTruth
<1> QED
  BY <1>1, <1>4, <1>5, <1>6, <1>7, <1>8, <1>9

(* A step inside a strategy, or of others, that changes nothing recorded.  *)
LEMMA QuietKeepsLog ==
  ASSUME TypeInv, LogInv, InHand', UNCHANGED <<actions, changes, log, unlogged, cluster, todo>>,
         disturbed \subseteq disturbed', counts'.runs = counts.runs,
         pc' = pc \/ (pc # "idle" /\ pc' # "idle" /\ pc # "recount")
  PROVE  LogInv'
<1> USE DEF LogInv
<1>1. Numbered' /\ LeftBehind' /\ Reported'
  BY DEF Numbered, LeftBehind, Reported
<1>2. \A a \in actions' : Truthful(a)'
  BY DEF Truthful, At
<1>3. LogTellsTheTruth'
  BY DEF LogTellsTheTruth
<1> QED
  BY <1>1, <1>2, <1>3

(* What the statement of a strategy changes it has counted.                *)
LEMMA CountedIsChanged ==
  ASSUME TypeInv, LogInv, pc = "write", Effect, decision.strategy # "DEDUPLICATE",
         Here \notin disturbed
  PROVE  before > 0 <=> table' # table
<1>1. before = Cardinality(Affected) /\ Affected \in SUBSET Rows
  BY Counted DEF LogInv, InHand
<1>2. before > 0 <=> Affected # {}
  BY <1>1, SizesTell
<1>3. CASE decision.strategy \in Imputations
  <2>1. table' = Imputed(fill) /\ fill # NULL /\ Affected = Nulls
    BY <1>3 DEF Effect, Changing, LogInv, InHand, Affected, Imputations
  <2>2. table' # table <=> Nulls # {}
    BY <2>1 DEF Imputed, Nulls, TypeInv
  <2> QED
    BY <1>2, <2>1, <2>2
<1>4. CASE decision.strategy = "COERCE"
  <2>1. table' = Coerced /\ Affected = Outside
    BY <1>4 DEF Effect, Changing, Affected, Imputations
  <2>2. table' # table <=> Outside # {}
    BY <2>1, ClipTypes DEF Coerced, Outside, TypeInv, Working
  <2> QED
    BY <1>2, <2>1, <2>2
<1> QED
  BY <1>3, <1>4 DEF Effect

LEMMA DeletedIsChanged ==
  ASSUME TypeInv, Changing(Without(Nulls)) PROVE table' # table <=> Nulls # {}
BY DEF TypeInv, Changing, Without, Nulls

LEMMA LogStep == TypeInv /\ LogInv /\ [Next]_vars => LogInv'
<1> SUFFICES ASSUME TypeInv, LogInv, [Next]_vars PROVE LogInv'
  OBVIOUS
<1> USE DEF LogInv
<1>1. CASE Load
  <2>1. /\ counts'.runs = counts.runs + 1 /\ pc = "idle" /\ pc' = "decide" /\ actions' = {}
        /\ UNCHANGED <<cluster, log, unlogged, changes, disturbed>>
    BY <1>1 DEF Load, TypeInv, answer, record, history
  <2>2. Numbered' /\ \A x \in changes' : x.run # counts'.runs
    BY <2>1 DEF Numbered, TypeInv
  <2>3. InHand'
    BY <2>1 DEF InHand, Working
  <2>4. LogTellsTheTruth'
    BY <2>1 DEF LogTellsTheTruth
  <2> QED
    BY <2>1, <2>2, <2>3, <2>4 DEF LeftBehind, Reported
<1>2. CASE Decide
  <2> PICK c \in todo, d \in Decisions :
        /\ todo' = todo \ {c}
        /\ IF dry \/ d.strategy = "REJECT"
             THEN Report(Entry(c, d.strategy, Given(d), "SKIPPED", 0), todo \ {c})
             ELSE /\ cluster' = c /\ decision' = d
                  /\ pc' = FirstStep(d)
                  /\ UNCHANGED <<fill, before, actions>>
    BY <1>2 DEF Decide
  <2>1. /\ UNCHANGED <<table, changes, disturbed, log, unlogged, counts>> /\ pc = "decide"
        /\ c \in Clusters
    BY <1>2 DEF Decide, record, history, TypeInv
  <2>2. At(c) \notin changes
    BY <2>1 DEF LeftBehind, At
  <2>3. CASE dry \/ d.strategy = "REJECT"
    <3>1. PICK e : Report(e, todo') /\ e.cluster = c /\ e.status = "SKIPPED"
      BY <2>3 DEF Entry
    <3>2. Truthful(e)' /\ ~(At(e.cluster)' \in changes')
      BY <2>1, <2>2, <3>1 DEF Truthful, At
    <3> QED
      BY <2>1, <3>1, <3>2, ReportKeepsLog
  <2>4. CASE ~(dry \/ d.strategy = "REJECT")
    <3>1. /\ cluster' = c /\ decision' = d /\ actions' = actions
          /\ pc' = IF d.strategy \in Imputations THEN "fill" ELSE "count"
      BY <2>4 DEF FirstStep
    <3>2. Here' \notin changes
      BY <2>1, <2>2, <3>1 DEF Here, At
    <3>3. InHand'
      BY <2>1, <3>1, <3>2 DEF InHand, Working
    <3>4. Numbered' /\ LeftBehind' /\ Reported'
      BY <2>1, <3>1 DEF Numbered, LeftBehind, Reported
    <3>5. \A a \in actions' : Truthful(a)'
      BY <2>1, <3>1 DEF Truthful, At
    <3>6. LogTellsTheTruth'
      BY <2>1, <3>1 DEF LogTellsTheTruth
    <3> QED
      BY <3>1, <3>3, <3>4, <3>5, <3>6
  <2> QED
    BY <2>3, <2>4
<1>3. CASE DecideFails
  <2>1. /\ UNCHANGED <<changes, disturbed, log, unlogged>> /\ counts'.runs = counts.runs
        /\ pc = "decide"
    BY <1>3 DEF DecideFails, record, history, TypeInv
  <2>2. PICK c \in todo :
          /\ todo' = todo \ {c}
          /\ \E strategy, given : Report(Entry(c, strategy, given, "FAILED", 0), todo \ {c})
    BY <1>3 DEF DecideFails
  <2>3. \E e : /\ todo' = todo \ {c} /\ Report(e, todo')
              /\ e.cluster = c /\ e.status = "FAILED"
    BY <2>2 DEF Entry
  <2> QED
    BY <2>1, <2>2, <2>3, ReportKeepsLog DEF Truthful, TypeInv
<1>4. ASSUME pc \in Working, Skip, todo' = todo, counts' = counts, pc # "recount",
             UNCHANGED <<changes, disturbed, log, unlogged>>
      PROVE  LogInv'
  <2>1. PICK e : Report(e, todo') /\ e.cluster = cluster /\ e.status = "APPLIED" /\ e.rows = 0
    BY <1>4 DEF Skip, Outcome, Entry
  <2>2. Truthful(e)' /\ cluster \in Clusters \ todo
    BY <1>4, <2>1 DEF Truthful, At, Here, InHand, TypeInv
  <2> QED
    BY <1>4, <2>1, <2>2, ReportKeepsLog DEF Working
<1>5. CASE ReadFill
  <2>1. UNCHANGED <<table, changes, disturbed, log, unlogged, counts, todo>> /\ pc = "fill"
    BY <1>5 DEF ReadFill, record
  <2>2. CASE Skip
    BY <1>4, <2>1, <2>2 DEF Working
  <2>3. CASE (\E v \in Fills : fill' = v) /\ pc' = "count"
             /\ UNCHANGED <<cluster, decision, before, actions, settled>>
    <3>1. fill' # NULL
      BY <2>1, <2>3, FillTypes DEF TypeInv, Working
    <3>2. InHand'
      BY <2>1, <2>3, <3>1 DEF InHand, Working, Here
    <3> QED
      BY <2>1, <2>3, <3>2, QuietKeepsLog
  <2> QED
    BY <1>5, <2>2, <2>3 DEF ReadFill
<1>6. CASE Count
  <2>1. UNCHANGED <<table, changes, disturbed, log, unlogged, counts, todo>> /\ pc = "count"
    BY <1>6 DEF Count, record
  <2>2. CASE Skip
    BY <1>4, <2>1, <2>2 DEF Working
  <2>3. CASE /\ before' = Cardinality(Affected)
             /\ pc' = IF decision.strategy = "QUARANTINE" THEN "append" ELSE "write"
             /\ decision.strategy = "QUARANTINE" => Nulls # {}
             /\ UNCHANGED <<cluster, decision, fill, actions, settled>>
    <3>1. Affected' = Affected
      BY <2>1, <2>3 DEF Affected, Outside, Present, Nulls
    <3>2. Nulls' = Nulls /\ Nulls \in SUBSET Rows
      BY <2>1 DEF Nulls
    <3>3. decision.strategy = "QUARANTINE" => Affected = Nulls
      BY DEF Affected
    <3>4. decision.strategy = "QUARANTINE" => before' > 0
      BY <2>3, <3>2, <3>3, SizesTell
    <3>5. InHand'
      BY <2>1, <2>3, <3>1, <3>2, <3>4 DEF InHand, Working, Here
    <3> QED
      BY <2>1, <2>3, <3>5, QuietKeepsLog
  <2> QED
    BY <1>6, <2>2, <2>3 DEF Count
<1>7. CASE Write
  <2>1. /\ UNCHANGED <<disturbed, log, unlogged, counts, todo>> /\ pc = "write" /\ Effect
        /\ changes' = IF table' # table THEN changes \cup {Here} ELSE changes
        /\ Here = At(cluster) /\ Here \notin changes /\ cluster \in Clusters \ todo
    BY <1>7 DEF Write, record, Effect, Changing, Here, At, InHand, Working, TypeInv
  <2>2. CASE decision.strategy = "DEDUPLICATE"
    <3>1. pc' = "recount" /\ UNCHANGED <<cluster, decision, fill, before, actions>>
      BY <1>7, <2>2 DEF Write, answer
    <3>2. PICK K \in SUBSET Present : table' = Without(Present \ K)
      BY <2>1, <2>2 DEF Effect, Changing, Imputations
    <3>3. Present' = K /\ (table' # table <=> Present # K) /\ Present \in SUBSET Rows
      BY <3>2 DEF Without, Present, TypeInv, Values
    <3>4. Here' \notin disturbed' => before = Cardinality(Present)
      BY <2>1, <2>2, <3>1 DEF InHand, Affected, Here
    <3>5. Here' \notin disturbed' => (before' > Cardinality(Present') <=> Here' \in changes')
      BY <2>1, <3>1, <3>3, <3>4, SizesTell DEF Here
    <3>6. InHand'
      BY <2>1, <3>1, <3>5 DEF InHand, Working
    <3>7. Numbered'
      BY <2>1, <3>1 DEF Numbered, Here, TypeInv
    <3>8. LeftBehind' /\ Reported'
      BY <2>1, <3>1 DEF LeftBehind, Reported, Here
    <3>9. \A a \in actions' : Truthful(a)'
      <4> SUFFICES ASSUME NEW a \in actions PROVE Truthful(a)'
        BY <3>1
      <4>1. a.cluster # cluster
        BY <2>1 DEF LeftBehind
      <4>2. At(a.cluster) \in changes' <=> At(a.cluster) \in changes
        BY <2>1, <4>1 DEF At
      <4> QED
        BY <2>1, <4>2 DEF Truthful, At
    <3>10. LogTellsTheTruth'
      BY <2>1, <3>1 DEF LogTellsTheTruth, Numbered, Here
    <3> QED
      BY <3>1, <3>6, <3>7, <3>8, <3>9, <3>10
  <2>3. CASE decision.strategy # "DEDUPLICATE"
    <3>1. PICK e : /\ Report(e, todo') /\ e.cluster = cluster /\ e.status = "APPLIED"
                   /\ e.rows = before
      BY <1>7, <2>1, <2>3 DEF Write, Outcome, Entry
    <3>2. Here \notin disturbed => (before > 0 <=> table' # table)
      BY <2>1, <2>3, CountedIsChanged
    <3>3. Truthful(e)'
      BY <2>1, <3>1, <3>2 DEF Truthful, At
    <3> QED
      BY <2>1, <3>1, <3>3, ReportKeepsLog DEF Working
  <2> QED
    BY <2>2, <2>3
<1>8. CASE Recount
  <2>1. /\ UNCHANGED <<changes, disturbed, log, unlogged, counts, todo>> /\ pc = "recount"
        /\ Here = At(cluster) /\ cluster \in Clusters \ todo
    BY <1>8 DEF Recount, record, history, Here, At, InHand, Working, TypeInv
  <2>2. PICK e : /\ Report(e, todo') /\ e.cluster = cluster /\ e.status = "APPLIED"
                 /\ e.rows = before - Cardinality(Present)
    BY <1>8, <2>1 DEF Recount, Outcome, Entry
  <2>3. Cardinality(Present) \in Nat /\ before \in Nat
    <3>1. Present \in SUBSET Rows
      BY DEF Present
    <3> QED
      BY <3>1, SizesTell DEF TypeInv
  <2>4. Here \notin disturbed => (e.rows > 0 <=> Here \in changes)
    BY <2>1, <2>2, <2>3 DEF InHand
  <2>5. Truthful(e)'
    BY <2>1, <2>2, <2>4 DEF Truthful, At
  <2> QED
    BY <2>1, <2>2, <2>5, ReportKeepsLog DEF Working
<1>9. CASE AppendBad
  <2>1. /\ UNCHANGED <<table, changes, disturbed, log, unlogged, counts, todo, cluster, decision,
                       before, fill, actions>>
        /\ pc = "append" /\ pc' = "delete"
    BY <1>9 DEF AppendBad, answer, record, history
  <2>2. InHand'
    BY <2>1 DEF InHand, Working, Here, Nulls
  <2> QED
    BY <2>1, <2>2, QuietKeepsLog
<1>10. CASE Delete
  <2>1. /\ UNCHANGED <<disturbed, log, unlogged, counts, todo>> /\ pc = "delete"
        /\ changes' = IF table' # table THEN changes \cup {Here} ELSE changes
        /\ table' # table <=> Nulls # {}
        /\ Here = At(cluster) /\ Here \notin changes /\ cluster \in Clusters \ todo
    BY <1>10, DeletedIsChanged DEF Delete, record, Changing, Here, At, InHand, Working, TypeInv
  <2>2. PICK e : /\ Report(e, todo') /\ e.cluster = cluster /\ e.status = "APPLIED"
                 /\ e.rows = before
    BY <1>10, <2>1 DEF Delete, Outcome, Entry
  <2>3. Here \notin disturbed => (before > 0 <=> table' # table)
    BY <2>1 DEF InHand
  <2>4. Truthful(e)'
    BY <2>1, <2>2, <2>3 DEF Truthful, At
  <2> QED
    BY <2>1, <2>2, <2>4, ReportKeepsLog DEF Working
<1>11. CASE Fail
  <2>1. /\ Raise /\ counts'.runs = counts.runs /\ pc \in Working
        /\ UNCHANGED <<disturbed, log, unlogged, todo>>
        /\ cluster \in Clusters \ todo
    BY <1>11 DEF Fail, Raise, TypeInv, record, Working, InHand
  <2>2. changes' = changes \/ (changes' = changes \cup {At(cluster)} /\ pc # "recount")
    BY <2>1 DEF Raise, Effect, Changing, Here, At
  <2>3. PICK e : Report(e, todo') /\ e.cluster = cluster /\ e.status = "FAILED"
    BY <2>1 DEF Raise, Outcome, Entry
  <2>4. Truthful(e)'
    BY <2>3 DEF Truthful
  <2> QED
    BY <2>1, <2>2, <2>3, <2>4, ReportKeepsLog DEF Working
<1>12. CASE WriteLog
  <2>1. /\ pc = "log" /\ pc' = "idle" /\ actions' = {} /\ cluster' = NoCluster
        /\ UNCHANGED <<changes, disturbed, counts>>
    BY <1>12 DEF WriteLog, Idle, history
  <2>2. InHand' /\ LeftBehind' /\ Reported'
    BY <2>1 DEF InHand, Working, LeftBehind, Reported
  <2>3. CASE Inferable
    <3>1. /\ log' = log \cup {[run |-> counts.runs, entry |-> a] : a \in actions}
          /\ unlogged' = unlogged
      BY <1>12, <2>3 DEF WriteLog
    <3>2. Numbered'
      BY <2>1, <3>1 DEF Numbered, TypeInv
    <3>3. \A l \in log' : l \in log \/ \E a \in actions : l.run = counts.runs /\ l.entry = a
      BY <3>1
    <3>4. ASSUME NEW a \in actions PROVE \E l \in log' : l.run = counts.runs /\ l.entry = a
      <4>1. [run |-> counts.runs, entry |-> a] \in log'
        BY <3>1
      <4> QED
        BY <4>1
    <3>5. \A l \in log' :
            LET at == [run |-> l.run, cluster |-> l.entry.cluster]
            IN  /\ l.entry.status = "SKIPPED" => at \notin changes
                /\ l.entry.status = "APPLIED" /\ at \notin disturbed =>
                     (l.entry.rows > 0 <=> at \in changes)
      BY <3>3 DEF LogTellsTheTruth, Truthful, At
    <3>6. \A x \in changes : x.run = counts.runs =>
            \E l \in log' : /\ l.run = x.run /\ l.entry.cluster = x.cluster
                           /\ l.entry.status \in {"APPLIED", "FAILED"}
      BY <2>1, <3>4 DEF Reported
    <3>7. log \subseteq log'
      BY <3>1
    <3>8. LogTellsTheTruth'
      BY <2>1, <3>1, <3>5, <3>6, <3>7 DEF LogTellsTheTruth
    <3> QED
      BY <2>1, <2>2, <3>2, <3>8
  <2>4. CASE ~Inferable
    <3>1. log' = log /\ unlogged' = unlogged \cup {counts.runs}
      BY <1>12, <2>4 DEF WriteLog
    <3>2. Numbered' /\ LogTellsTheTruth'
      BY <2>1, <3>1 DEF Numbered, LogTellsTheTruth
    <3> QED
      BY <2>1, <2>2, <3>2
  <2> QED
    BY <2>3, <2>4
<1>13. CASE Crash
  <2>1. /\ pc' = "idle" /\ actions' = {} /\ cluster' = NoCluster /\ counts'.runs = counts.runs
        /\ UNCHANGED <<changes, disturbed, log>> /\ unlogged' = unlogged \cup {counts.runs}
    BY <1>13 DEF Crash, Idle, history, TypeInv
  <2>2. InHand' /\ LeftBehind' /\ Reported'
    BY <2>1 DEF InHand, Working, LeftBehind, Reported
  <2>3. Numbered' /\ LogTellsTheTruth'
    BY <2>1 DEF Numbered, LogTellsTheTruth
  <2> QED
    BY <2>1, <2>2, <2>3
<1>14. CASE PipelineWrites
  <2>1. /\ UNCHANGED <<pc, cluster, decision, fill, before, todo, actions, log, unlogged, changes>>
        /\ counts'.runs = counts.runs
        /\ disturbed' = IF cluster = NoCluster THEN disturbed ELSE disturbed \cup {Here}
    BY <1>14 DEF PipelineWrites, agent, answer, record, TypeInv
  <2>2. InHand'
    <3>1. Here' = Here
      BY <2>1 DEF Here
    <3>2. pc \in Working => Here \in disturbed'
      BY <2>1, ClusterAssumption DEF TypeInv, ClusterAssumption
    <3> QED
      BY <2>1, <3>1, <3>2 DEF InHand, Working
  <2> QED
    BY <2>1, <2>2, QuietKeepsLog
<1>15. CASE UNCHANGED vars
  <2>1. InHand'
    BY <1>15 DEF vars, agent, answer, history, InHand, Here, Affected, Outside, Present, Nulls
  <2> QED
    BY <1>15, <2>1, QuietKeepsLog DEF vars, agent, answer, record, history
<1> QED
  BY <1>1, <1>2, <1>3, <1>5, <1>6, <1>7, <1>8, <1>9, <1>10, <1>11, <1>12, <1>13, <1>14, <1>15
     DEF Next

(* A log that is written is true of the changes its run made, whatever the *)
(* model answers and other writers do.                                     *)
THEOREM LogIsTrue == Spec => []LogTellsTheTruth
<1>1. Init => LogInv
  BY DEF Init, LogInv, Numbered, LeftBehind, Reported, InHand, Working, LogTellsTheTruth
<1>2. LogInv => LogTellsTheTruth
  BY DEF LogInv
<1> QED
  BY TypeInvariant, LogStep, <1>1, <1>2, PTL DEF Spec

-----------------------------------------------------------------------------
(* There is no value for d to put into the NULL rows.                      *)
NoFill(d) ==
  IF d.strategy = "IMPUTE_CONSTANT" THEN d.impute_value = NULL ELSE Present \subseteq Nulls

InBounds(d) == \A r \in Rows : ~Below(d, table[r]) /\ ~Above(d, table[r])

(* The decision d finds nothing to change.                                 *)
NothingToDo(d) ==
  /\ d.strategy \in Imputations => Nulls = {} \/ NoFill(d)
  /\ d.strategy = "COERCE" => InBounds(d)
  /\ d.strategy = "DEDUPLICATE" => \A j, k \in Present : KeyOf[j] = KeyOf[k] => j = k
  /\ d.strategy = "QUARANTINE" => Nulls = {}

(* Each strategy at its own statements; a fill found by a settled decision *)
(* has nowhere to go.                                                      *)
AtItsStep ==
  /\ pc = "fill" => decision.strategy \in Imputations
  /\ pc \in {"append", "delete"} => decision.strategy = "QUARANTINE"
  /\ pc \in {"count", "write"} /\ decision.strategy \in Imputations =>
       fill # NULL /\ (decision \in settled => Nulls = {})

SettledInv == AtItsStep /\ \A d \in settled : Ordered(d) => NothingToDo(d)

(* Removing rows makes no work for anyone.                                 *)
LEMMA LessKeeps ==
  ASSUME TypeInv, NEW d, NothingToDo(d),
         \A r \in Rows : table'[r] = table[r] \/ table'[r] = Gone
  PROVE  NothingToDo(d)'
<1>1. Present' \subseteq Present /\ Nulls' \subseteq Nulls
  BY DEF Present, Nulls, Values
<1>2. NoFill(d) => NoFill(d)'
  BY <1>1 DEF NoFill, Present, Nulls, Values
<1>3. InBounds(d) => InBounds(d)'
  BY DEF InBounds, Below, Above
<1> QED
  BY <1>1, <1>2, <1>3 DEF NothingToDo

(* Imputing removes the NULLs.                                             *)
LEMMA ImputeKeeps ==
  ASSUME TypeInv, NEW d, d.strategy \in Imputations \/ NothingToDo(d), d.strategy # "COERCE",
         fill # NULL, table' = Imputed(fill)
  PROVE  NothingToDo(d)'
<1>1. Nulls' = {} /\ Present' = Present
  BY DEF Imputed, Nulls, Present, TypeInv, Values
<1> QED
  BY <1>1 DEF NothingToDo, Imputations

(* Clipping replaces numbers by numbers.                                   *)
LEMMA CoerceKeeps ==
  ASSUME TypeInv, decision \in Decisions, NEW d, NothingToDo(d), d.strategy # "COERCE",
         table' = Coerced
  PROVE  NothingToDo(d)'
<1>1. ASSUME NEW v
      PROVE  /\ Clipped(v) = NULL <=> v = NULL
             /\ Clipped(v) \in Values <=> v \in Values
  BY AnswerTypes DEF Clipped, Below, Above, Values
<1>2. Nulls' = Nulls /\ Present' = Present
  BY <1>1 DEF Coerced, Nulls, Present
<1> QED
  BY <1>2 DEF NothingToDo, NoFill

(* What is not opposed stays within its bounds.                            *)
LEMMA UnopposedKeeps ==
  ASSUME NEW d \in Unopposed, d.strategy = "COERCE", InBounds(d)
  PROVE  InBounds(d)'
<1> SUFFICES ASSUME NEW r \in Rows PROVE ~Below(d, table'[r]) /\ ~Above(d, table'[r])
  BY DEF InBounds, Below, Above
<1>1. CASE table'[r] = table[r]
  BY <1>1 DEF InBounds
<1>2. CASE table'[r] # table[r]
  BY <1>2 DEF Unopposed
<1> QED
  BY <1>1, <1>2

(* Clipping puts every number within bounds that are a range.              *)
LEMMA ClippedInBounds ==
  ASSUME TypeInv, decision \in Decisions, decision.strategy = "COERCE", Ordered(decision), NEW v
  PROVE  ~Below(decision, Clipped(v)) /\ ~Above(decision, Clipped(v))
<1> DEFINE min == decision.coerce_min
           max == decision.coerce_max
<1>1. (min = NULL \/ min \in Int) /\ (max = NULL \/ max \in Int)
  BY AnswerTypes DEF Values
<1>2. min # NULL /\ max # NULL => min <= max
  BY DEF Ordered
<1>3. CASE Below(decision, v)
  BY <1>1, <1>2, <1>3 DEF Clipped, Below, Above
<1>4. CASE ~Below(decision, v) /\ Above(decision, v)
  BY <1>1, <1>2, <1>4 DEF Clipped, Below, Above
<1>5. CASE ~Below(decision, v) /\ ~Above(decision, v)
  BY <1>5 DEF Clipped
<1> QED
  BY <1>3, <1>4, <1>5

(* The writing statement leaves nothing to do for its own decision, nor    *)
(* for those that stay settled.                                            *)
LEMMA EffectSettles ==
  ASSUME TypeInv, SettledInv, pc = "write", Effect
  PROVE  \A d \in Unopposed \cup {decision} : Ordered(d) => NothingToDo(d)'
<1>1. Unopposed \subseteq settled /\ decision \in Decisions
  BY DEF Unopposed, TypeInv, Working
<1>2. ASSUME NEW d \in Unopposed, d.strategy = "COERCE", Ordered(d) PROVE NothingToDo(d)'
  <2>1. InBounds(d)
    BY <1>1, <1>2 DEF SettledInv, NothingToDo
  <2> QED
    BY <1>2, <2>1, UnopposedKeeps DEF NothingToDo, Imputations
<1>3. CASE decision.strategy \in Imputations /\ table' = Imputed(fill)
  <2>1. fill # NULL /\ decision.strategy # "COERCE"
    BY <1>3 DEF SettledInv, AtItsStep, Imputations
  <2>2. ASSUME NEW d \in Unopposed, d.strategy # "COERCE", Ordered(d) PROVE NothingToDo(d)'
    BY <1>1, <1>3, <2>1, <2>2, ImputeKeeps DEF SettledInv
  <2>3. ASSUME NEW d, d = decision PROVE NothingToDo(d)'
    BY <1>3, <2>1, <2>3, ImputeKeeps
  <2> QED
    BY <1>2, <2>2, <2>3
<1>4. CASE decision.strategy = "COERCE" /\ table' = Coerced
  <2>1. ASSUME NEW d \in Unopposed, d.strategy # "COERCE", Ordered(d) PROVE NothingToDo(d)'
    BY <1>1, <1>4, <2>1, CoerceKeeps DEF SettledInv
  <2>2. ASSUME NEW d, d = decision, Ordered(d) PROVE NothingToDo(d)'
    <3>1. \A r \in Rows : ~Below(d, table'[r]) /\ ~Above(d, table'[r])
      BY <1>1, <1>4, <2>2, ClippedInBounds DEF Coerced
    <3>2. InBounds(d)'
      BY <3>1 DEF InBounds, Below, Above
    <3> QED
      BY <1>4, <2>2, <3>2 DEF NothingToDo, Imputations
  <2> QED
    BY <1>2, <2>1, <2>2
<1>5. ASSUME NEW K \in SUBSET Present, IsDeduplicated(K), decision.strategy = "DEDUPLICATE",
             table' = Without(Present \ K)
      PROVE  \A d \in settled \cup {decision} : Ordered(d) => NothingToDo(d)'
  <2>1. \A d \in settled : Ordered(d) => NothingToDo(d)'
    BY <1>5, LessKeeps DEF Without, SettledInv
  <2>2. Present' \subseteq K
    BY <1>5 DEF Without, Present, Values
  <2>3. ASSUME NEW d, d = decision PROVE NothingToDo(d)'
    BY <1>5, <2>2, <2>3 DEF NothingToDo, IsDeduplicated, Imputations
  <2> QED
    BY <2>1, <2>3
<1> QED
  BY <1>1, <1>3, <1>4, <1>5 DEF Effect, Changing

LEMMA DeleteSettles ==
  ASSUME TypeInv, SettledInv, pc = "delete", table' = Without(Nulls)
  PROVE  \A d \in settled \cup {decision} : Ordered(d) => NothingToDo(d)'
<1>1. Nulls' = {}
  BY DEF Without, Nulls
<1>2. ASSUME NEW d, d = decision PROVE NothingToDo(d)'
  BY <1>1, <1>2 DEF SettledInv, AtItsStep, NothingToDo, Imputations
<1>3. \A d \in settled : Ordered(d) => NothingToDo(d)'
  BY LessKeeps DEF Without, SettledInv
<1> QED
  BY <1>2, <1>3

(* A strategy that skips its statement finds nothing to do either.         *)
LEMMA SkipSettles ==
  ASSUME TypeInv, SettledInv, ReadFill \/ Count, Skip
  PROVE  NothingToDo(decision)
<1>1. CASE ReadFill
  <2>1. pc = "fill" /\ pc' \in {"log", "decide"} /\ decision.strategy \in Imputations
    BY <1>1 DEF ReadFill, Skip, Report, SettledInv, AtItsStep
  <2>2. Fills = {}
    BY <1>1, <2>1 DEF ReadFill
  <2>3. NoFill(decision)
    BY <2>1, <2>2 DEF Fills, NoFill, Present, Nulls, Values
  <2> QED
    BY <2>1, <2>3 DEF NothingToDo, Imputations
<1>2. CASE Count
  <2>1. pc = "count" /\ pc' \in {"log", "decide"}
    BY <1>2 DEF Count, Skip, Report
  <2>2. \/ decision.strategy = "COERCE" /\ Unbounded
        \/ decision.strategy = "QUARANTINE" /\ Nulls = {}
    BY <1>2, <2>1 DEF Count
  <2> QED
    BY <2>2 DEF NothingToDo, Imputations, Unbounded, InBounds, Below, Above
<1> QED
  BY <1>1, <1>2

(* Steps that leave the table alone.                                       *)
LEMMA TableKept ==
  ASSUME table' = table, NEW d, NothingToDo(d) PROVE NothingToDo(d)'
BY DEF NothingToDo, NoFill, Present, Nulls, InBounds, Below, Above

LEMMA SettledStep == TypeInv /\ SettledInv /\ [Next]_vars => SettledInv'
<1> SUFFICES ASSUME TypeInv, SettledInv, [Next]_vars PROVE SettledInv'
  OBVIOUS
<1>1. ASSUME table' = table, settled' = settled, pc' \in {"idle", "decide", "log", "recount"}
      PROVE  SettledInv'
  BY <1>1, TableKept DEF SettledInv, AtItsStep
<1>2. CASE Load \/ DecideFails \/ Recount \/ WriteLog \/ Crash
  BY <1>1, <1>2 DEF Load, DecideFails, Recount, WriteLog, Crash, Report, Idle, history
<1>3. CASE Decide
  <2>1. table' = table /\ settled' = settled
    BY <1>3 DEF Decide, history
  <2>2. PICK d \in Decisions : \/ pc' \in {"decide", "log"}
                               \/ decision' = d /\ pc' = FirstStep(d)
    BY <1>3 DEF Decide, Report
  <2>3. AtItsStep'
    BY <2>2 DEF AtItsStep, FirstStep
  <2> QED
    BY <2>1, <2>3, TableKept DEF SettledInv
<1>4. CASE (ReadFill \/ Count) /\ Skip
  <2>1. /\ table' = table /\ settled' = settled \cup {decision} /\ pc' \in {"log", "decide"}
    BY <1>4 DEF ReadFill, Count, Skip, Report
  <2>2. \A d \in settled' : Ordered(d) => NothingToDo(d)
    BY <1>4, <2>1, SkipSettles DEF SettledInv
  <2> QED
    BY <2>1, <2>2, TableKept DEF SettledInv, AtItsStep
<1>5. CASE ReadFill /\ ~Skip
  <2>1. /\ pc = "fill" /\ table' = table /\ settled' = settled /\ decision' = decision
        /\ pc' = "count" /\ fill' \in Fills
    BY <1>5 DEF ReadFill
  <2>2. fill' # NULL
    BY <2>1, FillTypes DEF TypeInv, Working
  <2>3. ASSUME decision \in settled PROVE Nulls = {}
    <3>1. decision.strategy \in Imputations /\ (Nulls = {} \/ NoFill(decision))
      BY <2>1, <2>3 DEF SettledInv, AtItsStep, NothingToDo, Ordered, Imputations
    <3>2. ~NoFill(decision)
      BY <2>1 DEF Fills, NoFill, Present, Nulls, Values
    <3> QED
      BY <3>1, <3>2
  <2>4. AtItsStep'
    BY <2>1, <2>2, <2>3 DEF AtItsStep, Nulls
  <2> QED
    BY <2>1, <2>4, TableKept DEF SettledInv
<1>6. CASE Count /\ ~Skip
  <2>1. /\ pc = "count" /\ table' = table /\ UNCHANGED <<decision, fill, settled>>
        /\ pc' = IF decision.strategy = "QUARANTINE" THEN "append" ELSE "write"
    BY <1>6 DEF Count
  <2>2. AtItsStep'
    BY <2>1 DEF SettledInv, AtItsStep, Nulls
  <2> QED
    BY <2>1, <2>2, TableKept DEF SettledInv
<1>7. CASE Write
  <2>1. pc = "write" /\ Effect /\ settled' = Unopposed \cup {decision}
        /\ pc' \in {"recount", "log", "decide"}
    BY <1>7 DEF Write, Report
  <2> QED
    BY <2>1, EffectSettles DEF SettledInv, AtItsStep
<1>8. CASE AppendBad
  <2>1. pc = "append" /\ table' = table /\ settled' = settled /\ pc' = "delete" /\ decision' = decision
    BY <1>8 DEF AppendBad, history, answer
  <2> QED
    BY <2>1, TableKept DEF SettledInv, AtItsStep
<1>9. CASE Delete
  <2>1. pc = "delete" /\ table' = Without(Nulls) /\ settled' = settled \cup {decision}
        /\ pc' \in {"log", "decide"}
    BY <1>9 DEF Delete, Changing, Report
  <2> QED
    BY <2>1, DeleteSettles DEF SettledInv, AtItsStep
<1>10. CASE Fail
  <2>1. Raise /\ pc' \in {"log", "decide"}
    BY <1>10 DEF Fail, Raise, Report
  <2>2. CASE table' = table /\ settled' = settled
    BY <1>1, <2>1, <2>2
  <2>3. CASE pc = "write" /\ Effect /\ settled' = Unopposed
    BY <2>1, <2>3, EffectSettles DEF SettledInv, AtItsStep
  <2>4. CASE pc = "delete" /\ Changing(Without(Nulls)) /\ settled' = settled
    BY <2>1, <2>4, DeleteSettles DEF SettledInv, AtItsStep, Changing
  <2> QED
    BY <2>1, <2>2, <2>3, <2>4 DEF Raise
<1>11. CASE PipelineWrites
  BY <1>11 DEF PipelineWrites, agent, answer, SettledInv, AtItsStep
<1>12. CASE UNCHANGED vars
  BY <1>12, TableKept DEF vars, agent, answer, history, SettledInv, AtItsStep, Nulls
<1> QED
  BY <1>2, <1>3, <1>4, <1>5, <1>6, <1>7, <1>8, <1>9, <1>10, <1>11, <1>12 DEF Next

(* What is settled changes nothing when it is carried out again.           *)
LEMMA RepeatStep ==
  ASSUME TypeInv, SettledInv, [Next]_vars, decision \in settled, Ordered(decision),
         counts'.writes = counts.writes
  PROVE  UNCHANGED <<table, quarantine>>
<1>0. NothingToDo(decision)
  BY DEF SettledInv
<1>1. ASSUME pc = "write", Effect PROVE table' = table
  <2>1. CASE decision.strategy \in Imputations /\ table' = Imputed(fill)
    <3>1. Nulls = {}
      BY <1>1, <2>1 DEF SettledInv, AtItsStep
    <3> QED
      BY <2>1, <3>1 DEF Imputed, Nulls, TypeInv
  <2>2. CASE decision.strategy = "COERCE" /\ table' = Coerced
    <3>1. Outside = {}
      BY <1>0, <2>2 DEF NothingToDo, Outside, InBounds
    <3> QED
      BY <2>2, <3>1 DEF Coerced, Clipped, Outside, TypeInv
  <2>3. ASSUME NEW K \in SUBSET Present, IsDeduplicated(K), decision.strategy = "DEDUPLICATE",
               table' = Without(Present \ K)
        PROVE  table' = table
    <3>1. Present \ K = {}
      BY <1>0, <2>3 DEF NothingToDo, IsDeduplicated
    <3> QED
      BY <2>3, <3>1 DEF Without, TypeInv
  <2> QED
    BY <1>1, <2>1, <2>2, <2>3 DEF Effect, Changing
<1>2. ASSUME pc \in {"append", "delete"} PROVE Nulls = {}
  BY <1>0, <1>2 DEF SettledInv, AtItsStep, NothingToDo
<1>3. Without({}) = table
  BY DEF Without, TypeInv
<1>4. ~PipelineWrites
  BY DEF PipelineWrites, TypeInv
<1>5. CASE Write \/ Delete \/ AppendBad
  BY <1>1, <1>2, <1>3, <1>5 DEF Write, Delete, AppendBad, Changing
<1>6. CASE Fail
  BY <1>1, <1>2, <1>3, <1>6 DEF Fail, Raise, Changing
<1>7. CASE Load \/ Decide \/ DecideFails \/ ReadFill \/ Count \/ Recount \/ WriteLog \/ Crash
  BY <1>7 DEF Load, Decide, DecideFails, ReadFill, Count, Recount, WriteLog, Crash
<1> QED
  BY <1>4, <1>5, <1>6, <1>7 DEF Next, vars

(* Runs act again on the checks of earlier ones; a decision carried out    *)
(* again changes nothing unless a pipeline wrote, its own bounds are no    *)
(* range, or a value was put out of them since.                            *)
THEOREM RepeatsAreIdle == Spec => RepeatsChangeNothing
<1>1. Init => SettledInv
  BY DEF Init, SettledInv, AtItsStep
<1>2. TypeInv /\ SettledInv /\ [Next]_vars =>
        [(decision \in settled /\ Ordered(decision) /\ counts'.writes = counts.writes)
           => UNCHANGED <<table, quarantine>>]_vars
  BY RepeatStep
<1> QED
  BY TypeInvariant, SettledStep, <1>1, <1>2, PTL DEF Spec, RepeatsChangeNothing

=============================================================================
