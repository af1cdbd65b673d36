--------------------------- MODULE DqRemediation ---------------------------
(***************************************************************************)
(* The DQ remediation agent (src/agents/dq_remediation_agent.py): for each  *)
(* cluster of failed checks it asks a language model for a strategy, runs   *)
(* that strategy's statements on the checked table, and appends all its    *)
(* actions to the log at the very end.                                     *)
(*                                                                         *)
(* One table and one checked column.  The pipelines that write the table,  *)
(* the checks that fill dq_results and the model's answers are external.   *)
(* Every statement is a step of its own: the pipelines write in between.   *)
(***************************************************************************)
EXTENDS Integers, FiniteSets

CONSTANTS
  Rows,        \* rows the pipelines ever write
  KeyOf,       \* their order_id, the default key of DEDUPLICATE
  Stamp,       \* their updated_at
  Clusters,    \* clusters of failed checks of the table
  HasColumn,   \* does the cluster name a column?
  Windows,     \* what the lookback window may hold, as sets of clusters
  Decisions,   \* what the model may answer
  Contents,    \* contents the table may have at first
  Levels,      \* numbers in the checked column, the answers' included
  NULL,        \* no value, in the column or in an answer
  Absent, Gone,  \* in place of a value: not yet written, removed by the agent
  NoCluster, NoDecision,
  MaxRuns,     \* bound on runs, retries included
  MaxWrites,   \* bound on rows written while the agent exists
  MaxFails     \* bound on statements that raise and runs that are killed

Values == Levels \cup {NULL}

Imputations == {"IMPUTE_MEDIAN", "IMPUTE_MODE", "IMPUTE_CONSTANT"}
Strategies  == Imputations \cup {"COERCE", "DEDUPLICATE", "QUARANTINE", "REJECT"}

(* An answer: nothing relates its optional fields to each other, to the    *)
(* strategy or to earlier answers.                                         *)
Decision ==
  [strategy : Strategies, impute_value : Values, coerce_min : Values, coerce_max : Values]

Fields   == {"impute_value", "coerce_min", "coerce_max"}
Given(d) == {f \in Fields : d[f] # NULL}

ASSUME RowAssumption == KeyOf \in [Rows -> STRING] /\ Stamp \in [Rows -> Nat] /\ IsFiniteSet(Rows)
ASSUME ClusterAssumption == HasColumn \in [Clusters -> BOOLEAN] /\ NoCluster \notin Clusters
ASSUME WindowAssumption == Windows \subseteq (SUBSET Clusters) \ {{}}
ASSUME DecisionAssumption == Decisions \subseteq Decision /\ NoDecision \notin Decision
ASSUME LevelAssumption ==
  /\ Levels \subseteq Int
  /\ NULL \notin Int /\ Absent \notin Int /\ Gone \notin Int
  /\ NULL # Absent /\ NULL # Gone /\ Absent # Gone
ASSUME ContentAssumption == Contents \subseteq [Rows -> Values \cup {Absent}]
ASSUME BoundAssumption == MaxRuns \in Nat /\ MaxWrites \in Nat /\ MaxFails \in Nat

VARIABLES
  table,       \* per row its value in the checked column, or where it went
  quarantine,  \* rows with a copy in bronze.quarantine
  pc, dry,     \* the agent's next step, and whether it only plans
  todo,        \* clusters it has loaded and not looked at
  cluster, decision,
  fill,        \* fill_val
  before,      \* affected, or count_before
  actions,     \* RemediationActions of this run
  log,         \* dq_remediation_log
  unlogged,    \* runs that ended without a log (history)
  changes,     \* [run, cluster] whose statements changed the table (history)
  disturbed,   \* [run, cluster] with a write between their statements (history)
  turned,      \* rows that went bad between the append and the DELETE (history)
  settled,     \* decisions carried out since a pipeline wrote, and unopposed (history)
  counts       \* runs, writes and fails so far

answer  == <<cluster, decision, fill, before>>
agent   == <<pc, dry, todo, answer, actions>>
record  == <<log, unlogged>>
history == <<changes, disturbed, turned, settled>>
vars    == <<table, quarantine, agent, record, history, counts>>

Present == {r \in Rows : table[r] \in Values}
Nulls   == {r \in Rows : table[r] = NULL}
Here    == [run |-> counts.runs, cluster |-> cluster]

-----------------------------------------------------------------------------
(* UPDATE ... SET column = fill WHERE column IS NULL.                      *)
Imputed(v) == [r \in Rows |-> IF table[r] = NULL THEN v ELSE table[r]]

(* The conditions of _coerce_range, a bound that is None left out; a NULL  *)
(* meets neither.                                                          *)
Below(d, v) == v \in Levels /\ d.coerce_min # NULL /\ v < d.coerce_min
Above(d, v) == v \in Levels /\ d.coerce_max # NULL /\ v > d.coerce_max
Outside     == {r \in Rows : Below(decision, table[r]) \/ Above(decision, table[r])}

\* Variant: a single WHEN, and no ELSE.
ClippedBelow(v) ==
  IF Below(decision, v) THEN decision.coerce_min ELSE IF Above(decision, v) THEN NULL ELSE v

(* CASE WHEN ... < coerce_min THEN coerce_min WHEN ... > coerce_max THEN   *)
(* coerce_max ELSE the column.                                             *)
Clipped(v) ==
  IF Below(decision, v) THEN decision.coerce_min
  ELSE IF Above(decision, v) THEN decision.coerce_max ELSE v

Coerced == [r \in Rows |-> Clipped(table[r])]

\* Variant: ORDER BY updated_at ASC.
IsOldestPerKey(K) ==
  /\ K \subseteq Present
  /\ \A r \in Present : \E k \in K : KeyOf[k] = KeyOf[r] /\ Stamp[k] <= Stamp[r]
  /\ \A j, k \in K : KeyOf[j] = KeyOf[k] => j = k

(* ROW_NUMBER() = 1: one row per key, none newer; ties are broken freely.  *)
IsDeduplicated(K) ==
  /\ K \subseteq Present
  /\ \A r \in Present : \E k \in K : KeyOf[k] = KeyOf[r] /\ Stamp[k] >= Stamp[r]
  /\ \A j, k \in K : KeyOf[j] = KeyOf[k] => j = k

Without(S) == [r \in Rows |-> IF r \in S THEN Gone ELSE table[r]]

-----------------------------------------------------------------------------
Idle ==
  /\ pc' = "idle" /\ dry' = FALSE /\ todo' = {} /\ actions' = {}
  /\ cluster' = NoCluster /\ decision' = NoDecision /\ fill' = NULL /\ before' = 0

Init ==
  /\ table \in Contents
  /\ quarantine = {}
  /\ pc = "idle" /\ dry = FALSE /\ todo = {} /\ actions = {}
  /\ cluster = NoCluster /\ decision = NoDecision /\ fill = NULL /\ before = 0
  /\ log = {} /\ unlogged = {}
  /\ changes = {} /\ disturbed = {} /\ turned = {} /\ settled = {}
  /\ counts = [runs |-> 0, writes |-> 0, fails |-> 0]

(* The daily run, or its retry: load_failed_checks returns the clusters of *)
(* the lookback window.  What an earlier run made of them is not recorded. *)
Load ==
  /\ pc = "idle"
  /\ counts.runs < MaxRuns
  /\ counts' = [counts EXCEPT !.runs = @ + 1]
  /\ todo' \in Windows
  /\ dry' \in BOOLEAN
  /\ pc' = "decide"
  /\ UNCHANGED <<table, quarantine, answer, actions, record, history>>

Entry(c, strategy, given, status, rows) ==
  [cluster |-> c, strategy |-> strategy, given |-> given, status |-> status, rows |-> rows]

Outcome(status, rows) == Entry(cluster, decision.strategy, Given(decision), status, rows)

(* The action is recorded, and the next cluster is taken.                  *)
Report(entry, rest) ==
  /\ actions' = actions \cup {entry}
  /\ pc' = IF rest = {} THEN "log" ELSE "decide"
  /\ cluster' = NoCluster /\ decision' = NoDecision /\ fill' = NULL /\ before' = 0

FirstStep(d) == IF d.strategy \in Imputations THEN "fill" ELSE "count"

(* _call_llm: an unknown strategy is a REJECT; a REJECT and a dry run are  *)
(* skipped.                                                                *)
Decide ==
  /\ pc = "decide"
  /\ \E c \in todo, d \in Decisions :
       /\ todo' = todo \ {c}
       /\ IF dry \/ d.strategy = "REJECT"
            THEN Report(Entry(c, d.strategy, Given(d), "SKIPPED", 0), todo \ {c})
            ELSE /\ cluster' = c /\ decision' = d
                 /\ pc' = FirstStep(d)
                 /\ UNCHANGED <<fill, before, actions>>
  /\ UNCHANGED <<table, quarantine, dry, record, history, counts>>

(* The call, or the parsing of its answer, raises; or float() of a bound   *)
(* does, with the strategy and the fields before it already set.           *)
DecideFails ==
  /\ pc = "decide"
  /\ counts.fails < MaxFails
  /\ counts' = [counts EXCEPT !.fails = @ + 1]
  /\ \E c \in todo :
       /\ todo' = todo \ {c}
       /\ \/ Report(Entry(c, "PENDING", {}, "FAILED", 0), todo \ {c})
          \/ \E d \in Decisions, unset \in {{"coerce_max"}, {"coerce_min", "coerce_max"}} :
               /\ Given(d) \cap unset # {}
               /\ Report(Entry(c, d.strategy, Given(d) \ unset, "FAILED", 0), todo \ {c})
  /\ UNCHANGED <<table, quarantine, dry, record, history>>

Skip ==
  /\ Report(Outcome("APPLIED", 0), todo)
  /\ settled' = settled \cup {decision}

(* _impute_nulls: the median or mode of the values there are, or the given *)
(* constant, which may be out of range.                                    *)
Fills ==
  IF decision.strategy = "IMPUTE_CONSTANT"
    THEN {decision.impute_value} \ {NULL}
    ELSE {table[r] : r \in Present} \ {NULL}

(* Neither bound was given.                                                *)
Unbounded == decision.coerce_min = NULL /\ decision.coerce_max = NULL

(* A constant is read, and missing bounds are found, before the column is  *)
(* looked at.                                                              *)
NeedsColumn ==
  IF pc = "fill" THEN decision.strategy # "IMPUTE_CONSTANT"
  ELSE decision.strategy # "DEDUPLICATE" /\ ~(decision.strategy = "COERCE" /\ Unbounded)

ReadFill ==
  /\ pc = "fill"
  /\ HasColumn[cluster] \/ ~NeedsColumn
  /\ \/ /\ \E v \in Fills : fill' = v
        /\ pc' = "count"
        /\ UNCHANGED <<cluster, decision, before, actions, settled>>
     \/ /\ Fills = {} /\ decision.strategy # "IMPUTE_MEDIAN"
        /\ Skip
  /\ UNCHANGED <<table, quarantine, dry, todo, record, changes, disturbed, turned, counts>>

(* What the strategy's first count sees.                                   *)
Affected ==
  CASE decision.strategy = "COERCE"      -> Outside
    [] decision.strategy = "DEDUPLICATE" -> Present
    [] OTHER                             -> Nulls

(* SELECT COUNT; no bounds, or nothing to quarantine, ends the strategy.   *)
Count ==
  /\ pc = "count"
  /\ HasColumn[cluster] \/ ~NeedsColumn
  /\ IF \/ decision.strategy = "COERCE" /\ Unbounded
        \/ decision.strategy = "QUARANTINE" /\ Nulls = {}
       THEN Skip
       ELSE /\ before' = Cardinality(Affected)
            /\ pc' = IF decision.strategy = "QUARANTINE" THEN "append" ELSE "write"
            /\ UNCHANGED <<cluster, decision, fill, actions, settled>>
  /\ UNCHANGED <<table, quarantine, dry, todo, record, changes, disturbed, turned, counts>>

Changing(new) ==
  /\ table' = new
  /\ changes' = IF new # table THEN changes \cup {Here} ELSE changes

(* The UPDATE or the INSERT OVERWRITE.                                     *)
Effect ==
  \/ /\ decision.strategy \in Imputations
     /\ Changing(Imputed(fill))
  \/ /\ decision.strategy = "COERCE"
     /\ Changing(Coerced)
  \/ /\ decision.strategy = "DEDUPLICATE"
     /\ \E K \in SUBSET Present : IsDeduplicated(K) /\ Changing(Without(Present \ K))

(* The decisions out of whose bounds the statement puts no value.          *)
Unopposed ==
  {d \in settled :
     d.strategy = "COERCE" =>
       \A r \in Rows : table'[r] # table[r] => ~(Below(d, table'[r]) \/ Above(d, table'[r]))}

Write ==
  /\ pc = "write"
  /\ Effect
  /\ settled' = Unopposed \cup {decision}
  /\ IF decision.strategy = "DEDUPLICATE"
       THEN pc' = "recount" /\ UNCHANGED <<answer, actions>>
       ELSE Report(Outcome("APPLIED", before), todo)
  /\ UNCHANGED <<quarantine, dry, todo, record, disturbed, turned, counts>>

(* count_after.                                                            *)
Recount ==
  /\ pc = "recount"
  /\ Report(Outcome("APPLIED", before - Cardinality(Present)), todo)
  /\ UNCHANGED <<table, quarantine, dry, todo, record, history, counts>>

(* bad_df is evaluated again: the rows that are NULL by now are appended.  *)
AppendBad ==
  /\ pc = "append"
  /\ quarantine' = quarantine \cup Nulls
  /\ pc' = "delete"
  /\ UNCHANGED <<table, dry, todo, answer, actions, record, history, counts>>

(* DELETE WHERE column IS NULL.                                            *)
Delete ==
  /\ pc = "delete"
  /\ Changing(Without(Nulls))
  /\ Report(Outcome("APPLIED", before), todo)
  /\ settled' = settled \cup {decision}
  /\ UNCHANGED <<quarantine, dry, todo, record, disturbed, turned, counts>>

(* A statement raises, having committed or not: FAILED, and on to the next *)
(* cluster.  A cluster without a column makes every such statement raise.  *)
Raise ==
  /\ pc \in {"fill", "count", "write", "append", "delete", "recount"}
  /\ Report(Outcome("FAILED", 0), todo)
  /\ \/ UNCHANGED <<table, quarantine, changes, settled>>
     \/ pc = "write" /\ Effect /\ settled' = Unopposed /\ UNCHANGED quarantine
     \/ pc = "append" /\ quarantine' = quarantine \cup Nulls /\ UNCHANGED <<table, changes, settled>>
     \/ pc = "delete" /\ Changing(Without(Nulls)) /\ UNCHANGED <<quarantine, settled>>
  /\ UNCHANGED <<dry, todo, record, disturbed, turned>>

(* Nothing is in the column to take a median of, or there is no column.    *)
Impossible ==
  \/ ~HasColumn[cluster] /\ NeedsColumn
  \/ pc = "fill" /\ decision.strategy = "IMPUTE_MEDIAN" /\ Fills = {}

Fail ==
  \/ pc \in {"fill", "count"} /\ Impossible /\ Raise /\ counts' = counts
  \/ counts.fails < MaxFails /\ Raise /\ counts' = [counts EXCEPT !.fails = @ + 1]

(* createDataFrame gets dicts and no schema: it refuses a column in which  *)
(* no row has a value.                                                     *)
Inferable ==
  /\ \E a \in actions : HasColumn[a.cluster]
  /\ \E a \in actions : a.status = "FAILED"
  /\ \A f \in Fields : \E a \in actions : f \in a.given

\* Variant: REJECTs and FAILED actions are not worth logging.
WriteAppliedOnly ==
  /\ pc = "log"
  /\ IF Inferable
       THEN log' = log \cup {[run |-> counts.runs, entry |-> a] : a \in {x \in actions : x.status = "APPLIED"}} /\ UNCHANGED unlogged
       ELSE unlogged' = unlogged \cup {counts.runs} /\ UNCHANGED log
  /\ Idle
  /\ UNCHANGED <<table, quarantine, history, counts>>

(* _write_action_log: one append of all actions, or the run fails here.    *)
WriteLog ==
  /\ pc = "log"
  /\ IF Inferable
       THEN log' = log \cup {[run |-> counts.runs, entry |-> a] : a \in actions} /\ UNCHANGED unlogged
       ELSE unlogged' = unlogged \cup {counts.runs} /\ UNCHANGED log
  /\ Idle
  /\ UNCHANGED <<table, quarantine, history, counts>>

(* The job times out or its cluster is lost.                               *)
Crash ==
  /\ pc # "idle"
  /\ counts.fails < MaxFails
  /\ counts' = [counts EXCEPT !.fails = @ + 1]
  /\ unlogged' = unlogged \cup {counts.runs}
  /\ Idle
  /\ UNCHANGED <<table, quarantine, log, history>>

(* A pipeline inserts a row, updates it, or delivers it again.             *)
PipelineWrites ==
  /\ counts.writes < MaxWrites
  /\ counts' = [counts EXCEPT !.writes = @ + 1]
  /\ \E r \in Rows, v \in Values :
       /\ table' = [table EXCEPT ![r] = v]
       /\ turned' = IF pc = "delete" /\ v = NULL THEN turned \cup {r} ELSE turned
  /\ disturbed' = IF cluster = NoCluster THEN disturbed ELSE disturbed \cup {Here}
  /\ settled' = {}
  /\ UNCHANGED <<quarantine, agent, record, changes>>

Next ==
  \/ Load \/ Decide \/ DecideFails
  \/ ReadFill \/ Count \/ Write \/ Recount \/ AppendBad \/ Delete
  \/ Fail \/ WriteLog \/ Crash
  \/ PipelineWrites

Spec == Init /\ [][Next]_vars

-----------------------------------------------------------------------------
(* Type correctness of the table, the quarantine and the agent.            *)
TypeOK ==
  /\ table \in [Rows -> Values \cup {Absent, Gone}]
  /\ quarantine \subseteq Rows /\ turned \subseteq Rows
  /\ pc \in {"idle", "decide", "fill", "count", "write", "append", "delete", "recount", "log"}
  /\ todo \subseteq Clusters /\ dry \in BOOLEAN /\ before \in Nat /\ fill \in Values
  /\ pc \in {"fill", "count", "write", "append", "delete", "recount"}
       => cluster \in Clusters /\ decision \in Decisions
  /\ settled \subseteq Decisions

Saved(r) == r \in quarantine \cup turned

(* No row vanishes: what the agent removes has a copy in quarantine, or a  *)
(* row of the same order at least as new stayed or was itself saved.  Only *)
(* a row that went bad between the append and the DELETE is lost.          *)
NoRowVanishes ==
  \A r \in Rows :
    table[r] = Gone =>
      \/ Saved(r)
      \/ \E k \in Rows \ {r} : /\ KeyOf[k] = KeyOf[r] /\ Stamp[k] >= Stamp[r]
                               /\ k \in Present \/ Saved(k)

(* The bounds of an answer are a range.                                    *)
Ordered(d) ==
  d.strategy = "COERCE" /\ d.coerce_min # NULL /\ d.coerce_max # NULL => d.coerce_min <= d.coerce_max

(* Failed checks carry no mark that they were dealt with, and every run of *)
(* the lookback window, retries included, acts on them again.  Carried out *)
(* again a decision changes nothing, whatever other decisions and failures *)
(* came between: unless a pipeline wrote, the answer's minimum is above    *)
(* its maximum, or another decision put a value out of its bounds, for     *)
(* nothing holds an answer against itself or against another.              *)
RepeatsChangeNothing ==
  [][(decision \in settled /\ Ordered(decision) /\ counts'.writes = counts.writes)
       => UNCHANGED <<table, quarantine>>]_vars

(* A log, if there is one, is the truth: every change of its run is in it  *)
(* as APPLIED or FAILED, what was skipped changed nothing, and an applied  *)
(* action reports rows exactly if it changed some, unless a pipeline wrote *)
(* between its count and its statement.                                    *)
LogTellsTheTruth ==
  /\ \A l \in log :
       LET at == [run |-> l.run, cluster |-> l.entry.cluster]
       IN  /\ l.entry.status = "SKIPPED" => at \notin changes
           /\ l.entry.status = "APPLIED" /\ at \notin disturbed =>
                (l.entry.rows > 0 <=> at \in changes)
  /\ \A c \in changes :
       \/ c.run \in unlogged
       \/ c.run = counts.runs /\ pc # "idle"
       \/ \E l \in log : /\ l.run = c.run /\ l.entry.cluster = c.cluster
                        /\ l.entry.status \in {"APPLIED", "FAILED"}
=============================================================================
