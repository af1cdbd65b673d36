----------------------------- MODULE GdprErasure -----------------------------
(***************************************************************************)
(* The right-to-be-forgotten agent (src/agents/gdpr_rtbf_agent.py): for    *)
(* each subject of a request it walks the registry of tables that hold     *)
(* personal data, from Bronze to Gold, checks the legal basis, erases the  *)
(* subject's rows, vacuums the table, and appends one log at the end.      *)
(*                                                                         *)
(* It runs beside the pipelines, which copy rows from a table to the next  *)
(* (read first, written later), beside the DQ agent, which moves rows of   *)
(* Silver and Gold back to bronze.quarantine, beside the weekly            *)
(* maintenance that vacuums a fixed list of tables, and beside the privacy *)
(* team, which registers legal bases.  Requests are serialised:            *)
(* max_concurrent_runs is 1.                                               *)
(***************************************************************************)
EXTENDS Naturals, Sequences, FiniteSets

CONSTANTS
  Tables,      \* PII_TABLE_REGISTRY
  Registry,    \* its order
  Existing,    \* those that exist in the catalog
  Mode,        \* default_mode of each table; a SKIP table has no subject_key
  KeyHashed,   \* tables whose subject_key is one of their pii_cols
  Unkeyed,     \* tables created without the column the registry names as key
  Subjects,    \* customer_id values
  Holders,     \* which subjects a table holds at the start
  Feeds,       \* <<u, t>>: a job copies rows of u to t
  Maintained,  \* the part of MAINTENANCE_TABLES that holds personal data, in order
  Bases,       \* legal bases that may be registered: subject, all, tables
  Requests,    \* requests that may be made; immediate: --vacuum-hours 0
  NoSubject, NoRequest,
  MaxRequests, \* bounds
  MaxFails, MaxMoves

ASSUME RegistryAssumption ==
  /\ Registry \in Seq(Tables) /\ Len(Registry) > 0
  /\ \A t \in Tables : \E i \in DOMAIN Registry : Registry[i] = t
  /\ \A i, j \in DOMAIN Registry : Registry[i] = Registry[j] => i = j
  /\ Mode \in [Tables -> {"ANONYMIZE", "DELETE", "SKIP"}]
  /\ KeyHashed \subseteq Tables /\ Unkeyed \subseteq Tables
  /\ Feeds \subseteq Tables \X Tables
  /\ Holders \in [Tables -> SUBSET Subjects]
  /\ Maintained \in Seq(Tables) /\ Len(Maintained) > 0
  /\ Existing \subseteq Tables
  /\ NoSubject \notin Subjects

ASSUME RequestAssumption ==
  /\ Bases \subseteq [subject : Subjects, all : BOOLEAN, tables : SUBSET Tables]
  /\ Requests \subseteq
       [subjects : (SUBSET Subjects) \ {{}}, dry : BOOLEAN, immediate : BOOLEAN,
        override : {"none", "ANONYMIZE", "DELETE"}]
  /\ NoRequest \notin Requests
  /\ {MaxRequests, MaxFails, MaxMoves} \subseteq Nat

VARIABLES
  keyed,      \* per table, the subjects its rows are of
  plain,      \* ... those whose personal columns are in clear
  recent,     \* ... those in clear in files no longer part of the table,
  aged,       \*     younger, older than the retention period
  valid,      \* legal bases in force
  lapsed,     \* those that have expired
  pipe,       \* the copy under way, if any, as a set of one record
  sweep,      \* the table the maintenance run vacuums next
  log,        \* gdpr_erasure_log
  pc,         \* the agent's next step
  request,    \* the request it executes
  todo,       \* subjects still to be processed
  subject,    \* the one in hand
  at,         \* position in the registry
  actions,    \* all_actions
  counts      \* requests, fails, copies and deliveries so far

(* History of the latest request: what its statements have reached, and    *)
(* what happened behind their back.                                        *)
VARIABLES
  cleared,    \* per subject, tables found without it or erased
  purged,     \* per subject, tables vacuumed with retention 0
  overtaken,  \* subjects a copy brought from a table read before it was cleared
  returned,   \* subjects ingested again into a cleared table
  fresh,      \* legal bases registered since the check for the entry in hand
  blind,      \* that check's query raised
  erasures,   \* [request, subject, table] of every erasure committed
  killed      \* requests whose log was not written

data    == <<keyed, plain, recent, aged>>
legal   == <<valid, lapsed, fresh>>
walk    == <<request, todo, subject, at>>
history == <<cleared, purged, overtaken, returned>>
record  == <<log, erasures, killed>>
agent   == <<pc, walk, actions, blind>>
vars    == <<data, legal, pipe, sweep, record, agent, history, counts>>

\* Variant: the registry walked from Gold to Bronze.
TableFromTheEnd == Registry[Len(Registry) + 1 - at]

(* The registry entry in hand.                                             *)
Table == Registry[at]

-----------------------------------------------------------------------------
\* Variant: a basis without a table pattern is ignored.
OverridesListed(e, s, t) == e \in valid /\ t \in e.tables

(* The WHERE clause: subject AND pattern IS NULL, OR pattern AND not       *)
(* expired; OR binds weaker than AND.                                      *)
Overrides(e, s, t) ==
  \/ e \in valid \cup lapsed /\ e.subject = s /\ e.all
  \/ e \in valid /\ t \in e.tables

Entry(status, rows, vacuumed) ==
  [subject |-> subject, table |-> Table, status |-> status,
   rows |-> rows, vacuumed |-> vacuumed]

(* mode_override or default_mode.                                          *)
ModeOf(t) ==
  IF Mode[t] = "SKIP" \/ request.override = "none" THEN Mode[t] ELSE request.override

Skipped(t) == ModeOf(t) = "SKIP" \/ t \notin Existing

(* The statement's effect on the table: DELETE removes the rows, UPDATE    *)
(* hashes the personal columns, the key with them where it is listed.      *)
Unlinks(t) == ModeOf(t) = "DELETE" \/ t \in KeyHashed

(* What is left in clear of the rows held.                                 *)
Hashed(held) == held \ {subject}

EraseRows ==
  /\ plain'  = [plain EXCEPT ![Table] = Hashed(@)]
  /\ keyed'  = [keyed EXCEPT ![Table] = IF Unlinks(Table) THEN @ \ {subject} ELSE @]
  /\ recent' = [recent EXCEPT ![Table] = @ \cup (plain[Table] \cap {subject})]
  /\ aged' = aged
  /\ erasures' = erasures \cup
       {[request |-> counts.requests, subject |-> subject, table |-> Table]}

(* all_actions.append and the two loops: the next table, the next subject, *)
(* or the log.                                                             *)
Report(entry) ==
  /\ actions' = actions \cup {entry}
  /\ IF at < Len(Registry)
       THEN at' = at + 1 /\ pc' = "check" /\ UNCHANGED <<todo, subject>>
     ELSE IF todo # {}
       THEN /\ at' = 1 /\ pc' = "check"
            /\ \E s \in todo : subject' = s /\ todo' = todo \ {s}
     ELSE at' = at /\ pc' = "log" /\ UNCHANGED <<todo, subject>>
  /\ request' = request

Init ==
  /\ keyed = Holders /\ plain = Holders
  /\ recent = [t \in Tables |-> {}] /\ aged = [t \in Tables |-> {}]
  /\ valid = {} /\ lapsed = {} /\ fresh = {}
  /\ pipe = {} /\ sweep = 1
  /\ log = {} /\ erasures = {} /\ killed = {}
  /\ pc = "idle" /\ request = NoRequest /\ todo = {} /\ subject = NoSubject /\ at = 1
  /\ actions = {} /\ blind = FALSE
  /\ cleared = [s \in Subjects |-> {}] /\ purged = [s \in Subjects |-> {}]
  /\ overtaken = {} /\ returned = {}
  /\ counts = [requests |-> 0, fails |-> 0, moves |-> 0]

-----------------------------------------------------------------------------
(* The privacy team starts the job with a list of subjects.                *)
Start(r) ==
  /\ pc = "idle"
  /\ counts.requests < MaxRequests
  /\ request' = r
  /\ \E s \in r.subjects : subject' = s /\ todo' = r.subjects \ {s}
  /\ at' = 1
  /\ actions' = {}
  /\ pc' = "check"
  /\ cleared' = [s \in Subjects |-> {}] /\ purged' = [s \in Subjects |-> {}]
  /\ overtaken' = {} /\ returned' = {}
  /\ counts' = [counts EXCEPT !.requests = @ + 1]
  /\ UNCHANGED <<data, legal, pipe, sweep, record, blind>>

(* SKIP and missing tables, the legal basis, and the dry run, in this      *)
(* order.  A query that raises counts as no basis.  (The LEGAL_HOLD tables *)
(* of the code are not in the registry, or are SKIP.)                      *)
Check ==
  /\ pc = "check"
  /\ fresh' = {}
  /\ \/ /\ Skipped(Table)
        /\ Report(Entry("SKIPPED", FALSE, FALSE))
        /\ UNCHANGED <<counts, blind>>
     \/ /\ ~Skipped(Table)
        /\ \E e \in Bases : Overrides(e, subject, Table)
        /\ Report(Entry("BLOCKED", FALSE, FALSE))
        /\ UNCHANGED <<counts, blind>>
     \/ /\ ~Skipped(Table)
        /\ \/ ~(\E e \in Bases : Overrides(e, subject, Table)) /\ blind' = FALSE /\ counts' = counts
           \/ /\ counts.fails < MaxFails
              /\ blind' = TRUE
              /\ counts' = [counts EXCEPT !.fails = @ + 1]
        /\ IF request.dry
             THEN Report(IF Table \in Unkeyed THEN Entry("FAILED", FALSE, FALSE)
                         ELSE Entry("SKIPPED", subject \in keyed[Table], FALSE))
             ELSE pc' = "count" /\ UNCHANGED <<walk, actions>>
  /\ UNCHANGED <<data, valid, lapsed, pipe, sweep, record, history>>

(* SELECT COUNT by the subject_key: it raises where there is no such       *)
(* column; nothing to erase, or go on to the statement.                    *)
Count ==
  /\ pc = "count"
  /\ \/ /\ Table \in Unkeyed
        /\ Report(Entry("FAILED", FALSE, FALSE))
        /\ cleared' = cleared
     \/ /\ Table \notin Unkeyed /\ subject \notin keyed[Table]
        /\ Report(Entry("COMPLETED", FALSE, FALSE))
        /\ cleared' = [cleared EXCEPT ![subject] = @ \cup {Table}]
     \/ /\ Table \notin Unkeyed /\ subject \in keyed[Table]
        /\ pc' = "erase"
        /\ UNCHANGED <<walk, actions, cleared>>
  /\ UNCHANGED <<data, legal, pipe, sweep, record, purged, overtaken, returned, counts, blind>>

(* The UPDATE or DELETE.                                                   *)
Erase ==
  /\ pc = "erase"
  /\ EraseRows
  /\ cleared' = [cleared EXCEPT ![subject] = @ \cup {Table}]
  /\ pc' = "vacuum"
  /\ UNCHANGED <<legal, pipe, sweep, log, killed, walk, actions, blind,
                 purged, overtaken, returned, counts>>

\* Variant: retention 0 is taken for "not given".
VacuumAged ==
  /\ pc = "vacuum"
  /\ aged' = [aged EXCEPT ![Table] = {}]
  /\ recent' = recent
  /\ purged' = IF request.immediate THEN [purged EXCEPT ![subject] = @ \cup {Table}] ELSE purged
  /\ Report(Entry("COMPLETED", TRUE, TRUE))
  /\ UNCHANGED <<keyed, plain, legal, pipe, sweep, record, blind, cleared, overtaken, returned, counts>>

(* VACUUM: what is older than the retention period, everything if it is 0. *)
Vacuum ==
  /\ pc = "vacuum"
  /\ aged' = [aged EXCEPT ![Table] = {}]
  /\ recent' = IF request.immediate THEN [recent EXCEPT ![Table] = {}] ELSE recent
  /\ purged' = IF request.immediate THEN [purged EXCEPT ![subject] = @ \cup {Table}] ELSE purged
  /\ Report(Entry("COMPLETED", TRUE, TRUE))
  /\ UNCHANGED <<keyed, plain, legal, pipe, sweep, record, blind, cleared, overtaken, returned, counts>>

(* A statement of the entry raises, possibly after it committed: FAILED,   *)
(* and on to the next table.                                               *)
Fail ==
  /\ \/ pc \in {"count", "erase", "vacuum"}
     \/ pc = "check" /\ ~Skipped(Table)
  /\ counts.fails < MaxFails
  /\ counts' = [counts EXCEPT !.fails = @ + 1]
  /\ Report(Entry("FAILED", pc = "vacuum", FALSE))
  /\ \/ UNCHANGED <<data, erasures>>
     \/ pc = "erase" /\ EraseRows
  /\ UNCHANGED <<legal, pipe, sweep, log, killed, blind, history>>

End ==
  /\ pc' = "idle" /\ request' = NoRequest
  /\ todo' = {} /\ subject' = NoSubject /\ at' = 1 /\ actions' = {} /\ blind' = FALSE

(* createDataFrame gets dicts and no schema: it refuses a column in which  *)
(* no row has a value, here legal_basis_code or error_message.             *)
Inferable ==
  /\ \E a \in actions : a.status = "BLOCKED"
  /\ \E a \in actions : a.status = "FAILED"

\* Variant: what was completed is not logged.
WriteProblems ==
  /\ pc = "log"
  /\ IF Inferable
       THEN /\ log' = log \cup {[request |-> counts.requests, entry |-> a] :
                                 a \in {x \in actions : x.status # "COMPLETED"}}
            /\ killed' = killed
       ELSE /\ log' = log
            /\ killed' = killed \cup {counts.requests}
  /\ End
  /\ UNCHANGED <<data, legal, pipe, sweep, erasures, history, counts>>

(* _write_erasure_log: all actions in one append, or the job fails here.   *)
WriteLog ==
  /\ pc = "log"
  /\ IF Inferable
       THEN /\ log' = log \cup {[request |-> counts.requests, entry |-> a] : a \in actions}
            /\ killed' = killed
       ELSE /\ log' = log
            /\ killed' = killed \cup {counts.requests}
  /\ End
  /\ UNCHANGED <<data, legal, pipe, sweep, erasures, history, counts>>

(* The cluster is lost, the job times out, or the append to the log        *)
(* raises.  The job is not retried.                                        *)
Crash ==
  /\ pc # "idle"
  /\ counts.fails < MaxFails
  /\ counts' = [counts EXCEPT !.fails = @ + 1]
  /\ killed' = killed \cup {counts.requests}
  /\ End
  /\ UNCHANGED <<data, legal, pipe, sweep, log, erasures, history>>

AgentStep == Check \/ Count \/ Erase \/ Vacuum \/ Fail \/ WriteLog

-----------------------------------------------------------------------------
(* The privacy team registers a legal basis, or one expires.               *)
RegisterBasis(e) ==
  /\ e \notin valid \cup lapsed
  /\ valid' = valid \cup {e}
  /\ fresh' = fresh \cup {e}
  /\ UNCHANGED <<data, lapsed, pipe, sweep, record, agent, history, counts>>

ExpireBasis(e) ==
  /\ e \in valid
  /\ valid' = valid \ {e}
  /\ lapsed' = lapsed \cup {e}
  /\ UNCHANGED <<data, fresh, pipe, sweep, record, agent, history, counts>>

(* A source delivers a customer again, into a table nothing feeds.         *)
Ingest(s, t) ==
  /\ \A u \in Tables : <<u, t>> \notin Feeds
  /\ t \in Existing
  /\ counts.moves < MaxMoves
  /\ counts' = [counts EXCEPT !.moves = @ + 1]
  /\ keyed' = [keyed EXCEPT ![t] = @ \cup {s}]
  /\ plain' = [plain EXCEPT ![t] = @ \cup {s}]
  /\ returned' = IF t \in cleared[s] THEN returned \cup {s} ELSE returned
  /\ UNCHANGED <<recent, aged, legal, pipe, sweep, record, agent, cleared, purged, overtaken>>

(* A pipeline reads its batch of u: which rows is up to its watermark.     *)
BeginCopy(u, t) ==
  /\ pipe = {}
  /\ counts.moves < MaxMoves
  /\ counts' = [counts EXCEPT !.moves = @ + 1]
  /\ \E S \in (SUBSET keyed[u]) \ {{}} :
       pipe' = {[from |-> u, to |-> t, keyed |-> S, plain |-> S \cap plain[u]]}
  /\ UNCHANGED <<data, legal, sweep, record, agent, history>>

(* It writes what it read; files it rewrites leave their old versions.     *)
EndCopy ==
  \E c \in pipe :
    /\ pipe' = {}
    /\ keyed' = [keyed EXCEPT ![c.to] = @ \cup c.keyed]
    /\ plain' = [plain EXCEPT ![c.to] = @ \cup c.plain]
    /\ recent' = [recent EXCEPT ![c.to] = @ \cup (plain[c.to] \cap c.keyed)]
    /\ overtaken' = overtaken \cup {s \in c.plain : c.from \in cleared[s]}
    /\ UNCHANGED <<aged, legal, sweep, record, agent, cleared, purged, returned, counts>>

(* ... or fails: the job was killed, or the erasure changed the files the  *)
(* MERGE had read and Delta refuses its commit.                            *)
AbortCopy ==
  /\ pipe # {}
  /\ pipe' = {}
  /\ UNCHANGED <<data, legal, sweep, record, agent, history, counts>>

(* The retention period of t's left-over files passes.                     *)
Age(t) ==
  /\ recent[t] # {}
  /\ recent' = [recent EXCEPT ![t] = {}]
  /\ aged' = [aged EXCEPT ![t] = @ \cup recent[t]]
  /\ UNCHANGED <<keyed, plain, legal, pipe, sweep, record, agent, history, counts>>

\* Variant: the list without its last entry.
SweepAllButLast ==
  /\ aged' = IF sweep < Len(Maintained) THEN [aged EXCEPT ![Maintained[sweep]] = {}] ELSE aged
  /\ sweep' = IF sweep < Len(Maintained) THEN sweep + 1 ELSE 1
  /\ UNCHANGED <<keyed, plain, recent, legal, pipe, record, agent, history, counts>>

(* run_maintenance: OPTIMIZE and VACUUM of the next table of the list; the *)
(* next run begins with the first.                                         *)
SweepTable ==
  /\ aged' = [aged EXCEPT ![Maintained[sweep]] = {}]
  /\ sweep' = IF sweep < Len(Maintained) THEN sweep + 1 ELSE 1
  /\ UNCHANGED <<keyed, plain, recent, legal, pipe, record, agent, history, counts>>

(* One of its statements raises: the run ends there.                       *)
SweepFails ==
  /\ counts.fails < MaxFails
  /\ counts' = [counts EXCEPT !.fails = @ + 1]
  /\ sweep' = 1
  /\ UNCHANGED <<data, legal, pipe, record, agent, history>>

Others ==
  \/ \E e \in Bases : RegisterBasis(e) \/ ExpireBasis(e)
  \/ \E s \in Subjects, t \in Tables : Ingest(s, t)
  \/ \E edge \in Feeds : BeginCopy(edge[1], edge[2])
  \/ EndCopy \/ AbortCopy \/ SweepFails

Next ==
  \/ \E r \in Requests : Start(r)
  \/ AgentStep \/ Crash
  \/ Others
  \/ \E t \in Tables : Age(t)
  \/ SweepTable

Spec == Init /\ [][Next]_vars

(* Maintenance runs every week and time passes.                            *)
FairSpec == Spec /\ WF_vars(SweepTable) /\ \A t \in Tables : WF_vars(Age(t))

-----------------------------------------------------------------------------
(* Type correctness; a row in clear is found under its subject.            *)
TypeOK ==
  /\ keyed \in [Tables -> SUBSET Subjects] /\ plain \in [Tables -> SUBSET Subjects]
  /\ recent \in [Tables -> SUBSET Subjects] /\ aged \in [Tables -> SUBSET Subjects]
  /\ \A t \in Tables : plain[t] \subseteq keyed[t]
  /\ pc \in {"idle", "check", "count", "erase", "vacuum", "log"}
  /\ pc # "idle" => request \in Requests /\ subject \in request.subjects
  /\ todo \subseteq Subjects /\ at \in 1..Len(Registry) /\ sweep \in DOMAIN Maintained
  /\ cleared \in [Subjects -> SUBSET Tables] /\ purged \in [Subjects -> SUBSET Tables]

Before(u, t) ==
  \E i, j \in DOMAIN Registry : i < j /\ Registry[i] = u /\ Registry[j] = t

(* Data of s may be back in t although the request cleared it: a copy had  *)
(* read it earlier, a source delivered it again, or a table that feeds t   *)
(* was not cleared (blocked, skipped, or failed), or comes later in the    *)
(* registry, as Silver comes after the quarantine that the DQ agent moves  *)
(* its rows to.                                                            *)
Excused(s, t) ==
  \/ s \in overtaken \cup returned
  \/ \E u \in Tables : <<u, t>> \in Feeds /\ (u \notin cleared[s] \/ ~Before(u, t))

(* Pipelines running beside and after an erasure do not bring the subject  *)
(* back: where the registry lists what feeds a table before it, there is   *)
(* no other way in.                                                        *)
ErasedStaysErased ==
  \A s \in Subjects : \A t \in cleared[s] : s \in plain[t] => Excused(s, t)

(* The same for the files behind a table vacuumed with retention 0.        *)
PurgedStaysPurged ==
  \A s \in Subjects : \A t \in purged[s] :
    s \in recent[t] \cup aged[t] => Excused(s, t)

(* Once a log is written it tells the truth: what it calls erased was, what *)
(* it calls skipped or blocked was left alone; and an erasure by a request *)
(* that reached its log is in it, as COMPLETED or FAILED.                  *)
LogTellsTheTruth ==
  /\ \A l \in log :
       LET done == [request |-> l.request, subject |-> l.entry.subject, table |-> l.entry.table]
       IN  /\ l.entry.status = "COMPLETED" => (l.entry.rows <=> done \in erasures)
           /\ l.entry.status \in {"SKIPPED", "BLOCKED"} => done \notin erasures
  /\ \A d \in erasures :
       \/ d.request \in killed
       \/ d.request = counts.requests /\ pc # "idle"
       \/ \E l \in log : /\ l.request = d.request
                        /\ l.entry.subject = d.subject /\ l.entry.table = d.table
                        /\ l.entry.status \in {"COMPLETED", "FAILED"}

Covers(e, s, t) == e.subject = s /\ (e.all \/ t \in e.tables)

(* No rows are erased against a legal basis of their subject in force,     *)
(* unless it was registered after the entry was checked or the check's     *)
(* query raised.                                                           *)
BasisRespected ==
  [][\A d \in erasures' \ erasures :
       blind \/ \A e \in valid : Covers(e, d.subject, d.table) => e \in fresh]_vars

(* What an erasure leaves in old files of a maintained table is gone in    *)
(* the end, whether or not its own VACUUM came to it.                      *)
LeftoversGo ==
  \A i \in DOMAIN Maintained :
    LET left == recent[Maintained[i]] \cup aged[Maintained[i]]
    IN  left # {} ~> left = {}
=============================================================================
