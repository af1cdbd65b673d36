------------------------------ MODULE NlToSql ------------------------------
(***************************************************************************)
(* The NL to SQL agent (src/agents/nl_to_sql_agent.py) behind its router,  *)
(* whose handlers run in threads of one process: the agent made on first   *)
(* use, the schema context and its cache, a question from the model's SQL  *)
(* to its audit entry, and the flush of the audit buffer.                  *)
(*                                                                         *)
(* The catalog, the model, the warehouse and who calls the flush (a        *)
(* notebook's end or a shutdown, says its docstring) are external.         *)
(***************************************************************************)
EXTENDS Integers, FiniteSets

CONSTANTS
  Threads,        \* of the server's thread pool
  None,
  AllowedSchemas, \* NLToSQLConfig.allowed_schemas
  Statements,     \* what the model may answer
  MaxVersion,     \* bound on changes of the catalog's tables
  MaxRequests,    \* bound on questions and refreshes
  MaxFlushes,     \* bound on flushes of the audit buffer
  MaxFails        \* bound on failures of the client, the flush and the process

(* A statement, up to what the validator asks of it: its first word, does  *)
(* it hold a keyword of _FORBIDDEN_PATTERN, the schemas after FROM, JOIN.  *)
Statement == [first : {"SELECT", "WITH", "other"}, forbidden : BOOLEAN, schemas : SUBSET STRING]

ASSUME ThreadAssumption    == None \notin Threads
ASSUME StatementAssumption == Statements \subseteq Statement
ASSUME BoundAssumption     ==
  MaxVersion \in Nat /\ MaxRequests \in Nat /\ MaxFlushes \in Nat /\ MaxFails \in Nat

VARIABLES
  catalog,   \* version of the tables INFORMATION_SCHEMA tells of
  cache,     \* _SCHEMA_CACHE, for the one configuration there is
  agent,     \* _agent: the thread that made it, or None
  context,   \* _schema_context of the agent each thread made
  pc, task,  \* each thread's next step, and what it was asked
  using,     \* what _get_agent gave it
  got,       \* the rows, or context, it holds while it builds one
  query,     \* the number of its question, and how it went so far
  buffer,    \* _AUDIT_LOG: [query, error]
  flush,     \* the running flush: its next step and its frame
  delta,     \* nl2sql_audit_log: [query, flush]
  counts,    \* requests, flushes and fails so far
  since,     \* the catalog when a thread's refresh began (history)
  floor,     \* the oldest context the last finished refresh allows (history)
  passed,    \* threads whose rows are older than a cache clear (history)
  overtaken, \* were such rows published, or a replaced agent refreshed? (history)
  executed,  \* questions that reached the warehouse (history)
  adrift,    \* entries added during a flush, or lost with the process (history)
  raised     \* flushes that raised (history)

schema  == <<cache, agent, context>>
thread  == <<pc, task, using, got, query>>
audit   == <<buffer, flush, delta>>
fresh   == <<since, floor, passed, overtaken>>
traced  == <<executed, adrift, raised>>
vars    == <<catalog, schema, thread, audit, counts, fresh, traced>>

Fallback == -1   \* _FALLBACK_SCHEMA_CONTEXT
Unknown  == -2   \* nothing cached, or no context yet

NoQuestion == [number |-> 0, error |-> FALSE]
NoFlush    == [step |-> "idle", frame |-> {}]

-----------------------------------------------------------------------------
Init ==
  /\ catalog = 0
  /\ cache = Unknown /\ agent = None
  /\ context = [t \in Threads |-> Unknown]
  /\ pc = [t \in Threads |-> "idle"] /\ task = [t \in Threads |-> "none"]
  /\ using = [t \in Threads |-> None] /\ got = [t \in Threads |-> Unknown]
  /\ query = [t \in Threads |-> NoQuestion]
  /\ buffer = {} /\ flush = NoFlush
  /\ since = [t \in Threads |-> 0] /\ floor = 0 /\ passed = {} /\ overtaken = FALSE
  /\ delta = {}
  /\ counts = [requests |-> 0, flushes |-> 0, fails |-> 0]
  /\ executed = {} /\ adrift = {} /\ raised = {}

(* Somebody changes a table of an allowed schema.                          *)
ChangeCatalog ==
  /\ catalog < MaxVersion
  /\ catalog' = catalog + 1
  /\ UNCHANGED <<schema, thread, audit, counts, fresh, traced>>

Go(t, step) == pc' = [pc EXCEPT ![t] = step]

(* POST /nl-query or /nl-query/refresh-schema.                             *)
Arrive(t) ==
  /\ pc[t] = "idle"
  /\ counts.requests < MaxRequests
  /\ counts' = [counts EXCEPT !.requests = @ + 1]
  /\ \E what \in {"query", "refresh"} : task' = [task EXCEPT ![t] = what]
  /\ query' = [query EXCEPT ![t] = [number |-> counts.requests + 1, error |-> FALSE]]
  /\ Go(t, "check")
  /\ UNCHANGED <<catalog, schema, using, got, audit, fresh, traced>>

(* _get_agent: no lock keeps two threads from both finding no agent.       *)
Check(t) ==
  /\ pc[t] = "check"
  /\ Go(t, IF agent = None THEN "lookup" ELSE "use")
  /\ UNCHANGED <<catalog, schema, task, using, got, query, audit, counts, fresh, traced>>

(* return _agent, which may be another thread's by now.                    *)
Use(t) ==
  /\ pc[t] = "use"
  /\ using' = [using EXCEPT ![t] = agent]
  /\ Go(t, IF task[t] = "query" THEN "ask" ELSE "clear")
  /\ UNCHANGED <<catalog, schema, task, got, query, audit, counts, fresh, traced>>

-----------------------------------------------------------------------------
(* _build_schema_context, for a new agent or for a refresh.                *)

Lookup(t) ==
  /\ pc[t] = "lookup"
  /\ got' = [got EXCEPT ![t] = cache]
  /\ Go(t, IF cache = Unknown THEN "fetch" ELSE "assign")
  /\ UNCHANGED <<catalog, schema, task, using, query, audit, counts, fresh, traced>>

(* The rows of INFORMATION_SCHEMA; or whatever raises, and the hardcoded   *)
(* schema, which is not cached.                                            *)
Fetch(t) ==
  /\ pc[t] = "fetch"
  /\ \/ /\ got' = [got EXCEPT ![t] = catalog]
        /\ Go(t, "store")
        /\ counts' = counts
     \/ /\ counts.fails < MaxFails
        /\ counts' = [counts EXCEPT !.fails = @ + 1]
        /\ got' = [got EXCEPT ![t] = Fallback]
        /\ Go(t, "assign")
  /\ UNCHANGED <<catalog, schema, task, using, query, audit, fresh, traced>>

(* A thread publishes rows although the cache was cleared since it read    *)
(* them, or refreshes an agent that another thread's has replaced.         *)
Overtakes(t) == overtaken' = (overtaken \/ t \in passed \/ using[t] \notin {None, agent})

Store(t) ==
  /\ pc[t] = "store"
  /\ cache' = got[t]
  /\ Overtakes(t)
  /\ Go(t, "assign")
  /\ UNCHANGED <<catalog, agent, context, task, using, got, query, audit, counts,
                 since, floor, passed, traced>>

Done(t) ==
  /\ pc' = [pc EXCEPT ![t] = "idle"] /\ task' = [task EXCEPT ![t] = "none"]
  /\ using' = [using EXCEPT ![t] = None] /\ got' = [got EXCEPT ![t] = Unknown]
  /\ query' = [query EXCEPT ![t] = NoQuestion]

(* The constructor's end, and _agent = NLToSQLAgent(...).                  *)
Publish(t) ==
  /\ pc[t] = "assign" /\ using[t] = None
  /\ context' = [context EXCEPT ![t] = got[t]]
  /\ agent' = t
  /\ Overtakes(t)
  /\ passed' = passed \ {t}
  /\ got' = [got EXCEPT ![t] = Unknown]
  /\ Go(t, "use")
  /\ UNCHANGED <<catalog, cache, task, using, query, audit, counts, since, floor, traced>>

(* _build_openai_client raises: the request fails, with no agent made.     *)
NoClient(t) ==
  /\ pc[t] = "assign" /\ using[t] = None
  /\ counts.fails < MaxFails
  /\ counts' = [counts EXCEPT !.fails = @ + 1]
  /\ passed' = passed \ {t}
  /\ Done(t)
  /\ UNCHANGED <<catalog, schema, audit, since, floor, overtaken, traced>>

\* Variant: the schema context is built without clearing the cache.
ClearNothing(t) ==
  /\ pc[t] = "clear"
  /\ since' = [since EXCEPT ![t] = catalog]
  /\ Go(t, "lookup")
  /\ UNCHANGED <<catalog, schema, task, using, got, query, audit, counts,
                 floor, passed, overtaken, traced>>

(* invalidate_schema_cache: _SCHEMA_CACHE.clear(), ...                     *)
Clear(t) ==
  /\ pc[t] = "clear"
  /\ cache' = Unknown
  /\ since' = [since EXCEPT ![t] = catalog]
  /\ passed' = passed \cup {u \in Threads \ {t} : pc[u] \in {"store", "assign"}}
  /\ Go(t, "lookup")
  /\ UNCHANGED <<catalog, agent, context, task, using, got, query, audit, counts,
                 floor, overtaken, traced>>

(* ... and self._schema_context = the one built anew.  204.                *)
Refreshed(t) ==
  /\ pc[t] = "assign" /\ using[t] # None
  /\ context' = [context EXCEPT ![using[t]] = got[t]]
  /\ Overtakes(t)
  /\ passed' = passed \ {t}
  /\ floor' = IF since[t] > floor THEN since[t] ELSE floor
  /\ Done(t)
  /\ UNCHANGED <<catalog, cache, agent, audit, counts, since, traced>>

-----------------------------------------------------------------------------
(* query                                                                   *)

(* _validate_sql, with comments stripped first.                            *)
Valid(s) ==
  /\ s.first \in {"SELECT", "WITH"}
  /\ ~s.forbidden
  /\ s.schemas \subseteq AllowedSchemas

Errs(t) == query' = [query EXCEPT ![t].error = TRUE]

(* _call_llm and _validate_sql: an answer that is executed, one that is    *)
(* refused, or an exception.                                               *)
Ask(t) ==
  /\ pc[t] = "ask"
  /\ \/ \E s \in Statements :
          IF Valid(s) THEN Go(t, "execute") /\ UNCHANGED query ELSE Go(t, "audit") /\ Errs(t)
     \/ Go(t, "audit") /\ Errs(t)
  /\ UNCHANGED <<catalog, schema, task, using, got, audit, counts, fresh, traced>>

(* _execute_sql, on a connection of its own; it may raise.                 *)
Execute(t) ==
  /\ pc[t] = "execute"
  /\ executed' = executed \cup {query[t].number}
  /\ UNCHANGED query \/ Errs(t)
  /\ Go(t, "audit")
  /\ UNCHANGED <<catalog, schema, task, using, got, audit, counts, fresh, adrift, raised>>

Entry(t) == [query |-> query[t].number, error |-> query[t].error]

(* _audit, whether it went well or not; then the answer, or a 400.         *)
Audit(t) ==
  /\ pc[t] = "audit"
  /\ buffer' = buffer \cup {Entry(t)}
  /\ adrift' = IF flush.step # "idle" THEN adrift \cup {query[t].number} ELSE adrift
  /\ Done(t)
  /\ UNCHANGED <<catalog, schema, flush, delta, counts, fresh, executed, raised>>

-----------------------------------------------------------------------------
(* flush_audit_log_to_delta                                                *)

(* createDataFrame takes the entries there are; it infers its schema from  *)
(* them, and refuses an error column without any error.                    *)
FlushFrame ==
  /\ flush.step = "idle" /\ buffer # {}
  /\ counts.flushes < MaxFlushes
  /\ counts' = [counts EXCEPT !.flushes = @ + 1]
  /\ flush' = IF \E e \in buffer : e.error THEN [step |-> "write", frame |-> buffer] ELSE NoFlush
  /\ UNCHANGED <<catalog, schema, thread, buffer, delta, fresh, traced>>

Appended == delta \cup {[query |-> e.query, flush |-> counts.flushes] : e \in flush.frame}

FlushWrite ==
  /\ flush.step = "write"
  /\ delta' = Appended
  /\ flush' = [flush EXCEPT !.step = "clear"]
  /\ UNCHANGED <<catalog, schema, thread, buffer, counts, fresh, traced>>

\* Variant: only what was written is known to be in the table.
FlushKeep ==
  /\ flush.step = "clear"
  /\ flush' = NoFlush
  /\ UNCHANGED <<catalog, schema, thread, buffer, delta, counts, fresh, traced>>

FlushClear ==
  /\ flush.step = "clear"
  /\ buffer' = {}
  /\ flush' = NoFlush
  /\ UNCHANGED <<catalog, schema, thread, delta, counts, fresh, traced>>

\* Variant: the buffer is cleared in a finally block.
FlushRaisesCleared ==
  /\ flush.step = "write"
  /\ counts.fails < MaxFails
  /\ counts' = [counts EXCEPT !.fails = @ + 1]
  /\ delta' \in {delta, Appended}
  /\ flush' = NoFlush /\ buffer' = {}
  /\ raised' = raised \cup {counts.flushes}
  /\ UNCHANGED <<catalog, schema, thread, fresh, executed, adrift>>

(* The append raises, having committed or not: the buffer is kept.         *)
FlushRaises ==
  /\ flush.step = "write"
  /\ counts.fails < MaxFails
  /\ counts' = [counts EXCEPT !.fails = @ + 1]
  /\ delta' \in {delta, Appended}
  /\ flush' = NoFlush
  /\ raised' = raised \cup {counts.flushes}
  /\ UNCHANGED <<catalog, schema, thread, buffer, fresh, executed, adrift>>

(* The process ends: cache, agent and audit buffer go with it.             *)
Restart ==
  /\ counts.fails < MaxFails
  /\ counts' = [counts EXCEPT !.fails = @ + 1]
  /\ adrift' = adrift \cup executed
  /\ cache' = Unknown /\ agent' = None
  /\ context' = [t \in Threads |-> Unknown]
  /\ pc' = [t \in Threads |-> "idle"] /\ task' = [t \in Threads |-> "none"]
  /\ using' = [t \in Threads |-> None] /\ got' = [t \in Threads |-> Unknown]
  /\ query' = [t \in Threads |-> NoQuestion]
  /\ buffer' = {} /\ flush' = NoFlush
  /\ since' = [t \in Threads |-> 0] /\ floor' = 0 /\ passed' = {} /\ overtaken' = FALSE
  /\ UNCHANGED <<catalog, delta, executed, raised>>

Handle(t) ==
  \/ Arrive(t) \/ Check(t) \/ Use(t)
  \/ Lookup(t) \/ Fetch(t) \/ Store(t) \/ Publish(t) \/ NoClient(t)
  \/ Clear(t) \/ Refreshed(t)
  \/ Ask(t) \/ Execute(t) \/ Audit(t)

Next ==
  \/ ChangeCatalog
  \/ \E t \in Threads : Handle(t)
  \/ FlushFrame \/ FlushWrite \/ FlushClear \/ FlushRaises
  \/ Restart

Spec == Init /\ [][Next]_vars

-----------------------------------------------------------------------------
Contexts == 0..catalog \cup {Fallback, Unknown}

(* Type correctness of the process, its threads and the audit table.       *)
TypeOK ==
  /\ catalog \in 0..MaxVersion /\ floor \in 0..catalog
  /\ cache \in Contexts \ {Fallback} /\ agent \in Threads \cup {None}
  /\ context \in [Threads -> Contexts] /\ got \in [Threads -> Contexts]
  /\ using \in [Threads -> Threads \cup {None}] /\ since \in [Threads -> 0..catalog]
  /\ agent # None => context[agent] # Unknown
  /\ \A t \in Threads : pc[t] \in {"ask", "execute", "clear"} => using[t] # None
  /\ flush.step \in {"idle", "write", "clear"}

(* After a refresh has answered, the agent that questions get knows the    *)
(* tables as they were when it began, or the hardcoded ones, whatever      *)
(* other refreshes ran: unless a thread published rows it read before      *)
(* another's cache clear, or the refresh got one of two agents made at     *)
(* first, and the other one became the agent.                              *)
ContextIsFresh ==
  agent # None /\ ~overtaken => context[agent] = Fallback \/ context[agent] >= floor

Audited(q) == (\E e \in buffer : e.query = q) \/ (\E d \in delta : d.query = q)

(* Every statement that reached the warehouse is audited, in the buffer or *)
(* in the table, as soon as its request ends.  Only an entry added while a *)
(* flush runs, or a process that ends, can be missing.                     *)
ExecutedIsAudited ==
  \A q \in executed :
    \/ Audited(q) \/ q \in adrift
    \/ \E t \in Threads : pc[t] = "audit" /\ query[t].number = q

(* An entry that two flushes wrote was written first by one that raised    *)
(* after its commit.                                                       *)
AuditedOnce ==
  \A c, d \in delta : c.query = d.query /\ c.flush < d.flush => c.flush \in raised
=============================================================================
