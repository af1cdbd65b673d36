---------------------------- MODULE Orchestrator ----------------------------
(***************************************************************************)
(* The agentic orchestrator (src/agents/orchestrator_agent.py): runners    *)
(* poll the Delta table governance.orchestrator_events, plan a route for   *)
(* each PENDING event, execute one sub-agent in-process, and finalise the  *)
(* event: first its status, then one row of governance.orchestrator_log.   *)
(*                                                                         *)
(* A runner is one process executing run_orchestration_cycle: the          *)
(* scheduled job is one, an on-demand invocation is another.  Every Delta  *)
(* statement is one atomic step; a runner keeps local state between them.  *)
(***************************************************************************)
EXTENDS Naturals, Sequences, FiniteSets

CONSTANTS
  Events,      \* event ids that can ever be raised
  Runners,     \* processes that run orchestration cycles
  Profile,     \* what each event carries: type, priority, raised_at, payload
  BatchSize,   \* LIMIT of the poll
  MaxCrashes,  \* bound on killed or failed cycles
  None         \* "no current event"

VALID_AGENTS ==
  {"dq_remediation", "gdpr_rtbf", "nl_to_sql", "pipeline_diagnosis",
   "schema_drift_alert", "model_drift_retrain", "escalate", "no_op"}

VALID_EVENT_TYPES ==
  {"DQ_FAILURE", "GDPR_ERASURE_REQUEST", "NL_QUERY", "PIPELINE_FAILURE",
   "SCHEMA_DRIFT", "MODEL_DRIFT"}

(***************************************************************************)
(* payload: "ok" is a JSON document that fits the planner's size bound,    *)
(* "long" one whose truncation to 4000 characters no longer parses, and    *)
(* "malformed" a string json.loads rejects.                                *)
(***************************************************************************)
OrchestratorEvent ==
  [event_type    : VALID_EVENT_TYPES \cup {"OTHER"},
   priority      : {"HIGH", "MEDIUM", "LOW"},
   raised_at     : Nat,
   payload       : {"ok", "long", "malformed"}]

ASSUME ProfileAssumption   == Profile \in [Events -> OrchestratorEvent]
ASSUME BatchSizeAssumption == BatchSize \in Nat \ {0}
ASSUME CrashAssumption     == MaxCrashes \in Nat
ASSUME NoneAssumption      == None \notin Events

VARIABLES
  status,   \* orchestrator_events.status; "ABSENT" before the row is appended
  log,      \* orchestrator_log, in append order
  effects,  \* per runner and event: external changes the sub-agent made
  pc,       \* where each runner is in its cycle
  todo,     \* rows of the polled batch not yet handled
  cur,      \* the event being handled
  plan,     \* RoutingPlan of the current event
  result,   \* AgentResult.status of the current event
  client,   \* is the OpenAI client available in this cycle?
  crashes   \* cycles killed so far

vars == <<status, log, effects, pc, todo, cur, plan, result, client, crashes>>

EventStatus   == {"ABSENT", "PENDING", "IN_PROGRESS", "COMPLETED", "FAILED", "ESCALATED"}
Terminal      == {"COMPLETED", "FAILED", "ESCALATED"}
ResultStatus  == {"SUCCESS", "FAILED", "ESCALATED", "SKIPPED"}
RoutingPlan   == [chosen_agent : VALID_AGENTS, fallback_used : BOOLEAN]
OrchestratorLogEntry ==
  [event_id : Events, chosen_agent : VALID_AGENTS, fallback_used : BOOLEAN,
   execution_status : ResultStatus]
NoPlan == [chosen_agent |-> "no_op", fallback_used |-> FALSE]

-----------------------------------------------------------------------------
(* The poll: ORDER BY priority, raised_at LIMIT BatchSize.                 *)

\* Variant: failed events are polled again.
PendingOrFailed == {e \in Events : status[e] \in {"PENDING", "FAILED"}}

Pending == {e \in Events : status[e] = "PENDING"}

PriorityRank(e) ==
  CASE Profile[e].priority = "HIGH"   -> 0
    [] Profile[e].priority = "MEDIUM" -> 1
    [] OTHER                          -> 2

Before(e, f) ==
  \/ PriorityRank(e) < PriorityRank(f)
  \/ /\ PriorityRank(e) = PriorityRank(f)
     /\ Profile[e].raised_at < Profile[f].raised_at

IsBatch(batch, rows) ==
  /\ Cardinality(batch) =
       IF Cardinality(rows) < BatchSize THEN Cardinality(rows) ELSE BatchSize
  /\ \A e \in batch, f \in rows \ batch : ~Before(f, e)

(* The runner's loop takes the rows in the poll's order. *)
IsNext(r, e) == e \in todo[r] /\ \A f \in todo[r] : ~Before(f, e)

-----------------------------------------------------------------------------
(* Routing and execution of one event.                                     *)

RuleBasedAgent(e) ==
  CASE Profile[e].event_type = "DQ_FAILURE"           -> "dq_remediation"
    [] Profile[e].event_type = "GDPR_ERASURE_REQUEST" -> "gdpr_rtbf"
    [] Profile[e].event_type = "NL_QUERY"             -> "nl_to_sql"
    [] Profile[e].event_type = "PIPELINE_FAILURE"     -> "pipeline_diagnosis"
    [] Profile[e].event_type = "SCHEMA_DRIFT"         -> "schema_drift_alert"
    [] Profile[e].event_type = "MODEL_DRIFT"          -> "model_drift_retrain"
    [] OTHER                                          -> "escalate"

(***************************************************************************)
(* What each wrapper can return, with the number of external changes it    *)
(* has made by then.  The DQ and GDPR wrappers import names that their     *)
(* modules do not define (run_remediation_cycle, run_erasure), so they     *)
(* fail before the sub-agent is entered.  A retraining request whose       *)
(* answer is lost has started the job and still returns FAILED.            *)
(***************************************************************************)
Outcome(returned, made) == [status |-> returned, made |-> made]

RunDqRemediation == {Outcome("FAILED", 0)}
RunGdprRtbf == {Outcome("FAILED", 0)}
RunNlToSql(hasClient) ==
  {Outcome("FAILED", 0)}
    \cup (IF hasClient THEN {Outcome("SUCCESS", 0), Outcome("SKIPPED", 0)} ELSE {})
RunPipelineDiagnosis(hasClient) ==
  {Outcome("ESCALATED", 0)} \cup (IF hasClient THEN {Outcome("FAILED", 0)} ELSE {})
RunSchemaDriftAlert == {Outcome("ESCALATED", 1), Outcome("FAILED", 0), Outcome("FAILED", 1)}
RunModelDriftRetrain ==
  {Outcome("SKIPPED", 0), Outcome("SUCCESS", 1), Outcome("FAILED", 0), Outcome("FAILED", 1)}
RunEscalate == {Outcome("ESCALATED", 0)}
RunNoOp == {Outcome("SKIPPED", 0)}

Outcomes(agent, hasClient) ==
  CASE agent = "dq_remediation"      -> RunDqRemediation
    [] agent = "gdpr_rtbf"           -> RunGdprRtbf
    [] agent = "nl_to_sql"           -> RunNlToSql(hasClient)
    [] agent = "pipeline_diagnosis"  -> RunPipelineDiagnosis(hasClient)
    [] agent = "schema_drift_alert"  -> RunSchemaDriftAlert
    [] agent = "model_drift_retrain" -> RunModelDriftRetrain
    [] agent = "escalate"            -> RunEscalate
    [] OTHER                         -> RunNoOp

\* Variant: an event nothing was done for keeps its status.
StatusMapUnlessSkipped(s) ==
  CASE s = "FAILED"    -> "FAILED"
    [] s = "ESCALATED" -> "ESCALATED"
    [] s = "SKIPPED"   -> "IN_PROGRESS"
    [] OTHER           -> "COMPLETED"

StatusMap(s) ==
  CASE s = "FAILED"    -> "FAILED"
    [] s = "ESCALATED" -> "ESCALATED"
    [] OTHER           -> "COMPLETED"

-----------------------------------------------------------------------------
Init ==
  /\ status  = [e \in Events |-> "ABSENT"]
  /\ log     = <<>>
  /\ effects = [r \in Runners |-> [e \in Events |-> 0]]
  /\ pc      = [r \in Runners |-> "idle"]
  /\ todo    = [r \in Runners |-> {}]
  /\ cur     = [r \in Runners |-> None]
  /\ plan    = [r \in Runners |-> NoPlan]
  /\ result  = [r \in Runners |-> "SKIPPED"]
  /\ client  = [r \in Runners |-> FALSE]
  /\ crashes = 0

(* An upstream job, or the one-shot mode of main(), appends a PENDING row. *)
Raise(e) ==
  /\ status[e] = "ABSENT"
  /\ status' = [status EXCEPT ![e] = "PENDING"]
  /\ UNCHANGED <<log, effects, pc, todo, cur, plan, result, client, crashes>>

(***************************************************************************)
(* The cycle starts: collect the batch once and build the client.  With no *)
(* row to handle the cycle returns at once.                                *)
(***************************************************************************)
Poll(r) ==
  /\ pc[r] = "idle"
  /\ \/ /\ Pending = {}
        /\ UNCHANGED vars
     \/ /\ Pending # {}
        /\ \E batch \in SUBSET Pending :
             /\ IsBatch(batch, Pending)
             /\ todo' = [todo EXCEPT ![r] = batch]
        /\ \E available \in BOOLEAN : client' = [client EXCEPT ![r] = available]
        /\ pc' = [pc EXCEPT ![r] = "next"]
        /\ UNCHANGED <<status, log, effects, cur, plan, result, crashes>>

\* Variant: the row is handled without being marked IN_PROGRESS first.
ClaimWithoutMark(r) ==
  /\ pc[r] = "next"
  /\ \E e \in todo[r] :
       /\ IsNext(r, e)
       /\ Profile[e].payload # "malformed"
       /\ todo' = [todo EXCEPT ![r] = @ \ {e}]
       /\ cur'  = [cur EXCEPT ![r] = e]
  /\ pc' = [pc EXCEPT ![r] = "plan"]
  /\ UNCHANGED <<status, log, effects, plan, result, client, crashes>>

\* Variant: the row stays in the batch while it is handled.
ClaimAndKeep(r) ==
  /\ pc[r] = "next"
  /\ \E e \in todo[r] :
       /\ IsNext(r, e)
       /\ Profile[e].payload # "malformed"
       /\ cur'    = [cur EXCEPT ![r] = e]
       /\ status' = [status EXCEPT ![e] = "IN_PROGRESS"]
  /\ pc' = [pc EXCEPT ![r] = "plan"]
  /\ UNCHANGED <<log, effects, todo, plan, result, client, crashes>>

(* Mark the row IN_PROGRESS.  The UPDATE has no condition on the status.   *)
Claim(r) ==
  /\ pc[r] = "next"
  /\ \E e \in todo[r] :
       /\ IsNext(r, e)
       /\ Profile[e].payload # "malformed"
       /\ todo'   = [todo EXCEPT ![r] = @ \ {e}]
       /\ cur'    = [cur EXCEPT ![r] = e]
       /\ status' = [status EXCEPT ![e] = "IN_PROGRESS"]
       /\ \/ /\ Profile[e].event_type \in VALID_EVENT_TYPES
             /\ pc' = [pc EXCEPT ![r] = "plan"]
             /\ UNCHANGED <<plan, result>>
          \/ /\ Profile[e].event_type \notin VALID_EVENT_TYPES
             /\ plan'   = [plan EXCEPT ![r] = [chosen_agent |-> "escalate", fallback_used |-> TRUE]]
             /\ result' = [result EXCEPT ![r] = "ESCALATED"]
             /\ pc'     = [pc EXCEPT ![r] = "settle"]
  /\ UNCHANGED <<log, effects, client, crashes>>

(* The cycle ends without handling the rest of its batch. *)
AbortCycle(r) ==
  /\ pc'     = [pc EXCEPT ![r] = "idle"]
  /\ todo'   = [todo EXCEPT ![r] = {}]
  /\ cur'    = [cur EXCEPT ![r] = None]
  /\ plan'   = [plan EXCEPT ![r] = NoPlan]
  /\ result' = [result EXCEPT ![r] = "SKIPPED"]
  /\ client' = [client EXCEPT ![r] = FALSE]
  /\ UNCHANGED <<status, log, effects>>

(* json.loads(row["payload"]) is outside every try: it ends the cycle. *)
ParseFailure(r) ==
  /\ pc[r] = "next"
  /\ \E e \in todo[r] : IsNext(r, e) /\ Profile[e].payload = "malformed"
  /\ AbortCycle(r)
  /\ UNCHANGED crashes

(* The model answers with confidence >= 0.5; its agent is whitelisted. *)
CallPlanner(r) ==
  /\ pc[r] = "plan"
  /\ client[r]
  /\ Profile[cur[r]].payload = "ok"
  /\ \E agent \in VALID_AGENTS :
       plan' = [plan EXCEPT ![r] = [chosen_agent |-> agent, fallback_used |-> FALSE]]
  /\ pc' = [pc EXCEPT ![r] = "execute"]
  /\ UNCHANGED <<status, log, effects, todo, cur, result, client, crashes>>

(* No client, an exception, or confidence < 0.5: route by event type. *)
RuleBasedDispatch(r) ==
  /\ pc[r] = "plan"
  /\ plan' = [plan EXCEPT ![r] = [chosen_agent |-> RuleBasedAgent(cur[r]), fallback_used |-> TRUE]]
  /\ pc'   = [pc EXCEPT ![r] = "execute"]
  /\ UNCHANGED <<status, log, effects, todo, cur, result, client, crashes>>

(* Run the sub-agent wrapper; it returns a result whatever happens. *)
Execute(r) ==
  /\ pc[r] = "execute"
  /\ \E out \in Outcomes(plan[r].chosen_agent, client[r]) :
       /\ result'  = [result EXCEPT ![r] = out.status]
       /\ effects' = [effects EXCEPT ![r][cur[r]] = @ + out.made]
  /\ pc' = [pc EXCEPT ![r] = "settle"]
  /\ UNCHANGED <<status, log, todo, cur, plan, client, crashes>>

(* _finalise, first statement: the event's final status. *)
UpdateEventStatus(r) ==
  /\ pc[r] = "settle"
  /\ status' = [status EXCEPT ![cur[r]] = StatusMap(result[r])]
  /\ pc'     = [pc EXCEPT ![r] = "log"]
  /\ UNCHANGED <<log, effects, todo, cur, plan, result, client, crashes>>

\* Variant: nothing is logged for an event no agent acted on.
WriteLogUnlessSkipped(r) ==
  /\ pc[r] = "log"
  /\ log' = IF result[r] = "SKIPPED" THEN log
            ELSE Append(log, [event_id         |-> cur[r],
                              chosen_agent     |-> plan[r].chosen_agent,
                              fallback_used    |-> plan[r].fallback_used,
                              execution_status |-> result[r]])
  /\ pc'     = [pc EXCEPT ![r] = IF todo[r] = {} THEN "idle" ELSE "next"]
  /\ cur'    = [cur EXCEPT ![r] = None]
  /\ plan'   = [plan EXCEPT ![r] = NoPlan]
  /\ result' = [result EXCEPT ![r] = "SKIPPED"]
  /\ client' = [client EXCEPT ![r] = @ /\ todo[r] # {}]
  /\ UNCHANGED <<status, effects, todo, crashes>>

(* _finalise, second statement: the audit row; then the next row, if any. *)
WriteLog(r) ==
  /\ pc[r] = "log"
  /\ log' = Append(log, [event_id         |-> cur[r],
                         chosen_agent     |-> plan[r].chosen_agent,
                         fallback_used    |-> plan[r].fallback_used,
                         execution_status |-> result[r]])
  /\ pc'     = [pc EXCEPT ![r] = IF todo[r] = {} THEN "idle" ELSE "next"]
  /\ cur'    = [cur EXCEPT ![r] = None]
  /\ plan'   = [plan EXCEPT ![r] = NoPlan]
  /\ result' = [result EXCEPT ![r] = "SKIPPED"]
  /\ client' = [client EXCEPT ![r] = @ /\ todo[r] # {}]
  /\ UNCHANGED <<status, effects, todo, crashes>>

(* The 600 s cap, a lost driver, or a statement that raises. *)
Crash(r) ==
  /\ crashes < MaxCrashes
  /\ pc[r] # "idle"
  /\ crashes' = crashes + 1
  /\ AbortCycle(r)

RunnerStep(r) ==
  \/ Poll(r) \/ Claim(r) \/ ParseFailure(r) \/ CallPlanner(r) \/ RuleBasedDispatch(r)
  \/ Execute(r) \/ UpdateEventStatus(r) \/ WriteLog(r)

Next ==
  \/ \E e \in Events : Raise(e)
  \/ \E r \in Runners : RunnerStep(r) \/ Crash(r)

Spec == Init /\ [][Next]_vars

(***************************************************************************)
(* The schedule restarts an idle runner every 15 minutes, and a running    *)
(* cycle goes on until it ends or is killed: each runner's steps are       *)
(* weakly fair.  Raising events and crashing are not.                      *)
(***************************************************************************)
FairSpec == Spec /\ \A r \in Runners : WF_vars(RunnerStep(r))

-----------------------------------------------------------------------------
(* Safety, for any number of overlapping runners.                          *)

(* Type correctness of the queue, the log and every runner's local state.  *)
TypeOK ==
  /\ status  \in [Events -> EventStatus]
  /\ log     \in Seq(OrchestratorLogEntry)
  /\ effects \in [Runners -> [Events -> Nat]]
  /\ pc      \in [Runners -> {"idle", "next", "plan", "execute", "settle", "log"}]
  /\ todo    \in [Runners -> SUBSET Events]
  /\ cur     \in [Runners -> Events \cup {None}]
  /\ plan    \in [Runners -> RoutingPlan]
  /\ result  \in [Runners -> ResultStatus]
  /\ client  \in [Runners -> BOOLEAN]
  /\ crashes \in Nat

(* One runner, however often it is killed and restarted, makes at most one *)
(* external change (a retraining job, a drift record) for an event: a row  *)
(* it has claimed is never in a later batch of its own.                    *)
AtMostOneEffectPerRunner ==
  \A r \in Runners, e \in Events : effects[r][e] <= 1

(* The audit trail covers every verdict: unless a cycle was killed, an     *)
(* event with a final status has a log row for a result of that status, or *)
(* a runner is about to append it, even when runners overwrite each other. *)
AuditCoversVerdicts ==
  crashes = 0 =>
    \A e \in Events : status[e] \in Terminal =>
      \/ \E i \in DOMAIN log :
           log[i].event_id = e /\ StatusMap(log[i].execution_status) = status[e]
      \/ \E r \in Runners :
           pc[r] = "log" /\ cur[r] = e /\ StatusMap(result[r]) = status[e]

-----------------------------------------------------------------------------
(* Safety of the deployment, max_concurrent_runs = 1: a single runner.     *)

(* A final status is never revised: no later poll, retry or restart of the *)
(* cycle moves an event that was completed, failed or escalated.           *)
VerdictIsFinal ==
  [][\A e \in Events : status[e] \in Terminal => status'[e] = status[e]]_vars

(* At most one log row per event handled (OrchestratorLogEntry).           *)
OneRowPerEvent ==
  \A i, j \in DOMAIN log : log[i].event_id = log[j].event_id => i = j

(* The two tables agree: the status of a logged event is the one its row   *)
(* stands for, although the two are written by separate statements.        *)
LogMatchesStatus ==
  \A i \in DOMAIN log : status[log[i].event_id] = StatusMap(log[i].execution_status)

(* A single runner implements the at-most-once queue, crashes included.    *)
Queue == INSTANCE EventQueue
  WITH performed <- {e \in Events : \E r \in Runners : effects[r][e] > 0},
       audited   <- {log[i].event_id : i \in DOMAIN log}

ImplementsEventQueue == Queue!Spec

-----------------------------------------------------------------------------
(* Liveness, with any number of runners.                                   *)

(* Unless a cycle is killed or a payload does not parse, every raised      *)
(* event comes to have a final status and an audit row: neither a full     *)
(* batch nor another runner's claim leaves one behind.                     *)
EveryEventSettles ==
  [](crashes = 0 /\ \A e \in Events : status[e] # "ABSENT" => Profile[e].payload # "malformed")
    => \A e \in Events :
         status[e] = "PENDING" ~>
           /\ status[e] \in Terminal
           /\ \E i \in DOMAIN log : log[i].event_id = e
=============================================================================
