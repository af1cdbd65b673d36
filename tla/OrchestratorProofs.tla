------------------------- MODULE OrchestratorProofs -------------------------
(* Theorems about Orchestrator for every set of events, runners, profile,  *)
(* batch size and number of crashes.                                       *)
EXTENDS Orchestrator, TLAPS

-----------------------------------------------------------------------------
(* Facts about the operators.                                              *)

(* Every sub-agent result stands for a final event status.                 *)
LEMMA StatusMapTerminal == \A s : StatusMap(s) \in Terminal
  BY DEF StatusMap, Terminal

(* A wrapper returns a known status and makes at most one external change. *)
LEMMA OutcomeType ==
  ASSUME NEW agent \in VALID_AGENTS, NEW c \in BOOLEAN, NEW out \in Outcomes(agent, c)
  PROVE  out.status \in ResultStatus /\ out.made \in {0, 1}
  BY DEF VALID_AGENTS, Outcomes, Outcome, ResultStatus, RunDqRemediation, RunGdprRtbf,
     RunNlToSql, RunPipelineDiagnosis, RunSchemaDriftAlert, RunModelDriftRetrain, RunEscalate,
     RunNoOp

(* The fallback routes to a whitelisted agent.                             *)
LEMMA RuleBasedAgentValid == \A e : RuleBasedAgent(e) \in VALID_AGENTS
  BY DEF RuleBasedAgent, VALID_AGENTS

-----------------------------------------------------------------------------
(* Type correctness.                                                       *)

(* While a runner is inside an event, cur names one.                       *)
CurOK ==
  \A r \in Runners : pc[r] \in {"plan", "execute", "settle", "log"} <=> cur[r] \in Events

TypeInv == TypeOK /\ CurOK

LEMMA AbortKeepsTypes ==
  ASSUME TypeInv, NEW r \in Runners, AbortCycle(r), crashes' \in Nat
  PROVE  TypeInv'
  BY NoneAssumption
  DEF TypeInv, TypeOK, CurOK, AbortCycle, NoPlan, RoutingPlan, VALID_AGENTS, ResultStatus

LEMMA TypeStep == TypeInv /\ [Next]_vars => TypeInv'
  <1> SUFFICES ASSUME TypeInv, [Next]_vars PROVE TypeInv'
    OBVIOUS
  <1> USE DEF TypeInv, TypeOK, CurOK
  <1>1. ASSUME NEW e \in Events, Raise(e) PROVE TypeInv'
    BY <1>1 DEF Raise, EventStatus
  <1>2. ASSUME NEW r \in Runners, Poll(r) PROVE TypeInv'
    <2>1. CASE UNCHANGED vars
      BY <2>1 DEF vars
    <2>2. CASE ~ UNCHANGED vars
      <3>1. PICK batch \in SUBSET Pending : todo' = [todo EXCEPT ![r] = batch]
        BY <1>2, <2>2 DEF Poll
      <3>2. todo' \in [Runners -> SUBSET Events]
        BY <3>1 DEF Pending
      <3>3. client' \in [Runners -> BOOLEAN]
        BY <1>2, <2>2 DEF Poll
      <3>4. QED
        BY <1>2, <2>2, <3>2, <3>3, NoneAssumption DEF Poll
    <2>3. QED
      BY <2>1, <2>2
  <1>3. ASSUME NEW r \in Runners, Claim(r) PROVE TypeInv'
    <2>1. PICK e \in todo[r] : Claim(r)!2!(e)
      BY <1>3 DEF Claim
    <2>2. e \in Events
      OBVIOUS
    <2>3. [chosen_agent |-> "escalate", fallback_used |-> TRUE] \in RoutingPlan
      BY DEF RoutingPlan, VALID_AGENTS
    <2>4. /\ status' \in [Events -> EventStatus]
          /\ todo' \in [Runners -> SUBSET Events]
          /\ cur' \in [Runners -> Events \cup {None}]
      BY <2>1, <2>2 DEF EventStatus
    <2>5. CASE pc' = [pc EXCEPT ![r] = "plan"] /\ UNCHANGED <<plan, result>>
      BY <1>3, <2>1, <2>2, <2>4, <2>5 DEF Claim
    <2>6. CASE /\ plan' = [plan EXCEPT ![r] = [chosen_agent |-> "escalate", fallback_used |-> TRUE]]
               /\ result' = [result EXCEPT ![r] = "ESCALATED"]
               /\ pc' = [pc EXCEPT ![r] = "settle"]
      BY <1>3, <2>1, <2>2, <2>3, <2>4, <2>6 DEF Claim, ResultStatus
    <2>7. QED
      BY <2>1, <2>5, <2>6
  <1>4. ASSUME NEW r \in Runners, ParseFailure(r) PROVE TypeInv'
    BY <1>4, AbortKeepsTypes DEF ParseFailure
  <1>5. ASSUME NEW r \in Runners, CallPlanner(r) PROVE TypeInv'
    BY <1>5 DEF CallPlanner, RoutingPlan
  <1>6. ASSUME NEW r \in Runners, RuleBasedDispatch(r) PROVE TypeInv'
    BY <1>6, RuleBasedAgentValid DEF RuleBasedDispatch, RoutingPlan
  <1>7. ASSUME NEW r \in Runners, Execute(r) PROVE TypeInv'
    <2>1. PICK out \in Outcomes(plan[r].chosen_agent, client[r]) : Execute(r)!2!(out)
      BY <1>7 DEF Execute
    <2>2. out.status \in ResultStatus /\ out.made \in Nat
      BY OutcomeType DEF RoutingPlan
    <2>3. cur[r] \in Events
      BY <1>7 DEF Execute
    <2>4. effects' \in [Runners -> [Events -> Nat]]
      BY <2>1, <2>2, <2>3
    <2>5. QED
      BY <1>7, <2>1, <2>2, <2>4 DEF Execute
  <1>8. ASSUME NEW r \in Runners, UpdateEventStatus(r) PROVE TypeInv'
    BY <1>8, StatusMapTerminal DEF UpdateEventStatus, EventStatus, Terminal
  <1>9. ASSUME NEW r \in Runners, WriteLog(r) PROVE TypeInv'
    <2> DEFINE row == [event_id         |-> cur[r],
                       chosen_agent     |-> plan[r].chosen_agent,
                       fallback_used    |-> plan[r].fallback_used,
                       execution_status |-> result[r]]
    <2>1. row \in OrchestratorLogEntry
      BY <1>9 DEF WriteLog, OrchestratorLogEntry, RoutingPlan
    <2>2. log' \in Seq(OrchestratorLogEntry)
      BY <1>9, <2>1 DEF WriteLog
    <2>3. QED
      BY <1>9, <2>2, NoneAssumption DEF WriteLog, NoPlan, RoutingPlan, VALID_AGENTS, ResultStatus
  <1>10. ASSUME NEW r \in Runners, Crash(r) PROVE TypeInv'
    BY <1>10, AbortKeepsTypes DEF Crash
  <1>11. CASE UNCHANGED vars
    BY <1>11 DEF vars
  <1>12. QED
    BY <1>1, <1>2, <1>3, <1>4, <1>5, <1>6, <1>7, <1>8, <1>9, <1>10, <1>11 DEF Next, RunnerStep

LEMMA TypeInit == Init => TypeInv
  BY NoneAssumption
  DEF Init, TypeInv, TypeOK, CurOK, EventStatus, OrchestratorLogEntry, NoPlan, RoutingPlan,
      VALID_AGENTS, ResultStatus

(* Every variable keeps its type, and a runner inside an event knows it.   *)
THEOREM TypeCorrect == Spec => [](TypeOK /\ CurOK)
  BY TypeInit, TypeStep, PTL DEF Spec, TypeInv
-----------------------------------------------------------------------------
(* At most one external change per runner and event.                       *)

(***************************************************************************)
(* A runner has made no change for the rows it has still to handle, nor    *)
(* for the current one before Execute; a row it has claimed is not PENDING *)
(* again, so no later batch contains it.                                   *)
(***************************************************************************)
Unhandled(r, e) ==
  e \in todo[r] => effects[r][e] = 0 /\ cur[r] # e /\ status[e] # "ABSENT"

Handling(r) ==
  /\ cur[r] \in Events => status[cur[r]] \notin {"ABSENT", "PENDING"}
  /\ pc[r] \in {"plan", "execute"} => effects[r][cur[r]] = 0
  /\ pc[r] = "idle" => todo[r] = {}

Fresh(e) == status[e] \in {"ABSENT", "PENDING"} => \A r \in Runners : effects[r][e] = 0

EffectInv ==
  /\ AtMostOneEffectPerRunner
  /\ \A r \in Runners : Handling(r)
  /\ \A r \in Runners, e \in Events : Unhandled(r, e)
  /\ \A e \in Events : Fresh(e)

(* Ending a cycle forgets its batch and changes no table.                  *)
LEMMA AbortKeepsEffects ==
  ASSUME TypeInv, EffectInv, NEW r \in Runners, AbortCycle(r)
  PROVE  EffectInv'
  BY NoneAssumption
  DEF TypeInv, TypeOK, CurOK, EffectInv, AtMostOneEffectPerRunner, Handling, Unhandled, Fresh,
      AbortCycle

LEMMA EffectStep == TypeInv /\ EffectInv /\ [Next]_vars => EffectInv'
  <1> SUFFICES ASSUME TypeInv, EffectInv, [Next]_vars PROVE EffectInv'
    OBVIOUS
  <1> USE DEF TypeInv, TypeOK, CurOK, EffectInv, AtMostOneEffectPerRunner, Handling, Unhandled, Fresh
  <1>1. ASSUME NEW e \in Events, Raise(e) PROVE EffectInv'
    BY <1>1 DEF Raise
  <1>2. ASSUME NEW r \in Runners, Poll(r) PROVE EffectInv'
    <2>1. CASE UNCHANGED vars
      BY <2>1 DEF vars
    <2>2. CASE ~ UNCHANGED vars
      <3>1. PICK batch \in SUBSET Pending : todo' = [todo EXCEPT ![r] = batch]
        BY <1>2, <2>2 DEF Poll
      <3>2. \A e \in batch : status[e] = "PENDING" /\ effects[r][e] = 0 /\ cur[r] # e
        BY <1>2 DEF Poll, Pending
      <3>3. QED
        BY <1>2, <2>2, <3>1, <3>2 DEF Poll, Pending
    <2>3. QED
      BY <2>1, <2>2
  <1>3. ASSUME NEW r \in Runners, Claim(r) PROVE EffectInv'
    <2>1. PICK e \in todo[r] : Claim(r)!2!(e)
      BY <1>3 DEF Claim
    <2>2. e \in Events /\ effects[r][e] = 0
      OBVIOUS
    <2>3. /\ pc[r] = "next"
          /\ todo'   = [todo EXCEPT ![r] = @ \ {e}]
          /\ cur'    = [cur EXCEPT ![r] = e]
          /\ status' = [status EXCEPT ![e] = "IN_PROGRESS"]
          /\ pc' \in {[pc EXCEPT ![r] = "plan"], [pc EXCEPT ![r] = "settle"]}
          /\ effects' = effects
      BY <1>3, <2>1 DEF Claim
    <2>4. \A s \in Runners, f \in Events : Unhandled(s, f)'
      BY <2>2, <2>3
    <2>5. \A s \in Runners : Handling(s)'
      BY <2>2, <2>3
    <2>6. \A f \in Events : Fresh(f)'
      BY <2>2, <2>3
    <2>7. QED
      BY <2>3, <2>4, <2>5, <2>6
  <1>4. ASSUME NEW r \in Runners, ParseFailure(r) PROVE EffectInv'
    BY <1>4, AbortKeepsEffects DEF ParseFailure
  <1>5. ASSUME NEW r \in Runners, CallPlanner(r) PROVE EffectInv'
    BY <1>5 DEF CallPlanner
  <1>6. ASSUME NEW r \in Runners, RuleBasedDispatch(r) PROVE EffectInv'
    BY <1>6 DEF RuleBasedDispatch
  <1>7. ASSUME NEW r \in Runners, Execute(r) PROVE EffectInv'
    <2>1. PICK out \in Outcomes(plan[r].chosen_agent, client[r]) : Execute(r)!2!(out)
      BY <1>7 DEF Execute
    <2>2. out.made \in {0, 1}
      BY OutcomeType DEF RoutingPlan
    <2>3. /\ cur[r] \in Events
          /\ effects[r][cur[r]] = 0
          /\ effects' = [effects EXCEPT ![r][cur[r]] = out.made]
      <3>1. cur[r] \in Events /\ effects[r][cur[r]] = 0
        BY <1>7 DEF Execute
      <3>2. effects' = [effects EXCEPT ![r][cur[r]] = @ + out.made]
        BY <2>1
      <3>3. effects[r][cur[r]] + out.made = out.made
        BY <2>2, <3>1
      <3>4. QED
        BY <3>1, <3>2, <3>3
    <2>4. AtMostOneEffectPerRunner'
      BY <2>2, <2>3
    <2>5. \A s \in Runners, f \in Events : Unhandled(s, f)'
      BY <1>7, <2>3 DEF Execute
    <2>6. \A s \in Runners : Handling(s)'
      BY <1>7, <2>3 DEF Execute
    <2>7. \A f \in Events : Fresh(f)'
      BY <1>7, <2>3 DEF Execute
    <2>8. QED
      BY <2>4, <2>5, <2>6, <2>7
  <1>8. ASSUME NEW r \in Runners, UpdateEventStatus(r) PROVE EffectInv'
    <2>1. /\ cur[r] \in Events
          /\ status' = [status EXCEPT ![cur[r]] = StatusMap(result[r])]
          /\ pc'     = [pc EXCEPT ![r] = "log"]
          /\ UNCHANGED <<effects, todo, cur>>
      BY <1>8 DEF UpdateEventStatus
    <2>2. StatusMap(result[r]) \notin {"ABSENT", "PENDING"}
      BY StatusMapTerminal DEF Terminal
    <2>3. \A s \in Runners : Handling(s)'
      BY <2>1, <2>2
    <2>4. QED
      BY <2>1, <2>2, <2>3
  <1>9. ASSUME NEW r \in Runners, WriteLog(r) PROVE EffectInv'
    BY <1>9, NoneAssumption DEF WriteLog
  <1>10. ASSUME NEW r \in Runners, Crash(r) PROVE EffectInv'
    BY <1>10, AbortKeepsEffects DEF Crash
  <1>11. CASE UNCHANGED vars
    BY <1>11 DEF vars
  <1>12. QED
    BY <1>1, <1>2, <1>3, <1>4, <1>5, <1>6, <1>7, <1>8, <1>9, <1>10, <1>11 DEF Next, RunnerStep

LEMMA EffectInit == Init => EffectInv
  BY NoneAssumption
  DEF Init, EffectInv, AtMostOneEffectPerRunner, Handling, Unhandled, Fresh

(* However many runners overlap and however often they are killed, each    *)
(* changes the outside world at most once for an event.                    *)
THEOREM AtMostOneEffect == Spec => []AtMostOneEffectPerRunner
  <1>1. Init => TypeInv /\ EffectInv
    BY TypeInit, EffectInit
  <1>2. TypeInv /\ EffectInv /\ [Next]_vars => (TypeInv /\ EffectInv)'
    BY TypeStep, EffectStep
  <1>3. EffectInv => AtMostOneEffectPerRunner
    BY DEF EffectInv
  <1>4. QED
    BY <1>1, <1>2, <1>3, PTL DEF Spec
-----------------------------------------------------------------------------
(* The audit trail, for overlapping runners.                               *)

(* A step that gives no verdict, keeps the log and lets runners that are   *)
(* about to append go on keeps the audit trail complete.                   *)
LEMMA AuditStable ==
  ASSUME AuditCoversVerdicts,
         crashes' = crashes,
         \A e \in Events : status'[e] \in Terminal => status'[e] = status[e],
         log' = log,
         \A s \in Runners : pc[s] = "log" =>
           pc'[s] = "log" /\ cur'[s] = cur[s] /\ result'[s] = result[s]
  PROVE  AuditCoversVerdicts'
  <1> SUFFICES ASSUME crashes = 0, NEW e \in Events, status'[e] \in Terminal
               PROVE  AuditCoversVerdicts!2!(e)!2'
    BY DEF AuditCoversVerdicts
  <1>1. status'[e] = status[e] /\ status[e] \in Terminal
    OBVIOUS
  <1>2. CASE \E i \in DOMAIN log :
               log[i].event_id = e /\ StatusMap(log[i].execution_status) = status[e]
    BY <1>1, <1>2
  <1>3. CASE \E r \in Runners :
               pc[r] = "log" /\ cur[r] = e /\ StatusMap(result[r]) = status[e]
    BY <1>1, <1>3
  <1>4. QED
    BY <1>1, <1>2, <1>3 DEF AuditCoversVerdicts

LEMMA AuditStep == TypeInv /\ AuditCoversVerdicts /\ [Next]_vars => AuditCoversVerdicts'
  <1> SUFFICES ASSUME TypeInv, AuditCoversVerdicts, [Next]_vars PROVE AuditCoversVerdicts'
    OBVIOUS
  <1> USE DEF TypeInv, TypeOK, CurOK, AuditCoversVerdicts
  <1>1. ASSUME NEW e \in Events, Raise(e) PROVE AuditCoversVerdicts'
    BY <1>1 DEF Raise, Terminal
  <1>2. ASSUME NEW r \in Runners, Poll(r) PROVE AuditCoversVerdicts'
    <2>1. \A s \in Runners : pc[s] = "log" =>
            pc'[s] = "log" /\ cur'[s] = cur[s] /\ result'[s] = result[s]
      BY <1>2 DEF Poll, vars
    <2>2. UNCHANGED <<status, log, crashes>>
      BY <1>2 DEF Poll, vars
    <2>3. QED
      BY <2>1, <2>2, AuditStable
  <1>3. ASSUME NEW r \in Runners, Claim(r) PROVE AuditCoversVerdicts'
    <2>1. PICK e \in todo[r] : Claim(r)!2!(e)
      BY <1>3 DEF Claim
    <2>2. \A f \in Events : status'[f] \in Terminal => status'[f] = status[f]
      BY <2>1 DEF Terminal
    <2>3. \A s \in Runners : pc[s] = "log" => pc'[s] = "log" /\ cur'[s] = cur[s] /\ result'[s] = result[s]
      BY <1>3, <2>1 DEF Claim
    <2>4. QED
      BY <1>3, <2>2, <2>3, AuditStable DEF Claim
  <1>4. ASSUME NEW r \in Runners, ParseFailure(r) PROVE AuditCoversVerdicts'
    BY <1>4 DEF ParseFailure, AbortCycle
  <1>5. ASSUME NEW r \in Runners, CallPlanner(r) PROVE AuditCoversVerdicts'
    <2>1. \A s \in Runners : pc[s] = "log" =>
            pc'[s] = "log" /\ cur'[s] = cur[s] /\ result'[s] = result[s]
      BY <1>5 DEF CallPlanner
    <2>2. UNCHANGED <<status, log, crashes>>
      BY <1>5 DEF CallPlanner
    <2>3. QED
      BY <2>1, <2>2, AuditStable
  <1>6. ASSUME NEW r \in Runners, RuleBasedDispatch(r) PROVE AuditCoversVerdicts'
    <2>1. \A s \in Runners : pc[s] = "log" =>
            pc'[s] = "log" /\ cur'[s] = cur[s] /\ result'[s] = result[s]
      BY <1>6 DEF RuleBasedDispatch
    <2>2. UNCHANGED <<status, log, crashes>>
      BY <1>6 DEF RuleBasedDispatch
    <2>3. QED
      BY <2>1, <2>2, AuditStable
  <1>7. ASSUME NEW r \in Runners, Execute(r) PROVE AuditCoversVerdicts'
    <2>1. \A s \in Runners : pc[s] = "log" => pc'[s] = "log" /\ result'[s] = result[s]
      BY <1>7 DEF Execute
    <2>2. QED
      BY <1>7, <2>1, AuditStable DEF Execute
  <1>8. ASSUME NEW r \in Runners, UpdateEventStatus(r) PROVE AuditCoversVerdicts'
    <2>1. /\ cur[r] \in Events
          /\ status' = [status EXCEPT ![cur[r]] = StatusMap(result[r])]
          /\ pc'     = [pc EXCEPT ![r] = "log"]
          /\ UNCHANGED <<log, cur, result, crashes>>
      BY <1>8 DEF UpdateEventStatus
    <2>2. QED
      BY <2>1
  <1>9. ASSUME NEW r \in Runners, WriteLog(r) PROVE AuditCoversVerdicts'
    <2> DEFINE n == Len(log) + 1
    <2>1. /\ n \in DOMAIN log'
          /\ log'[n].event_id = cur[r]
          /\ log'[n].execution_status = result[r]
          /\ \A i \in DOMAIN log : i \in DOMAIN log' /\ log'[i] = log[i]
      BY <1>9 DEF WriteLog
    <2>2. \A s \in Runners \ {r} : pc'[s] = pc[s] /\ cur'[s] = cur[s] /\ result'[s] = result[s]
      BY <1>9 DEF WriteLog
    <2>3. status' = status /\ crashes' = crashes
      BY <1>9 DEF WriteLog
    <2> HIDE DEF n
    <2> SUFFICES ASSUME crashes = 0, NEW e \in Events, status[e] \in Terminal
                 PROVE  AuditCoversVerdicts!2!(e)!2'
      BY <2>3
    <2>4. CASE \E i \in DOMAIN log :
                 log[i].event_id = e /\ StatusMap(log[i].execution_status) = status[e]
      BY <2>1, <2>3, <2>4
    <2>5. CASE cur[r] = e /\ StatusMap(result[r]) = status[e]
      BY <2>1, <2>3, <2>5
    <2>6. CASE \E s \in Runners \ {r} :
                 pc[s] = "log" /\ cur[s] = e /\ StatusMap(result[s]) = status[e]
      BY <2>2, <2>3, <2>6
    <2>7. QED
      BY <2>4, <2>5, <2>6
  <1>10. ASSUME NEW r \in Runners, Crash(r) PROVE AuditCoversVerdicts'
    BY <1>10 DEF Crash
  <1>11. CASE UNCHANGED vars
    BY <1>11 DEF vars
  <1>12. QED
    BY <1>1, <1>2, <1>3, <1>4, <1>5, <1>6, <1>7, <1>8, <1>9, <1>10, <1>11 DEF Next, RunnerStep

(* While no cycle has been killed, every final status has its audit row or *)
(* a runner about to write it, for any number of overlapping runners.      *)
THEOREM VerdictsAreAudited == Spec => []AuditCoversVerdicts
  <1>1. Init => TypeInv /\ AuditCoversVerdicts
    BY TypeInit DEF Init, AuditCoversVerdicts, Terminal
  <1>2. TypeInv /\ AuditCoversVerdicts /\ [Next]_vars => (TypeInv /\ AuditCoversVerdicts)'
    BY TypeStep, AuditStep
  <1>3. QED
    BY <1>1, <1>2, PTL DEF Spec

-----------------------------------------------------------------------------
(* The deployed orchestrator: max_concurrent_runs = 1.                     *)

SoleRunner == \A r, s \in Runners : r = s

(***************************************************************************)
(* With one runner nobody touches a polled row before its turn, the        *)
(* current row has the status its phase implies, and it is not yet logged. *)
(***************************************************************************)
SoleInv ==
  /\ \A r \in Runners, e \in Events : e \in todo[r] => status[e] = "PENDING"
  /\ \A r \in Runners :
       /\ pc[r] \in {"plan", "execute", "settle"} => status[cur[r]] = "IN_PROGRESS"
       /\ pc[r] = "log" => status[cur[r]] = StatusMap(result[r])
       /\ \A i \in DOMAIN log : log[i].event_id # cur[r]
  /\ LogMatchesStatus
  /\ OneRowPerEvent

LEMMA LoggedEvents ==
  ASSUME TypeInv PROVE \A i \in DOMAIN log : log[i].event_id \in Events
  <1>1. SUFFICES ASSUME NEW i \in DOMAIN log PROVE log[i].event_id \in Events
    OBVIOUS
  <1>2. log \in Seq(OrchestratorLogEntry)
    BY DEF TypeInv, TypeOK
  <1>3. log[i] \in OrchestratorLogEntry
    BY <1>2
  <1>4. QED
    BY <1>3 DEF OrchestratorLogEntry

(* What the log says is final: a step that changes only the status of an   *)
(* event without a final one, and appends nothing, keeps log and status in *)
(* agreement.                                                              *)
LEMMA LogStable ==
  ASSUME TypeInv, LogMatchesStatus, OneRowPerEvent, log' = log,
         \A e \in Events : status[e] \in Terminal => status'[e] = status[e]
  PROVE  LogMatchesStatus' /\ OneRowPerEvent'
  <1>1. \A i \in DOMAIN log : log[i].event_id \in Events
    BY LoggedEvents
  <1>2. \A i \in DOMAIN log : status[log[i].event_id] \in Terminal
    BY StatusMapTerminal DEF LogMatchesStatus
  <1>3. QED
    BY <1>1, <1>2 DEF LogMatchesStatus, OneRowPerEvent

LEMMA SoleStep == SoleRunner /\ TypeInv /\ SoleInv /\ [Next]_vars =>
  SoleInv' /\ \A e \in Events : status[e] \in Terminal => status'[e] = status[e]
  <1> DEFINE Final == \A e \in Events : status[e] \in Terminal => status'[e] = status[e]
  <1> SUFFICES ASSUME SoleRunner, TypeInv, SoleInv, [Next]_vars PROVE SoleInv' /\ Final
    OBVIOUS
  <1>0. \A i \in DOMAIN log : log[i].event_id \in Events
    BY LoggedEvents
  <1> USE DEF TypeInv, TypeOK, CurOK, SoleInv, SoleRunner
  <1>a. ASSUME NEW r \in Runners, AbortCycle(r) PROVE SoleInv' /\ Final
    <2>1. LogMatchesStatus' /\ OneRowPerEvent'
      BY <1>a, LogStable DEF AbortCycle
    <2>2. QED
      BY <1>a, <1>0, <2>1, NoneAssumption DEF AbortCycle
  <1>1. ASSUME NEW e \in Events, Raise(e) PROVE SoleInv' /\ Final
    <2>1. Final
      BY <1>1 DEF Raise, Terminal
    <2>2. LogMatchesStatus' /\ OneRowPerEvent'
      BY <1>1, <2>1, LogStable DEF Raise
    <2>3. QED
      BY <1>1, <2>1, <2>2, StatusMapTerminal DEF Raise, Terminal
  <1>2. ASSUME NEW r \in Runners, Poll(r) PROVE SoleInv' /\ Final
    <2>1. LogMatchesStatus' /\ OneRowPerEvent'
      BY <1>2, LogStable DEF Poll, vars
    <2>2. CASE UNCHANGED vars
      BY <2>1, <2>2 DEF vars
    <2>3. CASE ~ UNCHANGED vars
      <3>1. PICK batch \in SUBSET Pending : todo' = [todo EXCEPT ![r] = batch]
        BY <1>2, <2>3 DEF Poll
      <3>2. QED
        BY <1>2, <2>1, <2>3, <3>1 DEF Poll, Pending
    <2>4. QED
      BY <2>2, <2>3
  <1>3. ASSUME NEW r \in Runners, Claim(r) PROVE SoleInv' /\ Final
    <2>1. PICK e \in todo[r] : Claim(r)!2!(e)
      BY <1>3 DEF Claim
    <2>2. /\ e \in Events /\ status[e] = "PENDING"
          /\ pc[r] = "next"
          /\ todo'   = [todo EXCEPT ![r] = @ \ {e}]
          /\ cur'    = [cur EXCEPT ![r] = e]
          /\ status' = [status EXCEPT ![e] = "IN_PROGRESS"]
          /\ pc' \in {[pc EXCEPT ![r] = "plan"], [pc EXCEPT ![r] = "settle"]}
          /\ log' = log
      BY <1>3, <2>1 DEF Claim
    <2>3. Final
      BY <2>2 DEF Terminal
    <2>4. LogMatchesStatus' /\ OneRowPerEvent'
      BY <2>2, <2>3, LogStable
    <2>5. \A i \in DOMAIN log : log[i].event_id # e
      <3>1. \A i \in DOMAIN log : status[log[i].event_id] \in Terminal
        BY StatusMapTerminal DEF LogMatchesStatus
      <3>2. QED
        BY <2>2, <3>1 DEF Terminal
    <2>6. QED
      BY <2>2, <2>3, <2>4, <2>5
  <1>4. ASSUME NEW r \in Runners, ParseFailure(r) PROVE SoleInv' /\ Final
    BY <1>4, <1>a DEF ParseFailure
  <1>5. ASSUME NEW r \in Runners, CallPlanner(r) PROVE SoleInv' /\ Final
    BY <1>5, LogStable DEF CallPlanner
  <1>6. ASSUME NEW r \in Runners, RuleBasedDispatch(r) PROVE SoleInv' /\ Final
    BY <1>6, LogStable DEF RuleBasedDispatch
  <1>7. ASSUME NEW r \in Runners, Execute(r) PROVE SoleInv' /\ Final
    BY <1>7, LogStable DEF Execute
  <1>8. ASSUME NEW r \in Runners, UpdateEventStatus(r) PROVE SoleInv' /\ Final
    <2>1. /\ cur[r] \in Events /\ status[cur[r]] = "IN_PROGRESS"
          /\ status' = [status EXCEPT ![cur[r]] = StatusMap(result[r])]
          /\ pc'     = [pc EXCEPT ![r] = "log"]
          /\ UNCHANGED <<log, todo, cur, result>>
      BY <1>8 DEF UpdateEventStatus
    <2>2. Final
      BY <2>1 DEF Terminal
    <2>3. LogMatchesStatus' /\ OneRowPerEvent'
      BY <2>1, <2>2, LogStable
    <2>4. QED
      BY <2>1, <2>2, <2>3
  <1>9. ASSUME NEW r \in Runners, WriteLog(r) PROVE SoleInv' /\ Final
    <2> DEFINE n == Len(log) + 1
    <2>1. /\ DOMAIN log' = DOMAIN log \cup {n}
          /\ n \notin DOMAIN log
          /\ log'[n].event_id = cur[r]
          /\ log'[n].execution_status = result[r]
          /\ \A i \in DOMAIN log : log'[i] = log[i]
      BY <1>9 DEF WriteLog
    <2>2. /\ cur[r] \in Events
          /\ status[cur[r]] = StatusMap(result[r])
          /\ \A i \in DOMAIN log : log[i].event_id # cur[r]
          /\ cur' = [cur EXCEPT ![r] = None]
          /\ pc' \in {[pc EXCEPT ![r] = "idle"], [pc EXCEPT ![r] = "next"]}
          /\ UNCHANGED <<status, todo>>
      BY <1>9 DEF WriteLog
    <2> HIDE DEF n
    <2>3. LogMatchesStatus'
      BY <2>1, <2>2 DEF LogMatchesStatus
    <2>4. OneRowPerEvent'
      BY <2>1, <2>2 DEF OneRowPerEvent
    <2>5. \A i \in DOMAIN log' : log'[i].event_id # None
      BY <1>0, <2>1, <2>2, NoneAssumption
    <2>6. QED
      BY <2>2, <2>3, <2>4, <2>5
  <1>10. ASSUME NEW r \in Runners, Crash(r) PROVE SoleInv' /\ Final
    BY <1>10, <1>a DEF Crash
  <1>11. CASE UNCHANGED vars
    BY <1>11, LogStable DEF vars
  <1>12. QED
    BY <1>1, <1>2, <1>3, <1>4, <1>5, <1>6, <1>7, <1>8, <1>9, <1>10, <1>11 DEF Next, RunnerStep

LEMMA SoleInit == Init => SoleInv
  BY NoneAssumption DEF Init, SoleInv, LogMatchesStatus, OneRowPerEvent

LEMMA SoleInvariant == ASSUME SoleRunner PROVE Spec => [](TypeInv /\ SoleInv)
  <1>1. Init => TypeInv /\ SoleInv
    BY TypeInit, SoleInit
  <1>2. TypeInv /\ SoleInv /\ [Next]_vars => (TypeInv /\ SoleInv)'
    BY TypeStep, SoleStep
  <1>3. QED
    BY <1>1, <1>2, PTL DEF Spec

(* One runner: the log has at most one row per event.                      *)
THEOREM SoleRunnerLogsOnce == ASSUME SoleRunner PROVE Spec => []OneRowPerEvent
  <1>1. SoleInv => OneRowPerEvent
    BY DEF SoleInv
  <1>2. QED
    BY <1>1, SoleInvariant, PTL

(* One runner: the log and the queue agree on every logged event, although *)
(* the cycle can be killed between the two writes.                         *)
THEOREM SoleRunnerTablesAgree == ASSUME SoleRunner PROVE Spec => []LogMatchesStatus
  <1>1. SoleInv => LogMatchesStatus
    BY DEF SoleInv
  <1>2. QED
    BY <1>1, SoleInvariant, PTL

(* One runner: no poll, retry or restart revises a final status.           *)
THEOREM SoleRunnerVerdictIsFinal == ASSUME SoleRunner PROVE Spec => VerdictIsFinal
  <1>1. TypeInv /\ SoleInv /\ [Next]_vars =>
          [\A e \in Events : status[e] \in Terminal => status'[e] = status[e]]_vars
    BY SoleStep
  <1>2. QED
    BY <1>1, SoleInvariant, PTL DEF Spec, VerdictIsFinal
-----------------------------------------------------------------------------
(* One runner implements the at-most-once queue of EventQueue.             *)

performed == {e \in Events : \E r \in Runners : effects[r][e] > 0}
audited   == {log[i].event_id : i \in DOMAIN log}

LEMMA QueueStep ==
  SoleRunner /\ TypeInv /\ EffectInv /\ SoleInv /\ [Next]_vars => [Queue!Next]_(Queue!vars)
  <1> DEFINE Goal == [Queue!Next]_(Queue!vars)
             Same == status' = status /\ performed' = performed /\ audited' = audited
  <1> SUFFICES ASSUME SoleRunner, TypeInv, EffectInv, SoleInv, [Next]_vars PROVE Goal
    OBVIOUS
  <1> USE DEF SoleRunner
  <1>a. ASSUME Same PROVE Goal
    BY <1>a DEF Queue!vars, performed, audited
  <1>b. ASSUME effects' = effects PROVE performed' = performed
    BY <1>b DEF performed
  <1>c. ASSUME log' = log PROVE audited' = audited
    BY <1>c DEF audited
  <1>d. ASSUME UNCHANGED <<status, effects, log>> PROVE Goal
    BY <1>a, <1>b, <1>c, <1>d
  <1>1. ASSUME NEW e \in Events, Raise(e) PROVE Goal
    <2>1. Queue!Raise(e)
      BY <1>1, <1>b, <1>c DEF Raise, Queue!Raise, Queue!Move, performed, audited
    <2>2. QED
      BY <2>1 DEF Queue!Next
  <1>2. ASSUME NEW r \in Runners, Poll(r) PROVE Goal
    BY <1>2, <1>d DEF Poll, vars
  <1>3. ASSUME NEW r \in Runners, Claim(r) PROVE Goal
    <2>1. PICK e \in todo[r] : Claim(r)!2!(e)
      BY <1>3 DEF Claim
    <2>2. e \in Events /\ status[e] = "PENDING"
      BY DEF TypeInv, TypeOK, SoleInv
    <2>3. status' = [status EXCEPT ![e] = "IN_PROGRESS"] /\ UNCHANGED <<log, effects>>
      BY <1>3, <2>1 DEF Claim
    <2>4. Queue!Take(e)
      BY <2>2, <2>3, <1>b, <1>c DEF Queue!Take, Queue!Move, performed, audited
    <2>5. QED
      BY <2>2, <2>4 DEF Queue!Next
  <1>4. ASSUME NEW r \in Runners, ParseFailure(r) PROVE Goal
    BY <1>4, <1>d DEF ParseFailure, AbortCycle
  <1>5. ASSUME NEW r \in Runners, CallPlanner(r) PROVE Goal
    BY <1>5, <1>d DEF CallPlanner
  <1>6. ASSUME NEW r \in Runners, RuleBasedDispatch(r) PROVE Goal
    BY <1>6, <1>d DEF RuleBasedDispatch
  <1>7. ASSUME NEW r \in Runners, Execute(r) PROVE Goal
    <2>1. PICK out \in Outcomes(plan[r].chosen_agent, client[r]) : Execute(r)!2!(out)
      BY <1>7 DEF Execute
    <2>2. out.made \in {0, 1}
      BY OutcomeType DEF TypeInv, TypeOK, RoutingPlan
    <2>3. /\ cur[r] \in Events
          /\ status[cur[r]] = "IN_PROGRESS"
          /\ effects[r][cur[r]] = 0
          /\ UNCHANGED <<status, log>>
      BY <1>7 DEF Execute, TypeInv, CurOK, SoleInv, EffectInv, Handling
    <2>4. effects' = [effects EXCEPT ![r][cur[r]] = 0 + out.made]
      BY <2>1, <2>3
    <2>5. effects \in [Runners -> [Events -> Nat]]
      BY DEF TypeInv, TypeOK
    <2>6. cur[r] \notin performed
      BY <2>3 DEF performed
    <2>7. CASE out.made = 0
      <3>1. effects' = effects
        BY <2>3, <2>4, <2>5, <2>7
      <3>2. QED
        BY <3>1, <2>3, <1>d
    <2>8. CASE out.made = 1
      <3>1. performed' = performed \cup {cur[r]}
        BY <2>3, <2>4, <2>5, <2>8 DEF performed
      <3>2. PICK e \in Events : e = cur[r]
        BY <2>3
      <3>3. Queue!Perform(e)
        BY <2>3, <2>6, <3>1, <3>2, <1>c DEF Queue!Perform, performed, audited
      <3>4. QED
        BY <3>3 DEF Queue!Next
    <2>9. QED
      BY <2>2, <2>7, <2>8
  <1>8. ASSUME NEW r \in Runners, UpdateEventStatus(r) PROVE Goal
    <2>1. /\ cur[r] \in Events
          /\ status[cur[r]] = "IN_PROGRESS"
          /\ status' = [status EXCEPT ![cur[r]] = StatusMap(result[r])]
          /\ UNCHANGED <<log, effects>>
      BY <1>8 DEF UpdateEventStatus, TypeInv, CurOK, SoleInv
    <2>2. StatusMap(result[r]) \in Queue!Verdicts
      BY StatusMapTerminal DEF Terminal, Queue!Verdicts
    <2>3. PICK e \in Events : e = cur[r]
      BY <2>1
    <2>4. Queue!Settle(e)
      BY <2>1, <2>2, <2>3, <1>b, <1>c DEF Queue!Settle, Queue!Move, performed, audited
    <2>5. QED
      BY <2>4 DEF Queue!Next
  <1>9. ASSUME NEW r \in Runners, WriteLog(r) PROVE Goal
    <2> DEFINE n == Len(log) + 1
    <2>1. log \in Seq(OrchestratorLogEntry)
      BY DEF TypeInv, TypeOK
    <2>2. /\ DOMAIN log' = DOMAIN log \cup {n}
          /\ log'[n].event_id = cur[r]
          /\ \A i \in DOMAIN log : log'[i] = log[i]
      BY <1>9, <2>1 DEF WriteLog
    <2>3. /\ cur[r] \in Events
          /\ status[cur[r]] = StatusMap(result[r])
          /\ \A i \in DOMAIN log : log[i].event_id # cur[r]
          /\ UNCHANGED <<status, effects>>
      BY <1>9 DEF WriteLog, TypeInv, CurOK, SoleInv
    <2>4. status[cur[r]] \in Queue!Verdicts
      BY <2>3, StatusMapTerminal DEF Terminal, Queue!Verdicts
    <2> HIDE DEF n
    <2>5. audited' = audited \cup {cur[r]} /\ cur[r] \notin audited
      BY <2>2, <2>3 DEF audited
    <2>6. PICK e \in Events : e = cur[r]
      BY <2>3
    <2>7. Queue!Audit(e)
      BY <2>3, <2>4, <2>5, <2>6, <1>b DEF Queue!Audit, performed, audited
    <2>8. QED
      BY <2>7 DEF Queue!Next
  <1>10. ASSUME NEW r \in Runners, Crash(r) PROVE Goal
    BY <1>10, <1>d DEF Crash, AbortCycle
  <1>11. CASE UNCHANGED vars
    BY <1>11, <1>d DEF vars
  <1>12. QED
    BY <1>1, <1>2, <1>3, <1>4, <1>5, <1>6, <1>7, <1>8, <1>9, <1>10, <1>11 DEF Next, RunnerStep

(* A single runner, killed and restarted any number of times, implements   *)
(* the at-most-once event queue.                                           *)
THEOREM SoleRunnerImplementsQueue == ASSUME SoleRunner PROVE Spec => ImplementsEventQueue
  <1>1. Init => Queue!Init
    BY DEF Init, Queue!Init
  <1>2. Init => TypeInv /\ EffectInv /\ SoleInv
    BY TypeInit, EffectInit, SoleInit
  <1>3. TypeInv /\ EffectInv /\ SoleInv /\ [Next]_vars => (TypeInv /\ EffectInv /\ SoleInv)'
    BY TypeStep, EffectStep, SoleStep
  <1>4. TypeInv /\ EffectInv /\ SoleInv /\ [Next]_vars => [Queue!Next]_(Queue!vars)
    BY QueueStep
  <1>5. QED
    BY <1>1, <1>2, <1>3, <1>4, PTL DEF Spec, ImplementsEventQueue, Queue!Spec
=============================================================================
