----------------------------- MODULE GdprProofs -----------------------------
(***************************************************************************)
(* Safety of GdprErasure for every registry, every set of jobs that copy   *)
(* between its tables, and every number of requests, failures and copies.  *)
(***************************************************************************)
EXTENDS GdprErasure, TLAPS

Working == {"check", "count", "erase", "vacuum"}

(* A pipeline carries rows along one of its edges.                         *)
PipeOK ==
  \A c \in pipe :
    /\ c.from \in Tables /\ c.to \in Tables /\ <<c.from, c.to>> \in Feeds
    /\ c.keyed \in SUBSET Subjects /\ c.plain \in SUBSET c.keyed

(* Subjects still to process are of the request, and not the one in hand.  *)
TodoOK == pc # "idle" => todo \subseteq request.subjects /\ subject \notin todo

TypeInv == TypeOK /\ PipeOK /\ TodoOK

(* What the agent has cleared is behind it: nothing yet for the subjects   *)
(* to come, and for the one in hand only tables before its position.       *)
Behind(t) ==
  \E i \in DOMAIN Registry :
    Registry[i] = t /\ (i < at \/ (i = at /\ pc = "vacuum"))

WalkInv ==
  pc # "idle" =>
    /\ \A s \in todo : cleared[s] = {}
    /\ pc \in Working => \A t \in cleared[subject] : Behind(t)

(* Only what was cleared is purged, and not before its VACUUM.             *)
PurgeInv ==
  /\ \A s \in Subjects : purged[s] \subseteq cleared[s]
  /\ pc = "vacuum" => Table \in cleared[subject] \ purged[subject]

SafeInv == TypeInv /\ WalkInv /\ PurgeInv /\ ErasedStaysErased /\ PurgedStaysPurged

(* Between check and erasure no own basis is in force but a new one.       *)
BasisInv ==
  /\ valid \subseteq Bases
  /\ pc \in {"count", "erase"} =>
       blind \/ \A e \in valid : Covers(e, subject, Table) => e \in fresh

-----------------------------------------------------------------------------
(* The registry position in hand is a table.                               *)
LEMMA TableInHand ==
  ASSUME TypeOK PROVE Table \in Tables
  BY RegistryAssumption DEF TypeOK, Table

(* Where an entry's report leads.                                          *)
LEMMA ReportLeads ==
  ASSUME NEW a, TypeInv, pc \in Working, Report(a)
  PROVE  /\ request' = request
         /\ \/ at' = at + 1 /\ at' \in 1..Len(Registry) /\ pc' = "check"
               /\ subject' = subject /\ todo' = todo
            \/ at' = 1 /\ pc' = "check" /\ subject' \in todo /\ todo' = todo \ {subject'}
            \/ at' = at /\ pc' = "log" /\ subject' = subject /\ todo' = todo
  <1>1. Len(Registry) \in Nat /\ at \in 1..Len(Registry)
    BY RegistryAssumption DEF TypeInv, TypeOK
  <1>2. CASE at < Len(Registry)
    BY <1>1, <1>2 DEF Report
  <1>3. CASE ~(at < Len(Registry)) /\ todo # {}
    BY <1>1, <1>3 DEF Report
  <1>4. CASE ~(at < Len(Registry)) /\ todo = {}
    BY <1>1, <1>4 DEF Report
  <1>5. QED
    BY <1>2, <1>3, <1>4

(* ... and what it keeps: the agent's part of the type invariant.          *)
LEMMA ReportKeepsTypes ==
  ASSUME NEW a, TypeInv, pc \in Working, Report(a)
  PROVE  /\ pc' \in {"check", "log"}
         /\ request' \in Requests /\ subject' \in request'.subjects
         /\ todo' \subseteq Subjects /\ at' \in 1..Len(Registry)
         /\ todo' \subseteq request'.subjects /\ subject' \notin todo'
  <1>1. /\ request \in Requests /\ subject \in request.subjects
        /\ todo \subseteq request.subjects /\ subject \notin todo
        /\ todo \subseteq Subjects /\ at \in 1..Len(Registry)
    BY DEF TypeInv, TypeOK, TodoOK, Working
  <1>2. 1 \in 1..Len(Registry)
    BY RegistryAssumption
  <1>3. QED
    BY <1>1, <1>2, ReportLeads

(* Unchanged parts keep theirs.                                            *)
TableTypes ==
  /\ keyed \in [Tables -> SUBSET Subjects] /\ plain \in [Tables -> SUBSET Subjects]
  /\ recent \in [Tables -> SUBSET Subjects] /\ aged \in [Tables -> SUBSET Subjects]
  /\ \A t \in Tables : plain[t] \subseteq keyed[t]

AgentTypes ==
  /\ pc \in {"idle", "check", "count", "erase", "vacuum", "log"}
  /\ pc # "idle" => request \in Requests /\ subject \in request.subjects
  /\ todo \subseteq Subjects /\ at \in 1..Len(Registry)
  /\ TodoOK

HistoryTypes ==
  cleared \in [Subjects -> SUBSET Tables] /\ purged \in [Subjects -> SUBSET Tables]

LEMMA TypeParts ==
  TypeInv <=> TableTypes /\ PipeOK /\ AgentTypes /\ HistoryTypes /\ sweep \in DOMAIN Maintained
  BY DEF TypeInv, TypeOK, TableTypes, AgentTypes, HistoryTypes

LEMMA SubjectInHand ==
  ASSUME TypeInv, pc # "idle" PROVE subject \in Subjects
  BY RequestAssumption DEF TypeInv, TypeOK

LEMMA ErasingKeepsTables ==
  ASSUME TypeInv, pc = "erase", EraseRows PROVE TableTypes'
  <1>1. Table \in Tables /\ subject \in Subjects
    BY TableInHand, SubjectInHand DEF TypeInv
  <1>2. keyed' \in [Tables -> SUBSET Subjects] /\ plain' \in [Tables -> SUBSET Subjects]
    BY <1>1 DEF TypeInv, TypeOK, EraseRows, Hashed
  <1>3. recent' \in [Tables -> SUBSET Subjects] /\ aged' \in [Tables -> SUBSET Subjects]
    BY <1>1 DEF TypeInv, TypeOK, EraseRows
  <1>4. \A t \in Tables : plain'[t] \subseteq keyed'[t]
    BY <1>1 DEF TypeInv, TypeOK, EraseRows, Hashed
  <1>5. QED
    BY <1>2, <1>3, <1>4 DEF TableTypes

-----------------------------------------------------------------------------
LEMMA TypeInit == Init => TypeInv
  <1>1. 1 \in 1..Len(Registry) /\ 1 \in DOMAIN Maintained
    BY RegistryAssumption
  <1>2. QED
    BY <1>1, RegistryAssumption
       DEF Init, TypeInv, TypeOK, PipeOK, TodoOK

LEMMA TypeStep ==
  ASSUME TypeInv, [Next]_vars PROVE TypeInv'
  <1>1. ASSUME NEW r \in Requests, Start(r) PROVE TypeInv'
    <2>1. PICK s \in r.subjects : subject' = s /\ todo' = r.subjects \ {s}
      BY <1>1 DEF Start
    <2>2. r.subjects \subseteq Subjects
      BY RequestAssumption
    <2>3. AgentTypes'
      BY <1>1, <2>1, <2>2, RegistryAssumption DEF Start, AgentTypes, TodoOK
    <2>4. HistoryTypes' /\ TableTypes' /\ PipeOK' /\ sweep' \in DOMAIN Maintained
      BY <1>1, TypeParts DEF Start, data, HistoryTypes, TableTypes, PipeOK
    <2>5. QED
      BY <2>3, <2>4, TypeParts DEF TypeInv, TypeOK, TableTypes, AgentTypes, HistoryTypes
  <1>2. ASSUME Check PROVE TypeInv'
    <2>1. TableTypes' /\ PipeOK' /\ HistoryTypes' /\ sweep' \in DOMAIN Maintained
      BY <1>2, TypeParts DEF Check, data, history, TableTypes, PipeOK, HistoryTypes
    <2>2. AgentTypes'
      <3>1. ASSUME NEW a, Report(a) PROVE AgentTypes'
        BY <1>2, <3>1, ReportKeepsTypes DEF Check, Working, AgentTypes, TodoOK
      <3>2. CASE pc' = "count" /\ UNCHANGED walk
        BY <1>2, <3>2, TypeParts DEF Check, AgentTypes, TodoOK, walk
      <3>3. QED
        BY <1>2, <3>1, <3>2 DEF Check
    <2>3. QED
      BY <2>1, <2>2 DEF TypeInv, TypeOK, TableTypes, AgentTypes, HistoryTypes
  <1>3. ASSUME Count PROVE TypeInv'
    <2>1. TableTypes' /\ PipeOK' /\ sweep' \in DOMAIN Maintained
      BY <1>3, TypeParts DEF Count, data, TableTypes, PipeOK
    <2>2. HistoryTypes'
      <3>1. Table \in Tables
        BY <1>3, TableInHand DEF Count, TypeInv
      <3>2. HistoryTypes
        BY TypeParts
      <3>3. QED
        BY <1>3, <3>1, <3>2 DEF Count, HistoryTypes
    <2>3. AgentTypes'
      <3>1. ASSUME NEW a, Report(a) PROVE AgentTypes'
        BY <1>3, <3>1, ReportKeepsTypes DEF Count, Working, AgentTypes, TodoOK
      <3>2. CASE pc' = "erase" /\ UNCHANGED walk
        BY <1>3, <3>2, TypeParts DEF Count, AgentTypes, TodoOK, walk
      <3>3. QED
        BY <1>3, <3>1, <3>2 DEF Count
    <2>4. QED
      BY <2>1, <2>2, <2>3 DEF TypeInv, TypeOK, TableTypes, AgentTypes, HistoryTypes
  <1>4. ASSUME Erase PROVE TypeInv'
    <2>1. TableTypes'
      BY <1>4, ErasingKeepsTables DEF Erase
    <2>2. PipeOK' /\ sweep' \in DOMAIN Maintained
      BY <1>4, TypeParts DEF Erase, PipeOK
    <2>3. HistoryTypes'
      BY <1>4, TypeParts, TableInHand DEF Erase, HistoryTypes, TypeInv
    <2>4. AgentTypes'
      BY <1>4, TypeParts DEF Erase, AgentTypes, TodoOK, walk
    <2>5. QED
      BY <2>1, <2>2, <2>3, <2>4 DEF TypeInv, TypeOK, TableTypes, AgentTypes, HistoryTypes
  <1>5. ASSUME Vacuum PROVE TypeInv'
    <2>1. TableTypes' /\ PipeOK' /\ sweep' \in DOMAIN Maintained
      BY <1>5, TypeParts DEF Vacuum, TableTypes, PipeOK
    <2>2. HistoryTypes'
      BY <1>5, TypeParts, TableInHand DEF Vacuum, HistoryTypes, TypeInv
    <2>3. AgentTypes'
      BY <1>5, ReportKeepsTypes DEF Vacuum, Working, AgentTypes, TodoOK
    <2>4. QED
      BY <2>1, <2>2, <2>3 DEF TypeInv, TypeOK, TableTypes, AgentTypes, HistoryTypes
  <1>6. ASSUME Fail PROVE TypeInv'
    <2>1. TableTypes'
      BY <1>6, TypeParts, ErasingKeepsTables DEF Fail, data, TableTypes
    <2>2. PipeOK' /\ HistoryTypes' /\ sweep' \in DOMAIN Maintained
      BY <1>6, TypeParts DEF Fail, history, PipeOK, HistoryTypes
    <2>3. AgentTypes'
      BY <1>6, ReportKeepsTypes DEF Fail, Working, AgentTypes, TodoOK
    <2>4. QED
      BY <2>1, <2>2, <2>3 DEF TypeInv, TypeOK, TableTypes, AgentTypes, HistoryTypes
  <1>7. ASSUME WriteLog \/ Crash PROVE TypeInv'
    <2>1. TableTypes' /\ PipeOK' /\ HistoryTypes' /\ sweep' \in DOMAIN Maintained
      BY <1>7, TypeParts DEF WriteLog, Crash, data, history, TableTypes, PipeOK, HistoryTypes
    <2>2. End /\ 1 \in 1..Len(Registry)
      BY <1>7, RegistryAssumption DEF WriteLog, Crash
    <2>3. AgentTypes'
      BY <2>2 DEF End, AgentTypes, TodoOK
    <2>4. QED
      BY <2>1, <2>3 DEF TypeInv, TypeOK, TableTypes, AgentTypes, HistoryTypes
  <1>8. ASSUME UNCHANGED <<agent, history>> PROVE AgentTypes' /\ HistoryTypes'
    BY <1>8, TypeParts DEF agent, walk, history, AgentTypes, TodoOK, HistoryTypes
  <1>9. ASSUME NEW e \in Bases, RegisterBasis(e) \/ ExpireBasis(e) PROVE TypeInv'
    BY <1>9, <1>8, TypeParts
       DEF RegisterBasis, ExpireBasis, data, TableTypes, PipeOK, TypeInv, TypeOK, AgentTypes, HistoryTypes
  <1>10. ASSUME NEW s \in Subjects, NEW t \in Tables, Ingest(s, t) PROVE TypeInv'
    <2>1. TableTypes'
      BY <1>10, TypeParts DEF Ingest, TableTypes
    <2>2. PipeOK' /\ AgentTypes' /\ HistoryTypes' /\ sweep' \in DOMAIN Maintained
      BY <1>10, TypeParts DEF Ingest, agent, walk, PipeOK, AgentTypes, TodoOK, HistoryTypes
    <2>3. QED
      BY <2>1, <2>2 DEF TypeInv, TypeOK, TableTypes, AgentTypes, HistoryTypes
  <1>11. ASSUME NEW edge \in Feeds, BeginCopy(edge[1], edge[2]) PROVE TypeInv'
    <2>1. edge[1] \in Tables /\ edge[2] \in Tables /\ edge = <<edge[1], edge[2]>>
      BY RegistryAssumption
    <2>2. PICK S \in (SUBSET keyed[edge[1]]) \ {{}} :
            pipe' = {[from |-> edge[1], to |-> edge[2], keyed |-> S,
                      plain |-> S \cap plain[edge[1]]]}
      BY <1>11 DEF BeginCopy
    <2>3. S \subseteq Subjects
      BY <2>1 DEF TypeInv, TypeOK
    <2>4. PipeOK'
      BY <2>1, <2>2, <2>3 DEF PipeOK
    <2>5. TableTypes' /\ AgentTypes' /\ HistoryTypes' /\ sweep' \in DOMAIN Maintained
      BY <1>11, <1>8, TypeParts DEF BeginCopy, data, TableTypes
    <2>6. QED
      BY <2>4, <2>5 DEF TypeInv, TypeOK, TableTypes, AgentTypes, HistoryTypes
  <1>12. ASSUME EndCopy PROVE TypeInv'
    <2>1. PICK c \in pipe : EndCopy!(c)
      BY <1>12 DEF EndCopy
    <2>2. /\ c.to \in Tables
          /\ c.keyed \in SUBSET Subjects /\ c.plain \in SUBSET c.keyed
      BY DEF TypeInv, PipeOK
    <2>3. TableTypes'
      BY <2>1, <2>2, TypeParts DEF TableTypes
    <2>4. PipeOK' /\ AgentTypes' /\ HistoryTypes' /\ sweep' \in DOMAIN Maintained
      BY <2>1, TypeParts DEF agent, walk, PipeOK, AgentTypes, TodoOK, HistoryTypes
    <2>5. QED
      BY <2>3, <2>4 DEF TypeInv, TypeOK, TableTypes, AgentTypes, HistoryTypes
  <1>13. ASSUME AbortCopy \/ SweepFails PROVE TypeInv'
    <2>1. UNCHANGED <<agent, history>> /\ UNCHANGED data
      BY <1>13 DEF AbortCopy, SweepFails
    <2>2. TableTypes' /\ AgentTypes' /\ HistoryTypes'
      BY <2>1, <1>8, TypeParts DEF data, TableTypes
    <2>3. 1 \in DOMAIN Maintained
      BY RegistryAssumption
    <2>4. PipeOK'
      BY <1>13, TypeParts DEF AbortCopy, SweepFails, PipeOK
    <2>5. sweep' \in DOMAIN Maintained
      BY <1>13, <2>3, TypeParts DEF AbortCopy, SweepFails
    <2>6. QED
      BY <2>2, <2>4, <2>5 DEF TypeInv, TypeOK, TableTypes, AgentTypes, HistoryTypes
  <1>14. ASSUME NEW t \in Tables, Age(t) PROVE TypeInv'
    <2>1. TableTypes'
      BY <1>14, TypeParts DEF Age, TableTypes
    <2>2. PipeOK' /\ AgentTypes' /\ HistoryTypes' /\ sweep' \in DOMAIN Maintained
      BY <1>14, <1>8, TypeParts DEF Age, PipeOK
    <2>3. QED
      BY <2>1, <2>2 DEF TypeInv, TypeOK, TableTypes, AgentTypes, HistoryTypes
  <1>15. ASSUME SweepTable PROVE TypeInv'
    <2>1. TableTypes'
      BY <1>15, TypeParts DEF SweepTable, TableTypes
    <2>2. PipeOK' /\ AgentTypes' /\ HistoryTypes'
      BY <1>15, <1>8, TypeParts DEF SweepTable, PipeOK
    <2>3. sweep' \in DOMAIN Maintained
      BY <1>15, RegistryAssumption DEF SweepTable, TypeInv, TypeOK
    <2>4. QED
      BY <2>1, <2>2, <2>3 DEF TypeInv, TypeOK, TableTypes, AgentTypes, HistoryTypes
  <1>16. CASE UNCHANGED vars
    BY <1>8, <1>16, TypeParts
       DEF vars, data, TableTypes, PipeOK, TypeInv, TypeOK, AgentTypes, HistoryTypes
  <1>17. QED
    BY <1>1, <1>2, <1>3, <1>4, <1>5, <1>6, <1>7, <1>9, <1>10, <1>11, <1>12,
       <1>13, <1>14, <1>15, <1>16
       DEF Next, AgentStep, Others

(* The tables, the agent's local state and the history are well typed, a   *)
(* row in clear is found under its subject, and a subject is in hand while *)
(* a request runs.                                                         *)
THEOREM TypeCorrect == Spec => [](TypeOK /\ PipeOK /\ TodoOK)
  <1>1. TypeInv /\ [Next]_vars => TypeInv'
    BY TypeStep
  <1>2. TypeInv => TypeOK /\ PipeOK /\ TodoOK
    BY DEF TypeInv
  <1>3. QED
    BY TypeInit, <1>1, <1>2, PTL DEF Spec

-----------------------------------------------------------------------------
(* The walk only moves forward.                                            *)

Clears == cleared' = [cleared EXCEPT ![subject] = @ \cup {Table}]

LEMMA NotYetCleared ==
  ASSUME TypeInv, WalkInv, pc \in {"check", "count", "erase"}
  PROVE  Table \notin cleared[subject]
  <1>1. SUFFICES ASSUME Table \in cleared[subject] PROVE FALSE
    OBVIOUS
  <1>2. PICK i \in DOMAIN Registry : Registry[i] = Table /\ i < at
    BY <1>1 DEF WalkInv, Behind, Working
  <1>3. at \in DOMAIN Registry
    BY RegistryAssumption DEF TypeInv, TypeOK
  <1>4. i = at
    BY <1>2, <1>3, RegistryAssumption DEF Table
  <1>5. QED
    BY <1>2, <1>3, <1>4, RegistryAssumption

LEMMA ReportKeepsWalk ==
  ASSUME NEW a, TypeInv, WalkInv, pc \in Working, Report(a), cleared' = cleared \/ Clears
  PROVE  WalkInv'
  <1>1. /\ subject \in Subjects /\ subject \notin todo /\ todo \subseteq Subjects
        /\ at \in DOMAIN Registry /\ DOMAIN Registry \subseteq Nat
        /\ cleared \in [Subjects -> SUBSET Tables]
    BY SubjectInHand, RegistryAssumption DEF TypeInv, TypeOK, TodoOK, Working
  <1>2. \A s \in todo : cleared'[s] = {}
    BY <1>1 DEF WalkInv, Clears, Working
  <1>3. \A t \in cleared'[subject] :
          \E i \in DOMAIN Registry : Registry[i] = t /\ i < at + 1
    <2>1. SUFFICES ASSUME NEW t \in cleared'[subject]
                   PROVE  \E i \in DOMAIN Registry : Registry[i] = t /\ i < at + 1
      OBVIOUS
    <2>2. CASE t \in cleared[subject]
      BY <1>1, <2>2 DEF WalkInv, Behind, Working
    <2>3. CASE t = Table
      BY <1>1, <2>3 DEF Table
    <2>4. QED
      BY <1>1, <2>2, <2>3 DEF Clears
  <1>4. CASE at' = at + 1 /\ subject' = subject /\ todo' = todo
    BY <1>2, <1>3, <1>4 DEF WalkInv, Behind
  <1>5. CASE at' = 1 /\ subject' \in todo /\ todo' = todo \ {subject'}
    BY <1>2, <1>5 DEF WalkInv, Behind
  <1>6. CASE pc' = "log" /\ todo' = todo
    BY <1>2, <1>6 DEF WalkInv, Working
  <1>7. QED
    BY <1>4, <1>5, <1>6, ReportLeads

LEMMA WalkStep ==
  ASSUME TypeInv, WalkInv, [Next]_vars PROVE WalkInv'
  <1>1. ASSUME NEW r \in Requests, Start(r) PROVE WalkInv'
    <2>1. PICK s \in r.subjects : subject' = s /\ todo' = r.subjects \ {s}
      BY <1>1 DEF Start
    <2>2. r.subjects \subseteq Subjects
      BY RequestAssumption
    <2>3. QED
      BY <1>1, <2>1, <2>2 DEF Start, WalkInv
  <1>2. ASSUME Check PROVE WalkInv'
    <2>1. ASSUME NEW a, Report(a) PROVE WalkInv'
      BY <1>2, <2>1, ReportKeepsWalk DEF Check, Working, history
    <2>2. CASE pc' = "count" /\ UNCHANGED walk
      BY <1>2, <2>2 DEF Check, WalkInv, Behind, Working, walk, history
    <2>3. QED
      BY <1>2, <2>1, <2>2 DEF Check
  <1>3. ASSUME Count PROVE WalkInv'
    <2>1. ASSUME NEW a, Report(a), cleared' = cleared \/ Clears PROVE WalkInv'
      BY <1>3, <2>1, ReportKeepsWalk DEF Count, Working
    <2>2. CASE pc' = "erase" /\ UNCHANGED <<walk, cleared>>
      BY <1>3, <2>2 DEF Count, WalkInv, Behind, Working, walk
    <2>3. QED
      BY <1>3, <2>1, <2>2 DEF Count, Clears
  <1>4. ASSUME Erase PROVE WalkInv'
    <2>1. /\ subject \in Subjects /\ subject \notin todo /\ todo \subseteq Subjects
          /\ at \in DOMAIN Registry /\ cleared \in [Subjects -> SUBSET Tables]
      BY <1>4, SubjectInHand, RegistryAssumption DEF Erase, TypeInv, TypeOK, TodoOK
    <2>2. UNCHANGED walk /\ pc = "erase" /\ pc' = "vacuum" /\ Clears
      BY <1>4 DEF Erase, Clears
    <2>3. \A s \in todo' : cleared'[s] = {}
      BY <2>1, <2>2 DEF WalkInv, Clears, walk
    <2>4. \A t \in cleared'[subject'] : Behind(t)'
      BY <2>1, <2>2 DEF WalkInv, Behind, Working, Clears, Table, walk
    <2>5. QED
      BY <2>3, <2>4 DEF WalkInv
  <1>5. ASSUME Vacuum \/ Fail PROVE WalkInv'
    BY <1>5, ReportKeepsWalk DEF Vacuum, Fail, Working, history
  <1>6. ASSUME WriteLog \/ Crash PROVE WalkInv'
    BY <1>6 DEF WriteLog, Crash, End, WalkInv
  <1>7. ASSUME UNCHANGED <<pc, walk, cleared>> PROVE WalkInv'
    BY <1>7 DEF walk, WalkInv, Behind, Working
  <1>8. ASSUME Others \/ (\E t \in Tables : Age(t)) \/ SweepTable \/ UNCHANGED vars
        PROVE  UNCHANGED <<pc, walk, cleared>>
    BY <1>8 DEF Others, RegisterBasis, ExpireBasis, Ingest, BeginCopy, EndCopy, AbortCopy,
                SweepFails, Age, SweepTable, vars, agent, history
  <1>9. QED
    BY <1>1, <1>2, <1>3, <1>4, <1>5, <1>6, <1>7, <1>8 DEF Next, AgentStep

-----------------------------------------------------------------------------
(* Clearing a table takes no excuse away from the tables cleared before:   *)
(* none of them feeds from it, or it comes later in the registry.          *)
LEMMA ExcusesLast ==
  ASSUME TypeInv, WalkInv, pc \in {"count", "erase"}, Clears,
         UNCHANGED <<overtaken, returned>>,
         NEW s \in Subjects, NEW t \in cleared[s], Excused(s, t)
  PROVE  Excused(s, t)'
  <1>1. /\ subject \in Subjects /\ cleared \in [Subjects -> SUBSET Tables]
        /\ at \in DOMAIN Registry /\ DOMAIN Registry \subseteq Nat
    BY SubjectInHand, RegistryAssumption DEF TypeInv, TypeOK
  <1>2. CASE s \in overtaken \cup returned
    BY <1>2 DEF Excused
  <1>3. ASSUME NEW u \in Tables, Before(u, t), u \notin cleared[s]
        PROVE  u \notin cleared'[s]
    <2>1. CASE s # subject
      BY <1>1, <1>3, <2>1 DEF Clears
    <2>2. CASE s = subject
      <3>1. PICK i \in DOMAIN Registry : Registry[i] = t /\ i < at
        BY <2>2 DEF WalkInv, Behind, Working
      <3>2. PICK k, j \in DOMAIN Registry : k < j /\ Registry[k] = u /\ Registry[j] = t
        BY <1>3 DEF Before
      <3>3. k < at
        BY <1>1, <3>1, <3>2, RegistryAssumption
      <3>4. u # Table
        BY <1>1, <3>2, <3>3, RegistryAssumption DEF Table
      <3>5. QED
        BY <1>1, <1>3, <2>2, <3>4 DEF Clears
    <2>3. QED
      BY <2>1, <2>2
  <1>4. QED
    BY <1>2, <1>3 DEF Excused, Before

LEMMA ExcusesStand ==
  ASSUME cleared' = cleared, overtaken \subseteq overtaken', returned \subseteq returned',
         NEW s, NEW t, Excused(s, t)
  PROVE  Excused(s, t)'
  BY DEF Excused

(* A step that clears nothing and brings nothing in clear keeps the        *)
(* erased erased; likewise for purged files.                               *)
LEMMA QuietKeepsErased ==
  ASSUME ErasedStaysErased, TypeInv,
         UNCHANGED <<cleared, overtaken, returned>>,
         \A t \in Tables : plain'[t] \subseteq plain[t]
  PROVE  ErasedStaysErased'
  BY ExcusesStand DEF ErasedStaysErased, TypeInv, TypeOK

LEMMA QuietKeepsPurged ==
  ASSUME PurgedStaysPurged, TypeInv,
         UNCHANGED <<cleared, purged, overtaken, returned>>,
         \A t \in Tables : recent'[t] \cup aged'[t] \subseteq recent[t] \cup aged[t]
  PROVE  PurgedStaysPurged'
  BY ExcusesStand DEF PurgedStaysPurged, TypeInv, TypeOK

LEMMA ClearingKeepsErased ==
  ASSUME SafeInv, pc \in {"count", "erase"}, Clears, UNCHANGED <<overtaken, returned>>,
         \A t \in Tables : plain'[t] \subseteq plain[t], subject \notin plain'[Table]
  PROVE  ErasedStaysErased'
  <1>1. /\ subject \in Subjects /\ Table \in Tables
        /\ cleared \in [Subjects -> SUBSET Tables]
    BY SubjectInHand, TableInHand DEF SafeInv, TypeInv, TypeOK
  <1>2. SUFFICES ASSUME NEW s \in Subjects, NEW t \in cleared'[s], s \in plain'[t]
                 PROVE  Excused(s, t)'
    BY DEF ErasedStaysErased
  <1>3. t \in cleared[s]
    BY <1>1, <1>2 DEF Clears
  <1>4. Excused(s, t)
    BY <1>1, <1>2, <1>3 DEF SafeInv, ErasedStaysErased
  <1>5. QED
    BY <1>3, <1>4, ExcusesLast DEF SafeInv

LEMMA PurgeStep ==
  ASSUME TypeInv, WalkInv, PurgeInv, [Next]_vars PROVE PurgeInv'
  <1>1. /\ pc # "idle" => subject \in Subjects
        /\ cleared \in [Subjects -> SUBSET Tables] /\ purged \in [Subjects -> SUBSET Tables]
    BY SubjectInHand DEF TypeInv, TypeOK
  <1>2. ASSUME NEW r \in Requests, Start(r) PROVE PurgeInv'
    BY <1>2 DEF Start, PurgeInv
  <1>3. ASSUME UNCHANGED <<cleared, purged>>, pc' # "vacuum" PROVE PurgeInv'
    BY <1>3 DEF PurgeInv
  <1>4. ASSUME UNCHANGED <<cleared, purged, pc, walk>> PROVE PurgeInv'
    BY <1>4 DEF PurgeInv, walk, Table
  <1>5. ASSUME Check \/ Fail PROVE PurgeInv'
    <2>1. UNCHANGED <<cleared, purged>>
      BY <1>5 DEF Check, Fail, history
    <2>2. ASSUME NEW a, Report(a) PROVE pc' # "vacuum"
      BY <1>5, <2>2, ReportKeepsTypes DEF Check, Fail, Working
    <2>3. QED
      BY <1>5, <2>1, <2>2, <1>3 DEF Check, Fail
  <1>6. ASSUME Count PROVE PurgeInv'
    <2>1. ASSUME NEW a, Report(a) PROVE pc' # "vacuum"
      BY <1>6, <2>1, ReportKeepsTypes DEF Count, Working
    <2>2. pc' # "vacuum" /\ purged' = purged /\ \A s \in Subjects : cleared[s] \subseteq cleared'[s]
      BY <1>1, <1>6, <2>1 DEF Count
    <2>3. QED
      BY <2>2 DEF PurgeInv
  <1>7. ASSUME Erase PROVE PurgeInv'
    <2>1. Table' = Table /\ subject' = subject /\ Table \notin cleared[subject]
      BY <1>7, NotYetCleared DEF Erase, walk, Table
    <2>2. purged' = purged /\ \A s \in Subjects : cleared[s] \subseteq cleared'[s]
      BY <1>1, <1>7 DEF Erase
    <2>3. Table \notin purged[subject]
      BY <1>1, <1>7, <2>1 DEF PurgeInv, Erase
    <2>4. Table \in cleared'[subject]
      BY <1>1, <1>7, TableInHand DEF Erase, TypeInv
    <2>5. QED
      BY <2>1, <2>2, <2>3, <2>4 DEF PurgeInv
  <1>8. ASSUME Vacuum PROVE PurgeInv'
    <2>1. pc' # "vacuum" /\ cleared' = cleared
      BY <1>8, ReportKeepsTypes DEF Vacuum, Working
    <2>2. \A s \in Subjects : purged'[s] \subseteq cleared[s]
      BY <1>1, <1>8 DEF Vacuum, PurgeInv
    <2>3. QED
      BY <2>1, <2>2 DEF PurgeInv
  <1>9. ASSUME WriteLog \/ Crash PROVE PurgeInv'
    BY <1>9, <1>3 DEF WriteLog, Crash, End, history
  <1>10. ASSUME Others \/ (\E t \in Tables : Age(t)) \/ SweepTable \/ UNCHANGED vars
         PROVE  UNCHANGED <<cleared, purged, pc, walk>>
    BY <1>10 DEF Others, RegisterBasis, ExpireBasis, Ingest, BeginCopy, EndCopy, AbortCopy,
                 SweepFails, Age, SweepTable, vars, agent, history
  <1>11. QED
    BY <1>2, <1>4, <1>5, <1>6, <1>7, <1>8, <1>9, <1>10 DEF Next, AgentStep

-----------------------------------------------------------------------------
LEMMA ErasingShrinks ==
  ASSUME TypeInv, pc = "erase", EraseRows
  PROVE  /\ \A t \in Tables : plain'[t] \subseteq plain[t]
         /\ subject \notin plain'[Table]
         /\ aged' = aged
         /\ \A t \in Tables : recent'[t] \subseteq
              recent[t] \cup (IF t = Table THEN {subject} ELSE {})
  <1>1. Table \in Tables /\ plain \in [Tables -> SUBSET Subjects] /\ recent \in [Tables -> SUBSET Subjects]
    BY TableInHand DEF TypeInv, TypeOK
  <1>2. QED
    BY <1>1 DEF EraseRows, Hashed

LEMMA ErasedStep ==
  ASSUME SafeInv, [Next]_vars PROVE ErasedStaysErased'
  <1> USE DEF SafeInv
  <1>1. ASSUME NEW r \in Requests, Start(r) PROVE ErasedStaysErased'
    BY <1>1 DEF Start, ErasedStaysErased
  <1>2. ASSUME Count PROVE ErasedStaysErased'
    <2>1. CASE cleared' = cleared
      BY <1>2, <2>1, QuietKeepsErased DEF Count, data
    <2>2. CASE subject \notin keyed[Table] /\ Clears
      <3>1. subject \notin plain[Table]
        BY <2>2, TableInHand DEF TypeInv, TypeOK
      <3>2. QED
        BY <1>2, <2>2, <3>1, ClearingKeepsErased DEF Count, data
    <2>3. QED
      BY <1>2, <2>1, <2>2 DEF Count, Clears
  <1>3. ASSUME Erase PROVE ErasedStaysErased'
    BY <1>3, ErasingShrinks, ClearingKeepsErased DEF Erase, Clears
  <1>4. ASSUME Fail PROVE ErasedStaysErased'
    BY <1>4, ErasingShrinks, QuietKeepsErased DEF Fail, history, data
  <1>5. ASSUME Check \/ Vacuum \/ WriteLog \/ Crash PROVE ErasedStaysErased'
    BY <1>5, QuietKeepsErased DEF Check, Vacuum, WriteLog, Crash, history, data
  <1>6. ASSUME NEW s \in Subjects, NEW t \in Tables, Ingest(s, t) PROVE ErasedStaysErased'
    <2>1. SUFFICES ASSUME NEW x \in Subjects, NEW u \in cleared[x], x \in plain'[u]
                   PROVE  Excused(x, u)'
      BY <1>6 DEF Ingest, ErasedStaysErased
    <2>2. u \in Tables
      BY DEF TypeInv, TypeOK
    <2>3. CASE x \in plain[u]
      BY <1>6, <2>3, ExcusesStand DEF Ingest, ErasedStaysErased
    <2>4. CASE x = s /\ u = t
      BY <1>6, <2>4 DEF Ingest, Excused
    <2>5. QED
      BY <1>6, <2>1, <2>2, <2>3, <2>4 DEF Ingest, TypeInv, TypeOK
  <1>7. ASSUME EndCopy PROVE ErasedStaysErased'
    <2>1. PICK c \in pipe : EndCopy!(c)
      BY <1>7 DEF EndCopy
    <2>2. SUFFICES ASSUME NEW x \in Subjects, NEW u \in cleared[x], x \in plain'[u]
                   PROVE  Excused(x, u)'
      BY <2>1 DEF ErasedStaysErased
    <2>3. u \in Tables
      BY DEF TypeInv, TypeOK
    <2>4. CASE x \in plain[u]
      BY <2>1, <2>4, ExcusesStand DEF ErasedStaysErased
    <2>5. CASE u = c.to /\ x \in c.plain
      <3>1. c.from \in Tables /\ <<c.from, u>> \in Feeds
        BY <2>5 DEF TypeInv, PipeOK
      <3>2. CASE c.from \in cleared[x]
        BY <2>1, <2>5, <3>2 DEF Excused
      <3>3. CASE c.from \notin cleared[x]
        BY <2>1, <3>1, <3>3 DEF Excused
      <3>4. QED
        BY <3>2, <3>3
    <2>6. QED
      BY <2>1, <2>2, <2>3, <2>4, <2>5 DEF TypeInv, TypeOK
  <1>8. ASSUME \/ \E e \in Bases : RegisterBasis(e) \/ ExpireBasis(e)
               \/ \E edge \in Feeds : BeginCopy(edge[1], edge[2])
               \/ AbortCopy \/ SweepFails \/ (\E t \in Tables : Age(t)) \/ SweepTable
               \/ UNCHANGED vars
        PROVE  ErasedStaysErased'
    <2>1. UNCHANGED <<plain, cleared, overtaken, returned>>
      BY <1>8 DEF RegisterBasis, ExpireBasis, BeginCopy, AbortCopy, SweepFails, Age,
                  SweepTable, vars, data, history
    <2>2. QED
      BY <2>1, QuietKeepsErased
  <1>9. QED
    BY <1>1, <1>2, <1>3, <1>4, <1>5, <1>6, <1>7, <1>8 DEF Next, AgentStep, Others

LEMMA PurgedStep ==
  ASSUME SafeInv, [Next]_vars PROVE PurgedStaysPurged'
  <1> USE DEF SafeInv
  <1>0. \A s \in Subjects : purged[s] \subseteq cleared[s] /\ cleared[s] \subseteq Tables
    BY DEF PurgeInv, TypeInv, TypeOK
  <1>1. ASSUME NEW r \in Requests, Start(r) PROVE PurgedStaysPurged'
    BY <1>1 DEF Start, PurgedStaysPurged
  <1>2. ASSUME pc \in {"count", "erase"}, Clears, UNCHANGED <<purged, overtaken, returned, aged>>,
               \A t \in Tables : recent'[t] \subseteq
                 recent[t] \cup (IF t = Table THEN {subject} ELSE {})
        PROVE  PurgedStaysPurged'
    <2>1. SUFFICES ASSUME NEW s \in Subjects, NEW t \in purged[s],
                          s \in recent'[t] \cup aged[t]
                   PROVE  Excused(s, t)'
      BY <1>2 DEF PurgedStaysPurged
    <2>2. ~(s = subject /\ t = Table)
      BY <1>0, <1>2, <2>1, NotYetCleared
    <2>3. s \in recent[t] \cup aged[t]
      BY <1>0, <1>2, <2>1, <2>2
    <2>4. Excused(s, t)
      BY <2>3 DEF PurgedStaysPurged
    <2>5. QED
      BY <1>0, <1>2, <2>4, ExcusesLast
  <1>3. ASSUME Count PROVE PurgedStaysPurged'
    <2>1. CASE cleared' = cleared
      BY <1>3, <2>1, QuietKeepsPurged DEF Count, data
    <2>2. CASE Clears
      BY <1>2, <1>3, <2>2 DEF Count, data
    <2>3. QED
      BY <1>3, <2>1, <2>2 DEF Count, Clears
  <1>4. ASSUME Erase PROVE PurgedStaysPurged'
    BY <1>2, <1>4, ErasingShrinks DEF Erase, Clears
  <1>5. ASSUME Fail PROVE PurgedStaysPurged'
    <2>1. CASE UNCHANGED data
      BY <1>5, <2>1, QuietKeepsPurged DEF Fail, history, data
    <2>2. CASE pc = "erase" /\ EraseRows
      <3>1. SUFFICES ASSUME NEW s \in Subjects, NEW t \in purged[s],
                            s \in recent'[t] \cup aged[t]
                     PROVE  Excused(s, t)'
        BY <1>5, <2>2, ErasingShrinks DEF Fail, history, PurgedStaysPurged
      <3>2. ~(s = subject /\ t = Table)
        BY <1>0, <2>2, <3>1, NotYetCleared
      <3>3. Excused(s, t)
        BY <1>0, <2>2, <3>1, <3>2, ErasingShrinks DEF PurgedStaysPurged
      <3>4. QED
        BY <1>5, <3>3, ExcusesStand DEF Fail, history
    <2>3. QED
      BY <1>5, <2>1, <2>2 DEF Fail
  <1>6. ASSUME Vacuum PROVE PurgedStaysPurged'
    <2>1. Table \in Tables /\ subject \in Subjects
      BY <1>6, TableInHand, SubjectInHand DEF Vacuum, TypeInv
    <2>2. /\ \A t \in Tables : recent'[t] \cup aged'[t] \subseteq recent[t] \cup aged[t]
          /\ UNCHANGED <<cleared, overtaken, returned>>
      BY <1>6, <2>1 DEF Vacuum, TypeInv, TypeOK
    <2>3. CASE ~request.immediate
      BY <1>6, <2>2, <2>3, QuietKeepsPurged DEF Vacuum
    <2>4. CASE request.immediate
      <3>1. SUFFICES ASSUME NEW s \in Subjects, NEW t \in purged'[s],
                            s \in recent'[t] \cup aged'[t]
                     PROVE  Excused(s, t)'
        BY DEF PurgedStaysPurged
      <3>2. recent'[Table] \cup aged'[Table] = {}
        BY <1>6, <2>1, <2>4 DEF Vacuum, TypeInv, TypeOK
      <3>3. t \in purged[s]
        BY <1>6, <2>1, <2>4, <3>1, <3>2 DEF Vacuum, TypeInv, TypeOK
      <3>4. Excused(s, t)
        BY <1>0, <2>2, <3>1, <3>3 DEF PurgedStaysPurged
      <3>5. QED
        BY <2>2, <3>4, ExcusesStand
    <2>5. QED
      BY <2>3, <2>4
  <1>7. ASSUME EndCopy PROVE PurgedStaysPurged'
    <2>1. PICK c \in pipe : EndCopy!(c)
      BY <1>7 DEF EndCopy
    <2>2. SUFFICES ASSUME NEW s \in Subjects, NEW t \in purged[s], s \in recent'[t] \cup aged[t]
                   PROVE  Excused(s, t)'
      BY <2>1 DEF PurgedStaysPurged
    <2>3. t \in Tables /\ t \in cleared[s]
      BY <1>0
    <2>4. Excused(s, t)
      <3>1. CASE s \in recent[t] \cup aged[t]
        BY <3>1 DEF PurgedStaysPurged
      <3>2. CASE s \in plain[t]
        BY <2>3, <3>2 DEF ErasedStaysErased
      <3>3. QED
        BY <2>1, <2>2, <2>3, <3>1, <3>2 DEF TypeInv, TypeOK
    <2>5. QED
      BY <2>1, <2>4, ExcusesStand
  <1>8. ASSUME NEW s \in Subjects, NEW t \in Tables, Ingest(s, t) PROVE PurgedStaysPurged'
    BY <1>8, ExcusesStand DEF Ingest, PurgedStaysPurged
  <1>9. ASSUME NEW t \in Tables, Age(t) PROVE PurgedStaysPurged'
    BY <1>9, QuietKeepsPurged DEF Age, history, TypeInv, TypeOK
  <1>10. ASSUME SweepTable PROVE PurgedStaysPurged'
    BY <1>10, QuietKeepsPurged DEF SweepTable, history, TypeInv, TypeOK
  <1>11. ASSUME \/ Check \/ WriteLog \/ Crash
                \/ \E e \in Bases : RegisterBasis(e) \/ ExpireBasis(e)
                \/ \E edge \in Feeds : BeginCopy(edge[1], edge[2])
                \/ AbortCopy \/ SweepFails \/ UNCHANGED vars
         PROVE  PurgedStaysPurged'
    <2>1. UNCHANGED <<recent, aged, cleared, purged, overtaken, returned>>
      BY <1>11 DEF Check, WriteLog, Crash, RegisterBasis, ExpireBasis, BeginCopy, AbortCopy,
                   SweepFails, vars, data, history
    <2>2. QED
      BY <2>1, QuietKeepsPurged
  <1>12. QED
    BY <1>1, <1>3, <1>4, <1>5, <1>6, <1>7, <1>8, <1>9, <1>10, <1>11
       DEF Next, AgentStep, Others

LEMMA Safe == Spec => []SafeInv
  <1>1. Init => SafeInv
    BY TypeInit DEF Init, SafeInv, WalkInv, PurgeInv, ErasedStaysErased, PurgedStaysPurged
  <1>2. SafeInv /\ [Next]_vars => SafeInv'
    BY TypeStep, WalkStep, PurgeStep, ErasedStep, PurgedStep DEF SafeInv
  <1>3. QED
    BY <1>1, <1>2, PTL DEF Spec

(* Rows the agent has erased come back only with a copy read before, a new *)
(* delivery, from a table that it did not erase, or from one that the      *)
(* registry lists later.                                                   *)
THEOREM Erased == Spec => []ErasedStaysErased
  BY Safe, PTL DEF SafeInv

(* And so do the files it purged with retention 0.                         *)
THEOREM Purged == Spec => []PurgedStaysPurged
  BY Safe, PTL DEF SafeInv

-----------------------------------------------------------------------------
LEMMA BasisStep ==
  ASSUME TypeInv, BasisInv, [Next]_vars PROVE BasisInv'
  <1> USE DEF BasisInv
  <1>1. ASSUME Check PROVE BasisInv'
    <2>1. valid' = valid
      BY <1>1 DEF Check
    <2>2. ASSUME NEW a, Report(a) PROVE pc' \notin {"count", "erase"}
      BY <1>1, <2>2, ReportKeepsTypes DEF Check, Working
    <2>3. ASSUME blind' = FALSE, ~(\E e \in Bases : Overrides(e, subject, Table)), UNCHANGED walk
          PROVE  \A e \in valid : ~Covers(e, subject, Table)'
      BY <2>3 DEF Overrides, Covers, walk, Table
    <2>4. QED
      BY <1>1, <2>1, <2>2, <2>3 DEF Check
  <1>2. ASSUME Count PROVE BasisInv'
    <2>1. valid' = valid /\ fresh' = fresh /\ blind' = blind
      BY <1>2 DEF Count, legal
    <2>2. ASSUME NEW a, Report(a) PROVE pc' \notin {"count", "erase"}
      BY <1>2, <2>2, ReportKeepsTypes DEF Count, Working
    <2>3. ASSUME UNCHANGED walk PROVE BasisInv'
      BY <1>2, <2>1, <2>3 DEF walk, Table, Covers, Count
    <2>4. QED
      BY <1>2, <2>1, <2>2, <2>3 DEF Count
  <1>3. ASSUME Erase \/ Vacuum \/ Fail \/ WriteLog \/ Crash PROVE BasisInv'
    <2>1. valid' = valid
      BY <1>3 DEF Erase, Vacuum, Fail, WriteLog, Crash, legal
    <2>2. pc' \notin {"count", "erase"}
      BY <1>3, ReportKeepsTypes DEF Erase, Vacuum, Fail, WriteLog, Crash, End, Working
    <2>3. QED
      BY <2>1, <2>2
  <1>4. ASSUME NEW r \in Requests, Start(r) PROVE BasisInv'
    BY <1>4 DEF Start, legal
  <1>5. ASSUME UNCHANGED agent, valid' \subseteq Bases,
               \A e \in valid' : e \in fresh' \/ (e \in valid /\ e \notin fresh)
        PROVE  BasisInv'
    BY <1>5 DEF agent, walk, Covers, Table
  <1>6. ASSUME NEW e \in Bases, RegisterBasis(e) \/ ExpireBasis(e) PROVE BasisInv'
    BY <1>5, <1>6 DEF RegisterBasis, ExpireBasis
  <1>7. ASSUME \/ \E s \in Subjects, t \in Tables : Ingest(s, t)
               \/ \E edge \in Feeds : BeginCopy(edge[1], edge[2])
               \/ EndCopy \/ AbortCopy \/ SweepFails
               \/ (\E t \in Tables : Age(t)) \/ SweepTable \/ UNCHANGED vars
        PROVE  BasisInv'
    <2>1. UNCHANGED <<agent, valid, fresh>>
      BY <1>7 DEF Ingest, BeginCopy, EndCopy, AbortCopy, SweepFails, Age, SweepTable, vars, legal
    <2>2. QED
      BY <1>5, <2>1
  <1>8. QED
    BY <1>1, <1>2, <1>3, <1>4, <1>6, <1>7 DEF Next, AgentStep, Others

(* No erasure against a legal basis of its subject that was in force when  *)
(* the table was checked, unless the query of the check raised.            *)
THEOREM BasisIsRespected == Spec => BasisRespected
  <1>1. Init => BasisInv
    BY DEF Init, BasisInv
  <1>2. TypeInv /\ [Next]_vars => TypeInv'
    BY TypeStep
  <1>3. TypeInv /\ BasisInv /\ [Next]_vars => BasisInv'
    BY BasisStep
  <1>4. ASSUME TypeInv, BasisInv, [Next]_vars
        PROVE  [\A d \in erasures' \ erasures :
                  blind \/ \A e \in valid : Covers(e, d.subject, d.table) => e \in fresh]_vars
    <2>1. SUFFICES ASSUME NEW d \in erasures' \ erasures
                   PROVE  blind \/ \A e \in valid : Covers(e, d.subject, d.table) => e \in fresh
      OBVIOUS
    <2>2. pc = "erase" /\ EraseRows
      BY <1>4, <2>1 DEF Next, AgentStep, Others, Start, Check, Count, Erase, Vacuum, Fail, WriteLog,
           Crash, RegisterBasis, ExpireBasis, Ingest, BeginCopy, EndCopy, AbortCopy, Age,
           SweepTable, SweepFails, vars, record
    <2>3. d.subject = subject /\ d.table = Table
      BY <2>1, <2>2 DEF EraseRows
    <2>4. QED
      BY <1>4, <2>2, <2>3 DEF BasisInv
  <1>5. QED
    BY TypeInit, <1>1, <1>2, <1>3, <1>4, PTL DEF Spec, BasisRespected

-----------------------------------------------------------------------------
(* What the request under way has erased.                                  *)
Done(s, t) ==
  [request |-> counts.requests, subject |-> s, table |-> t] \in erasures

(* An action of the request under way agrees with what it did.             *)
Truthful(a) ==
  /\ a.status = "COMPLETED" => (a.rows <=> Done(a.subject, a.table))
  /\ a.status \in {"SKIPPED", "BLOCKED"} => ~Done(a.subject, a.table)

(* The walk has left the entry of s and t.                                 *)
Past(s, t) ==
  s \notin todo /\ (s = subject => \E i \in DOMAIN Registry : i < at /\ Registry[i] = t)

InHand(s, t) == s = subject /\ t = Table

(* Log and erasures are of requests so far; the log not of the one running. *)
Numbered ==
  /\ counts.requests \in Nat
  /\ \A l \in log : l.request \in Nat /\ l.request <= counts.requests
  /\ \A d \in erasures :
       /\ d = [request |-> d.request, subject |-> d.subject, table |-> d.table]
       /\ d.request \in Nat /\ d.request <= counts.requests
  /\ pc # "idle" => \A l \in log : l.request # counts.requests

(* Only what the walk has left, or is about to vacuum, is reported or      *)
(* erased.                                                                 *)
LeftBehind ==
  pc \in Working =>
    /\ \A a \in actions : Past(a.subject, a.table)
    /\ \A d \in erasures : d.request = counts.requests =>
         \/ Past(d.subject, d.table)
         \/ pc = "vacuum" /\ InHand(d.subject, d.table)

(* Every erasure of the request is reported, or in hand.                   *)
Reported ==
  pc # "idle" =>
    \A d \in erasures : d.request = counts.requests =>
      \/ pc = "vacuum" /\ InHand(d.subject, d.table)
      \/ \E a \in actions : /\ a.subject = d.subject /\ a.table = d.table
                           /\ a.status \in {"COMPLETED", "FAILED"}

LogInv ==
  /\ Numbered /\ LeftBehind /\ Reported
  /\ pc # "idle" => \A a \in actions : Truthful(a)
  /\ pc = "vacuum" => Done(subject, Table)
  /\ LogTellsTheTruth

(* What other processes do concerns neither the agent nor its records.     *)
LEMMA QuietKeepsLog ==
  ASSUME LogInv, UNCHANGED <<pc, walk, actions, record>>, counts'.requests = counts.requests
  PROVE  LogInv'
  BY DEF LogInv, Numbered, LeftBehind, Reported, Truthful, Done, Past, InHand, Table,
         LogTellsTheTruth, walk, record

(* Up to its statement, the entry in hand is neither erased nor reported.  *)
LEMMA NothingYet ==
  ASSUME TypeInv, LogInv, pc \in Working, pc # "vacuum"
  PROVE  /\ ~Done(subject, Table)
         /\ \A a \in actions : ~InHand(a.subject, a.table)
  <1>1. ~Past(subject, Table)
    BY RegistryAssumption DEF Past, Table, TypeInv, TypeOK
  <1>2. QED
    BY <1>1 DEF LogInv, LeftBehind, Done, InHand

(* A report leaves its entry behind, and those left before.                *)
LEMMA ReportLeaves ==
  ASSUME TypeInv, pc \in Working, NEW a, Report(a), NEW s, NEW t,
         Past(s, t) \/ InHand(s, t), pc' \in Working
  PROVE  Past(s, t)'
  <1>1. at \in DOMAIN Registry /\ subject \notin todo /\ at \in Nat
    BY RegistryAssumption DEF TypeInv, TypeOK, TodoOK, Working
  <1>2. CASE at' = at + 1 /\ subject' = subject /\ todo' = todo
    BY <1>1, <1>2, RegistryAssumption DEF Past, InHand, Table
  <1>3. CASE subject' \in todo /\ todo' = todo \ {subject'}
    BY <1>1, <1>3 DEF Past, InHand
  <1>4. QED
    BY <1>2, <1>3, ReportLeads DEF Working

(* Erasing the entry in hand changes no other erasure.                     *)
Recorded(d) == d = [request |-> counts.requests, subject |-> subject, table |-> Table]

(* An entry's end: a true report of it, that calls an erasure one.         *)
LEMMA ReportKeepsLog ==
  ASSUME TypeInv, LogInv, pc \in Working, NEW a, Report(a), InHand(a.subject, a.table),
         UNCHANGED <<log, killed>>, counts'.requests = counts.requests,
         erasures \subseteq erasures', \A d \in erasures' \ erasures : pc # "vacuum" /\ Recorded(d),
         Truthful(a)', Done(a.subject, a.table)' => a.status \in {"COMPLETED", "FAILED"}
  PROVE  LogInv'
  <1> USE DEF LogInv
  <1>1. pc' \in {"check", "log"} /\ actions' = actions \cup {a}
    BY ReportKeepsTypes DEF Report
  <1>2. \A d \in erasures' \ erasures :
          d.request = counts.requests /\ d.subject = subject /\ d.table = Table
    BY DEF Recorded
  <1>3. Numbered'
    <2>1. \A d \in erasures' :
            /\ d = [request |-> d.request, subject |-> d.subject, table |-> d.table]
            /\ d.request \in Nat /\ d.request <= counts.requests
      BY <1>2 DEF Numbered, Recorded
    <2>2. QED
      BY <1>1, <2>1 DEF Numbered, Working
  <1>4. LeftBehind'
    <2>1. SUFFICES ASSUME pc' \in Working PROVE LeftBehind'
      BY DEF LeftBehind
    <2>2. \A x \in actions' : Past(x.subject, x.table) \/ InHand(x.subject, x.table)
      BY <1>1 DEF LeftBehind
    <2>3. \A d \in erasures' : d.request = counts.requests =>
            Past(d.subject, d.table) \/ InHand(d.subject, d.table)
      BY <1>2 DEF LeftBehind, InHand
    <2>4. \A x \in actions' : Past(x.subject, x.table)'
      BY <2>1, <2>2, ReportLeaves
    <2>5. \A d \in erasures' : d.request = counts.requests => Past(d.subject, d.table)'
      BY <2>1, <2>3, ReportLeaves
    <2>6. QED
      BY <2>4, <2>5 DEF LeftBehind
  <1>5. Reported'
    <2>1. SUFFICES ASSUME NEW d \in erasures', d.request = counts.requests
                   PROVE  \E x \in actions' : /\ x.subject = d.subject /\ x.table = d.table
                                              /\ x.status \in {"COMPLETED", "FAILED"}
      BY DEF Reported
    <2>2. CASE InHand(d.subject, d.table)
      <3>1. Done(a.subject, a.table)'
        <4>1. d = [request |-> d.request, subject |-> d.subject, table |-> d.table]
          BY <1>3 DEF Numbered
        <4>2. QED
          BY <2>1, <2>2, <4>1 DEF Done, InHand
      <3>2. QED
        BY <1>1, <2>2, <3>1 DEF InHand
    <2>3. CASE ~InHand(d.subject, d.table)
      <3>1. d \in erasures /\ pc # "idle"
        BY <1>2, <2>3 DEF InHand, Working
      <3>2. QED
        BY <1>1, <2>1, <2>3, <3>1 DEF Reported
    <2>4. QED
      BY <2>2, <2>3
  <1>6. \A x \in actions' : Truthful(x)'
    <2>1. SUFFICES ASSUME NEW x \in actions PROVE Truthful(x)'
      BY <1>1
    <2>2. Truthful(x)
      BY DEF Working
    <2>3. Done(x.subject, x.table)' => Done(x.subject, x.table)
      <3>1. CASE pc = "vacuum"
        BY <3>1 DEF Done
      <3>2. CASE pc # "vacuum"
        <4>1. ~InHand(x.subject, x.table)
          BY <3>2, NothingYet
        <4>2. QED
          BY <1>2, <4>1 DEF Done, InHand
      <3>3. QED
        BY <3>1, <3>2
    <2>4. Done(x.subject, x.table) => Done(x.subject, x.table)'
      BY DEF Done
    <2>5. QED
      BY <2>2, <2>3, <2>4 DEF Truthful
  <1>7. LogTellsTheTruth'
    <2>1. \A l \in log : l.request # counts.requests
      BY DEF Numbered, Working
    <2>2. \A l \in log : LET done == [request |-> l.request, subject |-> l.entry.subject,
                                     table |-> l.entry.table]
                       IN  done \in erasures' <=> done \in erasures
      BY <1>2, <2>1
    <2>3. \A d \in erasures : d.request = counts.requests => pc' # "idle"
      BY <1>1
    <2>4. \A d \in erasures' \ erasures : d.request = counts.requests /\ pc' # "idle"
      BY <1>1, <1>2
    <2>5. QED
      BY <2>2, <2>3, <2>4 DEF LogTellsTheTruth
  <1>8. QED
    BY <1>1, <1>3, <1>4, <1>5, <1>6, <1>7

(* The other counts leave the number of requests alone.                    *)
LEMMA CountedApart ==
  /\ [counts EXCEPT !.fails = @ + 1].requests = counts.requests
  /\ [counts EXCEPT !.moves = @ + 1].requests = counts.requests
  <1>1. [counts EXCEPT !.fails = @ + 1].requests = counts.requests
    OBVIOUS
  <1>2. [counts EXCEPT !.moves = @ + 1].requests = counts.requests
    OBVIOUS
  <1>3. QED
    BY <1>1, <1>2

LEMMA LogStep ==
  ASSUME TypeInv, LogInv, [Next]_vars PROVE LogInv'
  <1> USE DEF LogInv
  <1>1. ASSUME NEW r \in Requests, Start(r) PROVE LogInv'
    <2>1. /\ counts'.requests = counts.requests + 1 /\ actions' = {} /\ pc' = "check"
          /\ log' = log /\ erasures' = erasures /\ killed' = killed /\ pc = "idle"
      BY <1>1 DEF Start, record, Numbered
    <2>2. Numbered' /\ \A d \in erasures' : d.request # counts'.requests
      BY <2>1 DEF Numbered
    <2>3. LogTellsTheTruth'
      BY <2>1 DEF LogTellsTheTruth
    <2>4. QED
      BY <2>1, <2>2, <2>3 DEF LeftBehind, Reported
  <1>2. ASSUME Check PROVE LogInv'
    <2>1. UNCHANGED record /\ counts'.requests = counts.requests /\ pc = "check"
      <3>1. counts' = counts \/ counts' = [counts EXCEPT !.fails = @ + 1]
        BY <1>2 DEF Check
      <3>2. counts'.requests = counts.requests
        BY <3>1, CountedApart
      <3>3. QED
        BY <1>2, <3>2 DEF Check
    <2>2. CASE pc' = "count" /\ UNCHANGED <<walk, actions>>
      BY <2>1, <2>2 DEF Numbered, LeftBehind, Reported, Truthful, Done, Past, InHand, Table,
         LogTellsTheTruth, walk, record, Working
    <2>3. ASSUME NEW a, Report(a), InHand(a.subject, a.table),
                 a.status \in {"SKIPPED", "BLOCKED", "FAILED"}
          PROVE  LogInv'
      <3>1. ~Done(a.subject, a.table) /\ erasures' = erasures
        BY <2>1, <2>3, NothingYet DEF InHand, Working, record
      <3>2. ~Done(a.subject, a.table)'
        BY <2>1, <3>1 DEF Done
      <3>3. QED
        BY <2>1, <2>3, <3>1, <3>2, ReportKeepsLog DEF Truthful, Working, record
    <2>4. QED
      BY <1>2, <2>2, <2>3 DEF Check, Entry, InHand
  <1>3. ASSUME Count PROVE LogInv'
    <2>1. UNCHANGED record /\ counts'.requests = counts.requests /\ pc = "count"
      BY <1>3 DEF Count
    <2>2. CASE pc' = "erase" /\ UNCHANGED <<walk, actions>>
      BY <2>1, <2>2 DEF Numbered, LeftBehind, Reported, Truthful, Done, Past, InHand, Table,
         LogTellsTheTruth, walk, record, Working
    <2>3. ASSUME NEW a, Report(a), InHand(a.subject, a.table),
                 a.status \in {"COMPLETED", "FAILED"}, a.rows = FALSE
          PROVE  LogInv'
      <3>1. ~Done(a.subject, a.table) /\ erasures' = erasures
        BY <2>1, <2>3, NothingYet DEF InHand, Working, record
      <3>2. ~Done(a.subject, a.table)'
        BY <2>1, <3>1 DEF Done
      <3>3. QED
        BY <2>1, <2>3, <3>1, <3>2, ReportKeepsLog DEF Truthful, Working, record
    <2>4. QED
      BY <1>3, <2>2, <2>3 DEF Count, Entry, InHand
  <1>4. ASSUME Erase PROVE LogInv'
    <2>1. /\ pc = "erase" /\ pc' = "vacuum" /\ UNCHANGED <<walk, actions, log, killed, counts>>
          /\ erasures' = erasures \cup
               {[request |-> counts.requests, subject |-> subject, table |-> Table]}
      BY <1>4 DEF Erase, EraseRows
    <2>2. \A s, t : Done(s, t)' <=> Done(s, t) \/ InHand(s, t)
      BY <2>1 DEF Done, InHand
    <2>3. Numbered'
      BY <2>1 DEF Numbered
    <2>4. LeftBehind' /\ Reported'
      BY <2>1 DEF LeftBehind, Reported, Past, InHand, Table, Working, walk
    <2>5. \A a \in actions' : Truthful(a)'
      BY <2>1, <2>2, NothingYet DEF Truthful, Working
    <2>6. Done(subject, Table)'
      BY <2>1 DEF Done, Table, walk
    <2>7. LogTellsTheTruth'
      BY <2>1 DEF LogTellsTheTruth, Numbered
    <2>8. QED
      BY <2>1, <2>3, <2>4, <2>5, <2>6, <2>7
  <1>5. ASSUME Vacuum PROVE LogInv'
    <2>1. UNCHANGED record /\ counts'.requests = counts.requests /\ pc = "vacuum"
      BY <1>5 DEF Vacuum
    <2>2. PICK a : /\ Report(a) /\ InHand(a.subject, a.table)
                   /\ a.status = "COMPLETED" /\ a.rows = TRUE
      BY <1>5 DEF Vacuum, Entry, InHand
    <2>3. Done(a.subject, a.table)'
      BY <2>1, <2>2 DEF Done, InHand, record
    <2>4. QED
      BY <2>1, <2>2, <2>3, ReportKeepsLog DEF Truthful, Working, record
  <1>6. ASSUME Fail PROVE LogInv'
    <2>1. /\ pc \in Working /\ UNCHANGED <<log, killed>> /\ counts'.requests = counts.requests
          /\ erasures \subseteq erasures'
          /\ \A d \in erasures' \ erasures : pc # "vacuum" /\ Recorded(d)
      BY <1>6 DEF Fail, Working, EraseRows, Recorded
    <2>2. PICK a : /\ Report(a) /\ InHand(a.subject, a.table) /\ a.status = "FAILED"
      BY <1>6 DEF Fail, Entry, InHand
    <2>3. QED
      BY <2>1, <2>2, ReportKeepsLog DEF Truthful
  <1>7. ASSUME WriteLog PROVE LogInv'
    <2>1. /\ pc = "log" /\ pc' = "idle" /\ actions' = {} /\ UNCHANGED <<erasures, counts>>
      BY <1>7 DEF WriteLog, End
    <2>2. CASE Inferable
      <3>1. /\ log' = log \cup {[request |-> counts.requests, entry |-> a] : a \in actions}
            /\ killed' = killed
        BY <1>7, <2>2 DEF WriteLog
      <3>2. Numbered'
        BY <2>1, <3>1 DEF Numbered
      <3>3. \A a \in actions :
              LET done == [request |-> counts.requests, subject |-> a.subject, table |-> a.table]
              IN  /\ a.status = "COMPLETED" => (a.rows <=> done \in erasures)
                  /\ a.status \in {"SKIPPED", "BLOCKED"} => done \notin erasures
        BY <2>1 DEF Truthful, Done
      <3>4. \A l \in log' : l \in log \/ \E a \in actions : l.request = counts.requests /\ l.entry = a
        BY <3>1
      <3>5. ASSUME NEW a \in actions
            PROVE  \E l \in log' : l.request = counts.requests /\ l.entry = a
        <4>1. [request |-> counts.requests, entry |-> a] \in log'
          BY <3>1
        <4>2. QED
          BY <4>1
      <3>6. LogTellsTheTruth'
        <4>1. \A l \in log' :
                LET done == [request |-> l.request, subject |-> l.entry.subject,
                             table |-> l.entry.table]
                IN  /\ l.entry.status = "COMPLETED" => (l.entry.rows <=> done \in erasures)
                    /\ l.entry.status \in {"SKIPPED", "BLOCKED"} => done \notin erasures
          BY <3>3, <3>4 DEF LogTellsTheTruth
        <4>2. \A d \in erasures : d.request = counts.requests =>
                \E l \in log' : /\ l.request = d.request
                              /\ l.entry.subject = d.subject /\ l.entry.table = d.table
                              /\ l.entry.status \in {"COMPLETED", "FAILED"}
          BY <2>1, <3>5 DEF Reported
        <4>3. log \subseteq log'
          BY <3>1
        <4>4. QED
          BY <2>1, <3>1, <4>1, <4>2, <4>3 DEF LogTellsTheTruth
      <3>7. QED
        BY <2>1, <3>2, <3>6 DEF LeftBehind, Reported, Working
    <2>3. CASE ~Inferable
      <3>1. log' = log /\ killed' = killed \cup {counts.requests}
        BY <1>7, <2>3 DEF WriteLog
      <3>2. QED
        BY <2>1, <3>1 DEF LeftBehind, Reported, Working, Numbered, LogTellsTheTruth
    <2>4. QED
      BY <2>2, <2>3
  <1>8. ASSUME Crash PROVE LogInv'
    <2>1. /\ pc' = "idle" /\ actions' = {} /\ UNCHANGED <<log, erasures>>
          /\ counts'.requests = counts.requests /\ killed' = killed \cup {counts.requests}
      BY <1>8 DEF Crash, End
    <2>2. QED
      BY <2>1 DEF LeftBehind, Reported, Working, Numbered, LogTellsTheTruth
  <1>9. ASSUME Others \/ (\E t \in Tables : Age(t)) \/ SweepTable \/ UNCHANGED vars
        PROVE  LogInv'
    <2>1. /\ UNCHANGED <<agent, record>>
          /\ \/ counts' = counts \/ counts' = [counts EXCEPT !.moves = @ + 1]
             \/ counts' = [counts EXCEPT !.fails = @ + 1]
      BY <1>9 DEF Others, RegisterBasis, ExpireBasis, Ingest, BeginCopy, EndCopy, AbortCopy,
                  SweepFails, Age, SweepTable, vars
    <2>2. QED
      <3>1. counts'.requests = counts.requests
        BY <2>1, CountedApart
      <3>2. QED
        BY <2>1, <3>1, QuietKeepsLog DEF agent
  <1>10. QED
    BY <1>1, <1>2, <1>3, <1>4, <1>5, <1>6, <1>7, <1>8, <1>9 DEF Next, AgentStep

(* Every log that is written is true of what its request erased, and what  *)
(* a request erased is in its log unless the log was not written.          *)
THEOREM LogIsTrue == Spec => []LogTellsTheTruth
  <1>1. Init => LogInv
    BY DEF Init, LogInv, Numbered, LeftBehind, Reported, Working, LogTellsTheTruth
  <1>2. TypeInv /\ [Next]_vars => TypeInv'
    BY TypeStep
  <1>3. TypeInv /\ LogInv /\ [Next]_vars => LogInv'
    BY LogStep
  <1>4. LogInv => LogTellsTheTruth
    BY DEF LogInv
  <1>5. QED
    BY TypeInit, <1>1, <1>2, <1>3, <1>4, PTL DEF Spec

=============================================================================
