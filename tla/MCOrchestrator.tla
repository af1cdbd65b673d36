--------------------------- MODULE MCOrchestrator ---------------------------
(* Instances of Orchestrator: named events with fixed profiles.            *)
EXTENDS Orchestrator

CONSTANTS drift, lineage, odd, poison, r1, r2

Event(type, priority, at, payload) ==
  [event_type |-> type, priority |-> priority, raised_at |-> at, payload |-> payload]

\* drift: retraining; lineage: a schema change whose payload is too long for
\* the planner; odd: an unknown type; poison: not JSON.
Profiles ==
  [e \in {drift, lineage, odd, poison} |->
     CASE e = drift   -> Event("MODEL_DRIFT", "HIGH", 2, "ok")
       [] e = lineage -> Event("SCHEMA_DRIFT", "HIGH", 1, "long")
       [] e = odd     -> Event("OTHER", "MEDIUM", 1, "ok")
       [] e = poison  -> Event("NL_QUERY", "HIGH", 3, "malformed")]

MCProfile == [e \in Events |-> Profiles[e]]
=============================================================================
