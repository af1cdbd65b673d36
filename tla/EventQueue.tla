----------------------------- MODULE EventQueue -----------------------------
(***************************************************************************)
(* What the orchestrator promises about one queue row, whatever happens to *)
(* its process: an event is taken once, its sub-agent changes the outside  *)
(* world at most once and only while the event is taken, the verdict is    *)
(* given once, and the audit row follows the verdict.  An event may stay   *)
(* taken for ever: nothing here forbids it.                                *)
(***************************************************************************)
CONSTANT Events

VARIABLES
  status,     \* the row's status, "ABSENT" before it is raised
  performed,  \* events whose sub-agent changed something outside
  audited     \* events with an audit row

vars == <<status, performed, audited>>

Verdicts == {"COMPLETED", "FAILED", "ESCALATED"}

Init ==
  /\ status = [e \in Events |-> "ABSENT"]
  /\ performed = {}
  /\ audited = {}

Move(e, from, to) == status[e] = from /\ status' = [status EXCEPT ![e] = to]

Raise(e) == Move(e, "ABSENT", "PENDING") /\ UNCHANGED <<performed, audited>>

Take(e) == Move(e, "PENDING", "IN_PROGRESS") /\ UNCHANGED <<performed, audited>>

Perform(e) ==
  /\ status[e] = "IN_PROGRESS"
  /\ e \notin performed
  /\ performed' = performed \cup {e}
  /\ UNCHANGED <<status, audited>>

Settle(e) ==
  /\ \E verdict \in Verdicts : Move(e, "IN_PROGRESS", verdict)
  /\ UNCHANGED <<performed, audited>>

Audit(e) ==
  /\ status[e] \in Verdicts
  /\ e \notin audited
  /\ audited' = audited \cup {e}
  /\ UNCHANGED <<status, performed>>

Next == \E e \in Events : Raise(e) \/ Take(e) \/ Perform(e) \/ Settle(e) \/ Audit(e)

Spec == Init /\ [][Next]_vars
=============================================================================
