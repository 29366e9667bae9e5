-------------------------- MODULE ExecutionStates --------------------------
(***************************************************************************)
(* The state machine of one Execution row, as                              *)
(* execution_state_service.py declares it.  This module has no variables:  *)
(* the abstract lifecycle and the detailed queue both extend it.           *)
(***************************************************************************)
EXTENDS Naturals

States == {"QUEUED", "RUNNING", "PROCESSING", "COMPLETED", "FAILED", "CANCELLED"}

TerminalStates == {"COMPLETED", "FAILED", "CANCELLED"}

\* The states a coordinator owns and the watchdog may recover.
ActiveStates == {"RUNNING", "PROCESSING"}

\* A row that no transaction has inserted yet.
RowStates == States \cup {"ABSENT"}

\* ALLOWED_TRANSITIONS, as pairs <<current, target>>.
AllowedTransitions ==
  ({"QUEUED"} \X {"RUNNING", "FAILED", "CANCELLED"})
    \cup ({"RUNNING"} \X {"PROCESSING", "FAILED", "CANCELLED"})
    \cup ({"PROCESSING"} \X {"COMPLETED", "FAILED"})

\* can_transition(current_state, new_state)
CanTransition(from, to) == <<from, to>> \in AllowedTransitions

(***************************************************************************)
(* What the UPDATE leaves in result_available: mark_completed passes TRUE, *)
(* FAILED is forced to FALSE, every other transition passes NULL and the   *)
(* COALESCE keeps the stored value.                                        *)
(***************************************************************************)
ResultAfter(to, stored) ==
  (to = "COMPLETED") \/ (to # "FAILED" /\ stored)
=============================================================================
