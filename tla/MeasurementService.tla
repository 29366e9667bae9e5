------------------------- MODULE MeasurementService ------------------------
(***************************************************************************)
(* What the exchange between the dispatcher and the measurement nodes      *)
(* promises to the queue, whatever is lost on the way: an execution is     *)
(* measured at most once, it gets at most one outcome, and it goes on to   *)
(* post-processing only if its own measurement succeeded.  FAILED promises *)
(* nothing: the measurement may have failed, be lost, or still go on.      *)
(***************************************************************************)

CONSTANT Executions

VARIABLES
  verdict,  \* what the measurement of each execution came to
  outcome   \* what its dispatcher made of it

vars == <<verdict, outcome>>

Verdicts == {"ok", "bad"}
Outcomes == {"PROCESSING", "FAILED"}

Init ==
  /\ verdict = [e \in Executions |-> "none"]
  /\ outcome = [e \in Executions |-> "none"]

Measure(e, v) ==
  /\ verdict[e] = "none"
  /\ verdict' = [verdict EXCEPT ![e] = v]
  /\ UNCHANGED outcome

Conclude(e, what) ==
  /\ outcome[e] = "none"
  /\ what = "PROCESSING" => verdict[e] = "ok"
  /\ outcome' = [outcome EXCEPT ![e] = what]
  /\ UNCHANGED verdict

Next ==
  \E e \in Executions :
    \/ \E v \in Verdicts : Measure(e, v)
    \/ \E what \in Outcomes : Conclude(e, what)

Spec == Init /\ [][Next]_vars
=============================================================================
