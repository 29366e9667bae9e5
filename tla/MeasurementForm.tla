-------------------------- MODULE MeasurementForm --------------------------
(***************************************************************************)
(* The measurement part of the analysis form (RenderFormPage.js): the      *)
(* benchmark and its parameters, the target (AUTO or a pinned node), and   *)
(* the policies, loaded per target, that bound the input size.             *)
(*                                                                         *)
(* A loader is an effect of React: when what it depends on changes, its    *)
(* cleanup marks the request under way as cancelled and a new one starts.  *)
(* A request keeps a flag `live` for that; a cancelled request can still   *)
(* be answered.                                                            *)
(***************************************************************************)
EXTENDS Integers, FiniteSets

CONSTANTS Nodes,     \* the nodes a user may pin
          TaskTypes, \* "lcs", "camm", "size" or some of them
          Inputs,    \* the input sizes a user can enter
          Samples,   \* the repetitions a user can enter
          Limits     \* Limits[target]: the matrix, [min, default, max] for
                     \* each <<task, profile>> it offers; AUTO offers all

Empty == -1          \* an empty number field
NoTarget == "none"   \* no policies on screen
Profiles == {"rapido", "equilibrado", "exhaustivo", "personalizado"}
Targets == {"AUTO"} \cup Nodes

ASSUME MeasurementAssumption ==
  /\ TaskTypes \subseteq {"lcs", "camm", "size"}
  /\ Inputs \subseteq Int
  /\ Samples \subseteq Int
  /\ "AUTO" \notin Nodes /\ NoTarget \notin Nodes
  /\ DOMAIN Limits = Targets
  /\ \A g \in Targets :
       /\ DOMAIN Limits[g] \subseteq TaskTypes \X Profiles
       /\ g = "AUTO" => DOMAIN Limits[g] = TaskTypes \X Profiles
       /\ \A c \in DOMAIN Limits[g] :
            /\ Limits[g][c] \in [min : Nat, default : Nat, max : Nat]
            /\ Limits[g][c].min <= Limits[g][c].default
            /\ Limits[g][c].default <= Limits[g][c].max

VARIABLES task,         \* selectedTaskType, "" when none is chosen
          dataType,     \* chosen for camm only
          input,        \* inputSize
          samples,
          profile,      \* executionProfile
          mode,         \* measurementNodeMode
          nodeKey,      \* measurementNodeKey, NoTarget when none
          nodes,        \* [items, loading, error]
          policy,       \* [of: target of the matrix on screen, loading, error]
          availability, \* measurementAvailability
          policyReads,  \* requests for policies, [target, live]
          nodeReads     \* requests for nodes, [live]

parameterVars == <<task, dataType, input, samples, profile>>
targetVars == <<mode, nodeKey, nodes, policy, availability, policyReads,
                nodeReads>>
measurementVars == <<parameterVars, targetVars>>

MeasurementTypeOK ==
  /\ task \in TaskTypes \cup {""}
  /\ dataType \in {"", "cammr"}
  /\ input \in Int /\ samples \in Int
  /\ profile \in Profiles
  /\ mode \in {"AUTO", "PINNED"}
  /\ nodeKey \in Nodes \cup {NoTarget}
  /\ nodes \in [items : SUBSET Nodes, loading : BOOLEAN, error : BOOLEAN]
  /\ policy \in [of : Targets \cup {NoTarget}, loading : BOOLEAN,
                 error : BOOLEAN]
  /\ availability \in {"CHECKING", "AVAILABLE", "UNAVAILABLE", "UNKNOWN"}
  /\ policyReads \subseteq [target : Targets, live : BOOLEAN]
  /\ nodeReads \subseteq BOOLEAN

----------------------------------------------------------------------------
\* EXECUTION_PROFILE_SAMPLES; a custom profile fixes no number.
FixedSamples == [rapido |-> 10, equilibrado |-> 30, exhaustivo |-> 50]

\* Mutant: a number no profile fixes gives no profile.
InferNamed(n) ==
  IF \E p \in DOMAIN FixedSamples : FixedSamples[p] = n
  THEN CHOOSE p \in DOMAIN FixedSamples : FixedSamples[p] = n ELSE ""

\* inferExecutionProfileFromSamples
InferProfile(n) ==
  IF \E p \in DOMAIN FixedSamples : FixedSamples[p] = n
  THEN CHOOSE p \in DOMAIN FixedSamples : FixedSamples[p] = n
  ELSE "personalizado"

\* resolveMeasurementPolicy and measurementPolicyInputLimits.
Offers(of, k, p) == of # NoTarget /\ <<k, p>> \in DOMAIN Limits[of]
HasPolicy(k, p) == Offers(policy.of, k, p)
InputLimits(k, p) == Limits[policy.of][<<k, p>>]

Within(n, l) == l.min <= n /\ n <= l.max

\* The effect that fills an empty input with the default of the policy in
\* force; it runs after every change of the task, samples, input or matrix.
Filled(n, of, k, s) ==
  IF n = Empty /\ Offers(of, k, InferProfile(s))
  THEN Limits[of][<<k, InferProfile(s)>>].default ELSE n

\* Mutant: the input is aligned with the policy in force before the change.
AlignedBefore(n, p) ==
  IF HasPolicy(task, InferProfile(samples))
     /\ ~Within(n, InputLimits(task, InferProfile(samples)))
  THEN InputLimits(task, InferProfile(samples)).default ELSE n

\* alignInputWithPolicyForSamples, and the same test in
\* handleExecutionProfileChange: the input follows the policy of profile p.
Aligned(n, p) ==
  IF HasPolicy(task, p) /\ ~Within(n, InputLimits(task, p))
  THEN InputLimits(task, p).default ELSE n

\* Mutant: the cleanup of the effect is missing.
StillLive(requests) == requests

\* Of the requests of an effect that runs again, none stays live.
Cancelled(requests) == {[r EXCEPT !.live = FALSE] : r \in requests}

\* The policies' effect, for the mode and node it now depends on.
ReadPolicies(m, key) ==
  IF m = "PINNED" /\ key = NoTarget
  THEN /\ policy' = [of |-> NoTarget, loading |-> FALSE, error |-> FALSE]
       /\ policyReads' = Cancelled(policyReads)
  ELSE /\ policy' = [of |-> NoTarget, loading |-> TRUE, error |-> FALSE]
       /\ policyReads' = Cancelled(policyReads) \cup
            {[target |-> IF m = "PINNED" THEN key ELSE "AUTO", live |-> TRUE]}

MeasurementInit ==
  /\ task = "" /\ dataType = "" /\ input = Empty /\ samples = 30
  /\ profile = "equilibrado"
  /\ mode = "AUTO" /\ nodeKey = NoTarget
  /\ nodes = [items |-> {}, loading |-> FALSE, error |-> FALSE]
  /\ policy = [of |-> NoTarget, loading |-> TRUE, error |-> FALSE]
  /\ availability = "CHECKING"
  /\ policyReads = {[target |-> "AUTO", live |-> TRUE]}
  /\ nodeReads = {}

----------------------------------------------------------------------------
\* handleTaskChange: default of the new task's policy, samples of the profile.
TaskChange(k) ==
  /\ task' = k
  /\ dataType' = IF task # k THEN "" ELSE dataType
  /\ samples' = IF profile \in DOMAIN FixedSamples THEN FixedSamples[profile]
                ELSE IF samples = Empty THEN 1 ELSE samples
  /\ input' = Filled(IF HasPolicy(k, InferProfile(samples))
                     THEN InputLimits(k, InferProfile(samples)).default
                     ELSE Empty, policy.of, k, samples')
  /\ UNCHANGED <<profile, targetVars>>

\* What the card of the chosen benchmark shows: the input field, the slider
\* and presets of its policy, the repetitions of a custom profile, the kind
\* of data of camm (TestTypeAndParamsCard).
InputField == task # ""
InputSlider == task # "" /\ HasPolicy(task, InferProfile(samples))
SamplesField == task # "" /\ profile = "personalizado"
DataTypeField == task = "camm"

\* handleInputSizeChange; the field can be emptied.
InputSizeChange(n) ==
  /\ InputField
  /\ input' = Filled(n, policy.of, task, samples)
  /\ UNCHANGED <<task, dataType, samples, profile, targetVars>>

\* normalizePolicySliderValue with a step of one: the value the slider sends
\* stays between the limits.
SliderValue(n, l) ==
  IF n < l.min THEN l.min ELSE IF n > l.max THEN l.max ELSE n

InputSizeSliderChange(n) ==
  /\ InputSlider
  /\ input' = SliderValue(n, InputLimits(task, InferProfile(samples)))
  /\ UNCHANGED <<task, dataType, samples, profile, targetVars>>

\* handleSamplesChange and its slider: only the custom profile has the field.
SamplesChange(n) ==
  /\ SamplesField
  /\ samples' = n
  /\ input' = Filled(IF n # Empty THEN Aligned(input, InferProfile(n))
                     ELSE input, policy.of, task, n)
  /\ UNCHANGED <<task, dataType, profile, targetVars>>

\* handleSamplesStep: the buttons beside the field count from 1 if it is empty.
SamplesStep(step) ==
  LET current == IF samples = Empty THEN 1 ELSE samples
  IN SamplesChange(SliderValue(current + step, [min |-> 1, max |-> 100]))

\* handleExecutionProfileChange: samples and input follow the new profile.
ExecutionProfileChange(p) ==
  /\ profile' = p
  /\ IF p \in DOMAIN FixedSamples
     THEN /\ samples' = FixedSamples[p]
          /\ input' = Filled(Aligned(input, p), policy.of, task, samples')
     ELSE UNCHANGED <<samples, input>>
  /\ UNCHANGED <<task, dataType, targetVars>>

DataTypeChange(d) ==
  /\ DataTypeField
  /\ dataType' = d
  /\ UNCHANGED <<task, input, samples, profile, targetVars>>

----------------------------------------------------------------------------
\* handleMeasurementNodeModeChange, with the two effects it triggers.
NodeModeChange(m) ==
  /\ m # mode
  /\ mode' = m /\ nodeKey' = NoTarget
  /\ availability' = "CHECKING"
  /\ ReadPolicies(m, NoTarget)
  /\ nodes' = IF m = "AUTO"
              THEN [items |-> {}, loading |-> FALSE, error |-> FALSE]
              ELSE [nodes EXCEPT !.loading = TRUE, !.error = FALSE]
  /\ nodeReads' = IF m = "AUTO" THEN {FALSE : r \in nodeReads}
                  ELSE {FALSE : r \in nodeReads} \cup {TRUE}
  /\ UNCHANGED parameterVars

\* What MeasurementAndProfileSection shows under the two modes.
NodePicker ==
  CASE mode = "AUTO" -> "hidden"
    [] mode = "PINNED" /\ nodes.loading -> "loading"
    [] mode = "PINNED" /\ ~nodes.loading /\ nodes.error -> "retry"
    [] OTHER -> IF nodes.items = {} THEN "empty" ELSE "list"

AvailabilityRetry == mode = "AUTO" /\ availability = "UNAVAILABLE"

\* handleMeasurementNodeChange
NodeChange(key) ==
  /\ NodePicker = "list"
  /\ key # nodeKey
  /\ nodeKey' = IF key \in nodes.items THEN key ELSE NoTarget
  /\ ReadPolicies(mode, nodeKey')
  /\ availability' = IF nodeKey' = NoTarget THEN availability ELSE "CHECKING"
  /\ UNCHANGED <<parameterVars, mode, nodes, nodeReads>>

\* The retry buttons of MeasurementAndProfileSection.
RetryAvailability ==
  /\ AvailabilityRetry
  /\ ReadPolicies(mode, nodeKey)
  /\ availability' = "CHECKING"
  /\ UNCHANGED <<parameterVars, mode, nodeKey, nodes, nodeReads>>

RetryNodes ==
  /\ NodePicker = "retry"
  /\ nodes' = [nodes EXCEPT !.loading = TRUE, !.error = FALSE]
  /\ nodeReads' = {FALSE : r \in nodeReads} \cup {TRUE}
  /\ UNCHANGED <<parameterVars, mode, nodeKey, policy, availability,
                 policyReads>>

----------------------------------------------------------------------------
\* An answer to a request for policies.  Only the live request writes state:
\* the matrix of its target, or an error.
PolicyShown(r, of, available) ==
  /\ policy' = [of |-> of, loading |-> FALSE, error |-> of = NoTarget]
  /\ availability' = available
  /\ input' = Filled(input, of, task, samples)

PolicyAnswer(r) ==
  /\ r \in policyReads
  /\ policyReads' = policyReads \ {r}
  /\ IF r.live
     THEN \/ \E a \in {"AVAILABLE", "UNAVAILABLE"} : PolicyShown(r, r.target, a)
          \/ PolicyShown(r, NoTarget, availability)   \* an invalid matrix
          \/ PolicyShown(r, NoTarget, "UNKNOWN")      \* the request failed
     ELSE UNCHANGED <<policy, availability, input>>
  /\ UNCHANGED <<task, dataType, samples, profile, mode, nodeKey, nodes,
                 nodeReads>>

\* An answer to a request for nodes: the pinned node survives if it is listed.
NodesAnswer(live) ==
  /\ live \in nodeReads
  /\ nodeReads' = nodeReads \ {live}
  /\ IF live
     THEN \E items \in SUBSET Nodes, failed \in BOOLEAN :
            /\ failed => items = {}
            /\ nodes' = [items |-> items, loading |-> FALSE, error |-> failed]
            /\ nodeKey' = IF nodeKey \in items THEN nodeKey ELSE NoTarget
            /\ IF nodeKey' # nodeKey
               THEN ReadPolicies(mode, nodeKey')
               ELSE UNCHANGED <<policy, policyReads>>
     ELSE UNCHANGED <<nodes, nodeKey, policy, policyReads>>
  /\ UNCHANGED <<parameterVars, mode, availability>>

----------------------------------------------------------------------------
\* The measurement's part of buildAnalysisRequirements.
TargetRequirements ==
  (IF mode = "PINNED" /\ nodeKey = NoTarget
   THEN {"measurementNodeRequired"} ELSE {})
  \cup (IF policy.loading THEN {"measurementPolicyLoading"}
        ELSE IF ~(mode = "PINNED" /\ nodeKey = NoTarget)
                /\ \/ policy.error \/ policy.of = NoTarget
                   \/ task # "" /\ ~HasPolicy(task, InferProfile(samples))
        THEN {"measurementPolicyUnavailable"} ELSE {})
  \cup (IF mode = "AUTO" /\ ~policy.loading /\ ~policy.error
           /\ availability = "UNAVAILABLE"
        THEN {"measurementUnavailable"} ELSE {})

ParameterRequirements ==
  IF task = "" THEN {"benchmarkRequired"}
  ELSE (IF input = Empty \/ (HasPolicy(task, InferProfile(samples)) /\
             ~Within(input, InputLimits(task, InferProfile(samples))))
        THEN {"inputSizeInvalid"} ELSE {})
       \cup (IF profile = "personalizado" /\ (samples < 1 \/ samples > 100)
             THEN {"samplesInvalid"} ELSE {})
       \cup (IF task = "camm" /\ dataType = "" THEN {"dataTypeRequired"} ELSE {})

\* handleResetForm, the measurement's part; the reload token makes the
\* policies' effect run again.
MeasurementReset ==
  /\ task' = "" /\ dataType' = "" /\ input' = Empty /\ samples' = 30
  /\ profile' = "equilibrado"
  /\ mode' = "AUTO" /\ nodeKey' = NoTarget
  /\ nodes' = [items |-> {}, loading |-> FALSE, error |-> FALSE]
  /\ nodeReads' = {FALSE : r \in nodeReads}
  /\ ReadPolicies("AUTO", NoTarget)
  /\ availability' = "CHECKING"

\* What the user can do with the parameters and with the target, and what the
\* backend answers.
ParameterEdits ==
  \/ \E k \in TaskTypes : TaskChange(k)
  \/ \E n \in Inputs \cup {Empty} : InputSizeChange(n)
  \/ \E n \in Inputs : InputSizeSliderChange(n)
  \/ \E n \in Samples \cup {Empty} : SamplesChange(n)
  \/ \E step \in {-1, 1} : SamplesStep(step)
  \/ \E p \in Profiles : ExecutionProfileChange(p)
  \/ DataTypeChange("cammr")

TargetEdits ==
  \/ \E m \in {"AUTO", "PINNED"} : NodeModeChange(m)
  \/ \E key \in Nodes \cup {NoTarget} : NodeChange(key)
  \/ RetryAvailability
  \/ RetryNodes

MeasurementAnswers ==
  \/ \E r \in policyReads : PolicyAnswer(r)
  \/ \E live \in nodeReads : NodesAnswer(live)

(* The policies on screen are those of the target on screen, whatever the   *)
(* order in which requests for several targets are answered.                *)
PolicyOfTarget ==
  policy.of # NoTarget =>
    policy.of = IF mode = "PINNED" THEN nodeKey ELSE "AUTO"

(* An input the policy allows stays allowed when the user moves to another  *)
(* task, number of repetitions or profile: each handler has to align it     *)
(* with the policy that will be in force after its own change, not with the *)
(* one in force when it runs.  An empty number of repetitions is excepted:  *)
(* handleSamplesChange does not align it, and the review stays closed.      *)
InLimits ==
  HasPolicy(task, InferProfile(samples)) =>
    Within(input, InputLimits(task, InferProfile(samples)))

ProfileMatches == profile \in DOMAIN FixedSamples => samples = FixedSamples[profile]

InputFollowsPolicy ==
  [][ /\ ParameterEdits /\ InLimits /\ ProfileMatches
      /\ <<task, samples, profile>>' # <<task, samples, profile>>
      /\ samples' # Empty
      => InLimits' ]_measurementVars

============================================================================
