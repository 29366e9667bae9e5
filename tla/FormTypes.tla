----------------------------- MODULE FormTypes ------------------------------
(***************************************************************************)
(* The type invariant of the analysis form, for any archives, nodes,       *)
(* limits, courses, configurations and executions.  What a page restores   *)
(* it has stored, sent or been given before, so the types of the form need *)
(* those of its draft, of its submissions and of what was accepted.        *)
(***************************************************************************)
EXTENDS StatusPanelProofs

\* The parameters of the form, and a form as a draft keeps it.
ParametersOK ==
  /\ task \in TaskTypes \cup {""} /\ dataType \in {"", "cammr"}
  /\ input \in Int /\ profile \in Profiles
ValueOK(v) ==
  /\ v.title \in Zips \cup {"typed", ""}
  /\ v.task \in TaskTypes \cup {""} /\ v.dataType \in {"", "cammr"}
  /\ v.input \in Int /\ v.profile \in Profiles

DraftOK == (draft = {} \/ \E d : draft = {d}) /\ \A d \in draft : ValueOK(d)
SubmittedOK ==
  /\ \A p \in posts : /\ p.stage \in {"sent", "accepted", "failed"}
                      /\ p.ours \in BOOLEAN /\ p.protocol \in BOOLEAN
                      /\ p.course \in Courses \cup {NoCourse}
                      /\ p.input \in Int
  /\ \A f \in DOMAIN accepted : accepted[f].input \in Int

\* What the other proofs already know of the page.
Grounds == SamplesInv /\ PanelInv /\ TargetInv

----------------------------------------------------------------------------
(***************************************************************************)
(* The operators of the parameters.                                        *)
(***************************************************************************)
LEMMA LimitsInt ==
  ASSUME NEW of \in Targets \cup {NoTarget}, NEW k, NEW p, Offers(of, k, p)
  PROVE  /\ Limits[of][<<k, p>>].min \in Int
         /\ Limits[of][<<k, p>>].default \in Int
         /\ Limits[of][<<k, p>>].max \in Int
<1>1. of \in Targets /\ <<k, p>> \in DOMAIN Limits[of]
  BY DEF Offers
<1>2. Limits[of][<<k, p>>] \in [min : Nat, default : Nat, max : Nat]
  BY <1>1, MeasurementAssumption
<1>3. QED
  BY <1>2

LEMMA FilledInt ==
  ASSUME NEW n \in Int, NEW of \in Targets \cup {NoTarget}, NEW k, NEW s
  PROVE  Filled(n, of, k, s) \in Int
BY LimitsInt DEF Filled

LEMMA AlignedInt ==
  ASSUME NEW n \in Int, NEW p, policy.of \in Targets \cup {NoTarget}
  PROVE  Aligned(n, p) \in Int
BY LimitsInt DEF Aligned, HasPolicy, InputLimits

LEMMA SliderInt ==
  ASSUME NEW n \in Int, NEW l, l.min \in Int, l.max \in Int
  PROVE  SliderValue(n, l) \in Int
BY DEF SliderValue

LEMMA InferredProfile ==
  ASSUME NEW n
  PROVE  InferProfile(n) \in Profiles
<1>1. CASE \E p \in DOMAIN FixedSamples : FixedSamples[p] = n
  <2>1. InferProfile(n) \in DOMAIN FixedSamples
    BY <1>1 DEF InferProfile
  <2>2. QED
    BY <2>1 DEF FixedSamples, Profiles
<1>2. CASE ~\E p \in DOMAIN FixedSamples : FixedSamples[p] = n
  BY <1>2 DEF InferProfile, Profiles
<1>3. QED
  BY <1>1, <1>2

\* What is read from a draft has the types of what was stored.
LEMMA RestoredOK ==
  ASSUME NEW d, DOMAIN d = ValueFields, ValueOK(d)
  PROVE  ValueOK(Restored(d))
<1> DEFINE p == NormalProfile(d.profile, d.samples)
           n == IF p \in DOMAIN FixedSamples THEN FixedSamples[p]
                ELSE SliderValue(d.samples, [min |-> 1, max |-> 100])
           i == IF d.input = Empty /\ d.task = "" THEN 1000 ELSE d.input
<1>1. Restored(d) = [d EXCEPT !.profile = p, !.samples = n, !.input = i]
  BY DEF Restored
<1>2. p \in Profiles
  BY InferredProfile DEF NormalProfile, ValueOK
<1>3. i \in Int
  <2>1. d.input \in Int
    BY DEF ValueOK
  <2>2. 1000 \in Int
    OBVIOUS
  <2>3. QED
    BY <2>1, <2>2, Zenon
<1> HIDE DEF p, n, i
<1>4. QED
  BY <1>1, <1>2, <1>3 DEF ValueOK, ValueFields

\* A page is mounted with values of the right types.
LEMMA MountedValues ==
  ASSUME SamplesInv, DraftOK, NEW s, Mount(s)
  PROVE  \E v : Fresh(s, v) /\ ValueOK(v)
<1> DEFINE starter == [title |-> "", task |-> StarterOf.task,
                       dataType |-> StarterOf.dataType,
                       input |-> StarterOf.input,
                       samples |-> StarterOf.samples,
                       profile |-> StarterOf.profile]
           restored == Restored(CHOOSE d \in draft : TRUE)
<1>1. CASE s.kind = "starter"
  <2>1. ValueOK(starter)
    BY FormAssumption DEF ValueOK, Configurations
  <2>2. Fresh(s, starter)
    BY <1>1 DEF Mount
  <2> HIDE DEF starter
  <2>3. QED
    BY <2>1, <2>2
<1>2. CASE s.kind # "starter" /\ draftRestored'
  <2>1. draft # {}
    BY <1>2 DEF Mount
  <2>2. (CHOOSE d \in draft : TRUE) \in draft
    BY <2>1
  <2>3. ValueOK(restored)
    BY <2>2, RestoredOK DEF SamplesInv, DraftSound, DraftOK
  <2>4. Fresh(s, restored)
    BY <1>2 DEF Mount
  <2> HIDE DEF restored
  <2>5. QED
    BY <2>3, <2>4
<1>3. CASE s.kind # "starter" /\ ~draftRestored'
  <2>1. ValueOK(FreshValues)
    BY DEF ValueOK, FreshValues, Empty, Profiles
  <2>2. Fresh(s, FreshValues)
    BY <1>3 DEF Mount
  <2>3. QED
    BY <2>1, <2>2
<1>4. QED
  BY <1>1, <1>2, <1>3

----------------------------------------------------------------------------
(***************************************************************************)
(* The archive and the parameters.                                         *)
(***************************************************************************)
ValuesOK == ZipTypeOK /\ ParametersOK

LEMMA FreshOK ==
  ASSUME NEW s, NEW v, Fresh(s, v), ValueOK(v)
  PROVE  ValuesOK'
<1>1. ZipTypeOK'
  BY DEF Fresh, ValueOK, ZipReset, ZipTypeOK, ManualTitle, Titles
<1>2. ParametersOK'
  BY DEF Fresh, ValueOK, ParametersOK
<1>3. QED
  BY <1>1, <1>2 DEF ValuesOK

LEMMA ArchiveOK ==
  ASSUME ValuesOK, ArchiveStep
  PROVE  ValuesOK'
<1>1. UNCHANGED parameterVars
  BY DEF ArchiveStep, EditArchive, FormEndReading, measurementVars
<1>2. ASSUME NEW zip \in Zips, ChooseZip(zip)
      PROVE  ZipTypeOK'
  BY <1>2 DEF ValuesOK, ZipTypeOK, ChooseZip, StartReading
<1>3. ASSUME ChooseNothing
      PROVE  ZipTypeOK'
  BY <1>3 DEF ValuesOK, ZipTypeOK, ChooseNothing, ZipReset
<1>4. ASSUME NEW text \in {"typed", ""}, TypeTitle(text)
      PROVE  ZipTypeOK'
  BY <1>4 DEF ValuesOK, ZipTypeOK, TypeTitle, ManualTitle, Titles
<1>5. ASSUME NEW zip \in reads, FormEndReading(zip)
      PROVE  ZipTypeOK'
  <2>1. zip \in Zips
    BY DEF ValuesOK, ZipTypeOK
  <2>2. Suggested(title, zip) \in Titles
    BY <2>1 DEF ValuesOK, ZipTypeOK, Suggested, Titles
  <2>3. QED
    BY <1>5, <2>1, <2>2
       DEF ValuesOK, ZipTypeOK, FormEndReading, EndReading, ReadingWrites
<1>6. ZipTypeOK'
  BY <1>2, <1>3, <1>4, <1>5 DEF ArchiveStep, EditArchive
<1>7. QED
  BY <1>1, <1>6 DEF ValuesOK, ParametersOK, parameterVars

LEMMA EditsOK ==
  ASSUME SamplesInv, ValuesOK, policy.of \in Targets \cup {NoTarget},
         ParameterEdits
  PROVE  ParametersOK'
<1>1. samples \in Int
  BY DEF SamplesInv, FormSound, Sound
<1>2. Inputs \subseteq Int /\ Samples \subseteq Int /\ Empty \in Int
  <2>1. Inputs \subseteq Int /\ Samples \subseteq Int
    BY MeasurementAssumption, Zenon
  <2>2. Empty \in Int
    BY DEF Empty
  <2>3. QED
    BY <2>1, <2>2
<1>3. ASSUME NEW k \in TaskTypes, TaskChange(k)
      PROVE  ParametersOK'
  <2> DEFINE n == IF HasPolicy(k, InferProfile(samples))
                  THEN InputLimits(k, InferProfile(samples)).default
                  ELSE Empty
  <2>1. n \in Int
    BY <1>2, LimitsInt DEF HasPolicy, InputLimits
  <2>2. input' = Filled(n, policy.of, k, samples')
    BY <1>3 DEF TaskChange
  <2> HIDE DEF n
  <2>3. input' \in Int
    BY <2>1, <2>2, FilledInt
  <2>4. task' = k /\ profile' = profile
        /\ dataType' = IF task # k THEN "" ELSE dataType
    BY <1>3, Zenon DEF TaskChange
  <2>5. dataType' \in {"", "cammr"}
    BY <2>4 DEF ValuesOK, ParametersOK
  <2>6. QED
    BY <2>3, <2>4, <2>5 DEF ValuesOK, ParametersOK
<1>4. ASSUME NEW n \in Int, InputSizeChange(n)
      PROVE  ParametersOK'
  BY <1>4, FilledInt DEF InputSizeChange, ValuesOK, ParametersOK
<1>5. ASSUME NEW n \in Int, InputSizeSliderChange(n)
      PROVE  ParametersOK'
  <2>1. Offers(policy.of, task, InferProfile(samples))
    BY <1>5 DEF InputSizeSliderChange, InputSlider, HasPolicy
  <2>2. SliderValue(n, InputLimits(task, InferProfile(samples))) \in Int
    BY <2>1, LimitsInt, SliderInt DEF InputLimits
  <2>3. QED
    BY <1>5, <2>2 DEF InputSizeSliderChange, ValuesOK, ParametersOK
<1>6. ASSUME NEW n \in Int, SamplesChange(n)
      PROVE  ParametersOK'
  <2>1. (IF n # Empty THEN Aligned(input, InferProfile(n)) ELSE input) \in Int
    BY AlignedInt DEF ValuesOK, ParametersOK
  <2>2. QED
    BY <1>6, <2>1, FilledInt DEF SamplesChange, ValuesOK, ParametersOK
<1>7. ASSUME NEW step \in {-1, 1}, SamplesStep(step)
      PROVE  ParametersOK'
  <2> DEFINE current == IF samples = Empty THEN 1 ELSE samples
  <2>1. SliderValue(current + step, [min |-> 1, max |-> 100]) \in Int
    BY <1>1, SliderRange
  <2>2. QED
    BY <1>6, <1>7, <2>1 DEF SamplesStep
<1>8. ASSUME NEW p \in Profiles, ExecutionProfileChange(p)
      PROVE  ParametersOK'
  BY <1>8, AlignedInt, FilledInt
     DEF ExecutionProfileChange, ValuesOK, ParametersOK
<1>9. CASE DataTypeChange("cammr")
  BY <1>9 DEF DataTypeChange, ValuesOK, ParametersOK
<1>10. QED
  BY <1>2, <1>3, <1>4, <1>5, <1>6, <1>7, <1>8, <1>9 DEF ParameterEdits

LEMMA ConfigureOK ==
  ASSUME policy.of \in Targets \cup {NoTarget},
         NEW c \in {RepeatOf, ReuseOf, ProtocolOf, StarterOf}, NEW text,
         Configure(c, text)
  PROVE  ParametersOK' /\ title' = text
<1>1. c \in Configurations
  BY FormAssumption
<1>2. /\ c.task \in TaskTypes \cup {""} /\ c.dataType \in {"", "cammr"}
      /\ c.input \in Int /\ c.profile \in Profiles
  BY <1>1 DEF Configurations
<1>3. input' \in Int
  BY <1>2, FilledInt DEF Configure
<1>4. QED
  BY <1>2, <1>3 DEF Configure, ParametersOK

LEMMA ZipKept ==
  ASSUME ZipTypeOK, UNCHANGED <<file, fileMeta, fileError, inspecting, reads>>,
         title' \in Titles
  PROVE  ZipTypeOK'
BY DEF ZipTypeOK

LEMMA ManualOK ==
  ASSUME NEW text \in {"typed", ""}
  PROVE  ManualTitle(text) \in Titles
BY DEF ManualTitle, Titles

LEMMA RepeatOK ==
  ASSUME ValuesOK, policy.of \in Targets \cup {NoTarget}, RepeatLoaded
  PROVE  ValuesOK'
<1>1. RepeatZip \in Zips
  BY FormAssumption
<1>2. Suggested(ManualTitle(""), RepeatZip) \in Titles
  BY <1>1 DEF Suggested, ManualTitle, Titles
<1>3. CASE RepeatZip \in Unreadable
  BY <1>3
     DEF RepeatLoaded, ValuesOK, ZipTypeOK, ParametersOK, measurementVars,
         parameterVars
<1>4. CASE RepeatZip \notin Unreadable
  <2>1. Configure(RepeatOf, Suggested(ManualTitle(""), RepeatZip))
    BY <1>4 DEF RepeatLoaded
  <2>2. ParametersOK' /\ title' \in Titles
    BY <1>2, <2>1, ConfigureOK
  <2>3. /\ reads' = reads \ {RepeatZip} /\ inspecting' = FALSE
        /\ fileMeta' = RepeatZip /\ file' = file
        /\ fileError' \in {"noSource", fileError}
    BY <1>4 DEF RepeatLoaded
  <2>4. QED
    BY <1>1, <2>2, <2>3 DEF ValuesOK, ZipTypeOK
<1>5. QED
  BY <1>3, <1>4

LEMMA LoadsOK ==
  ASSUME SamplesInv, SubmittedOK, ValuesOK,
         policy.of \in Targets \cup {NoTarget}, LoadStep
  PROVE  ValuesOK'
<1>1. CASE LoadFails \/ RepeatDescriptor
  BY <1>1
     DEF LoadFails, RepeatDescriptor, measurementVars, parameterVars, zipVars,
         ValuesOK, ZipTypeOK, ParametersOK
<1>2. CASE RepeatArchive
  <2>1. RepeatZip \in Zips
    BY FormAssumption
  <2>2. QED
    BY <1>2, <2>1
       DEF RepeatArchive, StartReading, measurementVars, parameterVars,
           ValuesOK, ZipTypeOK, ParametersOK
<1>3. CASE RepeatLoaded
  BY <1>3, RepeatOK
<1>4. CASE ReuseLoaded
  <2>1. ParametersOK' /\ title' = title
    BY <1>4, ConfigureOK DEF ReuseLoaded
  <2>2. QED
    BY <1>4, <2>1, ZipKept DEF ReuseLoaded, ValuesOK, ZipTypeOK
<1>5. CASE ProtocolLoaded
  <2>1. ParametersOK' /\ title' = ManualTitle("")
    BY <1>5, ConfigureOK DEF ProtocolLoaded
  <2>2. ZipReset /\ reads' = reads
    BY <1>5 DEF ProtocolLoaded
  <2>3. QED
    BY <2>1, <2>2, ManualOK DEF ZipReset, ValuesOK, ZipTypeOK
<1>6. CASE ExecutionRestored
  <2>1. accepted[search.files].input \in Int
    BY <1>6 DEF ExecutionRestored, SamplesInv, SentSound, SubmittedOK
  <2>2. title' \in Titles
    BY <1>6, ManualOK DEF ExecutionRestored
  <2>3. ZipTypeOK'
    BY <1>6, <2>2, ZipKept DEF ExecutionRestored, ValuesOK
  <2>4. input' \in Int /\ UNCHANGED <<task, dataType, profile>>
    BY <1>6, <2>1 DEF ExecutionRestored
  <2>5. QED
    BY <2>3, <2>4 DEF ValuesOK, ParametersOK
<1>7. QED
  BY <1>1, <1>2, <1>3, <1>4, <1>5, <1>6 DEF LoadStep

LEMMA MeasurementOK ==
  ASSUME Grounds, ValuesOK, policy.of \in Targets \cup {NoTarget},
         MeasurementStep
  PROVE  ValuesOK'
<1>1. UNCHANGED zipVars
  BY DEF MeasurementStep
<1>2. ASSUME ParameterEdits
      PROVE  ParametersOK'
  BY <1>2, EditsOK DEF Grounds
<1>3. ASSUME TargetEdits
      PROVE  ParametersOK'
  BY <1>3
     DEF TargetEdits, NodeModeChange, NodeChange, RetryAvailability,
         RetryNodes, parameterVars, ValuesOK, ParametersOK
<1>4. ASSUME NEW r \in policyReads, PolicyAnswer(r)
      PROVE  ParametersOK'
  <2>1. r.target \in Targets
    BY DEF Grounds, TargetInv
  <2>2. CASE r.live
    <3>1. PICK of \in {r.target, NoTarget},
               a \in {"AVAILABLE", "UNAVAILABLE", "UNKNOWN", availability} :
            PolicyShown(r, of, a)
      BY <1>4, <2>2 DEF PolicyAnswer
    <3>2. input' \in Int
      BY <2>1, <3>1, FilledInt DEF PolicyShown, ValuesOK, ParametersOK
    <3>3. QED
      BY <1>4, <3>2 DEF PolicyAnswer, ValuesOK, ParametersOK
  <2>3. CASE ~r.live
    BY <1>4, <2>3 DEF PolicyAnswer, ValuesOK, ParametersOK
  <2>4. QED
    BY <2>2, <2>3
<1>5. ASSUME NEW live, NodesAnswer(live)
      PROVE  ParametersOK'
  BY <1>5 DEF NodesAnswer, parameterVars, ValuesOK, ParametersOK
<1>6. ParametersOK'
  BY <1>2, <1>3, <1>4, <1>5 DEF MeasurementStep, MeasurementAnswers
<1>7. QED
  BY <1>1, <1>6 DEF ValuesOK, ZipTypeOK, zipVars

LEMMA ValuesStep ==
  ASSUME Grounds, DraftOK, SubmittedOK, ValuesOK,
         policy.of \in Targets \cup {NoTarget}, Next
  PROVE  ValuesOK'
<1> DEFINE Same == UNCHANGED <<zipVars, parameterVars>>
<1>1. CASE Same
  BY <1>1 DEF ValuesOK, ZipTypeOK, ParametersOK, zipVars, parameterVars
<1>2. ASSUME NEW s, Mount(s)
      PROVE  ValuesOK'
  BY <1>2, MountedValues, FreshOK DEF Grounds
<1>3. CASE Leave
  <2>1. ValueOK(FreshValues)
    BY DEF ValueOK, FreshValues, Empty, Profiles
  <2>2. QED
    BY <1>3, <2>1, FreshOK DEF Leave
<1>4. CASE GoHome \/ GoBack \/ CourseStep \/ ReviewStep
  <2>1. Same
    BY <1>4
       DEF GoHome, GoBack, CourseStep, CoursesAnswer, RetryCourses, CourseChange,
           ReviewStep, OpenOverview, CancelOverview, ConfirmExecution,
           PrepareRetry, measurementVars
  <2>2. QED
    BY <1>1, <2>1
<1>5. CASE PostStep \/ PollingStep \/ BackendStep
  <2>1. Same
    BY <1>5
       DEF PostStep, PostAtBackend, PostFailed, PollingStep, PollingFrame,
           BackendStep, measurementVars
  <2>2. QED
    BY <1>1, <2>1
<1>6. CASE ArchiveStep \/ LoadStep \/ MeasurementStep
  BY <1>6, ArchiveOK, LoadsOK, MeasurementOK DEF Grounds
<1>7. CASE ResetForm
  <2>1. title' \in Titles
    BY <1>7, ManualOK DEF ResetForm
  <2>2. ZipReset /\ reads' = reads /\ MeasurementReset
    BY <1>7 DEF ResetForm
  <2>3. /\ task' = "" /\ dataType' = "" /\ input' = Empty
        /\ profile' = "equilibrado"
    BY <2>2, Zenon DEF MeasurementReset
  <2>4. Empty \in Int
    BY DEF Empty
  <2>5. ParametersOK'
    BY <2>3, <2>4 DEF ParametersOK, Profiles
  <2>6. QED
    BY <2>1, <2>2, <2>5 DEF ZipReset, ValuesOK, ZipTypeOK
<1>8. ASSUME NEW p \in posts, PostAccepted(p)
      PROVE  ValuesOK'
  <2>1. CASE ~mounted
    BY <1>2, <1>8, <2>1 DEF PostAccepted
  <2>2. CASE mounted
    <3>1. Same
      BY <1>8, <2>2 DEF PostAccepted, measurementVars
    <3>2. QED
      BY <1>1, <3>1
  <2>3. QED
    BY <2>1, <2>2
<1>9. QED
  BY <1>2, <1>3, <1>4, <1>5, <1>6, <1>7, <1>8
     DEF Next, NavigationStep, OpenForm, Removal

----------------------------------------------------------------------------
(***************************************************************************)
(* The target.                                                             *)
(***************************************************************************)
TargetOK ==
  /\ mode \in {"AUTO", "PINNED"}
  /\ nodeKey \in Nodes \cup {NoTarget}
  /\ nodes \in [items : SUBSET Nodes, loading : BOOLEAN, error : BOOLEAN]
  /\ policy \in [of : Targets \cup {NoTarget}, loading : BOOLEAN,
                 error : BOOLEAN]
  /\ availability \in {"CHECKING", "AVAILABLE", "UNAVAILABLE", "UNKNOWN"}
  /\ policyReads \subseteq [target : Targets, live : BOOLEAN]
  /\ nodeReads \subseteq BOOLEAN

ReadsOK ==
  /\ policy' \in [of : Targets \cup {NoTarget}, loading : BOOLEAN,
                  error : BOOLEAN]
  /\ policyReads' \subseteq [target : Targets, live : BOOLEAN]

LEMMA ReadPoliciesOK ==
  ASSUME TargetOK, NEW m, NEW key \in Nodes \cup {NoTarget},
         ReadPolicies(m, key)
  PROVE  ReadsOK
<1>1. Cancelled(policyReads) \subseteq [target : Targets, live : BOOLEAN]
  BY CancelledReads DEF TargetOK
<1>2. CASE m = "PINNED" /\ key = NoTarget
  <2>1. policy' = [of |-> NoTarget, loading |-> FALSE, error |-> FALSE]
        /\ policyReads' = Cancelled(policyReads)
    BY <1>2 DEF ReadPolicies
  <2>2. QED
    BY <1>1, <2>1 DEF ReadsOK
<1>3. CASE ~(m = "PINNED" /\ key = NoTarget)
  <2> DEFINE r == [target |-> IF m = "PINNED" THEN key ELSE "AUTO",
                   live |-> TRUE]
  <2>1. r \in [target : Targets, live : BOOLEAN]
    BY <1>3 DEF Targets
  <2>2. policyReads' = Cancelled(policyReads) \cup {r}
    BY <1>3 DEF ReadPolicies
  <2>3. policy' = [of |-> NoTarget, loading |-> TRUE, error |-> FALSE]
    BY <1>3 DEF ReadPolicies
  <2> HIDE DEF r
  <2>4. QED
    BY <1>1, <2>1, <2>2, <2>3 DEF ReadsOK
<1>4. QED
  BY <1>2, <1>3

LEMMA TargetEditsOK ==
  ASSUME TargetOK, TargetEdits
  PROVE  TargetOK'
<1>1. ASSUME NEW m \in {"AUTO", "PINNED"}, NodeModeChange(m)
      PROVE  TargetOK'
  <2>1. ReadsOK
    BY <1>1, ReadPoliciesOK DEF NodeModeChange
  <2>2. nodes' \in [items : SUBSET Nodes, loading : BOOLEAN, error : BOOLEAN]
    BY <1>1 DEF NodeModeChange, TargetOK
  <2>3. nodeReads' \subseteq BOOLEAN
    BY <1>1 DEF NodeModeChange
  <2>4. mode' = m /\ nodeKey' = NoTarget /\ availability' = "CHECKING"
    BY <1>1 DEF NodeModeChange
  <2>5. QED
    BY <2>1, <2>2, <2>3, <2>4 DEF ReadsOK, TargetOK
<1>2. ASSUME NEW key \in Nodes \cup {NoTarget}, NodeChange(key)
      PROVE  TargetOK'
  <2>1. nodeKey' \in Nodes \cup {NoTarget}
    BY <1>2 DEF NodeChange
  <2>2. ReadsOK
    BY <1>2, <2>1, ReadPoliciesOK DEF NodeChange
  <2>3. QED
    BY <1>2, <2>1, <2>2 DEF NodeChange, ReadsOK, TargetOK
<1>3. CASE RetryAvailability
  <2>1. ReadsOK
    BY <1>3, ReadPoliciesOK DEF RetryAvailability, TargetOK
  <2>2. QED
    BY <1>3, <2>1 DEF RetryAvailability, ReadsOK, TargetOK
<1>4. CASE RetryNodes
  BY <1>4 DEF RetryNodes, TargetOK
<1>5. QED
  BY <1>1, <1>2, <1>3, <1>4 DEF TargetEdits

LEMMA TargetAnswersOK ==
  ASSUME TargetOK, MeasurementAnswers
  PROVE  TargetOK'
<1>1. ASSUME NEW r \in policyReads, PolicyAnswer(r)
      PROVE  TargetOK'
  <2>1. /\ policyReads' \subseteq policyReads
        /\ UNCHANGED <<mode, nodeKey, nodes, nodeReads>>
    BY <1>1 DEF PolicyAnswer
  <2>2. CASE r.live
    <3>1. PICK of \in {r.target, NoTarget},
               a \in {"AVAILABLE", "UNAVAILABLE", "UNKNOWN", availability} :
            PolicyShown(r, of, a)
      BY <1>1, <2>2 DEF PolicyAnswer
    <3>2. of \in Targets \cup {NoTarget}
      BY DEF TargetOK
    <3>3. policy' = [of |-> of, loading |-> FALSE, error |-> of = NoTarget]
          /\ availability' = a
      BY <3>1 DEF PolicyShown
    <3>4. QED
      BY <2>1, <3>2, <3>3 DEF TargetOK
  <2>3. CASE ~r.live
    BY <1>1, <2>1, <2>3 DEF PolicyAnswer, TargetOK
  <2>4. QED
    BY <2>2, <2>3
<1>2. ASSUME NEW live \in nodeReads, NodesAnswer(live)
      PROVE  TargetOK'
  <2>1. nodeReads' \subseteq nodeReads /\ UNCHANGED <<mode, availability>>
    BY <1>2 DEF NodesAnswer
  <2>2. CASE live
    <3>1. PICK items \in SUBSET Nodes, failed \in BOOLEAN :
            /\ nodes' = [items |-> items, loading |-> FALSE, error |-> failed]
            /\ nodeKey' = IF nodeKey \in items THEN nodeKey ELSE NoTarget
            /\ IF nodeKey' # nodeKey
               THEN ReadPolicies(mode, nodeKey')
               ELSE UNCHANGED <<policy, policyReads>>
      BY <1>2, <2>2 DEF NodesAnswer
    <3>2. nodeKey' \in Nodes \cup {NoTarget}
      BY <3>1
    <3>3. ReadsOK
      BY <3>1, <3>2, ReadPoliciesOK DEF ReadsOK, TargetOK
    <3>4. QED
      BY <2>1, <3>1, <3>2, <3>3 DEF ReadsOK, TargetOK
  <2>3. CASE ~live
    BY <1>2, <2>1, <2>3 DEF NodesAnswer, TargetOK
  <2>4. QED
    BY <2>2, <2>3
<1>3. QED
  BY <1>1, <1>2 DEF MeasurementAnswers

LEMMA TargetStep ==
  ASSUME TargetOK, Next
  PROVE  TargetOK'
<1>1. CASE UNCHANGED targetVars
  BY <1>1 DEF targetVars, TargetOK
<1>2. CASE TargetFresh
  BY <1>2 DEF TargetFresh, TargetOK, Targets
<1>3. CASE MeasurementReset
  <2>1. ReadsOK
    BY <1>3, ReadPoliciesOK DEF MeasurementReset
  <2>2. /\ mode' = "AUTO" /\ nodeKey' = NoTarget
        /\ nodes' = [items |-> {}, loading |-> FALSE, error |-> FALSE]
        /\ availability' = "CHECKING"
        /\ nodeReads' = {FALSE : r \in nodeReads}
    BY <1>3, Zenon DEF MeasurementReset
  <2>3. QED
    BY <2>1, <2>2 DEF ReadsOK, TargetOK
<1>4. CASE TargetEdits \/ MeasurementAnswers
  BY <1>4, TargetEditsOK, TargetAnswersOK
<1>5. QED
  BY <1>1, <1>2, <1>3, <1>4, TargetShape

----------------------------------------------------------------------------
(***************************************************************************)
(* The rounds of GETs and the cancellations.                               *)
(***************************************************************************)
\* What the page follows, or an address or a submission names, exists.
Exist(files) == \A e \in files : row[e] \in States
RealInv ==
  /\ Exist(search.files) /\ Exist(fileList)
  /\ \A p \in polls : Exist(p.of)
  /\ \A p \in posts : Exist(p.files)
  /\ \A f \in DOMAIN accepted : Exist(f)

LEMMA ExistStill ==
  ASSUME FilesInv, Next
  PROVE  \A e \in Executions : row[e] \in States => row'[e] \in States
<1> SUFFICES ASSUME NEW e \in Executions, row[e] \in States
             PROVE  row'[e] \in States
  OBVIOUS
<1>1. Rank("QUEUED") = 1 /\ Rank("ABSENT") = 0
  BY DEF Rank, TerminalStates
<1>2. Rank(row[e]) \in 1..4
  BY DEF Rank, States, TerminalStates
<1>3. Reached("QUEUED", row[e])
  BY <1>1, <1>2 DEF Reached, TerminalStates
<1>4. Reached("QUEUED", row'[e]) /\ row'[e] \in RowStates
  BY <1>3, RowsMoveOn DEF RowsMove
<1>5. row'[e] # "ABSENT"
  BY <1>1, <1>4 DEF Reached
<1>6. QED
  BY <1>4, <1>5 DEF RowStates

\* The executions that a step names are named already.
Named(files) ==
  \/ files = {} \/ files = search.files \/ files = fileList
  \/ \E p \in posts : files = p.files
  \/ files \in DOMAIN accepted

LEMMA NamedExist ==
  ASSUME FilesInv, RoundsInv, RealInv, Next, NEW files, Named(files)
  PROVE  \A e \in files : row'[e] \in States
BY ExistStill DEF FilesInv, SubmissionInv, RoundsInv, RealInv, Exist, Named

LEMMA AddressNamed ==
  ASSUME Next
  PROVE  Named(search'.files)
<1>1. CASE UNCHANGED search
  BY <1>1 DEF Named
<1>2. CASE search' = NoSearch
  BY <1>2 DEF NoSearch, Named
<1>3. ASSUME NEW s \in Addresses, search' = s
      PROVE  Named(search'.files)
  <2>1. s.files = {} \/ s.files \in DOMAIN accepted
    BY DEF Addresses
  <2>2. QED
    BY <1>3, <2>1 DEF Named
<1>4. ASSUME NEW p \in posts,
             search' = [kind |-> "execution", files |-> p.files]
      PROVE  Named(search'.files)
  BY <1>4 DEF Named
<1>5. ASSUME NEW files \in DOMAIN accepted,
             search' = [kind |-> "execution", files |-> files]
      PROVE  Named(search'.files)
  BY <1>5 DEF Named
<1>6. QED
  BY <1>1, <1>2, <1>3, <1>4, <1>5, AddressShape

LEMMA FilesNamed ==
  ASSUME Next
  PROVE  Named(fileList')
<1>1. CASE NavigationStep
  BY <1>1
     DEF NavigationStep, OpenForm, Leave, GoHome, GoBack, Mount, Fresh, pollingVars,
         Named
<1>2. CASE ArchiveStep \/ CourseStep \/ MeasurementStep
  BY <1>2
     DEF ArchiveStep, EditArchive, FormEndReading, CourseStep, CoursesAnswer,
         RetryCourses, CourseChange, MeasurementStep, pollingVars, Named
<1>3. CASE BackendStep
  BY <1>3 DEF BackendStep, BackendMoves, Named
<1>4. CASE LoadStep
  BY <1>4
     DEF LoadStep, LoadFails, RepeatDescriptor, RepeatArchive, RepeatLoaded,
         ReuseLoaded, ProtocolLoaded, ExecutionRestored, Forget, Follow,
         pollingVars, Named
<1>5. CASE ReviewStep \/ PostStep
  BY <1>5
     DEF ReviewStep, OpenOverview, CancelOverview, ConfirmExecution,
         PrepareRetry, PostStep, PostAtBackend, PostFailed, Forget, Follow,
         pollingVars, Named
<1>6. CASE PollingStep
  BY <1>6
     DEF PollingStep, PanelNext, PollingNext, PollingAnswers, EndRound,
         AnswerGet, TimerFires, CancelAtBackend, CancelAnswered,
         RetryPolling, RetryCommand, AskAgain, Follow, CancelCommand,
         CancelExecution, Named
<1>7. CASE Removal
  BY <1>7
     DEF Removal, ResetForm, Forget, Follow, PostAccepted, Mount, Fresh, Named
<1>8. QED
  BY <1>1, <1>2, <1>3, <1>4, <1>5, <1>6, <1>7 DEF Next

LEMMA RoundsNamed ==
  ASSUME FilesInv, RoundsInv, Next, NEW q \in polls'
  PROVE  q.of = fileList' \/ \E p \in polls : q.of = p.of
<1> DEFINE Old == \E p \in polls : q.of = p.of
<1>1. CASE UNCHANGED followVars \/ Cleared
  BY <1>1 DEF followVars, Cleared
<1>2. ASSUME NEW files \in SUBSET Executions, Follow(files)
      PROVE  q.of = fileList' \/ Old
  <2>1. q \in Ignored(polls) \/ q = NewRound(files)
    BY <1>2 DEF Follow
  <2>2. q \in Ignored(polls) => Old
    BY DEF Ignored, RoundsInv, RoundOf
  <2>3. fileList' = files /\ NewRound(files).of = files
    BY <1>2, NewRoundIs DEF Follow
  <2>4. QED
    BY <2>1, <2>2, <2>3
<1>3. ASSUME NEW p \in polls, EndRound(p)
      PROVE  Old
  BY <1>3 DEF EndRound
<1>4. ASSUME NEW p \in polls, NEW e \in p.of, AnswerGet(p, e)
      PROVE  Old
  <2>1. PICK answer : polls' = (polls \ {p}) \cup {[p EXCEPT !.got[e] = answer]}
    BY <1>4 DEF AnswerGet
  <2>2. [p EXCEPT !.got[e] = answer].of = p.of
    BY AnsweredRound DEF RoundsInv
  <2>3. QED
    BY <2>1, <2>2
<1>5. CASE TimerFires
  BY <1>5, NewRoundIs DEF TimerFires, RoundsInv
<1>6. QED
  BY <1>1, <1>2, <1>3, <1>4, <1>5, FollowShape DEF Followed, RoundMoves

\* The files of a submission, and what is accepted, are rows that were made.
LEMMA SubmittedExist ==
  ASSUME SamplesInv, FilesInv, RealInv, Next
  PROVE  /\ \A p \in posts' : \A e \in p.files : row'[e] \in States
         /\ \A f \in DOMAIN accepted' : \A e \in f : row'[e] \in States
<1> DEFINE Goal == /\ \A p \in posts' : \A e \in p.files : row'[e] \in States
                   /\ \A f \in DOMAIN accepted' :
                        \A e \in f : row'[e] \in States
<1>1. /\ \A p \in posts : \A e \in p.files : row'[e] \in States
      /\ \A f \in DOMAIN accepted : \A e \in f : row'[e] \in States
  BY ExistStill DEF FilesInv, SubmissionInv, RealInv, Exist
<1>2. CASE ~\E p \in posts : PostAtBackend(p)
  <2>1. accepted' = accepted
    BY <1>2, SettledShape DEF SamplesInv, Settled
  <2>2. CASE ~ConfirmExecution /\ ~Leave
    BY <1>1, <1>2, <2>1, <2>2, PostsShrink
  <2>3. CASE ConfirmExecution
    <3> DEFINE post == [stage |-> "sent", ours |-> TRUE,
                        course |-> selectedCourse, protocol |-> activeProtocol,
                        files |-> {}, input |-> input, samples |-> samples]
    <3>1. posts' = posts \cup {post} /\ post.files = {}
      BY <2>3 DEF ConfirmExecution
    <3> HIDE DEF post
    <3>2. QED
      BY <1>1, <2>1, <3>1
  <2>4. CASE Leave
    <3>1. \A p \in posts : [p EXCEPT !.ours = FALSE].files = p.files
      BY DEF FilesInv, SubmissionInv, PostFields
    <3>2. QED
      BY <1>1, <2>1, <2>4, <3>1 DEF Leave
  <2>5. QED
    BY <2>2, <2>3, <2>4
<1>3. ASSUME NEW p \in posts, PostAtBackend(p)
      PROVE  Goal
  <2>1. DOMAIN p = PostFields
    BY DEF FilesInv, SubmissionInv
  <2>2. ASSUME NEW files \in SUBSET Executions,
               NEW stage \in {"accepted", "failed"},
               row' = [e \in Executions |->
                         IF e \in files THEN "QUEUED" ELSE row[e]],
               DOMAIN accepted' = DOMAIN accepted \cup {files},
               posts' = (posts \ {p}) \cup
                 {[p EXCEPT !.stage = stage,
                            !.files = IF stage = "accepted" THEN files
                                      ELSE {}]}
        PROVE  Goal
    <3> DEFINE q == [p EXCEPT !.stage = stage,
                              !.files = IF stage = "accepted" THEN files
                                        ELSE {}]
    <3>1. \A e \in files : row'[e] \in States
      BY <2>2 DEF States
    <3>2. q.files \subseteq files
      BY <2>1 DEF PostFields
    <3>3. posts' = (posts \ {p}) \cup {q}
      BY <2>2
    <3> HIDE DEF q
    <3>4. QED
      BY <1>1, <2>2, <3>1, <3>2, <3>3
  <2>3. CASE \E files \in SUBSET Executions, stage \in {"accepted", "failed"} :
               /\ row' = [e \in Executions |->
                            IF e \in files THEN "QUEUED" ELSE row[e]]
               /\ DOMAIN accepted' = DOMAIN accepted \cup {files}
               /\ posts' = (posts \ {p}) \cup
                    {[p EXCEPT !.stage = stage,
                               !.files = IF stage = "accepted" THEN files
                                         ELSE {}]}
    BY <2>2, <2>3
  <2>4. CASE posts' = (posts \ {p}) \cup {[p EXCEPT !.stage = "failed"]}
             /\ accepted' = accepted
    <3>1. [p EXCEPT !.stage = "failed"].files = p.files
      BY <2>1 DEF PostFields
    <3>2. QED
      BY <1>1, <2>4, <3>1
  <2>5. QED
    BY <1>3, <2>3, <2>4 DEF PostAtBackend
<1>4. QED
  BY <1>2, <1>3

LEMMA RealStep ==
  ASSUME SamplesInv, FilesInv, RoundsInv, RealInv, Next
  PROVE  RealInv'
<1>1. Exist(search.files)' /\ Exist(fileList)'
  BY AddressNamed, FilesNamed, NamedExist DEF Exist
<1>2. \A p \in polls' : \A e \in p.of : row'[e] \in States
  <2> SUFFICES ASSUME NEW p \in polls'
               PROVE  \A e \in p.of : row'[e] \in States
    OBVIOUS
  <2>1. CASE p.of = fileList'
    BY <1>1, <2>1 DEF Exist
  <2>2. ASSUME NEW q \in polls, p.of = q.of
        PROVE  \A e \in p.of : row'[e] \in States
    BY <2>2, ExistStill DEF RoundsInv, RoundOf, RealInv, Exist
  <2>3. QED
    BY <2>1, <2>2, RoundsNamed
<1>3. QED
  BY <1>1, <1>2, SubmittedExist DEF RealInv, Exist

RoundTyped(p) == p.live \in BOOLEAN /\ p.got \in [p.of -> Answers]
RoundsOK ==
  /\ \A p \in polls : RoundTyped(p)
  /\ timer \in BOOLEAN /\ requestError \in BOOLEAN
  /\ \A e \in DOMAIN shown : shown[e] \in States \cup {Unavailable}

LEMMA NewRoundTyped ==
  ASSUME NEW files \in SUBSET Executions
  PROVE  RoundTyped(NewRound(files))
BY DEF NewRound, RoundTyped, Answers

LEMMA IgnoredTyped ==
  ASSUME RoundsInv, RoundsOK
  PROVE  \A p \in Ignored(polls) : RoundTyped(p)
BY DEF Ignored, RoundsInv, RoundOf, RoundsOK, RoundTyped

LEMMA FollowOK ==
  ASSUME RoundsInv, RoundsOK, NEW files \in SUBSET Executions, Follow(files)
  PROVE  RoundsOK'
<1>1. \A p \in polls' : RoundTyped(p)
  BY IgnoredTyped, NewRoundTyped DEF Follow
<1>2. \A e \in DOMAIN shown' : shown'[e] \in States \cup {Unavailable}
  BY DEF Follow, NothingShown, RoundsOK
<1>3. timer' = FALSE /\ requestError' = FALSE
  BY DEF Follow
<1>4. QED
  BY <1>1, <1>2, <1>3 DEF RoundsOK, RoundTyped

LEMMA MovesOK ==
  ASSUME PanelInv, RealInv, RoundsOK, RoundMoves
  PROVE  RoundsOK'
<1>1. ASSUME NEW p \in polls, EndRound(p)
      PROVE  RoundsOK'
  <2>1. polls' \subseteq polls /\ \A e \in p.of : p.got[e] # NoAnswer
    BY <1>1 DEF EndRound
  <2>2. p.got \in [p.of -> States \cup {Unavailable}]
    BY <2>1 DEF RoundsOK, RoundTyped, Answers
  <2>3. CASE p.live
    <3>1. /\ shown' = p.got
          /\ requestError' = ~AllAvailable(p.got)
          /\ timer' = Rescheduled(p.got)
      BY <1>1, <2>3 DEF EndRound
    <3>2. requestError' \in BOOLEAN /\ timer' \in BOOLEAN
      BY <3>1 DEF AllAvailable, Rescheduled
    <3>3. QED
      BY <2>1, <2>2, <3>1, <3>2 DEF RoundsOK, RoundTyped
  <2>4. CASE ~p.live
    BY <1>1, <2>1, <2>4 DEF EndRound, RoundsOK, RoundTyped
  <2>5. QED
    BY <2>3, <2>4
<1>2. ASSUME NEW p \in polls, NEW e \in p.of, AnswerGet(p, e)
      PROVE  RoundsOK'
  <2>1. PICK answer \in {row[e], Unavailable} :
          polls' = (polls \ {p}) \cup {[p EXCEPT !.got[e] = answer]}
    BY <1>2 DEF AnswerGet
  <2> DEFINE q == [p EXCEPT !.got[e] = answer]
  <2>2. RoundOf(p)
    BY DEF PanelInv, RoundsInv
  <2>3. p.got[e] = NoAnswer
    BY <1>2 DEF AnswerGet
  <2>4. q.of = p.of /\ q.live = p.live /\ q.got = [p.got EXCEPT ![e] = answer]
    BY <2>2, AnsweredRound
  <2> HIDE DEF q
  <2>5. answer \in Answers
    <3>1. row[e] \in States
      BY DEF RealInv, Exist
    <3>2. QED
      BY <3>1 DEF Answers
  <2>6. RoundTyped(q)
    BY <2>4, <2>5 DEF RoundsOK, RoundTyped
  <2>7. polls' = (polls \ {p}) \cup {q}
    BY <2>1 DEF q
  <2>8. QED
    BY <1>2, <2>6, <2>7 DEF AnswerGet, RoundsOK, RoundTyped
<1>3. CASE TimerFires
  <2>1. RoundTyped(NewRound(fileList))
    BY NewRoundTyped DEF PanelInv, RoundsInv
  <2>2. QED
    BY <1>3, <2>1 DEF TimerFires, RoundsOK, RoundTyped
<1>4. QED
  BY <1>1, <1>2, <1>3 DEF RoundMoves

LEMMA RoundsTyped ==
  ASSUME PanelInv, RealInv, RoundsOK, Next
  PROVE  RoundsOK'
<1>1. CASE UNCHANGED followVars
  BY <1>1 DEF followVars, RoundsOK, RoundTyped
<1>2. CASE Cleared
  BY <1>2 DEF Cleared, NothingShown, RoundsOK
<1>3. CASE Followed
  BY <1>3, FollowOK DEF Followed, PanelInv
<1>4. CASE RoundMoves
  BY <1>4, MovesOK
<1>5. QED
  BY <1>1, <1>2, <1>3, <1>4, FollowShape DEF PanelInv

CancelsOK ==
  /\ cancelling \in [Executions -> {"", "pending", "message"}]
  /\ clicks \in [Executions -> 0..MaxCancels]
  /\ cancels \subseteq Executions \X {"sent", "done", "conflict", "failed"}

\* What a step that is not about cancelling makes of the cancellations.
CancelsLeft ==
  /\ cancelling' = cancelling \/ cancelling' = [e \in Executions |-> ""]
  /\ clicks' = clicks /\ cancels' \subseteq cancels

LEMMA CancelsShape ==
  ASSUME Next
  PROVE  CancelsLeft \/ PollingStep
<1>1. CASE NavigationStep
  BY <1>1
     DEF NavigationStep, OpenForm, Leave, GoHome, GoBack, Mount, Fresh, pollingVars,
         CancelsLeft
<1>2. CASE ArchiveStep \/ CourseStep \/ MeasurementStep
  BY <1>2
     DEF ArchiveStep, EditArchive, FormEndReading, CourseStep, CoursesAnswer,
         RetryCourses, CourseChange, MeasurementStep, pollingVars, CancelsLeft
<1>3. CASE BackendStep
  BY <1>3 DEF BackendStep, BackendMoves, CancelsLeft
<1>4. CASE LoadStep
  BY <1>4
     DEF LoadStep, LoadFails, RepeatDescriptor, RepeatArchive, RepeatLoaded,
         ReuseLoaded, ProtocolLoaded, ExecutionRestored, pollingVars,
         CancelsLeft
<1>5. CASE ReviewStep \/ PostStep
  BY <1>5
     DEF ReviewStep, OpenOverview, CancelOverview, ConfirmExecution,
         PrepareRetry, PostStep, PostAtBackend, PostFailed, pollingVars,
         CancelsLeft
<1>6. CASE Removal
  BY <1>6
     DEF Removal, ResetForm, PostAccepted, Mount, Fresh, CancelsLeft
<1>7. QED
  BY <1>1, <1>2, <1>3, <1>4, <1>5, <1>6 DEF Next

LEMMA CancelsTyped ==
  ASSUME CancelsOK, Next
  PROVE  CancelsOK'
<1>1. CASE CancelsLeft
  BY <1>1 DEF CancelsLeft, CancelsOK
<1>2. ASSUME NEW e \in Executions, CancelCommand(e)
      PROVE  CancelsOK'
  <2>1. clicks[e] \in 0..MaxCancels /\ clicks[e] < MaxCancels
        /\ MaxCancels \in Nat
    BY <1>2, PollingAssumption DEF CancelCommand, CancelExecution, CancelsOK
  <2>2. clicks[e] + 1 \in 0..MaxCancels
    BY <2>1
  <2>3. clicks' = [clicks EXCEPT ![e] = clicks[e] + 1]
    BY <1>2 DEF CancelCommand, CancelExecution
  <2>4. clicks' \in [Executions -> 0..MaxCancels]
    BY <2>2, <2>3 DEF CancelsOK
  <2>5. cancelling' = [cancelling EXCEPT ![e] = "pending"]
        /\ cancels' = cancels \cup {<<e, "sent">>}
    BY <1>2 DEF CancelCommand, CancelExecution
  <2>6. <<e, "sent">> \in Executions \X {"sent", "done", "conflict", "failed"}
    OBVIOUS
  <2>7. QED
    BY <2>4, <2>5, <2>6 DEF CancelsOK
<1>3. ASSUME NEW e \in Executions, CancelAtBackend(e)
      PROVE  CancelsOK'
  <2>1. PICK outcome \in {"done", "failed", "conflict"} :
          cancels' = (cancels \ {<<e, "sent">>}) \cup {<<e, outcome>>}
    BY <1>3 DEF CancelAtBackend
  <2>2. UNCHANGED <<cancelling, clicks>>
    BY <1>3 DEF CancelAtBackend
  <2>3. <<e, outcome>> \in
          Executions \X {"sent", "done", "conflict", "failed"}
    OBVIOUS
  <2>4. QED
    BY <2>1, <2>2, <2>3 DEF CancelsOK
<1>4. ASSUME NEW c \in cancels, CancelAnswered(c[1], c[2])
      PROVE  CancelsOK'
  <2>1. c[1] \in Executions
    BY DEF CancelsOK
  <2>2. /\ cancels' \subseteq cancels /\ clicks' = clicks
        /\ \/ cancelling' = cancelling
           \/ cancelling' = [cancelling EXCEPT ![c[1]] = "message"]
    BY <1>4 DEF CancelAnswered
  <2>3. QED
    BY <2>1, <2>2 DEF CancelsOK
<1>5. CASE PollingAnswers \/ RetryCommand
  <2>1. /\ UNCHANGED <<clicks, cancels>>
        /\ \/ cancelling' = cancelling
           \/ \E got : cancelling' = Released(got)
    BY <1>5
       DEF PollingAnswers, EndRound, AnswerGet, TimerFires, RetryCommand,
           AskAgain
  <2>2. \A got : Released(got) \in [Executions -> {"", "pending", "message"}]
    BY DEF Released, CancelsOK
  <2>3. QED
    BY <2>1, <2>2 DEF CancelsOK
<1>6. QED
  BY <1>1, <1>2, <1>3, <1>4, <1>5, CancelsShape
     DEF PollingStep, PanelNext, PollingNext

----------------------------------------------------------------------------
(***************************************************************************)
(* The page.                                                               *)
(***************************************************************************)
CoursesOK ==
  /\ courses \in [items : SUBSET Courses, loading : BOOLEAN, error : BOOLEAN]
  /\ selectedCourse \in Courses \cup {NoCourse}
FlagsOK ==
  /\ mounted \in BOOLEAN /\ personal \in BOOLEAN /\ activeProtocol \in BOOLEAN
  /\ load \in Loads
  /\ draftRestored \in BOOLEAN /\ showOverview \in BOOLEAN
  /\ isSubmitting \in BOOLEAN /\ submitLock \in BOOLEAN
  /\ submissionError \in BOOLEAN

flags == <<mounted, personal, activeProtocol, load, draftRestored,
           showOverview, isSubmitting, submitLock, submissionError>>

LEMMA AddressKind ==
  ASSUME search.kind \in Kinds, Next
  PROVE  search'.kind \in Kinds
<1>1. \A s \in Addresses : s.kind \in Kinds
  BY DEF Addresses, Kinds
<1>2. NoSearch.kind \in Kinds
  BY DEF NoSearch, Kinds
<1>3. \A p \in posts : [kind |-> "execution", files |-> p.files].kind \in Kinds
  BY DEF Kinds
<1>4. \A files : [kind |-> "execution", files |-> files].kind \in Kinds
  BY DEF Kinds
<1>5. QED
  BY <1>1, <1>2, <1>3, <1>4, AddressShape

LEMMA FreshFlags ==
  ASSUME NEW s, NEW v, Fresh(s, v), mounted' \in BOOLEAN,
         draftRestored' \in BOOLEAN
  PROVE  FlagsOK'
BY DEF Fresh, FlagsOK, Loads, NoLoad

LEMMA MountFlags ==
  ASSUME NEW s, Mount(s)
  PROVE  FlagsOK'
<1>1. mounted' \in BOOLEAN /\ draftRestored' \in BOOLEAN
  BY DEF Mount
<1>2. \E v : Fresh(s, v)
  BY DEF Mount
<1>3. QED
  BY <1>1, <1>2, FreshFlags

LEMMA FlagsStep ==
  ASSUME FlagsOK, search.kind \in Kinds, Next
  PROVE  FlagsOK'
<1>1. CASE UNCHANGED flags
  BY <1>1 DEF flags, FlagsOK
<1>2. CASE OpenForm
  BY <1>2, MountFlags DEF OpenForm
<1>3. CASE Leave
  <2>1. mounted' = FALSE /\ draftRestored' = FALSE
        /\ Fresh(NoSearch, FreshValues)
    BY <1>3 DEF Leave
  <2>2. QED
    BY <2>1, FreshFlags
<1>4. CASE GoHome \/ GoBack
  BY <1>4 DEF GoHome, GoBack, ClearSearch, FlagsOK, Loads, NoLoad
<1>5. CASE ArchiveStep \/ MeasurementStep \/ BackendStep
  <2>1. UNCHANGED flags
    BY <1>5
       DEF ArchiveStep, EditArchive, FormEndReading, MeasurementStep,
           BackendStep, formVars, flags
  <2>2. QED
    BY <1>1, <2>1
<1>6. CASE PollingStep
  <2>1. isSubmitting' \in BOOLEAN
    BY <1>6 DEF PollingStep, PollingFrame
  <2>2. QED
    BY <1>6, <2>1 DEF PollingStep, PollingFrame, FlagsOK
<1>7. CASE CoursesAnswer
  <2>1. submissionError' \in BOOLEAN
    BY <1>7 DEF CoursesAnswer
  <2>2. load' \in Loads
    BY <1>7 DEF CoursesAnswer, FlagsOK, Loads
  <2>3. QED
    BY <1>7, <2>1, <2>2 DEF CoursesAnswer, FlagsOK
<1>8. CASE RetryCourses
  BY <1>8 DEF RetryCourses, FlagsOK
<1>9. ASSUME NEW c, CourseChange(c)
      PROVE  FlagsOK'
  <2>1. personal' \in BOOLEAN
    BY <1>9 DEF CourseChange
  <2>2. activeProtocol' \in BOOLEAN /\ load' \in Loads
    BY <1>9 DEF CourseChange, ClearSearch, FlagsOK, Loads, NoLoad
  <2>3. QED
    BY <1>9, <2>1, <2>2 DEF CourseChange, FlagsOK
<1>10. CASE LoadFails \/ RepeatDescriptor \/ RepeatArchive
  BY <1>10
     DEF LoadFails, RepeatDescriptor, RepeatArchive, FlagsOK, Loads, NoLoad
<1>11. CASE RepeatLoaded
  BY <1>11 DEF RepeatLoaded, ClearSearch, Forget, FlagsOK, Loads, NoLoad
<1>12. CASE ReuseLoaded \/ ProtocolLoaded
  BY <1>12
     DEF ReuseLoaded, ProtocolLoaded, Forget, FlagsOK, Loads, NoLoad
<1>13. CASE ExecutionRestored
  <2>1. isSubmitting' \in BOOLEAN
    BY <1>13 DEF ExecutionRestored
  <2>2. QED
    BY <1>13, <2>1 DEF ExecutionRestored, FlagsOK, Loads, NoLoad
<1>14. CASE ReviewStep
  BY <1>14
     DEF ReviewStep, OpenOverview, CancelOverview, ConfirmExecution,
         PrepareRetry, Forget, ClearSearch, FlagsOK, Loads, NoLoad
<1>15. CASE PostStep
  BY <1>15 DEF PostStep, PostAtBackend, PostFailed, FlagsOK
<1>16. CASE ResetForm
  BY <1>16 DEF ResetForm, Forget, ClearSearch, FlagsOK, Loads, NoLoad
<1>17. ASSUME NEW p \in posts, PostAccepted(p)
       PROVE  FlagsOK'
  <2>1. CASE ~mounted
    BY <1>17, <2>1, MountFlags DEF PostAccepted
  <2>2. CASE mounted
    BY <1>17, <2>2 DEF PostAccepted, FlagsOK, Loads
  <2>3. QED
    BY <2>1, <2>2
<1>18. QED
  BY <1>2, <1>3, <1>4, <1>5, <1>6, <1>7, <1>8, <1>9, <1>10, <1>11, <1>12,
     <1>13, <1>14, <1>15, <1>16, <1>17
     DEF Next, NavigationStep, CourseStep, LoadStep, Removal

\* What mounting the page does to the courses, and what a load does.
CoursesFresh ==
  /\ courses' = [items |-> {}, loading |-> TRUE, error |-> FALSE]
  /\ selectedCourse' = NoCourse
CourseTaken ==
  /\ courses' = courses
  /\ selectedCourse' \in Courses \cup {NoCourse, selectedCourse}

LEMMA CoursesAnswered ==
  ASSUME CoursesOK, CoursesAnswer
  PROVE  CoursesOK'
<1>1. CASE /\ courses' = [items |-> {}, loading |-> FALSE, error |-> TRUE]
           /\ selectedCourse' = NoCourse
  BY <1>1 DEF CoursesOK
<1>2. ASSUME NEW items \in SUBSET Courses,
             courses' = [items |-> items, loading |-> FALSE, error |-> FALSE],
             \/ selectedCourse' =
                  IF selectedCourse \in items THEN selectedCourse
                  ELSE IF personal /\ selectedCourse = NoCourse THEN NoCourse
                  ELSE IF AutoSelect /\ Cardinality(items) = 1
                  THEN CHOOSE c \in items : TRUE ELSE NoCourse
             \/ selectedCourse' \in items \cup {NoCourse}
      PROVE  CoursesOK'
  <2>1. Cardinality(items) = 1 => items # {}
    BY FS_EmptySet
  <2>2. selectedCourse' \in Courses \cup {NoCourse}
    BY <1>2, <2>1 DEF CoursesOK
  <2>3. QED
    BY <1>2, <2>2 DEF CoursesOK
<1>3. QED
  BY <1>1, <1>2 DEF CoursesAnswer

LEMMA CoursesShape ==
  ASSUME Next
  PROVE  CourseTaken \/ CoursesFresh \/ CoursesAnswer \/ RetryCourses
<1>1. CourseOf(RepeatOf) \in Courses \cup {NoCourse}
      /\ CourseOf(ReuseOf) \in Courses \cup {NoCourse}
      /\ ReuseOf.course \in Courses \cup {NoCourse}
      /\ ProtocolOf.course \in Courses \cup {NoCourse}
  BY FormAssumption DEF CourseOf, Configurations
<1>2. CASE NavigationStep
  BY <1>2
     DEF NavigationStep, OpenForm, Leave, GoHome, GoBack, Mount, Fresh, CourseTaken,
         CoursesFresh
<1>3. CASE ArchiveStep \/ MeasurementStep \/ BackendStep \/ PollingStep
  BY <1>3
     DEF ArchiveStep, EditArchive, FormEndReading, MeasurementStep,
         BackendStep, PollingStep, PollingFrame, formVars, CourseTaken
<1>4. CASE LoadStep
  BY <1>1, <1>4
     DEF LoadStep, LoadFails, RepeatDescriptor, RepeatArchive, RepeatLoaded,
         ReuseLoaded, ProtocolLoaded, ExecutionRestored, CourseTaken
<1>5. ASSUME NEW c \in Courses \cup {NoCourse}, CourseChange(c)
      PROVE  CourseTaken
  BY <1>5 DEF CourseChange, CourseTaken
<1>6. CASE ReviewStep \/ PostStep
  BY <1>6
     DEF ReviewStep, OpenOverview, CancelOverview, ConfirmExecution,
         PrepareRetry, PostStep, PostAtBackend, PostFailed, CourseTaken
<1>7. CASE Removal
  BY <1>7
     DEF Removal, ResetForm, PostAccepted, Mount, Fresh, CourseTaken,
         CoursesFresh
<1>8. QED
  BY <1>2, <1>3, <1>4, <1>5, <1>6, <1>7 DEF Next, CourseStep

LEMMA CoursesStep ==
  ASSUME CoursesOK, Next
  PROVE  CoursesOK'
<1>1. CASE CourseTaken
  BY <1>1 DEF CourseTaken, CoursesOK
<1>2. CASE CoursesFresh
  BY <1>2 DEF CoursesFresh, CoursesOK
<1>3. CASE CoursesAnswer
  BY <1>3, CoursesAnswered
<1>4. CASE RetryCourses
  BY <1>4 DEF RetryCourses, CoursesOK
<1>5. QED
  BY <1>1, <1>2, <1>3, <1>4, CoursesShape

----------------------------------------------------------------------------
(***************************************************************************)
(* The submissions, what was accepted, and the draft.                      *)
(***************************************************************************)
PostTyped(p) ==
  /\ p.stage \in {"sent", "accepted", "failed"}
  /\ p.ours \in BOOLEAN /\ p.protocol \in BOOLEAN
  /\ p.course \in Courses \cup {NoCourse}
  /\ p.input \in Int

LEMMA SentTyped ==
  ASSUME SubmittedOK, ValuesOK, CoursesOK, FlagsOK, ConfirmExecution
  PROVE  SubmittedOK'
<1> DEFINE post == [stage |-> "sent", ours |-> TRUE,
                    course |-> selectedCourse, protocol |-> activeProtocol,
                    files |-> {}, input |-> input, samples |-> samples]
<1>1. PostTyped(post)
  BY DEF ValuesOK, ParametersOK, CoursesOK, FlagsOK, PostTyped
<1>2. posts' = posts \cup {post} /\ accepted' = accepted
  BY DEF ConfirmExecution
<1> HIDE DEF post
<1>3. QED
  BY <1>1, <1>2 DEF PostTyped, SubmittedOK

LEMMA LeftTyped ==
  ASSUME SubmissionInv, SubmittedOK, Leave
  PROVE  SubmittedOK'
<1>1. ASSUME NEW p \in posts
      PROVE  PostTyped([p EXCEPT !.ours = FALSE])
  BY DEF SubmissionInv, PostFields, SubmittedOK, PostTyped
<1>2. posts' = {[p EXCEPT !.ours = FALSE] : p \in posts}
      /\ accepted' = accepted
  BY DEF Leave, Fresh
<1>3. QED
  BY <1>1, <1>2 DEF PostTyped, SubmittedOK

LEMMA AcceptedTyped ==
  ASSUME SubmissionInv, SubmittedOK, NEW p \in posts, PostAtBackend(p)
  PROVE  SubmittedOK'
<1>1. DOMAIN p = PostFields /\ PostTyped(p)
  BY DEF SubmissionInv, SubmittedOK, PostTyped
<1>2. ASSUME NEW files \in SUBSET Executions,
             NEW stage \in {"accepted", "failed"},
             accepted' = [f \in DOMAIN accepted \cup {files} |->
                            IF f = files THEN [input |-> p.input,
                                               samples |-> p.samples]
                            ELSE accepted[f]],
             posts' = (posts \ {p}) \cup
               {[p EXCEPT !.stage = stage,
                          !.files = IF stage = "accepted" THEN files ELSE {}]}
      PROVE  SubmittedOK'
  <2> DEFINE q == [p EXCEPT !.stage = stage,
                            !.files = IF stage = "accepted" THEN files ELSE {}]
  <2>1. PostTyped(q)
    BY <1>1 DEF PostFields, PostTyped
  <2>2. posts' = (posts \ {p}) \cup {q}
    BY <1>2
  <2> HIDE DEF q
  <2>3. ASSUME NEW f \in DOMAIN accepted'
        PROVE  accepted'[f].input \in Int
    <3>1. CASE f = files
      BY <1>1, <1>2, <3>1 DEF PostTyped
    <3>2. CASE f # files
      BY <1>2, <2>3, <3>2 DEF SubmittedOK
    <3>3. QED
      BY <3>1, <3>2
  <2>4. QED
    BY <2>1, <2>2, <2>3 DEF PostTyped, SubmittedOK
<1>3. CASE posts' = (posts \ {p}) \cup {[p EXCEPT !.stage = "failed"]}
           /\ accepted' = accepted
  <2> DEFINE q == [p EXCEPT !.stage = "failed"]
  <2>1. PostTyped(q)
    BY <1>1 DEF PostFields, PostTyped
  <2>2. posts' = (posts \ {p}) \cup {q} /\ accepted' = accepted
    BY <1>3
  <2> HIDE DEF q
  <2>3. QED
    BY <2>1, <2>2 DEF PostTyped, SubmittedOK
<1>4. CASE \E files \in SUBSET Executions, stage \in {"accepted", "failed"} :
             /\ accepted' = [f \in DOMAIN accepted \cup {files} |->
                               IF f = files THEN [input |-> p.input,
                                                  samples |-> p.samples]
                               ELSE accepted[f]]
             /\ posts' = (posts \ {p}) \cup
                  {[p EXCEPT !.stage = stage,
                             !.files = IF stage = "accepted" THEN files ELSE {}]}
  BY <1>2, <1>4
<1>5. QED
  BY <1>3, <1>4 DEF PostAtBackend

LEMMA SubmittedStep ==
  ASSUME SamplesInv, SubmissionInv, SubmittedOK, ValuesOK, CoursesOK, FlagsOK,
         Next
  PROVE  SubmittedOK'
<1>1. CASE ~ConfirmExecution /\ ~Leave /\ ~\E p \in posts : PostAtBackend(p)
  <2>1. posts' \subseteq posts /\ accepted' = accepted
    BY <1>1, PostsShrink, SettledShape DEF SamplesInv, Settled
  <2>2. QED
    BY <2>1 DEF SubmittedOK
<1>2. CASE ConfirmExecution \/ Leave
  BY <1>2, SentTyped, LeftTyped
<1>3. ASSUME NEW p \in posts, PostAtBackend(p)
      PROVE  SubmittedOK'
  BY <1>3, AcceptedTyped
<1>4. QED
  BY <1>1, <1>2, <1>3

LEMMA DraftStep ==
  ASSUME DraftOK, ValuesOK', Next
  PROVE  DraftOK'
<1> DEFINE v == Values'
<1>1. ValueOK(v)
  BY DEF ValuesOK, ZipTypeOK, ParametersOK, Titles, Values, ValueOK
<1>2. draft' \in {{}, {v}, draft}
  BY DEF Next, Autosave, Stored
<1> HIDE DEF v
<1>3. QED
  BY <1>1, <1>2 DEF DraftOK

----------------------------------------------------------------------------
\* Everything of the form has a type, with what the types rest on.
TypesInv ==
  /\ ValuesOK /\ TargetOK /\ RoundsOK /\ CancelsOK /\ RealInv
  /\ CoursesOK /\ FlagsOK /\ search.kind \in Kinds
  /\ SubmittedOK /\ DraftOK

LEMMA TypesInit ==
  ASSUME Init
  PROVE  TypesInv
<1>1. ValuesOK
  <2>1. ZipTypeOK
    BY DEF Init, ZipInit, ManualTitle, Titles, ZipTypeOK
  <2>2. /\ task = "" /\ dataType = "" /\ input = Empty
        /\ profile = "equilibrado"
    BY Zenon DEF Init, MeasurementInit
  <2>3. Empty \in Int
    BY DEF Empty
  <2>4. QED
    BY <2>1, <2>2, <2>3 DEF ValuesOK, ParametersOK, Profiles
<1>2. TargetOK
  <2>1. /\ mode = "AUTO" /\ nodeKey = NoTarget
        /\ nodes = [items |-> {}, loading |-> FALSE, error |-> FALSE]
        /\ policy = [of |-> NoTarget, loading |-> TRUE, error |-> FALSE]
        /\ availability = "CHECKING"
        /\ policyReads = {[target |-> "AUTO", live |-> TRUE]}
        /\ nodeReads = {}
    BY Zenon DEF Init, MeasurementInit
  <2>2. QED
    BY <2>1 DEF TargetOK, Targets
<1>3. RoundsOK
  BY DEF Init, PollingInit, NothingShown, RoundsOK
<1>4. CancelsOK
  <2>1. 0 \in 0..MaxCancels
    BY PollingAssumption
  <2>2. QED
    BY <2>1 DEF Init, PollingInit, CancelsOK
<1>5. RealInv
  <2>1. search = NoSearch /\ fileList = {} /\ polls = {} /\ posts = {}
    BY Zenon DEF Init, PollingInit
  <2>2. accepted = << >>
    BY Zenon DEF Init
  <2>3. DOMAIN accepted = {}
    BY <2>2
  <2>4. search.files = {}
    BY <2>1 DEF NoSearch
  <2>5. QED
    BY <2>1, <2>3, <2>4, Zenon DEF RealInv, Exist
<1>6. CoursesOK /\ FlagsOK
  BY DEF Init, CoursesOK, FlagsOK, Loads, NoLoad
<1>7. search.kind \in Kinds
  BY DEF Init, NoSearch, Kinds
<1>8. SubmittedOK /\ DraftOK
  BY DEF Init, SubmittedOK, DraftOK
<1>9. QED
  BY <1>1, <1>2, <1>3, <1>4, <1>5, <1>6, <1>7, <1>8 DEF TypesInv

LEMMA TypesStep ==
  ASSUME Grounds, TypesInv, Next
  PROVE  TypesInv'
<1>1. policy.of \in Targets \cup {NoTarget}
  BY DEF TypesInv, TargetOK
<1>2. ValuesOK'
  BY <1>1, ValuesStep DEF TypesInv
<1>3. TargetOK' /\ CancelsOK' /\ CoursesOK'
  BY TargetStep, CancelsTyped, CoursesStep DEF TypesInv
<1>4. RoundsOK' /\ RealInv'
  BY RoundsTyped, RealStep DEF TypesInv, Grounds, PanelInv
<1>5. FlagsOK' /\ search'.kind \in Kinds
  BY FlagsStep, AddressKind DEF TypesInv
<1>6. SubmittedOK'
  BY SubmittedStep DEF TypesInv, Grounds, PanelInv, FilesInv
<1>7. DraftOK'
  BY <1>2, DraftStep DEF TypesInv
<1>8. QED
  BY <1>2, <1>3, <1>4, <1>5, <1>6, <1>7 DEF TypesInv

LEMMA TypesKept ==
  ASSUME TypesInv, UNCHANGED vars
  PROVE  TypesInv'
<1>1. ValuesOK' /\ TargetOK'
  <2>1. UNCHANGED zipVars /\ UNCHANGED parameterVars /\ UNCHANGED targetVars
    BY DEF vars, measurementVars
  <2>2. ZipTypeOK'
    BY <2>1 DEF TypesInv, ValuesOK, zipVars, ZipTypeOK
  <2>3. ParametersOK'
    BY <2>1 DEF TypesInv, ValuesOK, parameterVars, ParametersOK
  <2>4. TargetOK'
    BY <2>1 DEF TypesInv, targetVars, TargetOK
  <2>5. QED
    BY <2>2, <2>3, <2>4 DEF ValuesOK
<1>2. RoundsOK' /\ CancelsOK' /\ RealInv'
  BY DEF TypesInv, vars, pollingVars, formVars, RoundsOK, RoundTyped,
         CancelsOK, RealInv, Exist
<1>3. CoursesOK' /\ FlagsOK' /\ search'.kind \in Kinds
  BY DEF TypesInv, vars, formVars, CoursesOK, FlagsOK
<1>4. SubmittedOK' /\ DraftOK'
  BY DEF TypesInv, vars, formVars, SubmittedOK, DraftOK, ValueOK
<1>5. QED
  BY <1>1, <1>2, <1>3, <1>4 DEF TypesInv

LEMMA FormTyped ==
  ASSUME Grounds, TypesInv
  PROVE  TypeOK
<1>1. ZipTypeOK
  BY DEF TypesInv, ValuesOK
<1>2. MeasurementTypeOK
  <2>1. samples \in Int
    BY DEF Grounds, SamplesInv, FormSound, Sound
  <2>2. QED
    BY <2>1
       DEF TypesInv, ValuesOK, ParametersOK, TargetOK, MeasurementTypeOK
<1>3. PollingTypeOK
  <2>1. row \in [Executions -> RowStates] /\ fileList \subseteq Executions
        /\ DOMAIN shown \subseteq Executions
        /\ \A p \in polls : p.of \subseteq Executions
    BY DEF Grounds, PanelInv, FilesInv, RoundsInv, RoundOf, AnswersInv
  <2>2. QED
    BY <2>1 DEF TypesInv, RoundsOK, RoundTyped, CancelsOK, PollingTypeOK
<1>4. FormTypeOK
  <2>1. Cardinality(draft) <= 1
    <3>1. draft = {} \/ \E d : draft = {d}
      BY DEF TypesInv, DraftOK
    <3>2. ASSUME draft = {}
          PROVE  Cardinality(draft) <= 1
      <4>1. Cardinality(draft) = 0
        BY <3>2, FS_EmptySet, Zenon
      <4>2. QED
        BY <4>1
    <3>3. ASSUME NEW d, draft = {d}
          PROVE  Cardinality(draft) <= 1
      <4>1. Cardinality(draft) = 1
        BY <3>3, FS_Singleton, Zenon
      <4>2. QED
        BY <4>1
    <3>4. QED
      BY <3>1, <3>2, <3>3
  <2>2. search.files \subseteq Executions
        /\ \A p \in posts : p.files \subseteq Executions
    BY DEF Grounds, PanelInv, FilesInv, SubmissionInv
  <2>3. QED
    BY <2>1, <2>2 DEF TypesInv, CoursesOK, FlagsOK, SubmittedOK, FormTypeOK
<1>5. QED
  BY <1>1, <1>2, <1>3, <1>4 DEF TypeOK

\* The type invariant of the form, for any values of its constants.
THEOREM FormTypesHold == Spec => []TypeOK
<1>1. Init => TypesInv
  BY TypesInit
<1>2. Grounds /\ TypesInv /\ [Next]_vars => TypesInv'
  BY TypesStep, TypesKept
<1>3. Grounds /\ TypesInv => TypeOK
  BY FormTyped
<1>4. SamplesInv /\ PanelInv /\ TargetInv => Grounds
  BY DEF Grounds
<1>5. QED
  BY <1>1, <1>2, <1>3, <1>4, SamplesInvariant, AnswersInvariant,
     TargetInvariant, PTL DEF Spec
=============================================================================
