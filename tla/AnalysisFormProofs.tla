------------------------- MODULE AnalysisFormProofs -------------------------
(***************************************************************************)
(* Proofs about AnalysisForm, for every set of archives, nodes, limits,    *)
(* courses and executions.  Each part is proved from what the steps of the *)
(* page do to its own variables: the target, the rounds of GETs, the       *)
(* submissions, the protocol and the draft.                                *)
(***************************************************************************)
EXTENDS AnalysisForm, FiniteSetTheorems, TLAPS

----------------------------------------------------------------------------
(***************************************************************************)
(* The target and its policies.                                            *)
(***************************************************************************)
Target == IF mode = "PINNED" THEN nodeKey ELSE "AUTO"

TargetInv ==
  /\ mode \in {"AUTO", "PINNED"} /\ nodeKey \in Nodes \cup {NoTarget}
  /\ nodes.items \subseteq Nodes /\ DOMAIN nodes = {"items", "loading", "error"}
  /\ policyReads \subseteq [target : Targets, live : BOOLEAN]
  /\ \A r \in policyReads : r.live => r.target = Target
  /\ policy.of # NoTarget => policy.of = Target

\* What mounting the page does to the target.
TargetFresh ==
  /\ mode' = "AUTO" /\ nodeKey' = NoTarget
  /\ nodes' = [items |-> {}, loading |-> FALSE, error |-> FALSE]
  /\ policy' = [of |-> NoTarget, loading |-> TRUE, error |-> FALSE]
  /\ policyReads' = {[target |-> "AUTO", live |-> TRUE]}
  /\ availability' = "CHECKING" /\ nodeReads' = {}

LEMMA CancelledReads ==
  ASSUME policyReads \subseteq [target : Targets, live : BOOLEAN]
  PROVE  /\ Cancelled(policyReads) \subseteq [target : Targets, live : BOOLEAN]
         /\ \A r \in Cancelled(policyReads) : ~r.live
BY DEF Cancelled

LEMMA ReadsForTarget ==
  ASSUME TargetInv, NEW m \in {"AUTO", "PINNED"},
         NEW key \in Nodes \cup {NoTarget}, ReadPolicies(m, key)
  PROVE  /\ policyReads' \subseteq [target : Targets, live : BOOLEAN]
         /\ \A r \in policyReads' :
              r.live => r.target = IF m = "PINNED" THEN key ELSE "AUTO"
         /\ policy'.of = NoTarget
<1>1. /\ Cancelled(policyReads) \subseteq [target : Targets, live : BOOLEAN]
      /\ \A r \in Cancelled(policyReads) : ~r.live
  BY CancelledReads DEF TargetInv
<1>2. policy'.of = NoTarget
  BY DEF ReadPolicies
<1>3. CASE m = "PINNED" /\ key = NoTarget
  BY <1>1, <1>2, <1>3 DEF ReadPolicies
<1>4. CASE ~(m = "PINNED" /\ key = NoTarget)
  <2> DEFINE t == IF m = "PINNED" THEN key ELSE "AUTO"
             r == [target |-> t, live |-> TRUE]
  <2>1. policyReads' = Cancelled(policyReads) \cup {r}
    BY <1>4 DEF ReadPolicies
  <2>2. t \in Targets
    BY <1>4 DEF Targets
  <2>3. r \in [target : Targets, live : BOOLEAN] /\ r.target = t
    BY <2>2
  <2> HIDE DEF r
  <2>4. QED
    BY <1>1, <1>2, <2>1, <2>3
<1>5. QED
  BY <1>3, <1>4

LEMMA TargetFreshInv ==
  ASSUME TargetFresh
  PROVE  TargetInv'
BY DEF TargetFresh, TargetInv, Target, Targets

LEMMA TargetResetInv ==
  ASSUME TargetInv, MeasurementReset
  PROVE  TargetInv'
BY ReadsForTarget DEF MeasurementReset, TargetInv, Target

LEMMA TargetSame ==
  ASSUME TargetInv, UNCHANGED targetVars
  PROVE  TargetInv'
BY DEF targetVars, TargetInv, Target

LEMMA TargetEditsInv ==
  ASSUME TargetInv, TargetEdits
  PROVE  TargetInv'
<1>1. ASSUME NEW m \in {"AUTO", "PINNED"}, NodeModeChange(m)
      PROVE  TargetInv'
  <2>1. nodes'.items \subseteq Nodes
        /\ DOMAIN nodes' = {"items", "loading", "error"}
    BY <1>1 DEF NodeModeChange, TargetInv
  <2>2. QED
    BY <1>1, <2>1, ReadsForTarget DEF NodeModeChange, TargetInv, Target
<1>2. ASSUME NEW key \in Nodes \cup {NoTarget}, NodeChange(key)
      PROVE  TargetInv'
  BY <1>2, ReadsForTarget DEF NodeChange, TargetInv, Target
<1>3. CASE RetryAvailability
  BY <1>3, ReadsForTarget DEF RetryAvailability, TargetInv, Target
<1>4. CASE RetryNodes
  BY <1>4 DEF RetryNodes, TargetInv, Target
<1>5. QED
  BY <1>1, <1>2, <1>3, <1>4 DEF TargetEdits

LEMMA TargetAnswersInv ==
  ASSUME TargetInv, MeasurementAnswers
  PROVE  TargetInv'
<1>1. ASSUME NEW r \in policyReads, PolicyAnswer(r)
      PROVE  TargetInv'
  <2>1. CASE r.live
    <3>1. policy'.of \in {r.target, NoTarget}
      BY <1>1, <2>1 DEF PolicyAnswer, PolicyShown
    <3>2. QED
      BY <1>1, <2>1, <3>1 DEF PolicyAnswer, TargetInv, Target
  <2>2. CASE ~r.live
    BY <1>1, <2>2 DEF PolicyAnswer, TargetInv, Target
  <2>3. QED
    BY <2>1, <2>2
<1>2. ASSUME NEW live \in nodeReads, NodesAnswer(live)
      PROVE  TargetInv'
  <2>1. CASE live
    <3>1. PICK items \in SUBSET Nodes, failed \in BOOLEAN :
            /\ nodes' = [items |-> items, loading |-> FALSE, error |-> failed]
            /\ nodeKey' = IF nodeKey \in items THEN nodeKey ELSE NoTarget
            /\ IF nodeKey' # nodeKey
               THEN ReadPolicies(mode, nodeKey')
               ELSE UNCHANGED <<policy, policyReads>>
      BY <1>2, <2>1 DEF NodesAnswer
    <3>2. mode' = mode
      BY <1>2 DEF NodesAnswer
    <3>3. QED
      BY <3>1, <3>2, ReadsForTarget DEF TargetInv, Target
  <2>2. CASE ~live
    BY <1>2, <2>2 DEF NodesAnswer, TargetInv, Target
  <2>3. QED
    BY <2>1, <2>2
<1>3. QED
  BY <1>1, <1>2 DEF MeasurementAnswers

LEMMA TargetOfMount ==
  ASSUME NEW s, Mount(s)
  PROVE  TargetFresh
BY DEF Mount, Fresh, TargetFresh

LEMMA TargetShape ==
  ASSUME Next
  PROVE  \/ UNCHANGED targetVars \/ TargetFresh \/ MeasurementReset
         \/ TargetEdits \/ MeasurementAnswers
<1>1. CASE NavigationStep
  BY <1>1, TargetOfMount
     DEF NavigationStep, OpenForm, Leave, Fresh, TargetFresh, GoHome, GoBack,
         measurementVars
<1>2. CASE ArchiveStep \/ CourseStep \/ BackendStep \/ PollingStep
  BY <1>2
     DEF ArchiveStep, EditArchive, FormEndReading, CourseStep, CoursesAnswer,
         RetryCourses, CourseChange, BackendStep, PollingStep, PollingFrame,
         measurementVars
<1>3. CASE LoadStep
  BY <1>3
     DEF LoadStep, LoadFails, RepeatDescriptor, RepeatArchive, RepeatLoaded,
         ReuseLoaded, ProtocolLoaded, ExecutionRestored, measurementVars
<1>4. CASE ReviewStep \/ PostStep
  BY <1>4
     DEF ReviewStep, OpenOverview, CancelOverview, ConfirmExecution,
         PrepareRetry, PostStep, PostAtBackend, PostFailed, measurementVars
<1>5. CASE MeasurementStep
  BY <1>5
     DEF MeasurementStep, ParameterEdits, TaskChange, InputSizeChange,
         InputSizeSliderChange, SamplesStep, SamplesChange,
         ExecutionProfileChange, DataTypeChange
<1>6. CASE Removal
  BY <1>6, TargetOfMount
     DEF Removal, ResetForm, PostAccepted, measurementVars
<1>7. QED
  BY <1>1, <1>2, <1>3, <1>4, <1>5, <1>6 DEF Next

LEMMA TargetInitInv ==
  ASSUME MeasurementInit
  PROVE  TargetInv
<1>1. mode = "AUTO" /\ nodeKey = NoTarget
  BY DEF MeasurementInit
<1>2. Target = "AUTO"
  BY <1>1 DEF Target
<1>3. nodes.items = {} /\ DOMAIN nodes = {"items", "loading", "error"}
  BY DEF MeasurementInit
<1>4. policy.of = NoTarget
  BY DEF MeasurementInit
<1> DEFINE r == [target |-> "AUTO", live |-> TRUE]
<1>5. policyReads = {r}
  BY DEF MeasurementInit
<1>6. r \in [target : Targets, live : BOOLEAN] /\ r.target = "AUTO"
  BY DEF Targets
<1> HIDE DEF r
<1>7. policyReads \subseteq [target : Targets, live : BOOLEAN]
  BY <1>5, <1>6
<1>8. \A q \in policyReads : q.live => q.target = Target
  BY <1>2, <1>5, <1>6
<1>9. QED
  BY <1>1, <1>3, <1>4, <1>7, <1>8 DEF TargetInv

\* The policies under way or on screen are those of the current target.
THEOREM TargetInvariant == Spec => []TargetInv
<1>1. Init => TargetInv
  <2>1. Init => MeasurementInit
    BY DEF Init
  <2>2. QED
    BY <2>1, TargetInitInv
<1>2. TargetInv /\ [Next]_vars => TargetInv'
  <2>1. ASSUME TargetInv, Next
        PROVE  TargetInv'
    BY <2>1, TargetShape, TargetSame, TargetFreshInv, TargetResetInv,
       TargetEditsInv, TargetAnswersInv
  <2>2. ASSUME TargetInv, UNCHANGED vars
        PROVE  TargetInv'
    BY <2>2, TargetSame DEF vars, measurementVars
  <2>3. QED
    BY <2>1, <2>2
<1>3. QED
  BY <1>1, <1>2, PTL DEF Spec

\* PolicyOfTarget, for any nodes and limits and any order of the answers.
THEOREM PoliciesMatchTarget == Spec => []PolicyOfTarget
<1>1. TargetInv => PolicyOfTarget
  BY DEF TargetInv, Target, PolicyOfTarget
<1>2. QED
  BY <1>1, TargetInvariant, PTL

----------------------------------------------------------------------------
(***************************************************************************)
(* The submissions in flight and the lock.                                 *)
(***************************************************************************)
PostFields == {"stage", "ours", "course", "protocol", "files", "input",
               "samples"}

SubmissionInv ==
  /\ \A p \in posts : DOMAIN p = PostFields /\ p.files \subseteq Executions
  /\ \A p \in posts : p.ours => submitLock /\ mounted
  /\ \A p, q \in posts : p.ours /\ q.ours => p = q

\* The ways a step changes the submissions, the lock or the page.
PostSent ==
  /\ mounted /\ ~submitLock /\ submitLock' = TRUE /\ mounted' = mounted
  /\ \E post : /\ DOMAIN post = PostFields
               /\ post.protocol = activeProtocol
               /\ post.course = selectedCourse
               /\ post.files = {}
               /\ posts' = posts \cup {post}

PostAnswered ==
  /\ UNCHANGED <<submitLock, mounted>>
  /\ \E p \in posts :
       posts' = posts \ {p}
       \/ \E stage : \E files \in SUBSET Executions :
            posts' = (posts \ {p}) \cup {[p EXCEPT !.stage = stage,
                                                   !.files = files]}

PostTaken ==
  \E p \in posts : /\ posts' = posts \ {p} /\ mounted' /\ ~submitLock'
                   /\ \/ mounted /\ p.ours
                      \/ ~mounted

PageLeft ==
  ~mounted' /\ posts' = {[p EXCEPT !.ours = FALSE] : p \in posts}

PageOpened == ~mounted /\ mounted' /\ UNCHANGED posts

LEMMA PostAtBackendShape ==
  ASSUME NEW p \in posts, PostAtBackend(p), DOMAIN p = PostFields,
         p.files \subseteq Executions
  PROVE  PostAnswered
<1>1. UNCHANGED <<submitLock, mounted>>
  BY DEF PostAtBackend
<1>2. CASE \E files \in SUBSET Executions, stage \in {"accepted", "failed"} :
             posts' = (posts \ {p}) \cup
               {[p EXCEPT !.stage = stage,
                          !.files = IF stage = "accepted" THEN files ELSE {}]}
  <2>1. PICK files \in SUBSET Executions, stage \in {"accepted", "failed"} :
          posts' = (posts \ {p}) \cup
            {[p EXCEPT !.stage = stage,
                       !.files = IF stage = "accepted" THEN files ELSE {}]}
    BY <1>2
  <2>2. (IF stage = "accepted" THEN files ELSE {}) \in SUBSET Executions
    OBVIOUS
  <2>3. QED
    BY <1>1, <2>1, <2>2 DEF PostAnswered
<1>3. CASE posts' = (posts \ {p}) \cup {[p EXCEPT !.stage = "failed"]}
  <2>1. [p EXCEPT !.stage = "failed"]
          = [p EXCEPT !.stage = "failed", !.files = p.files]
    BY DEF PostFields
  <2>2. QED
    BY <1>1, <1>3, <2>1 DEF PostAnswered
<1>4. QED
  BY <1>2, <1>3 DEF PostAtBackend

LEMMA PostsShape ==
  ASSUME SubmissionInv, Next
  PROVE  \/ UNCHANGED <<posts, submitLock, mounted>>
         \/ PostSent \/ PostAnswered \/ PostTaken \/ PageLeft \/ PageOpened
<1>1. CASE NavigationStep
  BY <1>1
     DEF NavigationStep, OpenForm, Leave, GoHome, GoBack, Mount, PageLeft, PageOpened
<1>2. CASE ArchiveStep \/ CourseStep \/ BackendStep \/ MeasurementStep
             \/ PollingStep
  BY <1>2
     DEF ArchiveStep, EditArchive, FormEndReading, CourseStep, CoursesAnswer,
         RetryCourses, CourseChange, BackendStep, MeasurementStep, PollingStep,
         PollingFrame, formVars
<1>3. CASE LoadStep
  BY <1>3
     DEF LoadStep, LoadFails, RepeatDescriptor, RepeatArchive, RepeatLoaded,
         ReuseLoaded, ProtocolLoaded, ExecutionRestored
<1>4. CASE OpenOverview \/ CancelOverview \/ PrepareRetry
  BY <1>4 DEF OpenOverview, CancelOverview, PrepareRetry
<1>5. CASE ConfirmExecution
  <2> DEFINE post == [stage |-> "sent", ours |-> TRUE,
                      course |-> selectedCourse, protocol |-> activeProtocol,
                      files |-> {}, input |-> input, samples |-> samples]
  <2>1. DOMAIN post = PostFields /\ post.protocol = activeProtocol
        /\ post.course = selectedCourse /\ post.files = {}
    BY DEF PostFields
  <2>2. posts' = posts \cup {post}
    BY <1>5 DEF ConfirmExecution
  <2> HIDE DEF post
  <2>3. mounted /\ ~submitLock /\ submitLock' = TRUE /\ mounted' = mounted
    BY <1>5 DEF ConfirmExecution, MaySend
  <2>4. QED
    BY <2>1, <2>2, <2>3 DEF PostSent
<1>6. ASSUME NEW p \in posts, PostAtBackend(p)
      PROVE  PostAnswered
  BY <1>6, PostAtBackendShape DEF SubmissionInv
<1>7. ASSUME NEW p \in posts, PostFailed(p)
      PROVE  PostAnswered \/ PostTaken
  BY <1>7 DEF PostFailed, PostAnswered, PostTaken, SubmissionInv
<1>8. CASE ResetForm
  BY <1>8 DEF ResetForm
<1>9. ASSUME NEW p \in posts, PostAccepted(p)
      PROVE  PostAnswered \/ PostTaken
  BY <1>9 DEF PostAccepted, Mount, Fresh, PostAnswered, PostTaken, SubmissionInv
<1>10. QED
  BY <1>1, <1>2, <1>3, <1>4, <1>5, <1>6, <1>7, <1>8, <1>9
     DEF Next, ReviewStep, PostStep, Removal

\* What the owner and the lock have to do with each other, kept by every step.
LEMMA SubmissionStep ==
  ASSUME SubmissionInv, Next
  PROVE  SubmissionInv'
<1>1. CASE UNCHANGED <<posts, submitLock, mounted>>
  BY <1>1 DEF SubmissionInv
<1>2. CASE PostSent
  BY <1>2 DEF PostSent, SubmissionInv
<1>3. CASE PostAnswered
  <2>1. PICK p \in posts :
          posts' = posts \ {p}
          \/ \E stage : \E files \in SUBSET Executions :
               posts' = (posts \ {p}) \cup {[p EXCEPT !.stage = stage,
                                                      !.files = files]}
    BY <1>3 DEF PostAnswered
  <2>2. UNCHANGED <<submitLock, mounted>>
    BY <1>3 DEF PostAnswered
  <2>3. CASE posts' = posts \ {p}
    BY <2>2, <2>3 DEF SubmissionInv
  <2>4. ASSUME NEW stage, NEW files \in SUBSET Executions,
               posts' = (posts \ {p}) \cup {[p EXCEPT !.stage = stage,
                                                      !.files = files]}
        PROVE  SubmissionInv'
    <3> DEFINE q == [p EXCEPT !.stage = stage, !.files = files]
    <3>1. DOMAIN q = PostFields /\ q.ours = p.ours /\ q.files = files
      BY DEF SubmissionInv, PostFields
    <3> HIDE DEF q
    <3>2. posts' = (posts \ {p}) \cup {q}
      BY <2>4 DEF q
    <3>3. QED
      BY <2>2, <3>1, <3>2 DEF SubmissionInv
  <2>5. QED
    BY <2>1, <2>3, <2>4
<1>4. CASE PostTaken
  BY <1>4 DEF PostTaken, SubmissionInv
<1>5. CASE PageLeft
  <2>1. \A p \in posts : /\ DOMAIN [p EXCEPT !.ours = FALSE] = PostFields
                         /\ ~[p EXCEPT !.ours = FALSE].ours
                         /\ [p EXCEPT !.ours = FALSE].files = p.files
    BY DEF SubmissionInv, PostFields
  <2>2. QED
    BY <1>5, <2>1 DEF PageLeft, SubmissionInv
<1>6. CASE PageOpened
  BY <1>6 DEF PageOpened, SubmissionInv
<1>7. QED
  BY <1>1, <1>2, <1>3, <1>4, <1>5, <1>6, PostsShape

\* A submission of the page on screen holds the lock, and there is at most one.
THEOREM SubmissionsHoldTheLock == Spec => []SubmissionInv
<1>1. Init => SubmissionInv
  BY DEF Init, SubmissionInv
<1>2. SubmissionInv /\ [Next]_vars => SubmissionInv'
  <2>1. CASE UNCHANGED vars
    BY <2>1 DEF vars, formVars, SubmissionInv
  <2>2. QED
    BY <2>1, SubmissionStep
<1>3. QED
  BY <1>1, <1>2, PTL DEF Spec

\* OneSubmission, for any bound of submissions in flight.
THEOREM NeverTwoSubmissions == Spec => []OneSubmission
<1>1. SubmissionInv => OneSubmission
  <2> SUFFICES ASSUME SubmissionInv
               PROVE  OneSubmission
    OBVIOUS
  <2> DEFINE mine == {p \in posts : p.ours}
  <2>1. CASE mine = {}
    BY <2>1, FS_EmptySet DEF OneSubmission
  <2>2. CASE mine # {}
    <3>1. PICK p : mine = {p}
      BY <2>2 DEF SubmissionInv
    <3>2. Cardinality(mine) = 1
      BY <3>1, FS_Singleton
    <3>3. QED
      BY <3>2 DEF OneSubmission
  <2>3. QED
    BY <2>1, <2>2
<1>2. QED
  BY <1>1, SubmissionsHoldTheLock, PTL

----------------------------------------------------------------------------
(***************************************************************************)
(* The protocol and its course.                                            *)
(***************************************************************************)
\* While a protocol is attached nothing is being loaded that could change the
\* course behind it.
Attached ==
  /\ activeProtocol => /\ selectedCourse = ProtocolOf.course
                       /\ ~courses.loading /\ ~courses.error
                       /\ load = NoLoad
  /\ load = "protocol" => ~courses.loading /\ ~courses.error

ProtocolInv == SubmissionInv /\ Attached /\ ProtocolCourse

courseVars == <<activeProtocol, selectedCourse, courses, load>>

\* The ways a step changes the protocol, the course or what is being loaded.
LoadDropped ==
  UNCHANGED <<activeProtocol, selectedCourse, courses>> /\ load' = NoLoad
Detached == ~activeProtocol' /\ load' \in {NoLoad, "execution"}
LoadGoesOn ==
  /\ activeProtocol' = activeProtocol
  /\ load # NoLoad /\ load' # "protocol"

LEMMA CourseShape ==
  ASSUME Next
  PROVE  \/ UNCHANGED courseVars \/ LoadDropped \/ Detached \/ LoadGoesOn
         \/ CoursesAnswer \/ RetryCourses \/ ProtocolLoaded
         \/ \E c \in Courses \cup {NoCourse} : CourseChange(c)
<1>1. CASE NavigationStep
  BY <1>1
     DEF NavigationStep, OpenForm, Leave, GoHome, GoBack, Mount, Fresh, ClearSearch,
         Detached, LoadDropped
<1>2. CASE ArchiveStep \/ BackendStep \/ MeasurementStep \/ PollingStep
  BY <1>2
     DEF ArchiveStep, EditArchive, FormEndReading, BackendStep,
         MeasurementStep, PollingStep, PollingFrame, formVars, courseVars
<1>3. CASE LoadFails
  BY <1>3 DEF LoadFails, LoadDropped
<1>4. CASE RepeatDescriptor \/ RepeatArchive \/ RepeatLoaded \/ ReuseLoaded
  BY <1>4
     DEF RepeatDescriptor, RepeatArchive, RepeatLoaded, ReuseLoaded,
         ClearSearch, LoadGoesOn, NoLoad
<1>5. CASE ExecutionRestored
  BY <1>5 DEF ExecutionRestored, LoadDropped
<1>6. CASE ReviewStep \/ PostStep
  BY <1>6
     DEF ReviewStep, OpenOverview, CancelOverview, ConfirmExecution,
         PrepareRetry, PostStep, PostAtBackend, PostFailed, ClearSearch,
         LoadDropped, courseVars
<1>7. CASE ResetForm
  BY <1>7 DEF ResetForm, ClearSearch, Detached
<1>8. ASSUME NEW p \in posts, PostAccepted(p)
      PROVE  Detached
  BY <1>8 DEF PostAccepted, Mount, Fresh, Detached
<1>9. QED
  BY <1>1, <1>2, <1>3, <1>4, <1>5, <1>6, <1>7, <1>8
     DEF Next, CourseStep, LoadStep, Removal

LEMMA AttachedStep ==
  ASSUME Attached, Next
  PROVE  Attached'
<1>1. CASE UNCHANGED courseVars
  BY <1>1 DEF courseVars, Attached
<1>2. CASE LoadDropped
  BY <1>2 DEF LoadDropped, Attached, NoLoad
<1>3. CASE Detached
  BY <1>3 DEF Detached, Attached, NoLoad
<1>4. CASE LoadGoesOn
  BY <1>4 DEF LoadGoesOn, Attached
<1>5. CASE CoursesAnswer
  BY <1>5 DEF CoursesAnswer, Attached
<1>6. CASE RetryCourses
  BY <1>6 DEF RetryCourses, CourseCard, Attached
<1>7. CASE ProtocolLoaded
  BY <1>7 DEF ProtocolLoaded, Attached, NoLoad
<1>8. ASSUME NEW c, CourseChange(c)
      PROVE  Attached'
  BY <1>8 DEF CourseChange, Detaches, ClearSearch, Attached, NoLoad
<1>9. QED
  BY <1>1, <1>2, <1>3, <1>4, <1>5, <1>6, <1>7, <1>8, CourseShape

\* What a submission was made under never changes after it is sent.
LEMMA ProtocolCourseStep ==
  ASSUME ProtocolInv, Next
  PROVE  ProtocolCourse'
<1>1. CASE UNCHANGED <<posts, submitLock, mounted>> \/ PostTaken \/ PageOpened
  BY <1>1 DEF PostTaken, PageOpened, ProtocolInv, ProtocolCourse
<1>2. CASE PostSent
  BY <1>2 DEF PostSent, ProtocolInv, Attached, ProtocolCourse
<1>3. CASE PostAnswered
  <2>1. PICK p \in posts :
          posts' = posts \ {p}
          \/ \E stage : \E files \in SUBSET Executions :
               posts' = (posts \ {p}) \cup {[p EXCEPT !.stage = stage,
                                                      !.files = files]}
    BY <1>3 DEF PostAnswered
  <2>2. CASE posts' = posts \ {p}
    BY <2>2 DEF ProtocolInv, ProtocolCourse
  <2>3. ASSUME NEW stage, NEW files \in SUBSET Executions,
               posts' = (posts \ {p}) \cup {[p EXCEPT !.stage = stage,
                                                      !.files = files]}
        PROVE  ProtocolCourse'
    <3> DEFINE q == [p EXCEPT !.stage = stage, !.files = files]
    <3>1. q.protocol = p.protocol /\ q.course = p.course
      BY DEF ProtocolInv, SubmissionInv, PostFields
    <3>2. posts' = (posts \ {p}) \cup {q}
      BY <2>3
    <3> HIDE DEF q
    <3>3. QED
      BY <3>1, <3>2 DEF ProtocolInv, ProtocolCourse
  <2>4. QED
    BY <2>1, <2>2, <2>3
<1>4. CASE PageLeft
  <2>1. \A p \in posts : LET q == [p EXCEPT !.ours = FALSE]
                         IN q.protocol = p.protocol /\ q.course = p.course
    BY DEF ProtocolInv, SubmissionInv, PostFields
  <2>2. QED
    BY <1>4, <2>1 DEF PageLeft, ProtocolInv, ProtocolCourse
<1>5. QED
  BY <1>1, <1>2, <1>3, <1>4, PostsShape DEF ProtocolInv

\* ProtocolCourse, for any courses, protocol and order of the loads.
THEOREM ProtocolsKeepTheirCourse == Spec => []ProtocolCourse
<1>1. Init => ProtocolInv
  BY DEF Init, ProtocolInv, SubmissionInv, Attached, ProtocolCourse, NoLoad
<1>2. ProtocolInv /\ [Next]_vars => ProtocolInv'
  <2>1. CASE UNCHANGED vars
    BY <2>1
       DEF vars, formVars, ProtocolInv, SubmissionInv, Attached, ProtocolCourse
  <2>2. ASSUME ProtocolInv, Next
        PROVE  ProtocolInv'
    BY <2>2, SubmissionStep, AttachedStep, ProtocolCourseStep DEF ProtocolInv
  <2>3. QED
    BY <2>1, <2>2
<1>3. ProtocolInv => ProtocolCourse
  BY DEF ProtocolInv
<1>4. QED
  BY <1>1, <1>2, <1>3, PTL DEF Spec

----------------------------------------------------------------------------
(***************************************************************************)
(* The draft.  AutosaveHolds is inductive as it stands: the autosave runs  *)
(* whatever the step was, and the two handlers that remove the draft leave *)
(* a default form or a guarded address behind.                             *)
(***************************************************************************)
LEMMA AutosaveKeeps ==
  ASSUME AutosaveHolds, Autosave(draft)
  PROVE  AutosaveHolds'
<1> SUFFICES ASSUME mounted', ~Guarded(search'.kind)
             PROVE  draft' = Stored(Values')
  BY DEF AutosaveHolds
<1>1. CASE ~mounted \/ Values' # Values \/ search' # search
  BY <1>1 DEF Autosave
<1>2. CASE mounted /\ Values' = Values /\ search' = search
  <2>1. draft' = draft
    BY <1>2 DEF Autosave
  <2>2. draft = Stored(Values)
    BY <1>2 DEF AutosaveHolds
  <2>3. QED
    BY <1>2, <2>1, <2>2
<1>3. QED
  BY <1>1, <1>2

LEMMA AutosaveAfterRemoval ==
  ASSUME Removal, Autosave({})
  PROVE  AutosaveHolds'
<1>1. CASE ResetForm
  <2> SUFFICES ASSUME mounted', ~Guarded(search'.kind)
               PROVE  draft' = Stored(Values')
    BY DEF AutosaveHolds
  <2>1. Values' = FreshValues
    BY <1>1
       DEF ResetForm, MeasurementReset, ManualTitle, Values, FreshValues
  <2>2. Stored(Values') = {}
    BY <2>1 DEF Stored, Meaningful, FreshValues
  <2>3. QED
    BY <2>2 DEF Autosave
<1>2. ASSUME NEW p \in posts, PostAccepted(p)
      PROVE  AutosaveHolds'
  <2> DEFINE address == [kind |-> "execution", files |-> p.files]
  <2>1. search'.kind = "execution"
    <3>1. address.kind = "execution"
      OBVIOUS
    <3>2. CASE ~mounted
      <4>1. Mount(address)
        BY <1>2, <3>2 DEF PostAccepted
      <4> HIDE DEF address
      <4>2. search' = address
        BY <4>1 DEF Mount, Fresh
      <4>3. QED
        BY <3>1, <4>2
    <3>3. CASE mounted
      BY <1>2, <3>3 DEF PostAccepted
    <3>4. QED
      BY <3>2, <3>3
  <2>2. QED
    BY <2>1 DEF AutosaveHolds, Guarded
<1>3. QED
  BY <1>1, <1>2 DEF Removal

\* AutosaveHolds, for any configurations, titles and order of the steps.
THEOREM DraftIsTheForm == Spec => []AutosaveHolds
<1>1. Init => AutosaveHolds
  BY DEF Init, AutosaveHolds
<1>2. AutosaveHolds /\ [Next]_vars => AutosaveHolds'
  <2>1. CASE UNCHANGED vars
    <3>1. UNCHANGED <<mounted, search, draft>> /\ Values' = Values
      BY <2>1
         DEF vars, formVars, zipVars, measurementVars, parameterVars, Values
    <3>2. QED
      BY <3>1 DEF AutosaveHolds
  <2>2. ASSUME AutosaveHolds, Next
        PROVE  AutosaveHolds'
    BY <2>2, AutosaveKeeps, AutosaveAfterRemoval DEF Next
  <2>3. QED
    BY <2>1, <2>2
<1>3. QED
  BY <1>1, <1>2, PTL DEF Spec

----------------------------------------------------------------------------
(***************************************************************************)
(* The input and the policy in force.                                      *)
(***************************************************************************)
LEMMA InferFixed ==
  ASSUME NEW p \in DOMAIN FixedSamples
  PROVE  InferProfile(FixedSamples[p]) = p
<1>1. DOMAIN FixedSamples = {"rapido", "equilibrado", "exhaustivo"}
      /\ FixedSamples["rapido"] = 10 /\ FixedSamples["equilibrado"] = 30
      /\ FixedSamples["exhaustivo"] = 50
  BY DEF FixedSamples
<1>2. \A q \in DOMAIN FixedSamples : FixedSamples[q] = FixedSamples[p] => q = p
  BY <1>1
<1>3. (CHOOSE q \in DOMAIN FixedSamples : FixedSamples[q] = FixedSamples[p]) = p
  BY <1>2
<1>4. QED
  BY <1>3 DEF InferProfile

LEMMA InferOther ==
  InferProfile(Empty) = "personalizado" /\ InferProfile(1) = "personalizado"
BY DEF InferProfile, FixedSamples, Empty

\* The default of a policy on screen is between its limits.
LEMMA DefaultWithin ==
  ASSUME TargetInv, NEW k, NEW p, HasPolicy(k, p)
  PROVE  Within(InputLimits(k, p).default, InputLimits(k, p))
<1>1. policy.of \in Targets /\ <<k, p>> \in DOMAIN Limits[policy.of]
  BY DEF HasPolicy, Offers, TargetInv, Target, Targets
<1>2. QED
  BY <1>1, MeasurementAssumption DEF InputLimits, Within

\* An input that was aligned with a profile is allowed by its policy.
LEMMA AlignedWithin ==
  ASSUME TargetInv, NEW n, NEW p, HasPolicy(task, p)
  PROVE  Within(Aligned(n, p), InputLimits(task, p))
BY DefaultWithin DEF Aligned

\* Filling an empty input keeps it between the limits.
LEMMA FilledWithin ==
  ASSUME TargetInv, NEW n, NEW k, NEW s,
         HasPolicy(k, InferProfile(s)) =>
           Within(n, InputLimits(k, InferProfile(s)))
  PROVE  HasPolicy(k, InferProfile(s)) =>
           Within(Filled(n, policy.of, k, s), InputLimits(k, InferProfile(s)))
BY DefaultWithin DEF Filled, HasPolicy, InputLimits

LEMMA InLimitsNext ==
  ASSUME TargetInv, UNCHANGED policy,
         HasPolicy(task', InferProfile(samples')) =>
           Within(input', InputLimits(task', InferProfile(samples')))
  PROVE  InLimits'
BY DEF InLimits, HasPolicy, InputLimits

LEMMA TaskInLimits ==
  ASSUME TargetInv, ProfileMatches, NEW k \in TaskTypes, TaskChange(k)
  PROVE  InLimits'
<1> DEFINE p == InferProfile(samples)
           n == IF HasPolicy(k, p) THEN InputLimits(k, p).default ELSE Empty
<1>1. InferProfile(samples') = p
  <2>1. samples' = samples \/ (samples = Empty /\ samples' = 1)
    BY DEF TaskChange, ProfileMatches
  <2>2. QED
    BY <2>1, InferOther
<1>2. HasPolicy(k, p) => Within(n, InputLimits(k, p))
  BY DefaultWithin
<1>3. task' = k /\ policy' = policy /\ input' = Filled(n, policy.of, k, samples')
  BY DEF TaskChange, targetVars
<1> HIDE DEF p, n
<1>4. QED
  BY <1>1, <1>2, <1>3, FilledWithin, InLimitsNext

LEMMA SamplesInLimits ==
  ASSUME TargetInv, NEW n, SamplesChange(n), n # Empty
  PROVE  InLimits'
<1>1. /\ task' = task /\ samples' = n /\ policy' = policy
      /\ input' = Filled(Aligned(input, InferProfile(n)), policy.of, task, n)
  BY DEF SamplesChange, targetVars
<1>2. HasPolicy(task, InferProfile(n)) =>
        Within(Aligned(input, InferProfile(n)),
               InputLimits(task, InferProfile(n)))
  BY AlignedWithin
<1>3. QED
  BY <1>1, <1>2, FilledWithin, InLimitsNext

LEMMA ProfileInLimits ==
  ASSUME TargetInv, InLimits, NEW p \in Profiles, ExecutionProfileChange(p)
  PROVE  InLimits'
<1>1. task' = task /\ policy' = policy
  BY DEF ExecutionProfileChange, targetVars
<1>2. CASE p \in DOMAIN FixedSamples
  <2>1. /\ samples' = FixedSamples[p]
        /\ input' = Filled(Aligned(input, p), policy.of, task, samples')
    BY <1>2 DEF ExecutionProfileChange
  <2>2. InferProfile(samples') = p
    BY <1>2, <2>1, InferFixed
  <2>3. HasPolicy(task, p) => Within(Aligned(input, p), InputLimits(task, p))
    BY AlignedWithin
  <2>4. QED
    BY <1>1, <2>1, <2>2, <2>3, FilledWithin, InLimitsNext
<1>3. CASE p \notin DOMAIN FixedSamples
  BY <1>1, <1>3 DEF ExecutionProfileChange, InLimits, HasPolicy, InputLimits
<1>4. QED
  BY <1>2, <1>3

\* InputFollowsPolicy, for any matrices of policies and any inputs.
THEOREM EditsFollowThePolicy == Spec => InputFollowsPolicy
<1>1. ASSUME TargetInv, ParameterEdits, InLimits, ProfileMatches,
             <<task, samples, profile>>' # <<task, samples, profile>>,
             samples' # Empty
      PROVE  InLimits'
  <2>1. ASSUME NEW k \in TaskTypes, TaskChange(k)
        PROVE  InLimits'
    BY <1>1, <2>1, TaskInLimits
  <2>2. ASSUME NEW n, InputSizeChange(n) \/ InputSizeSliderChange(n)
        PROVE  InLimits'
    BY <1>1, <2>2 DEF InputSizeChange, InputSizeSliderChange
  <2>3. ASSUME NEW n, SamplesChange(n)
        PROVE  InLimits'
    BY <1>1, <2>3, SamplesInLimits DEF SamplesChange
  <2>4. ASSUME NEW p \in Profiles, ExecutionProfileChange(p)
        PROVE  InLimits'
    BY <1>1, <2>4, ProfileInLimits
  <2>5. CASE DataTypeChange("cammr")
    BY <1>1, <2>5 DEF DataTypeChange
  <2>6. QED
    BY <1>1, <2>1, <2>2, <2>3, <2>4, <2>5 DEF ParameterEdits, SamplesStep
<1>2. TargetInv /\ [Next]_vars =>
        [ /\ ParameterEdits /\ InLimits /\ ProfileMatches
          /\ <<task, samples, profile>>' # <<task, samples, profile>>
          /\ samples' # Empty
          => InLimits' ]_measurementVars
  BY <1>1
<1>3. QED
  BY <1>2, TargetInvariant, PTL DEF Spec, InputFollowsPolicy

----------------------------------------------------------------------------
(***************************************************************************)
(* The title and the submitting state.                                     *)
(***************************************************************************)
\* Of the steps that start or end a reading only one touches the title.
LEMMA ReadingShape ==
  ASSUME Next, reads' # reads, mounted, mounted', load' = load
  PROVE  UNCHANGED title \/ \E zip \in reads : EndReading(zip)
<1>1. CASE NavigationStep
  BY <1>1
     DEF NavigationStep, OpenForm, Leave, GoHome, GoBack, zipVars
<1>2. CASE EditArchive
  BY <1>2
     DEF EditArchive, ChooseZip, ChooseNothing, TypeTitle, zipVars
<1>3. ASSUME NEW zip \in reads, FormEndReading(zip)
      PROVE  EndReading(zip)
  BY <1>3 DEF FormEndReading
<1>4. CASE CourseStep \/ MeasurementStep \/ PollingStep \/ BackendStep
             \/ ReviewStep \/ PostStep
  BY <1>4
     DEF CourseStep, CoursesAnswer, RetryCourses, CourseChange,
         MeasurementStep, PollingStep, PollingFrame, BackendStep, ReviewStep,
         OpenOverview, CancelOverview, ConfirmExecution, PrepareRetry,
         PostStep, PostAtBackend, PostFailed, zipVars
<1>5. CASE LoadStep
  BY <1>5
     DEF LoadStep, LoadFails, RepeatDescriptor, RepeatArchive, RepeatLoaded,
         ReuseLoaded, ProtocolLoaded, ExecutionRestored, ClearSearch, NoLoad,
         zipVars
<1>6. CASE Removal
  BY <1>6 DEF Removal, ResetForm, PostAccepted, zipVars
<1>7. QED
  BY <1>1, <1>2, <1>3, <1>4, <1>5, <1>6 DEF Next, ArchiveStep

\* TypedTitleKept, for any archives and any order of their readings.
THEOREM TitlesAreKept == Spec => TypedTitleKept
<1>1. ASSUME Next, reads' # reads, title.origin = "MANUAL",
             title.text = "typed", mounted, mounted', load' = load
      PROVE  title' = title
  <2>1. CASE UNCHANGED title
    BY <2>1
  <2>2. ASSUME NEW zip \in reads, EndReading(zip)
        PROVE  title' = title
    BY <1>1, <2>2 DEF EndReading, ReadingWrites, Suggested
  <2>3. QED
    BY <1>1, <2>1, <2>2, ReadingShape
<1>2. [Next]_vars =>
        [ /\ reads' # reads /\ title.origin = "MANUAL" /\ title.text = "typed"
          /\ mounted /\ mounted' /\ load' = load
          => title' = title ]_vars
  BY <1>1
<1>3. QED
  BY <1>2, PTL DEF Spec, TypedTitleKept

\* An accepted submission has executions to follow.
AcceptedInv ==
  \A p \in posts : p.stage = "accepted" => p.files # {}

LEMMA AtBackend ==
  ASSUME NEW p \in posts, PostAtBackend(p), DOMAIN p = PostFields
  PROVE  \E q : /\ posts' = (posts \ {p}) \cup {q}
                /\ q.ours = p.ours
                /\ q.stage = "accepted" => q.files # {}
<1>1. ASSUME NEW files, NEW stage, files # {},
             posts' = (posts \ {p}) \cup
               {[p EXCEPT !.stage = stage,
                          !.files = IF stage = "accepted" THEN files ELSE {}]}
      PROVE  \E q : /\ posts' = (posts \ {p}) \cup {q}
                    /\ q.ours = p.ours
                    /\ q.stage = "accepted" => q.files # {}
  <2> DEFINE q == [p EXCEPT !.stage = stage,
                            !.files = IF stage = "accepted" THEN files ELSE {}]
  <2>1. q.ours = p.ours /\ (q.stage = "accepted" => q.files # {})
    BY <1>1 DEF PostFields
  <2>2. posts' = (posts \ {p}) \cup {q}
    BY <1>1
  <2> HIDE DEF q
  <2>3. QED
    BY <2>1, <2>2
<1>2. CASE posts' = (posts \ {p}) \cup {[p EXCEPT !.stage = "failed"]}
  <2> DEFINE q == [p EXCEPT !.stage = "failed"]
  <2>1. q.ours = p.ours /\ q.stage = "failed"
    BY DEF PostFields
  <2>2. posts' = (posts \ {p}) \cup {q}
    BY <1>2
  <2> HIDE DEF q
  <2>3. QED
    BY <2>1, <2>2
<1>3. QED
  BY <1>1, <1>2 DEF PostAtBackend

LEMMA AcceptedStep ==
  ASSUME SubmissionInv, AcceptedInv, Next
  PROVE  AcceptedInv'
<1>1. CASE NavigationStep
  <2>1. CASE OpenForm \/ GoHome \/ GoBack
    BY <2>1 DEF OpenForm, GoHome, GoBack, AcceptedInv
  <2>2. CASE Leave
    <3>1. \A p \in posts : LET q == [p EXCEPT !.ours = FALSE]
                           IN q.stage = p.stage /\ q.files = p.files
      BY DEF SubmissionInv, PostFields
    <3>2. \A x \in posts' : \E p \in posts : x = [p EXCEPT !.ours = FALSE]
      BY <2>2 DEF Leave
    <3>3. ASSUME NEW x \in posts', x.stage = "accepted"
          PROVE  x.files # {}
      <4>1. PICK p \in posts : x = [p EXCEPT !.ours = FALSE]
        BY <3>2
      <4>2. x.stage = p.stage /\ x.files = p.files
        BY <3>1, <4>1
      <4>3. QED
        BY <3>3, <4>2 DEF AcceptedInv
    <3>4. QED
      BY <3>3 DEF AcceptedInv
  <2>3. QED
    BY <1>1, <2>1, <2>2 DEF NavigationStep
<1>2. CASE ArchiveStep \/ CourseStep \/ BackendStep \/ MeasurementStep
             \/ PollingStep
  BY <1>2
     DEF ArchiveStep, EditArchive, FormEndReading, CourseStep, CoursesAnswer,
         RetryCourses, CourseChange, BackendStep, MeasurementStep, PollingStep,
         PollingFrame, formVars, AcceptedInv
<1>3. CASE LoadStep
  BY <1>3
     DEF LoadStep, LoadFails, RepeatDescriptor, RepeatArchive, RepeatLoaded,
         ReuseLoaded, ProtocolLoaded, ExecutionRestored, AcceptedInv
<1>4. CASE OpenOverview \/ CancelOverview \/ PrepareRetry \/ ResetForm
  BY <1>4
     DEF OpenOverview, CancelOverview, PrepareRetry, ResetForm, AcceptedInv
<1>5. CASE ConfirmExecution
  <2> DEFINE post == [stage |-> "sent", ours |-> TRUE,
                      course |-> selectedCourse, protocol |-> activeProtocol,
                      files |-> {}, input |-> input, samples |-> samples]
  <2>1. post.stage = "sent"
    OBVIOUS
  <2>2. posts' = posts \cup {post}
    BY <1>5 DEF ConfirmExecution
  <2> HIDE DEF post
  <2>3. QED
    BY <2>1, <2>2 DEF AcceptedInv
<1>6. ASSUME NEW p \in posts, PostAtBackend(p)
      PROVE  AcceptedInv'
  BY <1>6, AtBackend DEF SubmissionInv, AcceptedInv
<1>7. ASSUME NEW p \in posts, PostFailed(p) \/ PostAccepted(p)
      PROVE  AcceptedInv'
  <2>1. posts' = posts \ {p}
    BY <1>7 DEF PostFailed, PostAccepted
  <2>2. QED
    BY <2>1 DEF AcceptedInv
<1>8. QED
  BY <1>1, <1>2, <1>3, <1>4, <1>5, <1>6, <1>7
     DEF Next, ReviewStep, PostStep, Removal

LEMMA SubmittingStep ==
  ASSUME SubmissionInv, AcceptedInv, SubmittingIsReal, Next
  PROVE  SubmittingIsReal'
<1>1. CASE NavigationStep
  BY <1>1
     DEF NavigationStep, OpenForm, Leave, GoHome, GoBack, Mount, Fresh, pollingVars,
         SubmittingIsReal
<1>2. CASE ArchiveStep \/ CourseStep \/ MeasurementStep
  BY <1>2
     DEF ArchiveStep, EditArchive, FormEndReading, CourseStep, CoursesAnswer,
         RetryCourses, CourseChange, MeasurementStep, pollingVars, formVars,
         SubmittingIsReal
<1>3. CASE BackendStep
  BY <1>3 DEF BackendStep, BackendMoves, formVars, SubmittingIsReal
<1>4. CASE PollingStep
  <2>1. fileList' = fileList
    BY <1>4
       DEF PollingStep, PanelNext, PollingNext, PollingAnswers, EndRound,
           AnswerGet, TimerFires, RetryCommand, AskAgain, RetryPolling,
           CancelAtBackend, CancelAnswered, CancelCommand, CancelExecution,
           Follow
  <2>2. posts' = posts /\ (isSubmitting' => isSubmitting)
    BY <1>4 DEF PollingStep, PollingFrame
  <2>3. QED
    BY <2>1, <2>2 DEF SubmittingIsReal
<1>5. CASE LoadFails \/ RepeatDescriptor \/ RepeatArchive
  BY <1>5
     DEF LoadFails, RepeatDescriptor, RepeatArchive, pollingVars,
         SubmittingIsReal
<1>6. CASE RepeatLoaded
  BY <1>6 DEF RepeatLoaded, Forget, pollingVars, SubmittingIsReal
<1>7. CASE ReuseLoaded \/ ProtocolLoaded \/ PrepareRetry \/ ResetForm
  BY <1>7
     DEF ReuseLoaded, ProtocolLoaded, PrepareRetry, ResetForm, Forget,
         SubmittingIsReal
<1>8. CASE ExecutionRestored
  <2>1. fileList' = search.files
    BY <1>8 DEF ExecutionRestored, Follow
  <2>2. search.files = {} => ~isSubmitting'
    BY <1>8 DEF ExecutionRestored
  <2>3. QED
    BY <2>1, <2>2 DEF SubmittingIsReal
<1>9. CASE OpenOverview \/ CancelOverview
  BY <1>9 DEF OpenOverview, CancelOverview, pollingVars, SubmittingIsReal
<1>10. CASE ConfirmExecution
  <2> DEFINE post == [stage |-> "sent", ours |-> TRUE,
                      course |-> selectedCourse, protocol |-> activeProtocol,
                      files |-> {}, input |-> input, samples |-> samples]
  <2>1. post.ours
    OBVIOUS
  <2>2. posts' = posts \cup {post}
    BY <1>10 DEF ConfirmExecution
  <2> HIDE DEF post
  <2>3. QED
    BY <2>1, <2>2 DEF SubmittingIsReal
<1>11. ASSUME NEW p \in posts, PostAtBackend(p)
       PROVE  SubmittingIsReal'
  <2>1. UNCHANGED <<fileList, isSubmitting>>
    BY <1>11 DEF PostAtBackend
  <2>2. PICK q : posts' = (posts \ {p}) \cup {q} /\ q.ours = p.ours
    BY <1>11, AtBackend DEF SubmissionInv
  <2>3. (\E x \in posts : x.ours) => \E x \in posts' : x.ours
    BY <2>2
  <2>4. QED
    BY <2>1, <2>3 DEF SubmittingIsReal
<1>12. ASSUME NEW p \in posts, PostFailed(p)
       PROVE  SubmittingIsReal'
  <2>1. posts' = posts \ {p} /\ fileList' = fileList
    BY <1>12 DEF PostFailed, pollingVars
  <2>2. CASE p.ours
    BY <1>12, <2>2 DEF PostFailed, SubmissionInv, SubmittingIsReal
  <2>3. CASE ~p.ours
    BY <1>12, <2>1, <2>3 DEF PostFailed, SubmittingIsReal
  <2>4. QED
    BY <2>2, <2>3
<1>13. ASSUME NEW p \in posts, PostAccepted(p)
       PROVE  SubmittingIsReal'
  <2>1. CASE ~mounted
    BY <1>13, <2>1 DEF PostAccepted, Mount, Fresh, SubmittingIsReal
  <2>2. CASE mounted /\ p.ours
    BY <1>13, <2>2 DEF PostAccepted, Follow, AcceptedInv, SubmittingIsReal
  <2>3. CASE mounted /\ ~p.ours
    BY <1>13, <2>3 DEF PostAccepted, SubmittingIsReal
  <2>4. QED
    BY <2>1, <2>2, <2>3
<1>14. QED
  BY <1>1, <1>2, <1>3, <1>4, <1>5, <1>6, <1>7, <1>8, <1>9, <1>10, <1>11,
     <1>12, <1>13
     DEF Next, LoadStep, ReviewStep, PostStep, Removal

\* SubmittingIsReal, for any submissions and any order of their answers.
THEOREM SubmittingHasAReason == Spec => []SubmittingIsReal
<1> DEFINE Inv == SubmissionInv /\ AcceptedInv /\ SubmittingIsReal
<1>1. Init => Inv
  BY DEF Init, SubmissionInv, AcceptedInv, SubmittingIsReal
<1>2. Inv /\ [Next]_vars => Inv'
  <2>1. ASSUME UNCHANGED vars, Inv
        PROVE  Inv'
    BY <2>1
       DEF vars, formVars, pollingVars, SubmissionInv, AcceptedInv,
           SubmittingIsReal
  <2>2. ASSUME Next, Inv
        PROVE  Inv'
    BY <2>2, SubmissionStep, AcceptedStep, SubmittingStep
  <2>3. QED
    BY <2>1, <2>2
<1>3. QED
  BY <1>1, <1>2, PTL DEF Spec

----------------------------------------------------------------------------
(***************************************************************************)
(* The archive.  Two readings under way at once can leave the description  *)
(* of one archive over the other (the run form_zip); one at a time cannot. *)
(***************************************************************************)
OneReading == \A z1, z2 \in reads : z1 = z2

\* A reading under way is of the archive in the form, if there is one; the
\* archive in the form is being read, refused, or the one described.
ArchiveInv ==
  /\ file # NoZip => \A zip \in reads : zip = file
  /\ file # NoZip /\ fileError = "" =>
       IF inspecting THEN file \in reads ELSE fileMeta = file

\* What a reading that ends leaves in the state of the archive.
Described(zip) ==
  /\ reads' = reads \ {zip} /\ inspecting' = FALSE
  /\ \/ file' = NoZip
     \/ file' = file /\ fileMeta' = zip

\* The ways a step changes the archive.
LEMMA ArchiveShape ==
  ASSUME Next
  PROVE  \/ UNCHANGED <<file, fileMeta, fileError, inspecting, reads>>
         \/ ZipReset /\ reads' \in {reads, {}}
         \/ \E zip \in Zips \ reads : StartReading(zip)
         \/ \E zip \in reads : Described(zip)
<1>1. CASE NavigationStep
  BY <1>1 DEF NavigationStep, OpenForm, Leave, GoHome, GoBack, Mount, Fresh, zipVars
<1>2. CASE EditArchive
  BY <1>2 DEF EditArchive, ChooseZip, ChooseNothing, TypeTitle
<1>3. ASSUME NEW zip \in reads, FormEndReading(zip)
      PROVE  Described(zip)
  BY <1>3 DEF FormEndReading, EndReading, ReadingWrites, Described
<1>4. CASE RepeatArchive
  BY <1>4, FormAssumption DEF RepeatArchive
<1>5. CASE RepeatLoaded
  BY <1>5 DEF RepeatLoaded, Described
<1>6. CASE LoadStep /\ ~RepeatArchive /\ ~RepeatLoaded
  BY <1>6
     DEF LoadStep, LoadFails, RepeatDescriptor, ReuseLoaded, ProtocolLoaded,
         ExecutionRestored, zipVars
<1>7. CASE \/ CourseStep \/ ReviewStep \/ PostStep \/ MeasurementStep
           \/ PollingStep \/ BackendStep
  BY <1>7
     DEF CourseStep, CoursesAnswer, RetryCourses, CourseChange, ReviewStep,
         OpenOverview, CancelOverview, ConfirmExecution, PrepareRetry, PostStep,
         PostAtBackend, PostFailed, MeasurementStep, PollingStep, PollingFrame,
         BackendStep, zipVars
<1>8. CASE Removal
  BY <1>8 DEF Removal, ResetForm, PostAccepted, Mount, Fresh, zipVars
<1>9. QED
  BY <1>1, <1>2, <1>3, <1>4, <1>5, <1>6, <1>7, <1>8 DEF Next, ArchiveStep

LEMMA ArchiveInvStep ==
  ASSUME ArchiveInv, Next, OneReading'
  PROVE  ArchiveInv'
<1>1. CASE UNCHANGED <<file, fileMeta, fileError, inspecting, reads>>
  BY <1>1 DEF ArchiveInv
<1>2. CASE ZipReset
  BY <1>2 DEF ZipReset, ArchiveInv
<1>3. ASSUME NEW zip \in Zips \ reads, StartReading(zip)
      PROVE  ArchiveInv'
  <2>1. CASE zip \in Refused
    BY <1>3, <2>1 DEF StartReading, ArchiveInv
  <2>2. CASE zip \notin Refused
    BY <1>3, <2>2 DEF StartReading, ArchiveInv, OneReading
  <2>3. QED
    BY <2>1, <2>2
<1>4. ASSUME NEW zip \in reads, Described(zip)
      PROVE  ArchiveInv'
  BY <1>4 DEF Described, ArchiveInv
<1>5. QED
  BY <1>1, <1>2, <1>3, <1>4, ArchiveShape

(* The archive the form is ready to send is the one that was inspected, as *)
(* long as no two readings are under way: that nothing cancels the reading *)
(* of an archive that was replaced is the only way it can fail.            *)
THEOREM OneReadingSuffices == Spec /\ []OneReading => []ReadyZipWasInspected
<1>1. Init => ArchiveInv
  BY DEF Init, ZipInit, ArchiveInv
<1>2. ArchiveInv /\ OneReading' /\ [Next]_vars => ArchiveInv'
  <2>1. CASE UNCHANGED vars
    BY <2>1 DEF vars, zipVars, ArchiveInv
  <2>2. QED
    BY <2>1, ArchiveInvStep
<1>3. ArchiveInv => ReadyZipWasInspected
  <2> SUFFICES ASSUME ArchiveInv, ZipRequirements = {} PROVE fileMeta = file
    BY DEF ReadyZipWasInspected
  <2>1. fileError = "" /\ file # NoZip /\ ~inspecting
    BY DEF ZipRequirements
  <2>2. QED
    BY <2>1 DEF ArchiveInv
<1>4. QED
  BY <1>1, <1>2, <1>3, PTL DEF Spec

----------------------------------------------------------------------------
(***************************************************************************)
(* A complete form comes back from its draft.  The draft is the form       *)
(* (DraftIsTheForm); that reading it changes nothing needs that a profile  *)
(* with a name never stands beside a number of samples the reader would    *)
(* replace, also after the executions of an address gave back the number   *)
(* that was sent with them.                                                *)
(***************************************************************************)
\* What the reader of a draft believes: a number from 1 to 100, or no profile
\* that fixes one.
Sound(p, n) == n \in Int /\ (n \in 1..100 \/ p = "personalizado")

ValueFields == {"title", "task", "dataType", "input", "samples", "profile"}

FormSound ==
  /\ Sound(profile, samples)
  /\ showOverview => samples \in 1..100
DraftSound == \A d \in draft : DOMAIN d = ValueFields /\ d.samples \in Int
SentSound ==
  /\ \A p \in posts : /\ DOMAIN p = PostFields /\ p.samples \in 1..100
                      /\ p.stage = "accepted" => p.files \in DOMAIN accepted
  /\ \A f \in DOMAIN accepted : accepted[f].samples \in 1..100
  /\ load = "execution" => search.files \in DOMAIN accepted

SamplesInv == FormSound /\ DraftSound /\ SentSound

----------------------------------------------------------------------------
(***************************************************************************)
(* The operators on profiles and samples.                                  *)
(***************************************************************************)
LEMMA FixedRange ==
  /\ \A p \in DOMAIN FixedSamples : FixedSamples[p] \in 1..100
  /\ "personalizado" \notin DOMAIN FixedSamples
  /\ \A p \in Profiles : p \in DOMAIN FixedSamples \/ p = "personalizado"
BY DEF FixedSamples, Profiles

LEMMA SliderRange ==
  ASSUME NEW n \in Int
  PROVE  SliderValue(n, [min |-> 1, max |-> 100]) \in 1..100
BY DEF SliderValue

LEMMA SliderKeeps ==
  ASSUME NEW n \in 1..100
  PROVE  SliderValue(n, [min |-> 1, max |-> 100]) = n
BY DEF SliderValue

LEMMA RestoredSound ==
  ASSUME NEW d, DOMAIN d = ValueFields, d.samples \in Int
  PROVE  Restored(d).samples \in 1..100
<1> DEFINE p == NormalProfile(d.profile, d.samples)
<1>1. Restored(d).samples = IF p \in DOMAIN FixedSamples THEN FixedSamples[p]
                            ELSE SliderValue(d.samples, [min |-> 1, max |-> 100])
  BY DEF Restored, ValueFields
<1> HIDE DEF p
<1>2. QED
  BY <1>1, FixedRange, SliderRange

\* The number a profile fixes is the one it was inferred from.
LEMMA InferredNumber ==
  ASSUME NEW n, InferProfile(n) \in DOMAIN FixedSamples
  PROVE  FixedSamples[InferProfile(n)] = n
<1>1. CASE \E p \in DOMAIN FixedSamples : FixedSamples[p] = n
  BY <1>1 DEF InferProfile
<1>2. CASE ~\E p \in DOMAIN FixedSamples : FixedSamples[p] = n
  BY <1>2, FixedRange DEF InferProfile
<1>3. QED
  BY <1>1, <1>2

LEMMA RestoredValues ==
  ASSUME samples \in 1..100, task # "", input # Empty
  PROVE  Restored(Values) = [Values EXCEPT !.profile = InferProfile(samples)]
<1> DEFINE p == InferProfile(samples)
           n == IF p \in DOMAIN FixedSamples THEN FixedSamples[p]
                ELSE SliderValue(samples, [min |-> 1, max |-> 100])
<1>1. NormalProfile(Values.profile, Values.samples) = p
  BY DEF NormalProfile, Values
<1>2. n = samples
  BY InferredNumber, SliderKeeps
<1>3. Restored(Values) = [Values EXCEPT !.profile = p, !.samples = n,
                                        !.input = Values.input]
  <2> DEFINE v == Values
  <2>1. v.samples = samples /\ v.task = task /\ v.input = input
    BY DEF Values
  <2> HIDE DEF v
  <2>2. (IF v.input = Empty /\ v.task = "" THEN 1000 ELSE v.input) = v.input
    BY <2>1
  <2>3. NormalProfile(v.profile, v.samples) = p
    BY <1>1 DEF v
  <2>4. Restored(v) = [v EXCEPT !.profile = p, !.samples = n, !.input = v.input]
    BY <2>1, <2>2, <2>3 DEF Restored
  <2>5. QED
    BY <2>4 DEF v
<1> HIDE DEF n, p
<1>4. [Values EXCEPT !.profile = p, !.samples = n, !.input = Values.input]
        = [Values EXCEPT !.profile = p]
  <2>1. n = Values.samples
    BY <1>2 DEF Values
  <2>2. Values = [title |-> Values.title, task |-> Values.task,
                  dataType |-> Values.dataType, input |-> Values.input,
                  samples |-> Values.samples, profile |-> Values.profile]
    BY DEF Values
  <2> DEFINE v == Values
  <2> HIDE DEF v
  <2>3. [v EXCEPT !.profile = p, !.samples = v.samples, !.input = v.input]
          = [v EXCEPT !.profile = p]
    BY <2>2 DEF v
  <2>4. QED
    BY <2>1, <2>3 DEF v
<1>5. QED
  BY <1>3, <1>4 DEF p

----------------------------------------------------------------------------
(***************************************************************************)
(* What a step makes of the form.                                          *)
(***************************************************************************)
\* The form is left alone, or closes its review.
Untouched == UNCHANGED <<profile, samples>> /\ (showOverview' => showOverview)
\* The form gets other values, the review being closed.
Refilled == Sound(profile', samples') /\ ~showOverview'
Reviewed == UNCHANGED <<profile, samples>> /\ samples \in 1..100

LEMMA FreshRefills ==
  ASSUME NEW s, NEW v, Fresh(s, v), Sound(v.profile, v.samples)
  PROVE  Refilled
BY DEF Fresh, Refilled

LEMMA MountRefills ==
  ASSUME DraftSound, NEW s, Mount(s)
  PROVE  Refilled
<1> DEFINE starter == [title |-> "", task |-> StarterOf.task,
                       dataType |-> StarterOf.dataType,
                       input |-> StarterOf.input,
                       samples |-> StarterOf.samples,
                       profile |-> StarterOf.profile]
           restored == Restored(CHOOSE d \in draft : TRUE)
<1>1. CASE s.kind = "starter"
  <2>1. Sound(starter.profile, starter.samples)
    BY SamplesAssumption DEF Sound
  <2>2. Fresh(s, starter)
    BY <1>1 DEF Mount
  <2> HIDE DEF starter
  <2>3. QED
    BY <2>1, <2>2, FreshRefills
<1>2. CASE s.kind # "starter" /\ draftRestored'
  <2>1. draft # {}
    BY <1>2 DEF Mount
  <2>2. (CHOOSE d \in draft : TRUE) \in draft
    BY <2>1
  <2>3. restored.samples \in 1..100
    BY <2>2, RestoredSound DEF DraftSound
  <2>4. Fresh(s, restored)
    BY <1>2 DEF Mount
  <2> HIDE DEF restored
  <2>5. QED
    BY <2>3, <2>4, FreshRefills DEF Sound
<1>3. CASE s.kind # "starter" /\ ~draftRestored'
  <2>1. Sound(FreshValues.profile, FreshValues.samples)
    BY DEF FreshValues, Sound
  <2>2. Fresh(s, FreshValues)
    BY <1>3 DEF Mount
  <2>3. QED
    BY <2>1, <2>2, FreshRefills
<1>4. QED
  BY <1>1, <1>2, <1>3

LEMMA EditsStaySound ==
  ASSUME FormSound, ParameterEdits, ~showOverview, UNCHANGED showOverview
  PROVE  Refilled
<1>1. Sound(profile, samples) /\ samples \in Int
  BY DEF FormSound, Sound
<1>2. ASSUME NEW k, TaskChange(k)
      PROVE  Refilled
  <2>1. profile' = profile
    BY <1>2 DEF TaskChange
  <2>2. CASE profile \in DOMAIN FixedSamples
    <3>1. samples' = FixedSamples[profile]
      BY <1>2, <2>2 DEF TaskChange
    <3>2. QED
      BY <2>2, <3>1, FixedRange DEF Sound, Refilled
  <2>3. CASE profile \notin DOMAIN FixedSamples
    <3>1. samples' = samples \/ samples' = 1
      BY <1>2, <2>3 DEF TaskChange
    <3>2. QED
      BY <1>1, <2>1, <3>1 DEF Sound, Refilled
  <2>4. QED
    BY <2>2, <2>3
<1>3. ASSUME NEW n, InputSizeChange(n) \/ InputSizeSliderChange(n)
      PROVE  Refilled
  BY <1>1, <1>3 DEF InputSizeChange, InputSizeSliderChange, Refilled
<1>4. ASSUME NEW n \in Int, SamplesChange(n)
      PROVE  Refilled
  BY <1>4 DEF SamplesChange, SamplesField, Sound, Refilled
<1>5. ASSUME NEW step \in {-1, 1}, SamplesStep(step)
      PROVE  Refilled
  <2> DEFINE current == IF samples = Empty THEN 1 ELSE samples
  <2>1. SliderValue(current + step, [min |-> 1, max |-> 100]) \in Int
    BY <1>1, SliderRange
  <2>2. QED
    BY <1>4, <1>5, <2>1 DEF SamplesStep
<1>6. ASSUME NEW p \in Profiles, ExecutionProfileChange(p)
      PROVE  Refilled
  BY <1>1, <1>6, FixedRange DEF ExecutionProfileChange, Sound, Refilled
<1>7. CASE DataTypeChange("cammr")
  BY <1>1, <1>7 DEF DataTypeChange, Refilled
<1>8. Samples \cup {Empty} \subseteq Int
  BY MeasurementAssumption DEF Empty
<1>9. QED
  BY <1>2, <1>3, <1>4, <1>5, <1>6, <1>7, <1>8 DEF ParameterEdits

LEMMA MeasurementStaysSound ==
  ASSUME FormSound, MeasurementStep
  PROVE  Untouched \/ Refilled
<1>1. UNCHANGED showOverview
  BY DEF MeasurementStep, formVars
<1>2. CASE ~showOverview /\ ParameterEdits
  BY <1>1, <1>2, EditsStaySound
<1>3. CASE TargetEdits
  BY <1>1, <1>3
     DEF TargetEdits, NodeModeChange, NodeChange, RetryAvailability,
         RetryNodes, parameterVars, Untouched
<1>4. CASE MeasurementAnswers
  BY <1>1, <1>4
     DEF MeasurementAnswers, PolicyAnswer, NodesAnswer, parameterVars,
         Untouched
<1>5. QED
  BY <1>2, <1>3, <1>4 DEF MeasurementStep

\* The review opens only over a form that nothing is missing from.
LEMMA ReviewSound ==
  ASSUME FormSound, ParameterRequirements = {}
  PROVE  samples \in 1..100
<1>1. CASE profile = "personalizado"
  <2>1. ~(samples < 1 \/ samples > 100)
    BY <1>1 DEF ParameterRequirements
  <2>2. QED
    BY <2>1 DEF FormSound, Sound
<1>2. CASE profile # "personalizado"
  BY <1>2 DEF FormSound, Sound
<1>3. QED
  BY <1>1, <1>2

LEMMA ReviewCommand ==
  ASSUME NEW blocked, "review" \in Commands(blocked)
  PROVE  blocked = {}
<1>1. PanelMode \in {"ready", "submitting", "running", "completed", "partial",
                    "cancelled", "error"}
  BY DEF PanelMode
<1>2. CASE PanelMode = "ready"
  BY <1>2 DEF Commands, ReadyOffers
<1>3. CASE PanelMode # "ready"
  <2>1. Commands(blocked) \in {{}, {"prepareAnother"},
                              {"results", "newAnalysis"}, {"newAnalysis"},
                              {"retryRequest"}, {"reviewRetry"}}
    BY <1>1, <1>3
       DEF Commands, SubmittingOffers, RunningOffers, CompletedOffers,
           PartialOffers, CancelledOffers, ErrorOffers
  <2>2. QED
    BY <2>1
<1>4. QED
  BY <1>2, <1>3

LEMMA OpensSound ==
  ASSUME FormSound, OpenOverview
  PROVE  Reviewed
<1>1. Requirements = {}
  BY ReviewCommand DEF OpenOverview
<1>2. ParameterRequirements = {}
  BY <1>1 DEF Requirements
<1>3. QED
  BY <1>2, ReviewSound
     DEF OpenOverview, measurementVars, parameterVars, Reviewed

LEMMA ConfigureSound ==
  ASSUME NEW c \in {RepeatOf, ReuseOf, ProtocolOf, StarterOf}, NEW text,
         Configure(c, text)
  PROVE  Sound(profile', samples')
BY SamplesAssumption DEF Configure, Sound

LEMMA LoadsStaySound ==
  ASSUME FormSound, SentSound, LoadStep
  PROVE  Untouched \/ Refilled
<1>1. CASE LoadFails \/ RepeatDescriptor \/ RepeatArchive
  BY <1>1
     DEF LoadFails, RepeatDescriptor, RepeatArchive, measurementVars,
         parameterVars, Untouched
<1>2. CASE RepeatLoaded
  <2>1. CASE RepeatZip \in Unreadable
    BY <1>2, <2>1 DEF RepeatLoaded, measurementVars, parameterVars, Untouched
  <2>2. CASE RepeatZip \notin Unreadable
    BY <1>2, <2>2, ConfigureSound DEF RepeatLoaded, Refilled
  <2>3. QED
    BY <2>1, <2>2
<1>3. CASE ReuseLoaded
  BY <1>3, ConfigureSound DEF ReuseLoaded, Refilled
<1>4. CASE ProtocolLoaded
  BY <1>4, ConfigureSound DEF ProtocolLoaded, Refilled
<1>5. CASE ExecutionRestored
  <2>1. search.files \in DOMAIN accepted
    BY <1>5 DEF ExecutionRestored, SentSound
  <2>2. accepted[search.files].samples \in 1..100
    BY <2>1 DEF SentSound
  <2>3. samples' \in 1..100 /\ ~showOverview'
    BY <1>5, <2>2 DEF ExecutionRestored
  <2>4. QED
    BY <2>3 DEF Sound, Refilled
<1>6. QED
  BY <1>1, <1>2, <1>3, <1>4, <1>5 DEF LoadStep

LEMMA FormShape ==
  ASSUME SamplesInv, Next
  PROVE  Untouched \/ Refilled \/ Reviewed
<1> USE DEF SamplesInv
<1>1. CASE OpenForm
  BY <1>1, MountRefills DEF OpenForm
<1>2. CASE Leave
  <2>1. Sound(FreshValues.profile, FreshValues.samples)
    BY DEF FreshValues, Sound
  <2>2. QED
    BY <1>2, <2>1, FreshRefills DEF Leave
<1>3. CASE GoHome \/ GoBack \/ CourseStep \/ BackendStep \/ PollingStep
  BY <1>3
     DEF GoHome, GoBack, CourseStep, CoursesAnswer, RetryCourses, CourseChange,
         BackendStep, PollingStep, PollingFrame, formVars, measurementVars,
         parameterVars, Untouched
<1>4. CASE ArchiveStep
  BY <1>4
     DEF ArchiveStep, EditArchive, FormEndReading, formVars, measurementVars,
         parameterVars, Untouched
<1>5. CASE LoadStep \/ MeasurementStep
  BY <1>5, LoadsStaySound, MeasurementStaysSound
<1>6. CASE OpenOverview
  BY <1>6, OpensSound
<1>7. CASE CancelOverview \/ ConfirmExecution \/ PrepareRetry
  BY <1>7
     DEF CancelOverview, ConfirmExecution, PrepareRetry, measurementVars,
         parameterVars, Untouched
<1>8. CASE PostStep
  BY <1>8
     DEF PostStep, PostAtBackend, PostFailed, measurementVars, parameterVars,
         Untouched
<1>9. CASE ResetForm
  <2>1. samples' = 30 /\ ~showOverview'
    BY <1>9 DEF ResetForm, MeasurementReset
  <2>2. QED
    BY <2>1 DEF Sound, Refilled
<1>10. ASSUME NEW p \in posts, PostAccepted(p)
       PROVE  Untouched \/ Refilled
  <2>1. CASE ~mounted
    BY <1>10, <2>1, MountRefills DEF PostAccepted
  <2>2. CASE mounted
    BY <1>10, <2>2 DEF PostAccepted, measurementVars, parameterVars, Untouched
  <2>3. QED
    BY <2>1, <2>2
<1>11. QED
  BY <1>1, <1>2, <1>3, <1>4, <1>5, <1>6, <1>7, <1>8, <1>9, <1>10
     DEF Next, NavigationStep, ReviewStep, Removal

LEMMA FormSoundStep ==
  ASSUME SamplesInv, Next
  PROVE  FormSound'
BY FormShape DEF SamplesInv, FormSound, Sound, Untouched, Refilled, Reviewed

\* The draft that is stored is the form, or the one that was.
LEMMA DraftSoundStep ==
  ASSUME SamplesInv, Next
  PROVE  DraftSound'
<1>1. samples' \in Int
  BY FormSoundStep DEF FormSound, Sound
<1>2. DOMAIN Values' = ValueFields /\ Values'.samples = samples'
  BY DEF Values, ValueFields
<1>3. draft' \subseteq draft \cup {Values'}
  BY DEF Next, Autosave, Stored
<1>4. QED
  BY <1>1, <1>2, <1>3 DEF SamplesInv, DraftSound

----------------------------------------------------------------------------
(***************************************************************************)
(* What a step makes of the submissions and of what the backend accepted.  *)
(***************************************************************************)
\* No configuration of the backend is new, and what is loaded stays grounded.
Settled ==
  /\ accepted' = accepted
  /\ load' = "execution" => search'.files \in DOMAIN accepted

LEMMA AddressGrounded ==
  ASSUME NEW s, Mount(s), s.kind = "execution" => s.files \in DOMAIN accepted
  PROVE  Settled
BY DEF Mount, Fresh, Settled, NoLoad

LEMMA SettledShape ==
  ASSUME SentSound, Next, ~\E p \in posts : PostAtBackend(p)
  PROVE  Settled
<1>1. CASE OpenForm
  <2>1. PICK s \in Addresses : Mount(s)
    BY <1>1 DEF OpenForm
  <2>2. s.kind = "execution" => s.files \in DOMAIN accepted
    BY DEF Addresses
  <2>3. QED
    BY <2>1, <2>2, AddressGrounded
<1>2. CASE Leave
  BY <1>2 DEF Leave, Fresh, NoSearch, NoLoad, Settled
<1>3. CASE GoHome \/ ResetForm
  BY <1>3 DEF GoHome, ResetForm, ClearSearch, NoLoad, Settled
<1>4. CASE ArchiveStep \/ BackendStep \/ MeasurementStep \/ PollingStep
  BY <1>4
     DEF ArchiveStep, EditArchive, FormEndReading, BackendStep,
         MeasurementStep, PollingStep, PollingFrame, formVars, SentSound,
         Settled
<1>5. CASE CoursesAnswer \/ RetryCourses
  BY <1>5 DEF CoursesAnswer, RetryCourses, SentSound, Settled
<1>6. ASSUME NEW c, CourseChange(c)
      PROVE  Settled
  BY <1>6 DEF CourseChange, ClearSearch, NoLoad, SentSound, Settled
<1>7. CASE LoadStep
  BY <1>7
     DEF LoadStep, LoadFails, RepeatDescriptor, RepeatArchive, RepeatLoaded,
         ReuseLoaded, ProtocolLoaded, ExecutionRestored, ClearSearch, NoLoad,
         Settled
<1>8. CASE ReviewStep
  BY <1>8
     DEF ReviewStep, OpenOverview, CancelOverview, ConfirmExecution,
         PrepareRetry, ClearSearch, NoLoad, SentSound, Settled
<1>9. ASSUME NEW p \in posts, PostFailed(p)
      PROVE  Settled
  BY <1>9 DEF PostFailed, SentSound, Settled
<1>10. ASSUME NEW p \in posts, PostAccepted(p)
       PROVE  Settled
  <2> DEFINE address == [kind |-> "execution", files |-> p.files]
  <2>1. address.files \in DOMAIN accepted
    BY <1>10 DEF PostAccepted, SentSound
  <2>2. CASE ~mounted
    <3>1. Mount(address)
      BY <1>10, <2>2 DEF PostAccepted
    <3> HIDE DEF address
    <3>2. QED
      BY <2>1, <3>1, AddressGrounded
  <2>3. CASE mounted
    BY <1>10, <2>1, <2>3 DEF PostAccepted, Settled
  <2>4. QED
    BY <2>2, <2>3
<1>11. CASE GoBack
  BY <1>11 DEF GoBack, Settled
<1>12. QED
  BY <1>1, <1>2, <1>3, <1>4, <1>5, <1>6, <1>7, <1>8, <1>9, <1>10, <1>11
     DEF Next, NavigationStep, CourseStep, PostStep, Removal

LEMMA PostsShrink ==
  ASSUME Next, ~ConfirmExecution, ~Leave, ~\E p \in posts : PostAtBackend(p)
  PROVE  posts' \subseteq posts
<1>1. CASE OpenForm \/ GoHome \/ GoBack
  BY <1>1 DEF OpenForm, GoHome, GoBack
<1>2. CASE \/ ArchiveStep \/ CourseStep \/ BackendStep \/ MeasurementStep
           \/ PollingStep
  BY <1>2
     DEF ArchiveStep, EditArchive, FormEndReading, CourseStep, CoursesAnswer,
         RetryCourses, CourseChange, BackendStep, MeasurementStep, PollingStep,
         PollingFrame, formVars
<1>3. CASE LoadStep
  BY <1>3
     DEF LoadStep, LoadFails, RepeatDescriptor, RepeatArchive, RepeatLoaded,
         ReuseLoaded, ProtocolLoaded, ExecutionRestored
<1>4. CASE OpenOverview \/ CancelOverview \/ PrepareRetry \/ ResetForm
  BY <1>4 DEF OpenOverview, CancelOverview, PrepareRetry, ResetForm
<1>5. ASSUME NEW p \in posts, PostFailed(p) \/ PostAccepted(p)
      PROVE  posts' \subseteq posts
  BY <1>5 DEF PostFailed, PostAccepted
<1>6. QED
  BY <1>1, <1>2, <1>3, <1>4, <1>5
     DEF Next, NavigationStep, ReviewStep, PostStep, Removal

\* A submission is sent from a review, with the number the review showed.
LEMMA SentAsReviewed ==
  ASSUME SamplesInv, ConfirmExecution
  PROVE  SentSound'
<1> DEFINE post == [stage |-> "sent", ours |-> TRUE,
                    course |-> selectedCourse, protocol |-> activeProtocol,
                    files |-> {}, input |-> input, samples |-> samples]
<1>1. samples \in 1..100
  BY DEF ConfirmExecution, ConfirmOffered, SamplesInv, FormSound
<1>2. /\ DOMAIN post = PostFields /\ post.samples \in 1..100
      /\ post.stage # "accepted"
  BY <1>1 DEF PostFields
<1>3. posts' = posts \cup {post}
  BY DEF ConfirmExecution
<1> HIDE DEF post
<1>4. accepted' = accepted /\ load' # "execution"
  BY DEF ConfirmExecution, ClearSearch, NoLoad
<1>5. QED
  BY <1>2, <1>3, <1>4 DEF SamplesInv, SentSound

LEMMA LeftSound ==
  ASSUME SamplesInv, Leave
  PROVE  SentSound'
<1>1. ASSUME NEW q \in posts'
      PROVE  \E p \in posts :
               /\ DOMAIN q = PostFields /\ q.samples = p.samples
               /\ q.stage = p.stage /\ q.files = p.files
  <2>1. PICK p \in posts : q = [p EXCEPT !.ours = FALSE]
    BY DEF Leave
  <2>2. DOMAIN p = PostFields
    BY DEF SamplesInv, SentSound
  <2>3. QED
    BY <2>1, <2>2 DEF PostFields
<1>2. accepted' = accepted /\ load' # "execution"
  BY DEF Leave, Fresh, NoSearch, NoLoad
<1>3. QED
  BY <1>1, <1>2 DEF SamplesInv, SentSound

\* What the backend accepts is what was sent.
LEMMA AcceptedAsSent ==
  ASSUME SamplesInv, NEW p \in posts, PostAtBackend(p)
  PROVE  SentSound'
<1>1. DOMAIN p = PostFields /\ p.samples \in 1..100
  BY DEF SamplesInv, SentSound
<1>2. UNCHANGED <<load, search>>
  BY DEF PostAtBackend
<1>3. ASSUME NEW files \in SUBSET Executions,
             NEW stage \in {"accepted", "failed"},
             accepted' = [f \in DOMAIN accepted \cup {files} |->
                            IF f = files THEN [input |-> p.input,
                                               samples |-> p.samples]
                            ELSE accepted[f]],
             posts' = (posts \ {p}) \cup
               {[p EXCEPT !.stage = stage,
                          !.files = IF stage = "accepted" THEN files ELSE {}]}
      PROVE  SentSound'
  <2> DEFINE q == [p EXCEPT !.stage = stage,
                            !.files = IF stage = "accepted" THEN files ELSE {}]
  <2>1. /\ DOMAIN q = PostFields /\ q.samples = p.samples
        /\ q.stage = stage
        /\ stage = "accepted" => q.files = files
    BY <1>1 DEF PostFields
  <2>2. posts' = (posts \ {p}) \cup {q}
    BY <1>3
  <2> HIDE DEF q
  <2>3. DOMAIN accepted' = DOMAIN accepted \cup {files}
    BY <1>3
  <2>4. \A f \in DOMAIN accepted' : accepted'[f].samples \in 1..100
    <3> SUFFICES ASSUME NEW f \in DOMAIN accepted'
                 PROVE  accepted'[f].samples \in 1..100
      OBVIOUS
    <3>1. CASE f = files
      BY <1>1, <1>3, <3>1
    <3>2. CASE f # files
      BY <1>3, <2>3, <3>2 DEF SamplesInv, SentSound
    <3>3. QED
      BY <3>1, <3>2
  <2>5. QED
    BY <1>1, <1>2, <2>1, <2>2, <2>3, <2>4 DEF SamplesInv, SentSound
<1>4. CASE posts' = (posts \ {p}) \cup {[p EXCEPT !.stage = "failed"]}
           /\ accepted' = accepted
  <2> DEFINE q == [p EXCEPT !.stage = "failed"]
  <2>1. DOMAIN q = PostFields /\ q.samples = p.samples /\ q.stage = "failed"
    BY <1>1 DEF PostFields
  <2>2. posts' = (posts \ {p}) \cup {q} /\ accepted' = accepted
    BY <1>4
  <2> HIDE DEF q
  <2>3. QED
    BY <1>1, <1>2, <2>1, <2>2 DEF SamplesInv, SentSound
<1>5. CASE \E files \in SUBSET Executions, stage \in {"accepted", "failed"} :
             /\ accepted' = [f \in DOMAIN accepted \cup {files} |->
                               IF f = files THEN [input |-> p.input,
                                                  samples |-> p.samples]
                               ELSE accepted[f]]
             /\ posts' = (posts \ {p}) \cup
                  {[p EXCEPT !.stage = stage,
                             !.files = IF stage = "accepted" THEN files ELSE {}]}
  BY <1>3, <1>5
<1>6. QED
  BY <1>4, <1>5 DEF PostAtBackend

LEMMA SentSoundStep ==
  ASSUME SamplesInv, Next
  PROVE  SentSound'
<1>1. CASE ~ConfirmExecution /\ ~Leave /\ ~\E p \in posts : PostAtBackend(p)
  <2>1. posts' \subseteq posts /\ Settled
    BY <1>1, PostsShrink, SettledShape DEF SamplesInv
  <2>2. QED
    BY <2>1 DEF Settled, SamplesInv, SentSound
<1>2. CASE ConfirmExecution \/ Leave
  BY <1>2, SentAsReviewed, LeftSound
<1>3. ASSUME NEW p \in posts, PostAtBackend(p)
      PROVE  SentSound'
  BY <1>3, AcceptedAsSent
<1>4. QED
  BY <1>1, <1>2, <1>3

----------------------------------------------------------------------------
\* The samples of the form, of its draft and of what was sent, for any
\* configurations.
THEOREM SamplesInvariant == Spec => []SamplesInv
<1>1. Init => SamplesInv
  <2> SUFFICES ASSUME Init
               PROVE  SamplesInv
    OBVIOUS
  <2>1. samples = 30 /\ ~showOverview /\ draft = {} /\ posts = {}
    BY DEF Init, MeasurementInit
  <2>2. DOMAIN accepted = {} /\ load # "execution"
    BY DEF Init, NoLoad
  <2>3. QED
    BY <2>1, <2>2 DEF SamplesInv, FormSound, Sound, DraftSound, SentSound
<1>2. SamplesInv /\ [Next]_vars => SamplesInv'
  <2>1. CASE UNCHANGED vars
    BY <2>1
       DEF vars, formVars, measurementVars, parameterVars, SamplesInv,
           FormSound, DraftSound, SentSound
  <2>2. ASSUME SamplesInv, Next
        PROVE  SamplesInv'
    BY <2>2, FormSoundStep, DraftSoundStep, SentSoundStep DEF SamplesInv
  <2>3. QED
    BY <2>1, <2>2
<1>3. QED
  BY <1>1, <1>2, PTL DEF Spec

\* A form that nothing is missing from comes back from its draft as it was
\* left, for any configurations, policies and order of the steps.
THEOREM DraftsComeBack == Spec => []DraftComesBack
<1>1. SamplesInv /\ AutosaveHolds => DraftComesBack
  <2> SUFFICES ASSUME SamplesInv, AutosaveHolds, NEW d \in draft,
                      mounted, ~Guarded(search.kind),
                      ParameterRequirements = {}
               PROVE  Restored(d) =
                        [Values EXCEPT !.profile = InferProfile(samples)]
    BY DEF DraftComesBack
  <2>1. d = Values
    BY DEF AutosaveHolds, Stored
  <2>2. samples \in 1..100
    BY ReviewSound DEF SamplesInv
  <2>3. task # "" /\ input # Empty
    BY DEF ParameterRequirements
  <2>4. QED
    BY <2>1, <2>2, <2>3, RestoredValues
<1>2. QED
  BY <1>1, SamplesInvariant, DraftIsTheForm, PTL
=============================================================================
