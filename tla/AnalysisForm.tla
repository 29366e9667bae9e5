--------------------------- MODULE AnalysisForm ----------------------------
(***************************************************************************)
(* The analysis page (Client RenderFormPage.js): its address, the course,  *)
(* the configurations an address loads, the draft, the review, the         *)
(* submission and the executions it follows.  The archive, the parameters  *)
(* and the polling are the three modules it extends.                       *)
(*                                                                         *)
(* The page is a React component: its state is born when it is mounted and *)
(* lost when the user leaves, while requests under way go on.  A state     *)
(* change and the effects it triggers are one step.                        *)
(***************************************************************************)
EXTENDS ZipInspection, MeasurementForm, StatusPanel

CONSTANTS Courses,     \* active courses the user may submit to
          AutoSelect,  \* a Student with one course: it is proposed
          RepeatOf,    \* the configuration /api/submissions/../repeat returns
          RepeatZip,   \* and its archive
          ReuseOf,     \* what /api/executions/../reuse returns
          ProtocolOf,  \* what /api/student/protocols/.. returns
          StarterOf,   \* a STARTER_CONFIGURATIONS entry
          MaxPosts     \* bound: submissions in flight at the same time

NoCourse == "no course"
Configurations == [task : TaskTypes, dataType : {"", "cammr"}, input : Int,
                   samples : Int, profile : Profiles,
                   course : Courses \cup {NoCourse}]

ASSUME FormAssumption ==
  /\ IsFiniteSet(Courses) /\ NoCourse \notin Courses
  /\ AutoSelect \in BOOLEAN
  /\ {RepeatOf, ReuseOf, ProtocolOf, StarterOf} \subseteq Configurations
  /\ ProtocolOf.course # NoCourse
  /\ RepeatZip \in Zips
  /\ MaxPosts \in Nat

\* The backend takes 1 to 100 repetitions, and a protocol with others is no
\* configuration of the form.
ASSUME SamplesAssumption ==
  \A c \in {RepeatOf, ReuseOf, ProtocolOf, StarterOf} : c.samples \in 1..100

VARIABLES mounted,         \* the page is on screen
          search,          \* location.search: [kind, files]
          courses,         \* [items, loading, error]
          selectedCourse,
          personal,        \* coursePersonalExplicitRef
          activeProtocol,  \* a protocol is attached to the form
          load,            \* the configuration or recovery being loaded
          draft,           \* localStorage: at most one stored form
          draftRestored,
          showOverview,
          submitLock,      \* submitRequestLockRef
          posts,           \* submissions in flight
          accepted         \* files of each submission -> its configuration

formVars == <<mounted, search, courses, selectedCourse, personal,
              activeProtocol, load, draftRestored, showOverview, isSubmitting,
              submitLock, submissionError, posts, accepted>>
vars == <<zipVars, measurementVars, pollingVars, formVars, draft>>

Kinds == {"none", "execution", "repeat", "reuse", "protocol", "starter", "course"}
NoSearch == [kind |-> "none", files |-> {}]
NoLoad == "none"
Loads == {NoLoad, "execution", "repeat", "repeatArchive", "repeatReading",
          "reuse", "protocol"}

Values == [title |-> title.text, task |-> task, dataType |-> dataType,
           input |-> input, samples |-> samples, profile |-> profile]

FormTypeOK ==
  /\ mounted \in BOOLEAN
  /\ search.kind \in Kinds /\ search.files \subseteq Executions
  /\ courses.items \subseteq Courses
  /\ courses.loading \in BOOLEAN /\ courses.error \in BOOLEAN
  /\ selectedCourse \in Courses \cup {NoCourse}
  /\ personal \in BOOLEAN /\ activeProtocol \in BOOLEAN
  /\ load \in Loads
  /\ Cardinality(draft) <= 1
  /\ draftRestored \in BOOLEAN /\ showOverview \in BOOLEAN
  /\ isSubmitting \in BOOLEAN /\ submitLock \in BOOLEAN
  /\ submissionError \in BOOLEAN
  /\ \A p \in posts : /\ p.stage \in {"sent", "accepted", "failed"}
                      /\ p.ours \in BOOLEAN
                      /\ p.course \in Courses \cup {NoCourse}
                      /\ p.protocol \in BOOLEAN
                      /\ p.files \subseteq Executions

TypeOK == ZipTypeOK /\ MeasurementTypeOK /\ PollingTypeOK /\ FormTypeOK

----------------------------------------------------------------------------
\* hasMeaningfulDraft: what differs from the default form.
Meaningful(v) ==
  \/ v.title # "" \/ v.task # "" \/ v.dataType # ""
  \/ v.profile # "equilibrado"
  \/ v.input \notin {Empty, 1000}
  \/ v.samples \notin {Empty, 30}

\* writeDraft, or removeItem when there is nothing to keep.
Stored(v) == IF Meaningful(v) THEN {v} ELSE {}

\* Mutant: the stored name of the profile is believed.
KeptProfile(p, n) == p

\* normalizeExecutionProfile: valid samples decide, whatever the name says.
NormalProfile(p, n) == IF n \in 1..100 THEN InferProfile(n) ELSE p

\* The form a stored draft gives back: a profile inferred from the samples,
\* the samples of the profile or clamped, 1000 for a missing input.
Restored(v) ==
  LET p == NormalProfile(v.profile, v.samples) IN
  [v EXCEPT !.profile = p,
            !.samples = IF p \in DOMAIN FixedSamples THEN FixedSamples[p]
                        ELSE SliderValue(v.samples, [min |-> 1, max |-> 100]),
            !.input = IF v.input = Empty /\ v.task = "" THEN 1000 ELSE v.input]

FreshValues == [title |-> "", task |-> "", dataType |-> "", input |-> Empty,
                samples |-> 30, profile |-> "equilibrado"]

\* The autosave effect, after a step whose handler left `stored` behind: it
\* runs when a value or the address changed, except on guarded addresses.
Guarded(kind) == kind \in {"execution", "repeat", "reuse", "protocol"}

\* Mutant: the address is not among the dependencies of the effect.
AutosaveOnEdit(stored) ==
  draft' = IF mounted' /\ ~Guarded(search'.kind)
              /\ (~mounted \/ Values' # Values)
           THEN Stored(Values') ELSE stored

Autosave(stored) ==
  draft' = IF mounted' /\ ~Guarded(search'.kind)
              /\ (~mounted \/ Values' # Values \/ search' # search)
           THEN Stored(Values') ELSE stored

----------------------------------------------------------------------------
\* navigate({search: ""}, {replace: true}): what was being loaded is dropped.
ClearSearch == search' = NoSearch /\ load' = NoLoad

\* The form takes the values of a configuration; an empty input is filled.
Configure(c, text) ==
  /\ task' = c.task /\ dataType' = c.dataType /\ samples' = c.samples
  /\ profile' = c.profile
  /\ input' = Filled(c.input, policy.of, c.task, c.samples)
  /\ title' = text

\* buildReuseConfiguration keeps the course only if it is still available.
CourseOf(c) == IF c.course \in courses.items THEN c.course ELSE NoCourse

\* Mutant: the submitting state survives.
ForgetButSubmitting == /\ Follow({})
                       /\ UNCHANGED isSubmitting /\ submissionError' = FALSE

\* Nothing of the executions followed so far is left on screen.
Forget == /\ Follow({})
          /\ isSubmitting' = FALSE /\ submissionError' = FALSE

Init ==
  /\ ZipInit /\ MeasurementInit /\ PollingInit
  /\ row = [e \in Executions |-> "ABSENT"]
  /\ mounted = FALSE /\ search = NoSearch
  /\ courses = [items |-> {}, loading |-> TRUE, error |-> FALSE]
  /\ selectedCourse = NoCourse /\ personal = FALSE /\ activeProtocol = FALSE
  /\ load = NoLoad /\ draft = {} /\ draftRestored = FALSE
  /\ showOverview = FALSE /\ isSubmitting = FALSE /\ submitLock = FALSE
  /\ submissionError = FALSE /\ posts = {} /\ accepted = << >>

\* Fresh component state at address s, with values v in the form, after the
\* effects of the first render: the policies and the courses are asked for.
Fresh(s, v) ==
  /\ search' = s
  /\ ZipReset /\ reads' = {} /\ title' = ManualTitle(v.title)
  /\ task' = v.task /\ dataType' = v.dataType /\ input' = v.input
  /\ samples' = v.samples /\ profile' = v.profile
  /\ mode' = "AUTO" /\ nodeKey' = NoTarget
  /\ nodes' = [items |-> {}, loading |-> FALSE, error |-> FALSE]
  /\ policy' = [of |-> NoTarget, loading |-> TRUE, error |-> FALSE]
  /\ availability' = "CHECKING"
  /\ policyReads' = {[target |-> "AUTO", live |-> TRUE]} /\ nodeReads' = {}
  /\ fileList' = {} /\ polls' = {} /\ timer' = FALSE
  /\ shown' = NothingShown /\ requestError' = FALSE
  /\ cancelling' = [e \in Executions |-> ""] /\ cancels' = {}
  /\ courses' = [items |-> {}, loading |-> TRUE, error |-> FALSE]
  /\ selectedCourse' = NoCourse /\ personal' = FALSE /\ activeProtocol' = FALSE
  /\ load' = IF s.kind = "execution" THEN "execution" ELSE NoLoad
  /\ showOverview' = FALSE /\ isSubmitting' = FALSE /\ submitLock' = FALSE
  /\ submissionError' = FALSE
  /\ UNCHANGED <<row, clicks, accepted>>

\* The component is mounted: a starter configuration or the stored draft.
Mount(s) ==
  /\ mounted' = TRUE
  /\ draftRestored' = (~Guarded(s.kind) /\ s.kind # "starter" /\ draft # {})
  /\ Fresh(s, IF s.kind = "starter"
              THEN [title |-> "", task |-> StarterOf.task,
                    dataType |-> StarterOf.dataType, input |-> StarterOf.input,
                    samples |-> StarterOf.samples, profile |-> StarterOf.profile]
              ELSE IF draftRestored' THEN Restored(CHOOSE d \in draft : TRUE)
              ELSE FreshValues)

Addresses == [kind : {"none", "repeat", "reuse", "protocol", "starter", "course"},
              files : {{}}]
             \cup [kind : {"execution"}, files : DOMAIN accepted]

OpenForm ==
  /\ ~mounted
  /\ \E s \in Addresses : Mount(s)
  /\ UNCHANGED posts

\* Another page is opened; the submissions in flight go on without an owner.
Leave ==
  /\ mounted /\ mounted' = FALSE /\ draftRestored' = FALSE
  /\ Fresh(NoSearch, FreshValues)
  /\ posts' = {[p EXCEPT !.ours = FALSE] : p \in posts}

----------------------------------------------------------------------------
\* loadActiveCourses is answered; then the course suggested by the address,
\* and the loads that waited for the courses.
CoursesAnswer ==
  /\ mounted /\ courses.loading
  /\ \/ \E items \in SUBSET Courses :
          LET kept == IF selectedCourse \in items THEN selectedCourse
                      ELSE IF personal /\ selectedCourse = NoCourse THEN NoCourse
                      ELSE IF AutoSelect /\ Cardinality(items) = 1
                      THEN CHOOSE c \in items : TRUE ELSE NoCourse
          IN /\ courses' = [items |-> items, loading |-> FALSE, error |-> FALSE]
             /\ load' = IF search.kind \in {"repeat", "reuse", "protocol"}
                         THEN search.kind ELSE load
             /\ \/ search.kind # "course" /\ selectedCourse' = kept
                \/ search.kind = "course" /\ items = {} /\ selectedCourse' = kept
                \/ /\ search.kind = "course" /\ items # {}
                   /\ selectedCourse' \in items \cup {NoCourse}
     \/ /\ courses' = [items |-> {}, loading |-> FALSE, error |-> TRUE]
        /\ selectedCourse' = NoCourse /\ UNCHANGED load
  /\ submissionError' = (submissionError /\ load' \notin {"repeat", "protocol"})
  /\ UNCHANGED <<zipVars, measurementVars, pollingVars, mounted, search,
                 personal, activeProtocol, draftRestored, showOverview,
                 isSubmitting, submitLock, posts, accepted>>

\* What AcademicCourseCard shows.  The backend allows a personal analysis to
\* everybody (get_submission_course_context answers personal_allowed TRUE and
\* selection_required FALSE), so the card of an automatic course, and a course
\* that is required, never occur.
CourseCard ==
  CASE courses.loading -> "loading"
    [] ~courses.loading /\ courses.error -> "retry"
    [] OTHER -> IF courses.items = {} THEN "none" ELSE "select"

RetryCourses ==
  /\ mounted /\ CourseCard = "retry"
  /\ courses' = [courses EXCEPT !.loading = TRUE, !.error = FALSE]
  /\ UNCHANGED <<zipVars, measurementVars, pollingVars, mounted, search,
                 selectedCourse, personal, activeProtocol, load, draftRestored,
                 showOverview, isSubmitting, submitLock, submissionError, posts,
                 accepted>>

\* Mutant: only leaving every course detaches the protocol.
DetachesPersonal(c) == activeProtocol /\ c = NoCourse

Detaches(c) == activeProtocol /\ c # ProtocolOf.course

\* handleCourseChange: another course than the protocol's detaches it and
\* removes it from the address.
CourseChange(c) ==
  /\ mounted /\ CourseCard = "select"
  /\ c \in courses.items \cup {NoCourse} /\ c # selectedCourse
  /\ selectedCourse' = c /\ personal' = (c = NoCourse)
  /\ IF Detaches(c)
     THEN activeProtocol' = FALSE /\ ClearSearch
     ELSE UNCHANGED <<activeProtocol, search, load>>
  /\ UNCHANGED <<zipVars, measurementVars, pollingVars, mounted, courses,
                 draftRestored, showOverview, isSubmitting, submitLock,
                 submissionError, posts, accepted>>

----------------------------------------------------------------------------
\* A load fails, or what it returned cannot be used: the error panel.
LoadFails ==
  /\ mounted /\ load # NoLoad
  /\ load' = NoLoad /\ submissionError' = TRUE
  /\ UNCHANGED <<zipVars, measurementVars, pollingVars, mounted, search, courses,
                 selectedCourse, personal, activeProtocol, draftRestored,
                 showOverview, isSubmitting, submitLock, posts, accepted>>

\* loadRepeat: the descriptor, then the archive, then its inspection, which
\* goes through analyzeZipFile like a chosen file and without its guard.
RepeatDescriptor ==
  /\ mounted /\ load = "repeat" /\ load' = "repeatArchive"
  /\ UNCHANGED <<zipVars, measurementVars, pollingVars, mounted, search, courses,
                 selectedCourse, personal, activeProtocol, draftRestored,
                 showOverview, isSubmitting, submitLock, submissionError, posts,
                 accepted>>

RepeatArchive ==
  /\ mounted /\ load = "repeatArchive" /\ RepeatZip \notin reads
  /\ StartReading(RepeatZip) /\ UNCHANGED title
  /\ IF RepeatZip \in Refused
     THEN load' = NoLoad /\ submissionError' = TRUE
     ELSE load' = "repeatReading" /\ UNCHANGED submissionError
  /\ UNCHANGED <<measurementVars, pollingVars, mounted, search, courses,
                 selectedCourse, personal, activeProtocol, draftRestored,
                 showOverview, isSubmitting, submitLock, posts, accepted>>

RepeatLoaded ==
  /\ mounted /\ load = "repeatReading" /\ RepeatZip \in reads
  /\ reads' = reads \ {RepeatZip} /\ inspecting' = FALSE
  /\ IF RepeatZip \in Unreadable
     THEN /\ file' = NoZip /\ fileMeta' = NoZip /\ fileError' = "unreadable"
          /\ load' = NoLoad /\ submissionError' = TRUE
          /\ UNCHANGED <<title, measurementVars, pollingVars, search,
                         selectedCourse, draftRestored, showOverview,
                         isSubmitting>>
     ELSE /\ fileMeta' = RepeatZip
          /\ fileError' = IF RepeatZip \in Sourceless THEN "noSource"
                          ELSE fileError
          /\ Configure(RepeatOf, Suggested(ManualTitle(""), RepeatZip))
          /\ selectedCourse' = CourseOf(RepeatOf)
          /\ ClearSearch /\ Forget
          /\ showOverview' = FALSE /\ draftRestored' = FALSE
          /\ UNCHANGED <<file, targetVars, row, cancelling, clicks, cancels>>
  /\ UNCHANGED <<mounted, courses, personal, activeProtocol, submitLock, posts,
                 accepted>>

\* loadReuseConfiguration: parameters only, the address stays.
ReuseLoaded ==
  /\ mounted /\ load = "reuse" /\ load' = NoLoad
  /\ Configure(ReuseOf, title)
  /\ selectedCourse' = IF CourseOf(ReuseOf) = NoCourse THEN selectedCourse
                       ELSE ReuseOf.course
  /\ Forget /\ showOverview' = FALSE
  /\ UNCHANGED <<file, fileMeta, fileError, inspecting, reads, targetVars, row,
                 cancelling, clicks, cancels, mounted, search, courses, personal,
                 activeProtocol, draftRestored, submitLock, posts, accepted>>

\* loadProtocol: the parameters and the course, never an archive.
ProtocolLoaded ==
  /\ mounted /\ load = "protocol" /\ ProtocolOf.course \in courses.items
  /\ load' = NoLoad /\ ZipReset
  /\ Configure(ProtocolOf, ManualTitle(""))
  /\ selectedCourse' = ProtocolOf.course /\ activeProtocol' = TRUE
  /\ Forget /\ showOverview' = FALSE /\ draftRestored' = FALSE
  /\ UNCHANGED <<reads, targetVars, row, cancelling, clicks, cancels, mounted,
                 search, courses, personal, submitLock, posts, accepted>>

\* restoreExecution: the executions of the address are followed, and the form
\* takes the title, size and samples of the submission.  A GET may have been
\* answered before its row ended, so not all that have ended are seen ended.
ExecutionRestored ==
  /\ mounted /\ load = "execution" /\ load' = NoLoad
  /\ Follow(search.files)
  /\ \E ended \in SUBSET {e \in search.files : row[e] \in TerminalStates} :
       isSubmitting' =
         ~(\/ ended = search.files
           \/ allTerminal /\ Cardinality(search.files) # Cardinality(fileList))
  /\ submissionError' = FALSE /\ showOverview' = FALSE
  /\ title' = ManualTitle("typed")
  /\ samples' = accepted[search.files].samples
  /\ input' = accepted[search.files].input
  /\ UNCHANGED <<file, fileMeta, fileError, inspecting, reads, task, dataType,
                 profile, targetVars, row, cancelling, clicks, cancels, mounted,
                 search, courses, selectedCourse, personal, activeProtocol,
                 draftRestored, submitLock, posts, accepted>>

\* The reading of an archive that no load waits for.
FormEndReading(zip) ==
  /\ mounted /\ EndReading(zip)
  /\ ~(load = "repeatReading" /\ zip = RepeatZip)
  /\ UNCHANGED <<measurementVars, pollingVars, formVars>>

----------------------------------------------------------------------------
\* buildAnalysisRequirements, the only judge of whether the review opens.
Requirements ==
  ZipRequirements \cup TargetRequirements \cup ParameterRequirements
  \cup (IF courses.loading THEN {"courseLoading"}
        ELSE IF courses.error THEN {"courseUnavailable"} ELSE {})

\* handleOpenOverview, from the ready panel.
OpenOverview ==
  /\ mounted /\ "review" \in Commands(Requirements) /\ ~isSubmitting
  /\ showOverview' = TRUE
  /\ UNCHANGED <<zipVars, measurementVars, pollingVars, mounted, search, courses,
                 selectedCourse, personal, activeProtocol, load, draftRestored,
                 isSubmitting, submitLock, submissionError, posts, accepted>>

CancelOverview ==
  /\ mounted /\ showOverview /\ showOverview' = FALSE
  /\ UNCHANGED <<zipVars, measurementVars, pollingVars, mounted, search, courses,
                 selectedCourse, personal, activeProtocol, load, draftRestored,
                 isSubmitting, submitLock, submissionError, posts, accepted>>

\* Mutant: the lock is not looked at.
MaySendAgain == file # NoZip /\ task # ""

\* The early returns of handleConfirmExecution.
MaySend == file # NoZip /\ task # "" /\ ~submitLock

\* The confirm button of OverviewModal.
ConfirmOffered == showOverview /\ ~isSubmitting

\* handleConfirmExecution up to the request.  The lock is a ref: it is held
\* until the answer, also when the form is reset in between.
ConfirmExecution ==
  /\ mounted /\ ConfirmOffered
  /\ MaySend
  /\ Cardinality(posts) < MaxPosts
  /\ submitLock' = TRUE
  /\ posts' = posts \cup
       {[stage |-> "sent", ours |-> TRUE, course |-> selectedCourse,
         protocol |-> activeProtocol, files |-> {}, input |-> input,
         samples |-> samples]}
  /\ ClearSearch
  /\ Follow({}) /\ cancelling' = [e \in Executions |-> ""]
  /\ isSubmitting' = TRUE /\ showOverview' = FALSE /\ submissionError' = FALSE
  /\ UNCHANGED <<zipVars, measurementVars, row, clicks, cancels, mounted,
                 courses, selectedCourse, personal, activeProtocol,
                 draftRestored, accepted>>

\* POST /sendcode at the backend: the rows of a bundle appear together, or the
\* submission is refused; the answer to an accepted one may be lost.
PostAtBackend(p) ==
  /\ p \in posts /\ p.stage = "sent"
  /\ \/ \E files \in SUBSET {e \in Executions : row[e] = "ABSENT"},
           stage \in {"accepted", "failed"} :
          /\ files # {}
          /\ row' = [e \in Executions |-> IF e \in files THEN "QUEUED" ELSE row[e]]
          /\ accepted' = [f \in DOMAIN accepted \cup {files} |->
                            IF f = files THEN [input |-> p.input,
                                               samples |-> p.samples]
                            ELSE accepted[f]]
          /\ posts' = (posts \ {p}) \cup
               {[p EXCEPT !.stage = stage,
                          !.files = IF stage = "accepted" THEN files ELSE {}]}
     \/ /\ posts' = (posts \ {p}) \cup {[p EXCEPT !.stage = "failed"]}
        /\ UNCHANGED <<row, accepted>>
  /\ UNCHANGED <<zipVars, measurementVars, fileList, polls, timer, shown,
                 requestError, cancelling, clicks, cancels, mounted, search,
                 courses, selectedCourse, personal, activeProtocol, load,
                 draftRestored, showOverview, isSubmitting, submitLock,
                 submissionError>>

\* The submission is accepted: the draft is removed and the address becomes
\* that of its executions, wherever the user is by now.  Only the page that
\* sent it shows them at once; any other one recovers them from the address.
PostAccepted(p) ==
  /\ p \in posts /\ p.stage = "accepted"
  /\ posts' = posts \ {p}
  /\ IF ~mounted
     THEN Mount([kind |-> "execution", files |-> p.files])
     ELSE /\ search' = [kind |-> "execution", files |-> p.files]
          /\ load' = "execution"
          /\ activeProtocol' = FALSE
          /\ IF p.ours
             THEN /\ draftRestored' = FALSE /\ submitLock' = FALSE
                  /\ Follow(p.files)
             ELSE UNCHANGED <<draftRestored, submitLock, fileList, polls, timer,
                              shown, requestError>>
          /\ UNCHANGED <<zipVars, measurementVars, row, cancelling, clicks,
                         cancels, mounted, courses, selectedCourse, personal,
                         showOverview, isSubmitting, submissionError, accepted>>

\* The submission is refused, or its answer is lost.
PostFailed(p) ==
  /\ p \in posts /\ p.stage = "failed"
  /\ posts' = posts \ {p}
  /\ IF mounted /\ p.ours
     THEN submissionError' = TRUE /\ isSubmitting' = FALSE /\ submitLock' = FALSE
     ELSE UNCHANGED <<submissionError, isSubmitting, submitLock>>
  /\ UNCHANGED <<zipVars, measurementVars, pollingVars, mounted, search, courses,
                 selectedCourse, personal, activeProtocol, load, draftRestored,
                 showOverview, accepted>>

----------------------------------------------------------------------------
\* handleResetForm, from the panel or the notice of a restored draft, and
\* handlePrepareNewAnalysis, which calls it.
ResetOffered ==
  \/ Commands(Requirements) \cap (ResetCommands \cup {"prepareAnother"}) # {}
  \/ draftRestored

ResetForm ==
  /\ mounted /\ ResetOffered /\ ~showOverview
  /\ ZipReset /\ title' = ManualTitle("")
  /\ MeasurementReset
  /\ Forget /\ cancelling' = [e \in Executions |-> ""]
  /\ ClearSearch
  /\ draftRestored' = FALSE /\ activeProtocol' = FALSE /\ showOverview' = FALSE
  /\ UNCHANGED <<reads, row, clicks, cancels, mounted, courses, selectedCourse,
                 personal, submitLock, posts, accepted>>

\* handlePrepareRetry, from the error panel: the form is kept.
PrepareRetry ==
  /\ mounted /\ "reviewRetry" \in Commands(Requirements)
  /\ Forget /\ cancelling' = [e \in Executions |-> ""]
  /\ ClearSearch
  /\ UNCHANGED <<zipVars, measurementVars, row, clicks, cancels, mounted,
                 courses, selectedCourse, personal, activeProtocol,
                 draftRestored, showOverview, submitLock, posts, accepted>>

\* A link to the page itself while it is shown, without parameters.
GoHome ==
  /\ mounted /\ search # NoSearch /\ ~showOverview /\ ClearSearch
  /\ UNCHANGED <<zipVars, measurementVars, pollingVars, mounted, courses,
                 selectedCourse, personal, activeProtocol, draftRestored,
                 showOverview, isSubmitting, submitLock, submissionError, posts,
                 accepted>>

\* The browser goes back to the address of a bundle from one that the page
\* put after it (GoHome) or in its place (PostAccepted).  The effect on the
\* address loads the bundle and detaches the protocol.
GoBack ==
  /\ mounted
  /\ \E files \in DOMAIN accepted :
       search' = [kind |-> "execution", files |-> files]
  /\ search' # search /\ load' = "execution" /\ activeProtocol' = FALSE
  /\ UNCHANGED <<zipVars, measurementVars, pollingVars, mounted, courses,
                 selectedCourse, personal, draftRestored, showOverview,
                 isSubmitting, submitLock, submissionError, posts, accepted>>

\* The actions of the three parts; a round that settles the bundle ends the
\* submitting state (the effect on allTerminal).
PollingFrame ==
  /\ mounted
  /\ isSubmitting' = (isSubmitting
       /\ ~(AllTerminal(shown') /\ ~AllTerminal(shown) /\ fileList' # {}))
  /\ UNCHANGED <<zipVars, measurementVars, mounted, search, courses,
                 selectedCourse, personal, activeProtocol, load, draftRestored,
                 showOverview, submitLock, submissionError, posts, accepted>>

PollingStep == PanelNext /\ PollingFrame

BackendStep ==
  /\ \E e \in Executions, to \in States : BackendMoves(e, to)
  /\ UNCHANGED <<zipVars, measurementVars, formVars>>

\* The cards of the form stay editable whatever the panel shows; the review
\* is a modal over them.
EditArchive ==
  /\ mounted /\ ~showOverview
  /\ \/ \E zip \in Zips \ {RepeatZip} : ChooseZip(zip)
     \/ ChooseNothing
     \/ \E text \in {"typed", ""} : TypeTitle(text)
  /\ UNCHANGED <<measurementVars, pollingVars, formVars>>

MeasurementStep ==
  /\ mounted
  /\ \/ ~showOverview /\ (ParameterEdits \/ TargetEdits)
     \/ MeasurementAnswers
  /\ UNCHANGED <<zipVars, pollingVars, formVars>>

----------------------------------------------------------------------------
NavigationStep == OpenForm \/ Leave \/ GoHome \/ GoBack

ArchiveStep == EditArchive \/ \E zip \in reads : FormEndReading(zip)

CourseStep ==
  CoursesAnswer \/ RetryCourses \/ \E c \in Courses \cup {NoCourse} : CourseChange(c)

LoadStep ==
  \/ LoadFails
  \/ RepeatDescriptor \/ RepeatArchive \/ RepeatLoaded
  \/ ReuseLoaded \/ ProtocolLoaded \/ ExecutionRestored

ReviewStep == OpenOverview \/ CancelOverview \/ ConfirmExecution \/ PrepareRetry

PostStep == \E p \in posts : PostAtBackend(p) \/ PostFailed(p)

\* The two handlers that remove the draft before the autosave effect runs.
Removal == ResetForm \/ \E p \in posts : PostAccepted(p)

Next ==
  \/ /\ \/ NavigationStep \/ ArchiveStep \/ CourseStep \/ LoadStep
        \/ ReviewStep \/ PostStep \/ MeasurementStep \/ PollingStep
        \/ BackendStep
     /\ Autosave(draft)
  \/ Removal /\ Autosave({})

Spec == Init /\ [][Next]_vars

\* Requests are answered and timers fire; users and the backend's queue are
\* free to do nothing.
Fairness ==
  /\ WF_vars(PollingAnswers /\ PollingFrame /\ Autosave(draft))
  /\ \A e \in Executions :
       /\ WF_vars(CancelAtBackend(e) /\ PollingFrame /\ Autosave(draft))
       /\ WF_vars((\E o \in {"done", "conflict", "failed"} : CancelAnswered(e, o))
                    /\ PollingFrame /\ Autosave(draft))

FairSpec == Spec /\ Fairness

----------------------------------------------------------------------------
(* A page never has two submissions of its own in flight: a reset, a retry  *)
(* or a second click between the request and its answer sends nothing, as   *)
(* the comment on submitRequestLockRef promises.                            *)
OneSubmission == Cardinality({p \in posts : p.ours}) <= 1

(* A submission made under a protocol goes to the course of that protocol:  *)
(* a change of course detaches it, whatever was loading in between.         *)
ProtocolCourse ==
  \A p \in posts : p.protocol => p.course = ProtocolOf.course

(* What the user typed as a title is never replaced by the name of an       *)
(* archive, whichever reading ends and whenever it does; only a             *)
(* configuration that is loaded on purpose replaces it.                     *)
TypedTitleKept ==
  [][ /\ reads' # reads /\ title.origin = "MANUAL" /\ title.text = "typed"
      /\ mounted /\ mounted' /\ load' = load
      => title' = title ]_vars

(* The stored draft is the form on screen, after every edit, load, reset,   *)
(* navigation and answer, except under the addresses that load something.   *)
AutosaveHolds ==
  mounted /\ ~Guarded(search.kind) => draft = Stored(Values)

(* A complete form comes back from its draft as it was left; a custom number *)
(* of samples may come back under the name of the profile that fixes it.    *)
DraftComesBack ==
  \A d \in draft :
    mounted /\ ~Guarded(search.kind) /\ ParameterRequirements = {}
      => Restored(d) = [Values EXCEPT !.profile = InferProfile(samples)]

(* The submitting panel is not shown for nothing: a submission of this page *)
(* is in flight, or its executions are followed.                            *)
SubmittingIsReal ==
  isSubmitting /\ fileList = {} => \E p \in posts : p.ours

\* From some time on nobody changes the address: each time the browser brings
\* back a bundle its polling starts again.
AddressRests == <>[][UNCHANGED search]_vars

(* When every execution of the bundle on screen has ended, the panel stops  *)
(* saying that it runs, unless another bundle takes the screen: rounds of   *)
(* answers, cancellations and resubmissions do not keep it waiting forever. *)
SettledIsShown ==
  AddressRests =>
    \A files \in SUBSET Executions \ {{}} :
      (mounted /\ fileList = files /\ \A e \in files : row[e] \in TerminalStates)
        ~> \/ ~mounted \/ fileList # files
           \/ PanelMode \notin {"running", "submitting"}

(* A cancellation that was asked for does not stay pending while its        *)
(* execution is on screen: it is refused, or the execution is seen to have   *)
(* left the queue.  One whose bundle was replaced, by a submission that an   *)
(* earlier page sent, is kept, and is settled when the bundle comes back.    *)
CancelSettles ==
  AddressRests =>
    \A e \in Executions :
      cancelling[e] = "pending" /\ e \in fileList
        ~> cancelling[e] # "pending" \/ e \notin fileList

============================================================================
