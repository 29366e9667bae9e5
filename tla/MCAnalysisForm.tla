--------------------------- MODULE MCAnalysisForm ---------------------------
(***************************************************************************)
(* AnalysisForm for TLC.  The page holds a great deal of state, and most   *)
(* of its parts only meet through the review, the address and the reset.   *)
(* A frozen variable `focus` picks the part of the page that is exercised: *)
(* the others are left in a state the page can be in, and the steps that   *)
(* matter to the part in focus are all enabled.  The states explored are   *)
(* the sum of the parts and not their product.                             *)
(***************************************************************************)
EXTENDS AnalysisForm, TLC

CONSTANTS e1, e2

VARIABLE focus

Areas == {"archive", "repeat", "parameters", "target", "course", "submit",
          "track", "replace"}

mcVars == <<vars, focus>>

MCLimits ==
  LET L(a, d, b) == [min |-> a, default |-> d, max |-> b]
      auto == [c \in TaskTypes \X Profiles |->
                 CASE c[2] = "rapido" -> L(1, 4, 8)
                   [] c[2] = "equilibrado" ->
                        IF c[1] = "lcs" THEN L(1, 3, 6) ELSE L(3, 3, 3)
                   [] c[2] = "exhaustivo" -> L(1, 2, 4)
                   [] OTHER -> L(2, 3, 5)]
  IN [g \in Targets |->
        IF g = "AUTO" THEN auto
        ELSE [c \in {"lcs"} \X (Profiles \ {"personalizado"}) |-> L(1, 3, 5)]]

MCRepeatOf == [task |-> "lcs", dataType |-> "", input |-> 7, samples |-> 10,
               profile |-> "rapido", course |-> "c1"]
MCReuseOf == [task |-> "camm", dataType |-> "cammr", input |-> 3, samples |-> 30,
              profile |-> "equilibrado", course |-> NoCourse]
MCProtocolOf == [task |-> "lcs", dataType |-> "", input |-> 4, samples |-> 30,
                 profile |-> "equilibrado", course |-> "c2"]
MCStarterOf == [task |-> "lcs", dataType |-> "", input |-> 3, samples |-> 10,
                profile |-> "rapido", course |-> NoCourse]

----------------------------------------------------------------------------
\* A page at address s.  ready: an archive was inspected and every parameter
\* is in; loaded: the policies and the courses were answered.
Page(s, ready, loaded) ==
  /\ mounted = TRUE /\ search = s
  /\ file = IF ready THEN "z1" ELSE NoZip
  /\ fileMeta = file /\ fileError = "" /\ inspecting = FALSE /\ reads = {}
  /\ title = IF ready THEN [text |-> "z1", origin |-> "AUTO_SUGGESTED"]
             ELSE ManualTitle("")
  /\ task = (IF ready THEN "lcs" ELSE "") /\ dataType = ""
  /\ input = (IF ready THEN 3 ELSE Empty)
  /\ samples = 30 /\ profile = "equilibrado"
  /\ mode = "AUTO" /\ nodeKey = NoTarget
  /\ nodes = [items |-> {}, loading |-> FALSE, error |-> FALSE]
  /\ nodeReads = {}
  /\ IF loaded
     THEN /\ policy = [of |-> "AUTO", loading |-> FALSE, error |-> FALSE]
          /\ availability = "AVAILABLE" /\ policyReads = {}
          /\ courses = [items |-> Courses, loading |-> FALSE, error |-> FALSE]
     ELSE /\ policy = [of |-> NoTarget, loading |-> TRUE, error |-> FALSE]
          /\ availability = "CHECKING"
          /\ policyReads = {[target |-> "AUTO", live |-> TRUE]}
          /\ courses = [items |-> {}, loading |-> TRUE, error |-> FALSE]
  /\ selectedCourse = NoCourse /\ personal = FALSE /\ activeProtocol = FALSE
  /\ load = NoLoad /\ draftRestored = FALSE /\ showOverview = FALSE
  /\ submitLock = FALSE /\ submissionError = FALSE /\ posts = {}
  /\ draft = Stored(Values)

Tracked == [kind |-> "execution", files |-> Executions]

\* Two executions were accepted and are followed; one of them is nearly done.
Tracking ==
  /\ row = [e \in Executions |-> IF e = e1 THEN "PROCESSING" ELSE "QUEUED"]
  /\ fileList = Executions
  /\ polls = {NewRound(Executions)} /\ timer = FALSE
  /\ shown = NothingShown /\ requestError = FALSE
  /\ cancelling = [e \in Executions |-> ""]
  /\ clicks = [e \in Executions |-> 0] /\ cancels = {}
  /\ accepted = [f \in {Executions} |-> [input |-> 3, samples |-> 30]]
  /\ isSubmitting = TRUE

\* A page follows e2, while a submission that an earlier page sent is on its
\* way to the backend.
Address(e) == [kind |-> "execution", files |-> {e}]
Replacing ==
  /\ focus = "replace"
  /\ mounted = TRUE /\ search = Address(e2)
  /\ file = NoZip /\ fileMeta = NoZip /\ fileError = ""
  /\ inspecting = FALSE /\ reads = {} /\ title = ManualTitle("typed")
  /\ task = "" /\ dataType = "" /\ input = 3 /\ samples = 30
  /\ profile = "equilibrado" /\ mode = "AUTO" /\ nodeKey = NoTarget
  /\ nodes = [items |-> {}, loading |-> FALSE, error |-> FALSE]
  /\ nodeReads = {} /\ policyReads = {}
  /\ policy = [of |-> "AUTO", loading |-> FALSE, error |-> FALSE]
  /\ availability = "AVAILABLE"
  /\ courses = [items |-> Courses, loading |-> FALSE, error |-> FALSE]
  /\ selectedCourse = NoCourse /\ personal = FALSE /\ activeProtocol = FALSE
  /\ load = NoLoad /\ draftRestored = FALSE /\ showOverview = FALSE
  /\ submitLock = FALSE /\ submissionError = FALSE /\ draft = {}
  /\ row = [e \in Executions |-> IF e = e2 THEN "QUEUED" ELSE "ABSENT"]
  /\ fileList = {e2} /\ polls = {NewRound({e2})} /\ timer = FALSE
  /\ shown = NothingShown /\ requestError = FALSE
  /\ cancelling = [e \in Executions |-> ""]
  /\ clicks = [e \in Executions |-> 0] /\ cancels = {}
  /\ accepted = [f \in {{e2}} |-> [input |-> 3, samples |-> 30]]
  /\ isSubmitting = TRUE
  /\ posts = {[stage |-> "sent", ours |-> FALSE, course |-> NoCourse,
               protocol |-> FALSE, files |-> {}, input |-> 3, samples |-> 30]}

MCInit ==
  \/ /\ focus = "repeat" /\ Init
  \/ /\ focus = "course" /\ Init
  \/ Replacing
  \/ /\ focus = "track" /\ Page(Tracked, TRUE, TRUE) /\ Tracking
  \/ /\ focus \in {"archive", "parameters", "target", "submit"}
     /\ Page(NoSearch, focus # "parameters", focus # "parameters")
     /\ PollingInit /\ row = [e \in Executions |-> "ABSENT"]
     /\ accepted = << >> /\ isSubmitting = FALSE

----------------------------------------------------------------------------
\* Of the steps that fill the form again, the shortest way.
Refill ==
  \/ EditArchive /\ file' = "z1" /\ reads = {}
  \/ \E zip \in reads : FormEndReading(zip)
  \/ /\ MeasurementStep
     /\ \/ task = "" /\ task' = "lcs"
        \/ policy.loading /\ policy' # policy
     /\ mode' = mode /\ profile' = profile
     /\ ~policy'.error /\ availability' # "UNAVAILABLE"

ArchiveArea ==
  /\ focus = "archive"
  /\ ArchiveStep \/ OpenOverview \/ CancelOverview

RepeatArea ==
  /\ focus = "repeat"
  /\ \/ NavigationStep /\ search'.kind \in {"none", "repeat"}
     \/ ArchiveStep /\ reads' \subseteq {"z1", RepeatZip}
     \/ CoursesAnswer
     \/ LoadStep

\* The policies arrive; what becomes of the form when they do not is left to
\* "target".
ParametersArea ==
  /\ focus = "parameters"
  /\ \/ NavigationStep /\ search'.kind \in {"none", "starter"}
     \/ MeasurementStep /\ mode' = mode /\ ~policy'.error

TargetArea ==
  /\ focus = "target"
  /\ MeasurementStep
  /\ UNCHANGED <<dataType, samples, profile>>
  /\ task' # task \/ policy' # policy \/ input' = input

\* The page is left before the submission, whose answer does not matter here.
CourseArea ==
  /\ focus = "course" /\ posts = {}
  /\ \/ /\ NavigationStep
        /\ search'.kind \in {"none", "course", "protocol", "reuse"}
     \/ CourseStep \/ LoadStep \/ Refill \/ OpenOverview \/ ConfirmExecution

\* One execution per submission is enough here.
SubmitArea ==
  /\ focus = "submit"
  /\ \/ /\ NavigationStep /\ search'.kind = "none"
        /\ mounted => posts # {}
     \/ CoursesAnswer /\ courses'.items = Courses
     \/ LoadStep \/ Refill \/ ReviewStep
     \/ /\ PostStep
        /\ \A p \in posts' : Cardinality(p.files) <= 1
        /\ row'[e2] = "QUEUED" => row[e1] = "QUEUED"

\* The second execution does not start, and is the one to be cancelled.
TrackArea ==
  /\ focus = "track"
  /\ \/ NavigationStep /\ (mounted' => search'.kind = "execution")
     \/ ExecutionRestored \/ PrepareRetry
     \/ PollingStep /\ clicks'[e1] = 0
     \/ BackendStep /\ row'[e1] # "CANCELLED" /\ row'[e2] \in {"QUEUED", "CANCELLED"}

\* The bundle of e1 takes the screen while the cancellation of e2 goes on, and
\* the browser brings either one back.  That one may be claimed once both have
\* been sent; no row ends by itself, and the page is not left.
ReplaceArea ==
  /\ focus = "replace"
  /\ \/ NavigationStep /\ mounted' /\ search'.kind = "execution"
     \/ LoadStep \/ PostStep
     \/ PollingStep /\ clicks'[e1] = 0
     \/ /\ BackendStep /\ clicks[e2] = 1 /\ posts = {}
        /\ row'[e1] = row[e1] /\ row'[e2] = "RUNNING"

MCNext ==
  /\ UNCHANGED focus
  /\ \/ /\ \/ ArchiveArea \/ RepeatArea \/ ParametersArea \/ TargetArea
           \/ CourseArea \/ SubmitArea \/ TrackArea \/ ReplaceArea
        /\ Autosave(draft)
     \/ /\ focus \notin {"repeat", "target"}
        /\ Removal /\ Autosave({})
        /\ focus = "replace" => posts' # posts

MCSpec == MCInit /\ [][MCNext]_mcVars /\ Fairness

============================================================================
