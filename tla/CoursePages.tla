---------------------------- MODULE CoursePages -----------------------------
(***************************************************************************)
(* The pages of a teacher: the list of courses (TeacherCourses), a course  *)
(* with its analytics, protocols, attention and roster panels              *)
(* (TeacherCourseDetail), and one of its students (TeacherStudentDetail).  *)
(* A page is mounted by its route; the course and the student pages keep   *)
(* their state when only the id of the address changes.  The fields of a   *)
(* form are data: whether a form is filled in is the user's choice.        *)
(***************************************************************************)
EXTENDS Loaders

CONSTANT IsAdmin   \* isAdminUser(currentUser)
ASSUME IsAdminAssumption == IsAdmin \in BOOLEAN

TurnPage(l, n) == n \in 1..LastPage /\ MayBeSettled(l)

----------------------------------------------------------------------------
(***************************************************************************)
(* The list of courses.                                                    *)
(***************************************************************************)
CoursesView == [tab |-> "active", search |-> "", showCreate |-> FALSE]

CandidatesLoader ==
  Effect("courses",
         IF IsAdmin /\ view.showCreate THEN Key({}, "candidates", "", 1)
         ELSE Paused,
         {"clears", "hollow", "guarded"})

CoursesLoader == Effect("courses", Key({}, view.tab, view.search, 1),
                        {"delayed", "clears", "noisy", "guarded"})

ToggleCreate == Set([view EXCEPT !.showCreate = ~@])

\* EmptyCourseState offers the form only for the active courses.
CreateFromEmpty ==
  /\ view.tab = "active" /\ MayBeSettled("courses") /\ MayBeClean("courses")
  /\ Set([view EXCEPT !.showCreate = TRUE])

CreateOffered == /\ view.showCreate /\ ~InFlight("create")
                 /\ IsAdmin => MayBeSettled("candidates")
CreateCourse == CreateOffered /\ Send("create", 0)

\* Filed under another view, the courses are read again.
ShowCourses(tab) == tab \in {"active", "historic"}
                    /\ Set([view EXCEPT !.tab = tab])
SearchCourses(text) == Set([view EXCEPT !.search = text])
RetryCourseList == MayHaveFailed("courses") /\ SetAndReload(view, {"courses"})
CardsShown == HasContent("courses") /\ MayBeClean("courses")

CoursesNext ==
  /\ screen = "courses"
  /\ \/ ToggleCreate \/ CreateFromEmpty \/ CreateCourse
     \/ \E tab \in {"active", "historic"} : ShowCourses(tab)
     \/ \E text \in Searches : SearchCourses(text)
     \/ RetryCourseList

----------------------------------------------------------------------------
(***************************************************************************)
(* A course: its loaders.                                                  *)
(***************************************************************************)
CourseView(c) ==
  [id |-> c, membership |-> "active", attention |-> "all", search |-> "",
   page |-> 1, editing |-> FALSE, showAdd |-> FALSE,
   dialog |-> Closed, protocolForm |-> "closed", actionId |-> 0]

\* The effect on the filters: back to the first page.
FirstPage(v) == [v EXCEPT !.page = 1]

EditCandidatesLoader ==
  Effect("course",
         IF IsAdmin /\ view.editing THEN Key({}, "candidates", "", 1)
         ELSE Paused,
         {"clears", "hollow", "guarded"})

\* A failure leaves the course on screen, another one's after a change of id.
CourseLoader == Effect("course", Key({view.id}, "course", "", 1),
                       {"noisy", "guarded"})

\* Every page of the roster, one after the other; only the last one counts.
AttentionLoader == Effect("course", Key({view.id}, "attention", "", 1),
                          {"noisy", "guarded"})

\* It tells nobody of a failure: the roster is then empty.
StudentsLoader ==
  Effect("course", Key({view.id}, view.membership, view.search, view.page),
         {"delayed", "clears", "noisy", "guarded"})

\* The panels come with the course; that they are mounted a moment later than
\* the page is left out.  A lost body shows as no analytics, not as an error.
AnalyticsLoader == Effect("course", Key({view.id}, "analytics", "", 1),
                          {"clears", "hollow", "guarded"})
ProtocolsLoader == Effect("course", Key({view.id}, "protocols", "", 1),
                          {"clears", "noisy", "guarded"})
PoliciesLoader == Effect("course", Key({}, "policies", "", 1),
                         {"clears", "noisy", "guarded"})

\* What the reload counter of the page is a dependency of.
CourseReloads == {"course", "attention", "students", "analytics"}

----------------------------------------------------------------------------
(***************************************************************************)
(* A course: the header, the edit form and the dialogs.                    *)
(***************************************************************************)
CourseOnScreen == HasContent("course")
RetryCourse == /\ MayBeEmpty("course") /\ MayHaveFailed("course")
               /\ SetAndReload(view, CourseReloads)

HeaderOffered == CourseOnScreen /\ view.dialog = Closed
ExportStudentsCsv ==
  HeaderOffered /\ ~InFlight("export") /\ Send("export", view.id)

ToggleEdit == HeaderOffered /\ Set([view EXCEPT !.editing = ~@])
SaveOffered == HeaderOffered /\ view.editing /\ ~InFlight("save")
SaveCourse == SaveOffered /\ Send("save", view.id)

StatusOffered == HeaderOffered /\ ~InFlight("status") /\ ~InFlight("save")
OpenCourseStatusDecision ==
  StatusOffered /\ Set([view EXCEPT !.dialog = Dialog("status", 0)])
ConfirmCourseStatus ==
  ConfirmHeeded("status") /\ Send("status", view.dialog.target)

OpenCloneCourse ==
  HeaderOffered /\ Set([view EXCEPT !.dialog = Dialog("clone", 0)])
CloneCourse == ConfirmHeeded("clone") /\ Send("clone", view.dialog.target)

----------------------------------------------------------------------------
(***************************************************************************)
(* A course: the roster.                                                   *)
(***************************************************************************)
\* With a filter of attention the table shows the roster of that panel.
UsingAttentionSnapshot ==
  view.attention # "all" /\ view.membership = "active"
RosterLoaders == IF UsingAttentionSnapshot THEN {"attention"} ELSE {"students"}
RosterShown == \A l \in RosterLoaders : HasContent(l)

ShowAttentionStudents ==
  Set(FirstPage([view EXCEPT !.membership = "active", !.search = "",
                             !.attention = "some"]))
AttentionOffered ==
  /\ HeaderOffered
  /\ \/ HasContent("attention")
     \/ MayBeSettled("attention") /\ MayBeClean("attention")
RetryAttention == /\ HeaderOffered /\ MayHaveFailed("attention")
                  /\ SetAndReload(view, {"attention"})

ShowMembership(m) ==
  /\ HeaderOffered /\ m # view.membership
  /\ Set(FirstPage([view EXCEPT !.membership = m,
                      !.attention = IF m = "active" THEN @ ELSE "all"]))
SearchStudents(text) ==
  HeaderOffered /\ text # view.search /\ Set(FirstPage([view EXCEPT !.search = text]))
FilterAttention(a) ==
  /\ HeaderOffered
  /\ Set(FirstPage([view EXCEPT !.attention = a,
                      !.membership = IF a = "all" THEN @ ELSE "active"]))
TurnRoster(n) ==
  /\ HeaderOffered /\ ~UsingAttentionSnapshot /\ TurnPage("students", n)
  /\ Set([view EXCEPT !.page = n])

ToggleAdd == HeaderOffered /\ Set([view EXCEPT !.showAdd = ~@])
AddOffered == HeaderOffered /\ view.showAdd /\ ~InFlight("add")
AddStudents == AddOffered /\ Send("add", view.id)

\* A row offers to remove the student, or to restore one who was removed.
RowOffered == HeaderOffered /\ RosterShown
OpenRemoval(s) ==
  RowOffered /\ Set([view EXCEPT !.dialog = Dialog("remove", s)])
ConfirmRemoveStudent ==
  ConfirmHeeded("remove") /\ Send("remove", view.dialog.target)
\* No flag keeps the button from being pressed again.
RestoreStudent(s) == RowOffered /\ Send("restore", s)

RosterNext ==
  \/ AttentionOffered /\ ShowAttentionStudents
  \/ RetryAttention
  \/ \E m \in {"active", "inactive", "all"} : ShowMembership(m)
  \/ \E text \in Searches : SearchStudents(text)
  \/ \E a \in {"all", "some"} : FilterAttention(a)
  \/ \E n \in 1..LastPage : TurnRoster(n)
  \/ ToggleAdd \/ AddStudents
  \/ \E s \in Ids : OpenRemoval(s) \/ RestoreStudent(s)
  \/ ConfirmRemoveStudent

----------------------------------------------------------------------------
(***************************************************************************)
(* A course: the protocols panel, and the retry of the analytics.          *)
(***************************************************************************)
RetryAnalytics == /\ HeaderOffered /\ MayHaveFailed("analytics")
                  /\ SetAndReload(view, {"analytics"})

PanelOffered == /\ HeaderOffered /\ ~InFlight("saveProtocol")
                /\ HasContent("policies") /\ MayBeSettled("policies")
OpenCreate == /\ PanelOffered /\ view.protocolForm # "create"
              /\ Set([view EXCEPT !.protocolForm = "create"])
ProtocolRowOffered(p) ==
  /\ HeaderOffered /\ HasContent("protocols")
  /\ MayBeSettled("protocols") /\ MayBeClean("protocols")
  /\ view.actionId # p
\* Also while another form is being saved, whose answer then closes this one.
OpenEdit(p) ==
  ProtocolRowOffered(p) /\ Set([view EXCEPT !.protocolForm = "edit"])
CloseForm == /\ HeaderOffered /\ view.protocolForm # "closed"
             /\ ~InFlight("saveProtocol")
             /\ Set([view EXCEPT !.protocolForm = "closed"])
SaveProtocolOffered ==
  /\ HeaderOffered /\ view.protocolForm # "closed"
  /\ ~InFlight("saveProtocol") /\ HasContent("policies")
SaveProtocol == SaveProtocolOffered /\ Send("saveProtocol", view.id)

\* publish, deactivate: any answer forgets which protocol was acted on last.
RunAction(p) ==
  /\ ProtocolRowOffered(p)
  /\ SetAndSend([view EXCEPT !.actionId = p], "protocolAction", p)
RetryProtocols == /\ HeaderOffered /\ MayHaveFailed("protocols")
                  /\ SetAndReload(view, {"protocols"})

ProtocolsNext ==
  \/ RetryAnalytics \/ RetryProtocols
  \/ OpenCreate \/ CloseForm \/ SaveProtocol
  \/ \E p \in Ids : OpenEdit(p) \/ RunAction(p)

CourseNext ==
  /\ screen = "course"
  /\ \/ RetryCourse \/ ExportStudentsCsv
     \/ ToggleEdit \/ SaveCourse
     \/ OpenCourseStatusDecision \/ ConfirmCourseStatus
     \/ OpenCloneCourse \/ CloneCourse \/ CancelDialog
     \/ RosterNext \/ ProtocolsNext

----------------------------------------------------------------------------
(***************************************************************************)
(* One student of a course.  Each tab keeps its own filters and page.      *)
(***************************************************************************)
StudentTabs == {"executions", "submissions"}
ListKey(tab) ==
  IF view.tab = tab
  THEN Key({view.id}, tab, view.lists[tab].search, view.lists[tab].page)
  ELSE Paused

StudentView(u) ==
  [id |-> u, tab |-> "executions", execution |-> 0,
   lists |-> [tab \in StudentTabs |-> [search |-> "", page |-> 1]]]

ProfileLoader == Effect("student", Key({view.id}, "profile", "", 1),
                        {"noisy", "guarded"})
ExecutionsLoader == Effect("student", ListKey("executions"),
                           {"delayed", "clears", "noisy", "guarded"})
SubmissionsLoader == Effect("student", ListKey("submissions"),
                            {"delayed", "clears", "noisy", "guarded"})
\* The modal keeps the execution it showed last until another one is read.
ExecutionLoader ==
  Effect("student",
         IF view.execution # 0 THEN Key({view.execution}, "execution", "", 1)
         ELSE Paused,
         {"noisy", "guarded"})

StudentOnScreen == HasContent("profile") /\ view.execution = 0
RetryProfile == /\ MayBeEmpty("profile") /\ MayHaveFailed("profile")
                /\ SetAndReload(view, {"profile"})
ShowTab(tab) == StudentOnScreen /\ Set([view EXCEPT !.tab = tab])
FilterList(tab, text) ==
  /\ StudentOnScreen /\ view.tab = tab /\ text # view.lists[tab].search
  /\ Set([view EXCEPT !.lists[tab] = [search |-> text, page |-> 1]])
TurnList(n) ==
  /\ StudentOnScreen /\ TurnPage(view.tab, n)
  /\ Set([view EXCEPT !.lists[view.tab].page = n])
ListShown(tab) ==
  StudentOnScreen /\ view.tab = tab /\ HasContent(tab) /\ MayBeClean(tab)
OpenExecution(e) ==
  ListShown("executions") /\ Set([view EXCEPT !.execution = e])
CloseExecution == view.execution # 0 /\ Set([view EXCEPT !.execution = 0])

StudentNext ==
  /\ screen = "student"
  /\ \/ RetryProfile \/ CloseExecution
     \/ \E tab \in StudentTabs : \/ ShowTab(tab)
                                 \/ \E text \in Searches : FilterList(tab, text)
     \/ \E n \in 1..LastPage : TurnList(n)
     \/ \E e \in Ids : OpenExecution(e)

----------------------------------------------------------------------------
(***************************************************************************)
(* The good answers to the mutations of these pages, and the addresses     *)
(* that open them.  The handlers of create and clone navigate even when    *)
(* their page is gone.                                                     *)
(***************************************************************************)
OpenCourse(c) == Mounts("course", CourseView(c))
\* What is kept is nearly all of it, the forms and an open dialog included.
OtherCourse(c) == [view EXCEPT !.id = c]

CourseCreated(w) == \E c \in Ids :
  /\ w.kind = "create" /\ w.done
  /\ Navigates("course", CourseView(c), OtherCourse(c), calls \ {w})

\* The page is the same one: everything but the dialog and the id stays.
CourseCloned(w) == \E c \in Ids :
  /\ w.kind = "clone" /\ w.done
  /\ Navigates("course", CourseView(c),
               IF w.mounted THEN [OtherCourse(c) EXCEPT !.dialog = Closed]
               ELSE OtherCourse(c),
               calls \ {w})

\* patchCourse: the answer is shown (Written), and everything is read again.
Patched(w, v) == Succeeds(w, v, CourseReloads)
CourseSaved(w) ==
  w.kind = "save" /\ Patched(w, [view EXCEPT !.editing = FALSE])
StatusChanged(w) ==
  w.kind = "status" /\ Patched(w, [view EXCEPT !.dialog = Closed])
StudentsAdded(w) == w.kind = "add" /\ Succeeds(w, view, CourseReloads)
\* Mutant: the roster is not read again, only the course.
StudentRemovedFromCourse(w) ==
  w.kind = "remove"
  /\ Succeeds(w, [view EXCEPT !.dialog = Closed], {"course"})

StudentRemoved(w) ==
  w.kind = "remove"
  /\ Succeeds(w, [view EXCEPT !.dialog = Closed], CourseReloads)
StudentRestored(w) == w.kind = "restore" /\ Succeeds(w, view, CourseReloads)
ProtocolSaved(w) ==
  w.kind = "saveProtocol"
  /\ Succeeds(w, [view EXCEPT !.protocolForm = "closed"], {"protocols"})
ProtocolActedOn(w) ==
  w.kind = "protocolAction"
  /\ Succeeds(w, [view EXCEPT !.actionId = 0], {"protocols"})

StudentsExported(w) == w.kind = "export" /\ Succeeds(w, view, {})

CoursePagesAnswer(w) ==
  \/ CourseCreated(w) \/ CourseCloned(w) \/ CourseSaved(w) \/ StatusChanged(w)
  \/ StudentsAdded(w) \/ StudentRemoved(w) \/ StudentRestored(w)
  \/ ProtocolSaved(w) \/ ProtocolActedOn(w) \/ StudentsExported(w)

\* An error answer changes nothing of the page but its message, except here.
CoursePagesFailure(w) ==
  IF w.kind = "protocolAction" /\ w.mounted
  THEN [view EXCEPT !.actionId = 0] ELSE view

CoursePagesNext == CoursesNext \/ CourseNext \/ StudentNext

CourseLinks ==
  \/ CardsShown /\ screen = "courses" /\ \E c \in Ids : OpenCourse(c)
  \/ screen = "course" /\ RowOffered /\ \E u \in Ids :
       Mounts("student", StudentView(u))
  \/ screen = "course" /\ HeaderOffered /\ Mounts("courses", CoursesView)
  \/ screen = "student" /\ StudentOnScreen /\ \E c \in Ids : OpenCourse(c)
=============================================================================
