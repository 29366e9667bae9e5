----------------------------- MODULE PageTypes ------------------------------
(***************************************************************************)
(* The types of the pages: what their controls, their dialogs and their    *)
(* calls can be, for any ids, searches, executions and sizes, any bounds   *)
(* and any order of the answers.                                           *)
(***************************************************************************)
EXTENDS ClientPagesProofs, FiniteSetTheorems

CoursesViews == [tab : {"active", "historic"}, search : Searches,
                 showCreate : BOOLEAN]
UsersViews == [list : Lists, preauthorizationOpen : BOOLEAN]

\* Of what the history remembers while it archives an item nothing is needed.
HistoryFits(v) == DOMAIN v = {"list", "archiving"} /\ v.list \in Lists

ViewFits(s, v) ==
  \/ s \in {"elsewhere", "status"} /\ v = Plain
  \/ s = "courses" /\ v \in CoursesViews
  \/ s = "course" /\ v \in CourseViews
  \/ s = "student" /\ v \in StudentViews
  \/ s = "users" /\ v \in UsersViews
  \/ s = "user" /\ v \in UserViews
  \/ s = "requests" /\ v \in RequestsViews
  \/ s = "audit" /\ v \in [list : Lists]
  \/ s = "history" /\ HistoryFits(v)
  \/ s = "submission" /\ v \in OverviewViews
  \/ s = "comparison" /\ v \in ComparisonViews
  \/ s = "result" /\ v \in ResultViews

\* The page whose handler makes a call.
AtHome(s, kind) ==
  \/ s = "courses" /\ kind = "create"
  \/ s = "course" /\ kind \in {"export", "save", "status", "clone", "add",
                               "remove", "restore", "saveProtocol",
                               "protocolAction"}
  \/ s = "users" /\ kind = "preauthorize"
  \/ s = "user" /\ kind \in {"access", "role"}
  \/ s = "requests" /\ kind \in {"approve", "reject"}
  \/ s = "history" /\ kind = "archiveItem"
  \/ s = "submission" /\ kind \in {"note", "pin", "archive", "archiveFile",
                                   "cancel", "references", "previous"}
  \/ s = "comparison" /\ kind = "ai"
  \/ s = "result" /\ kind \in {"ai", "csv", "artifact"}

\* What the page does with its target after the answer: the panel of references
\* and the explanation of a result are shown for it.
TargetFits(s, kind, target) ==
  kind = "references" \/ (kind = "ai" /\ s = "result") => target \in Ids

CallFits(s, w) ==
  /\ DOMAIN w = CallFields
  /\ w.mounted => AtHome(s, w.kind) /\ TargetFits(s, w.kind, w.target)
  /\ w.kind = "cancel" => w.of \subseteq Ids
  /\ w.version > 0 => w.done
CallsFit(s, cs) ==
  /\ IsFiniteSet(cs) /\ Cardinality(cs) <= MaxCalls
  /\ \A w \in cs : CallFits(s, w)

\* The inductive invariant of the pages and their calls.
PageInv == ViewFits(screen, view) /\ CallsFit(screen, calls)

----------------------------------------------------------------------------
(***************************************************************************)
(* The calls of a page.                                                    *)
(***************************************************************************)
LEMMA FewerFit ==
  ASSUME NEW s, NEW cs, CallsFit(s, cs), NEW fewer \in SUBSET cs
  PROVE  CallsFit(s, fewer)
<1>1. IsFiniteSet(fewer) /\ Cardinality(fewer) <= Cardinality(cs)
  BY FS_Subset DEF CallsFit
<1>2. Cardinality(fewer) \in Nat /\ Cardinality(cs) \in Nat
  BY <1>1, FS_CardinalityType DEF CallsFit
<1>3. QED
  BY <1>1, <1>2, BoundsAssumption DEF CallsFit

LEMMA AddedFits ==
  ASSUME NEW s, NEW cs, CallsFit(s, cs), Cardinality(cs) < MaxCalls,
         NEW w, CallFits(s, w)
  PROVE  CallsFit(s, cs \cup {w})
<1>1. /\ IsFiniteSet(cs \cup {w})
      /\ Cardinality(cs \cup {w}) \in {Cardinality(cs), Cardinality(cs) + 1}
  BY FS_AddElement DEF CallsFit
<1>2. Cardinality(cs) \in Nat
  BY FS_CardinalityType DEF CallsFit
<1>3. QED
  BY <1>1, <1>2, BoundsAssumption DEF CallsFit

\* Calls that are given up are not more, and fit any page.
LEMMA UnmountedFits ==
  ASSUME NEW s, NEW t, NEW w, CallFits(s, w)
  PROVE  CallFits(t, [w EXCEPT !.mounted = FALSE])
BY DEF CallFits, CallFields

\* Each call of a page is replaced by one that fits the next page.
LEMMA ReplacedFit ==
  ASSUME NEW s, NEW t, NEW cs, CallsFit(s, cs), NEW f, f = [w \in cs |-> f[w]],
         \A w \in cs : CallFits(t, f[w])
  PROVE  CallsFit(t, {f[w] : w \in cs})
<1> DEFINE image == {f[w] : w \in cs}
<1>1. f \in [cs -> image]
  OBVIOUS
<1>2. f \in Surjection(cs, image)
  BY <1>1 DEF Surjection
<1> HIDE DEF image
<1>3. IsFiniteSet(image) /\ Cardinality(image) <= Cardinality(cs)
  BY <1>2, FS_Surjection DEF CallsFit
<1>4. Cardinality(image) \in Nat /\ Cardinality(cs) \in Nat
  BY <1>3, FS_CardinalityType DEF CallsFit
<1>5. \A x \in image : CallFits(t, x)
  BY DEF image
<1>6. QED
  BY <1>3, <1>4, <1>5, BoundsAssumption DEF CallsFit, image

LEMMA AbandonedFit ==
  ASSUME NEW s, NEW t, NEW cs, CallsFit(s, cs)
  PROVE  CallsFit(t, Abandoned(cs))
<1> DEFINE f == [w \in cs |-> [w EXCEPT !.mounted = FALSE]]
<1>1. \A w \in cs : CallFits(t, f[w])
  BY UnmountedFits DEF CallsFit
<1>2. Abandoned(cs) = {f[w] : w \in cs} /\ f = [w \in cs |-> f[w]]
  BY DEF Abandoned
<1> HIDE DEF f
<1>3. QED
  BY <1>1, <1>2, ReplacedFit

LEMMA DisownedFit ==
  ASSUME NEW s, NEW cs, CallsFit(s, cs), NEW kind
  PROVE  CallsFit(s, Disowned(kind, cs))
<1> DEFINE f == [w \in cs |-> IF w.kind = kind THEN [w EXCEPT !.mounted = FALSE]
                              ELSE w]
<1>1. \A w \in cs : CallFits(s, f[w])
  BY UnmountedFits DEF CallsFit
<1>2. Disowned(kind, cs) = {f[w] : w \in cs} /\ f = [w \in cs |-> f[w]]
  BY DEF Disowned
<1> HIDE DEF f
<1>3. QED
  BY <1>1, <1>2, ReplacedFit

----------------------------------------------------------------------------
(***************************************************************************)
(* What the actions are made of.                                           *)
(***************************************************************************)
LEMMA SetFits ==
  ASSUME PageInv, NEW v, NEW ls, SetAndReload(v, ls), ViewFits(screen, v)
  PROVE  PageInv'
BY DEF SetAndReload, PageInv

LEMMA CallMade ==
  ASSUME NEW s, NEW kind, NEW target, AtHome(s, kind), TargetFits(s, kind, target),
         kind = "cancel" => Subject \subseteq Ids
  PROVE  CallFits(s, Call(kind, target))
BY DEF Call, CallFits, CallFields

LEMMA SendFits ==
  ASSUME PageInv, NEW v, NEW kind, NEW target, SetAndSend(v, kind, target),
         ViewFits(screen, v), AtHome(screen, kind),
         TargetFits(screen, kind, target), kind = "cancel" => Subject \subseteq Ids
  PROVE  PageInv'
<1>1. CallsFit(screen, calls \cup {Call(kind, target)})
  BY AddedFits, CallMade DEF SetAndSend, PageInv
<1>2. QED
  BY <1>1 DEF SetAndSend, PageInv

LEMMA MountFits ==
  ASSUME PageInv, NEW s, NEW v, Mounts(s, v), ViewFits(s, v)
  PROVE  PageInv'
BY AbandonedFit DEF Mounts, PageInv

LEMMA NavigateFits ==
  ASSUME PageInv, NEW s, NEW fresh, NEW kept, NEW cs,
         Navigates(s, fresh, kept, cs), CallsFit(screen, cs),
         ViewFits(s, fresh), screen = s => ViewFits(s, kept)
  PROVE  PageInv'
<1>1. CASE screen = s
  BY <1>1 DEF Navigates, PageInv
<1>2. CASE screen # s
  BY <1>2, AbandonedFit DEF Navigates, PageInv
<1>3. QED
  BY <1>1, <1>2

LEMMA AnswerFits ==
  ASSUME PageInv, NEW w \in calls, NEW v, screen' = screen, view' = v,
         calls' = calls \ {w}, ViewFits(screen, v)
  PROVE  PageInv'
<1>1. CallsFit(screen, calls \ {w})
  BY FewerFit DEF PageInv
<1>2. QED
  BY <1>1 DEF PageInv

LEMMA SuccessFits ==
  ASSUME PageInv, NEW w \in calls, NEW v, NEW ls, Succeeds(w, v, ls),
         ViewFits(screen, v)
  PROVE  PageInv'
BY AnswerFits DEF Succeeds

----------------------------------------------------------------------------
(***************************************************************************)
(* The views of pages that have just been mounted.                         *)
(***************************************************************************)
LEMMA FirstPageExists == 1 \in 1..LastPage /\ LastPage \in Nat
BY BoundsAssumption

LEMMA NoFilterIsList == NoFilter \in Lists /\ \A t \in Searches : Filtered(t) \in Lists
BY SearchesAssumption, FirstPageExists DEF NoFilter, Filtered, Lists

LEMMA ClosedIsDialog ==
  ASSUME NEW kinds, NEW targets
  PROVE  Closed \in Dialogs(kinds, targets)
BY DEF Dialogs

LEMMA FreshCoursePages ==
  /\ ViewFits("courses", CoursesView)
  /\ \A c \in Ids : /\ ViewFits("course", CourseView(c))
                    /\ ViewFits("student", StudentView(c))
<1>1. CoursesView \in CoursesViews
  BY SearchesAssumption DEF CoursesView, CoursesViews
<1>2. ASSUME NEW c \in Ids
      PROVE  CourseView(c) \in CourseViews
  BY ClosedIsDialog, FirstPageExists, SearchesAssumption
     DEF CourseView, CourseViews, IdsOrNone
<1>3. ASSUME NEW c \in Ids
      PROVE  StudentView(c) \in StudentViews
  BY FirstPageExists, SearchesAssumption
     DEF StudentView, StudentViews, StudentTabs, IdsOrNone, Lists
<1>4. QED
  BY <1>1, <1>2, <1>3 DEF ViewFits

LEMMA FreshAdminPages ==
  /\ ViewFits("users", UsersView)
  /\ ViewFits("requests", RequestsView)
  /\ ViewFits("audit", AuditView)
  /\ \A u \in Ids : ViewFits("user", UserView(u))
<1>1. UsersView \in UsersViews /\ AuditView \in [list : Lists]
  BY NoFilterIsList DEF UsersView, UsersViews, AuditView
<1>2. RequestsView \in RequestsViews
  BY NoFilterIsList, ClosedIsDialog DEF RequestsView, RequestsViews
<1>3. ASSUME NEW u \in Ids
      PROVE  UserView(u) \in UserViews
  BY NoFilterIsList, ClosedIsDialog DEF UserView, UserViews, IdsOrNone
<1>4. QED
  BY <1>1, <1>2, <1>3 DEF ViewFits

LEMMA DefaultFiltersFit == DefaultFilters \in FilterSets /\ ~Inverted(DefaultFilters.range)
BY DEF DefaultFilters, FilterSets, NoRange, Ranges, Inverted

LEMMA FreshResultPages ==
  /\ ViewFits("history", HistoryView)
  /\ \A i \in Ids : /\ ViewFits("submission", OverviewView(i))
                    /\ ViewFits("result", ResultView(i))
  /\ \A q \in SUBSET Executions :
       ValidQuery(q) => ViewFits("comparison", ComparisonView(q))
<1>1. HistoryFits(HistoryView)
  BY SearchesAssumption, FirstPageExists DEF HistoryFits, HistoryView, Lists
<1>2. ASSUME NEW i \in Ids
      PROVE  OverviewView(i) \in OverviewViews
  <2>1. {} \in {q \in SUBSET Executions :
                  Cardinality(q) <= MAX_COMPARISON_EXECUTIONS}
    BY FS_EmptySet DEF MAX_COMPARISON_EXECUTIONS
  <2>2. QED
    BY <2>1 DEF OverviewView, OverviewViews, IdsOrNone
<1>3. ASSUME NEW i \in Ids
      PROVE  ResultView(i) \in ResultViews
  BY DefaultFiltersFit DEF ResultView, ResultViews, IdsOrNone
<1>4. ASSUME NEW q \in SUBSET Executions, ValidQuery(q)
      PROVE  ComparisonView(q) \in ComparisonViews
  BY <1>4, DefaultFiltersFit DEF ComparisonView, ComparisonViews
<1>5. QED
  BY <1>1, <1>2, <1>3, <1>4 DEF ViewFits
----------------------------------------------------------------------------
(***************************************************************************)
(* The controls of the course pages.                                       *)
(***************************************************************************)
LEMMA CoursesFits ==
  ASSUME PageInv, CoursesNext
  PROVE  PageInv'
<1>1. screen = "courses" /\ view \in CoursesViews
  BY DEF CoursesNext, PageInv, ViewFits
<1>2. \A v : v \in CoursesViews => ViewFits(screen, v)
  BY <1>1 DEF ViewFits
<1>3. CASE ToggleCreate \/ CreateFromEmpty
  <2>1. /\ [view EXCEPT !.showCreate = ~@] \in CoursesViews
        /\ [view EXCEPT !.showCreate = TRUE] \in CoursesViews
    BY <1>1 DEF CoursesViews
  <2>2. QED
    BY <1>2, <1>3, <2>1, SetFits DEF ToggleCreate, CreateFromEmpty, Set
<1>4. CASE CreateCourse
  BY <1>1, <1>2, <1>4, SendFits DEF CreateCourse, Send, AtHome, TargetFits
<1>5. ASSUME NEW tab \in {"active", "historic"}, ShowCourses(tab)
      PROVE  PageInv'
  BY <1>1, <1>2, <1>5, SetFits DEF ShowCourses, Set, CoursesViews
<1>6. ASSUME NEW text \in Searches, SearchCourses(text)
      PROVE  PageInv'
  BY <1>1, <1>2, <1>6, SetFits DEF SearchCourses, Set, CoursesViews
<1>7. CASE RetryCourseList
  BY <1>1, <1>2, <1>7, SetFits DEF RetryCourseList
<1>8. QED
  BY <1>3, <1>4, <1>5, <1>6, <1>7 DEF CoursesNext

\* Each filter of the roster goes back to the first page.
LEMMA FirstPageFits ==
  ASSUME NEW v \in CourseViews
  PROVE  FirstPage(v) \in CourseViews
BY FirstPageExists DEF FirstPage, CourseViews

LEMMA RosterFilters ==
  ASSUME view \in CourseViews, NEW m \in {"active", "inactive", "all"},
         NEW text \in Searches, NEW a \in {"all", "some"}
  PROVE  /\ [view EXCEPT !.membership = m, !.search = text, !.attention = a]
              \in CourseViews
         /\ [view EXCEPT !.membership = m, !.attention = a] \in CourseViews
         /\ [view EXCEPT !.attention = a, !.membership = m] \in CourseViews
         /\ [view EXCEPT !.search = text] \in CourseViews
BY DEF CourseViews

LEMMA RosterFits ==
  ASSUME PageInv, screen = "course", RosterNext
  PROVE  PageInv'
<1>1. view \in CourseViews
  BY DEF PageInv, ViewFits
<1>2. \A v : v \in CourseViews => ViewFits(screen, v)
  BY DEF ViewFits
<1>3. /\ view.membership \in {"active", "inactive", "all"}
      /\ view.attention \in {"all", "some"}
  BY <1>1 DEF CourseViews
<1>4. CASE ShowAttentionStudents
  BY <1>1, <1>2, <1>4, SetFits, FirstPageFits, RosterFilters, SearchesAssumption
     DEF ShowAttentionStudents, Set
<1>5. ASSUME NEW m \in {"active", "inactive", "all"}, ShowMembership(m)
      PROVE  PageInv'
  BY <1>1, <1>2, <1>3, <1>5, SetFits, FirstPageFits, RosterFilters, SearchesAssumption
     DEF ShowMembership, Set
<1>6. ASSUME NEW text \in Searches, SearchStudents(text)
      PROVE  PageInv'
  BY <1>1, <1>2, <1>3, <1>6, SetFits, FirstPageFits, RosterFilters
     DEF SearchStudents, Set
<1>7. ASSUME NEW a \in {"all", "some"}, FilterAttention(a)
      PROVE  PageInv'
  BY <1>1, <1>2, <1>3, <1>7, SetFits, FirstPageFits, RosterFilters, SearchesAssumption
     DEF FilterAttention, Set
<1>8. ASSUME NEW n \in 1..LastPage, TurnRoster(n)
      PROVE  PageInv'
  BY <1>1, <1>2, <1>8, SetFits DEF TurnRoster, Set, CourseViews
<1>9. CASE ToggleAdd
  <2>1. [view EXCEPT !.showAdd = ~@] \in CourseViews
    BY <1>1 DEF CourseViews
  <2>2. QED
    BY <1>2, <1>9, <2>1, SetFits DEF ToggleAdd, Set
<1>10. CASE RetryAttention
  BY <1>1, <1>2, <1>10, SetFits DEF RetryAttention
<1>11. CASE AddStudents \/ ConfirmRemoveStudent \/ \E s \in Ids : RestoreStudent(s)
  BY <1>1, <1>2, <1>11, SendFits
     DEF AddStudents, ConfirmRemoveStudent, RestoreStudent, Send, AtHome, TargetFits
<1>12. ASSUME NEW s \in Ids, OpenRemoval(s)
       PROVE  PageInv'
  <2>1. [view EXCEPT !.dialog = Dialog("remove", s)] \in CourseViews
    BY <1>1 DEF CourseViews, Dialog, Dialogs, IdsOrNone
  <2>2. QED
    BY <1>2, <1>12, <2>1, SetFits DEF OpenRemoval, Set
<1>13. QED
  BY <1>4, <1>5, <1>6, <1>7, <1>8, <1>9, <1>10, <1>11, <1>12 DEF RosterNext

LEMMA ProtocolsFits ==
  ASSUME PageInv, screen = "course", ProtocolsNext
  PROVE  PageInv'
<1>1. view \in CourseViews
  BY DEF PageInv, ViewFits
<1>2. \A v : v \in CourseViews => ViewFits(screen, v)
  BY DEF ViewFits
<1>3. CASE RetryAnalytics \/ RetryProtocols
  BY <1>1, <1>2, <1>3, SetFits DEF RetryAnalytics, RetryProtocols
<1>4. CASE OpenCreate \/ CloseForm \/ \E p \in Ids : OpenEdit(p)
  BY <1>1, <1>2, <1>4, SetFits DEF OpenCreate, CloseForm, OpenEdit, Set, CourseViews
<1>5. CASE SaveProtocol
  BY <1>1, <1>2, <1>5, SendFits DEF SaveProtocol, Send, AtHome, TargetFits
<1>6. ASSUME NEW p \in Ids, RunAction(p)
      PROVE  PageInv'
  <2>1. [view EXCEPT !.actionId = p] \in CourseViews
    BY <1>1 DEF CourseViews, IdsOrNone
  <2>2. QED
    BY <1>2, <1>6, <2>1, SendFits DEF RunAction, AtHome, TargetFits
<1>7. QED
  BY <1>3, <1>4, <1>5, <1>6 DEF ProtocolsNext

LEMMA CourseFits ==
  ASSUME PageInv, CourseNext
  PROVE  PageInv'
<1>1. screen = "course" /\ view \in CourseViews
  BY DEF CourseNext, PageInv, ViewFits
<1>2. \A v : v \in CourseViews => ViewFits(screen, v)
  BY <1>1 DEF ViewFits
<1>3. CASE RetryCourse
  BY <1>1, <1>2, <1>3, SetFits DEF RetryCourse
<1>4. CASE ToggleEdit
  <2>1. [view EXCEPT !.editing = ~@] \in CourseViews
    BY <1>1 DEF CourseViews
  <2>2. QED
    BY <1>2, <1>4, <2>1, SetFits DEF ToggleEdit, Set
<1>5. CASE ExportStudentsCsv \/ SaveCourse \/ ConfirmCourseStatus \/ CloneCourse
  BY <1>1, <1>2, <1>5, SendFits
     DEF ExportStudentsCsv, SaveCourse, ConfirmCourseStatus, CloneCourse, Send,
         AtHome, TargetFits
<1>6. CASE OpenCourseStatusDecision \/ OpenCloneCourse \/ CancelDialog
  <2>1. /\ [view EXCEPT !.dialog = Dialog("status", 0)] \in CourseViews
        /\ [view EXCEPT !.dialog = Dialog("clone", 0)] \in CourseViews
        /\ [view EXCEPT !.dialog = Closed] \in CourseViews
    BY <1>1 DEF CourseViews, Dialog, Dialogs, IdsOrNone
  <2>2. QED
    BY <1>2, <1>6, <2>1, SetFits
       DEF OpenCourseStatusDecision, OpenCloneCourse, CancelDialog, Set
<1>7. QED
  BY <1>1, <1>3, <1>4, <1>5, <1>6, RosterFits, ProtocolsFits DEF CourseNext

LEMMA StudentFits ==
  ASSUME PageInv, StudentNext
  PROVE  PageInv'
<1>1. screen = "student" /\ view \in StudentViews
  BY DEF StudentNext, PageInv, ViewFits
<1>2. \A v : v \in StudentViews => ViewFits(screen, v)
  BY <1>1 DEF ViewFits
<1>3. CASE RetryProfile
  BY <1>1, <1>2, <1>3, SetFits DEF RetryProfile
<1>4. CASE CloseExecution \/ \E e \in Ids : OpenExecution(e)
  <2>1. \A e \in IdsOrNone : [view EXCEPT !.execution = e] \in StudentViews
    BY <1>1 DEF StudentViews
  <2>2. QED
    BY <1>2, <1>4, <2>1, SetFits
       DEF CloseExecution, OpenExecution, Set, IdsOrNone
<1>5. ASSUME NEW tab \in StudentTabs, ShowTab(tab)
      PROVE  PageInv'
  BY <1>1, <1>2, <1>5, SetFits DEF ShowTab, Set, StudentViews
<1>6. ASSUME NEW tab \in StudentTabs, NEW text \in Searches, FilterList(tab, text)
      PROVE  PageInv'
  <2>1. [view EXCEPT !.lists[tab] = [search |-> text, page |-> 1]] \in StudentViews
    BY <1>1, FirstPageExists DEF StudentViews, Lists
  <2>2. QED
    BY <1>2, <1>6, <2>1, SetFits DEF FilterList, Set
<1>7. ASSUME NEW n \in 1..LastPage, TurnList(n)
      PROVE  PageInv'
  <2>1. [view EXCEPT !.lists[view.tab].page = n] \in StudentViews
    BY <1>1 DEF StudentViews, Lists
  <2>2. QED
    BY <1>2, <1>7, <2>1, SetFits DEF TurnList, Set
<1>8. QED
  BY <1>3, <1>4, <1>5, <1>6, <1>7 DEF StudentNext

----------------------------------------------------------------------------
(***************************************************************************)
(* The controls of the administration pages.                               *)
(***************************************************************************)
LEMMA UsersFits ==
  ASSUME PageInv, UsersNext
  PROVE  PageInv'
<1>1. screen = "users" /\ view \in UsersViews
  BY DEF UsersNext, PageInv, ViewFits
<1>2. \A v : v \in UsersViews => ViewFits(screen, v)
  BY <1>1 DEF ViewFits
<1>3. CASE RetryUsers
  BY <1>1, <1>2, <1>3, SetFits DEF RetryUsers
<1>4. CASE ClearUserFilters \/ \E text \in Searches : FilterUsers(text)
  <2>1. \A l \in Lists : [view EXCEPT !.list = l] \in UsersViews
    BY <1>1 DEF UsersViews
  <2>2. QED
    BY <1>2, <1>4, <2>1, SetFits, NoFilterIsList
       DEF ClearUserFilters, FilterUsers, Set
<1>5. ASSUME NEW n \in 1..LastPage, TurnUsers(n)
      PROVE  PageInv'
  BY <1>1, <1>2, <1>5, SetFits DEF TurnUsers, Turned, Set, UsersViews, Lists
<1>6. CASE TogglePreauthorization
  <2>1. [view EXCEPT !.preauthorizationOpen = ~@] \in UsersViews
    BY <1>1 DEF UsersViews
  <2>2. QED
    BY <1>2, <1>6, <2>1, SetFits DEF TogglePreauthorization, Set
<1>7. CASE Preauthorize
  BY <1>1, <1>2, <1>7, SendFits DEF Preauthorize, Send, AtHome, TargetFits
<1>8. QED
  BY <1>3, <1>4, <1>5, <1>6, <1>7 DEF UsersNext

LEMMA UserFits ==
  ASSUME PageInv, UserNext
  PROVE  PageInv'
<1>1. screen = "user" /\ view \in UserViews
  BY DEF UserNext, PageInv, ViewFits
<1>2. \A v : v \in UserViews => ViewFits(screen, v)
  BY <1>1 DEF ViewFits
<1>3. CASE RetryUser \/ RetryTab
  BY <1>1, <1>2, <1>3, SetFits DEF RetryUser, RetryTab
<1>4. CASE CloseUserExecution \/ \E e \in Ids : OpenUserExecution(e)
  <2>1. \A e \in IdsOrNone : [view EXCEPT !.execution = e] \in UserViews
    BY <1>1 DEF UserViews
  <2>2. QED
    BY <1>2, <1>4, <2>1, SetFits
       DEF CloseUserExecution, OpenUserExecution, Set, IdsOrNone
<1>5. ASSUME NEW tab \in {"executions", "submissions", "audit"}, ShowUserTab(tab)
      PROVE  PageInv'
  <2>1. [view EXCEPT !.tab = tab, !.list = NoFilter] \in UserViews
    BY <1>1, NoFilterIsList DEF UserViews
  <2>2. QED
    BY <1>2, <1>5, <2>1, SetFits DEF ShowUserTab, Set
<1>6. ASSUME NEW text \in Searches, FilterTab(text)
      PROVE  PageInv'
  BY <1>1, <1>2, <1>6, SetFits, NoFilterIsList DEF FilterTab, Set, UserViews
<1>7. ASSUME NEW l, NEW n \in 1..LastPage, TurnedTab(l, n)
      PROVE  PageInv'
  BY <1>1, <1>2, <1>7, SetFits DEF TurnedTab, Turned, Set, UserViews, Lists
<1>8. CASE OpenAccessDecision \/ OpenRoleDecision \/ CancelDialog
  <2>1. /\ [view EXCEPT !.dialog = Dialog("access", view.id)] \in UserViews
        /\ [view EXCEPT !.dialog = Dialog("role", view.id)] \in UserViews
        /\ [view EXCEPT !.dialog = Closed] \in UserViews
    BY <1>1 DEF UserViews, Dialog, Dialogs
  <2>2. QED
    BY <1>2, <1>8, <2>1, SetFits
       DEF OpenAccessDecision, OpenRoleDecision, CancelDialog, Set
<1>9. CASE ConfirmAccessChange \/ ConfirmRoleChange
  BY <1>1, <1>2, <1>9, SendFits
     DEF ConfirmAccessChange, ConfirmRoleChange, Send, AtHome, TargetFits
<1>10. QED
  BY <1>3, <1>4, <1>5, <1>6, <1>7, <1>8, <1>9 DEF UserNext

LEMMA RequestsFits ==
  ASSUME PageInv, RequestsNext
  PROVE  PageInv'
<1>1. screen = "requests" /\ view \in RequestsViews
  BY DEF RequestsNext, PageInv, ViewFits
<1>2. \A v : v \in RequestsViews => ViewFits(screen, v)
  BY <1>1 DEF ViewFits
<1>3. CASE RetryRequests
  BY <1>1, <1>2, <1>3, SetFits DEF RetryRequests
<1>4. ASSUME NEW s \in {"PENDING", "APPROVED", "REJECTED"}, ShowStatus(s)
      PROVE  PageInv'
  <2>1. [view EXCEPT !.status = s, !.list.page = 1] \in RequestsViews
    BY <1>1, FirstPageExists DEF RequestsViews, Lists
  <2>2. QED
    BY <1>2, <1>4, <2>1, SetFits DEF ShowStatus, Set
<1>5. ASSUME NEW text \in Searches, SearchRequests(text)
      PROVE  PageInv'
  BY <1>1, <1>2, <1>5, SetFits, NoFilterIsList
     DEF SearchRequests, Set, RequestsViews
<1>6. ASSUME NEW n \in 1..LastPage, TurnRequests(n)
      PROVE  PageInv'
  BY <1>1, <1>2, <1>6, SetFits DEF TurnRequests, Turned, Set, RequestsViews, Lists
<1>7. ASSUME NEW r \in Ids, NEW m \in {"approve", "reject"}, OpenDecision(r, m)
      PROVE  PageInv'
  <2>1. [view EXCEPT !.dialog = Dialog(m, r)] \in RequestsViews
    BY <1>1 DEF RequestsViews, Dialog, Dialogs
  <2>2. QED
    BY <1>2, <1>7, <2>1, SetFits DEF OpenDecision, Set
<1>8. CASE CancelDialog
  <2>1. [view EXCEPT !.dialog = Closed] \in RequestsViews
    BY <1>1, ClosedIsDialog DEF RequestsViews
  <2>2. QED
    BY <1>2, <1>8, <2>1, SetFits DEF CancelDialog, Set
<1>9. CASE ResolveDecision
  <2>1. view.dialog.kind \in {"approve", "reject"}
    BY <1>9 DEF ResolveDecision, ResolveOffered, ConfirmHeeded
  <2>2. QED
    BY <1>1, <1>2, <1>9, <2>1, SendFits
       DEF ResolveDecision, Send, AtHome, TargetFits
<1>10. QED
  BY <1>3, <1>4, <1>5, <1>6, <1>7, <1>8, <1>9 DEF RequestsNext

LEMMA AuditFits ==
  ASSUME PageInv, AuditNext
  PROVE  PageInv'
<1>1. screen = "audit" /\ view \in [list : Lists]
  BY DEF AuditNext, PageInv, ViewFits
<1>2. \A v : v \in [list : Lists] => ViewFits(screen, v)
  BY <1>1 DEF ViewFits
<1>3. CASE RetryAudit
  BY <1>1, <1>2, <1>3, SetFits DEF RetryAudit
<1>4. CASE ClearAuditFilters \/ \E text \in Searches : FilterAudit(text)
  <2>1. \A l \in Lists : [view EXCEPT !.list = l] \in [list : Lists]
    BY <1>1
  <2>2. QED
    BY <1>2, <1>4, <2>1, SetFits, NoFilterIsList
       DEF ClearAuditFilters, FilterAudit, Set
<1>5. ASSUME NEW n \in 1..LastPage, TurnAudit(n)
      PROVE  PageInv'
  BY <1>1, <1>2, <1>5, SetFits DEF TurnAudit, Turned, Set, Lists
<1>6. QED
  BY <1>3, <1>4, <1>5 DEF AuditNext

LEMMA AdminFits ==
  ASSUME PageInv, AdminPagesNext
  PROVE  PageInv'
<1>1. CASE StatusNext
  BY <1>1, SetFits DEF StatusNext, RefreshStatus, PageInv
<1>2. QED
  BY <1>1, UsersFits, UserFits, RequestsFits, AuditFits DEF AdminPagesNext
----------------------------------------------------------------------------
(***************************************************************************)
(* The controls of the result pages.                                       *)
(***************************************************************************)
LEMMA HistoryEdits ==
  ASSUME HistoryFits(view), NEW x
  PROVE  /\ \A l \in Lists : HistoryFits([view EXCEPT !.list = l])
         /\ \A n \in 1..LastPage :
              /\ HistoryFits([view EXCEPT !.list.page = n])
              /\ HistoryFits([view EXCEPT !.list.page = n, !.archiving = x])
         /\ HistoryFits([view EXCEPT !.archiving = x])
         /\ HistoryFits([view EXCEPT !.archiving.stage = x])
BY DEF HistoryFits, Lists

LEMMA HistoryControlsFit ==
  ASSUME PageInv, HistoryNext
  PROVE  PageInv'
<1>1. screen = "history" /\ HistoryFits(view)
  BY DEF HistoryNext, PageInv, ViewFits
<1>2. \A v : HistoryFits(v) => ViewFits(screen, v)
  BY <1>1 DEF ViewFits
<1>3. ASSUME NEW text \in Searches, UpdateFilter(text)
      PROVE  PageInv'
  <2>1. [search |-> text, page |-> 1] \in Lists
    BY NoFilterIsList DEF Filtered
  <2>2. QED
    BY <1>1, <1>2, <1>3, <2>1, HistoryEdits, SetFits DEF UpdateFilter, Set
<1>4. CASE ClearFilters
  <2>1. HistoryView.list \in Lists
    BY NoFilterIsList DEF HistoryView, NoFilter
  <2>2. QED
    BY <1>1, <1>2, <1>4, <2>1, HistoryEdits, SetFits DEF ClearFilters, Set
<1>5. CASE RetryHistory
  BY <1>1, <1>2, <1>5, SetFits DEF RetryHistory
<1>6. ASSUME NEW n \in 1..LastPage, TurnHistory(n)
      PROVE  PageInv'
  BY <1>1, <1>2, <1>6, HistoryEdits, SetFits DEF TurnHistory, Set
<1>7. CASE ArchiveSettled
  BY <1>1, <1>2, <1>7, HistoryEdits, SetFits DEF ArchiveSettled, Set
<1>8. ASSUME NEW i \in Ids, SetArchived(i)
      PROVE  PageInv'
  <2>1. PICK x : SetAndSend([view EXCEPT !.archiving = x], "archiveItem", i)
    BY <1>8 DEF SetArchived
  <2>2. ViewFits(screen, [view EXCEPT !.archiving = x])
    BY <1>1, <1>2, HistoryEdits
  <2>3. AtHome(screen, "archiveItem") /\ TargetFits(screen, "archiveItem", i)
    BY <1>1 DEF AtHome, TargetFits
  <2>4. QED
    BY <2>1, <2>2, <2>3, SendFits
<1>9. QED
  BY <1>3, <1>4, <1>5, <1>6, <1>7, <1>8 DEF HistoryNext

LEMMA OverviewEdits ==
  ASSUME view \in OverviewViews
  PROVE  /\ Reading(view) \in OverviewViews /\ OverviewFailed(view) \in OverviewViews
         /\ \A of \in SUBSET Ids : OverviewRead(view, of) \in OverviewViews
         /\ \A b \in BOOLEAN : [view EXCEPT !.editingNote = b] \in OverviewViews
         /\ \A i \in IdsOrNone : /\ [view EXCEPT !.previous = i] \in OverviewViews
                               /\ [view EXCEPT !.viewer = i] \in OverviewViews
         /\ \A kind \in {"closed", "loading", "shown", "failed"}, i \in IdsOrNone :
              [view EXCEPT !.reference = [kind |-> kind, of |-> i]] \in OverviewViews
<1>1. {} \in {q \in SUBSET Executions :
                Cardinality(q) <= MAX_COMPARISON_EXECUTIONS}
  BY FS_EmptySet DEF MAX_COMPARISON_EXECUTIONS
<1>2. \A of \in SUBSET Ids : OverviewRead(view, of) \in OverviewViews
  BY <1>1 DEF OverviewRead, OverviewViews, IdsOrNone
<1>3. Reading(view) \in OverviewViews /\ OverviewFailed(view) \in OverviewViews
  BY DEF Reading, OverviewFailed, OverviewViews
<1>4. \A b \in BOOLEAN : [view EXCEPT !.editingNote = b] \in OverviewViews
  BY DEF OverviewViews
<1>5. \A i \in IdsOrNone : /\ [view EXCEPT !.previous = i] \in OverviewViews
                          /\ [view EXCEPT !.viewer = i] \in OverviewViews
  BY DEF OverviewViews
<1>6. \A kind \in {"closed", "loading", "shown", "failed"}, i \in IdsOrNone :
        [view EXCEPT !.reference = [kind |-> kind, of |-> i]] \in OverviewViews
  BY DEF OverviewViews
<1>7. QED
  BY <1>2, <1>3, <1>4, <1>5, <1>6

LEMMA ChosenEdits ==
  ASSUME view \in OverviewViews, NEW b \in BOOLEAN, NEW q \in SUBSET Executions,
         Cardinality(q) <= MAX_COMPARISON_EXECUTIONS
  PROVE  /\ [view EXCEPT !.comparing = b, !.chosen = q] \in OverviewViews
         /\ [view EXCEPT !.chosen = q] \in OverviewViews
BY DEF OverviewViews

LEMMA ExecutionsFinite ==
  ASSUME NEW q \in SUBSET Executions
  PROVE  IsFiniteSet(q) /\ Cardinality(q) \in Nat
BY FS_Subset, FS_CardinalityType, ResultAssumption

LEMMA ToggledChoice ==
  ASSUME view \in OverviewViews, NEW e \in Executions,
         e \in view.chosen \/ Cardinality(view.chosen) < MAX_COMPARISON_EXECUTIONS
  PROVE  LET q == IF e \in view.chosen THEN view.chosen \ {e}
                  ELSE view.chosen \cup {e}
         IN  q \in SUBSET Executions /\ Cardinality(q) <= MAX_COMPARISON_EXECUTIONS
<1>1. /\ view.chosen \in SUBSET Executions
      /\ Cardinality(view.chosen) <= MAX_COMPARISON_EXECUTIONS
  BY DEF OverviewViews
<1>2. IsFiniteSet(view.chosen) /\ Cardinality(view.chosen) \in Nat
  BY <1>1, ExecutionsFinite
<1> DEFINE q == view.chosen
<1>3. /\ Cardinality(q \ {e}) = IF e \in q THEN Cardinality(q) - 1 ELSE Cardinality(q)
      /\ Cardinality(q \cup {e}) = IF e \in q THEN Cardinality(q) ELSE Cardinality(q) + 1
  BY <1>2, FS_RemoveElement, FS_AddElement
<1>4. Cardinality(q) \in Nat /\ Cardinality(q) <= 4 /\ q \subseteq Executions
      /\ (e \in q \/ Cardinality(q) < 4)
  BY <1>1, <1>2 DEF MAX_COMPARISON_EXECUTIONS
<1> HIDE DEF q
<1>5. LET p == IF e \in q THEN q \ {e} ELSE q \cup {e}
      IN  p \in SUBSET Executions /\ Cardinality(p) <= 4
  BY <1>3, <1>4
<1>6. QED
  BY <1>5 DEF q, MAX_COMPARISON_EXECUTIONS

LEMMA OverviewFits ==
  ASSUME PageInv, OverviewNext
  PROVE  PageInv'
<1>1. screen = "submission" /\ view \in OverviewViews /\ view.id \in Ids
  BY DEF OverviewNext, PageInv, ViewFits, OverviewViews
<1>2. \A v : v \in OverviewViews => ViewFits(screen, v)
  BY <1>1 DEF ViewFits
<1>3. CASE RefreshSubmission \/ RetrySubmission
  BY <1>1, <1>2, <1>3, OverviewEdits, SetFits
     DEF RefreshSubmission, RetrySubmission, ReloadSubmission
<1>4. CASE DownloadArchive \/ SaveNote \/ TogglePinned \/ SetRecordArchived
           \/ \E e \in Ids : CancelExecution(e)
  <2>1. Subject \subseteq Ids
    BY <1>1 DEF Subject, OverviewViews
  <2>2. QED
    BY <1>1, <1>2, <1>4, <2>1, SendFits
       DEF DownloadArchive, SaveNote, TogglePinned, SetRecordArchived,
           CancelExecution, Send, AtHome, TargetFits
<1>5. CASE EditNote \/ CancelNote
  BY <1>1, <1>2, <1>5, OverviewEdits, SetFits DEF EditNote, CancelNote, Set
<1>6. CASE StartComparison
  <2>1. PICK eligible \in SUBSET Executions :
          Set([view EXCEPT !.comparing = TRUE,
                 !.chosen = IF ValidQuery(eligible) THEN eligible ELSE {}])
    BY <1>6 DEF StartComparison
  <2> DEFINE q == IF ValidQuery(eligible) THEN eligible ELSE {}
  <2>2. q \in SUBSET Executions /\ Cardinality(q) <= MAX_COMPARISON_EXECUTIONS
    BY FS_EmptySet
       DEF ValidQuery, MIN_COMPARISON_EXECUTIONS, MAX_COMPARISON_EXECUTIONS
  <2>3. Set([view EXCEPT !.comparing = TRUE, !.chosen = q])
    BY <2>1
  <2> HIDE DEF q
  <2>4. QED
    BY <1>1, <1>2, <2>2, <2>3, ChosenEdits, SetFits DEF Set
<1>7. CASE CancelComparison
  <2>1. Cardinality({}) <= MAX_COMPARISON_EXECUTIONS
    BY FS_EmptySet DEF MAX_COMPARISON_EXECUTIONS
  <2>2. QED
    BY <1>1, <1>2, <1>7, <2>1, ChosenEdits, SetFits DEF CancelComparison, Set
<1>8. ASSUME NEW e \in Executions, ToggleComparison(e)
      PROVE  PageInv'
  <2> DEFINE q == IF e \in view.chosen THEN view.chosen \ {e}
                  ELSE view.chosen \cup {e}
  <2>1. q \in SUBSET Executions /\ Cardinality(q) <= MAX_COMPARISON_EXECUTIONS
    BY <1>1, <1>8, ToggledChoice DEF ToggleComparison
  <2>2. Set([view EXCEPT !.chosen = q])
    BY <1>8 DEF ToggleComparison
  <2> HIDE DEF q
  <2>3. QED
    BY <1>1, <1>2, <2>1, <2>2, ChosenEdits, SetFits DEF Set
<1>9. ASSUME NEW e \in Ids, OpenReferenceCandidates(e) \/ PreviousCompatible(e)
      PROVE  PageInv'
  <2>1. \/ SetAndSend([view EXCEPT !.reference = [kind |-> "loading", of |-> e]],
                      "references", e)
        \/ SetAndSend([view EXCEPT !.previous = e], "previous", e)
    BY <1>9 DEF OpenReferenceCandidates, PreviousCompatible
  <2>2. /\ ViewFits(screen, [view EXCEPT !.reference = [kind |-> "loading", of |-> e]])
        /\ ViewFits(screen, [view EXCEPT !.previous = e])
    BY <1>1, <1>2, OverviewEdits DEF IdsOrNone
  <2>3. \A kind \in {"references", "previous"} :
          AtHome(screen, kind) /\ TargetFits(screen, kind, e)
    BY <1>1 DEF AtHome, TargetFits
  <2>4. QED
    BY <2>1, <2>2, <2>3, SendFits
<1>10. CASE CloseReferences \/ CloseViewer \/ \E e \in Ids : OpenViewer(e)
  BY <1>1, <1>2, <1>10, OverviewEdits, SetFits
     DEF CloseReferences, CloseViewer, OpenViewer, Set, IdsOrNone
<1>11. QED
  BY <1>3, <1>4, <1>5, <1>6, <1>7, <1>8, <1>9, <1>10 DEF OverviewNext

\* The comparison page: other executions, and the filters of its chart.
LEMMA OtherQueryFits ==
  ASSUME PageInv, screen = "comparison", NEW q, ValidQuery(q)
  PROVE  ViewFits("comparison", OtherQuery(q))
<1>1. view \in ComparisonViews
  BY DEF PageInv, ViewFits
<1>2. OtherQuery(q) \in ComparisonViews
  BY <1>1 DEF OtherQuery, ComparisonViews, ValidQuery
<1>3. QED
  BY <1>2 DEF ViewFits

LEMMA ComparesFits ==
  ASSUME PageInv, NEW q, ValidQuery(q), Compares(q)
  PROVE  PageInv'
<1>1. ViewFits("comparison", ComparisonView(q))
  BY FreshResultPages DEF ValidQuery
<1>2. screen = "comparison" => ViewFits("comparison", OtherQuery(q))
  BY OtherQueryFits
<1>3. CallsFit(screen, Disowned("ai", calls))
  BY DisownedFit DEF PageInv
<1>4. QED
  BY <1>1, <1>2, <1>3, NavigateFits DEF Compares

LEMMA FilterEdits ==
  ASSUME NEW f \in FilterSets
  PROVE  /\ \A r \in Ranges : [f EXCEPT !.range = r] \in FilterSets
         /\ \A c \in {"linear", "log"} : [f EXCEPT !.scale = c] \in FilterSets
         /\ \A a \in {"median", "mean"} : [f EXCEPT !.aggregation = a] \in FilterSets
         /\ [f EXCEPT !.dispersion = ~@] \in FilterSets
<1>1. \A r \in Ranges : [f EXCEPT !.range = r] \in FilterSets
  BY DEF FilterSets
<1>2. \A c \in {"linear", "log"} : [f EXCEPT !.scale = c] \in FilterSets
  BY DEF FilterSets
<1>3. \A a \in {"median", "mean"} : [f EXCEPT !.aggregation = a] \in FilterSets
  BY DEF FilterSets
<1>4. [f EXCEPT !.dispersion = ~@] \in FilterSets
  BY DEF FilterSets
<1>5. QED
  BY <1>1, <1>2, <1>3, <1>4

LEMMA ComparisonFits ==
  ASSUME PageInv, ComparisonNext
  PROVE  PageInv'
<1>1. screen = "comparison" /\ view \in ComparisonViews
  BY DEF ComparisonNext, PageInv, ViewFits
<1>2. \A v : v \in ComparisonViews => ViewFits(screen, v)
  BY <1>1 DEF ViewFits
<1>3. view.filters \in FilterSets /\ ValidQuery(view.id)
  BY <1>1 DEF ComparisonViews
<1>4. ASSUME NEW f \in FilterSets, Filters(f)
      PROVE  PageInv'
  <2>1. [view EXCEPT !.filters = f] \in ComparisonViews
    BY <1>1 DEF ComparisonViews
  <2>2. QED
    BY <1>2, <1>4, <2>1, SetFits DEF Filters, Set
<1>5. CASE RetryComparison
  <2>1. [view EXCEPT !.ai = 0] \in ComparisonViews
    BY <1>1 DEF ComparisonViews
  <2>2. QED
    BY <1>2, <1>5, <2>1, SetFits DEF RetryComparison
<1>6. CASE ToggleHistorical \/ ShowIncompatible \/ ToggleAudit
  <2>1. /\ [view EXCEPT !.historyOpen = ~@] \in ComparisonViews
        /\ [view EXCEPT !.incompatible = ~@] \in ComparisonViews
        /\ [view EXCEPT !.audit = ~@] \in ComparisonViews
    BY <1>1 DEF ComparisonViews
  <2>2. QED
    BY <1>2, <1>6, <2>1, SetFits
       DEF ToggleHistorical, ShowIncompatible, ToggleAudit, Set
<1>7. CASE RetryHistorical
  BY <1>1, <1>2, <1>7, SetFits DEF RetryHistorical
<1>8. ASSUME NEW e \in Executions, RemoveExecution(e)
      PROVE  PageInv'
  <2>1. /\ Cardinality(view.id) \in 2..4 /\ Cardinality(view.id) > 2
        /\ e \in view.id /\ IsFiniteSet(view.id) /\ view.id \subseteq Executions
    BY <1>3, <1>8, ExecutionsFinite
       DEF RemoveExecution, ValidQuery, MIN_COMPARISON_EXECUTIONS,
           MAX_COMPARISON_EXECUTIONS
  <2>2. Cardinality(view.id \ {e}) = Cardinality(view.id) - 1
    BY <2>1, FS_RemoveElement
  <2>3. ValidQuery(view.id \ {e})
    BY <2>1, <2>2
       DEF ValidQuery, MIN_COMPARISON_EXECUTIONS, MAX_COMPARISON_EXECUTIONS
  <2>4. QED
    BY <1>8, <2>3, ComparesFits DEF RemoveExecution
<1>9. ASSUME NEW e \in Executions, AddCandidate(e)
      PROVE  PageInv'
  <2>1. /\ Cardinality(view.id) \in 2..4 /\ Cardinality(view.id) < 4
        /\ e \notin view.id /\ IsFiniteSet(view.id) /\ view.id \subseteq Executions
    BY <1>3, <1>9, ExecutionsFinite
       DEF AddCandidate, ValidQuery, MIN_COMPARISON_EXECUTIONS,
           MAX_COMPARISON_EXECUTIONS
  <2>2. Cardinality(view.id \cup {e}) = Cardinality(view.id) + 1
    BY <2>1, FS_AddElement
  <2>3. ValidQuery(view.id \cup {e})
    BY <2>1, <2>2
       DEF ValidQuery, MIN_COMPARISON_EXECUTIONS, MAX_COMPARISON_EXECUTIONS
  <2>4. QED
    BY <1>9, <2>3, ComparesFits DEF AddCandidate
<1>10. ASSUME NEW min \in Sizes, NEW max \in Sizes,
              ChooseRange([min |-> min, max |-> max])
       PROVE  PageInv'
  <2>1. [min |-> min, max |-> max] \in Ranges
    BY DEF Ranges
  <2>2. QED
    BY <1>3, <1>4, <1>10, <2>1, FilterEdits DEF ChooseRange
<1>11. CASE LogScaleLost \/ \E scale \in {"linear", "log"} : ChooseScale(scale)
  BY <1>3, <1>4, <1>11, FilterEdits DEF LogScaleLost, ChooseScale
<1>12. CASE ToggleDispersion \/ \E a \in {"median", "mean"} : ChooseAggregation(a)
  BY <1>3, <1>4, <1>12, FilterEdits DEF ToggleDispersion, ChooseAggregation
<1>13. CASE ResetComparisonFilters
  BY <1>4, <1>13, DefaultFiltersFit DEF ResetComparisonFilters
<1>14. CASE GenerateComparisonAI
  BY <1>1, <1>2, <1>14, SendFits DEF GenerateComparisonAI, Send, AtHome, TargetFits
<1>15. QED
  BY <1>5, <1>6, <1>7, <1>8, <1>9, <1>10, <1>11, <1>12, <1>13, <1>14
     DEF ComparisonNext

\* The result page: an end that passes the other one takes it along.
LEMMA RangeEdits ==
  ASSUME NEW f \in FilterSets, NEW n \in Sizes \cup {0}, ~Inverted(f.range)
  PROVE  /\ LET r == [min |-> n, max |-> IF Inverted([f.range EXCEPT !.min = n])
                                        THEN n ELSE f.range.max]
            IN  r \in Ranges /\ ~Inverted(r)
         /\ LET r == [max |-> n, min |-> IF Inverted([f.range EXCEPT !.max = n])
                                        THEN n ELSE f.range.min]
            IN  r \in Ranges /\ ~Inverted(r)
<1>0. f.range \in Ranges /\ n \in Nat
  BY ResultAssumption DEF FilterSets
<1>1. f.range.min \in Sizes \cup {0} /\ f.range.max \in Sizes \cup {0}
  BY <1>0 DEF Ranges
<1>2. f.range.min \in Nat /\ f.range.max \in Nat
  <2>1. \A x \in Sizes \cup {0} : x \in Nat
    BY ResultAssumption
  <2>2. QED
    BY <1>1, <2>1
<1>3. QED
  BY <1>0, <1>1, <1>2 DEF Ranges, Inverted

LEMMA ResultFits ==
  ASSUME PageInv, ResultNext
  PROVE  PageInv'
<1>1. screen = "result" /\ view \in ResultViews
  BY DEF ResultNext, PageInv, ViewFits
<1>2. \A v : v \in ResultViews => ViewFits(screen, v)
  BY <1>1 DEF ViewFits
<1>3. view.filters \in FilterSets /\ ~Inverted(view.filters.range) /\ view.id \in Ids
  BY <1>1 DEF ResultViews
<1>4. ASSUME NEW f \in FilterSets, ~Inverted(f.range), ResultFilters(f)
      PROVE  PageInv'
  <2>1. [view EXCEPT !.filters = f] \in ResultViews
    BY <1>1, <1>4 DEF ResultViews
  <2>2. QED
    BY <1>2, <1>4, <2>1, SetFits DEF ResultFilters, Set
<1>5. CASE ReloadDocument
  BY <1>3, <1>5, FreshResultPages, MountFits DEF ReloadDocument
<1>6. CASE ToggleAdvanced \/ ToggleReproducibility
  <2>1. /\ [view EXCEPT !.advanced = ~@] \in ResultViews
        /\ [view EXCEPT !.expanded = ~@] \in ResultViews
    BY <1>1 DEF ResultViews
  <2>2. QED
    BY <1>2, <1>6, <2>1, SetFits DEF ToggleAdvanced, ToggleReproducibility, Set
<1>7. CASE \E c \in {"summary", "cpu"} : ShowCategory(c)
  <2>1. \A c \in {"summary", "cpu"} : [view EXCEPT !.category = c] \in ResultViews
    BY <1>1 DEF ResultViews
  <2>2. QED
    BY <1>2, <1>7, <2>1, SetFits DEF ShowCategory, Set
<1>8. CASE \E n \in Sizes \cup {0} : RangeMinChanged(n) \/ RangeMaxChanged(n)
  <2>0. PICK n \in Sizes \cup {0} : RangeMinChanged(n) \/ RangeMaxChanged(n)
    BY <1>8
  <2>1. PICK r \in Ranges : /\ ~Inverted(r)
                            /\ ResultFilters([view.filters EXCEPT !.range = r])
    BY <1>3, <2>0, RangeEdits DEF RangeMinChanged, RangeMaxChanged
  <2>2. [view.filters EXCEPT !.range = r].range = r
    BY <1>3 DEF FilterSets
  <2>3. QED
    BY <1>3, <1>4, <2>1, <2>2, FilterEdits
<1>9. CASE ResetFilters
  BY <1>4, <1>9, DefaultFiltersFit DEF ResetFilters
<1>10. CASE GenerateAI \/ DownloadCsv \/ DownloadArtifact
  BY <1>1, <1>2, <1>3, <1>10, SendFits
     DEF GenerateAI, DownloadCsv, DownloadArtifact, Send, AtHome, TargetFits
<1>11. ASSUME NEW i \in IdsOrNone, Set([view EXCEPT !.viewer = i])
       PROVE  PageInv'
  <2>1. [view EXCEPT !.viewer = i] \in ResultViews
    BY <1>1 DEF ResultViews
  <2>2. QED
    BY <1>2, <1>11, <2>1, SetFits DEF Set
<1>12. CASE CloseViewer
  BY <1>11, <1>12 DEF CloseViewer, IdsOrNone
<1>13. CASE OpenViewer(view.id)
  BY <1>3, <1>11, <1>13 DEF OpenViewer, IdsOrNone
<1>14. QED
  BY <1>5, <1>6, <1>7, <1>8, <1>9, <1>10, <1>12, <1>13 DEF ResultNext

----------------------------------------------------------------------------
(***************************************************************************)
(* The addresses: what a page that stays mounted keeps.                    *)
(***************************************************************************)
LEMMA KeptFits ==
  ASSUME PageInv, NEW i \in Ids
  PROVE  /\ screen = "course" => /\ OtherCourse(i) \in CourseViews
                                 /\ [OtherCourse(i) EXCEPT !.dialog = Closed]
                                      \in CourseViews
         /\ screen = "student" => [view EXCEPT !.id = i] \in StudentViews
         /\ screen = "submission" => OtherSubmission(i) \in OverviewViews
         /\ screen = "result" => OtherResult(i) \in ResultViews
<1>1. ASSUME screen = "course"
      PROVE  /\ OtherCourse(i) \in CourseViews
             /\ [OtherCourse(i) EXCEPT !.dialog = Closed] \in CourseViews
  <2>1. view \in CourseViews
    BY <1>1 DEF PageInv, ViewFits
  <2>2. OtherCourse(i) \in CourseViews
    BY <2>1 DEF OtherCourse, CourseViews
  <2>3. QED
    BY <2>2, ClosedIsDialog DEF CourseViews
<1>2. ASSUME screen = "student"
      PROVE  [view EXCEPT !.id = i] \in StudentViews
  <2>1. view \in StudentViews
    BY <1>2 DEF PageInv, ViewFits
  <2>2. QED
    BY <2>1 DEF StudentViews
<1>3. ASSUME screen = "submission"
      PROVE  OtherSubmission(i) \in OverviewViews
  <2>1. view \in OverviewViews
    BY <1>3 DEF PageInv, ViewFits
  <2>2. QED
    BY <2>1 DEF OtherSubmission, Reading, OverviewViews
<1>4. ASSUME screen = "result"
      PROVE  OtherResult(i) \in ResultViews
  <2>1. view \in ResultViews
    BY <1>4 DEF PageInv, ViewFits
  <2>2. QED
    BY <2>1 DEF OtherResult, ResultViews, IdsOrNone
<1>5. QED
  BY <1>1, <1>2, <1>3, <1>4

LEMMA KeptUserFits ==
  ASSUME PageInv, screen = "user", NEW u \in Ids
  PROVE  AnotherUser(u) \in UserViews
<1>1. view \in UserViews
  BY DEF PageInv, ViewFits
<1>2. PICK l \in Lists :
        l = IF view.tab = "executions" THEN view.list ELSE NoFilter
  BY <1>1, NoFilterIsList DEF UserViews
<1>3. AnotherUser(u) = [view EXCEPT !.id = u, !.execution = 0, !.dialog = Closed,
                                    !.list = l, !.tab = "executions"]
  BY <1>1, <1>2 DEF AnotherUser, UserViews
<1>4. Closed \in Dialogs({"access", "role"}, Ids)
  BY ClosedIsDialog
<1>5. [view EXCEPT !.id = u, !.execution = 0, !.dialog = Closed, !.list = l,
                   !.tab = "executions"] \in UserViews
  BY <1>1, <1>2, <1>4 DEF UserViews, IdsOrNone
<1>6. QED
  BY <1>3, <1>5

LEMMA LinksFit ==
  ASSUME PageInv, CourseLinks \/ AdminLinks \/ ResultLinks
  PROVE  PageInv'
<1>1. CASE CourseLinks
  BY <1>1, MountFits, FreshCoursePages DEF CourseLinks, OpenCourse
<1>2. CASE AdminLinks
  BY <1>2, MountFits, FreshAdminPages DEF AdminLinks
<1>3. CASE ResultLinks
  BY <1>3, MountFits, FreshResultPages DEF ResultLinks, OpenChosen, ValidQuery
<1>4. QED
  BY <1>1, <1>2, <1>3

LEMMA VisitFits ==
  ASSUME PageInv, Visit
  PROVE  PageInv'
<1>1. CallsFit(screen, calls) /\ ViewFits("elsewhere", Plain) /\ ViewFits("status", Plain)
  BY DEF PageInv, ViewFits
<1>2. CASE VisitTeacher
  <2>1. CASE Mounts("courses", CoursesView)
    BY <2>1, MountFits, FreshCoursePages
  <2>2. ASSUME NEW c \in Ids, Navigates("course", CourseView(c), OtherCourse(c), calls)
        PROVE  PageInv'
    <3>1. screen = "course" => ViewFits("course", OtherCourse(c))
      BY KeptFits DEF ViewFits
    <3>2. QED
      BY <1>1, <2>2, <3>1, NavigateFits, FreshCoursePages
  <2>3. ASSUME NEW u \in Ids,
               Navigates("student", StudentView(u), [view EXCEPT !.id = u], calls)
        PROVE  PageInv'
    <3>1. screen = "student" => ViewFits("student", [view EXCEPT !.id = u])
      BY KeptFits DEF ViewFits
    <3>2. QED
      BY <1>1, <2>3, <3>1, NavigateFits, FreshCoursePages
  <2>4. QED
    BY <1>2, <2>1, <2>2, <2>3 DEF VisitTeacher
<1>3. CASE VisitAdmin
  <2>1. CASE \/ Mounts("users", UsersView) \/ Mounts("requests", RequestsView)
             \/ Mounts("audit", AuditView) \/ Mounts("status", Plain)
    BY <1>1, <2>1, MountFits, FreshAdminPages
  <2>2. ASSUME NEW u \in Ids, Navigates("user", UserView(u), AnotherUser(u), calls)
        PROVE  PageInv'
    <3>1. screen = "user" => ViewFits("user", AnotherUser(u))
      BY KeptUserFits DEF ViewFits
    <3>2. QED
      BY <1>1, <2>2, <3>1, NavigateFits, FreshAdminPages
  <2>3. QED
    BY <1>3, <2>1, <2>2 DEF VisitAdmin
<1>4. CASE VisitResult
  <2>1. CASE Mounts("history", HistoryView)
    BY <2>1, MountFits, FreshResultPages
  <2>2. ASSUME NEW i \in Ids,
               Navigates("submission", OverviewView(i), OtherSubmission(i), calls)
        PROVE  PageInv'
    <3>1. screen = "submission" => ViewFits("submission", OtherSubmission(i))
      BY KeptFits DEF ViewFits
    <3>2. QED
      BY <1>1, <2>2, <3>1, NavigateFits, FreshResultPages
  <2>3. ASSUME NEW q \in SUBSET Executions, ValidQuery(q), Compares(q)
        PROVE  PageInv'
    BY <2>3, ComparesFits
  <2>4. ASSUME NEW c \in Ids, Navigates("result", ResultView(c), OtherResult(c), calls)
        PROVE  PageInv'
    <3>1. screen = "result" => ViewFits("result", OtherResult(c))
      BY KeptFits DEF ViewFits
    <3>2. QED
      BY <1>1, <2>4, <3>1, NavigateFits, FreshResultPages
  <2>5. QED
    BY <1>4, <2>1, <2>2, <2>3, <2>4 DEF VisitResult
<1>5. CASE Mounts("elsewhere", Plain)
  BY <1>1, <1>5, MountFits
<1>6. QED
  BY <1>2, <1>3, <1>4, <1>5 DEF Visit

----------------------------------------------------------------------------
(***************************************************************************)
(* The answers to the calls.  One of a mounted page finds its own view.    *)
(***************************************************************************)
LEMMA CallHome ==
  ASSUME PageInv, NEW w \in calls, w.mounted
  PROVE  AtHome(screen, w.kind) /\ TargetFits(screen, w.kind, w.target)
BY DEF PageInv, CallsFit, CallFits

LEMMA RestFits ==
  ASSUME PageInv, NEW w \in calls
  PROVE  /\ CallsFit(screen, calls \ {w})
         /\ CallsFit(screen, Disowned("ai", calls \ {w}))
BY FewerFit, DisownedFit DEF PageInv

LEMMA CourseAnswersFit ==
  ASSUME PageInv, NEW w \in calls, CoursePagesAnswer(w)
  PROVE  PageInv'
<1>1. ViewFits(screen, view)
  BY DEF PageInv
<1>2. CASE CourseCreated(w)
  <2>1. PICK c \in Ids : Navigates("course", CourseView(c), OtherCourse(c), calls \ {w})
    BY <1>2 DEF CourseCreated
  <2>2. screen = "course" => ViewFits("course", OtherCourse(c))
    BY KeptFits DEF ViewFits
  <2>3. QED
    BY <2>1, <2>2, NavigateFits, RestFits, FreshCoursePages
<1>3. CASE CourseCloned(w)
  <2> DEFINE kept(c) == IF w.mounted THEN [OtherCourse(c) EXCEPT !.dialog = Closed]
                        ELSE OtherCourse(c)
  <2>1. PICK c \in Ids : Navigates("course", CourseView(c), kept(c), calls \ {w})
    BY <1>3 DEF CourseCloned
  <2>2. screen = "course" => ViewFits("course", kept(c))
    BY KeptFits DEF ViewFits
  <2> HIDE DEF kept
  <2>3. QED
    BY <2>1, <2>2, NavigateFits, RestFits, FreshCoursePages
<1>4. CASE StudentsAdded(w) \/ StudentRestored(w) \/ StudentsExported(w)
  BY <1>1, <1>4, SuccessFits DEF StudentsAdded, StudentRestored, StudentsExported
<1>5. CASE \/ CourseSaved(w) \/ StatusChanged(w) \/ StudentRemoved(w)
           \/ ProtocolSaved(w) \/ ProtocolActedOn(w)
  <2>1. /\ w.mounted
        /\ w.kind \in {"save", "status", "remove", "saveProtocol", "protocolAction"}
    BY <1>5 DEF CourseSaved, StatusChanged, StudentRemoved, ProtocolSaved,
                ProtocolActedOn, Patched, Succeeds
  <2>2. screen = "course" /\ view \in CourseViews
    BY <1>1, <2>1, CallHome DEF AtHome, ViewFits
  <2>3. \A v : v \in CourseViews => ViewFits(screen, v)
    BY <2>2 DEF ViewFits
  <2>4. /\ [view EXCEPT !.editing = FALSE] \in CourseViews
        /\ [view EXCEPT !.protocolForm = "closed"] \in CourseViews
        /\ [view EXCEPT !.actionId = 0] \in CourseViews
    BY <2>2 DEF CourseViews, IdsOrNone
  <2>5. [view EXCEPT !.dialog = Closed] \in CourseViews
    BY <2>2, ClosedIsDialog DEF CourseViews
  <2>6. QED
    BY <1>5, <2>3, <2>4, <2>5, SuccessFits
       DEF CourseSaved, StatusChanged, StudentRemoved, ProtocolSaved,
           ProtocolActedOn, Patched
<1>6. QED
  BY <1>2, <1>3, <1>4, <1>5 DEF CoursePagesAnswer

LEMMA AdminAnswersFit ==
  ASSUME PageInv, NEW w \in calls, AdminPagesAnswer(w)
  PROVE  PageInv'
<1>1. ViewFits(screen, view)
  BY DEF PageInv
<1>2. CASE Preauthorized(w)
  BY <1>1, <1>2, SuccessFits DEF Preauthorized
<1>3. CASE AccessChanged(w) \/ RoleChanged(w)
  <2>1. screen = "user" /\ view \in UserViews
    BY <1>1, <1>3, CallHome DEF AccessChanged, RoleChanged, Succeeds, AtHome, ViewFits
  <2>2. \A kind : ClosedOwn(kind) \in UserViews
    BY <2>1, ClosedIsDialog DEF ClosedOwn, UserViews
  <2>3. QED
    BY <1>3, <2>1, <2>2, SuccessFits DEF AccessChanged, RoleChanged, ViewFits
<1>4. CASE Resolved(w)
  <2>1. screen = "requests" /\ view \in RequestsViews
    BY <1>1, <1>4, CallHome DEF Resolved, Succeeds, AtHome, ViewFits
  <2>2. [view EXCEPT !.dialog = Closed] \in RequestsViews
    BY <2>1, ClosedIsDialog DEF RequestsViews
  <2>3. QED
    BY <1>4, <2>1, <2>2, SuccessFits DEF Resolved, ViewFits
<1>5. QED
  BY <1>2, <1>3, <1>4 DEF AdminPagesAnswer

LEMMA ResultAnswersFit ==
  ASSUME PageInv, NEW w \in calls, ResultPagesAnswer(w) \/ PreviousNone(w)
  PROVE  PageInv'
<1>1. ViewFits(screen, view)
  BY DEF PageInv
<1>2. CASE \/ PinToggled(w) \/ RecordArchived(w) \/ ArchiveDownloaded(w)
           \/ CsvDownloaded(w) \/ ArtifactDownloaded(w)
  BY <1>1, <1>2, SuccessFits
     DEF PinToggled, RecordArchived, ArchiveDownloaded, CsvDownloaded,
         ArtifactDownloaded
<1>3. CASE ItemArchived(w)
  <2>1. screen = "history" /\ HistoryFits(view)
    BY <1>1, <1>3, CallHome DEF ItemArchived, AtHome, ViewFits
  <2>2. \A v : HistoryFits(v) => ViewFits(screen, v)
    BY <2>1 DEF ViewFits
  <2> DEFINE n == IF view.list.page > 1 THEN view.list.page - 1 ELSE 1
  <2>3. view.list.page \in 1..LastPage /\ n \in 1..LastPage
    BY <2>1, FirstPageExists DEF HistoryFits, Lists
  <2> HIDE DEF n
  <2>4. \/ Succeeds(w, [view EXCEPT !.list.page = n, !.archiving = NoArchive], {})
        \/ Succeeds(w, [view EXCEPT !.archiving.stage = "reloading"], {"history"})
    BY <1>3 DEF ItemArchived, n
  <2>5. QED
    BY <2>1, <2>2, <2>3, <2>4, HistoryEdits, SuccessFits
<1>4. CASE NoteSaved(w) \/ ExecutionCancelled(w) \/ ReferencesRead(w) \/ PreviousNone(w)
  <2>1. /\ w.mounted /\ w.kind \in {"note", "cancel", "references", "previous"}
        /\ w.kind = "references" <=> ReferencesRead(w)
    BY <1>4 DEF NoteSaved, ExecutionCancelled, ReferencesRead, PreviousNone, Succeeds
  <2>2. screen = "submission" /\ view \in OverviewViews
    BY <1>1, <2>1, CallHome DEF AtHome, ViewFits
  <2>3. \A v : v \in OverviewViews => ViewFits(screen, v)
    BY <2>2 DEF ViewFits
  <2>4. CASE ReferencesRead(w)
    <3>1. w.target \in IdsOrNone
      BY <2>1, <2>4, CallHome DEF TargetFits, IdsOrNone
    <3>2. [view EXCEPT !.reference = [kind |-> "shown", of |-> w.target]]
            \in OverviewViews
      BY <2>2, <3>1, OverviewEdits
    <3>3. QED
      BY <2>3, <2>4, <3>2, SuccessFits DEF ReferencesRead
  <2>5. CASE NoteSaved(w) \/ ExecutionCancelled(w)
    BY <2>2, <2>3, <2>5, OverviewEdits, SuccessFits DEF NoteSaved, ExecutionCancelled
  <2>6. CASE PreviousNone(w)
    BY <2>2, <2>3, <2>6, OverviewEdits, SuccessFits DEF PreviousNone, IdsOrNone
  <2>7. QED
    BY <1>4, <2>4, <2>5, <2>6
<1>5. CASE ComparisonExplained(w)
  <2>1. screen = "comparison" /\ view \in ComparisonViews
    BY <1>1, <1>5 DEF ComparisonExplained, ViewFits
  <2>2. [view EXCEPT !.ai = 1] \in ComparisonViews
    BY <2>1 DEF ComparisonViews
  <2>3. QED
    BY <1>5, <2>1, <2>2, SuccessFits DEF ComparisonExplained, ViewFits
<1>6. CASE Explained(w)
  <2>1. screen = "result" /\ view \in ResultViews
    BY <1>1, <1>6 DEF Explained, ViewFits
  <2>2. w.target \in IdsOrNone
    BY <1>6, CallHome DEF Explained, Succeeds, TargetFits, IdsOrNone
  <2>3. [view EXCEPT !.ai = w.target] \in ResultViews
    BY <2>1, <2>2 DEF ResultViews
  <2>4. QED
    BY <1>6, <2>1, <2>3, SuccessFits DEF Explained, ViewFits
<1>7. QED
  BY <1>2, <1>3, <1>4, <1>5, <1>6 DEF ResultPagesAnswer

LEMMA FoundFits ==
  ASSUME PageInv, NEW w \in calls, PreviousFound(w)
  PROVE  PageInv'
<1>1. PICK q \in SUBSET Executions :
        /\ Cardinality(q) = MIN_COMPARISON_EXECUTIONS
        /\ Navigates("comparison", ComparisonView(q), OtherQuery(q),
                     Disowned("ai", calls \ {w}))
  BY DEF PreviousFound
<1>2. ValidQuery(q)
  BY <1>1 DEF ValidQuery, MIN_COMPARISON_EXECUTIONS, MAX_COMPARISON_EXECUTIONS
<1>3. screen = "comparison" => ViewFits("comparison", OtherQuery(q))
  BY <1>2, OtherQueryFits
<1>4. QED
  BY <1>1, <1>2, <1>3, NavigateFits, RestFits, FreshResultPages

\* An error answer.
LEMMA FailureFits ==
  ASSUME PageInv, NEW w \in calls
  PROVE  ViewFits(screen, FailureView(w))
<1>1. ViewFits(screen, view)
  BY DEF PageInv
<1>2. ASSUME screen = "course"
      PROVE  ViewFits(screen, CoursePagesFailure(w))
  <2>1. view \in CourseViews
    BY <1>1, <1>2 DEF ViewFits
  <2>2. [view EXCEPT !.actionId = 0] \in CourseViews
    BY <2>1 DEF CourseViews, IdsOrNone
  <2>3. QED
    BY <1>2, <2>1, <2>2 DEF CoursePagesFailure, ViewFits
<1>3. ASSUME screen = "history", w.mounted
      PROVE  ViewFits(screen, ResultPagesFailure(w))
  <2>1. w.kind = "archiveItem" /\ HistoryFits(view)
    BY <1>1, <1>3, CallHome DEF AtHome, ViewFits
  <2>2. HistoryFits([view EXCEPT !.archiving = NoArchive])
    BY <2>1, HistoryEdits
  <2>3. QED
    BY <1>3, <2>1, <2>2 DEF ResultPagesFailure, ViewFits
<1>4. ASSUME screen = "submission", w.mounted
      PROVE  ViewFits(screen, ResultPagesFailure(w))
  <2>1. /\ w.kind # "archiveItem" /\ view \in OverviewViews
        /\ w.kind = "references" => w.target \in IdsOrNone
    BY <1>1, <1>4, CallHome DEF AtHome, TargetFits, ViewFits, IdsOrNone
  <2>2. w.kind = "references"
          => [view EXCEPT !.reference = [kind |-> "failed", of |-> w.target]]
               \in OverviewViews
    BY <2>1, OverviewEdits
  <2>3. [view EXCEPT !.previous = 0] \in OverviewViews
    BY <2>1, OverviewEdits DEF IdsOrNone
  <2>4. ResultPagesFailure(w) \in OverviewViews
    BY <2>1, <2>2, <2>3 DEF ResultPagesFailure
  <2>5. QED
    BY <1>4, <2>4 DEF ViewFits
<1>5. QED
  BY <1>1, <1>2, <1>3, <1>4 DEF FailureView

LEMMA CarryOutFits ==
  ASSUME PageInv, NEW w \in calls, CarryOut(w)
  PROVE  PageInv'
<1>1. PICK v : calls' = (calls \ {w}) \cup {[w EXCEPT !.done = TRUE, !.version = v]}
  BY DEF CarryOut
<1>2. CallFits(screen, w) /\ IsFiniteSet(calls) /\ Cardinality(calls) <= MaxCalls
  BY DEF PageInv, CallsFit
<1>3. CallFits(screen, [w EXCEPT !.done = TRUE, !.version = v])
  BY <1>2 DEF CallFits, CallFields
<1>4. /\ CallsFit(screen, calls \ {w})
      /\ Cardinality(calls \ {w}) = Cardinality(calls) - 1
      /\ Cardinality(calls) \in Nat
  BY <1>2, RestFits, FS_RemoveElement, FS_CardinalityType
<1>5. CallsFit(screen, calls')
  BY <1>1, <1>2, <1>3, <1>4, AddedFits, BoundsAssumption
<1>6. QED
  BY <1>5 DEF CarryOut, PageInv

LEMMA CallStepFits ==
  ASSUME PageInv, NEW w \in calls, CallStep(w)
  PROVE  PageInv'
<1>1. ViewFits(screen, view)
  BY DEF PageInv
<1>2. CASE BadAnswer(w)
  BY <1>2, FailureFits, AnswerFits DEF BadAnswer
<1>3. CASE LateAnswer(w)
  BY <1>1, <1>3, AnswerFits DEF LateAnswer
<1>4. QED
  BY <1>2, <1>3, CarryOutFits DEF CallStep

LEMMA AnswerStepFits ==
  ASSUME PageInv, NEW w \in calls, AnswerStep(w)
  PROVE  PageInv'
<1>1. ViewFits(screen, view)
  BY DEF PageInv
<1>2. CASE CancelRefused(w)
  <2>1. screen = "submission" /\ view \in OverviewViews
    BY <1>1, <1>2, CallHome DEF CancelRefused, AtHome, ViewFits
  <2>2. ViewFits(screen, Reading(view))
    BY <2>1, OverviewEdits DEF ViewFits
  <2>3. QED
    BY <1>2, <2>2, AnswerFits DEF CancelRefused
<1>3. QED
  BY <1>2, CourseAnswersFit, AdminAnswersFit, ResultAnswersFit, FoundFits
     DEF AnswerStep, GoodAnswer

LEMMA SettlesFits ==
  ASSUME PageInv, screen = "submission",
         NEW of \in SUBSET Ids,
         NEW v \in {OverviewRead(view, of), OverviewFailed(view)}
  PROVE  ViewFits(screen, v)
<1>1. view \in OverviewViews
  BY DEF PageInv, ViewFits
<1>2. v \in OverviewViews
  BY <1>1, OverviewEdits
<1>3. QED
  BY <1>2 DEF ViewFits

LEMMA PageStepFits ==
  ASSUME PageInv, PageStep
  PROVE  PageInv'
<1>1. CASE SubmissionSettles
  <2>1. \E of \in SUBSET Ids :
          \E v \in {OverviewRead(view, of), OverviewFailed(view)} :
            SetAndReload(v, {"trace"})
    BY <1>1 DEF SubmissionSettles
  <2>2. PICK v : SetAndReload(v, {"trace"}) /\ ViewFits(screen, v)
    BY <1>1, <2>1, SettlesFits DEF SubmissionSettles
  <2>3. QED
    BY <2>2, SetFits
<1>2. QED
  BY <1>1, CoursesFits, CourseFits, StudentFits, AdminFits, HistoryControlsFit,
     OverviewFits, ComparisonFits, ResultFits, LinksFit, VisitFits, CallStepFits
     DEF PageStep, CoursePagesNext, ResultPagesNext

----------------------------------------------------------------------------
(***************************************************************************)
(* The loaders: nothing one has read, or is being sent, is newer than the  *)
(* database.                                                               *)
(***************************************************************************)
RequestFits(r, n) ==
  /\ DOMAIN r = RequestFields /\ Asks(r.key)
  /\ r.version \in 0..n /\ r.stage \in {"timer", "sent", "read", "body"}
LoaderFits(s, n) ==
  /\ DOMAIN s = LoaderFields
  /\ DOMAIN s.shown = {"key", "version"} /\ s.shown.version \in 0..n
  /\ \A r \in s.asked : RequestFits(r, n)

LEMMA OlderFits ==
  ASSUME NEW n \in Nat, NEW m \in Nat, n <= m, NEW s, LoaderFits(s, n)
  PROVE  LoaderFits(s, m)
BY DEF LoaderFits, RequestFits

LEMMA IdleFits ==
  ASSUME NEW n \in Nat
  PROVE  /\ LoaderFits(Idle, n)
         /\ DOMAIN Nothing = {"key", "version"} /\ Nothing.version \in 0..n
BY IdleFields DEF LoaderFits, Nothing

LEMMA CleanedUpFits ==
  ASSUME NEW n \in Nat, NEW k, NEW s, LoaderFits(s, n)
  PROVE  LoaderFits(CleanedUp(k, s), n)
<1>1. /\ DOMAIN CleanedUp(k, s) = LoaderFields
      /\ CleanedUp(k, s).asked = Aborted(k, s)
      /\ CleanedUp(k, s).shown \in {s.shown, Nothing}
  BY CleanedUpFields DEF LoaderFits
<1>2. QED
  BY <1>1, IdleFits DEF LoaderFits, Aborted

LEMMA StartedFits ==
  ASSUME NEW n \in Nat, NEW k, NEW s, NEW key, LoaderFits(s, n), Asks(key)
  PROVE  LoaderFits(Started(k, s, key), n)
<1>1. /\ RequestFits(Request(key, "timer"), n)
      /\ RequestFits(Request(key, "sent"), n)
  BY DEF RequestFits, Request, RequestFields
<1>2. /\ DOMAIN Started(k, s, key) = LoaderFields
      /\ \E stage \in {"timer", "sent"} :
           Started(k, s, key).asked = s.asked \cup {Request(key, stage)}
      /\ Started(k, s, key).shown \in {s.shown, Nothing}
  BY DEF Started, LoaderFits, LoaderFields
<1>3. QED
  BY <1>1, <1>2, IdleFits DEF LoaderFits

LEMMA OffIsNotPaused == Off # Paused
BY DEF Off, Paused, Key

LEMMA RerunOff ==
  ASSUME NEW k, NEW s
  PROVE  Rerun(k, s, Off) = Idle
BY OffIsNotPaused DEF Rerun

LEMMA RerunFits ==
  ASSUME NEW n \in Nat, NEW k, NEW s, NEW key, LoaderFits(s, n)
  PROVE  LoaderFits(Rerun(k, s, key), n)
<1> DEFINE c == CleanedUp(k, s)
           b == [c EXCEPT !.failed = IF "delayed" \in k THEN @
                                     ELSE Disturbed(k, s)]
<1>1. LoaderFits(c, n)
  BY CleanedUpFits
<1>2. LoaderFits(b, n)
  BY <1>1 DEF LoaderFits, LoaderFields
<1> HIDE DEF c, b
<1>3. CASE key = Off
  BY <1>3, RerunOff, IdleFits
<1>4. CASE key = Paused
  <2>1. Rerun(k, s, key) \in {Idle, c}
    BY <1>4, OffIsNotPaused DEF Rerun, c
  <2>2. QED
    BY <1>1, <2>1, IdleFits
<1>5. CASE Asks(key)
  <2>1. Rerun(k, s, key) = Started(k, b, key)
    BY <1>5 DEF Rerun, Asks, b, c
  <2>2. QED
    BY <1>2, <1>5, <2>1, StartedFits
<1>6. QED
  BY <1>3, <1>4, <1>5 DEF Asks

\* The effects keep what fits.
LEMMA EffectsFit ==
  ASSUME NEW n \in Nat, NEW base, NEW asked, Effects(base, asked),
         NEW l \in DOMAIN loads, LoaderFits(base[l], n)
  PROVE  LoaderFits(loads'[l], n)
<1>1. \E key : loads'[l] \in {base[l], Rerun(Loader(l).traits, base[l], key)}
  BY DEF Effects
<1>2. QED
  BY <1>1, RerunFits

\* And so does what a handler writes of an answer it was sent.
LEMMA WrittenFits ==
  ASSUME NEW n \in Nat, NEW w, w.version \in 0..n, NEW l \in DOMAIN loads,
         LoaderFits(loads[l], n)
  PROVE  LoaderFits(Written(w)[l], n)
<1>1. \/ Written(w)[l] = loads[l] \/ Written(w)[l] = Mixed(loads[l], w)
      \/ Written(w)[l] = [loads[l] EXCEPT !.shown = [key |-> Key(w.of, l, "", 1),
                                                    version |-> w.version]]
  BY DEF Written
<1>2. LoaderFits(Mixed(loads[l], w), n)
  BY DEF Mixed, LoaderFits, LoaderFields
<1>3. LoaderFits([loads[l] EXCEPT !.shown = [key |-> Key(w.of, l, "", 1),
                                             version |-> w.version]], n)
  BY DEF LoaderFits, LoaderFields
<1>4. QED
  BY <1>1, <1>2, <1>3

\* And so does every move of one request.
LEMMA RequestMoveFits ==
  ASSUME NEW n \in Nat, NEW s, LoaderFits(s, n), NEW r \in s.asked, NEW k
  PROVE  /\ LoaderFits(TimerFires(s, r), n)
         /\ LoaderFits(ServerReads(s, r, n), n)
         /\ LoaderFits(HeadersArrive(s, r), n)
         /\ LoaderFits(Answered(s, r), n)
         /\ LoaderFits(Failed(k, s, r), n)
<1>1. RequestFits(r, n)
  BY DEF LoaderFits
<1>2. ASSUME NEW x, RequestFits(x, n)
      PROVE  LoaderFits(Replaced(s, r, x), n)
  BY <1>2 DEF Replaced, LoaderFits, LoaderFields
<1>3. /\ RequestFits([r EXCEPT !.stage = "sent"], n)
      /\ RequestFits([r EXCEPT !.stage = "body"], n)
      /\ RequestFits([r EXCEPT !.stage = "read", !.version = n], n)
  BY <1>1 DEF RequestFits, RequestFields
<1>4. LoaderFits(ServerReads(s, r, n), n) /\ LoaderFits(HeadersArrive(s, r), n)
  BY <1>2, <1>3 DEF ServerReads, HeadersArrive
<1>5. LoaderFits(TimerFires(s, r), n)
  <2> DEFINE t == Replaced(s, r, [r EXCEPT !.stage = "sent"])
  <2>1. LoaderFits(t, n)
    BY <1>2, <1>3
  <2>2. TimerFires(s, r) = [t EXCEPT !.loading = TRUE, !.failed = FALSE]
    BY DEF TimerFires
  <2> HIDE DEF t
  <2>3. QED
    BY <2>1, <2>2 DEF LoaderFits, LoaderFields
<1>6. LoaderFits(Answered(s, r), n)
  BY <1>1 DEF Answered, LoaderFits, LoaderFields, RequestFits
<1>7. LoaderFits(Failed(k, s, r), n)
  BY IdleFits DEF Failed, Emptied, LoaderFits, LoaderFields
<1>8. QED
  BY <1>4, <1>5, <1>6, <1>7

\* What an answer settles is the loader it was for.
LEMMA RequestStepShape ==
  ASSUME NEW l \in DOMAIN loads, NEW r \in loads[l].asked, RequestStep(l, r)
  PROVE  \E new, v, ls :
           /\ Settles(l, new, v, ls)
           /\ new \in {TimerFires(loads[l], r), ServerReads(loads[l], r, db),
                      HeadersArrive(loads[l], r), Answered(loads[l], r),
                      Failed(Loader(l).traits, loads[l], r)}
           /\ \/ v = view
              \/ /\ l = "submission"
                 /\ \E of \in {r.key.of, {}} :
                      v \in {OverviewRead(view, of), OverviewFailed(view)}
<1>1. CASE r.stage = "body" /\ \E of \in {r.key.of, {}} :
             Settled(l, Answered(loads[l], r), OverviewRead(view, of))
  BY <1>1 DEF Settled, Moves
<1>2. CASE Settled(l, Failed(Loader(l).traits, loads[l], r), OverviewFailed(view))
  BY <1>2 DEF Settled, Moves
<1>3. QED
  BY <1>1, <1>2 DEF RequestStep, Moves

LEMMA RequestStepFits ==
  ASSUME NEW l \in DOMAIN loads, NEW r \in loads[l].asked, RequestStep(l, r),
         db \in Nat, \A m \in DOMAIN loads : LoaderFits(loads[m], db)
  PROVE  \A m \in DOMAIN loads : LoaderFits(loads'[m], db')
<1>1. PICK new, v, ls : Settles(l, new, v, ls) /\ LoaderFits(new, db)
  BY RequestStepShape, RequestMoveFits
<1> DEFINE base == [loads EXCEPT ![l] = new]
<1>2. Effects(base, Wanted) /\ db' = db
  BY <1>1 DEF Settles
<1>3. \A m \in DOMAIN loads : LoaderFits(base[m], db)
  BY <1>1
<1> HIDE DEF base
<1>4. QED
  BY <1>2, <1>3, EffectsFit

(***************************************************************************)
(* The whole page of a submission waits for its loader, which only it      *)
(* runs, and only for submissions.                                         *)
(***************************************************************************)
AsksForIds(s) == \A r \in s.asked : r.key.of \subseteq Ids
SubmissionAlone ==
  "submission" \in DOMAIN loads =>
    /\ screen # "submission" => loads["submission"].asked = {}
    /\ AsksForIds(loads["submission"])

LEMMA SubmissionKey ==
  /\ screen = "submission" => Loader("submission").key # Off
  /\ screen # "submission" => Loader("submission").key = Off
BY DEF Loader, SubmissionLoader, Effect, Key, Off

LEMMA SubmissionKeyFits ==
  ASSUME PageInv'
  PROVE  Loader("submission").key'.of \subseteq Ids
<1>1. CASE screen' = "submission"
  <2>1. view'.id \in Ids
    BY <1>1 DEF PageInv, ViewFits, OverviewViews
  <2>2. QED
    BY <1>1, <2>1 DEF Loader, SubmissionLoader, Effect, Key
<1>2. CASE screen' # "submission"
  BY <1>2 DEF Loader, SubmissionLoader, Effect, Off, Key
<1>3. QED
  BY <1>1, <1>2

LEMMA LeftAlone ==
  ASSUME NEW base, NEW asked, Effects(base, asked), "submission" \in DOMAIN loads,
         screen # "submission" => base["submission"].asked = {},
         screen # "submission" => asked["submission"] = Off,
         screen' # "submission"
  PROVE  loads'["submission"].asked = {}
<1>1. /\ Loader("submission").key' = Off
      /\ screen = "submission" => Loader("submission").key # Off
      /\ screen # "submission" => Loader("submission").key = Off
  BY SubmissionKey DEF Loader, SubmissionLoader, Effect
<1>2. CASE screen = "submission"
  <2>1. loads'["submission"] = Rerun(Loader("submission").traits,
                                     base["submission"], Off)
    BY <1>1, <1>2 DEF Effects
  <2>2. QED
    BY <2>1, RerunOff, IdleFields
<1>3. CASE screen # "submission"
  <2>1. loads'["submission"] \in
          {base["submission"], Rerun(Loader("submission").traits,
                                     base["submission"], Off)}
    BY <1>1, <1>3 DEF Effects
  <2>2. QED
    BY <1>3, <2>1, RerunOff, IdleFields
<1>4. QED
  BY <1>2, <1>3

\* An effect that runs again asks for its key, besides what it still waits for.
LEMMA StartedAsks ==
  ASSUME NEW k, NEW s, NEW key, DOMAIN s = LoaderFields, AsksForIds(s),
         key.of \subseteq Ids
  PROVE  AsksForIds(Started(k, s, key))
<1>1. \E stage \in {"timer", "sent"} :
        Started(k, s, key).asked = s.asked \cup {Request(key, stage)}
  BY DEF Started, LoaderFields
<1>2. QED
  BY <1>1, RequestMade DEF AsksForIds

LEMMA RerunAsks ==
  ASSUME NEW k, NEW s, NEW key, DOMAIN s = LoaderFields, AsksForIds(s),
         key.of \subseteq Ids
  PROVE  AsksForIds(Rerun(k, s, key))
<1> DEFINE c == CleanedUp(k, s)
           b == [c EXCEPT !.failed = IF "delayed" \in k THEN @
                                     ELSE Disturbed(k, s)]
<1>1. DOMAIN c = LoaderFields /\ AsksForIds(c)
  BY CleanedUpFields DEF AsksForIds, Aborted
<1>2. DOMAIN b = LoaderFields /\ AsksForIds(b)
  BY <1>1 DEF LoaderFields, AsksForIds
<1>3. Rerun(k, s, key) \in {Idle, c, Started(k, b, key)}
  BY DEF Rerun
<1> HIDE DEF b, c
<1>4. AsksForIds(Started(k, b, key)) /\ AsksForIds(Idle)
  BY <1>2, StartedAsks, IdleFields DEF AsksForIds
<1>5. QED
  BY <1>1, <1>3, <1>4

\* A request that moves on is still for the same key.
LEMMA MoveAsks ==
  ASSUME NEW s, NEW r, NEW n, NEW k, DOMAIN s = LoaderFields,
         DOMAIN r = RequestFields, AsksForIds(s), r.key.of \subseteq Ids
  PROVE  /\ AsksForIds(TimerFires(s, r)) /\ AsksForIds(ServerReads(s, r, n))
         /\ AsksForIds(HeadersArrive(s, r))
         /\ AsksForIds(Answered(s, r)) /\ AsksForIds(Failed(k, s, r))
<1>1. ASSUME NEW x, x.key = r.key
      PROVE  DOMAIN Replaced(s, r, x) = LoaderFields /\ AsksForIds(Replaced(s, r, x))
  BY <1>1 DEF Replaced, LoaderFields, AsksForIds
<1>2. /\ [r EXCEPT !.stage = "sent"].key = r.key
      /\ [r EXCEPT !.stage = "body"].key = r.key
      /\ [r EXCEPT !.stage = "read", !.version = n].key = r.key
  BY DEF RequestFields
<1>3. AsksForIds(ServerReads(s, r, n)) /\ AsksForIds(HeadersArrive(s, r))
  BY <1>1, <1>2 DEF ServerReads, HeadersArrive
<1>4. AsksForIds(TimerFires(s, r))
  <2> DEFINE t == Replaced(s, r, [r EXCEPT !.stage = "sent"])
  <2>1. DOMAIN t = LoaderFields /\ AsksForIds(t)
    BY <1>1, <1>2
  <2>2. TimerFires(s, r) = [t EXCEPT !.loading = TRUE, !.failed = FALSE]
    BY DEF TimerFires
  <2> HIDE DEF t
  <2>3. QED
    BY <2>1, <2>2 DEF LoaderFields, AsksForIds
<1>5. AsksForIds(Answered(s, r)) /\ AsksForIds(Failed(k, s, r))
  BY DEF Answered, Failed, LoaderFields, AsksForIds
<1>6. QED
  BY <1>3, <1>4, <1>5

LEMMA EffectsAsk ==
  ASSUME PageInv', NEW base, NEW asked, Effects(base, asked),
         "submission" \in DOMAIN loads,
         DOMAIN base["submission"] = LoaderFields,
         AsksForIds(base["submission"]), asked["submission"].of \subseteq Ids
  PROVE  AsksForIds(loads'["submission"])
<1>1. PICK key \in {Loader("submission").key', asked["submission"]} :
        loads'["submission"] \in
          {base["submission"], Rerun(Loader("submission").traits,
                                     base["submission"], key)}
  BY DEF Effects
<1>2. key.of \subseteq Ids
  BY SubmissionKeyFits
<1>3. QED
  BY <1>1, <1>2, RerunAsks

----------------------------------------------------------------------------
(***************************************************************************)
(* The inductive invariant and its step.                                   *)
(***************************************************************************)
PagesInv ==
  /\ PageInv /\ VersionsOK /\ db <= MaxVersion
  /\ DOMAIN loads \subseteq LoaderNames
  /\ \A l \in DOMAIN loads : LoaderFits(loads[l], db)
  /\ SubmissionAlone

\* An answer changes the view only of the page of a submission.
LEMMA RequestKeepsPage ==
  ASSUME PagesInv, NEW l \in DOMAIN loads, NEW r \in loads[l].asked,
         RequestStep(l, r)
  PROVE  PageInv'
<1>1. PICK new, v, ls :
        /\ Settles(l, new, v, ls)
        /\ \/ v = view
           \/ /\ l = "submission"
              /\ \E of \in {r.key.of, {}} :
                   v \in {OverviewRead(view, of), OverviewFailed(view)}
  BY RequestStepShape
<1>2. l = "submission" => screen = "submission" /\ r.key.of \in SUBSET Ids
  BY DEF PagesInv, SubmissionAlone, AsksForIds
<1>3. ViewFits(screen, v) /\ CallsFit(screen, calls)
  BY <1>1, <1>2, SettlesFits DEF PagesInv, PageInv
<1>4. QED
  BY <1>1, <1>3 DEF Settles, PageInv

\* Only the handler of a cancellation asks as it was made, and only at home.
LEMMA AskedAtHome ==
  ASSUME PageInv, NEW w \in calls, AnswerStep(w), "submission" \in DOMAIN loads
  PROVE  \/ AskedBy(w)["submission"] = Loader("submission").key'
         \/ /\ screen = "submission"
            /\ AskedBy(w)["submission"].of \subseteq Ids
<1>1. CASE w.kind # "cancel"
  BY <1>1 DEF AskedBy
<1>2. CASE w.kind = "cancel"
  <2>1. ExecutionCancelled(w) \/ CancelRefused(w)
    BY <1>2 DEF AnswerStep, GoodAnswer, CoursePagesAnswer, AdminPagesAnswer,
         ResultPagesAnswer, CourseCreated, CourseCloned, CourseSaved,
         StatusChanged, StudentsAdded, StudentRemoved, StudentRestored,
         ProtocolSaved, ProtocolActedOn, StudentsExported, Preauthorized,
         AccessChanged, RoleChanged, Resolved, ItemArchived, NoteSaved,
         PinToggled, RecordArchived, ArchiveDownloaded, ReferencesRead,
         ComparisonExplained, Explained, CsvDownloaded, ArtifactDownloaded,
         PreviousFound, PreviousNone
  <2>2. w.mounted
    BY <2>1 DEF ExecutionCancelled, Succeeds, CancelRefused
  <2>3. screen = "submission"
    BY <1>2, <2>2, CallHome DEF AtHome
  <2>4. AskedBy(w)["submission"] = Key(w.of, "submission", "", 1)
    BY <1>2 DEF AskedBy
  <2>5. w.of \subseteq Ids
    BY <1>2 DEF PageInv, CallsFit, CallFits
  <2>6. AskedBy(w)["submission"].of = w.of
    <3>1. Key(w.of, "submission", "", 1).of = w.of
      BY DEF Key
    <3>2. QED
      BY <2>4, <3>1
  <2>7. QED
    BY <2>3, <2>5, <2>6
<1>3. QED
  BY <1>1, <1>2

LEMMA SubmissionStaysAlone ==
  ASSUME PagesInv, Next, PageInv'
  PROVE  SubmissionAlone'
<1>1. SUFFICES ASSUME "submission" \in DOMAIN loads
               PROVE  /\ screen' # "submission" => loads'["submission"].asked = {}
                      /\ AsksForIds(loads'["submission"])
  BY LoadersStay DEF PagesInv, SubmissionAlone, AsksForIds
<1>2. /\ screen # "submission" => loads["submission"].asked = {}
      /\ AsksForIds(loads["submission"]) /\ PageInv
      /\ LoaderFits(loads["submission"], db)
  BY <1>1 DEF PagesInv, SubmissionAlone
<1>3. DOMAIN loads["submission"] = LoaderFields
  BY <1>2 DEF LoaderFits
<1>4. /\ Wanted["submission"].of \subseteq Ids
      /\ screen' # "submission" => Wanted["submission"] = Off
  BY <1>1, SubmissionKeyFits DEF Wanted, Loader, SubmissionLoader, Effect
<1>5. CASE PageStep /\ Effects(loads, Wanted)
  BY <1>1, <1>2, <1>3, <1>4, <1>5, LeftAlone, EffectsAsk
<1>6. ASSUME NEW w \in calls, AnswerStep(w), Effects(Written(w), AskedBy(w))
      PROVE  /\ screen' # "submission" => loads'["submission"].asked = {}
             /\ AsksForIds(loads'["submission"])
  <2> DEFINE base == Written(w)
  <2>1. /\ DOMAIN base["submission"] = LoaderFields
        /\ base["submission"].asked = loads["submission"].asked
    BY <1>1, <1>3 DEF Written, Mixed, LoaderFields
  <2>2. AskedBy(w)["submission"].of \subseteq Ids
    BY <1>1, <1>2, <1>4, <1>6, AskedAtHome, WantedByAll
  <2>3. screen # "submission" /\ screen' # "submission"
          => AskedBy(w)["submission"] = Off
    BY <1>1, <1>2, <1>4, <1>6, AskedAtHome, WantedByAll
  <2>4. AsksForIds(base["submission"])
    BY <1>2, <2>1 DEF AsksForIds
  <2> HIDE DEF base
  <2>5. Effects(base, AskedBy(w))
    BY <1>6 DEF base
  <2>6. QED
    BY <1>1, <1>2, <2>1, <2>2, <2>3, <2>4, <2>5, LeftAlone, EffectsAsk
<1>7. ASSUME NEW l \in DOMAIN loads, NEW r \in loads[l].asked, RequestStep(l, r)
      PROVE  /\ screen' # "submission" => loads'["submission"].asked = {}
             /\ AsksForIds(loads'["submission"])
  <2>1. PICK new, v, ls :
          /\ Settles(l, new, v, ls)
          /\ new \in {TimerFires(loads[l], r), ServerReads(loads[l], r, db),
                     HeadersArrive(loads[l], r), Answered(loads[l], r),
                     Failed(Loader(l).traits, loads[l], r)}
    BY <1>7, RequestStepShape
  <2> DEFINE base == [loads EXCEPT ![l] = new]
  <2>2. Effects(base, Wanted) /\ screen' = screen
    BY <2>1 DEF Settles
  <2>3. LoaderFits(base["submission"], db) /\ AsksForIds(base["submission"])
    <3>1. CASE l # "submission"
      BY <1>1, <1>2, <3>1
    <3>2. CASE l = "submission"
      <4>1. RequestFits(r, db) /\ r.key.of \subseteq Ids
        BY <1>2, <1>7, <3>2 DEF LoaderFits, AsksForIds
      <4>2. LoaderFits(new, db)
        BY <1>2, <1>7, <2>1, <3>2, RequestMoveFits DEF PagesInv, VersionsOK
      <4>3. AsksForIds(new)
        <5>1. /\ DOMAIN loads[l] = LoaderFields /\ AsksForIds(loads[l])
              /\ DOMAIN r = RequestFields
          BY <1>2, <1>3, <3>2, <4>1 DEF RequestFits
        <5>2. QED
          BY <2>1, <4>1, <5>1, MoveAsks
      <4>4. QED
        BY <1>1, <3>2, <4>2, <4>3
    <3>3. QED
      BY <3>1, <3>2
  <2>4. screen # "submission" => base["submission"].asked = {}
    BY <1>2, <1>7
  <2>5. DOMAIN base["submission"] = LoaderFields
    BY <2>3 DEF LoaderFits
  <2> HIDE DEF base
  <2>6. QED
    BY <1>1, <1>4, <2>2, <2>3, <2>4, <2>5, LeftAlone, EffectsAsk
<1>8. QED
  BY <1>5, <1>6, <1>7 DEF Next

LEMMA DatabaseBounded ==
  ASSUME PagesInv, Next
  PROVE  db' \in Nat /\ db <= db' /\ db' <= MaxVersion
<1>1. CallsOK /\ db \in Nat /\ db <= MaxVersion
  BY DEF PagesInv, VersionsOK
<1>2. CASE Quiet \/ Told
  BY <1>1, <1>2 DEF Quiet, Told
<1>3. CASE CarriedOut
  <2>1. db' = db \/ (db < MaxVersion /\ db' = db + 1)
    BY <1>3 DEF CarriedOut, CarryOut
  <2>2. QED
    BY <1>1, <2>1, BoundsAssumption
<1>4. QED
  BY <1>1, <1>2, <1>3, StepShape

LEMMA LoadersFit ==
  ASSUME PagesInv, Next
  PROVE  \A l \in DOMAIN loads : LoaderFits(loads'[l], db')
<1>1. /\ db \in Nat /\ db' \in Nat /\ db <= db'
      /\ \A l \in DOMAIN loads : LoaderFits(loads[l], db)
  BY DatabaseBounded DEF PagesInv, VersionsOK
<1>2. CASE PageStep /\ Effects(loads, Wanted)
  <2>1. \A l \in DOMAIN loads : LoaderFits(loads[l], db')
    BY <1>1, OlderFits
  <2>2. QED
    BY <1>1, <1>2, <2>1, EffectsFit
<1>3. ASSUME NEW l \in DOMAIN loads, NEW r \in loads[l].asked, RequestStep(l, r)
      PROVE  \A m \in DOMAIN loads : LoaderFits(loads'[m], db')
  BY <1>1, <1>3, RequestStepFits
<1>4. ASSUME NEW w \in calls, AnswerStep(w), Effects(Written(w), AskedBy(w))
      PROVE  \A l \in DOMAIN loads : LoaderFits(loads'[l], db')
  <2>1. w.version \in 0..db'
    BY <1>1 DEF PagesInv, VersionsOK
  <2>2. \A l \in DOMAIN loads : LoaderFits(Written(w)[l], db')
    BY <1>1, <2>1, OlderFits, WrittenFits
  <2>3. QED
    BY <1>1, <1>4, <2>2, EffectsFit
<1>5. QED
  BY <1>2, <1>3, <1>4 DEF Next

LEMMA PagesStep ==
  ASSUME PagesInv, [Next]_pageVars
  PROVE  PagesInv'
<1>1. CASE Next
  <2>1. PageInv'
    BY <1>1, PageStepFits, AnswerStepFits, RequestKeepsPage DEF Next, PagesInv
  <2>2. DOMAIN loads' = DOMAIN loads
    BY LoadersStay DEF PagesInv
  <2>3. VersionsOK'
    BY <1>1, <2>2, VersionsStep DEF PagesInv
  <2>4. SubmissionAlone'
    BY <1>1, <2>1, SubmissionStaysAlone
  <2>5. QED
    BY <1>1, <2>1, <2>2, <2>3, <2>4, DatabaseBounded, LoadersFit DEF PagesInv
<1>2. CASE UNCHANGED pageVars
  <2>1. PageInv' /\ VersionsOK' /\ SubmissionAlone'
    BY <1>2 DEF PagesInv, pageVars, PageInv, VersionsOK, CallsOK,
               SubmissionAlone, AsksForIds
  <2>2. QED
    BY <1>2, <2>1 DEF PagesInv, pageVars
<1>3. QED
  BY <1>1, <1>2

LEMMA PagesInit ==
  ASSUME Init
  PROVE  PagesInv
<1>1. /\ screen = "elsewhere" /\ view = Plain /\ calls = {} /\ db = 0
      /\ \A l \in DOMAIN loads : loads[l] = Idle
      /\ DOMAIN loads \subseteq LoaderNames
  BY DEF Init, Watching
<1>2. CallsFit(screen, calls)
  BY <1>1, FS_EmptySet, BoundsAssumption DEF CallsFit
<1>3. ViewFits(screen, view)
  BY <1>1 DEF ViewFits
<1>4. VersionsOK
  BY ReadsInit DEF ReadsInv
<1>5. \A l \in DOMAIN loads : LoaderFits(loads[l], db)
  BY <1>1, IdleFits
<1>6. SubmissionAlone
  BY <1>1, IdleFields DEF SubmissionAlone, AsksForIds
<1>7. QED
  BY <1>1, <1>2, <1>3, <1>4, <1>5, <1>6, BoundsAssumption DEF PagesInv, PageInv

LEMMA FittingViews ==
  ASSUME ViewFits(screen, view)
  PROVE  ViewOK
<1>1. CASE screen \in {"elsewhere", "courses", "course", "student", "status"}
  BY <1>1 DEF ViewFits, ViewOK, CoursesViews
<1>2. CASE screen \in {"users", "user", "requests", "audit"}
  BY <1>2 DEF ViewFits, ViewOK, UsersViews
<1>3. CASE screen \in {"history", "submission", "comparison", "result"}
  BY <1>3 DEF ViewFits, ViewOK, HistoryFits
<1>4. QED
  BY <1>1, <1>2, <1>3 DEF ViewFits

\* PagesTypeOK, whatever is clicked, opened or answered and in whichever order:
\* a page never shows the state of another one, a comparison always has two to
\* four executions, the range of a result is never the wrong way round, and no
\* more is under way than the bounds allow.
THEOREM PagesKeepTheirTypes == Spec => []PagesTypeOK
<1>1. Init => PagesInv
  BY PagesInit
<1>2. PagesInv /\ [Next]_pageVars => PagesInv'
  BY PagesStep
<1>3. ASSUME PagesInv
      PROVE  PagesTypeOK
  <2>1. ViewOK /\ Cardinality(calls) <= MaxCalls
    BY <1>3, FittingViews DEF PagesInv, PageInv, CallsFit
  <2>2. \A w \in calls : w.version <= db /\ (w.version > 0 => w.done)
    BY <1>3 DEF PagesInv, PageInv, CallsFit, CallFits, VersionsOK
  <2>3. /\ DOMAIN loads \subseteq LoaderNames /\ DOMAIN ack = DOMAIN loads
        /\ db <= MaxVersion
    BY <1>3 DEF PagesInv, VersionsOK
  <2>4. \A l \in DOMAIN loads :
          /\ loads[l].shown.version <= db /\ ack[l] <= db
          /\ \A r \in loads[l].asked :
               /\ Asks(r.key) /\ r.version <= db
               /\ r.stage \in {"timer", "sent", "read", "body"}
    BY <1>3 DEF PagesInv, LoaderFits, RequestFits, VersionsOK
  <2>5. QED
    BY <2>1, <2>2, <2>3, <2>4 DEF PagesTypeOK
<1>4. QED
  BY <1>1, <1>2, <1>3, PTL DEF Spec

=============================================================================
