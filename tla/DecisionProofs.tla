--------------------------- MODULE DecisionProofs ---------------------------
(***************************************************************************)
(* A confirmed decision stays on screen: what the pages of the client do   *)
(* with their dialog while its own request is under way, for any ids,      *)
(* roles and bounds and any order of the answers.                          *)
(***************************************************************************)
EXTENDS PageTypes

\* The page that asks for a decision.
PageOf(kind) ==
  CASE kind \in {"status", "clone", "remove"} -> "course"
    [] kind \in {"access", "role"}            -> "user"
    [] kind \in {"approve", "reject"}         -> "requests"
DialogPages == {"course", "user", "requests"}

HasDialog(v) ==
  "dialog" \in DOMAIN v /\ \E kind, target : v.dialog = Dialog(kind, target)

Decisions(cs) == {w \in cs : w.mounted /\ w.kind \in DecisionKinds}

\* Turned to another user, that page has closed the dialog of the first one.
DialogInv ==
  /\ CallsOK
  /\ screen \in DialogPages => HasDialog(view)
  /\ \A w \in Decisions(calls) :
       /\ screen = PageOf(w.kind)
       /\ screen = "user" \/ view.dialog = Dialog(w.kind, w.target)
       /\ \A x \in Decisions(calls) : x.kind = w.kind => x = w

----------------------------------------------------------------------------
(***************************************************************************)
(* What a step does to the dialog and to the decisions under way.          *)
(***************************************************************************)
\* The page stays, with its dialog; no decision is new.
DialogKept ==
  /\ screen' = screen
  /\ screen \in DialogPages =>
       HasDialog(view') /\ view'.dialog = view.dialog
  /\ CallsOK' /\ Decisions(calls') \subseteq Decisions(calls)

\* The page stays; its dialog, if any, waits for no answer, or the page is
\* turned to another user.
DialogFree ==
  /\ screen' = screen /\ calls' = calls
  /\ screen \in DialogPages => HasDialog(view')
  /\ screen = "user" \/ Decisions(calls) = {}
  /\ \/ view.dialog.kind \notin DecisionKinds \/ ~DialogBusy
     \/ TurnedToAnother

\* The dialog is confirmed.
Confirmed ==
  /\ screen' = screen /\ view' = view /\ screen = PageOf(view.dialog.kind)
  /\ view.dialog.kind \in DecisionKinds /\ ~DialogBusy
  /\ calls' = calls \cup {Call(view.dialog.kind, view.dialog.target)}

\* Its answer closes the dialog, but none of another kind.
Decided ==
  \E w \in Decisions(calls) :
    /\ screen' = screen /\ calls' = calls \ {w}
    /\ screen \in DialogPages => HasDialog(view')
    /\ view.dialog.kind # w.kind => view'.dialog = view.dialog

\* The server carries out a call.
Progress ==
  /\ UNCHANGED <<screen, view>>
  /\ \E w \in calls : CarryOut(w)

\* Another page is mounted, or the same one without its calls.
PageGone ==
  /\ CallsOK' /\ Decisions(calls') = {}
  /\ screen' \in DialogPages => HasDialog(view')

DialogStep ==
  DialogKept \/ DialogFree \/ Confirmed \/ Decided \/ Progress \/ PageGone

LEMMA DialogFields ==
  ASSUME NEW kind, NEW target
  PROVE  Dialog(kind, target).kind = kind /\ Dialog(kind, target).target = target
BY DEF Dialog

LEMMA DialogStepInv ==
  ASSUME DialogInv, DialogStep
  PROVE  DialogInv'
<1>1. CASE DialogKept
  BY <1>1 DEF DialogKept, DialogInv, DialogPages, Decisions, PageOf, DecisionKinds
<1>2. CASE DialogFree
  BY <1>2 DEF DialogFree, DialogInv, CallsOK, Decisions, DialogPages
<1>3. CASE Confirmed
  <2> DEFINE w == Call(view.dialog.kind, view.dialog.target)
  <2>1. /\ DOMAIN w = CallFields /\ w.mounted
        /\ w.kind = view.dialog.kind /\ w.target = view.dialog.target
    BY DEF Call, CallFields
  <2>2. calls' = calls \cup {w}
    BY <1>3 DEF Confirmed
  <2> HIDE DEF w
  <2>3. CallsOK'
    BY <2>1, <2>2 DEF DialogInv, CallsOK
  <2>4. \A x \in Decisions(calls) : x.kind # view.dialog.kind
    BY <1>3 DEF Confirmed, DialogBusy, InFlight, Decisions
  <2>5. Decisions(calls') = Decisions(calls) \cup {w}
    BY <1>3, <2>1, <2>2 DEF Decisions, Confirmed
  <2>6. screen = "user" \/ Decisions(calls) = {}
    BY <2>4, DialogFields DEF DialogInv
  <2>7. screen = "user" \/ view.dialog = Dialog(w.kind, w.target)
    <3>1. screen \in DialogPages
      BY <1>3 DEF Confirmed, PageOf, DecisionKinds, DialogPages
    <3>2. PICK kind, target : view.dialog = Dialog(kind, target)
      BY <3>1 DEF DialogInv, HasDialog
    <3>3. QED
      BY <2>1, <3>2, DialogFields
  <2>8. QED
    <3>1. screen' = screen /\ view' = view /\ screen = PageOf(w.kind)
      BY <1>3, <2>1 DEF Confirmed
    <3>2. HasDialog(view) <=> HasDialog(view)'
      BY <3>1 DEF HasDialog
    <3>3. \A x \in Decisions(calls) : x.kind # w.kind
      BY <2>1, <2>4
    <3>4. QED
      BY <2>3, <2>5, <2>6, <2>7, <3>1, <3>2, <3>3 DEF DialogInv
<1>4. CASE Decided
  <2>1. PICK w \in Decisions(calls) :
          /\ screen' = screen /\ calls' = calls \ {w}
          /\ screen \in DialogPages => HasDialog(view')
    BY <1>4 DEF Decided
  <2>2. Decisions(calls') = Decisions(calls) \ {w}
    BY <2>1 DEF Decisions
  <2>3. \A x \in Decisions(calls') : screen = "user"
    <3> SUFFICES ASSUME NEW x \in Decisions(calls), x # w, screen # "user"
                 PROVE  FALSE
      BY <2>2
    <3>1. Dialog(x.kind, x.target) = Dialog(w.kind, w.target)
      BY DEF DialogInv
    <3>2. x.kind = w.kind
      BY <3>1, DialogFields
    <3>3. QED
      BY <3>2 DEF DialogInv
  <2>4. QED
    BY <2>1, <2>2, <2>3 DEF DialogInv, CallsOK, HasDialog
<1>5. CASE Progress
  <2>1. PICK w \in calls : CarryOut(w)
    BY <1>5 DEF Progress
  <2> DEFINE v == [w EXCEPT !.done = TRUE,
                            !.version = IF w.kind \in Reads THEN 0 ELSE db + 1]
  <2>2. calls' = (calls \ {w}) \cup {v}
    BY <2>1 DEF CarryOut
  <2>3. DOMAIN w = CallFields
    BY DEF DialogInv, CallsOK
  <2>4. /\ DOMAIN v = CallFields /\ v.mounted = w.mounted
        /\ v.kind = w.kind /\ v.target = w.target
    BY <2>3 DEF CallFields
  <2> HIDE DEF v
  <2>5. CallsOK'
    BY <2>2, <2>4 DEF DialogInv, CallsOK
  <2>6. Decisions(calls') = IF w \in Decisions(calls)
                            THEN (Decisions(calls) \ {w}) \cup {v}
                            ELSE Decisions(calls)
    BY <2>2, <2>4 DEF Decisions
  <2>7. screen' = screen /\ view' = view
    BY <1>5 DEF Progress
  <2>8. QED
    BY <2>4, <2>5, <2>6, <2>7 DEF DialogInv
<1>6. CASE PageGone
  BY <1>6 DEF PageGone, DialogInv
<1>7. QED
  BY <1>1, <1>2, <1>3, <1>4, <1>5, <1>6 DEF DialogStep

----------------------------------------------------------------------------
(***************************************************************************)
(* Every step of the pages is one of these.                                *)
(***************************************************************************)
LEMMA SetKeeps ==
  ASSUME DialogInv, NEW v, NEW ls, SetAndReload(v, ls),
         screen \in DialogPages => HasDialog(v) /\ v.dialog = view.dialog
  PROVE  DialogKept
BY DEF SetAndReload, DialogKept, Decisions, DialogInv, CallsOK

LEMMA SendKeeps ==
  ASSUME DialogInv, NEW v, NEW kind, NEW target, SetAndSend(v, kind, target),
         kind \notin DecisionKinds,
         screen \in DialogPages => HasDialog(v) /\ v.dialog = view.dialog
  PROVE  DialogKept
<1> DEFINE w == Call(kind, target)
<1>1. DOMAIN w = CallFields /\ w.kind = kind
  BY DEF Call, CallFields
<1>2. calls' = calls \cup {w} /\ screen' = screen /\ view' = v
  BY DEF SetAndSend
<1> HIDE DEF w
<1>3. CallsOK' /\ Decisions(calls') \subseteq Decisions(calls)
  BY <1>1, <1>2 DEF DialogInv, CallsOK, Decisions
<1>4. QED
  BY <1>2, <1>3 DEF DialogKept

LEMMA ConfirmedSend ==
  ASSUME DialogInv, NEW kind \in DecisionKinds, screen = PageOf(kind),
         ConfirmHeeded(kind), Send(kind, view.dialog.target)
  PROVE  Confirmed
BY DEF ConfirmHeeded, Send, SetAndSend, Confirmed

\* Nothing is asked for a decision while one is under way.
LEMMA ClosedIsFree ==
  ASSUME DialogInv, view.dialog = Closed
  PROVE  screen = "user" \/ Decisions(calls) = {}
<1> SUFFICES ASSUME NEW w \in Decisions(calls), screen # "user"
             PROVE  FALSE
  OBVIOUS
<1>1. Dialog(w.kind, w.target) = Closed
  BY DEF DialogInv
<1>2. w.kind = "closed"
  BY <1>1, DialogFields DEF Closed
<1>3. QED
  BY <1>2 DEF Decisions, DecisionKinds

LEMMA IdleIsFree ==
  ASSUME DialogInv, ~DialogBusy
  PROVE  screen = "user" \/ Decisions(calls) = {}
<1> SUFFICES ASSUME NEW w \in Decisions(calls), screen # "user"
             PROVE  FALSE
  OBVIOUS
<1>1. view.dialog = Dialog(w.kind, w.target)
  BY DEF DialogInv
<1>2. view.dialog.kind = w.kind
  BY <1>1, DialogFields
<1>3. QED
  BY <1>2 DEF DialogBusy, InFlight, Decisions

LEMMA OpensDialog ==
  ASSUME DialogInv, screen \in DialogPages, view.dialog = Closed,
         NEW kind, NEW target, Set([view EXCEPT !.dialog = Dialog(kind, target)])
  PROVE  DialogFree
<1>1. view.dialog.kind \notin DecisionKinds
  BY DEF Closed, DecisionKinds
<1>2. QED
  BY <1>1, ClosedIsFree DEF Set, SetAndReload, DialogFree, DialogInv, HasDialog

LEMMA CancelsDialog ==
  ASSUME DialogInv, screen \in DialogPages, CancelDialog
  PROVE  DialogFree
BY IdleIsFree
   DEF CancelDialog, EscapeHeeded, Set, SetAndReload, DialogFree, DialogInv,
       HasDialog, Closed, Dialog

LEMMA CallsGone ==
  ASSUME DialogInv, screen' \in DialogPages => HasDialog(view'),
         calls' = Abandoned(calls)
  PROVE  PageGone
<1>1. ASSUME NEW w \in calls
      PROVE  LET x == [w EXCEPT !.mounted = FALSE]
             IN  DOMAIN x = CallFields /\ ~x.mounted
  BY DEF DialogInv, CallsOK, CallFields
<1>2. QED
  BY <1>1 DEF PageGone, CallsOK, Abandoned, Decisions

----------------------------------------------------------------------------
(***************************************************************************)
(* The controls of the course page.                                        *)
(***************************************************************************)
\* What a control may do to the view of a page with a dialog.
SameDialog(v) == HasDialog(v) /\ v.dialog = view.dialog

LEMMA FieldsKeepDialog ==
  ASSUME HasDialog(view), NEW x, NEW y
  PROVE  /\ SameDialog(view)
         /\ SameDialog([view EXCEPT !.editing = x])
         /\ SameDialog([view EXCEPT !.showAdd = x])
         /\ SameDialog([view EXCEPT !.page = x])
         /\ SameDialog([view EXCEPT !.protocolForm = x])
         /\ SameDialog([view EXCEPT !.actionId = x])
         /\ SameDialog([view EXCEPT !.execution = x])
         /\ SameDialog([view EXCEPT !.list = x])
         /\ SameDialog([view EXCEPT !.tab = x, !.list = y])
         /\ SameDialog([view EXCEPT !.id = x])
BY DEF SameDialog, HasDialog

LEMMA RosterKeepsDialog ==
  ASSUME HasDialog(view), NEW x, NEW y, NEW z
  PROVE  /\ SameDialog(FirstPage([view EXCEPT !.membership = x, !.search = y,
                                             !.attention = z]))
         /\ SameDialog(FirstPage([view EXCEPT !.membership = x, !.attention = y]))
         /\ SameDialog(FirstPage([view EXCEPT !.attention = x, !.membership = y]))
         /\ SameDialog(FirstPage([view EXCEPT !.search = x]))
BY DEF SameDialog, HasDialog, FirstPage

LEMMA SetSame ==
  ASSUME DialogInv, NEW v, Set(v), SameDialog(v)
  PROVE  DialogStep
BY SetKeeps DEF Set, SameDialog, DialogStep

LEMMA CourseDialog ==
  ASSUME DialogInv, CourseNext
  PROVE  DialogStep
<1>1. screen = "course" /\ screen \in DialogPages /\ HasDialog(view)
  BY DEF CourseNext, DialogInv, DialogPages
<1>2. CASE RetryCourse \/ ToggleEdit
  BY <1>1, <1>2, SetKeeps, FieldsKeepDialog
     DEF RetryCourse, ToggleEdit, Set, SameDialog, DialogStep
<1>3. CASE ExportStudentsCsv \/ SaveCourse
  BY <1>1, <1>3, SendKeeps, FieldsKeepDialog
     DEF ExportStudentsCsv, SaveCourse, Send, SameDialog, DialogStep,
         DecisionKinds
<1>4. CASE \/ OpenCourseStatusDecision \/ OpenCloneCourse
           \/ \E s \in Ids : OpenRemoval(s)
  BY <1>1, <1>4, OpensDialog
     DEF OpenCourseStatusDecision, OpenCloneCourse, OpenRemoval, StatusOffered,
         RowOffered, HeaderOffered, DialogStep
<1>5. CASE ConfirmCourseStatus \/ CloneCourse \/ ConfirmRemoveStudent
  BY <1>1, <1>5, ConfirmedSend
     DEF ConfirmCourseStatus, CloneCourse, ConfirmRemoveStudent, DialogStep,
         DecisionKinds, PageOf
<1>6. CASE CancelDialog
  BY <1>1, <1>6, CancelsDialog DEF DialogStep
<1>7. CASE \/ AttentionOffered /\ ShowAttentionStudents
           \/ \E m \in {"active", "inactive", "all"} : ShowMembership(m)
           \/ \E text \in Searches : SearchStudents(text)
           \/ \E a \in {"all", "some"} : FilterAttention(a)
  <2>1. CASE ShowAttentionStudents
    BY <1>1, <2>1, SetSame, RosterKeepsDialog DEF ShowAttentionStudents
  <2>2. ASSUME NEW m, ShowMembership(m)
        PROVE  DialogStep
    BY <1>1, <2>2, SetSame, RosterKeepsDialog DEF ShowMembership
  <2>3. ASSUME NEW text, SearchStudents(text)
        PROVE  DialogStep
    BY <1>1, <2>3, SetSame, RosterKeepsDialog DEF SearchStudents
  <2>4. ASSUME NEW a, FilterAttention(a)
        PROVE  DialogStep
    BY <1>1, <2>4, SetSame, RosterKeepsDialog DEF FilterAttention
  <2>5. QED
    BY <1>7, <2>1, <2>2, <2>3, <2>4
<1>8. CASE RetryAttention \/ ToggleAdd \/ \E n \in 1..LastPage : TurnRoster(n)
  BY <1>1, <1>8, SetKeeps, FieldsKeepDialog
     DEF RetryAttention, ToggleAdd, TurnRoster, Set, SameDialog, DialogStep
<1>9. CASE AddStudents \/ \E s \in Ids : RestoreStudent(s)
  BY <1>1, <1>9, SendKeeps, FieldsKeepDialog
     DEF AddStudents, RestoreStudent, Send, SameDialog, DialogStep,
         DecisionKinds
<1>10. CASE \/ RetryAnalytics \/ RetryProtocols \/ OpenCreate \/ CloseForm
            \/ \E p \in Ids : OpenEdit(p)
  BY <1>1, <1>10, SetKeeps, FieldsKeepDialog
     DEF RetryAnalytics, RetryProtocols, OpenCreate, CloseForm, OpenEdit, Set,
         SameDialog, DialogStep
<1>11. CASE SaveProtocol \/ \E p \in Ids : RunAction(p)
  BY <1>1, <1>11, SendKeeps, FieldsKeepDialog
     DEF SaveProtocol, RunAction, Send, SameDialog, DialogStep, DecisionKinds
<1>12. QED
  BY <1>2, <1>3, <1>4, <1>5, <1>6, <1>7, <1>8, <1>9, <1>10, <1>11
     DEF CourseNext, RosterNext, ProtocolsNext

----------------------------------------------------------------------------
(***************************************************************************)
(* The controls of the other pages with a dialog.                          *)
(***************************************************************************)
LEMMA ListsKeepDialog ==
  ASSUME HasDialog(view), NEW x
  PROVE  /\ SameDialog([view EXCEPT !.list.page = x])
         /\ SameDialog([view EXCEPT !.status = x, !.list.page = 1])
BY DEF SameDialog, HasDialog

LEMMA UserDialog ==
  ASSUME DialogInv, UserNext
  PROVE  DialogStep
<1>1. screen = "user" /\ screen \in DialogPages /\ HasDialog(view)
  BY DEF UserNext, DialogInv, DialogPages
<1>2. CASE RetryUser \/ RetryTab
  BY <1>1, <1>2, SetKeeps DEF RetryUser, RetryTab, DialogStep
<1>3. CASE \/ CloseUserExecution
           \/ \E tab \in {"executions", "submissions", "audit"} :
                ShowUserTab(tab)
           \/ \E text \in Searches : FilterTab(text)
           \/ \E e \in Ids : OpenUserExecution(e)
  <2>1. CASE CloseUserExecution
    BY <1>1, <2>1, SetSame, FieldsKeepDialog DEF CloseUserExecution
  <2>2. ASSUME NEW tab, ShowUserTab(tab)
        PROVE  DialogStep
    BY <1>1, <2>2, SetSame, FieldsKeepDialog DEF ShowUserTab
  <2>3. ASSUME NEW text, FilterTab(text)
        PROVE  DialogStep
    BY <1>1, <2>3, SetSame, FieldsKeepDialog DEF FilterTab
  <2>4. ASSUME NEW e, OpenUserExecution(e)
        PROVE  DialogStep
    BY <1>1, <2>4, SetSame, FieldsKeepDialog DEF OpenUserExecution
  <2>5. QED
    BY <1>3, <2>1, <2>2, <2>3, <2>4
<1>4. ASSUME NEW n, NEW l, TurnedTab(l, n)
      PROVE  DialogStep
  BY <1>1, <1>4, SetSame, ListsKeepDialog DEF TurnedTab, Turned
<1>5. CASE OpenAccessDecision \/ OpenRoleDecision
  BY <1>1, <1>5, OpensDialog
     DEF OpenAccessDecision, OpenRoleDecision, UserOnScreen, DialogStep
<1>6. CASE ConfirmAccessChange \/ ConfirmRoleChange
  BY <1>1, <1>6, ConfirmedSend
     DEF ConfirmAccessChange, ConfirmRoleChange, DialogStep, DecisionKinds,
         PageOf
<1>7. CASE CancelDialog
  BY <1>1, <1>7, CancelsDialog DEF DialogStep
<1>8. QED
  BY <1>2, <1>3, <1>4, <1>5, <1>6, <1>7 DEF UserNext

LEMMA RequestsDialog ==
  ASSUME DialogInv, RequestsNext
  PROVE  DialogStep
<1>1. screen = "requests" /\ screen \in DialogPages /\ HasDialog(view)
  BY DEF RequestsNext, DialogInv, DialogPages
<1>2. CASE RetryRequests
  BY <1>1, <1>2, SetKeeps DEF RetryRequests, DialogStep
<1>3. ASSUME NEW s, ShowStatus(s)
      PROVE  DialogStep
  BY <1>1, <1>3, SetSame, ListsKeepDialog DEF ShowStatus
<1>4. ASSUME NEW text, SearchRequests(text)
      PROVE  DialogStep
  BY <1>1, <1>4, SetSame, FieldsKeepDialog DEF SearchRequests
<1>5. ASSUME NEW n, TurnRequests(n)
      PROVE  DialogStep
  BY <1>1, <1>5, SetSame, ListsKeepDialog DEF TurnRequests, Turned
<1>6. ASSUME NEW r, NEW m, OpenDecision(r, m)
      PROVE  DialogStep
  BY <1>1, <1>6, OpensDialog DEF OpenDecision, DialogStep
<1>7. CASE ResolveDecision
  <2>1. PICK m \in {"approve", "reject"} : ConfirmHeeded(m)
    BY <1>7 DEF ResolveDecision, ResolveOffered
  <2>2. m \in DecisionKinds /\ screen = PageOf(m)
    BY <1>1 DEF DecisionKinds, PageOf
  <2>3. Send(m, view.dialog.target)
    BY <1>7, <2>1 DEF ResolveDecision, ConfirmHeeded
  <2>4. QED
    BY <2>1, <2>2, <2>3, ConfirmedSend DEF DialogStep
<1>8. CASE CancelDialog
  BY <1>1, <1>8, CancelsDialog DEF DialogStep
<1>9. QED
  BY <1>2, <1>3, <1>4, <1>5, <1>6, <1>7, <1>8 DEF RequestsNext

----------------------------------------------------------------------------
(***************************************************************************)
(* The pages without a dialog: none of their calls is a decision.          *)
(***************************************************************************)
LEMMA NoDecisions ==
  ASSUME DialogInv, screen \notin DialogPages
  PROVE  Decisions(calls) = {}
BY DEF DialogInv, DialogPages, PageOf, Decisions, DecisionKinds

LEMMA SetElsewhere ==
  ASSUME DialogInv, screen \notin DialogPages, NEW v, Set(v)
  PROVE  DialogStep
BY SetKeeps DEF Set, DialogStep

LEMMA ReloadElsewhere ==
  ASSUME DialogInv, screen \notin DialogPages, NEW v, NEW ls,
         SetAndReload(v, ls)
  PROVE  DialogStep
BY SetKeeps DEF DialogStep

LEMMA SendElsewhere ==
  ASSUME DialogInv, screen \notin DialogPages, NEW v, NEW kind, NEW target,
         SetAndSend(v, kind, target), kind \notin DecisionKinds
  PROVE  DialogStep
BY SendKeeps DEF DialogStep

LEMMA SendOnlyElsewhere ==
  ASSUME DialogInv, screen \notin DialogPages, NEW kind, NEW target,
         Send(kind, target), kind \notin DecisionKinds
  PROVE  DialogStep
BY SendElsewhere DEF Send

\* Another page, or one without a dialog that keeps its own calls.
LEMMA MountsGone ==
  ASSUME DialogInv, NEW s, NEW v, Mounts(s, v),
         s \in DialogPages => HasDialog(v)
  PROVE  DialogStep
BY CallsGone DEF Mounts, DialogStep

LEMMA AbandonedHasNone ==
  ASSUME NEW cs, Known(cs)
  PROVE  Decisions(Abandoned(cs)) = {}
<1> SUFFICES ASSUME NEW x \in cs
             PROVE  ~[x EXCEPT !.mounted = FALSE].mounted
  BY DEF Decisions, Abandoned
<1>1. DOMAIN x = CallFields
  BY DEF Known
<1>2. QED
  BY <1>1 DEF CallFields

LEMMA NavigatesPlain ==
  ASSUME DialogInv, NEW s, s \notin DialogPages, NEW fresh, NEW kept, NEW cs,
         Known(cs), Decisions(cs) \subseteq Decisions(calls),
         Navigates(s, fresh, kept, cs)
  PROVE  DialogStep
<1>1. CASE screen = s
  <2>1. calls' = cs /\ screen' = s /\ Decisions(cs) = {}
    BY <1>1, NoDecisions DEF Navigates
  <2>2. QED
    BY <2>1 DEF PageGone, DialogStep, CallsOK, Known
<1>2. CASE screen # s
  <2>1. calls' = Abandoned(cs) /\ screen' = s
    BY <1>2 DEF Navigates
  <2>2. Known(Abandoned(cs)) /\ Decisions(Abandoned(cs)) = {}
    BY KnownAbandoned, AbandonedHasNone
  <2>3. QED
    BY <2>1, <2>2 DEF PageGone, DialogStep, CallsOK, Known
<1>3. QED
  BY <1>1, <1>2

\* The course page keeps its dialog when only its id changes.
LEMMA NavigatesKept ==
  ASSUME DialogInv, NEW s \in DialogPages, NEW fresh, NEW kept,
         NEW cs \in SUBSET calls, Navigates(s, fresh, kept, cs),
         HasDialog(fresh), screen = s => SameDialog(kept)
  PROVE  DialogStep
<1>1. CASE screen = s
  BY <1>1
     DEF Navigates, DialogKept, DialogStep, SameDialog, CallsOK, DialogInv,
         Decisions
<1>2. CASE screen # s
  <2>1. Known(cs)
    BY KnownSubset DEF DialogInv
  <2>2. calls' = Abandoned(cs) /\ screen' = s /\ view' = fresh
    BY <1>2 DEF Navigates
  <2>3. Known(Abandoned(cs)) /\ Decisions(Abandoned(cs)) = {}
    BY <2>1, KnownAbandoned, AbandonedHasNone
  <2>4. QED
    BY <2>2, <2>3 DEF PageGone, DialogStep, CallsOK, Known
<1>3. QED
  BY <1>1, <1>2

LEMMA DisownedHasNoMore ==
  ASSUME NEW cs \in SUBSET calls, NEW kind, CallsOK
  PROVE  /\ Known(Disowned(kind, cs))
         /\ Decisions(Disowned(kind, cs)) \subseteq Decisions(calls)
<1>1. Known(cs)
  BY KnownSubset
<1>2. ASSUME NEW w \in Disowned(kind, cs), w.mounted
      PROVE  w \in calls
  <2>1. PICK x \in cs : w \in {x, [x EXCEPT !.mounted = FALSE]}
    BY <1>2 DEF Disowned
  <2>2. DOMAIN x = CallFields
    BY DEF CallsOK
  <2>3. QED
    BY <1>2, <2>1, <2>2 DEF CallFields
<1>3. QED
  BY <1>1, <1>2, KnownDisowned DEF Decisions

LEMMA ComparesGone ==
  ASSUME DialogInv, NEW q, Compares(q)
  PROVE  DialogStep
<1>1. /\ Known(Disowned("ai", calls))
      /\ Decisions(Disowned("ai", calls)) \subseteq Decisions(calls)
  BY DisownedHasNoMore DEF DialogInv
<1>2. "comparison" \notin DialogPages
  BY DEF DialogPages
<1>3. QED
  BY <1>1, <1>2, NavigatesPlain DEF Compares

LEMMA TeacherElsewhere ==
  ASSUME DialogInv, CoursesNext \/ StudentNext
  PROVE  DialogStep
<1>1. CASE CoursesNext
  <2>1. screen \notin DialogPages
    BY <1>1 DEF CoursesNext, DialogPages
  <2>2. QED
    BY <1>1, <2>1, SetElsewhere, ReloadElsewhere, SendOnlyElsewhere
       DEF CoursesNext, ToggleCreate, CreateFromEmpty, CreateCourse,
           ShowCourses, SearchCourses, RetryCourseList, DecisionKinds
<1>2. CASE StudentNext
  <2>1. screen \notin DialogPages
    BY <1>2 DEF StudentNext, DialogPages
  <2>2. QED
    BY <1>2, <2>1, SetElsewhere, ReloadElsewhere
       DEF StudentNext, RetryProfile, CloseExecution, ShowTab, FilterList,
           TurnList, OpenExecution
<1>3. QED
  BY <1>1, <1>2

LEMMA AdminElsewhere ==
  ASSUME DialogInv, UsersNext \/ AuditNext \/ StatusNext
  PROVE  DialogStep
<1>1. screen \notin DialogPages
  BY DEF UsersNext, AuditNext, StatusNext, DialogPages
<1>2. CASE UsersNext
  BY <1>1, <1>2, SetElsewhere, ReloadElsewhere, SendOnlyElsewhere
     DEF UsersNext, FilterUsers, ClearUserFilters, RetryUsers, TurnUsers,
         Turned, TogglePreauthorization, Preauthorize, DecisionKinds
<1>3. CASE AuditNext \/ StatusNext
  BY <1>1, <1>3, SetElsewhere, ReloadElsewhere
     DEF AuditNext, FilterAudit, ClearAuditFilters, RetryAudit, TurnAudit,
         Turned, StatusNext, RefreshStatus
<1>4. QED
  BY <1>2, <1>3

LEMMA ResultsElsewhere ==
  ASSUME DialogInv, ResultPagesNext
  PROVE  DialogStep
<1>1. screen \notin DialogPages
  BY DEF ResultPagesNext, HistoryNext, OverviewNext, ComparisonNext,
         ResultNext, DialogPages
<1>2. CASE HistoryNext
  <2>1. ASSUME NEW i, SetArchived(i)
        PROVE  DialogStep
    <3>1. "archiveItem" \notin DecisionKinds
      BY DEF DecisionKinds
    <3>2. QED
      BY <1>1, <2>1, <3>1, SendElsewhere DEF SetArchived
  <2>2. QED
    BY <1>1, <1>2, <2>1, SetElsewhere, ReloadElsewhere
       DEF HistoryNext, UpdateFilter, ClearFilters, RetryHistory,
           ArchiveSettled, TurnHistory
<1>3. CASE OverviewNext
  BY <1>1, <1>3, SetElsewhere, ReloadElsewhere, SendElsewhere,
     SendOnlyElsewhere
     DEF OverviewNext, RefreshSubmission, RetrySubmission, ReloadSubmission,
         DownloadArchive, EditNote, CancelNote, SaveNote, TogglePinned,
         SetRecordArchived, StartComparison, CancelComparison,
         ToggleComparison, CancelExecution, OpenReferenceCandidates,
         PreviousCompatible, OpenViewer, CloseReferences, CloseViewer,
         DecisionKinds
<1>4. CASE ComparisonNext
  BY <1>1, <1>4, SetElsewhere, ReloadElsewhere, SendOnlyElsewhere,
     ComparesGone
     DEF ComparisonNext, RetryComparison, ToggleHistorical, RetryHistorical,
         ShowIncompatible, RemoveExecution, AddCandidate, ChooseRange,
         ChooseScale, ChooseAggregation, ToggleDispersion,
         ResetComparisonFilters, LogScaleLost, Filters, ToggleAudit,
         GenerateComparisonAI, DecisionKinds
<1>5. CASE ResultNext
  <2>1. CASE ReloadDocument
    BY <2>1, MountsGone DEF ReloadDocument, DialogPages
  <2>2. QED
    BY <1>1, <1>5, <2>1, SetElsewhere, SendOnlyElsewhere
       DEF ResultNext, ToggleAdvanced, ResetFilters, ShowCategory,
           RangeMinChanged, RangeMaxChanged, ResultFilters, GenerateAI,
           DownloadCsv, ToggleReproducibility, DownloadArtifact, OpenViewer,
           CloseViewer, DecisionKinds
<1>6. QED
  BY <1>2, <1>3, <1>4, <1>5 DEF ResultPagesNext

----------------------------------------------------------------------------
(***************************************************************************)
(* The addresses.                                                          *)
(***************************************************************************)
LEMMA FreshDialogs ==
  ASSUME NEW i
  PROVE  /\ HasDialog(CourseView(i)) /\ HasDialog(UserView(i))
         /\ HasDialog(RequestsView)
<1>1. Closed = Dialog("closed", 0)
  BY DEF Closed, Dialog
<1>2. QED
  BY <1>1 DEF HasDialog, CourseView, UserView, RequestsView

LEMMA LinksDialog ==
  ASSUME DialogInv, CourseLinks \/ AdminLinks \/ ResultLinks
  PROVE  DialogStep
BY MountsGone, FreshDialogs
   DEF CourseLinks, OpenCourse, AdminLinks, ResultLinks, DialogPages

\* Another user's address closes the dialog on the page.
LEMMA AnotherUserFree ==
  ASSUME DialogInv, NEW u,
         PagesTypeOK, Away("user", u),
         Navigates("user", UserView(u), AnotherUser(u), calls)
  PROVE  DialogStep
<1>1. CASE screen = "user"
  <2>1. HasDialog(AnotherUser(u))
    <3>1. Closed = Dialog("closed", 0)
      BY DEF Closed, Dialog
    <3>2. "dialog" \in DOMAIN view
      BY <1>1 DEF DialogInv, DialogPages, HasDialog
    <3>3. AnotherUser(u).dialog = Closed /\ "dialog" \in DOMAIN AnotherUser(u)
      BY <3>2 DEF AnotherUser
    <3>4. QED
      BY <3>1, <3>3 DEF HasDialog
  <2>2. AnotherUser(u).id = u
    BY <1>1 DEF AnotherUser, PagesTypeOK, ViewOK, UserViews
  <2>3. TurnedToAnother
    BY <1>1, <2>2 DEF Navigates, TurnedToAnother, Away
  <2>4. QED
    BY <1>1, <2>1, <2>3 DEF Navigates, DialogFree, DialogStep
<1>2. CASE screen # "user"
  BY <1>2, NavigatesKept, FreshDialogs DEF DialogPages
<1>3. QED
  BY <1>1, <1>2

LEMMA VisitDialog ==
  ASSUME DialogInv, PagesTypeOK, Visit
  PROVE  DialogStep
<1>1. Known(calls)
  BY KnownSubset DEF DialogInv
<1>2. CASE VisitTeacher
  <2>1. ASSUME NEW c, Navigates("course", CourseView(c), OtherCourse(c), calls)
        PROVE  DialogStep
    <3>1. screen = "course" => SameDialog(OtherCourse(c))
      BY FieldsKeepDialog DEF OtherCourse, DialogInv, DialogPages
    <3>2. QED
      BY <2>1, <3>1, NavigatesKept, FreshDialogs DEF DialogPages
  <2>2. QED
    BY <1>1, <1>2, <2>1, MountsGone, NavigatesPlain
       DEF VisitTeacher, DialogPages
<1>3. CASE VisitAdmin
  BY <1>3, MountsGone, FreshDialogs, AnotherUserFree DEF VisitAdmin, DialogPages
<1>4. CASE VisitResult \/ Mounts("elsewhere", Plain)
  BY <1>1, <1>4, MountsGone, NavigatesPlain, ComparesGone
     DEF VisitResult, DialogPages
<1>5. QED
  BY <1>2, <1>3, <1>4 DEF Visit

----------------------------------------------------------------------------
(***************************************************************************)
(* The answers.                                                            *)
(***************************************************************************)
\* The answer of a call leaves the dialog as it is, or it is the decision's own.
LEMMA AnswerKeeps ==
  ASSUME DialogInv, NEW w \in calls, screen' = screen, calls' = calls \ {w},
         screen \in DialogPages => SameDialog(view')
  PROVE  DialogStep
BY DEF DialogKept, DialogStep, SameDialog, DialogInv, CallsOK, Decisions

LEMMA SucceedsKeeps ==
  ASSUME DialogInv, NEW w \in calls, NEW v, NEW ls, Succeeds(w, v, ls),
         screen \in DialogPages => SameDialog(v)
  PROVE  DialogStep
BY AnswerKeeps DEF Succeeds

LEMMA SucceedsCloses ==
  ASSUME DialogInv, NEW w \in calls, w.kind \in DecisionKinds,
         w.kind \notin {"access", "role"}, NEW ls,
         Succeeds(w, [view EXCEPT !.dialog = Closed], ls)
  PROVE  DialogStep
<1>1. screen \in DialogPages => HasDialog([view EXCEPT !.dialog = Closed])
  BY DEF DialogInv, HasDialog, Closed, Dialog
<1>2. w \in Decisions(calls)
  BY DEF Succeeds, Decisions
<1>3. screen # "user"
  BY <1>2 DEF DialogInv, PageOf, DecisionKinds
<1>4. view.dialog.kind = w.kind
  BY <1>2, <1>3, DialogFields DEF DialogInv
<1>5. QED
  BY <1>1, <1>2, <1>4 DEF Succeeds, Decided, DialogStep

\* On the page of a user the dialog may be of the other kind.
LEMMA SucceedsClosesOwn ==
  ASSUME DialogInv, NEW w \in calls, w.kind \in DecisionKinds, NEW ls,
         Succeeds(w, ClosedOwn(w.kind), ls)
  PROVE  DialogStep
<1>1. screen \in DialogPages => HasDialog(ClosedOwn(w.kind))
  BY DEF DialogInv, HasDialog, ClosedOwn, Closed, Dialog
<1>2. w \in Decisions(calls)
  BY DEF Succeeds, Decisions
<1>3. HasDialog(view)
  BY <1>2 DEF DialogInv, PageOf, DecisionKinds, DialogPages
<1>4. view.dialog.kind # w.kind => ClosedOwn(w.kind).dialog = view.dialog
  BY <1>3 DEF ClosedOwn, HasDialog
<1>5. QED
  BY <1>1, <1>2, <1>4 DEF Succeeds, Decided, DialogStep

\* What an answer may change besides.
LEMMA AnswersKeepDialog ==
  ASSUME HasDialog(view), NEW x, NEW y
  PROVE  /\ SameDialog([view EXCEPT !.list.page = x, !.archiving = y])
         /\ SameDialog([view EXCEPT !.archiving = x])
         /\ SameDialog([view EXCEPT !.archiving.stage = x])
         /\ SameDialog([view EXCEPT !.editingNote = x])
         /\ SameDialog([view EXCEPT !.reference = x])
         /\ SameDialog(Reading(view)) /\ SameDialog(OverviewFailed(view))
         /\ SameDialog(OverviewRead(view, x))
         /\ SameDialog([view EXCEPT !.ai = x])
         /\ SameDialog([view EXCEPT !.previous = x])
BY DEF SameDialog, HasDialog, Reading, OverviewFailed, OverviewRead

LEMMA CourseAnswers ==
  ASSUME DialogInv, NEW w \in calls, CoursePagesAnswer(w)
  PROVE  DialogStep
<1>1. screen \in DialogPages => HasDialog(view)
  BY DEF DialogInv
<1>2. CASE CourseCreated(w) \/ (CourseCloned(w) /\ ~w.mounted)
  <2>1. PICK c \in Ids :
          Navigates("course", CourseView(c), OtherCourse(c), calls \ {w})
    BY <1>2 DEF CourseCreated, CourseCloned
  <2>2. screen = "course" => SameDialog(OtherCourse(c))
    BY <1>1, FieldsKeepDialog DEF OtherCourse, DialogPages
  <2>3. QED
    BY <2>1, <2>2, NavigatesKept, FreshDialogs DEF DialogPages
<1>3. CASE CourseCloned(w) /\ w.mounted
  <2>1. w \in Decisions(calls)
    BY <1>3 DEF CourseCloned, Decisions, DecisionKinds
  <2>2. screen = "course"
    <3>1. w.kind = "clone" /\ screen = PageOf(w.kind)
      BY <1>3, <2>1 DEF CourseCloned, DialogInv
    <3>2. QED
      BY <3>1 DEF PageOf
  <2>3. PICK c \in Ids :
          Navigates("course", CourseView(c),
                    [OtherCourse(c) EXCEPT !.dialog = Closed], calls \ {w})
    BY <1>3 DEF CourseCloned
  <2>4. HasDialog([OtherCourse(c) EXCEPT !.dialog = Closed])
    <3>1. Closed = Dialog("closed", 0)
      BY DEF Closed, Dialog
    <3>2. "dialog" \in DOMAIN OtherCourse(c)
      BY <1>1, <2>2 DEF HasDialog, DialogPages, OtherCourse
    <3>3. QED
      BY <3>1, <3>2 DEF HasDialog
  <2>5. view.dialog.kind = w.kind
    BY <2>1, <2>2, DialogFields DEF DialogInv
  <2>6. QED
    BY <2>1, <2>2, <2>3, <2>4, <2>5 DEF Navigates, Decided, DialogStep
<1>4. CASE StatusChanged(w) \/ StudentRemoved(w)
  BY <1>4, SucceedsCloses
     DEF StatusChanged, StudentRemoved, Patched, DecisionKinds
<1>5. CASE CourseSaved(w) \/ ProtocolSaved(w) \/ ProtocolActedOn(w)
  BY <1>1, <1>5, SucceedsKeeps, FieldsKeepDialog
     DEF CourseSaved, ProtocolSaved, ProtocolActedOn, Patched
<1>6. CASE StudentsAdded(w) \/ StudentRestored(w) \/ StudentsExported(w)
  BY <1>1, <1>6, SucceedsKeeps, FieldsKeepDialog
     DEF StudentsAdded, StudentRestored, StudentsExported, Patched
<1>7. QED
  BY <1>2, <1>3, <1>4, <1>5, <1>6 DEF CoursePagesAnswer

LEMMA AdminAnswers ==
  ASSUME DialogInv, NEW w \in calls, AdminPagesAnswer(w)
  PROVE  DialogStep
<1>1. screen \in DialogPages => SameDialog(view)
  BY FieldsKeepDialog DEF DialogInv
<1>2. CASE Preauthorized(w)
  BY <1>1, <1>2, SucceedsKeeps DEF Preauthorized
<1>3. CASE AccessChanged(w) \/ RoleChanged(w)
  BY <1>3, SucceedsClosesOwn DEF AccessChanged, RoleChanged, DecisionKinds
<1>4. CASE Resolved(w)
  BY <1>4, SucceedsCloses DEF Resolved, DecisionKinds
<1>5. QED
  BY <1>2, <1>3, <1>4 DEF AdminPagesAnswer

LEMMA ResultAnswers ==
  ASSUME DialogInv, NEW w \in calls, ResultPagesAnswer(w)
  PROVE  DialogStep
<1>1. screen \in DialogPages => HasDialog(view)
  BY DEF DialogInv
<1>2. CASE ItemArchived(w)
  <2>1. CASE Succeeds(w, [view EXCEPT !.archiving.stage = "reloading"],
                      {"history"})
    BY <1>1, <2>1, SucceedsKeeps, AnswersKeepDialog
  <2>2. ASSUME NEW n, Succeeds(w, [view EXCEPT !.list.page = n,
                                               !.archiving = NoArchive], {})
        PROVE  DialogStep
    BY <1>1, <2>2, SucceedsKeeps, AnswersKeepDialog
  <2>3. QED
    BY <1>2, <2>1, <2>2 DEF ItemArchived
<1>3. CASE NoteSaved(w)
  BY <1>1, <1>3, SucceedsKeeps, AnswersKeepDialog DEF NoteSaved
<1>4. CASE \/ PinToggled(w) \/ RecordArchived(w) \/ ArchiveDownloaded(w)
           \/ CsvDownloaded(w) \/ ArtifactDownloaded(w)
  BY <1>1, <1>4, SucceedsKeeps, FieldsKeepDialog
     DEF PinToggled, RecordArchived, ArchiveDownloaded, CsvDownloaded,
         ArtifactDownloaded
<1>5. CASE ExecutionCancelled(w)
  BY <1>1, <1>5, SucceedsKeeps, AnswersKeepDialog DEF ExecutionCancelled
<1>6. CASE ReferencesRead(w)
  BY <1>1, <1>6, SucceedsKeeps, AnswersKeepDialog DEF ReferencesRead
<1>7. CASE ComparisonExplained(w) \/ Explained(w)
  BY <1>1, <1>7, SucceedsKeeps, AnswersKeepDialog
     DEF ComparisonExplained, Explained
<1>8. QED
  BY <1>2, <1>3, <1>4, <1>5, <1>6, <1>7 DEF ResultPagesAnswer

LEMMA FailureKeeps ==
  ASSUME DialogInv, screen \in DialogPages, NEW w
  PROVE  SameDialog(FailureView(w))
<1>1. HasDialog(view)
  BY DEF DialogInv
<1>2. screen \notin {"history", "submission"}
  BY DEF DialogPages
<1>3. FailureView(w) \in {view, [view EXCEPT !.actionId = 0]}
  BY <1>2 DEF FailureView, CoursePagesFailure
<1>4. QED
  BY <1>1, <1>3, FieldsKeepDialog

LEMMA CallDialog ==
  ASSUME DialogInv, NEW w \in calls, CallStep(w)
  PROVE  DialogStep
<1>1. CASE CarryOut(w)
  BY <1>1 DEF CarryOut, Progress, DialogStep
<1>2. CASE BadAnswer(w)
  BY <1>2, FailureKeeps, AnswerKeeps DEF BadAnswer
<1>3. CASE LateAnswer(w)
  BY <1>3, FieldsKeepDialog, AnswerKeeps DEF LateAnswer, DialogInv
<1>4. QED
  BY <1>1, <1>2, <1>3 DEF CallStep

LEMMA AnswerDialog ==
  ASSUME DialogInv, NEW w \in calls, AnswerStep(w)
  PROVE  DialogStep
<1>1. CASE PreviousFound(w)
  <2>1. PICK q \in SUBSET Executions :
          Navigates("comparison", ComparisonView(q), OtherQuery(q),
                    Disowned("ai", calls \ {w}))
    BY <1>1 DEF PreviousFound
  <2>2. /\ Known(Disowned("ai", calls \ {w}))
        /\ Decisions(Disowned("ai", calls \ {w})) \subseteq Decisions(calls)
    BY DisownedHasNoMore DEF DialogInv
  <2>3. QED
    BY <2>1, <2>2, NavigatesPlain DEF DialogPages
<1>2. CASE PreviousNone(w)
  BY <1>2, SucceedsKeeps, AnswersKeepDialog DEF PreviousNone, DialogInv
<1>3. CASE CancelRefused(w)
  BY <1>3, AnswersKeepDialog, AnswerKeeps DEF CancelRefused, DialogInv
<1>4. QED
  BY <1>1, <1>2, <1>3, CourseAnswers, AdminAnswers, ResultAnswers
     DEF AnswerStep, GoodAnswer

\* The answers of the loaders; only that of a submission touches its page.
LEMMA LoaderDialog ==
  ASSUME DialogInv, NEW l, NEW r, RequestStep(l, r)
  PROVE  DialogStep
<1>1. UNCHANGED <<screen, calls>>
  BY DEF RequestStep, Settled, Moves, Settles
<1>2. \/ view' = view \/ view' = OverviewFailed(view)
      \/ \E of : view' = OverviewRead(view, of)
  BY DEF RequestStep, Settled, Moves, Settles
<1>3. screen \in DialogPages => SameDialog(view')
  BY <1>2, AnswersKeepDialog, FieldsKeepDialog DEF DialogInv
<1>4. QED
  BY <1>1, <1>3 DEF DialogKept, DialogStep, SameDialog, DialogInv, CallsOK,
                    Decisions

LEMMA EveryStepOfTheDialog ==
  ASSUME DialogInv, PagesTypeOK, Next
  PROVE  DialogStep
<1>1. CASE \/ CoursePagesNext \/ AdminPagesNext \/ ResultPagesNext
           \/ CourseLinks \/ AdminLinks \/ ResultLinks \/ Visit
  BY <1>1, TeacherElsewhere, CourseDialog, AdminElsewhere, UserDialog,
     RequestsDialog, ResultsElsewhere, LinksDialog, VisitDialog
     DEF CoursePagesNext, AdminPagesNext
<1>2. CASE SubmissionSettles
  BY <1>2, ReloadElsewhere DEF SubmissionSettles, DialogPages
<1>3. QED
  BY <1>1, <1>2, CallDialog, AnswerDialog, LoaderDialog DEF Next, PageStep

LEMMA DialogInit ==
  ASSUME Init
  PROVE  DialogInv
<1>1. screen = "elsewhere" /\ calls = {}
  BY DEF Init, Watching
<1>2. QED
  BY <1>1 DEF DialogInv, CallsOK, Decisions, DialogPages

LEMMA DialogInvStays ==
  ASSUME DialogInv, PagesTypeOK, [Next]_pageVars
  PROVE  DialogInv'
<1>1. CASE Next
  BY <1>1, EveryStepOfTheDialog, DialogStepInv
<1>2. CASE UNCHANGED pageVars
  BY <1>2 DEF pageVars, DialogInv, CallsOK, Decisions, HasDialog
<1>3. QED
  BY <1>1, <1>2

\* A step that leaves the decision of the dialog under way leaves the dialog.
LEMMA DialogStays ==
  ASSUME DialogInv, DialogStep, NEW kind \in DecisionKinds, NEW target,
         UnderWay(kind, target)', view.dialog = Dialog(kind, target)
  PROVE  TurnedToAnother \/ view'.dialog = view.dialog
<1>1. view.dialog.kind = kind
  BY DialogFields
<1>2. PICK w \in Decisions(calls') : w.kind = kind
  BY DEF UnderWay, Decisions
<1>3. CASE DialogKept
  <2>1. screen = PageOf(kind)
    BY <1>2, <1>3 DEF DialogKept, DialogInv
  <2>2. QED
    BY <1>3, <2>1 DEF DialogKept, PageOf, DecisionKinds, DialogPages
<1>4. CASE DialogFree
  BY <1>1, <1>2, <1>4 DEF DialogFree, DialogBusy, InFlight, Decisions
<1>5. CASE Confirmed \/ Progress
  BY <1>5 DEF Confirmed, Progress
<1>6. CASE Decided
  <2>1. PICK x \in Decisions(calls) :
          /\ calls' = calls \ {x}
          /\ view.dialog.kind # x.kind => view'.dialog = view.dialog
    BY <1>6 DEF Decided
  <2>2. w \in Decisions(calls) /\ w # x
    BY <1>2, <2>1 DEF Decisions
  <2>3. QED
    BY <1>1, <1>2, <2>1, <2>2 DEF DialogInv
<1>7. CASE PageGone
  BY <1>2, <1>7 DEF PageGone
<1>8. QED
  BY <1>3, <1>4, <1>5, <1>6, <1>7 DEF DialogStep

\* While a decision confirmed by a teacher or an administrator is carried out,
\* its dialog stays with the target it was confirmed for, unless the page of a
\* user is turned to another one, and no other decision of its kind is
\* confirmed: for any ids, roles, bounds and order of answers.
THEOREM DecisionsStay == Spec => DecisionStaysOnScreen
<1> DEFINE Stays ==
      /\ OneOfAKind'
      /\ \A kind \in DecisionKinds, target \in IdsOrNone :
           UnderWay(kind, target)' /\ view.dialog = Dialog(kind, target) =>
             TurnedToAnother \/ view'.dialog = view.dialog
<1>1. Init => DialogInv
  BY DialogInit
<1>2. DialogInv /\ PagesTypeOK /\ [Next]_pageVars => DialogInv'
  BY DialogInvStays
<1>3. DialogInv /\ DialogInv' /\ PagesTypeOK /\ [Next]_pageVars
        => [Stays]_pageVars
  <2> SUFFICES ASSUME DialogInv, DialogInv', PagesTypeOK, Next
               PROVE  Stays
    OBVIOUS
  <2>1. OneOfAKind'
    BY DEF DialogInv, Decisions, OneOfAKind
  <2>2. DialogStep
    BY EveryStepOfTheDialog
  <2>3. ASSUME NEW kind \in DecisionKinds, NEW target \in IdsOrNone,
               UnderWay(kind, target)', view.dialog = Dialog(kind, target)
        PROVE  TurnedToAnother \/ view'.dialog = view.dialog
    BY <2>2, <2>3, DialogStays
  <2>4. QED
    BY <2>1, <2>3
<1>4. QED
  BY <1>1, <1>2, <1>3, PagesKeepTheirTypes, PTL
     DEF Spec, DecisionStaysOnScreen
=============================================================================
