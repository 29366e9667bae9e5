----------------------------- MODULE AdminPages -----------------------------
(***************************************************************************)
(* The administration pages of the client: the users and their             *)
(* preauthorization (AdminUser), one user with the tabs of his work        *)
(* (AdminUserDetail), the requests for access (AdminAccessRequests), the   *)
(* audit log (AdminAuditLog) and the state of the system                   *)
(* (AdminSystemStatus).  The filters of a list are one value, and changing *)
(* one of them goes back to the first page.                                *)
(***************************************************************************)
EXTENDS Loaders

NoFilter == [search |-> "", page |-> 1]
Filtered(text) == [search |-> text, page |-> 1]

\* The previous and next buttons of a list (disabled while it is loaded).
Turned(l, n) == n \in 1..LastPage /\ MayBeSettled(l)
                /\ Set([view EXCEPT !.list.page = n])
\* The page numbers of a tab of the user's page are the same (Pagination).
TurnedTab(l, n) == Turned(l, n)

----------------------------------------------------------------------------
(***************************************************************************)
(* The users.                                                              *)
(***************************************************************************)
UsersView == [list |-> NoFilter, preauthorizationOpen |-> FALSE]

UsersLoader ==
  Effect("users", Key({}, "users", view.list.search, view.list.page),
         {"delayed", "clears", "guarded"})

FilterUsers(text) ==
  text # view.list.search /\ Set([view EXCEPT !.list = Filtered(text)])
ClearUserFilters == view.list.search # "" /\ Set([view EXCEPT !.list = NoFilter])
TurnUsers(n) == Turned("users", n)
RetryUsers == /\ MayBeSettled("users") /\ MayHaveFailed("users")
              /\ SetAndReload(view, {"users"})
UserRowsShown == HasContent("users") /\ MayBeClean("users")

TogglePreauthorization == Set([view EXCEPT !.preauthorizationOpen = ~@])
PreauthorizeOffered == view.preauthorizationOpen /\ ~InFlight("preauthorize")
\* Without a name or an address nothing is sent.
Preauthorize == PreauthorizeOffered /\ Send("preauthorize", 0)
Preauthorized(w) == w.kind = "preauthorize" /\ Succeeds(w, view, {"users"})

UsersNext ==
  /\ screen = "users"
  /\ \/ \E text \in Searches : FilterUsers(text)
     \/ ClearUserFilters \/ RetryUsers
     \/ \E n \in 1..LastPage : TurnUsers(n)
     \/ TogglePreauthorization \/ Preauthorize

----------------------------------------------------------------------------
(***************************************************************************)
(* One user.  A tab is a component of its own: its filters, its page and   *)
(* what it read are gone with it.                                          *)
(***************************************************************************)
UserView(u) == [id |-> u, tab |-> "executions", list |-> NoFilter,
                execution |-> 0, dialog |-> Closed]

UserTabKey(tab) ==
  IF view.tab = tab
  THEN Key({view.id}, tab, view.list.search, view.list.page) ELSE Off

UserProfileLoader ==
  Effect("user", Key({view.id}, "profile", "", 1), {"noisy", "guarded"})
UserExecutionsLoader == Effect("user", UserTabKey("executions"),
                               {"delayed", "noisy", "guarded"})
UserSubmissionsLoader == Effect("user", UserTabKey("submissions"),
                                {"delayed", "noisy", "guarded"})
UserAuditLoader == Effect("user", UserTabKey("audit"), {"noisy", "guarded"})

\* The modal forgets the execution it showed before it reads another one.
UserExecutionLoader ==
  Effect("user", IF view.execution # 0
                 THEN Key({view.execution}, "execution", "", 1) ELSE Paused,
         {"noisy", "blanks", "guarded"})

UserOnScreen ==
  /\ HasContent("userProfile")
  /\ view.dialog = Closed /\ view.execution = 0
RetryUser == /\ MayBeSettled("userProfile") /\ MayBeEmpty("userProfile")
             /\ MayHaveFailed("userProfile")
             /\ SetAndReload(view, {"userProfile"})

ShowUserTab(tab) ==
  /\ UserOnScreen /\ tab # view.tab
  /\ Set([view EXCEPT !.tab = tab, !.list = NoFilter])

\* The loader of the tab on screen.
TabLoader == [executions |-> "userExecutions", submissions |-> "userSubmissions",
              audit |-> "userAudit"][view.tab]
ExecutionFilters == view.tab = "executions"
SubmissionFilters == view.tab = "submissions"
FilterTab(text) ==
  /\ UserOnScreen /\ (ExecutionFilters \/ SubmissionFilters)
  /\ text # view.list.search
  /\ Set([view EXCEPT !.list = Filtered(text)])
RetryTab == /\ UserOnScreen /\ MayHaveFailed(TabLoader)
            /\ SetAndReload(view, {TabLoader})
ExecutionRowsShown == /\ view.tab = "executions" /\ HasContent("userExecutions")
                      /\ MayBeClean("userExecutions")
OpenUserExecution(e) ==
  /\ UserOnScreen /\ ExecutionRowsShown
  /\ Set([view EXCEPT !.execution = e])
\* Escape, the two buttons, or a click beside the modal.
CloseUserExecution ==
  view.execution # 0 /\ Set([view EXCEPT !.execution = 0])

\* Who is no administrator may have his access revoked or given back, and a
\* student may become a teacher and back; the decision keeps what was offered.
OpenAccessDecision ==
  UserOnScreen /\ Set([view EXCEPT !.dialog = Dialog("access", view.id)])
OpenRoleDecision ==
  UserOnScreen /\ Set([view EXCEPT !.dialog = Dialog("role", view.id)])
ConfirmAccessChange ==
  ConfirmHeeded("access") /\ Send("access", view.dialog.target)
ConfirmRoleChange ==
  ConfirmHeeded("role") /\ Send("role", view.dialog.target)
\* The answer goes into the profile on screen (Written), which is read again;
\* it closes the dialog of its own kind, also one opened for another user.
ClosedOwn(kind) ==
  [view EXCEPT !.dialog = IF @.kind = kind THEN Closed ELSE @]
AccessChanged(w) ==
  w.kind = "access" /\ Succeeds(w, ClosedOwn("access"), {"userProfile"})
RoleChanged(w) ==
  w.kind = "role" /\ Succeeds(w, ClosedOwn("role"), {"userProfile"})

\* The effect on the id: the tab, the modal and the decisions are given up.
AnotherUser(u) ==
  [view EXCEPT !.id = u, !.execution = 0, !.dialog = Closed,
     !.list = IF view.tab = "executions" THEN @ ELSE NoFilter,
     !.tab = "executions"]

UserNext ==
  /\ screen = "user"
  /\ \/ RetryUser \/ RetryTab \/ CloseUserExecution
     \/ \E tab \in {"executions", "submissions", "audit"} : ShowUserTab(tab)
     \/ \E text \in Searches : FilterTab(text)
     \/ \E n \in 1..LastPage : UserOnScreen /\ TurnedTab(TabLoader, n)
     \/ \E e \in Ids : OpenUserExecution(e)
     \/ OpenAccessDecision \/ ConfirmAccessChange
     \/ OpenRoleDecision \/ ConfirmRoleChange \/ CancelDialog

----------------------------------------------------------------------------
(***************************************************************************)
(* The requests for access.                                                *)
(***************************************************************************)
RequestsView == [status |-> "PENDING", list |-> NoFilter, dialog |-> Closed]

RequestsLoader ==
  Effect("requests", Key({}, view.status, view.list.search, view.list.page),
         {"delayed", "clears", "noisy", "guarded"})

ShowStatus(s) == /\ view.dialog = Closed /\ s # view.status
                 /\ Set([view EXCEPT !.status = s, !.list.page = 1])
SearchRequests(text) ==
  /\ view.dialog = Closed /\ text # view.list.search
  /\ Set([view EXCEPT !.list = Filtered(text)])
TurnRequests(n) == view.dialog = Closed /\ Turned("requests", n)
RetryRequests == /\ view.dialog = Closed /\ MayHaveFailed("requests")
                 /\ SetAndReload(view, {"requests"})

\* The rows of the list as it is, which may still be that of another status.
RequestRowsShown == HasContent("requests") /\ MayBeClean("requests")
OpenDecision(r, m) ==
  /\ view.dialog = Closed /\ RequestRowsShown
  /\ Set([view EXCEPT !.dialog = Dialog(m, r)])
\* The confirm button, and the reason a rejection may give.
ResolveOffered == \E m \in {"approve", "reject"} : ConfirmHeeded(m)
ResolveDecision ==
  ResolveOffered /\ Send(view.dialog.kind, view.dialog.target)
Resolved(w) ==
  w.kind \in {"approve", "reject"}
  /\ Succeeds(w, [view EXCEPT !.dialog = Closed], {"requests"})

RequestsNext ==
  /\ screen = "requests"
  /\ \/ \E s \in {"PENDING", "APPROVED", "REJECTED"} : ShowStatus(s)
     \/ \E text \in Searches : SearchRequests(text)
     \/ \E n \in 1..LastPage : TurnRequests(n)
     \/ RetryRequests
     \/ \E r \in Ids, m \in {"approve", "reject"} : OpenDecision(r, m)
     \/ ResolveDecision \/ CancelDialog

----------------------------------------------------------------------------
(***************************************************************************)
(* The audit log, and the state of the system.                             *)
(***************************************************************************)
AuditView == [list |-> NoFilter]
AuditLogLoader ==
  Effect("audit", Key({}, "audit", view.list.search, view.list.page),
         {"clears", "noisy", "guarded"})
FilterAudit(text) ==
  text # view.list.search /\ Set([view EXCEPT !.list = Filtered(text)])
ClearAuditFilters ==
  view.list.search # "" /\ Set([view EXCEPT !.list = NoFilter])
TurnAudit(n) == Turned("audit", n)
RetryAudit == MayHaveFailed("audit") /\ SetAndReload(view, {"audit"})

AuditNext ==
  /\ screen = "audit"
  /\ \/ \E text \in Searches : FilterAudit(text)
     \/ ClearAuditFilters \/ RetryAudit
     \/ \E n \in 1..LastPage : TurnAudit(n)

\* The controller of the last request is kept, and aborted by the next one.
StatusLoader == Effect("status", Key({}, "status", "", 1), {"guarded"})
RefreshOffered == MayBeSettled("status")
RefreshStatus == RefreshOffered /\ SetAndReload(view, {"status"})
StatusNext == screen = "status" /\ RefreshStatus

AdminPagesNext ==
  UsersNext \/ UserNext \/ RequestsNext \/ AuditNext \/ StatusNext
AdminPagesAnswer(w) ==
  Preauthorized(w) \/ AccessChanged(w) \/ RoleChanged(w) \/ Resolved(w)
AdminLinks ==
  \/ screen = "users" /\ UserRowsShown /\ \E u \in Ids : Mounts("user", UserView(u))
  \/ screen = "user" /\ UserOnScreen /\ Mounts("users", UsersView)
=============================================================================
