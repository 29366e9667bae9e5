--------------------------- MODULE MCClientPages ----------------------------
(***************************************************************************)
(* The pages for TLC.  A focus, chosen at the start, watches one loader or *)
(* a few, on the page they belong to and the ones an answer leads to, and  *)
(* lets a part of that page's controls and some of the calls be used: the  *)
(* rest of the page stays as it was mounted.                               *)
(***************************************************************************)
EXTENDS ClientPages

CONSTANT MaxRequests   \* bound: requests of a loader under way at a time
VARIABLE focus

Focus(watched, screens, free, kinds) ==
  [watched |-> watched, screens |-> screens \cup {"elsewhere"},
   free |-> free, kinds |-> kinds, ids |-> Ids]

\* The same on the pages of a single course, or of a single submission.
OfOne(f) == [f EXCEPT !.ids = {1}]

\* What an answer to the submission changes of its page.
Read == {"reading", "refused", "traced"}

Foci ==
  { Focus({"courses"}, {"courses", "course"}, {"tab", "search"}, {"create"}),
    Focus({"candidates"}, {"courses"}, {"showCreate"}, {"create"}),
    Focus({"course"}, {"course"}, {"editing"}, {"save"}),
    Focus({"course"}, {"course"}, {"dialog"}, {"status", "clone"}),
    Focus({"editCandidates"}, {"course"}, {"editing"}, {"save"}),
    Focus({"attention"}, {"course"}, {"attention", "membership"}, {}),
    OfOne(Focus({"attention"}, {"course"}, {"dialog"}, {"remove"})),
    Focus({"students"}, {"course"}, {"membership", "search", "page"}, {}),
    OfOne(Focus({"students"}, {"course"}, {"page", "dialog"}, {"remove"})),
    OfOne(Focus({"students"}, {"course"}, {"membership"}, {"restore"})),
    Focus({"students"}, {"course", "courses", "student"}, {"showAdd"}, {"add"}),
    Focus({"analytics"}, {"course"}, {"dialog"}, {"status", "save"}),
    Focus({"analytics"}, {"course"}, {}, {"export"}),
    Focus({"protocols"}, {"course"}, {"protocolForm"}, {"saveProtocol"}),
    Focus({"protocols"}, {"course"}, {"actionId"}, {"protocolAction"}),
    Focus({"policies"}, {"course"}, {"protocolForm"}, {"saveProtocol"}),
    Focus({"profile"}, {"student", "course"}, {}, {}),
    Focus({"executions"}, {"student"}, {"tab", "lists"}, {}),
    Focus({"submissions"}, {"student"}, {"tab", "lists"}, {}),
    Focus({"execution"}, {"student"}, {"execution"}, {}),
    Focus({"users"}, {"users", "user"}, {"list", "preauthorizationOpen"},
          {"preauthorize"}),
    Focus({"userProfile"}, {"user", "users"}, {"dialog"}, {"access", "role"}),
    Focus({"userExecutions"}, {"user"}, {"tab", "list"}, {}),
    Focus({"userSubmissions"}, {"user"}, {"tab", "list"}, {}),
    Focus({"userAudit"}, {"user"}, {"tab", "list"}, {}),
    Focus({"userExecution"}, {"user"}, {"execution"}, {}),
    Focus({"requests"}, {"requests"}, {"status", "list"}, {}),
    Focus({"requests"}, {"requests"}, {"list", "dialog"}, {"approve"}),
    Focus({"requests"}, {"requests"}, {"status", "dialog"}, {"approve", "reject"}),
    Focus({"audit"}, {"audit", "status"}, {"list"}, {}),
    Focus({"status"}, {"status"}, {}, {}),
    Focus({"history"}, {"history", "submission"}, {"list"}, {}),
    Focus({"history"}, {"history"}, {"archiving"}, {"archiveItem"}),
    Focus({"historyOptions"}, {"history"}, {}, {}),
    OfOne(Focus({"submission"}, {"submission"}, Read \cup {"editingNote"}, {"note"})),
    OfOne(Focus({"submission"}, {"submission"}, Read, {"pin"})),
    OfOne(Focus({"submission"}, {"submission"}, Read, {"archive"})),
    Focus({"submission"}, {"submission"}, Read, {"cancel"}),
    Focus({"trace"}, {"submission"}, Read, {"archiveFile", "cancel"}),
    Focus({"trace"}, {"submission", "comparison"},
          Read \cup {"comparing", "chosen"}, {}),
    OfOne(Focus({"trace"}, {"submission", "comparison"},
                Read \cup {"previous", "reference"},
                {"previous", "references"})),
    Focus({"source"}, {"submission", "result"},
          Read \cup {"viewer", "expanded"}, {}),
    Focus({"comparison"}, {"comparison", "submission"}, {"ai", "audit"}, {"ai"}),
    Focus({"comparison"}, {"comparison"}, {"filters"}, {}),
    Focus({"historical"}, {"comparison"}, {"historyOpen", "incompatible"}, {}),
    Focus({"results"}, {"result"}, {"ai", "category", "advanced"}, {"ai", "csv"}),
    Focus({"results"}, {"result"}, {"filters"}, {}),
    Focus({"reproducibility"}, {"result"}, {"expanded", "viewer"}, {"artifact"}) }

\* A page as it is mounted, with the id it has now.
Mounted ==
  CASE screen = "courses"    -> CoursesView
    [] screen = "course"     -> CourseView(view.id)
    [] screen = "student"    -> StudentView(view.id)
    [] screen = "users"      -> UsersView
    [] screen = "user"       -> UserView(view.id)
    [] screen = "requests"   -> RequestsView
    [] screen = "audit"      -> AuditView
    [] screen = "history"    -> HistoryView
    [] screen = "submission" -> OverviewView(view.id)
    [] screen = "comparison" -> ComparisonView(view.id)
    [] screen = "result"     -> ResultView(view.id)
    [] OTHER                 -> Plain

Within ==
  /\ screen \in focus.screens
  /\ screen \in {"course", "submission"} => view.id \in focus.ids
  /\ \A w \in calls : w.kind \in focus.kinds
  /\ \A f \in DOMAIN view \ (focus.free \cup {"id"}) : view[f] = Mounted[f]
  /\ \A l \in DOMAIN loads : Cardinality(loads[l].asked) <= MaxRequests

MCInit == \E f \in Foci : focus = f /\ Watching(f.watched)
MCNext == Next /\ focus' = focus /\ Within'
MCSpec == MCInit /\ [][MCNext]_<<pageVars, focus>>
=============================================================================
