---------------------------- MODULE ClientPages -----------------------------
(***************************************************************************)
(* The pages of the client together: the address that mounts one, the      *)
(* effects of the page that is mounted, the requests and the mutations     *)
(* under way, and the server that reads or changes its database for them.  *)
(* One step of a page is one event handler, or the continuation of one     *)
(* after its answer; React then runs the effects whose dependencies        *)
(* changed, before anything else.  Which loaders are watched is chosen at  *)
(* the start: of the others nothing is kept and nothing is assumed.        *)
(***************************************************************************)
EXTENDS CoursePages, AdminPages, ResultPages

CONSTANT CanSupervise   \* canAccessTeacherArea(currentUser)
ASSUME RoleAssumption == CanSupervise \in BOOLEAN /\ (IsAdmin => CanSupervise)

LoaderNames ==
  {"candidates", "courses", "editCandidates", "course", "attention",
   "students", "analytics", "protocols", "policies", "profile", "executions",
   "submissions", "execution", "users", "userProfile", "userExecutions",
   "userSubmissions", "userAudit", "userExecution", "requests", "audit",
   "status", "history", "historyOptions", "submission", "trace", "source",
   "comparison", "historical", "results", "reproducibility"}

Loader(l) ==
  CASE l = "candidates"      -> CandidatesLoader
    [] l = "courses"         -> CoursesLoader
    [] l = "editCandidates"  -> EditCandidatesLoader
    [] l = "course"          -> CourseLoader
    [] l = "attention"       -> AttentionLoader
    [] l = "students"        -> StudentsLoader
    [] l = "analytics"       -> AnalyticsLoader
    [] l = "protocols"       -> ProtocolsLoader
    [] l = "policies"        -> PoliciesLoader
    [] l = "profile"         -> ProfileLoader
    [] l = "executions"      -> ExecutionsLoader
    [] l = "submissions"     -> SubmissionsLoader
    [] l = "execution"       -> ExecutionLoader
    [] l = "users"           -> UsersLoader
    [] l = "userProfile"     -> UserProfileLoader
    [] l = "userExecutions"  -> UserExecutionsLoader
    [] l = "userSubmissions" -> UserSubmissionsLoader
    [] l = "userAudit"       -> UserAuditLoader
    [] l = "userExecution"   -> UserExecutionLoader
    [] l = "requests"        -> RequestsLoader
    [] l = "audit"           -> AuditLogLoader
    [] l = "status"          -> StatusLoader
    [] l = "history"         -> HistoryLoader
    [] l = "historyOptions"  -> HistoryOptionsLoader
    [] l = "submission"      -> SubmissionLoader
    [] l = "trace"           -> TraceLoader
    [] l = "source"          -> SourceLoader
    [] l = "comparison"      -> ComparisonLoader
    [] l = "historical"      -> HistoricalLoader
    [] l = "results"         -> ResultsLoader
    [] l = "reproducibility" -> ReproducibilityLoader

----------------------------------------------------------------------------
(***************************************************************************)
(* React after a step: the effects whose dependencies changed are cleaned  *)
(* up and run again, those of a page that is gone are only cleaned up.     *)
(* `base` is what the step itself made of the loaders.                     *)
(***************************************************************************)
Effects(base, asked) ==
  loads' = [l \in DOMAIN loads |->
              IF Loader(l).key' # Loader(l).key
              THEN Rerun(Loader(l).traits, base[l], Loader(l).key')
              ELSE IF l \in reload' THEN Rerun(Loader(l).traits, base[l], asked[l])
              ELSE base[l]]
Wanted == [l \in DOMAIN loads |-> Loader(l).key']

\* The history and the submission are reloaded by a function, which the handler
\* of call w took from the page when it was made: it reads what was asked then.
AskedBy(w) ==
  [l \in DOMAIN loads |->
     CASE l = "history" /\ w.kind = "archiveItem" -> view.archiving.key
       [] l = "submission" /\ w.kind = "cancel" -> Key(w.of, l, "", 1)
       [] OTHER -> Loader(l).key']

\* What the handler of w writes besides: the course, as the answer describes it;
\* one field of the profile, or of the submission, that is on screen.
Mixed(l, w) == [l EXCEPT !.shown.key.of = @ \cup w.of]
Written(w) ==
  [l \in DOMAIN loads |->
     CASE l = "course" /\ w.kind \in {"save", "status"} ->
            [loads[l] EXCEPT !.shown = [key |-> Key(w.of, l, "", 1),
                                        version |-> w.version]]
       [] \/ l = "userProfile" /\ w.kind \in {"access", "role"}
          \/ l = "submission" /\ w.kind \in {"note", "pin", "archive"} ->
            Mixed(loads[l], w)
       [] OTHER -> loads[l]]

----------------------------------------------------------------------------
(***************************************************************************)
(* Addresses (App.js): who may open which page.  Any other one, and a page *)
(* that is refused, shows a page that is not modelled.                     *)
(***************************************************************************)
Away(s, i) == ~(screen = s /\ view.id = i)
VisitTeacher ==
  /\ CanSupervise
  /\ \/ screen # "courses" /\ Mounts("courses", CoursesView)
     \/ \E c \in Ids : Navigates("course", CourseView(c), OtherCourse(c), calls)
     \/ \E u \in Ids : Navigates("student", StudentView(u),
                                 [view EXCEPT !.id = u], calls)
VisitAdmin ==
  /\ IsAdmin
  /\ \/ screen # "users" /\ Mounts("users", UsersView)
     \/ screen # "requests" /\ Mounts("requests", RequestsView)
     \/ screen # "audit" /\ Mounts("audit", AuditView)
     \/ screen # "status" /\ Mounts("status", Plain)
     \/ \E u \in Ids : /\ Away("user", u)
                       /\ Navigates("user", UserView(u), AnotherUser(u), calls)
VisitResult ==
  \/ screen # "history" /\ Mounts("history", HistoryView)
  \/ \E i \in Ids :
       /\ Away("submission", i)
       /\ Navigates("submission", OverviewView(i), OtherSubmission(i), calls)
  \/ \E q \in SUBSET Executions :
       Away("comparison", q) /\ ValidQuery(q) /\ Compares(q)
  \/ \E c \in Ids :
       /\ Away("result", c)
       /\ Navigates("result", ResultView(c), OtherResult(c), calls)
Visit == \/ Mounts("elsewhere", Plain)
         \/ VisitTeacher \/ VisitAdmin \/ VisitResult

----------------------------------------------------------------------------
(***************************************************************************)
(* The calls of handlers.  The server carries one out; its answer, good or *)
(* not, may come at any time after, an error also before.                  *)
(***************************************************************************)
CarryOut(w) ==
  /\ ~w.done
  /\ IF w.kind \in Reads THEN UNCHANGED db
     ELSE db < MaxVersion /\ db' = db + 1
  /\ calls' = (calls \ {w}) \cup
       {[w EXCEPT !.done = TRUE,
                  !.version = IF w.kind \in Reads THEN 0 ELSE db + 1]}
  /\ reload' = {}
  /\ UNCHANGED <<screen, view, ack>>

GoodAnswer(w) == \/ CoursePagesAnswer(w) \/ AdminPagesAnswer(w)
                 \/ ResultPagesAnswer(w) \/ PreviousFound(w) \/ PreviousNone(w)

FailureView(w) ==
  CASE ~w.mounted                  -> view
    [] w.mounted /\ screen = "course" -> CoursePagesFailure(w)
    [] w.mounted /\ screen \in {"history", "submission"} -> ResultPagesFailure(w)
    [] OTHER                       -> view
BadAnswer(w) ==
  /\ view' = FailureView(w) /\ reload' = {}
  /\ calls' = calls \ {w}
  /\ UNCHANGED <<screen, db, ack>>

\* A page that is gone does nothing with a good answer.
LateAnswer(w) ==
  /\ w.done /\ ~w.mounted /\ w.kind \notin {"create", "clone", "previous"}
  /\ calls' = calls \ {w} /\ reload' = {}
  /\ UNCHANGED <<screen, view, db, ack>>

CallStep(w) == CarryOut(w) \/ BadAnswer(w) \/ LateAnswer(w)
AnswerStep(w) == GoodAnswer(w) \/ CancelRefused(w)

----------------------------------------------------------------------------
(***************************************************************************)
(* The requests of loaders.  The answer of one of them changes more than   *)
(* its content: the whole page of a submission waits for it, and the list  *)
(* of executions it brings, or empties, is a new one.                      *)
(***************************************************************************)
Settles(l, new, v, ls) ==
  /\ view' = v /\ reload' = ls
  /\ UNCHANGED <<screen, calls, db, ack>>
  /\ Effects([loads EXCEPT ![l] = new], Wanted)
Moves(l, new) == Settles(l, new, view, {})
Settled(l, new, v) ==
  IF l = "submission" THEN Settles(l, new, v, {"trace"}) ELSE Moves(l, new)

RequestStep(l, r) ==
  \/ r.stage = "timer" /\ Moves(l, TimerFires(loads[l], r))
  \/ r.stage = "sent" /\ Moves(l, ServerReads(loads[l], r, db))
  \/ r.stage = "read" /\ Moves(l, HeadersArrive(loads[l], r))
  \/ /\ r.stage = "body"
     /\ \E of \in {r.key.of, {}} :
          Settled(l, Answered(loads[l], r), OverviewRead(view, of))
  \/ /\ r.stage # "timer"
     /\ Settled(l, Failed(Loader(l).traits, loads[l], r), OverviewFailed(view))

\* The same for a submission that is not watched: of any that was asked for.
SubmissionSettles ==
  /\ screen = "submission" /\ "submission" \notin DOMAIN loads
  /\ \/ \E of \in {{}} \cup {{i} : i \in Ids} :
          SetAndReload(OverviewRead(view, of), {"trace"})
     \/ SetAndReload(OverviewFailed(view), {"trace"})

----------------------------------------------------------------------------
PageStep ==
  \/ CoursePagesNext \/ AdminPagesNext \/ ResultPagesNext
  \/ CourseLinks \/ AdminLinks \/ ResultLinks \/ Visit
  \/ SubmissionSettles
  \/ \E w \in calls : CallStep(w)

Watching(watched) ==
  /\ screen = "elsewhere" /\ view = Plain /\ reload = {} /\ calls = {}
  /\ loads = [l \in watched |-> Idle]
  /\ db = 0 /\ ack = [l \in watched |-> 0]
Init == \E watched \in SUBSET LoaderNames : Watching(watched)

Next ==
  \/ PageStep /\ Effects(loads, Wanted)
  \/ \E w \in calls : AnswerStep(w) /\ Effects(Written(w), AskedBy(w))
  \/ \E l \in DOMAIN loads : \E r \in loads[l].asked : RequestStep(l, r)

Spec == Init /\ [][Next]_pageVars

----------------------------------------------------------------------------
(***************************************************************************)
(* Properties.                                                             *)
(***************************************************************************)
Lists == [search : Searches, page : 1..LastPage]
Dialogs(kinds, targets) == {Closed} \cup [kind : kinds, target : targets]
Ranges == [min : Sizes \cup {0}, max : Sizes \cup {0}]
FilterSets == [aggregation : {"median", "mean"}, dispersion : BOOLEAN,
               scale : {"linear", "log"}, range : Ranges]
IdsOrNone == Ids \cup {0}

CourseViews ==
  [id : Ids, membership : {"active", "inactive", "all"},
   attention : {"all", "some"}, search : Searches, page : 1..LastPage,
   editing : BOOLEAN, showAdd : BOOLEAN,
   dialog : Dialogs({"status", "clone", "remove"}, IdsOrNone),
   protocolForm : {"closed", "create", "edit"}, actionId : IdsOrNone]
StudentViews ==
  [id : Ids, tab : StudentTabs, execution : IdsOrNone,
   lists : [StudentTabs -> Lists]]
UserViews ==
  [id : Ids, tab : {"executions", "submissions", "audit"}, list : Lists,
   execution : IdsOrNone, dialog : Dialogs({"access", "role"}, Ids)]
RequestsViews ==
  [status : {"PENDING", "APPROVED", "REJECTED"}, list : Lists,
   dialog : Dialogs({"approve", "reject"}, Ids)]
OverviewViews ==
  [id : Ids, reading : BOOLEAN, refused : BOOLEAN, traced : SUBSET Ids,
   editingNote : BOOLEAN, comparing : BOOLEAN,
   chosen : {q \in SUBSET Executions :
               Cardinality(q) <= MAX_COMPARISON_EXECUTIONS},
   reference : [kind : {"closed", "loading", "shown", "failed"},
                of : IdsOrNone],
   previous : IdsOrNone, viewer : IdsOrNone]
ComparisonViews ==
  [id : {q \in SUBSET Executions : ValidQuery(q)}, historyOpen : BOOLEAN,
   incompatible : BOOLEAN, audit : BOOLEAN, filters : FilterSets, ai : {0, 1}]
ResultViews ==
  [id : Ids, expanded : BOOLEAN, viewer : IdsOrNone,
   category : {"summary", "cpu"}, advanced : BOOLEAN,
   filters : {f \in FilterSets : ~Inverted(f.range)}, ai : IdsOrNone]

ViewOK ==
  CASE screen = "elsewhere"  -> view = Plain
    [] screen = "courses"    -> view \in [tab : {"active", "historic"},
                                          search : Searches, showCreate : BOOLEAN]
    [] screen = "course"     -> view \in CourseViews
    [] screen = "student"    -> view \in StudentViews
    [] screen = "users"      -> view \in [list : Lists,
                                          preauthorizationOpen : BOOLEAN]
    [] screen = "user"       -> view \in UserViews
    [] screen = "requests"   -> view \in RequestsViews
    [] screen = "audit"      -> view \in [list : Lists]
    [] screen = "status"     -> view = Plain
    [] screen = "history"    -> view.list \in Lists
    [] screen = "submission" -> view \in OverviewViews
    [] screen = "comparison" -> view \in ComparisonViews
    [] screen = "result"     -> view \in ResultViews

\* The type invariant: every page keeps a view of its own kind, a comparison
\* always one of two to four executions and the results an ordered range, and
\* no content or mutation is newer than the database.
PagesTypeOK ==
  /\ ViewOK
  /\ DOMAIN loads \subseteq LoaderNames /\ DOMAIN ack = DOMAIN loads
  /\ \A l \in DOMAIN loads :
       /\ loads[l].shown.version <= db /\ ack[l] <= db
       /\ \A r \in loads[l].asked :
            /\ Asks(r.key) /\ r.version <= db
            /\ r.stage \in {"timer", "sent", "read", "body"}
  /\ Cardinality(calls) <= MaxCalls
  /\ \A w \in calls : w.version <= db /\ (w.version > 0 => w.done)
  /\ db <= MaxVersion

\* What is guarded: a cleanup of the effect, or a flag that it clears.
GuardedLoaders == {l \in DOMAIN loads : "guarded" \in Loader(l).traits}

\* Those of them whose content a handler writes, too (Written).
Writable == {"course", "userProfile"}

Latest == INSTANCE LatestAnswer WITH
            Silent   <- {Off, Paused},
            NoValue  <- Off,
            Writable <- Writable,
            want     <- [l \in GuardedLoaders |-> Loader(l).key],
            pending  <- [l \in GuardedLoaders |-> loads[l].asked # {}],
            failed   <- [l \in GuardedLoaders |-> loads[l].failed],
            shown    <- [l \in GuardedLoaders |-> loads[l].shown.key]

\* However its answers are delayed, lost or overtaken by one another while the
\* page is turned, filtered or left, a guarded loader ends up showing what its
\* page asks for now: no answer to what it asked for before comes back.  Only a
\* handler may put a course, or a field of a user, on screen under an address
\* it was not asked for; the page is read anew in the same step.
ShowsTheLatest == Latest!Spec

\* A teacher or an administrator who was told of a change never looks at what
\* was read before it: once the page is settled, the lists that the change is
\* about were read after it, whatever reads were under way when it was made.
ReadYourWrites ==
  \A l \in GuardedLoaders :
    loads[l].asked = {} /\ ~loads[l].failed /\ Asks(Loader(l).key)
      => loads[l].shown.version >= ack[l]

DecisionKinds ==
  {"status", "clone", "remove", "access", "role", "approve", "reject"}
UnderWay(kind, target) ==
  \E w \in calls : w.mounted /\ w.kind = kind /\ w.target = target
OneOfAKind ==
  \A w \in calls : w.mounted /\ w.kind \in DecisionKinds =>
    /\ screen = "user" \/ view.dialog = Dialog(w.kind, w.target)
    /\ \A x \in calls : x.mounted /\ x.kind = w.kind => x = w
TurnedToAnother == screen = "user" /\ screen' = "user" /\ view'.id # view.id

\* While a confirmed decision is carried out its dialog stays, with the target
\* it was confirmed for: it cannot be dismissed, or give way to another, and no
\* decision of its kind is confirmed meanwhile.  Only turning the page of a user
\* to another user takes the dialog away.
DecisionStaysOnScreen ==
  [][/\ OneOfAKind'
     /\ \A kind \in DecisionKinds, target \in IdsOrNone :
          UnderWay(kind, target)' /\ view.dialog = Dialog(kind, target) =>
            TurnedToAnother \/ view'.dialog = view.dialog]_pageVars
=============================================================================
