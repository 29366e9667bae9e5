------------------------- MODULE ClientPagesProofs --------------------------
(***************************************************************************)
(* Proofs about ClientPages, for every set of ids, searches, executions    *)
(* and sizes, every bound and whichever loaders are watched.               *)
(***************************************************************************)
EXTENDS ClientPages, TLAPS

LoaderFields == {"asked", "loading", "failed", "shown"}
RequestFields == {"key", "stage", "version"}

LEMMA IdleFields ==
  DOMAIN Idle = LoaderFields /\ Idle.asked = {} /\ Idle.shown = Nothing
BY DEF Idle, LoaderFields

LEMMA CleanedUpFields ==
  ASSUME NEW k, NEW l, DOMAIN l = LoaderFields
  PROVE  /\ DOMAIN CleanedUp(k, l) = LoaderFields
         /\ CleanedUp(k, l).asked = Aborted(k, l)
         /\ CleanedUp(k, l).shown \in {l.shown, Nothing}
BY DEF CleanedUp, LoaderFields, Emptied

LEMMA RequestMade ==
  ASSUME NEW key, NEW s
  PROVE  /\ DOMAIN Request(key, s) = RequestFields
         /\ Request(key, s).key = key /\ Request(key, s).stage = s
BY DEF Request, RequestFields

\* A guarded loader that starts again has one request, for its new dependencies.
LEMMA StartedFields ==
  ASSUME NEW k, NEW l, NEW key, DOMAIN l = LoaderFields, l.asked = {}
  PROVE  /\ DOMAIN Started(k, l, key) = LoaderFields
         /\ \E s \in {"timer", "sent"} : Started(k, l, key).asked = {Request(key, s)}
         /\ Started(k, l, key).shown \in {l.shown, Nothing}
<1>1. CASE "delayed" \in k
  BY <1>1 DEF Started, LoaderFields
<1>2. CASE "delayed" \notin k
  BY <1>2 DEF Started, LoaderFields
<1>3. QED
  BY <1>1, <1>2

LEMMA RerunFields ==
  ASSUME NEW k, NEW l, NEW key, DOMAIN l = LoaderFields, "guarded" \in k
  PROVE  /\ DOMAIN Rerun(k, l, key) = LoaderFields
         /\ Asks(key) => \E s \in {"timer", "sent"} :
                           Rerun(k, l, key).asked = {Request(key, s)}
         /\ ~Asks(key) => Rerun(k, l, key).asked = {}
         /\ Rerun(k, l, key).shown \in {l.shown, Nothing}
<1> DEFINE c == CleanedUp(k, l)
           b == [c EXCEPT !.failed = IF "delayed" \in k THEN @
                                     ELSE Disturbed(k, l)]
<1>0. Off # Paused
  BY DEF Off, Paused, Key
<1>1. DOMAIN c = LoaderFields /\ c.asked = {} /\ c.shown \in {l.shown, Nothing}
  BY CleanedUpFields DEF Aborted
<1>2. DOMAIN b = LoaderFields /\ b.asked = {} /\ b.shown \in {l.shown, Nothing}
  BY <1>1 DEF LoaderFields
<1>3. CASE key = Off
  <2>1. Rerun(k, l, key) = Idle /\ ~Asks(key)
    BY <1>3, <1>0 DEF Rerun, Asks
  <2>2. QED
    BY <2>1, IdleFields
<1>4. CASE key = Paused
  <2>1. Rerun(k, l, key) = IF "vacates" \in k THEN Idle ELSE c
    BY <1>0, <1>4 DEF Rerun
  <2> HIDE DEF c
  <2>2. QED
    BY <1>1, <1>4, <2>1, IdleFields DEF Asks
<1>5. CASE Asks(key)
  <2>1. Rerun(k, l, key) = Started(k, b, key)
    BY <1>5 DEF Rerun, Asks
  <2> HIDE DEF b
  <2>2. /\ DOMAIN Started(k, b, key) = LoaderFields
        /\ \E s \in {"timer", "sent"} : Started(k, b, key).asked = {Request(key, s)}
        /\ Started(k, b, key).shown \in {b.shown, Nothing}
    BY <1>2, StartedFields
  <2>3. QED
    BY <1>2, <1>5, <2>1, <2>2
<1>6. QED
  BY <1>3, <1>4, <1>5 DEF Asks

LEMMA TraitsFixed ==
  ASSUME NEW l \in LoaderNames
  PROVE  Loader(l).traits' = Loader(l).traits
BY DEF LoaderNames, Loader, Effect,
       CandidatesLoader, CoursesLoader, EditCandidatesLoader, CourseLoader,
       AttentionLoader, StudentsLoader, AnalyticsLoader, ProtocolsLoader,
       PoliciesLoader, ProfileLoader, ExecutionsLoader, SubmissionsLoader,
       ExecutionLoader, UsersLoader, UserProfileLoader, UserExecutionsLoader,
       UserSubmissionsLoader, UserAuditLoader, UserExecutionLoader,
       RequestsLoader, AuditLogLoader, StatusLoader, HistoryLoader,
       HistoryOptionsLoader, SubmissionLoader, TraceLoader, SourceLoader,
       ComparisonLoader, HistoricalLoader, ResultsLoader,
       ReproducibilityLoader

LEMMA SameScreenSameKeys ==
  ASSUME NEW l \in LoaderNames, screen' = screen, view' = view
  PROVE  Loader(l).key' = Loader(l).key
BY DEF LoaderNames, Loader, Effect, ListKey, UserTabKey, HistoryKey,
       CandidatesLoader, CoursesLoader, EditCandidatesLoader, CourseLoader,
       AttentionLoader, StudentsLoader, AnalyticsLoader, ProtocolsLoader,
       PoliciesLoader, ProfileLoader, ExecutionsLoader, SubmissionsLoader,
       ExecutionLoader, UsersLoader, UserProfileLoader, UserExecutionsLoader,
       UserSubmissionsLoader, UserAuditLoader, UserExecutionLoader,
       RequestsLoader, AuditLogLoader, StatusLoader, HistoryLoader,
       HistoryOptionsLoader, SubmissionLoader, TraceLoader, SourceLoader,
       ComparisonLoader, HistoricalLoader, ResultsLoader,
       ReproducibilityLoader

LEMMA NothingElsewhere ==
  ASSUME NEW l \in LoaderNames, screen = "elsewhere"
  PROVE  Loader(l).key = Off
BY DEF LoaderNames, Loader, Effect,
       CandidatesLoader, CoursesLoader, EditCandidatesLoader, CourseLoader,
       AttentionLoader, StudentsLoader, AnalyticsLoader, ProtocolsLoader,
       PoliciesLoader, ProfileLoader, ExecutionsLoader, SubmissionsLoader,
       ExecutionLoader, UsersLoader, UserProfileLoader, UserExecutionsLoader,
       UserSubmissionsLoader, UserAuditLoader, UserExecutionLoader,
       RequestsLoader, AuditLogLoader, StatusLoader, HistoryLoader,
       HistoryOptionsLoader, SubmissionLoader, TraceLoader, SourceLoader,
       ComparisonLoader, HistoricalLoader, ResultsLoader,
       ReproducibilityLoader

----------------------------------------------------------------------------
(***************************************************************************)
(* The only request of a guarded loader moves on.                          *)
(***************************************************************************)
MovesOn(l, r) ==
  \/ r.stage = "timer" /\ loads'[l] = TimerFires(loads[l], r)
  \/ r.stage = "sent" /\ loads'[l] = ServerReads(loads[l], r, db)
  \/ r.stage = "read" /\ loads'[l] = HeadersArrive(loads[l], r)
  \/ r.stage = "body" /\ loads'[l] = Answered(loads[l], r)
  \/ r.stage # "timer" /\ loads'[l] = Failed(Loader(l).traits, loads[l], r)

\* loads'[l] has one request for the same dependencies as r.
StillAsked(l, r) ==
  /\ \E s : /\ loads'[l].asked = {s} /\ DOMAIN s = RequestFields
           /\ s.key = r.key
  /\ loads'[l].shown = loads[l].shown

LEMMA RequestMoves ==
  ASSUME NEW l, NEW r, DOMAIN loads[l] = LoaderFields,
         loads[l].asked = {r}, DOMAIN r = RequestFields, MovesOn(l, r)
  PROVE  /\ DOMAIN loads'[l] = LoaderFields
         /\ \/ StillAsked(l, r)
            \/ /\ loads'[l].asked = {} /\ loads'[l].failed = loads[l].failed
               /\ loads'[l].shown = [key |-> r.key, version |-> r.version]
            \/ /\ loads'[l].asked = {} /\ loads'[l].failed
               /\ loads'[l].shown \in {loads[l].shown, Nothing}
<1>1. CASE loads'[l] = TimerFires(loads[l], r)
  <2> DEFINE s == [r EXCEPT !.stage = "sent"]
  <2>1. DOMAIN s = RequestFields /\ s.key = r.key
    BY DEF RequestFields
  <2>2. QED
    BY <1>1, <2>1 DEF TimerFires, Replaced, LoaderFields, StillAsked
<1>2. CASE loads'[l] = ServerReads(loads[l], r, db)
  <2> DEFINE s == [r EXCEPT !.stage = "read", !.version = db]
  <2>1. DOMAIN s = RequestFields /\ s.key = r.key
    BY DEF RequestFields
  <2>2. QED
    BY <1>2, <2>1 DEF ServerReads, Replaced, LoaderFields, StillAsked
<1>3. CASE loads'[l] = HeadersArrive(loads[l], r)
  <2> DEFINE s == [r EXCEPT !.stage = "body"]
  <2>1. DOMAIN s = RequestFields /\ s.key = r.key
    BY DEF RequestFields
  <2>2. QED
    BY <1>3, <2>1 DEF HeadersArrive, Replaced, LoaderFields, StillAsked
<1>4. CASE loads'[l] = Answered(loads[l], r)
  BY <1>4 DEF Answered, LoaderFields
<1>5. CASE loads'[l] = Failed(Loader(l).traits, loads[l], r)
  BY <1>5 DEF Failed, LoaderFields, Emptied
<1>6. QED
  BY <1>1, <1>2, <1>3, <1>4, <1>5 DEF MovesOn

----------------------------------------------------------------------------
(***************************************************************************)
(* The pivot: whatever the page does, a step leaves a guarded loader as it *)
(* was, runs its effect again, or moves its request on.                    *)
(***************************************************************************)
Untouched(l) ==
  /\ loads'[l] = loads[l] /\ Loader(l).key' = Loader(l).key
  /\ l \notin reload'
\* A handler may have written the content of a writable one before.
RunsAgain(l) ==
  \E b : /\ DOMAIN b = DOMAIN loads[l] /\ (l \notin Writable => b = loads[l])
         /\ loads'[l] = Rerun(Loader(l).traits, b, Loader(l).key')
Settling(l) ==
  /\ Loader(l).key' = Loader(l).key /\ ack' = ack /\ db' = db
  /\ \E r \in loads[l].asked : MovesOn(l, r)

LEMMA EffectsOn ==
  ASSUME NEW l \in DOMAIN loads, NEW base, NEW asked,
         asked[l] = Loader(l).key', Effects(base, asked)
  PROVE  \/ /\ loads'[l] = Rerun(Loader(l).traits, base[l], Loader(l).key')
            /\ (Loader(l).key' # Loader(l).key \/ l \in reload')
         \/ /\ loads'[l] = base[l] /\ Loader(l).key' = Loader(l).key
            /\ l \notin reload'
BY DEF Effects

LEMMA WantedByAll ==
  ASSUME NEW l \in DOMAIN loads
  PROVE  Wanted[l] = Loader(l).key'
BY DEF Wanted

LEMMA GuardedOnes ==
  /\ "history" \notin GuardedLoaders /\ "submission" \notin GuardedLoaders
  /\ GuardedLoaders \subseteq DOMAIN loads
BY DEF GuardedLoaders, Loader, HistoryLoader, SubmissionLoader, Effect

\* What a handler writes, it also reads again.
LEMMA WrittenIsReloaded ==
  ASSUME NEW w, AnswerStep(w)
  PROVE  /\ w.kind \in {"save", "status"} => "course" \in reload'
         /\ w.kind \in {"access", "role"} => "userProfile" \in reload'
<1>1. CASE w.kind \in {"save", "status"}
  <2>1. CourseSaved(w) \/ StatusChanged(w)
    BY <1>1 DEF AnswerStep, GoodAnswer, CoursePagesAnswer, AdminPagesAnswer,
         ResultPagesAnswer, CourseCreated, CourseCloned, StudentsAdded,
         StudentRemoved, StudentRestored, ProtocolSaved, ProtocolActedOn,
         StudentsExported, Preauthorized, AccessChanged, RoleChanged,
         Resolved, ItemArchived, NoteSaved, PinToggled, RecordArchived,
         ArchiveDownloaded, ExecutionCancelled, ReferencesRead,
         ComparisonExplained, Explained, CsvDownloaded, ArtifactDownloaded,
         PreviousFound, PreviousNone, CancelRefused
  <2>2. QED
    BY <1>1, <2>1
       DEF CourseSaved, StatusChanged, Patched, Succeeds, CourseReloads
<1>2. CASE w.kind \in {"access", "role"}
  <2>1. AccessChanged(w) \/ RoleChanged(w)
    BY <1>2 DEF AnswerStep, GoodAnswer, CoursePagesAnswer, AdminPagesAnswer,
         ResultPagesAnswer, CourseCreated, CourseCloned, CourseSaved,
         StatusChanged, StudentsAdded, StudentRemoved, StudentRestored,
         ProtocolSaved, ProtocolActedOn, StudentsExported, Preauthorized,
         Resolved, ItemArchived, NoteSaved, PinToggled, RecordArchived,
         ArchiveDownloaded, ExecutionCancelled, ReferencesRead,
         ComparisonExplained, Explained, CsvDownloaded, ArtifactDownloaded,
         PreviousFound, PreviousNone, CancelRefused
  <2>2. QED
    BY <1>2, <2>1 DEF AccessChanged, RoleChanged, Succeeds
<1>3. QED
  BY <1>1, <1>2

LEMMA WrittenTo ==
  ASSUME NEW w, AnswerStep(w), NEW l \in DOMAIN loads,
         l \notin {"history", "submission"}
  PROVE  /\ DOMAIN Written(w)[l] = DOMAIN loads[l]
         /\ l \notin Writable \/ l \notin reload' => Written(w)[l] = loads[l]
         /\ AskedBy(w)[l] = Loader(l).key'
<1>1. AskedBy(w)[l] = Loader(l).key'
  BY DEF AskedBy
<1>2. CASE l = "course"
  <2>1. Written(w)[l] = IF w.kind \in {"save", "status"}
                        THEN [loads[l] EXCEPT
                               !.shown = [key |-> Key(w.of, l, "", 1),
                                          version |-> w.version]]
                        ELSE loads[l]
    BY <1>2 DEF Written
  <2>2. QED
    BY <1>1, <1>2, <2>1, WrittenIsReloaded DEF Writable
<1>3. CASE l = "userProfile"
  <2>1. Written(w)[l] = IF w.kind \in {"access", "role"}
                        THEN Mixed(loads[l], w) ELSE loads[l]
    BY <1>3 DEF Written
  <2>2. QED
    BY <1>1, <1>3, <2>1, WrittenIsReloaded DEF Writable, Mixed
<1>4. CASE l \notin {"course", "userProfile"}
  <2>1. Written(w)[l] = loads[l]
    BY <1>4 DEF Written
  <2>2. QED
    BY <1>1, <2>1
<1>5. QED
  BY <1>2, <1>3, <1>4

LEMMA LoaderStep ==
  ASSUME DOMAIN loads \subseteq LoaderNames, Next, NEW l \in GuardedLoaders
  PROVE  Untouched(l) \/ RunsAgain(l) \/ Settling(l)
<1>1. l \in DOMAIN loads /\ l \notin {"history", "submission"}
  BY GuardedOnes
<1>2. CASE PageStep /\ Effects(loads, Wanted)
  BY <1>1, <1>2, EffectsOn, WantedByAll DEF Untouched, RunsAgain
<1>3. ASSUME NEW w \in calls, AnswerStep(w) /\ Effects(Written(w), AskedBy(w))
      PROVE  Untouched(l) \/ RunsAgain(l) \/ Settling(l)
  <2> DEFINE base == Written(w)
             asked == AskedBy(w)
  <2>1. /\ DOMAIN base[l] = DOMAIN loads[l] /\ asked[l] = Loader(l).key'
        /\ l \notin Writable \/ l \notin reload' => base[l] = loads[l]
    BY <1>1, <1>3, WrittenTo
  <2>2. Effects(base, asked)
    BY <1>3
  <2> HIDE DEF base, asked
  <2>3. \/ /\ loads'[l] = Rerun(Loader(l).traits, base[l], Loader(l).key')
           /\ (Loader(l).key' # Loader(l).key \/ l \in reload')
        \/ /\ loads'[l] = base[l] /\ Loader(l).key' = Loader(l).key
           /\ l \notin reload'
    BY <1>1, <2>1, <2>2, EffectsOn
  <2>4. QED
    BY <2>1, <2>3 DEF Untouched, RunsAgain
<1>4. ASSUME NEW m \in DOMAIN loads, NEW r \in loads[m].asked,
             RequestStep(m, r)
      PROVE  Untouched(l) \/ RunsAgain(l) \/ Settling(l)
  <2>1. PICK new, v, ls : /\ Settles(m, new, v, ls)
                          /\ m # "submission" => v = view /\ ls = {}
    BY <1>4 DEF RequestStep, Settled, Moves
  <2> DEFINE base == [loads EXCEPT ![m] = new]
  <2>2. Effects(base, Wanted) /\ screen' = screen /\ view' = v /\ reload' = ls
    BY <2>1 DEF Settles
  <2>3. CASE m # l
    <3>1. base[l] = loads[l]
      BY <1>1, <2>3
    <3> HIDE DEF base
    <3>2. QED
      BY <1>1, <2>2, <3>1, EffectsOn, WantedByAll DEF Untouched, RunsAgain
  <2>4. CASE m = l
    <3>1. Loader(l).key' = Loader(l).key
      BY <1>1, <2>1, <2>2, <2>4, SameScreenSameKeys
    <3>2. ASSUME NEW n, NEW u, Settles(m, n, u, {})
          PROVE  loads'[l] = n /\ ack' = ack /\ db' = db
      <4>1. Effects([loads EXCEPT ![m] = n], Wanted) /\ reload' = {}
            /\ ack' = ack /\ db' = db
        BY <3>2 DEF Settles
      <4>2. [loads EXCEPT ![m] = n][l] = n
        BY <1>1, <2>4
      <4>3. QED
        BY <1>1, <3>1, <4>1, <4>2, EffectsOn, WantedByAll
    <3>3. MovesOn(l, r)
      BY <1>1, <1>4, <2>4, <3>2
         DEF RequestStep, Settled, Moves, MovesOn
    <3>4. ack' = ack /\ db' = db
      BY <1>1, <2>1, <2>4, <3>2
    <3>5. QED
      BY <1>4, <2>4, <3>1, <3>3, <3>4 DEF Settling
  <2>5. QED
    BY <2>3, <2>4
<1>5. QED
  BY <1>2, <1>4, <1>3 DEF Next

----------------------------------------------------------------------------
(***************************************************************************)
(* The inductive invariant: what a guarded loader has under way is one     *)
(* request, for the dependencies it has now, and nothing when it asks for  *)
(* nothing.                                                                *)
(***************************************************************************)
OneRequest(l) ==
  /\ DOMAIN loads[l] = LoaderFields
  /\ \/ loads[l].asked = {}
     \/ /\ Asks(Loader(l).key)
        /\ \E r : /\ loads[l].asked = {r} /\ DOMAIN r = RequestFields
                 /\ r.key = Loader(l).key

RequestsInv ==
  /\ DOMAIN loads \subseteq LoaderNames
  /\ \A l \in GuardedLoaders : OneRequest(l)

\* A step keeps the loaders and which of them are guarded.
LEMMA LoadersStay ==
  ASSUME DOMAIN loads \subseteq LoaderNames, [Next]_pageVars
  PROVE  DOMAIN loads' = DOMAIN loads /\ GuardedLoaders' = GuardedLoaders
<1>1. DOMAIN loads' = DOMAIN loads
  BY DEF Next, RequestStep, Settled, Moves, Settles, Effects, pageVars
<1>2. \A l \in DOMAIN loads : Loader(l).traits' = Loader(l).traits
  BY TraitsFixed
<1>3. QED
  BY <1>1, <1>2 DEF GuardedLoaders

LEMMA RequestsInit ==
  ASSUME Init
  PROVE  RequestsInv
<1>1. DOMAIN loads \subseteq LoaderNames /\ \A l \in DOMAIN loads : loads[l] = Idle
  BY DEF Init, Watching
<1>2. QED
  BY <1>1, IdleFields, GuardedOnes DEF RequestsInv, OneRequest

LEMMA RunsAgainShape ==
  ASSUME NEW l \in GuardedLoaders, DOMAIN loads[l] = LoaderFields, RunsAgain(l)
  PROVE  /\ DOMAIN loads'[l] = LoaderFields
         /\ Asks(Loader(l).key')
              => \E s \in {"timer", "sent"} :
                   loads'[l].asked = {Request(Loader(l).key', s)}
         /\ ~Asks(Loader(l).key') => loads'[l].asked = {}
         /\ l \in Writable \/ loads'[l].shown \in {loads[l].shown, Nothing}
<1>1. "guarded" \in Loader(l).traits
  BY DEF GuardedLoaders
<1> DEFINE k == Loader(l).traits
           key == Loader(l).key'
<1>2. PICK b : /\ DOMAIN b = LoaderFields /\ (l \notin Writable => b = loads[l])
               /\ loads'[l] = Rerun(k, b, key) /\ "guarded" \in k
  BY <1>1 DEF RunsAgain
<1> HIDE DEF k, key
<1>3. QED
  BY <1>2, RerunFields DEF key

LEMMA OneRequestStays ==
  ASSUME RequestsInv, Next, NEW l \in GuardedLoaders
  PROVE  OneRequest(l)'
<1>1. OneRequest(l) /\ DOMAIN loads \subseteq LoaderNames
  BY DEF RequestsInv
<1>2. CASE Untouched(l)
  BY <1>1, <1>2 DEF OneRequest, Untouched, Asks, Off, Paused, Key
<1>3. CASE RunsAgain(l)
  <2>1. CASE Asks(Loader(l).key')
    <3>1. PICK s : loads'[l].asked = {Request(Loader(l).key', s)}
      BY <1>1, <1>3, <2>1, RunsAgainShape DEF OneRequest
    <3>2. /\ DOMAIN Request(Loader(l).key', s) = RequestFields
          /\ Request(Loader(l).key', s).key = Loader(l).key'
      BY RequestMade
    <3>3. DOMAIN loads'[l] = LoaderFields
      BY <1>1, <1>3, RunsAgainShape DEF OneRequest
    <3>4. QED
      BY <2>1, <3>1, <3>2, <3>3 DEF OneRequest, Asks, Off, Paused, Key
  <2>2. CASE ~Asks(Loader(l).key')
    BY <1>1, <1>3, <2>2, RunsAgainShape DEF OneRequest
  <2>3. QED
    BY <2>1, <2>2
<1>4. CASE Settling(l)
  <2>1. PICK r \in loads[l].asked : MovesOn(l, r)
    BY <1>4 DEF Settling
  <2>2. /\ loads[l].asked = {r} /\ DOMAIN r = RequestFields
        /\ r.key = Loader(l).key /\ Asks(Loader(l).key)
    BY <1>1, <2>1 DEF OneRequest
  <2>3. DOMAIN loads'[l] = LoaderFields
        /\ (StillAsked(l, r) \/ loads'[l].asked = {})
    BY <1>1, <2>1, <2>2, RequestMoves DEF OneRequest
  <2>4. Loader(l).key' = Loader(l).key
    BY <1>4 DEF Settling
  <2>5. QED
    BY <2>2, <2>3, <2>4 DEF OneRequest, StillAsked, Asks, Off, Paused, Key
<1>5. QED
  BY <1>1, <1>2, <1>3, <1>4, LoaderStep

LEMMA RequestsStep ==
  ASSUME RequestsInv, [Next]_pageVars
  PROVE  RequestsInv'
<1>1. DOMAIN loads \subseteq LoaderNames
  BY DEF RequestsInv
<1>2. CASE Next
  <2>1. DOMAIN loads' = DOMAIN loads /\ GuardedLoaders' = GuardedLoaders
    BY <1>1, LoadersStay
  <2>2. \A l \in GuardedLoaders : OneRequest(l)'
    BY <1>2, OneRequestStays
  <2>3. QED
    BY <1>1, <2>1, <2>2 DEF RequestsInv
<1>3. CASE UNCHANGED pageVars
  <2>1. \A l \in DOMAIN loads : Loader(l).key' = Loader(l).key
    BY <1>1, <1>3, SameScreenSameKeys DEF pageVars
  <2>2. GuardedLoaders' = GuardedLoaders /\ loads' = loads
    BY <1>1, <1>3, LoadersStay DEF pageVars
  <2>3. QED
    BY <1>1, <2>1, <2>2, GuardedOnes
       DEF RequestsInv, OneRequest, Asks, Off, Paused, Key
<1>4. QED
  BY <1>2, <1>3

\* Of each guarded loader at most one request can still write.
THEOREM OneRequestAtATime == Spec => []RequestsInv
<1>1. Init => RequestsInv
  BY RequestsInit
<1>2. RequestsInv /\ [Next]_pageVars => RequestsInv'
  BY RequestsStep
<1>3. QED
  BY <1>1, <1>2, PTL DEF Spec

----------------------------------------------------------------------------
(***************************************************************************)
(* The refinement.  What LatestAnswer sees of a guarded loader, now and    *)
(* after a step.                                                           *)
(***************************************************************************)
LEMMA LatestView ==
  ASSUME RequestsInv, [Next]_pageVars, NEW l \in GuardedLoaders
  PROVE  /\ Latest!Stays(l) <=>
              /\ Loader(l).key' = Loader(l).key
              /\ (loads[l].asked # {})' = (loads[l].asked # {})
              /\ loads'[l].failed = loads[l].failed
              /\ loads'[l].shown.key = loads[l].shown.key
         /\ Latest!Asks(l) <=>
              /\ loads'[l].asked # {} <=> Loader(l).key' \notin {Off, Paused}
              /\ loads'[l].shown.key \in {loads[l].shown.key, Off}
         /\ Latest!Continues(l) <=>
              /\ loads[l].asked # {} /\ loads'[l].asked # {}
              /\ Loader(l).key' = Loader(l).key
              /\ loads'[l].shown.key = loads[l].shown.key
         /\ Latest!Answers(l) <=>
              /\ loads[l].asked # {} /\ loads'[l].asked = {}
              /\ Loader(l).key' = Loader(l).key
              /\ loads'[l].failed = loads[l].failed
              /\ loads'[l].shown.key = Loader(l).key
         /\ Latest!Fails(l) <=>
              /\ loads[l].asked # {} /\ loads'[l].asked = {}
              /\ Loader(l).key' = Loader(l).key /\ loads'[l].failed
              /\ loads'[l].shown.key \in {loads[l].shown.key, Off}
         /\ Latest!Writes(l) <=>
              /\ l \in Writable
              /\ loads'[l].asked # {} <=> Loader(l).key' \notin {Off, Paused}
<1>1. GuardedLoaders' = GuardedLoaders
  BY LoadersStay DEF RequestsInv
<1>2. QED
  BY <1>1 DEF Latest!Stays, Latest!Asks, Latest!Continues, Latest!Answers,
              Latest!Fails, Latest!Writes

LEMMA LatestStep ==
  ASSUME RequestsInv, Next, NEW l \in GuardedLoaders
  PROVE  \/ Latest!Stays(l) \/ Latest!Asks(l) \/ Latest!Continues(l)
         \/ Latest!Answers(l) \/ Latest!Fails(l) \/ Latest!Writes(l)
<1>1. OneRequest(l) /\ DOMAIN loads \subseteq LoaderNames
  BY DEF RequestsInv
<1>2. Nothing.key = Off
  BY DEF Nothing
<1>3. CASE Untouched(l)
  BY <1>3, LatestView DEF Untouched
<1>4. CASE RunsAgain(l)
  <2>1. l \in Writable \/ loads'[l].shown.key \in {loads[l].shown.key, Off}
    BY <1>1, <1>2, <1>4, RunsAgainShape DEF OneRequest
  <2>2. loads'[l].asked # {} <=> Loader(l).key' \notin {Off, Paused}
    BY <1>1, <1>4, RunsAgainShape DEF OneRequest, Asks
  <2>3. QED
    BY <2>1, <2>2, LatestView
<1>5. CASE Settling(l)
  <2>1. PICK r \in loads[l].asked : MovesOn(l, r)
    BY <1>5 DEF Settling
  <2>2. /\ loads[l].asked = {r} /\ DOMAIN r = RequestFields
        /\ r.key = Loader(l).key
    BY <1>1, <2>1 DEF OneRequest
  <2>3. Loader(l).key' = Loader(l).key
    BY <1>5 DEF Settling
  <2>4. CASE StillAsked(l, r)
    BY <2>2, <2>3, <2>4, LatestView DEF StillAsked
  <2>5. CASE /\ loads'[l].asked = {} /\ loads'[l].failed = loads[l].failed
             /\ loads'[l].shown = [key |-> r.key, version |-> r.version]
    BY <2>2, <2>3, <2>5, LatestView
  <2>6. CASE /\ loads'[l].asked = {} /\ loads'[l].failed
             /\ loads'[l].shown \in {loads[l].shown, Nothing}
    BY <1>2, <2>2, <2>3, <2>6, LatestView
  <2>7. QED
    BY <1>1, <2>1, <2>2, <2>4, <2>5, <2>6, RequestMoves DEF OneRequest
<1>6. QED
  BY <1>1, <1>3, <1>4, <1>5, LoaderStep

LEMMA LatestInit ==
  ASSUME Init
  PROVE  Latest!Init
<1>1. /\ DOMAIN loads \subseteq LoaderNames /\ screen = "elsewhere"
      /\ \A l \in DOMAIN loads : loads[l] = Idle
  BY DEF Init, Watching
<1>2. \A l \in GuardedLoaders : Loader(l).key = Off
  BY <1>1, NothingElsewhere, GuardedOnes
<1>3. Idle.asked = {} /\ ~Idle.failed /\ Idle.shown.key = Off
  BY DEF Idle, Nothing
<1>4. \A l \in GuardedLoaders :
        loads[l].asked = {} /\ ~loads[l].failed /\ loads[l].shown.key = Off
  BY <1>1, <1>3, GuardedOnes
<1>5. QED
  BY <1>2, <1>4 DEF Latest!Init

\* ShowsTheLatest, for every page, every loader and every order of requests
\* and answers, of handlers included: one that puts a course or a field of a
\* user on screen, under whatever address, has the page ask again at once.
THEOREM PagesShowTheLatest == Spec => ShowsTheLatest
<1>1. Init => Latest!Init
  BY LatestInit
<1>2. RequestsInv /\ [Next]_pageVars
        => Latest!Next \/ UNCHANGED Latest!vars
  <2>1. ASSUME RequestsInv, Next
        PROVE  Latest!Next
    BY <2>1, LoadersStay, LatestStep DEF Latest!Next, RequestsInv
  <2>2. ASSUME RequestsInv, UNCHANGED pageVars
        PROVE  UNCHANGED Latest!vars
    <3>1. \A l \in DOMAIN loads : Loader(l).key' = Loader(l).key
      BY <2>2, SameScreenSameKeys DEF pageVars, RequestsInv
    <3>2. GuardedLoaders' = GuardedLoaders /\ loads' = loads
      BY <2>2, LoadersStay DEF pageVars, RequestsInv
    <3>3. QED
      BY <3>1, <3>2, GuardedOnes DEF Latest!vars
  <2>3. QED
    BY <2>1, <2>2
<1>3. QED
  BY <1>1, <1>2, OneRequestAtATime, PTL
     DEF Spec, ShowsTheLatest, Latest!Spec

\* What that refinement promises whoever looks at a page: a guarded loader with
\* no request under way and no error shows what was read for exactly what its
\* effect depends on now, the subject, the tab, the filters and the page; the
\* trace of an archive is that of the executions on screen, which an answer of
\* another submission may have brought.  No content a handler wrote remains.
THEOREM SettledPagesShowWhatIsWanted == Spec => []Latest!ShowsWhatIsWanted
<1>1. Latest!Init => Latest!ShowsWhatIsWanted
  BY DEF Latest!Init, Latest!ShowsWhatIsWanted
<1>2. Latest!ShowsWhatIsWanted /\ [Latest!Next]_Latest!vars
        => Latest!ShowsWhatIsWanted'
  <2>1. ASSUME Latest!ShowsWhatIsWanted, Latest!Next
        PROVE  Latest!ShowsWhatIsWanted'
    BY <2>1 DEF Latest!ShowsWhatIsWanted, Latest!Next, Latest!Stays,
                Latest!Asks, Latest!Continues, Latest!Answers, Latest!Fails,
                Latest!Writes
  <2>2. ASSUME Latest!ShowsWhatIsWanted, UNCHANGED Latest!vars
        PROVE  Latest!ShowsWhatIsWanted'
    BY <2>2 DEF Latest!ShowsWhatIsWanted, Latest!vars
  <2>3. QED
    BY <2>1, <2>2
<1>3. QED
  BY <1>1, <1>2, PagesShowTheLatest, PTL DEF ShowsTheLatest, Latest!Spec

----------------------------------------------------------------------------
(***************************************************************************)
(* Reading one's own writes.  What a step of a page does to the database,  *)
(* the calls and what their handlers were told: nothing (Quiet), an answer *)
(* and the reload of what it is about (Told), or a call is carried out.    *)
(***************************************************************************)
CallFields == {"kind", "target", "of", "mounted", "done", "version"}
CallsOK == \A w \in calls : DOMAIN w = CallFields

Quiet ==
  /\ db' = db /\ ack' = ack /\ CallsOK'
  /\ \A w \in calls' : w.version = 0 \/ \E x \in calls : x.version = w.version

Told ==
  /\ db' = db
  /\ \E w \in calls :
       /\ calls' = calls \ {w} /\ ack' = Learnt(w)
       /\ ReadersOf(w.kind) \subseteq reload' \cup {"submission", "history"}

LEMMA QuietReload ==
  ASSUME CallsOK, NEW v, NEW ls, SetAndReload(v, ls)
  PROVE  Quiet
BY DEF SetAndReload, Quiet, CallsOK

LEMMA QuietSet ==
  ASSUME CallsOK, NEW v, Set(v)
  PROVE  Quiet
BY QuietReload DEF Set

LEMMA QuietSend ==
  ASSUME CallsOK, NEW v, NEW kind, NEW target, SetAndSend(v, kind, target)
  PROVE  Quiet
<1>1. DOMAIN Call(kind, target) = CallFields /\ Call(kind, target).version = 0
  BY DEF Call, CallFields
<1>2. QED
  BY <1>1 DEF SetAndSend, Quiet, CallsOK

LEMMA QuietSendOnly ==
  ASSUME CallsOK, NEW kind, NEW target, Send(kind, target)
  PROVE  Quiet
BY QuietSend DEF Send

\* Calls that are all known, some of them perhaps disowned by their page.
Known(cs) ==
  \A w \in cs : DOMAIN w = CallFields /\ \E x \in calls : x.version = w.version

LEMMA KnownSubset ==
  ASSUME CallsOK, NEW cs \in SUBSET calls
  PROVE  Known(cs)
BY DEF CallsOK, Known

LEMMA KnownAbandoned ==
  ASSUME NEW cs, Known(cs)
  PROVE  Known(Abandoned(cs))
<1> SUFFICES ASSUME NEW x \in cs
             PROVE  LET w == [x EXCEPT !.mounted = FALSE]
                    IN  /\ DOMAIN w = CallFields
                        /\ \E y \in calls : y.version = w.version
  BY DEF Abandoned, Known
<1>1. DOMAIN x = CallFields /\ \E y \in calls : y.version = x.version
  BY DEF Known
<1>2. QED
  BY <1>1 DEF CallFields

LEMMA KnownDisowned ==
  ASSUME NEW cs, Known(cs), NEW kind
  PROVE  Known(Disowned(kind, cs))
<1> SUFFICES ASSUME NEW w \in Disowned(kind, cs)
             PROVE  /\ DOMAIN w = CallFields
                    /\ \E y \in calls : y.version = w.version
  BY DEF Known
<1>1. PICK x \in cs : w \in {x, [x EXCEPT !.mounted = FALSE]}
  BY DEF Disowned
<1>2. DOMAIN x = CallFields /\ \E y \in calls : y.version = x.version
  BY DEF Known
<1>3. QED
  BY <1>1, <1>2 DEF CallFields

LEMMA QuietNavigates ==
  ASSUME CallsOK, NEW s, NEW f, NEW k, NEW cs, Known(cs), Navigates(s, f, k, cs)
  PROVE  Quiet
BY KnownAbandoned DEF Navigates, Quiet, CallsOK, Known

LEMMA QuietMounts ==
  ASSUME CallsOK, NEW s, NEW v, Mounts(s, v)
  PROVE  Quiet
BY KnownSubset, KnownAbandoned DEF Mounts, Quiet, CallsOK, Known

LEMMA QuietCompares ==
  ASSUME CallsOK, NEW q, Compares(q)
  PROVE  Quiet
BY KnownSubset, KnownDisowned, QuietNavigates DEF Compares

----------------------------------------------------------------------------
(***************************************************************************)
(* Every control of every page is quiet.                                   *)
(***************************************************************************)
LEMMA QuietCourses ==
  ASSUME CallsOK, CoursesNext
  PROVE  Quiet
BY QuietSet, QuietReload, QuietSendOnly
   DEF CoursesNext, ToggleCreate, CreateFromEmpty, CreateCourse, ShowCourses,
       SearchCourses, RetryCourseList

LEMMA QuietRoster ==
  ASSUME CallsOK, RosterNext
  PROVE  Quiet
BY QuietSet, QuietReload, QuietSendOnly
   DEF RosterNext, ShowAttentionStudents, RetryAttention, ShowMembership,
       SearchStudents, FilterAttention, TurnRoster, ToggleAdd, AddStudents,
       OpenRemoval, RestoreStudent, ConfirmRemoveStudent

LEMMA QuietProtocols ==
  ASSUME CallsOK, ProtocolsNext
  PROVE  Quiet
BY QuietSet, QuietReload, QuietSend, QuietSendOnly
   DEF ProtocolsNext, RetryAnalytics, RetryProtocols, OpenCreate, CloseForm,
       SaveProtocol, OpenEdit, RunAction

LEMMA QuietCourse ==
  ASSUME CallsOK, CourseNext
  PROVE  Quiet
BY QuietSet, QuietReload, QuietSendOnly, QuietRoster, QuietProtocols
   DEF CourseNext, RetryCourse, ExportStudentsCsv, ToggleEdit, SaveCourse,
       OpenCourseStatusDecision, ConfirmCourseStatus, OpenCloneCourse,
       CloneCourse, CancelDialog

LEMMA QuietStudent ==
  ASSUME CallsOK, StudentNext
  PROVE  Quiet
BY QuietSet, QuietReload
   DEF StudentNext, RetryProfile, CloseExecution, ShowTab, FilterList,
       TurnList, OpenExecution

LEMMA QuietAdmin ==
  ASSUME CallsOK, AdminPagesNext
  PROVE  Quiet
<1>1. CASE UsersNext
  BY <1>1, QuietSet, QuietReload, QuietSendOnly
     DEF UsersNext, FilterUsers, ClearUserFilters, RetryUsers, TurnUsers,
         Turned, TogglePreauthorization, Preauthorize
<1>2. CASE UserNext
  BY <1>2, QuietSet, QuietReload, QuietSendOnly
     DEF UserNext, RetryUser, RetryTab, CloseUserExecution, ShowUserTab,
         FilterTab, TurnedTab, Turned, OpenUserExecution, OpenAccessDecision,
         ConfirmAccessChange, OpenRoleDecision, ConfirmRoleChange,
         CancelDialog
<1>3. CASE RequestsNext
  BY <1>3, QuietSet, QuietReload, QuietSendOnly
     DEF RequestsNext, ShowStatus, SearchRequests, TurnRequests, Turned,
         RetryRequests, OpenDecision, ResolveDecision, CancelDialog
<1>4. CASE AuditNext \/ StatusNext
  BY <1>4, QuietSet, QuietReload
     DEF AuditNext, FilterAudit, ClearAuditFilters, RetryAudit, TurnAudit,
         Turned, StatusNext, RefreshStatus
<1>5. QED
  BY <1>1, <1>2, <1>3, <1>4 DEF AdminPagesNext

LEMMA QuietResults ==
  ASSUME CallsOK, ResultPagesNext
  PROVE  Quiet
<1>1. CASE HistoryNext
  BY <1>1, QuietSet, QuietReload, QuietSend
     DEF HistoryNext, UpdateFilter, ClearFilters, RetryHistory,
         ArchiveSettled, TurnHistory, SetArchived
<1>2. CASE OverviewNext
  BY <1>2, QuietSet, QuietReload, QuietSend, QuietSendOnly
     DEF OverviewNext, RefreshSubmission, RetrySubmission, ReloadSubmission,
         DownloadArchive, EditNote, CancelNote, SaveNote, TogglePinned,
         SetRecordArchived, StartComparison, CancelComparison,
         ToggleComparison, CancelExecution, OpenReferenceCandidates,
         PreviousCompatible, OpenViewer, CloseReferences, CloseViewer
<1>3. CASE ComparisonNext
  BY <1>3, QuietSet, QuietReload, QuietSendOnly, QuietCompares
     DEF ComparisonNext, RetryComparison, ToggleHistorical, RetryHistorical,
         ShowIncompatible, RemoveExecution, AddCandidate, ChooseRange,
         ChooseScale, ChooseAggregation, ToggleDispersion,
         ResetComparisonFilters, LogScaleLost, Filters, ToggleAudit,
         GenerateComparisonAI
<1>4. CASE ResultNext
  BY <1>4, QuietSet, QuietMounts, QuietSendOnly
     DEF ResultNext, ReloadDocument, ToggleAdvanced, ResetFilters,
         ShowCategory, RangeMinChanged, RangeMaxChanged, ResultFilters,
         GenerateAI, DownloadCsv, ToggleReproducibility, DownloadArtifact,
         OpenViewer, CloseViewer
<1>5. QED
  BY <1>1, <1>2, <1>3, <1>4 DEF ResultPagesNext

LEMMA QuietLinks ==
  ASSUME CallsOK, CourseLinks \/ AdminLinks \/ ResultLinks \/ Visit
  PROVE  Quiet
<1>1. Known(calls)
  BY KnownSubset
<1>2. CASE CourseLinks \/ AdminLinks \/ ResultLinks
  BY <1>2, QuietMounts DEF CourseLinks, OpenCourse, AdminLinks, ResultLinks
<1>3. CASE VisitTeacher \/ VisitAdmin
  BY <1>1, <1>3, QuietMounts, QuietNavigates DEF VisitTeacher, VisitAdmin
<1>4. CASE VisitResult \/ Mounts("elsewhere", Plain)
  BY <1>1, <1>4, QuietMounts, QuietNavigates, QuietCompares DEF VisitResult
<1>5. QED
  BY <1>2, <1>3, <1>4 DEF Visit

----------------------------------------------------------------------------
(***************************************************************************)
(* The steps of a call, and every step.                                    *)
(***************************************************************************)
LEMMA ToldSucceeds ==
  ASSUME NEW w \in calls, NEW v, NEW ls, Succeeds(w, v, ls),
         ReadersOf(w.kind) \subseteq ls \cup {"submission", "history"}
  PROVE  Told
BY DEF Succeeds, Told

LEMMA CoursesTold ==
  ASSUME CallsOK, NEW w \in calls, CoursePagesAnswer(w)
  PROVE  Quiet \/ Told
<1>1. CASE CourseCreated(w) \/ CourseCloned(w)
  <2>1. Known(calls \ {w})
    BY KnownSubset
  <2>2. QED
    BY <1>1, <2>1, QuietNavigates DEF CourseCreated, CourseCloned
<1>2. CASE \/ CourseSaved(w) \/ StatusChanged(w) \/ StudentsAdded(w)
           \/ StudentRemoved(w) \/ StudentRestored(w)
  <2>1. ReadersOf(w.kind) = CourseReloads
    BY <1>2 DEF CourseSaved, StatusChanged, StudentsAdded, StudentRemoved,
                StudentRestored, ReadersOf, CourseReloads
  <2>2. QED
    BY <1>2, <2>1, ToldSucceeds
       DEF CourseSaved, StatusChanged, StudentsAdded, StudentRemoved,
           StudentRestored, Patched
<1>3. CASE ProtocolSaved(w) \/ ProtocolActedOn(w)
  <2>1. ReadersOf(w.kind) = {"protocols"}
    BY <1>3 DEF ProtocolSaved, ProtocolActedOn, ReadersOf
  <2>2. QED
    BY <1>3, <2>1, ToldSucceeds DEF ProtocolSaved, ProtocolActedOn
<1>4. CASE StudentsExported(w)
  <2>1. ReadersOf(w.kind) = {}
    BY <1>4 DEF StudentsExported, ReadersOf
  <2>2. QED
    BY <1>4, <2>1, ToldSucceeds DEF StudentsExported
<1>5. QED
  BY <1>1, <1>2, <1>3, <1>4 DEF CoursePagesAnswer

LEMMA AdminTold ==
  ASSUME NEW w \in calls, AdminPagesAnswer(w)
  PROVE  Told
<1>1. CASE Preauthorized(w)
  <2>1. ReadersOf(w.kind) = {"users"}
    BY <1>1 DEF Preauthorized, ReadersOf
  <2>2. QED
    BY <1>1, <2>1, ToldSucceeds DEF Preauthorized
<1>2. CASE AccessChanged(w) \/ RoleChanged(w)
  <2>1. ReadersOf(w.kind) = {"userProfile"}
    BY <1>2 DEF AccessChanged, RoleChanged, ReadersOf
  <2>2. QED
    BY <1>2, <2>1, ToldSucceeds DEF AccessChanged, RoleChanged
<1>3. CASE Resolved(w)
  <2>1. ReadersOf(w.kind) = {"requests"}
    BY <1>3 DEF Resolved, ReadersOf
  <2>2. QED
    BY <1>3, <2>1, ToldSucceeds DEF Resolved
<1>4. QED
  BY <1>1, <1>2, <1>3 DEF AdminPagesAnswer

LEMMA ResultsTold ==
  ASSUME NEW w \in calls, ResultPagesAnswer(w) \/ PreviousNone(w)
  PROVE  Told
<1>1. ReadersOf(w.kind) \subseteq {"submission", "history"}
  BY DEF ResultPagesAnswer, ItemArchived, NoteSaved, PinToggled,
         RecordArchived, ArchiveDownloaded, ExecutionCancelled,
         ReferencesRead, ComparisonExplained, Explained, CsvDownloaded,
         ArtifactDownloaded, PreviousNone, ReadersOf
<1>2. PICK v, ls : Succeeds(w, v, ls)
  BY DEF ResultPagesAnswer, ItemArchived, NoteSaved, PinToggled,
         RecordArchived, ArchiveDownloaded, ExecutionCancelled,
         ReferencesRead, ComparisonExplained, Explained, CsvDownloaded,
         ArtifactDownloaded, PreviousNone
<1>3. QED
  BY <1>1, <1>2, ToldSucceeds

CarriedOut == \E w \in calls : CarryOut(w)

LEMMA StepShape ==
  ASSUME CallsOK, Next
  PROVE  Quiet \/ Told \/ CarriedOut
<1>1. CASE PageStep
  <2>1. CASE \/ CoursePagesNext \/ AdminPagesNext \/ ResultPagesNext
             \/ CourseLinks \/ AdminLinks \/ ResultLinks \/ Visit
    BY <2>1, QuietCourses, QuietCourse, QuietStudent, QuietAdmin,
       QuietResults, QuietLinks DEF CoursePagesNext
  <2>2. CASE SubmissionSettles
    BY <2>2, QuietReload DEF SubmissionSettles
  <2>3. ASSUME NEW w \in calls, CallStep(w)
        PROVE  Quiet \/ Told \/ CarriedOut
    BY <2>3 DEF CallStep, BadAnswer, LateAnswer, Quiet, CallsOK, CarriedOut
  <2>4. QED
    BY <1>1, <2>1, <2>2, <2>3 DEF PageStep
<1>2. ASSUME NEW w \in calls, AnswerStep(w)
      PROVE  Quiet \/ Told
  <2>1. CASE PreviousFound(w)
    BY <2>1, KnownSubset, KnownDisowned, QuietNavigates DEF PreviousFound
  <2>2. CASE CancelRefused(w)
    BY <2>2 DEF CancelRefused, Quiet, CallsOK
  <2>3. QED
    BY <1>2, <2>1, <2>2, CoursesTold, AdminTold, ResultsTold
       DEF AnswerStep, GoodAnswer
<1>3. ASSUME NEW l \in DOMAIN loads, NEW r \in loads[l].asked,
             RequestStep(l, r)
      PROVE  Quiet
  BY <1>3 DEF RequestStep, Settled, Moves, Settles, Quiet, CallsOK
<1>4. QED
  BY <1>1, <1>3, <1>2 DEF Next

----------------------------------------------------------------------------
(***************************************************************************)
(* The second inductive invariant: whatever a guarded loader has read, or  *)
(* is being sent, was read after the last mutation its page was told of.   *)
(***************************************************************************)
VersionsOK ==
  /\ CallsOK /\ db \in Nat
  /\ \A w \in calls : w.version \in 0..db
  /\ DOMAIN ack = DOMAIN loads
  /\ \A l \in DOMAIN loads : ack[l] \in 0..db

FreshSince(l, version) ==
  /\ \A r \in loads[l].asked : r.stage \in {"read", "body"} => r.version >= version
  /\ loads[l].asked = {} /\ ~loads[l].failed /\ Asks(Loader(l).key)
       => loads[l].shown.version >= version

ReadsInv ==
  /\ RequestsInv /\ VersionsOK
  /\ \A l \in GuardedLoaders : FreshSince(l, ack[l])

LEMMA VersionsStep ==
  ASSUME VersionsOK, Next, DOMAIN loads' = DOMAIN loads
  PROVE  VersionsOK'
<1>1. CallsOK /\ db \in Nat
  BY DEF VersionsOK
<1>2. CASE Quiet
  BY <1>2 DEF Quiet, VersionsOK
<1>3. CASE Told
  <2>1. PICK w \in calls : calls' = calls \ {w} /\ ack' = Learnt(w) /\ db' = db
    BY <1>3 DEF Told
  <2>2. w.version \in 0..db
    BY DEF VersionsOK
  <2>3. DOMAIN ack' = DOMAIN ack
        /\ \A l \in DOMAIN ack : ack'[l] \in {ack[l], w.version}
    BY <2>1 DEF Learnt
  <2>4. QED
    BY <2>1, <2>2, <2>3 DEF VersionsOK, CallsOK
<1>4. CASE CarriedOut
  <2>1. PICK w \in calls : CarryOut(w)
    BY <1>4 DEF CarriedOut
  <2>2. db' \in {db, db + 1} /\ ack' = ack
    BY <2>1 DEF CarryOut
  <2> DEFINE x == [w EXCEPT !.done = TRUE,
                            !.version = IF w.kind \in Reads THEN 0 ELSE db + 1]
  <2>3. DOMAIN w = CallFields
    BY <1>1 DEF CallsOK
  <2>4. DOMAIN x = CallFields /\ x.version = IF w.kind \in Reads THEN 0 ELSE db + 1
    BY <2>3 DEF CallFields
  <2>5. calls' = (calls \ {w}) \cup {x}
    BY <2>1 DEF CarryOut
  <2>6. x.version \in 0..db'
    BY <1>1, <2>1, <2>2, <2>4 DEF CarryOut
  <2> HIDE DEF x
  <2>7. CallsOK'
    BY <1>1, <2>4, <2>5 DEF CallsOK
  <2>8. \A y \in calls' : y.version \in 0..db'
    BY <1>1, <2>2, <2>5, <2>6 DEF VersionsOK
  <2>9. QED
    BY <1>1, <2>2, <2>7, <2>8 DEF VersionsOK
<1>5. QED
  BY <1>1, <1>2, <1>3, <1>4, StepShape

\* A loader that a step does not start again was told of nothing new.
LEMMA NotToldOf ==
  ASSUME VersionsOK, Next, NEW l \in GuardedLoaders, l \notin reload'
  PROVE  ack'[l] = ack[l]
<1>1. CallsOK /\ l \in DOMAIN ack /\ l \notin {"submission", "history"}
  BY GuardedOnes DEF VersionsOK
<1>2. CASE Told
  BY <1>1, <1>2 DEF Told, Learnt
<1>3. CASE Quiet \/ CarriedOut
  BY <1>3 DEF Quiet, CarriedOut, CarryOut
<1>4. QED
  BY <1>1, <1>2, <1>3, StepShape

LEMMA MovesFresh ==
  ASSUME NEW l, NEW r, DOMAIN loads[l] = LoaderFields,
         loads[l].asked = {r}, DOMAIN r = RequestFields, MovesOn(l, r),
         NEW version \in Nat, db \in Nat, version <= db,
         r.stage \in {"read", "body"} => r.version >= version
  PROVE  /\ \A s \in loads'[l].asked :
              s.stage \in {"read", "body"} => s.version >= version
         /\ loads'[l].asked = {} /\ ~loads'[l].failed
              => loads'[l].shown.version >= version
<1>1. CASE r.stage = "timer" /\ loads'[l] = TimerFires(loads[l], r)
  <2> DEFINE s == [r EXCEPT !.stage = "sent"]
  <2>1. s.stage = "sent"
    BY DEF RequestFields
  <2>2. loads'[l].asked = {s}
    BY <1>1 DEF TimerFires, Replaced, LoaderFields
  <2> HIDE DEF s
  <2>3. QED
    BY <1>1, <2>1, <2>2
<1>2. CASE r.stage = "sent" /\ loads'[l] = ServerReads(loads[l], r, db)
  <2> DEFINE s == [r EXCEPT !.stage = "read", !.version = db]
  <2>1. s.version = db
    BY DEF RequestFields
  <2>2. loads'[l].asked = {s}
    BY <1>2 DEF ServerReads, Replaced, LoaderFields
  <2> HIDE DEF s
  <2>3. QED
    BY <1>2, <2>1, <2>2
<1>3. CASE r.stage = "read" /\ loads'[l] = HeadersArrive(loads[l], r)
  <2> DEFINE s == [r EXCEPT !.stage = "body"]
  <2>1. s.version = r.version
    BY DEF RequestFields
  <2>2. loads'[l].asked = {s}
    BY <1>3 DEF HeadersArrive, Replaced, LoaderFields
  <2> HIDE DEF s
  <2>3. QED
    BY <1>3, <2>1, <2>2
<1>4. CASE r.stage = "body" /\ loads'[l] = Answered(loads[l], r)
  BY <1>4 DEF Answered, LoaderFields
<1>5. CASE loads'[l] = Failed(Loader(l).traits, loads[l], r)
  BY <1>5 DEF Failed, LoaderFields
<1>6. QED
  BY <1>1, <1>2, <1>3, <1>4, <1>5 DEF MovesOn

LEMMA FreshStep ==
  ASSUME ReadsInv, Next, NEW l \in GuardedLoaders
  PROVE  FreshSince(l, ack[l])'
<1>1. /\ OneRequest(l) /\ FreshSince(l, ack[l]) /\ VersionsOK
      /\ DOMAIN loads \subseteq LoaderNames
  BY DEF ReadsInv, RequestsInv
<1>2. CASE Untouched(l)
  <2>1. ack'[l] = ack[l]
    BY <1>1, <1>2, NotToldOf DEF Untouched
  <2>2. QED
    BY <1>1, <1>2, <2>1 DEF Untouched, FreshSince, Asks, Off, Paused, Key
<1>3. CASE RunsAgain(l)
  <2>1. CASE Asks(Loader(l).key')
    <3>1. PICK s \in {"timer", "sent"} :
            loads'[l].asked = {Request(Loader(l).key', s)}
      BY <1>1, <1>3, <2>1, RunsAgainShape DEF OneRequest
    <3>2. Request(Loader(l).key', s).stage = s
      BY RequestMade
    <3>3. QED
      BY <3>1, <3>2 DEF FreshSince
  <2>2. CASE ~Asks(Loader(l).key')
    <3>1. loads'[l].asked = {}
      BY <1>1, <1>3, <2>2, RunsAgainShape DEF OneRequest
    <3>2. QED
      BY <2>2, <3>1 DEF FreshSince, Asks, Off, Paused, Key
  <2>3. QED
    BY <2>1, <2>2
<1>4. CASE Settling(l)
  <2>1. PICK r \in loads[l].asked : MovesOn(l, r)
    BY <1>4 DEF Settling
  <2>2. /\ DOMAIN loads[l] = LoaderFields /\ loads[l].asked = {r}
        /\ DOMAIN r = RequestFields
    BY <1>1, <2>1 DEF OneRequest
  <2>3. ack[l] \in Nat /\ db \in Nat /\ ack[l] <= db
    BY <1>1, GuardedOnes DEF VersionsOK
  <2>4. r.stage \in {"read", "body"} => r.version >= ack[l]
    BY <1>1, <2>1 DEF FreshSince
  <2> DEFINE version == ack[l]
  <2> HIDE DEF version
  <2>5. /\ \A s \in loads'[l].asked :
              s.stage \in {"read", "body"} => s.version >= version
        /\ loads'[l].asked = {} /\ ~loads'[l].failed
              => loads'[l].shown.version >= version
    BY <2>1, <2>2, <2>3, <2>4, MovesFresh DEF version
  <2>6. ack'[l] = version
    BY <1>4 DEF Settling, version
  <2>7. QED
    BY <2>5, <2>6 DEF FreshSince
<1>5. QED
  BY <1>1, <1>2, <1>3, <1>4, LoaderStep

LEMMA ReadsStep ==
  ASSUME ReadsInv, [Next]_pageVars
  PROVE  ReadsInv'
<1>1. RequestsInv' /\ DOMAIN loads' = DOMAIN loads
      /\ GuardedLoaders' = GuardedLoaders /\ DOMAIN loads \subseteq LoaderNames
  BY RequestsStep, LoadersStay DEF ReadsInv, RequestsInv
<1>2. CASE Next
  BY <1>1, <1>2, VersionsStep, FreshStep DEF ReadsInv
<1>3. CASE UNCHANGED pageVars
  <2>1. \A l \in DOMAIN loads : Loader(l).key' = Loader(l).key
    BY <1>1, <1>3, SameScreenSameKeys DEF pageVars
  <2>2. VersionsOK'
    BY <1>3 DEF pageVars, VersionsOK, CallsOK, ReadsInv
  <2>3. \A l \in GuardedLoaders : FreshSince(l, ack[l])'
    BY <1>3, <2>1, GuardedOnes
       DEF pageVars, FreshSince, Asks, Off, Paused, Key, ReadsInv
  <2>4. QED
    BY <1>1, <2>2, <2>3 DEF ReadsInv
<1>4. QED
  BY <1>2, <1>3

LEMMA ReadsInit ==
  ASSUME Init
  PROVE  ReadsInv
<1>1. /\ RequestsInv /\ screen = "elsewhere"
      /\ \A l \in DOMAIN loads : loads[l] = Idle
      /\ DOMAIN loads \subseteq LoaderNames
      /\ calls = {} /\ db = 0 /\ ack = [l \in DOMAIN loads |-> 0]
  BY RequestsInit DEF Init, Watching
<1>2. VersionsOK
  BY <1>1 DEF VersionsOK, CallsOK
<1>3. ASSUME NEW l \in GuardedLoaders
      PROVE  FreshSince(l, ack[l])
  <2>1. Loader(l).key = Off /\ loads[l].asked = {}
    BY <1>1, NothingElsewhere, GuardedOnes, IdleFields
  <2>2. QED
    BY <2>1 DEF FreshSince, Asks
<1>4. QED
  BY <1>1, <1>2, <1>3 DEF ReadsInv

\* ReadYourWrites, for every page, every mutation and every order of requests
\* and answers.
THEOREM PagesReadTheirWrites == Spec => []ReadYourWrites
<1>1. Init => ReadsInv
  BY ReadsInit
<1>2. ReadsInv /\ [Next]_pageVars => ReadsInv'
  BY ReadsStep
<1>3. ReadsInv => ReadYourWrites
  BY DEF ReadsInv, FreshSince, ReadYourWrites
<1>4. QED
  BY <1>1, <1>2, <1>3, PTL DEF Spec
=============================================================================
