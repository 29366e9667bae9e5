------------------------- MODULE StatusPanelProofs -------------------------
(***************************************************************************)
(* Proofs about what the analysis page follows and shows, for every set of *)
(* executions: one loop of GETs, which does not stop silently; snapshots   *)
(* that never go back; a panel that announces nothing the backend has not  *)
(* reached.                                                                *)
(***************************************************************************)
EXTENDS AnalysisFormProofs

----------------------------------------------------------------------------
(***************************************************************************)
(* An answer and its row.                                                  *)
(***************************************************************************)
\* The row has reached what the answer says, and an end is final.
Reached(answer, state) ==
  /\ Rank(answer) <= Rank(state)
  /\ answer \in TerminalStates => state = answer

LEMMA RankRange ==
  ASSUME NEW a
  PROVE  Rank(a) \in 0..4
BY DEF Rank, TerminalStates

LEMMA MovesUp ==
  ASSUME NEW from, NEW to, CanTransition(from, to), NEW a, Reached(a, from)
  PROVE  Reached(a, to)
<1>1. Rank(from) <= Rank(to) /\ from \notin TerminalStates
  <2>1. \/ from = "QUEUED" /\ to \in {"RUNNING", "FAILED", "CANCELLED"}
        \/ from = "RUNNING" /\ to \in {"PROCESSING", "FAILED", "CANCELLED"}
        \/ from = "PROCESSING" /\ to \in {"COMPLETED", "FAILED"}
    BY DEF CanTransition, AllowedTransitions
  <2>2. /\ Rank("QUEUED") = 1 /\ Rank("RUNNING") = 2
        /\ Rank("PROCESSING") = 3
        /\ \A t \in TerminalStates : Rank(t) = 4
    BY DEF Rank, TerminalStates
  <2>3. QED
    BY <2>1, <2>2 DEF TerminalStates
<1>2. Rank(a) \in 0..4 /\ Rank(from) \in 0..4 /\ Rank(to) \in 0..4
  BY RankRange
<1>3. QED
  BY <1>1, <1>2 DEF Reached

LEMMA NothingReached ==
  ASSUME NEW s
  PROVE  Reached(NoAnswer, s) /\ Reached(Unavailable, s)
<1>1. Rank(s) \in 0..4
  BY RankRange
<1>2. Rank(NoAnswer) = 0 /\ Rank(Unavailable) = 0
  BY DEF Rank, NoAnswer, Unavailable, TerminalStates
<1>3. NoAnswer \notin TerminalStates /\ Unavailable \notin TerminalStates
  BY DEF NoAnswer, Unavailable, TerminalStates
<1>4. QED
  BY <1>1, <1>2, <1>3 DEF Reached

----------------------------------------------------------------------------
(***************************************************************************)
(* The executions that the address, the submissions and the accepted       *)
(* bundles name.                                                           *)
(***************************************************************************)
FilesInv ==
  /\ SubmissionInv
  /\ row \in [Executions -> RowStates]
  /\ search.files \subseteq Executions
  /\ DOMAIN accepted \subseteq SUBSET Executions

\* The row of an execution only moves on.
RowsMove ==
  /\ row' \in [Executions -> RowStates]
  /\ \A e \in Executions : \A a : Reached(a, row[e]) => Reached(a, row'[e])

LEMMA RowsStay ==
  ASSUME row \in [Executions -> RowStates], UNCHANGED row
  PROVE  RowsMove
BY DEF RowsMove

LEMMA CancelMovesRows ==
  ASSUME row \in [Executions -> RowStates],
         NEW e \in Executions, CancelAtBackend(e)
  PROVE  RowsMove
<1>1. CASE UNCHANGED row
  BY <1>1, RowsStay
<1>2. CASE row[e] = "QUEUED" /\ row' = [row EXCEPT ![e] = "CANCELLED"]
  <2>1. CanTransition("QUEUED", "CANCELLED")
    BY DEF CanTransition, AllowedTransitions
  <2>2. \A a : Reached(a, row[e]) => Reached(a, "CANCELLED")
    BY <1>2, <2>1, MovesUp
  <2>3. QED
    BY <1>2, <2>2 DEF RowsMove, RowStates, States
<1>3. QED
  BY <1>1, <1>2 DEF CancelAtBackend

LEMMA BackendMovesRows ==
  ASSUME row \in [Executions -> RowStates],
         NEW e \in Executions, NEW to \in States, BackendMoves(e, to)
  PROVE  RowsMove
<1>1. \A a : Reached(a, row[e]) => Reached(a, to)
  BY MovesUp DEF BackendMoves
<1>2. row' = [row EXCEPT ![e] = to]
  BY DEF BackendMoves
<1>3. QED
  BY <1>1, <1>2 DEF RowsMove, RowStates

LEMMA PostMovesRows ==
  ASSUME row \in [Executions -> RowStates],
         DOMAIN accepted \subseteq SUBSET Executions,
         NEW p \in posts, PostAtBackend(p)
  PROVE  RowsMove /\ DOMAIN accepted' \subseteq SUBSET Executions
<1>1. CASE UNCHANGED <<row, accepted>>
  BY <1>1, RowsStay
<1>2. CASE \E files \in SUBSET {e \in Executions : row[e] = "ABSENT"} :
             /\ row' = [e \in Executions |->
                          IF e \in files THEN "QUEUED" ELSE row[e]]
             /\ DOMAIN accepted' = DOMAIN accepted \cup {files}
  <2>1. PICK files \in SUBSET {e \in Executions : row[e] = "ABSENT"} :
          /\ row' = [e \in Executions |->
                       IF e \in files THEN "QUEUED" ELSE row[e]]
          /\ DOMAIN accepted' = DOMAIN accepted \cup {files}
    BY <1>2
  <2>2. \A a : Reached(a, "ABSENT") => Reached(a, "QUEUED")
    <3>1. Rank("ABSENT") = 0 /\ Rank("QUEUED") = 1
      BY DEF Rank, TerminalStates
    <3>2. \A a : Rank(a) \in 0..4
      BY RankRange
    <3>3. "ABSENT" \notin TerminalStates
      BY DEF TerminalStates
    <3>4. QED
      BY <3>1, <3>2, <3>3 DEF Reached
  <2>3. QED
    BY <2>1, <2>2 DEF RowsMove, RowStates, States
<1>3. QED
  BY <1>1, <1>2 DEF PostAtBackend

LEMMA RowsMoveOn ==
  ASSUME FilesInv, Next
  PROVE  RowsMove /\ DOMAIN accepted' \subseteq SUBSET Executions
<1>1. \/ UNCHANGED <<row, accepted>>
      \/ UNCHANGED accepted /\ \E e \in Executions : CancelAtBackend(e)
      \/ /\ UNCHANGED accepted
         /\ \E e \in Executions, to \in States : BackendMoves(e, to)
      \/ \E p \in posts : PostAtBackend(p)
  <2>1. CASE NavigationStep
    BY <2>1
       DEF NavigationStep, OpenForm, Leave, GoHome, GoBack, Mount, Fresh, pollingVars
  <2>2. CASE ArchiveStep \/ CourseStep \/ MeasurementStep
    BY <2>2
       DEF ArchiveStep, EditArchive, FormEndReading, CourseStep,
           CoursesAnswer, RetryCourses, CourseChange, MeasurementStep,
           formVars, pollingVars
  <2>3. CASE LoadStep
    BY <2>3
       DEF LoadStep, LoadFails, RepeatDescriptor, RepeatArchive, RepeatLoaded,
           ReuseLoaded, ProtocolLoaded, ExecutionRestored, pollingVars
  <2>4. CASE ReviewStep \/ PostStep
    BY <2>4
       DEF ReviewStep, OpenOverview, CancelOverview, ConfirmExecution,
           PrepareRetry, PostStep, PostFailed, pollingVars
  <2>5. CASE PollingStep
    BY <2>5
       DEF PollingStep, PollingFrame, PanelNext, PollingNext, PollingAnswers,
           EndRound, AnswerGet, TimerFires, RetryCommand, AskAgain,
           CancelAnswered, CancelCommand, CancelExecution
  <2>6. CASE BackendStep
    BY <2>6 DEF BackendStep, formVars
  <2>7. CASE Removal
    BY <2>7 DEF Removal, ResetForm, PostAccepted, Mount, Fresh
  <2>8. QED
    BY <2>1, <2>2, <2>3, <2>4, <2>5, <2>6, <2>7 DEF Next
<1>2. QED
  BY <1>1, RowsStay, CancelMovesRows, BackendMovesRows, PostMovesRows
     DEF FilesInv

\* The address a step leaves behind.
LEMMA AddressShape ==
  ASSUME Next
  PROVE  \/ UNCHANGED search \/ search' = NoSearch
         \/ \E s \in Addresses : search' = s
         \/ \E p \in posts :
              search' = [kind |-> "execution", files |-> p.files]
         \/ \E files \in DOMAIN accepted :
              search' = [kind |-> "execution", files |-> files]
<1>1. CASE OpenForm
  BY <1>1 DEF OpenForm, Mount, Fresh
<1>2. CASE Leave \/ GoHome
  BY <1>2 DEF Leave, GoHome, Fresh, ClearSearch
<1>3. CASE ArchiveStep \/ CourseStep \/ MeasurementStep \/ BackendStep
             \/ PollingStep
  BY <1>3
     DEF ArchiveStep, EditArchive, FormEndReading, CourseStep,
         CoursesAnswer, RetryCourses, CourseChange, MeasurementStep,
         BackendStep, PollingStep, PollingFrame, ClearSearch, formVars
<1>4. CASE LoadStep
  BY <1>4
     DEF LoadStep, LoadFails, RepeatDescriptor, RepeatArchive, RepeatLoaded,
         ReuseLoaded, ProtocolLoaded, ExecutionRestored, ClearSearch
<1>5. CASE ReviewStep \/ PostStep
  BY <1>5
     DEF ReviewStep, OpenOverview, CancelOverview, ConfirmExecution,
         PrepareRetry, PostStep, PostAtBackend, PostFailed, ClearSearch
<1>6. CASE ResetForm
  BY <1>6 DEF ResetForm, ClearSearch
<1>7. ASSUME NEW p \in posts, PostAccepted(p)
      PROVE  search' = [kind |-> "execution", files |-> p.files]
  BY <1>7 DEF PostAccepted, Mount, Fresh
<1>8. CASE GoBack
  BY <1>8 DEF GoBack
<1>9. QED
  BY <1>1, <1>2, <1>3, <1>4, <1>5, <1>6, <1>7, <1>8
     DEF Next, NavigationStep, Removal

\* The address names executions of an accepted bundle or none.
LEMMA AddressFiles ==
  ASSUME FilesInv, Next
  PROVE  search'.files \subseteq Executions
<1>1. NoSearch.files = {}
  BY DEF NoSearch
<1>2. ASSUME NEW s \in Addresses
      PROVE  s.files \subseteq Executions
  BY <1>2 DEF Addresses, FilesInv
<1>3. \A p \in posts : p.files \subseteq Executions
  BY DEF FilesInv, SubmissionInv
<1>4. \A files \in DOMAIN accepted : files \subseteq Executions
  BY DEF FilesInv
<1>5. QED
  BY <1>1, <1>2, <1>3, <1>4, AddressShape DEF FilesInv

LEMMA FilesStep ==
  ASSUME FilesInv, Next
  PROVE  FilesInv'
BY SubmissionStep, RowsMoveOn, AddressFiles DEF FilesInv, RowsMove

LEMMA FilesInit ==
  ASSUME Init
  PROVE  FilesInv
<1>1. SubmissionInv
  BY DEF Init, SubmissionInv
<1>2. row \in [Executions -> RowStates]
  BY DEF Init, RowStates
<1>3. search.files = {} /\ DOMAIN accepted = {}
  BY DEF Init, NoSearch
<1>4. QED
  BY <1>1, <1>2, <1>3 DEF FilesInv

----------------------------------------------------------------------------
(***************************************************************************)
(* The rounds of GETs.                                                     *)
(***************************************************************************)
RoundOf(p) ==
  /\ DOMAIN p = {"of", "live", "got"}
  /\ p.of \subseteq Executions
  /\ DOMAIN p.got = p.of

\* The live round is the only one, it is about the files on screen, and no
\* timer runs beside it.
RoundsInv ==
  /\ fileList \subseteq Executions
  /\ \A p \in polls : RoundOf(p)
  /\ \A p \in polls : p.live => p.of = fileList /\ ~timer
  /\ \A p, q \in polls : p.live /\ q.live => p = q

\* What is shown was answered, and what the live round has been answered is
\* not older than what is shown.
AnswersInv ==
  /\ DOMAIN shown \subseteq Executions
  /\ \A e \in DOMAIN shown : Reached(shown[e], row[e])
  /\ \A p \in polls : p.live =>
       \A e \in p.of :
         /\ Reached(p.got[e], row[e])
         /\ e \in DOMAIN shown /\ p.got[e] \notin {NoAnswer, Unavailable}
              => Rank(shown[e]) <= Rank(p.got[e])

\* The ways a step changes the rounds and what is shown.
followVars == <<fileList, polls, timer, shown, requestError>>

Cleared ==
  /\ fileList' = {} /\ polls' = {} /\ timer' = FALSE
  /\ shown' = NothingShown /\ requestError' = FALSE

Followed == \E files \in SUBSET Executions : Follow(files)

RoundMoves ==
  \/ \E p \in polls : EndRound(p)
  \/ \E p \in polls : \E e \in p.of : AnswerGet(p, e)
  \/ TimerFires

LEMMA FollowShape ==
  ASSUME FilesInv, RoundsInv, Next
  PROVE  \/ UNCHANGED followVars \/ Cleared
         \/ Followed \/ RoundMoves
<1>1. CASE OpenForm \/ Leave
  BY <1>1 DEF OpenForm, Leave, Mount, Fresh, Cleared
<1>2. CASE GoHome \/ GoBack \/ ArchiveStep \/ CourseStep \/ MeasurementStep
  BY <1>2
     DEF GoHome, GoBack, ArchiveStep, EditArchive, FormEndReading, CourseStep,
         CoursesAnswer, RetryCourses, CourseChange, MeasurementStep,
         pollingVars, followVars
<1>3. CASE BackendStep
  BY <1>3 DEF BackendStep, BackendMoves, followVars
<1>4. CASE LoadFails \/ RepeatDescriptor \/ RepeatArchive
  BY <1>4
     DEF LoadFails, RepeatDescriptor, RepeatArchive, pollingVars, followVars
<1>5. CASE RepeatLoaded
  BY <1>5
     DEF RepeatLoaded, Forget, Followed, pollingVars, followVars
<1>6. CASE ReuseLoaded \/ ProtocolLoaded
  BY <1>6 DEF ReuseLoaded, ProtocolLoaded, Forget, Followed
<1>7. CASE ExecutionRestored
  BY <1>7 DEF ExecutionRestored, Followed, FilesInv
<1>8. CASE OpenOverview \/ CancelOverview
  BY <1>8 DEF OpenOverview, CancelOverview, pollingVars, followVars
<1>9. CASE ConfirmExecution \/ PrepareRetry \/ ResetForm
  BY <1>9 DEF ConfirmExecution, PrepareRetry, ResetForm, Forget, Followed
<1>10. CASE PostStep
  BY <1>10
     DEF PostStep, PostAtBackend, PostFailed, pollingVars, followVars
<1>11. ASSUME NEW p \in posts, PostAccepted(p)
       PROVE  UNCHANGED followVars \/ Cleared \/ Followed
  <2>1. p.files \in SUBSET Executions
    BY DEF FilesInv, SubmissionInv
  <2>2. QED
    BY <1>11, <2>1
       DEF PostAccepted, Mount, Fresh, Cleared, Followed, followVars
<1>12. CASE PollingStep
  <2>1. PollingAnswers => RoundMoves
    BY DEF PollingAnswers, RoundMoves
  <2>2. fileList \in SUBSET Executions
    BY DEF RoundsInv
  <2>3. \A e : CancelAtBackend(e) \/ CancelCommand(e) => UNCHANGED followVars
    BY DEF CancelAtBackend, CancelCommand, CancelExecution, followVars
  <2>4. ASSUME NEW e, NEW outcome, CancelAnswered(e, outcome)
        PROVE  UNCHANGED followVars \/ Followed
    BY <2>2, <2>4 DEF CancelAnswered, RetryPolling, Followed, followVars
  <2>5. RetryCommand => Followed
    BY <2>2 DEF RetryCommand, AskAgain, RetryPolling, Followed
  <2>6. QED
    BY <1>12, <2>1, <2>3, <2>4, <2>5 DEF PollingStep, PanelNext, PollingNext
<1>13. QED
  BY <1>1, <1>2, <1>3, <1>4, <1>5, <1>6, <1>7, <1>8, <1>9, <1>10, <1>11, <1>12
     DEF Next, NavigationStep, LoadStep, ReviewStep, Removal

LEMMA IgnoredRounds ==
  ASSUME RoundsInv
  PROVE  \A p \in Ignored(polls) : RoundOf(p) /\ ~p.live
BY DEF Ignored, RoundsInv, RoundOf

LEMMA NewRoundIs ==
  ASSUME NEW files \in SUBSET Executions
  PROVE  /\ RoundOf(NewRound(files))
         /\ NewRound(files).of = files /\ NewRound(files).live
         /\ \A e \in files : NewRound(files).got[e] = NoAnswer
BY DEF NewRound, RoundOf

LEMMA FollowRounds ==
  ASSUME RoundsInv, NEW files \in SUBSET Executions, Follow(files)
  PROVE  RoundsInv'
<1>1. \A p \in Ignored(polls) : RoundOf(p) /\ ~p.live
  BY IgnoredRounds
<1>2. /\ RoundOf(NewRound(files))
      /\ NewRound(files).of = files /\ NewRound(files).live
  BY NewRoundIs
<1>3. fileList' = files /\ timer' = FALSE
  BY DEF Follow
<1>4. CASE files = {}
  <2>1. polls' = Ignored(polls)
    BY <1>4 DEF Follow
  <2>2. QED
    BY <1>1, <1>3, <2>1 DEF RoundsInv, RoundOf
<1>5. CASE files # {}
  <2>1. polls' = Ignored(polls) \cup {NewRound(files)}
    BY <1>5 DEF Follow
  <2>2. QED
    BY <1>1, <1>2, <1>3, <2>1 DEF RoundsInv, RoundOf
<1>6. QED
  BY <1>4, <1>5

\* The answer that a GET adds to its round.
LEMMA AnsweredRound ==
  ASSUME NEW p, RoundOf(p), NEW e \in p.of, NEW answer
  PROVE  LET q == [p EXCEPT !.got[e] = answer]
         IN /\ RoundOf(q) /\ q.of = p.of /\ q.live = p.live
            /\ q.got = [p.got EXCEPT ![e] = answer]
BY DEF RoundOf

LEMMA RoundsStep ==
  ASSUME FilesInv, RoundsInv, Next
  PROVE  RoundsInv'
<1>1. CASE UNCHANGED followVars
  BY <1>1 DEF followVars, RoundsInv, RoundOf
<1>2. CASE Cleared
  BY <1>2 DEF Cleared, RoundsInv
<1>3. CASE Followed
  BY <1>3, FollowRounds DEF Followed
<1>4. ASSUME NEW p \in polls, EndRound(p)
      PROVE  RoundsInv'
  <2>1. polls' = polls \ {p} /\ fileList' = fileList
    BY <1>4 DEF EndRound
  <2>2. CASE p.live
    BY <2>1, <2>2 DEF RoundsInv, RoundOf
  <2>3. CASE ~p.live
    <3>1. timer' = timer
      BY <1>4, <2>3 DEF EndRound
    <3>2. QED
      BY <2>1, <3>1 DEF RoundsInv, RoundOf
  <2>4. QED
    BY <2>2, <2>3
<1>5. ASSUME NEW p \in polls, NEW e \in p.of, AnswerGet(p, e)
      PROVE  RoundsInv'
  <2>1. PICK answer \in {row[e], Unavailable} :
          polls' = (polls \ {p}) \cup {[p EXCEPT !.got[e] = answer]}
    BY <1>5 DEF AnswerGet
  <2> DEFINE q == [p EXCEPT !.got[e] = answer]
  <2>2. RoundOf(q) /\ q.of = p.of /\ q.live = p.live
    BY AnsweredRound DEF RoundsInv
  <2>3. polls' = (polls \ {p}) \cup {q} /\ UNCHANGED <<fileList, timer>>
    BY <1>5, <2>1 DEF AnswerGet
  <2> HIDE DEF q
  <2>4. QED
    BY <2>2, <2>3 DEF RoundsInv, RoundOf
<1>6. CASE TimerFires
  <2>1. /\ RoundOf(NewRound(fileList))
        /\ NewRound(fileList).of = fileList
    BY NewRoundIs DEF RoundsInv
  <2>2. timer /\ timer' = FALSE /\ fileList' = fileList
        /\ polls' = polls \cup {NewRound(fileList)}
    BY <1>6 DEF TimerFires
  <2>3. QED
    BY <2>1, <2>2 DEF RoundsInv, RoundOf
<1>7. QED
  BY <1>1, <1>2, <1>3, <1>4, <1>5, <1>6, FollowShape DEF RoundMoves

\* The loop of GETs: at most one live round, about the files on screen.
THEOREM RoundsInvariant == Spec => [](FilesInv /\ RoundsInv)
<1>1. Init => FilesInv /\ RoundsInv
  <2>1. Init => RoundsInv
    BY DEF Init, PollingInit, RoundsInv
  <2>2. QED
    BY <2>1, FilesInit
<1>2. FilesInv /\ RoundsInv /\ [Next]_vars => (FilesInv /\ RoundsInv)'
  <2>1. ASSUME UNCHANGED vars, FilesInv, RoundsInv
        PROVE  (FilesInv /\ RoundsInv)'
    BY <2>1
       DEF vars, formVars, pollingVars, FilesInv, SubmissionInv, RoundsInv,
           RoundOf
  <2>2. QED
    BY <2>1, FilesStep, RoundsStep
<1>3. QED
  BY <1>1, <1>2, PTL DEF Spec

\* OnePollingLoop, for any executions and any retries and cancellations.
THEOREM NeverTwoLoops == Spec => []OnePollingLoop
<1>1. RoundsInv => OnePollingLoop
  <2> SUFFICES ASSUME RoundsInv
               PROVE  OnePollingLoop
    OBVIOUS
  <2> DEFINE alive == {p \in polls : p.live}
  <2>1. CASE alive = {}
    BY <2>1, FS_EmptySet DEF OnePollingLoop
  <2>2. CASE alive # {}
    <3>1. PICK p : alive = {p}
      BY <2>2 DEF RoundsInv
    <3>2. Cardinality(alive) = 1
      BY <3>1, FS_Singleton
    <3>3. ~timer
      BY <3>1 DEF RoundsInv
    <3>4. QED
      BY <3>2, <3>3 DEF OnePollingLoop
  <2>3. QED
    BY <2>1, <2>2
<1>2. QED
  BY <1>1, RoundsInvariant, PTL

----------------------------------------------------------------------------
(***************************************************************************)
(* The loop does not stop silently.                                        *)
(***************************************************************************)
LEMMA FollowedStep ==
  ASSUME FilesInv, RoundsInv, FollowedUntilSettled, Next
  PROVE  FollowedUntilSettled'
<1>1. CASE UNCHANGED followVars
  BY <1>1 DEF followVars, FollowedUntilSettled, AllTerminal
<1>2. CASE Cleared
  BY <1>2 DEF Cleared, FollowedUntilSettled
<1>3. ASSUME NEW files \in SUBSET Executions, Follow(files)
      PROVE  FollowedUntilSettled'
  BY <1>3, NewRoundIs DEF Follow, FollowedUntilSettled
<1>4. ASSUME NEW p \in polls, EndRound(p)
      PROVE  FollowedUntilSettled'
  <2>1. polls' = polls \ {p} /\ fileList' = fileList
    BY <1>4 DEF EndRound
  <2>2. CASE p.live
    <3>1. DOMAIN p.got = fileList
      BY <2>2 DEF RoundsInv, RoundOf
    <3>2. shown' = p.got /\ requestError' = ~AllAvailable(p.got)
          /\ timer' = Rescheduled(p.got)
      BY <1>4, <2>2 DEF EndRound
    <3>3. CASE AllTerminal(p.got)
      BY <2>1, <3>1, <3>2, <3>3 DEF FollowedUntilSettled
    <3>4. CASE ~AllTerminal(p.got)
      <4>1. timer' \/ requestError'
        BY <3>2, <3>4 DEF Rescheduled
      <4>2. QED
        BY <4>1 DEF FollowedUntilSettled
    <3>5. QED
      BY <3>3, <3>4
  <2>3. CASE ~p.live
    BY <1>4, <2>1, <2>3 DEF EndRound, FollowedUntilSettled, AllTerminal
  <2>4. QED
    BY <2>2, <2>3
<1>5. ASSUME NEW p \in polls, NEW e \in p.of, AnswerGet(p, e)
      PROVE  FollowedUntilSettled'
  <2>1. PICK answer \in {row[e], Unavailable} :
          polls' = (polls \ {p}) \cup {[p EXCEPT !.got[e] = answer]}
    BY <1>5 DEF AnswerGet
  <2> DEFINE q == [p EXCEPT !.got[e] = answer]
  <2>2. q.of = p.of /\ q.live = p.live
    BY AnsweredRound DEF RoundsInv
  <2>3. /\ polls' = (polls \ {p}) \cup {q}
        /\ UNCHANGED <<fileList, timer, shown, requestError>>
    BY <1>5, <2>1 DEF AnswerGet
  <2> HIDE DEF q
  <2>4. QED
    BY <2>2, <2>3 DEF FollowedUntilSettled, AllTerminal
<1>6. CASE TimerFires
  BY <1>6, NewRoundIs DEF TimerFires, RoundsInv, FollowedUntilSettled
<1>7. QED
  BY <1>1, <1>2, <1>3, <1>4, <1>5, <1>6, FollowShape DEF RoundMoves, Followed

\* FollowedUntilSettled, for any executions and any order of the answers.
THEOREM NeverStopsSilently == Spec => []FollowedUntilSettled
<1>1. Init => FollowedUntilSettled
  BY DEF Init, PollingInit, FollowedUntilSettled
<1>2. FilesInv /\ RoundsInv /\ FollowedUntilSettled /\ [Next]_vars
        => FollowedUntilSettled'
  <2>1. ASSUME UNCHANGED vars, FollowedUntilSettled
        PROVE  FollowedUntilSettled'
    BY <2>1 DEF vars, pollingVars, FollowedUntilSettled, AllTerminal
  <2>2. QED
    BY <2>1, FollowedStep
<1>3. QED
  BY <1>1, <1>2, RoundsInvariant, PTL DEF Spec

----------------------------------------------------------------------------
(***************************************************************************)
(* The snapshots.                                                          *)
(***************************************************************************)
\* A snapshot that was reached stays reached when the rows move.
LEMMA AnswersSame ==
  ASSUME FilesInv, RoundsInv, AnswersInv, RowsMove, UNCHANGED <<polls, shown>>
  PROVE  AnswersInv'
<1>1. \A e \in DOMAIN shown : Reached(shown[e], row'[e])
  BY DEF AnswersInv, RowsMove
<1>2. \A p \in polls : p.live => \A e \in p.of : Reached(p.got[e], row'[e])
  BY DEF AnswersInv, RoundsInv, RoundOf, RowsMove
<1>3. QED
  BY <1>1, <1>2 DEF AnswersInv

LEMMA AnswersFollow ==
  ASSUME FilesInv, RoundsInv, AnswersInv, RowsMove,
         NEW files \in SUBSET Executions, Follow(files)
  PROVE  AnswersInv'
<1>1. \A p \in Ignored(polls) : ~p.live
  BY IgnoredRounds
<1>2. /\ NewRound(files).of = files
      /\ \A e \in files : NewRound(files).got[e] = NoAnswer
  BY NewRoundIs
<1>3. /\ DOMAIN shown' \subseteq Executions
      /\ \A e \in DOMAIN shown' : Reached(shown'[e], row'[e])
  <2>1. CASE files = {}
    BY <2>1 DEF Follow, NothingShown
  <2>2. CASE files # {}
    BY <2>2 DEF Follow, AnswersInv, RowsMove
  <2>3. QED
    BY <2>1, <2>2
<1>4. \A p \in polls' : p.live => p = NewRound(files)
  BY <1>1 DEF Follow
<1>5. \A e : Reached(NoAnswer, row'[e])
  BY NothingReached
<1>6. QED
  BY <1>2, <1>3, <1>4, <1>5 DEF AnswersInv

LEMMA AnswersOfRounds ==
  ASSUME FilesInv, RoundsInv, AnswersInv, RoundMoves, UNCHANGED row
  PROVE  AnswersInv'
<1>1. ASSUME NEW p \in polls, EndRound(p)
      PROVE  AnswersInv'
  <2>1. polls' = polls \ {p}
    BY <1>1 DEF EndRound
  <2>2. CASE p.live
    <3>1. shown' = p.got
      BY <1>1, <2>2 DEF EndRound
    <3>2. \A q \in polls' : ~q.live
      BY <2>1, <2>2 DEF RoundsInv
    <3>3. DOMAIN p.got = p.of /\ p.of \subseteq Executions
      BY DEF RoundsInv, RoundOf
    <3>4. \A e \in p.of : Reached(p.got[e], row[e])
      BY <2>2 DEF AnswersInv
    <3>5. QED
      BY <3>1, <3>2, <3>3, <3>4 DEF AnswersInv
  <2>3. CASE ~p.live
    BY <1>1, <2>1, <2>3 DEF EndRound, AnswersInv
  <2>4. QED
    BY <2>2, <2>3
<1>2. ASSUME NEW p \in polls, NEW e \in p.of, AnswerGet(p, e)
      PROVE  AnswersInv'
  <2>1. PICK answer \in {row[e], Unavailable} :
          polls' = (polls \ {p}) \cup {[p EXCEPT !.got[e] = answer]}
    BY <1>2 DEF AnswerGet
  <2> DEFINE q == [p EXCEPT !.got[e] = answer]
  <2>2. /\ q.of = p.of /\ q.live = p.live
        /\ q.got = [p.got EXCEPT ![e] = answer]
    BY AnsweredRound DEF RoundsInv
  <2>3. DOMAIN p.got = p.of
    BY DEF RoundsInv, RoundOf
  <2>4. polls' = (polls \ {p}) \cup {q} /\ shown' = shown
    BY <1>2, <2>1 DEF AnswerGet
  <2> HIDE DEF q
  <2>5. Reached(answer, row[e])
    BY NothingReached, RankRange DEF Reached
  <2>6. /\ q.got[e] = answer
        /\ \A x \in p.of : x # e => q.got[x] = p.got[x]
    BY <2>2, <2>3
  <2>7. ASSUME q.live
        PROVE  \A x \in q.of :
                 /\ Reached(q.got[x], row[x])
                 /\ x \in DOMAIN shown
                    /\ q.got[x] \notin {NoAnswer, Unavailable}
                      => Rank(shown[x]) <= Rank(q.got[x])
    <3> SUFFICES ASSUME NEW x \in q.of
                 PROVE  /\ Reached(q.got[x], row[x])
                        /\ x \in DOMAIN shown
                           /\ q.got[x] \notin {NoAnswer, Unavailable}
                             => Rank(shown[x]) <= Rank(q.got[x])
      OBVIOUS
    <3>1. CASE x = e
      <4>1. q.got[x] = row[e] \/ q.got[x] = Unavailable
        BY <2>6, <3>1
      <4>2. x \in DOMAIN shown => Rank(shown[x]) <= Rank(row[x])
        BY DEF AnswersInv, Reached
      <4>3. QED
        BY <2>5, <2>6, <3>1, <4>1, <4>2
    <3>2. CASE x # e
      BY <2>2, <2>6, <2>7, <3>2 DEF AnswersInv
    <3>3. QED
      BY <3>1, <3>2
  <2>8. QED
    BY <2>4, <2>7 DEF AnswersInv
<1>3. CASE TimerFires
  <2>1. /\ NewRound(fileList).of = fileList
        /\ \A e \in fileList : NewRound(fileList).got[e] = NoAnswer
    BY NewRoundIs DEF RoundsInv
  <2>2. polls' = polls \cup {NewRound(fileList)} /\ shown' = shown
    BY <1>3 DEF TimerFires
  <2>3. \A e : Reached(NoAnswer, row[e])
    BY NothingReached
  <2>4. QED
    BY <2>1, <2>2, <2>3 DEF AnswersInv
<1>4. QED
  BY <1>1, <1>2, <1>3 DEF RoundMoves

LEMMA AnswersStep ==
  ASSUME FilesInv, RoundsInv, AnswersInv, Next
  PROVE  AnswersInv'
<1>1. RowsMove
  BY RowsMoveOn
<1>2. CASE UNCHANGED followVars
  BY <1>1, <1>2, AnswersSame DEF followVars
<1>3. CASE Cleared
  BY <1>3 DEF Cleared, AnswersInv, NothingShown
<1>4. CASE Followed
  BY <1>1, <1>4, AnswersFollow DEF Followed
<1>5. CASE RoundMoves
  BY <1>5, AnswersOfRounds
     DEF RoundMoves, EndRound, AnswerGet, TimerFires
<1>6. QED
  BY <1>2, <1>3, <1>4, <1>5, FollowShape

PanelInv == FilesInv /\ RoundsInv /\ AnswersInv

\* Whatever is on screen was reached by its row.
THEOREM AnswersInvariant == Spec => []PanelInv
<1>1. Init => AnswersInv
  BY DEF Init, PollingInit, NothingShown, AnswersInv
<1>2. FilesInv /\ RoundsInv /\ AnswersInv /\ [Next]_vars => AnswersInv'
  <2>1. ASSUME UNCHANGED vars, AnswersInv
        PROVE  AnswersInv'
    BY <2>1 DEF vars, pollingVars, AnswersInv
  <2>2. QED
    BY <2>1, AnswersStep
<1>3. FilesInv /\ RoundsInv /\ AnswersInv => PanelInv
  BY DEF PanelInv
<1>4. QED
  BY <1>1, <1>2, <1>3, RoundsInvariant, PTL DEF Spec

\* What a step may do to the snapshots of ShownNeverGoesBack.
ShownMovesOn ==
  \A e \in DOMAIN shown \cap DOMAIN shown' :
    shown'[e] # Unavailable => Rank(shown[e]) <= Rank(shown'[e])

LEMMA ShownSame ==
  ASSUME UNCHANGED shown
  PROVE  ShownMovesOn
<1>1. \A e : Rank(shown[e]) \in 0..4
  BY RankRange
<1>2. QED
  BY <1>1 DEF ShownMovesOn

LEMMA ShownStep ==
  ASSUME PanelInv, Next
  PROVE  ShownMovesOn
<1> USE DEF PanelInv
<1>1. CASE UNCHANGED followVars
  BY <1>1, ShownSame DEF followVars
<1>2. CASE Cleared
  BY <1>2 DEF Cleared, NothingShown, ShownMovesOn
<1>3. ASSUME NEW files \in SUBSET Executions, Follow(files)
      PROVE  ShownMovesOn
  BY <1>3, ShownSame DEF Follow, NothingShown, ShownMovesOn
<1>4. ASSUME NEW p \in polls, EndRound(p)
      PROVE  ShownMovesOn
  <2>1. CASE p.live
    <3>1. shown' = p.got /\ \A e \in p.of : p.got[e] # NoAnswer
      BY <1>4, <2>1 DEF EndRound
    <3>2. DOMAIN p.got = p.of
      BY DEF RoundsInv, RoundOf
    <3>3. QED
      BY <2>1, <3>1, <3>2 DEF AnswersInv, ShownMovesOn
  <2>2. CASE ~p.live
    BY <1>4, <2>2, ShownSame DEF EndRound
  <2>3. QED
    BY <2>1, <2>2
<1>5. CASE \/ \E p \in polls : \E e \in p.of : AnswerGet(p, e)
           \/ TimerFires
  BY <1>5, ShownSame DEF AnswerGet, TimerFires
<1>6. QED
  BY <1>1, <1>2, <1>3, <1>4, <1>5, FollowShape DEF RoundMoves, Followed

\* ShownNeverGoesBack, for any executions and any order of the answers.
THEOREM SnapshotsNeverGoBack == Spec => ShownNeverGoesBack
<1>1. PanelInv /\ [Next]_vars => [ShownMovesOn]_pollingVars
  <2>1. ASSUME UNCHANGED vars
        PROVE  UNCHANGED pollingVars
    BY <2>1 DEF vars
  <2>2. QED
    BY <2>1, ShownStep
<1>2. QED
  BY <1>1, AnswersInvariant, PTL DEF Spec, ShownNeverGoesBack, ShownMovesOn

----------------------------------------------------------------------------
(***************************************************************************)
(* The panel.                                                              *)
(***************************************************************************)
LEMMA ReachedEnd ==
  ASSUME NEW a, NEW s, Reached(a, s), a \in TerminalStates
  PROVE  s = a
BY DEF Reached

\* When each panel is shown.
LEMMA PanelModes ==
  ASSUME fileList # {}
  PROVE  /\ PanelMode = "completed" => allDone
         /\ PanelMode = "partial" => allTerminal /\ HasCompletedResults
         /\ PanelMode = "cancelled" =>
              allTerminal /\ ~hasFailure /\ ~HasCompletedResults
         /\ PanelMode = "running" => ~allDone
BY DEF PanelMode

LEMMA MiniStepRank ==
  ASSUME NEW e
  PROVE  MiniStep(e) \in 0..4 /\ MiniStep(e) <= Rank(shown[e])
<1>1. \A i \in 1..4 : Stages[i] = shown[e] => i <= Rank(shown[e])
  <2>1. /\ Stages[1] = "QUEUED" /\ Stages[2] = "RUNNING"
        /\ Stages[3] = "PROCESSING" /\ Stages[4] = "COMPLETED"
    BY DEF Stages
  <2>2. /\ Rank("QUEUED") = 1 /\ Rank("RUNNING") = 2
        /\ Rank("PROCESSING") = 3 /\ Rank("COMPLETED") = 4
    BY DEF Rank, TerminalStates
  <2>3. \A i \in 1..4 : i = 1 \/ i = 2 \/ i = 3 \/ i = 4
    OBVIOUS
  <2>4. QED
    BY <2>1, <2>2, <2>3
<1>2. CASE \E i \in 1..4 : Stages[i] = shown[e]
  BY <1>1, <1>2 DEF MiniStep
<1>3. CASE ~\E i \in 1..4 : Stages[i] = shown[e]
  BY <1>3, RankRange DEF MiniStep
<1>4. QED
  BY <1>2, <1>3

\* The stepper of a single execution is where its row in the list is.
LEMMA SingleStepper ==
  ASSUME Cardinality(fileList) = 1, IsFiniteSet(fileList),
         DOMAIN shown = fileList, ~allDone, NEW e \in fileList
  PROVE  ProgressSteps[StatusRows[e]] = "active"
<1>1. fileList = {e}
  <2>1. PICK x : fileList = {x}
    BY FS_Singleton
  <2>2. QED
    BY <2>1
<1>2. (CHOOSE x \in fileList : TRUE) = e
  BY <1>1
<1>3. ProgressIndex = MiniStep(e)
  BY <1>2 DEF ProgressIndex
<1>4. StatusRows[e] = MiniStep(e)
  BY DEF StatusRows
<1>5. MiniStep(e) \in 0..4
  BY MiniStepRank
<1>6. QED
  BY <1>3, <1>4, <1>5 DEF ProgressSteps

LEMMA PanelIsTrue ==
  ASSUME PanelInv, IsFiniteSet(Executions), fileList # {},
         DOMAIN shown = fileList
  PROVE  PanelTellsTheTruth
<1>1. \A e \in fileList : Reached(shown[e], row[e])
  BY DEF PanelInv, AnswersInv
<1>2. allTerminal => \A e \in fileList : shown[e] \in TerminalStates
                                         /\ row[e] = shown[e]
  BY <1>1, ReachedEnd DEF allTerminal, AllTerminal
<1>3. allDone => \A e \in fileList : row[e] = "COMPLETED"
  BY <1>1, ReachedEnd DEF allDone, AllDone, TerminalStates
<1>4. PanelMode = "completed" => \A e \in fileList : row[e] = "COMPLETED"
  BY <1>3, PanelModes
<1>5. PanelMode \in {"completed", "partial", "cancelled"} =>
        \A e \in fileList : row[e] \in TerminalStates
  BY <1>2, <1>4, PanelModes DEF TerminalStates
<1>6. PanelMode = "partial" => \E e \in fileList : row[e] = "COMPLETED"
  BY <1>2, PanelModes DEF HasCompletedResults
<1>7. PanelMode = "cancelled" => \A e \in fileList : row[e] = "CANCELLED"
  <2>1. allTerminal => (hasFailure <=> \E e \in fileList : shown[e] = "FAILED")
    BY DEF allTerminal, hasFailure, HasFailure
  <2>2. QED
    BY <1>2, <2>1, PanelModes DEF HasCompletedResults, TerminalStates
<1>8. \A e \in fileList : StatusRows[e] <= Rank(row[e])
  <2>1. ASSUME NEW e \in fileList
        PROVE  StatusRows[e] <= Rank(row[e])
    <3>1. StatusRows[e] = MiniStep(e)
      BY DEF StatusRows
    <3>2. MiniStep(e) \in 0..4 /\ MiniStep(e) <= Rank(shown[e])
      BY MiniStepRank
    <3>3. /\ Rank(shown[e]) <= Rank(row[e])
          /\ Rank(shown[e]) \in 0..4 /\ Rank(row[e]) \in 0..4
      BY <1>1, RankRange DEF Reached
    <3>4. QED
      BY <3>1, <3>2, <3>3
  <2>2. QED
    BY <2>1
<1>9. PanelMode = "running" /\ Cardinality(fileList) = 1 =>
        \A e \in fileList : ProgressSteps[StatusRows[e]] = "active"
  <2>1. IsFiniteSet(fileList)
    BY FS_Subset DEF PanelInv, RoundsInv
  <2>2. QED
    BY <2>1, PanelModes, SingleStepper
<1>10. QED
  BY <1>4, <1>5, <1>6, <1>7, <1>8, <1>9 DEF PanelTellsTheTruth

\* PanelTellsTheTruth, for any finite set of executions.
THEOREM PanelsTellTheTruth == Spec => []PanelTellsTheTruth
<1>1. PanelInv => PanelTellsTheTruth
  <2>1. IsFiniteSet(Executions)
    BY PollingAssumption
  <2>2. CASE fileList # {} /\ DOMAIN shown = fileList
    BY <2>1, <2>2, PanelIsTrue
  <2>3. CASE ~(fileList # {} /\ DOMAIN shown = fileList)
    BY <2>3 DEF PanelTellsTheTruth
  <2>4. QED
    BY <2>2, <2>3
<1>2. QED
  BY <1>1, AnswersInvariant, PTL
=============================================================================
