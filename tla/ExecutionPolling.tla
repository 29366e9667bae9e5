-------------------------- MODULE ExecutionPolling --------------------------
(***************************************************************************)
(* Following the executions of a bundle from the analysis form             *)
(* (Client hooks/useExecutionPolling.js) and cancelling them.  The rows    *)
(* are the backend's: they move as ExecutionStates allows, at any time,    *)
(* and the form only ever knows them through GETs that are answered one by *)
(* one.                                                                    *)
(***************************************************************************)
EXTENDS ExecutionStates, Integers, FiniteSets

CONSTANTS Executions,
          MaxCancels   \* bound: clicks on the cancel button, per execution

ASSUME PollingAssumption == IsFiniteSet(Executions) /\ MaxCancels \in Nat

VARIABLES row,          \* the execution_state of each row, at the backend
          fileList,     \* the executions on screen
          polls,        \* rounds of GETs, [of, live, got]
          timer,        \* the next round is scheduled
          shown,        \* executionFiles: a snapshot per execution, or {}
          requestError, \* the last round had an unavailable answer
          cancelling,   \* executionCancellationState, per execution
          clicks,       \* cancel clicks so far (bounds the model)
          cancels       \* cancel requests, <<execution, stage>>

pollingVars == <<row, fileList, polls, timer, shown, requestError, cancelling,
                 clicks, cancels>>

Unavailable == "unavailable"
NoAnswer == "none"
Answers == States \cup {Unavailable, NoAnswer}
NothingShown == [e \in {} |-> NoAnswer]

PollingTypeOK ==
  /\ row \in [Executions -> RowStates]
  /\ fileList \subseteq Executions
  /\ \A p \in polls : /\ p.of \subseteq Executions
                      /\ p.live \in BOOLEAN
                      /\ p.got \in [p.of -> Answers]
  /\ timer \in BOOLEAN
  /\ DOMAIN shown \subseteq Executions
  /\ \A e \in DOMAIN shown : shown[e] \in States \cup {Unavailable}
  /\ requestError \in BOOLEAN
  /\ cancelling \in [Executions -> {"", "pending", "message"}]
  /\ clicks \in [Executions -> 0..MaxCancels]
  /\ cancels \subseteq Executions \X {"sent", "done", "conflict", "failed"}

PollingInit ==
  /\ fileList = {} /\ polls = {} /\ timer = FALSE
  /\ shown = NothingShown /\ requestError = FALSE
  /\ cancelling = [e \in Executions |-> ""]
  /\ clicks = [e \in Executions |-> 0]
  /\ cancels = {}

----------------------------------------------------------------------------
\* Mutant: one terminal execution is enough.
AnyTerminal(s) == \E e \in DOMAIN s : s[e] \in TerminalStates

\* aggregatePollingState.
AllTerminal(s) == DOMAIN s # {} /\ \A e \in DOMAIN s : s[e] \in TerminalStates
AllDone(s) == DOMAIN s # {} /\ \A e \in DOMAIN s : s[e] = "COMPLETED"
HasFailure(s) == \E e \in DOMAIN s : s[e] = "FAILED"
HasCancelled(s) == \E e \in DOMAIN s : s[e] = "CANCELLED"
AllAvailable(s) == \A e \in DOMAIN s : s[e] # Unavailable

\* The flags of the hook are those of the last round, all FALSE when an
\* answer was missing.
allTerminal == AllTerminal(shown) /\ AllAvailable(shown)
allDone == AllDone(shown)
hasFailure == HasFailure(shown) /\ AllAvailable(shown)
hasCancelled == HasCancelled(shown) /\ AllAvailable(shown)

NewRound(files) == [of |-> files, live |-> TRUE, got |-> [e \in files |-> NoAnswer]]

\* Mutant: the cleanup does not mark the round.
KeptAlive(rounds) == rounds

\* The cleanup of the effect: the round under way will be ignored.  Of the
\* ignored rounds the model keeps the last one.
Ignored(rounds) == {[p EXCEPT !.live = FALSE] : p \in {q \in rounds : q.live}}

\* The effect of the hook for a list of files: nothing to follow, or a round.
Follow(files) ==
  /\ fileList' = files
  /\ timer' = FALSE /\ requestError' = FALSE
  /\ IF files = {}
     THEN /\ polls' = Ignored(polls)
          /\ shown' = NothingShown
     ELSE /\ polls' = Ignored(polls) \cup {NewRound(files)}
          /\ UNCHANGED shown

\* One GET is answered: the row as it is now, or no usable answer.
AnswerGet(p, e) ==
  /\ p \in polls /\ e \in p.of /\ p.got[e] = NoAnswer
  /\ \E answer \in {row[e], Unavailable} :
       polls' = (polls \ {p}) \cup {[p EXCEPT !.got[e] = answer]}
  /\ UNCHANGED <<row, fileList, timer, shown, requestError, cancelling, clicks,
                 cancels>>

\* Mutant: the effect on executionFiles is missing.
NotReleased(s) == cancelling

\* The effect on executionFiles: a pending cancellation is released when its
\* execution is no longer seen QUEUED.
Released(s) ==
  [e \in Executions |->
     IF cancelling[e] = "pending" /\ e \in DOMAIN s /\ s[e] # "QUEUED"
     THEN "" ELSE cancelling[e]]

\* Mutant: the loop ends with the first execution that ends.
RescheduledUntilOneEnds(got) == AllAvailable(got) /\ ~AnyTerminal(got)

\* Another round is scheduled unless every execution is terminal or an answer
\* was missing.
Rescheduled(got) == AllAvailable(got) /\ ~AllTerminal(got)

\* Promise.all settles.  The live round is shown.
EndRound(p) ==
  /\ p \in polls /\ \A e \in p.of : p.got[e] # NoAnswer
  /\ polls' = polls \ {p}
  /\ IF p.live
     THEN /\ shown' = p.got
          /\ cancelling' = Released(p.got)
          /\ requestError' = ~AllAvailable(p.got)
          /\ timer' = Rescheduled(p.got)
     ELSE UNCHANGED <<shown, cancelling, requestError, timer>>
  /\ UNCHANGED <<row, fileList, clicks, cancels>>

\* window.setTimeout(poll, intervalMs)
TimerFires ==
  /\ timer
  /\ timer' = FALSE /\ requestError' = FALSE
  /\ polls' = polls \cup {NewRound(fileList)}
  /\ UNCHANGED <<row, fileList, shown, cancelling, clicks, cancels>>

\* retryPolling: a new token makes the effect run again for the same files.
RetryPolling == Follow(fileList)

----------------------------------------------------------------------------
\* handleCancelExecution up to its await.
CancelExecution(e) ==
  /\ e \in Executions /\ clicks[e] < MaxCancels
  /\ clicks' = [clicks EXCEPT ![e] = @ + 1]
  /\ cancelling' = [cancelling EXCEPT ![e] = "pending"]
  /\ cancels' = cancels \cup {<<e, "sent">>}
  /\ UNCHANGED <<row, fileList, polls, timer, shown, requestError>>

\* POST /api/executions/<id>/cancel at the backend: a QUEUED row is cancelled,
\* any other one is a conflict; the request or its answer may be lost.
CancelAtBackend(e) ==
  /\ <<e, "sent">> \in cancels
  /\ \/ /\ row[e] = "QUEUED"
        /\ row' = [row EXCEPT ![e] = "CANCELLED"]
        /\ \E outcome \in {"done", "failed"} :
             cancels' = (cancels \ {<<e, "sent">>}) \cup {<<e, outcome>>}
     \/ /\ UNCHANGED row
        /\ \E outcome \in {"failed"} \cup (IF row[e] = "QUEUED" THEN {}
                                          ELSE {"conflict"}) :
             cancels' = (cancels \ {<<e, "sent">>}) \cup {<<e, outcome>>}
  /\ UNCHANGED <<fileList, polls, timer, shown, requestError, cancelling, clicks>>

\* The rest of handleCancelExecution, when the answer arrives.
CancelAnswered(e, outcome) ==
  /\ <<e, outcome>> \in cancels /\ outcome # "sent"
  /\ cancels' = cancels \ {<<e, outcome>>}
  /\ cancelling' = IF outcome = "done" THEN cancelling
                   ELSE [cancelling EXCEPT ![e] = "message"]
  /\ IF outcome \in {"done", "conflict"}
     THEN RetryPolling
     ELSE UNCHANGED <<fileList, polls, timer, shown, requestError>>
  /\ UNCHANGED <<row, clicks>>

----------------------------------------------------------------------------
\* The backend moves a row on, whatever the form does; a row is cancelled
\* through CancelAtBackend or from another screen.
BackendMoves(e, to) ==
  /\ CanTransition(row[e], to)
  /\ row' = [row EXCEPT ![e] = to]
  /\ UNCHANGED <<fileList, polls, timer, shown, requestError, cancelling,
                 clicks, cancels>>

\* What the hook waits for.
PollingAnswers ==
  \/ \E p \in polls : EndRound(p) \/ \E e \in p.of : AnswerGet(p, e)
  \/ TimerFires

\* retryPolling, from the error panel.
AskAgain ==
  requestError /\ RetryPolling /\ UNCHANGED <<row, cancelling, clicks, cancels>>

PollingNext ==
  \/ PollingAnswers
  \/ \E e \in Executions : CancelAtBackend(e)
  \/ \E c \in cancels : CancelAnswered(c[1], c[2])

(* A round of answers never replaces a later one: while an execution stays  *)
(* on screen its snapshot does not go back in the life of its row.  The     *)
(* rounds of a cancelled effect, whose GETs may be answered at any time,    *)
(* are what could take it back (useExecutionPolling, `if (cancelled)`).     *)
Rank(answer) ==
  CASE answer = "QUEUED" -> 1 [] answer = "RUNNING" -> 2
    [] answer = "PROCESSING" -> 3 [] answer \in TerminalStates -> 4
    [] OTHER -> 0

ShownNeverGoesBack ==
  [][\A e \in DOMAIN shown \cap DOMAIN shown' :
       shown'[e] # Unavailable => Rank(shown[e]) <= Rank(shown'[e])]_pollingVars

(* Following a bundle does not stop silently: as long as there are files on *)
(* screen a round or a timer is on its way, unless everything on screen is  *)
(* terminal or the panel shows the error whose button asks again.           *)
FollowedUntilSettled ==
  fileList # {} =>
    \/ timer
    \/ \E p \in polls : p.live /\ p.of = fileList
    \/ requestError
    \/ AllTerminal(shown) /\ DOMAIN shown = fileList

(* Retries and cancellations restart the effect, and none of them leaves    *)
(* two loops asking for the same bundle.                                    *)
OnePollingLoop ==
  Cardinality({p \in polls : p.live}) + (IF timer THEN 1 ELSE 0) <= 1

============================================================================
