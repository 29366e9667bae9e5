---------------------------- MODULE StatusPanel -----------------------------
(***************************************************************************)
(* The panel beside the analysis form (Client components/StatusPanel.js):  *)
(* which of seven panels is shown for the executions on screen, what each  *)
(* one says of them, and the commands it offers.  A command the panel does *)
(* not offer cannot be given, so these are guards of the page's actions.   *)
(***************************************************************************)
EXTENDS ExecutionPolling

VARIABLES isSubmitting,    \* a submission or a recovery goes on
          submissionError  \* the page's own error

panelVars == <<isSubmitting, submissionError>>

HasCompletedResults == \E e \in DOMAIN shown : shown[e] = "COMPLETED"

\* getPanelMode
PanelMode ==
  CASE submissionError \/ requestError -> "error"
    [] ~(submissionError \/ requestError) /\ fileList = {} ->
         IF isSubmitting THEN "submitting" ELSE "ready"
    [] OTHER ->
         CASE allDone -> "completed"
           [] ~allDone /\ allTerminal /\ HasCompletedResults -> "partial"
           [] allTerminal /\ hasFailure /\ ~HasCompletedResults -> "error"
           [] allTerminal /\ hasCancelled /\ ~hasFailure /\ ~HasCompletedResults
                -> "cancelled"
           [] OTHER -> "running"

----------------------------------------------------------------------------
\* What each panel offers; `blocked` is what the requirement list still names.
ReadyOffers(blocked) == {"clear"} \cup (IF blocked = {} THEN {"review"} ELSE {})
SubmittingOffers == {}
RunningOffers == {"prepareAnother"}
CompletedOffers == {"results", "newAnalysis"}
PartialOffers == {"results", "newAnalysis"}
CancelledOffers == {"newAnalysis"}

\* The error of a round of GETs asks again; any other one goes back to the form.
ErrorOffers == IF requestError THEN {"retryRequest"} ELSE {"reviewRetry"}

Commands(blocked) ==
  CASE PanelMode = "ready"      -> ReadyOffers(blocked)
    [] PanelMode = "submitting" -> SubmittingOffers
    [] PanelMode = "running"    -> RunningOffers
    [] PanelMode = "completed"  -> CompletedOffers
    [] PanelMode = "partial"    -> PartialOffers
    [] PanelMode = "cancelled"  -> CancelledOffers
    [] PanelMode = "error"      -> ErrorOffers

\* "clear" and "newAnalysis" are the same handler.
ResetCommands == {"clear", "newAnalysis"}

----------------------------------------------------------------------------
\* The rows of a list of executions, and the mini stepper of each one: the
\* stage it is in, none for a state outside the normal course.
Stages == <<"QUEUED", "RUNNING", "PROCESSING", "COMPLETED">>
MiniStep(e) == IF \E i \in 1..4 : Stages[i] = shown[e]
               THEN CHOOSE i \in 1..4 : Stages[i] = shown[e] ELSE 0
StatusRows == [e \in DOMAIN shown |-> MiniStep(e)]

\* getSingleExecutionProgressIndex: the stepper of a single execution.  It reads
\* the execution's events, too; they come in the same answer as the state, and
\* of one that has not ended, which is when the stepper is shown, they say no
\* more than the state does.
ProgressIndex ==
  IF allDone THEN 4
  ELSE IF Cardinality(fileList) # 1 \/ DOMAIN shown # fileList THEN 0
  ELSE LET e == CHOOSE x \in fileList : TRUE IN MiniStep(e)

ProgressSteps ==
  [step \in 0..4 |-> CASE step < ProgressIndex -> "done"
                       [] step = ProgressIndex -> "active"
                       [] OTHER -> "pending"]

\* ExecutionCancelAction: the lists of the terminal panels get no handler, so
\* only the running panel shows it.
CancelOffered(e) ==
  /\ PanelMode = "running"
  /\ e \in DOMAIN shown /\ shown[e] = "QUEUED"
  /\ cancelling[e] # "pending"

----------------------------------------------------------------------------
\* The commands that concern the polling only.
CancelCommand(e) == CancelOffered(e) /\ CancelExecution(e)
RetryCommand == "retryRequest" \in Commands({}) /\ AskAgain

PanelNext ==
  \/ PollingNext
  \/ RetryCommand
  \/ \E e \in Executions : CancelCommand(e)

(* The panel never announces what the backend has not reached: once a round *)
(* of the executions on screen is shown, an end, a result or a cancellation *)
(* it announces is real, no stepper is ahead of its row, and the stepper of *)
(* a single execution agrees with its row in the list.                      *)
PanelTellsTheTruth ==
  fileList # {} /\ DOMAIN shown = fileList =>
    /\ PanelMode \in {"completed", "partial", "cancelled"} =>
         \A e \in fileList : row[e] \in TerminalStates
    /\ PanelMode = "completed" => \A e \in fileList : row[e] = "COMPLETED"
    /\ PanelMode = "partial"   => \E e \in fileList : row[e] = "COMPLETED"
    /\ PanelMode = "cancelled" => \A e \in fileList : row[e] = "CANCELLED"
    /\ \A e \in fileList : StatusRows[e] <= Rank(row[e])
    /\ PanelMode = "running" /\ Cardinality(fileList) = 1 =>
         \A e \in fileList : ProgressSteps[StatusRows[e]] = "active"

============================================================================
