---------------------------- MODULE ResultPages -----------------------------
(***************************************************************************)
(* The pages of what was measured: the history of submissions              *)
(* (HistoryPage), one submission (SubmissionOverviewPage), the comparison  *)
(* of two to four executions (ComparisonPage) and the results of one       *)
(* (RenderImage with its ReproducibilityPanel).  The source viewer is the  *)
(* same on the second and the last.  Language and theme are left out.      *)
(***************************************************************************)
EXTENDS Loaders

CONSTANTS Executions,  \* the executions a comparison may name
          Sizes        \* the input sizes a range may be chosen from
ASSUME ResultAssumption == Sizes \subseteq Nat \ {0} /\ IsFiniteSet(Executions)

MIN_COMPARISON_EXECUTIONS == 2
MAX_COMPARISON_EXECUTIONS == 4

\* parseExecutionQuery; any other address shows an error and asks nothing.
ValidQuery(q) ==
  /\ q \subseteq Executions
  /\ Cardinality(q) \in MIN_COMPARISON_EXECUTIONS..MAX_COMPARISON_EXECUTIONS

\* The page resets them together; 0 is the end of the domain.
NoRange == [min |-> 0, max |-> 0]
DefaultFilters == [aggregation |-> "median", dispersion |-> TRUE,
                   scale |-> "linear", range |-> NoRange]

----------------------------------------------------------------------------
(***************************************************************************)
(* The history.  Nothing tells the answers of two of its requests apart:   *)
(* the last one to arrive is shown.                                        *)
(***************************************************************************)
NoArchive == [item |-> 0, stage |-> "none", key |-> Off]
HistoryView ==
  [list |-> [search |-> "", page |-> 1], archiving |-> NoArchive]

HistoryKey == Key({}, "history", view.list.search, view.list.page)
HistoryLoader == Effect("history", HistoryKey, {"clears"})
HistoryOptionsLoader ==
  Effect("history", Key({}, "options", "", 1), {"clears"})

UpdateFilter(text) ==
  text # view.list.search
  /\ Set([view EXCEPT !.list = [search |-> text, page |-> 1]])
ClearFilters ==
  view.list.search # "" /\ Set([view EXCEPT !.list = HistoryView.list])
\* While it is loading neither button does anything.
TurnHistory(n) == /\ n \in 1..LastPage /\ MayBeSettled("history")
                  /\ Set([view EXCEPT !.list.page = n])
HistoryItemsShown ==
  MayBeSettled("history") /\ MayBeClean("history") /\ HasContent("history")
RetryHistory == /\ MayBeSettled("history") /\ MayHaveFailed("history")
                /\ SetAndReload(view, {"history"})

\* One item at a time, until the list has been read again.
SetArchived(i) ==
  /\ HistoryItemsShown /\ view.archiving = NoArchive
  /\ SetAndSend([view EXCEPT !.archiving = [item |-> i, stage |-> "patching",
                                            key |-> HistoryKey]],
                "archiveItem", i)
\* The last item of a page: the one before it.  Any other: loadHistory, as it
\* was when the command was given, whatever was filtered since.
ItemArchived(w) ==
  /\ w.kind = "archiveItem" /\ w.mounted
  /\ \/ /\ view.archiving.key.page > 1
        /\ LET n == IF view.list.page > 1 THEN view.list.page - 1 ELSE 1
           IN  Succeeds(w, [view EXCEPT !.list.page = n,
                                        !.archiving = NoArchive], {})
     \/ Succeeds(w, [view EXCEPT !.archiving.stage = "reloading"], {"history"})
ArchiveSettled ==
  /\ view.archiving.stage = "reloading"
  /\ "history" \in DOMAIN loads =>
       ~\E r \in loads["history"].asked : r.key = view.archiving.key
  /\ Set([view EXCEPT !.archiving = NoArchive])

HistoryNext ==
  /\ screen = "history"
  /\ \/ \E text \in Searches : UpdateFilter(text)
     \/ ClearFilters \/ RetryHistory \/ ArchiveSettled
     \/ \E n \in 1..LastPage : TurnHistory(n)
     \/ \E i \in Ids : SetArchived(i)

----------------------------------------------------------------------------
(***************************************************************************)
(* One submission.  While it is read nothing else of it is on screen, and  *)
(* its answer closes what was open; what is under way goes on.  Nothing    *)
(* tells the answers of two submissions apart: `traced` is the one whose   *)
(* executions the last answer brought, if any of them can be traced.       *)
(***************************************************************************)
OverviewView(i) ==
  [id |-> i, reading |-> TRUE, refused |-> FALSE, traced |-> {},
   editingNote |-> FALSE, comparing |-> FALSE, chosen |-> {},
   reference |-> [kind |-> "closed", of |-> 0], previous |-> 0, viewer |-> 0]

SubmissionLoader ==
  Effect("submission", Key({view.id}, "submission", "", 1), {"clears"})

OverviewRead(v, of) ==
  [v EXCEPT !.reading = FALSE, !.traced = of, !.editingNote = FALSE,
            !.comparing = FALSE, !.chosen = {},
            !.reference = [kind |-> "closed", of |-> 0], !.previous = 0]
OverviewFailed(v) ==
  [v EXCEPT !.reading = FALSE, !.refused = TRUE, !.traced = {}]
Reading(v) == [v EXCEPT !.reading = TRUE, !.refused = FALSE]
ReloadSubmission(v) == SetAndReload(Reading(v), {"submission"})
\* An error stays on screen until the page asks again.
OverviewShown == ~view.reading /\ ~view.refused
OtherSubmission(i) == Reading([view EXCEPT !.id = i])

\* The archive's trace is read for the executions of the last answer, and anew
\* for each answer.
TraceLoader ==
  Effect("submission",
         IF view.reading \/ view.traced = {} THEN Paused
         ELSE Key(view.traced, "trace", "", 1),
         {"blanks", "clears", "vacates", "guarded"})
ArchiveOffered == OverviewShown /\ HasContent("trace")
DownloadArchive == /\ ArchiveOffered /\ ~InFlight("archiveFile")
                   /\ Send("archiveFile", view.id)

RefreshSubmission == OverviewShown /\ ReloadSubmission(view)
RetrySubmission ==
  ~view.reading /\ view.refused /\ ReloadSubmission(view)

\* Only the owner edits; the note, the pin and the archive do not wait for one
\* another, and each patches what is shown with the answer to it.
MetadataOffered == OverviewShown
EditNote == MetadataOffered /\ Set([view EXCEPT !.editingNote = TRUE])
CancelNote == /\ MetadataOffered /\ view.editingNote /\ ~InFlight("note")
              /\ Set([view EXCEPT !.editingNote = FALSE])
SaveNote == /\ MetadataOffered /\ view.editingNote /\ ~InFlight("note")
            /\ Send("note", view.id)
TogglePinned == MetadataOffered /\ ~InFlight("pin") /\ Send("pin", view.id)
SetRecordArchived ==
  MetadataOffered /\ ~InFlight("archive") /\ Send("archive", view.id)
NoteSaved(w) ==
  w.kind = "note" /\ Succeeds(w, [view EXCEPT !.editingNote = FALSE], {})
PinToggled(w) == w.kind = "pin" /\ Succeeds(w, view, {})
RecordArchived(w) == w.kind = "archive" /\ Succeeds(w, view, {})
ArchiveDownloaded(w) == w.kind = "archiveFile" /\ Succeeds(w, view, {})

\* A queued execution may be cancelled; each one has a button of its own.
CancelOffered(e) ==
  OverviewShown
  /\ ~\E w \in calls : w.mounted /\ w.kind = "cancel" /\ w.target = e
CancelExecution(e) == CancelOffered(e) /\ Send("cancel", e)
ExecutionCancelled(w) ==
  w.kind = "cancel" /\ Succeeds(w, Reading(view), {"submission"})

StartComparison ==
  /\ OverviewShown /\ ~view.comparing
  /\ \E eligible \in SUBSET Executions :
       /\ Cardinality(eligible) >= MIN_COMPARISON_EXECUTIONS
       /\ Set([view EXCEPT !.comparing = TRUE,
                 !.chosen = IF ValidQuery(eligible) THEN eligible ELSE {}])
CancelComparison == /\ OverviewShown /\ view.comparing
                    /\ Set([view EXCEPT !.comparing = FALSE, !.chosen = {}])
ChoiceOffered == OverviewShown /\ view.comparing
ToggleComparison(e) ==
  /\ ChoiceOffered
  /\ e \in view.chosen
     \/ Cardinality(view.chosen) < MAX_COMPARISON_EXECUTIONS
  /\ Set([view EXCEPT !.chosen = IF e \in @ THEN @ \ {e} ELSE @ \cup {e}])
OpenChosen == ChoiceOffered /\ ValidQuery(view.chosen)

\* Nothing keeps the panel from being asked for again, and closing it does not
\* take back what was asked: the answer opens it.
OpenReferenceCandidates(e) ==
  /\ OverviewShown
  /\ SetAndSend([view EXCEPT !.reference = [kind |-> "loading", of |-> e]],
                "references", e)
ReferencesRead(w) ==
  /\ w.kind = "references"
  /\ Succeeds(w, [view EXCEPT !.reference = [kind |-> "shown", of |-> w.target]],
              {})
CloseReferences ==
  /\ OverviewShown /\ view.reference.kind # "closed"
  /\ Set([view EXCEPT !.reference = [kind |-> "closed", of |-> 0]])

CardActionOffered == OverviewShown
PreviousCompatible(e) ==
  /\ CardActionOffered /\ view.previous = 0
  /\ SetAndSend([view EXCEPT !.previous = e], "previous", e)

\* The source viewer, closed by Escape, by its buttons or a click beside it.
OpenViewer(e) ==
  (screen = "submission" => CardActionOffered)
  /\ Set([view EXCEPT !.viewer = e])
CloseViewer == view.viewer # 0 /\ Set([view EXCEPT !.viewer = 0])
SourceLoader ==
  [key |-> IF screen \notin {"submission", "result"} THEN Off
           ELSE IF view.viewer = 0 THEN Paused
           ELSE Key({view.viewer}, "source", "", 1),
   traits |-> {"blanks", "clears", "guarded"}]

OverviewNext ==
  /\ screen = "submission"
  /\ \/ RefreshSubmission \/ RetrySubmission \/ DownloadArchive
     \/ EditNote \/ CancelNote \/ SaveNote \/ TogglePinned
     \/ SetRecordArchived
     \/ StartComparison \/ CancelComparison
     \/ \E e \in Executions : ToggleComparison(e)
     \/ \E e \in Ids : \/ CancelExecution(e) \/ OpenReferenceCandidates(e)
                       \/ PreviousCompatible(e) \/ OpenViewer(e)
     \/ CloseReferences \/ CloseViewer

----------------------------------------------------------------------------
(***************************************************************************)
(* A comparison.  What its address names is the set of its executions; the *)
(* filters of the chart stay when it changes.                              *)
(***************************************************************************)
ComparisonView(q) ==
  [id |-> q, historyOpen |-> FALSE, incompatible |-> FALSE, audit |-> FALSE,
   filters |-> DefaultFilters, ai |-> 0]

ComparisonLoader ==
  Effect("comparison",
         IF ValidQuery(view.id) THEN Key(view.id, "comparison", "", 1)
         ELSE Paused, {"blanks", "clears", "guarded"})
ComparisonShown ==
  /\ ValidQuery(view.id)
  /\ HasContent("comparison") /\ MayBeClean("comparison")
RetryComparison ==
  /\ MayHaveFailed("comparison") /\ MayBeSettled("comparison")
  /\ SetAndReload([view EXCEPT !.ai = 0], {"comparison"})

\* With four executions there is nothing to add.
CanBrowseHistorical ==
  ComparisonShown /\ Cardinality(view.id) < MAX_COMPARISON_EXECUTIONS
HistoricalLoader ==
  Effect("comparison",
         IF view.historyOpen /\ ValidQuery(view.id)
            /\ Cardinality(view.id) < MAX_COMPARISON_EXECUTIONS
         THEN Key(view.id, "historical", "", 1) ELSE Paused,
         {"blanks", "clears", "guarded"})
ToggleHistorical ==
  CanBrowseHistorical /\ Set([view EXCEPT !.historyOpen = ~@])
CandidatesShown ==
  /\ ComparisonShown /\ view.historyOpen
  /\ HasContent("historical") /\ MayBeClean("historical")
RetryHistorical ==
  /\ ComparisonShown /\ view.historyOpen /\ MayHaveFailed("historical")
  /\ SetAndReload(view, {"historical"})
ShowIncompatible ==
  CandidatesShown /\ Set([view EXCEPT !.incompatible = ~@])

\* Other executions: the panel is closed, and the explanation, with a request
\* for one, is given up.
OtherQuery(q) == [view EXCEPT !.id = q, !.historyOpen = FALSE,
                              !.incompatible = FALSE, !.ai = 0]
Disowned(kind, cs) ==
  {IF w.kind = kind THEN [w EXCEPT !.mounted = FALSE] ELSE w : w \in cs}
Compares(q) ==
  Navigates("comparison", ComparisonView(q), OtherQuery(q),
            Disowned("ai", calls))
RemoveExecution(e) ==
  /\ ComparisonShown /\ e \in view.id
  /\ Cardinality(view.id) > MIN_COMPARISON_EXECUTIONS
  /\ Compares(view.id \ {e})
AddCandidate(e) ==
  /\ CandidatesShown /\ e \in Executions \ view.id
  /\ Cardinality(view.id) < MAX_COMPARISON_EXECUTIONS
  /\ Compares(view.id \cup {e})

\* A range with its ends the wrong way round (normalizeInputRange).
Inverted(range) == range.min # 0 /\ range.max # 0 /\ range.min > range.max
Filters(f) == ComparisonShown /\ Set([view EXCEPT !.filters = f])
ChooseRange(range) == Filters([view.filters EXCEPT !.range = range])
ChooseScale(scale) == Filters([view.filters EXCEPT !.scale = scale])
ChooseAggregation(a) == Filters([view.filters EXCEPT !.aggregation = a])
ToggleDispersion == Filters([view.filters EXCEPT !.dispersion = ~@])
ResetComparisonFilters == Filters(DefaultFilters)
\* The chosen sizes are not all positive: the effect gives the scale up.
LogScaleLost == view.filters.scale = "log" /\ ChooseScale("linear")
ToggleAudit == ComparisonShown /\ Set([view EXCEPT !.audit = ~@])

GenerateComparisonAI ==
  ComparisonShown /\ ~InFlight("ai") /\ Send("ai", 1)
ComparisonExplained(w) ==
  /\ screen = "comparison" /\ w.kind = "ai"
  /\ Succeeds(w, [view EXCEPT !.ai = 1], {})

ComparisonNext ==
  /\ screen = "comparison"
  /\ \/ RetryComparison \/ ToggleHistorical \/ RetryHistorical
     \/ ShowIncompatible
     \/ \E e \in Executions : RemoveExecution(e) \/ AddCandidate(e)
     \/ \E min \in Sizes, max \in Sizes : ChooseRange([min |-> min, max |-> max])
     \/ \E scale \in {"linear", "log"} : ChooseScale(scale)
     \/ \E a \in {"median", "mean"} : ChooseAggregation(a)
     \/ ToggleDispersion \/ ResetComparisonFilters \/ LogScaleLost
     \/ ToggleAudit \/ GenerateComparisonAI

----------------------------------------------------------------------------
(***************************************************************************)
(* The results of one execution.  An error leaves only a link and a button *)
(* that loads the document again.                                          *)
(***************************************************************************)
ResultView(c) ==
  [id |-> c, expanded |-> FALSE, viewer |-> 0, category |-> "summary",
   advanced |-> FALSE, filters |-> DefaultFilters, ai |-> 0]

ResultsLoader ==
  Effect("result", Key({view.id}, "results", "", 1), {"guarded"})
ReproducibilityLoader ==
  Effect("result", Key({view.id}, "manifest", "", 1), {"blanks", "guarded"})

ResultsShown ==
  /\ MayBeSettled("results") /\ MayBeClean("results") /\ HasContent("results")
ReloadDocument == MayHaveFailed("results") /\ MayBeSettled("results")
                  /\ Mounts("result", ResultView(view.id))

\* Another execution: the panel is folded and the explanation goes, but not a
\* request for one, whose answer will be shown for the new execution.
OtherResult(c) == [view EXCEPT !.id = c, !.expanded = FALSE, !.viewer = 0,
                               !.ai = 0]

ShowCategory(c) == ResultsShown /\ Set([view EXCEPT !.category = c])
ToggleAdvanced == ResultsShown /\ Set([view EXCEPT !.advanced = ~@])
ResultFilters(f) == ResultsShown /\ Set([view EXCEPT !.filters = f])
\* Mutant: the lower end may pass the upper one.
RangeMinPasses(n) == ResultFilters([view.filters EXCEPT !.range.min = n])

\* An end that passes the other one takes it along.
RangeMinChanged(n) ==
  ResultFilters([view.filters EXCEPT !.range =
    [min |-> n, max |-> IF Inverted([@ EXCEPT !.min = n]) THEN n ELSE @.max]])
RangeMaxChanged(n) ==
  ResultFilters([view.filters EXCEPT !.range =
    [max |-> n, min |-> IF Inverted([@ EXCEPT !.max = n]) THEN n ELSE @.min]])
ResetFilters == ResultFilters(DefaultFilters)

GenerateAI == ResultsShown /\ ~InFlight("ai") /\ Send("ai", view.id)
Explained(w) ==
  /\ screen = "result" /\ w.kind = "ai"
  /\ Succeeds(w, [view EXCEPT !.ai = w.target], {})

DownloadCsv == ResultsShown /\ ~InFlight("csv") /\ Send("csv", view.id)
CsvDownloaded(w) == w.kind = "csv" /\ Succeeds(w, view, {})

\* The panel's own buttons, one download at a time.
ToggleReproducibility == ResultsShown /\ Set([view EXCEPT !.expanded = ~@])
PanelShown == ResultsShown /\ view.expanded /\ HasContent("reproducibility")
DownloadArtifact ==
  PanelShown /\ ~InFlight("artifact") /\ Send("artifact", view.id)
ArtifactDownloaded(w) == w.kind = "artifact" /\ Succeeds(w, view, {})

ResultNext ==
  /\ screen = "result"
  /\ \/ ReloadDocument \/ ToggleAdvanced \/ ResetFilters
     \/ \E c \in {"summary", "cpu"} : ShowCategory(c)
     \/ \E n \in Sizes \cup {0} : RangeMinChanged(n) \/ RangeMaxChanged(n)
     \/ GenerateAI \/ DownloadCsv
     \/ ToggleReproducibility \/ DownloadArtifact
     \/ PanelShown /\ OpenViewer(view.id)
     \/ CloseViewer

----------------------------------------------------------------------------
ResultPagesNext == HistoryNext \/ OverviewNext \/ ComparisonNext \/ ResultNext

ResultPagesAnswer(w) ==
  \/ ItemArchived(w) \/ NoteSaved(w) \/ PinToggled(w) \/ RecordArchived(w)
  \/ ArchiveDownloaded(w) \/ ExecutionCancelled(w) \/ ReferencesRead(w)
  \/ ComparisonExplained(w) \/ Explained(w) \/ CsvDownloaded(w)
  \/ ArtifactDownloaded(w)

\* What an error answer leaves: a refused cancellation reads the state again.
ResultPagesFailure(w) ==
  CASE w.kind = "archiveItem" -> [view EXCEPT !.archiving = NoArchive]
    [] w.kind = "references"  ->
         [view EXCEPT !.reference = [kind |-> "failed", of |-> w.target]]
    [] w.kind = "previous"    -> [view EXCEPT !.previous = 0]
    [] OTHER                  -> view
CancelRefused(w) ==
  /\ w.kind = "cancel" /\ w.mounted
  /\ view' = Reading(view) /\ reload' = {"submission"}
  /\ calls' = calls \ {w}
  /\ UNCHANGED <<screen, db, ack>>

\* A compatible execution was found: the comparison, also from another page.
PreviousFound(w) == \E q \in SUBSET Executions :
  /\ w.kind = "previous" /\ w.done
  /\ Cardinality(q) = MIN_COMPARISON_EXECUTIONS
  /\ Navigates("comparison", ComparisonView(q), OtherQuery(q),
               Disowned("ai", calls \ {w}))
PreviousNone(w) ==
  w.kind = "previous" /\ Succeeds(w, [view EXCEPT !.previous = 0], {})

ResultLinks ==
  \/ screen = "history" /\ HistoryItemsShown
     /\ \E i \in Ids : Mounts("submission", OverviewView(i))
  \/ screen = "submission" /\ OpenChosen
     /\ Mounts("comparison", ComparisonView(view.chosen))
  \/ screen = "submission" /\ CardActionOffered
     /\ \E c \in Ids : Mounts("result", ResultView(c))
  \/ screen \in {"comparison", "result"}
     /\ \E i \in Ids : Mounts("submission", OverviewView(i))
=============================================================================
