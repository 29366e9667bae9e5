--------------------------- MODULE ZipInspection ---------------------------
(***************************************************************************)
(* The archive of the analysis form (Client hooks/useZipAnalysis.js) and   *)
(* the title that follows it (formOnboardingModel.js).  A chosen ZIP is    *)
(* shown at once and read in the background; several reads can be under    *)
(* way, and each one writes the same state when it ends.                   *)
(***************************************************************************)
EXTENDS Integers, FiniteSets

CONSTANTS Zips,        \* the archives a user can choose
          Refused,     \* not named .zip, or above MAX_ZIP_MB
          Unreadable,  \* JSZip.loadAsync throws
          Sourceless   \* no .c and no .cpp entry

NoZip == "no zip"

ASSUME ZipAssumption ==
  /\ Refused \subseteq Zips
  /\ Unreadable \subseteq Zips
  /\ Sourceless \subseteq Zips
  /\ NoZip \notin Zips

VARIABLES file,        \* the File the form would send
          fileMeta,    \* the ZIP the description on screen was read from
          fileError,   \* why the archive is refused, "" if it is not
          inspecting,  \* isInspectingZip
          reads,       \* the ZIPs whose reading has not ended
          title        \* [text, origin]: a ZIP's stem, "typed" or ""

zipVars == <<file, fileMeta, fileError, inspecting, reads, title>>

Titles == [text   : Zips \cup {"typed", ""},
           origin : {"MANUAL", "AUTO_SUGGESTED"}]

ManualTitle(text) == [text |-> text, origin |-> "MANUAL"]

ZipTypeOK ==
  /\ file \in Zips \cup {NoZip}
  /\ fileMeta \in Zips \cup {NoZip}
  /\ fileError \in {"", "refused", "unreadable", "noSource"}
  /\ inspecting \in BOOLEAN
  /\ reads \subseteq Zips
  /\ title \in Titles

ZipInit ==
  /\ file = NoZip /\ fileMeta = NoZip /\ fileError = ""
  /\ inspecting = FALSE /\ reads = {}
  /\ title = ManualTitle("")

----------------------------------------------------------------------------
\* The description goes away, a reading under way does not: nothing cancels
\* the promise of zipFile.arrayBuffer().
ZipReset ==
  /\ file' = NoZip /\ fileMeta' = NoZip /\ fileError' = ""
  /\ inspecting' = FALSE

\* Mutant: the origin of the title is not looked at.
SuggestedAlways(current, zip) == [text |-> zip, origin |-> "AUTO_SUGGESTED"]

\* A title is replaced by the stem of the archive only if it is empty or was
\* itself suggested.
Suggested(current, zip) ==
  IF current.origin = "AUTO_SUGGESTED" \/ current.text = ""
  THEN [text |-> zip, origin |-> "AUTO_SUGGESTED"]
  ELSE current

\* analyzeZipFile up to its first await: reset, then refuse or start reading.
StartReading(zip) ==
  /\ fileMeta' = NoZip
  /\ IF zip \in Refused
     THEN /\ file' = NoZip /\ fileError' = "refused" /\ inspecting' = FALSE
          /\ UNCHANGED reads
     ELSE /\ file' = zip /\ fileError' = "" /\ inspecting' = TRUE
          /\ reads' = reads \cup {zip}

\* File input or drop.  The same archive is not chosen again while it is read.
ChooseZip(zip) ==
  /\ zip \notin reads
  /\ StartReading(zip)
  /\ UNCHANGED title

\* The file dialog is closed without a file: analyzeZipFile(undefined).
ChooseNothing == ZipReset /\ UNCHANGED <<reads, title>>

\* What the reading of zip writes when it ends, whichever archive is shown by
\* then, and the effect on fileMeta that suggests a title.
ReadingWrites(zip) ==
  /\ reads' = reads \ {zip}
  /\ inspecting' = FALSE
  /\ IF zip \in Unreadable
     THEN /\ file' = NoZip /\ fileMeta' = NoZip /\ fileError' = "unreadable"
          /\ UNCHANGED title
     ELSE /\ fileMeta' = zip
          /\ fileError' = IF zip \in Sourceless THEN "noSource" ELSE fileError
          /\ title' = Suggested(title, zip)
          /\ UNCHANGED file

EndReading(zip) ==
  /\ zip \in reads
  /\ ReadingWrites(zip)

TypeTitle(text) ==
  /\ title' = ManualTitle(text)
  /\ UNCHANGED <<file, fileMeta, fileError, inspecting, reads>>

----------------------------------------------------------------------------
\* The archive's part of buildAnalysisRequirements: what is missing before
\* the analysis can be reviewed, {} if nothing is.
ZipRequirements ==
  CASE fileError # ""           -> {"zipInvalid"}
    [] fileError = "" /\ file = NoZip -> {"zipRequired"}
    [] fileError = "" /\ file # NoZip /\ inspecting -> {"zipInspecting"}
    [] OTHER -> IF fileMeta = NoZip \/ fileMeta \in Sourceless
                THEN {"zipInvalid"} ELSE {}

(* The archive the form is ready to send is the one that was inspected: the  *)
(* requirement list reports zipInspecting until then, and what it accepts is *)
(* the description of that very archive.                                     *)
ReadyZipWasInspected == ZipRequirements = {} => fileMeta = file

============================================================================
