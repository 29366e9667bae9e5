------------------------------ MODULE Loaders -------------------------------
(***************************************************************************)
(* How the pages of the client read and write.  Every list and every card  *)
(* of a page has an effect of its own: when one of the values the effect   *)
(* depends on changes, React runs its cleanup, which clears its timer and  *)
(* aborts its request, and then the effect again.  A loader here is such   *)
(* an effect with the state it sets (loading, error, content); what it     *)
(* depends on is a record, its dependencies, given by each page module.    *)
(* Of the content a loader shows only what tells two answers apart is      *)
(* kept: the dependencies it was read for and the version of the database. *)
(***************************************************************************)
EXTENDS Naturals, FiniteSets

CONSTANTS Ids,        \* courses, users, submissions, ... of an address
          Searches,   \* what a search field or a filter may hold, "" included
          LastPage,   \* how far a list may be turned
          MaxVersion, \* bound: changes the database takes
          MaxCalls   \* bound: own mutations under way at a time

ASSUME IdsAssumption == Ids \subseteq Nat
ASSUME SearchesAssumption == "" \in Searches
ASSUME BoundsAssumption ==
  LastPage \in Nat \ {0} /\ MaxVersion \in Nat /\ MaxCalls \in Nat

VARIABLES screen,  \* the page that is mounted
          view,    \* the state of its controls
          reload,  \* the loaders whose reload counter the last step raised
          loads,   \* [loader -> the state of its effect]
          calls,  \* requests of handlers that have not been answered
          db,      \* version of the database
          ack      \* [loader -> version of the last mutation of what it reads
                   \*            that a handler of its page was told of]

pageVars == <<screen, view, reload, loads, calls, db, ack>>

----------------------------------------------------------------------------
(***************************************************************************)
(* Dependencies: the subject of the address, the tab or the membership     *)
(* chosen, the filters and the page of the list.  Off: the component that  *)
(* holds the effect is not mounted; Paused: the effect returns at once.    *)
(***************************************************************************)
Key(of, tab, search, page) ==
  [of |-> of, tab |-> tab, search |-> search, page |-> page]
Off == Key({}, "off", "", 0)
Paused == Key({}, "paused", "", 0)
Asks(key) == key \notin {Off, Paused}

\* An effect of page s.  "delayed": its request waits for a timer; "clears": a
\* failure empties its content; "noisy", "hollow": the body is read by
\* requestJson, and a missing one is an error, or is shown as nothing;
\* "blanks": the effect empties it first; "vacates": so does one that returns
\* at once; "guarded": the cleanup aborts the request, or its answer is ignored.
Effect(s, key, traits) ==
  [key |-> IF screen = s THEN key ELSE Off, traits |-> traits]

Nothing == [key |-> Off, version |-> 0]
Idle == [asked |-> {}, loading |-> FALSE, failed |-> FALSE, shown |-> Nothing]

\* A request: waiting for its timer, sent, read by the server, or with its
\* headers at the client and the body still to come.
Request(key, stage) == [key |-> key, stage |-> stage, version |-> 0]

\* Mutant: the cleanup clears the timer but does not abort what was sent.
OnlyTimerCleared(k, l) ==
  IF "guarded" \in k THEN {r \in l.asked : r.stage # "timer"} ELSE l.asked

\* The cleanup: of what was asked, what may still write.
Aborted(k, l) == IF "guarded" \in k THEN {} ELSE l.asked

\* requestJson swallows every error of response.json(), the abort included: an
\* effect that finds no payload reports an error, or shows nothing.
BodyLost(k, l) == "guarded" \in k /\ \E r \in l.asked : r.stage = "body"
Disturbed(k, l) == "noisy" \in k /\ BodyLost(k, l)
Emptied(k, l) == IF "clears" \in k THEN Nothing ELSE l.shown

\* The cleanup, with the error an aborted body leaves.
CleanedUp(k, l) ==
  [l EXCEPT !.asked = Aborted(k, l),
            !.failed = @ \/ Disturbed(k, l),
            !.shown = IF Disturbed(k, l) THEN Emptied(k, l)
                      ELSE IF "hollow" \in k /\ BodyLost(k, l) THEN Nothing
                      ELSE @]

\* The effect for new dependencies: at once, or behind its timer.  The error
\* of an aborted body comes after the effect cleared the one on screen.
Started(k, l, key) ==
  IF "delayed" \in k
  THEN [l EXCEPT !.asked = @ \cup {Request(key, "timer")}]
  ELSE [l EXCEPT !.asked = @ \cup {Request(key, "sent")}, !.loading = TRUE,
                 !.shown = IF "blanks" \in k THEN Nothing ELSE @]

Rerun(k, l, key) ==
  CASE key = Off    -> Idle
    [] key = Paused -> IF "vacates" \in k THEN Idle ELSE CleanedUp(k, l)
    [] OTHER ->
         Started(k, [CleanedUp(k, l) EXCEPT
                       !.failed = IF "delayed" \in k THEN @
                                  ELSE Disturbed(k, l)], key)

----------------------------------------------------------------------------
(***************************************************************************)
(* One request of a loader, from its timer to its answer.                  *)
(***************************************************************************)
Replaced(l, r, s) == [l EXCEPT !.asked = (@ \ {r}) \cup {s}]

TimerFires(l, r) ==
  [Replaced(l, r, [r EXCEPT !.stage = "sent"])
     EXCEPT !.loading = TRUE, !.failed = FALSE]
ServerReads(l, r, version) ==
  Replaced(l, r, [r EXCEPT !.stage = "read", !.version = version])
HeadersArrive(l, r) == Replaced(l, r, [r EXCEPT !.stage = "body"])
Answered(l, r) ==
  [l EXCEPT !.asked = @ \ {r}, !.loading = FALSE,
            !.shown = [key |-> r.key, version |-> r.version]]
Failed(k, l, r) ==
  [l EXCEPT !.asked = @ \ {r}, !.loading = FALSE, !.failed = TRUE,
            !.shown = Emptied(k, l)]

----------------------------------------------------------------------------
(***************************************************************************)
(* What a page may know of a loader.  A guard that reads a loader outside  *)
(* DOMAIN loads is open: that loader is in whatever state it may be in.    *)
(***************************************************************************)
HasContent(l) == l \in DOMAIN loads => loads[l].shown # Nothing
MayBeEmpty(l) == l \in DOMAIN loads => loads[l].shown = Nothing
MayBeSettled(l) == l \in DOMAIN loads => ~loads[l].loading
MayHaveFailed(l) == l \in DOMAIN loads => loads[l].failed
MayBeClean(l) == l \in DOMAIN loads => ~loads[l].failed

\* A page without controls of its own.
Plain == [id |-> 0]

\* A change of the page's own state alone, and one that reloads too.
SetAndReload(v, ls) ==
  /\ view' = v
  /\ reload' = ls
  /\ UNCHANGED <<screen, calls, db, ack>>
Set(v) == SetAndReload(v, {})

(***************************************************************************)
(* The requests of the handlers of a page: its mutations, and a few reads. *)
(* A call is done once the server has carried it out, a mutation as        *)
(* version `version` of the database; it is mounted as long as the page    *)
(* that sent it is.  `of` is what the address named then: it stays in the  *)
(* closure of the handler.                                                 *)
(***************************************************************************)
Subject == CASE screen = "comparison"   -> view.id
             [] screen # "comparison" /\ "id" \in DOMAIN view -> {view.id}
             [] OTHER                   -> {}
Call(kind, target) ==
  [kind |-> kind, target |-> target, of |-> Subject, mounted |-> TRUE,
   done |-> FALSE, version |-> 0]
InFlight(kind) == \E w \in calls : w.kind = kind /\ w.mounted

SetAndSend(v, kind, target) ==
  /\ Cardinality(calls) < MaxCalls
  /\ calls' = calls \cup {Call(kind, target)}
  /\ view' = v /\ reload' = {}
  /\ UNCHANGED <<screen, db, ack>>
Send(kind, target) == SetAndSend(view, kind, target)

\* What changes nothing at the server.
Reads == {"export", "previous", "references", "archiveFile", "csv",
          "artifact", "ai"}

\* The loaders that read what a mutation changes.
ReadersOf(kind) ==
  CASE kind \in {"save", "status", "add", "remove", "restore"} ->
         {"course", "attention", "students", "analytics"}
    [] kind \in {"saveProtocol", "protocolAction"} -> {"protocols"}
    [] kind \in {"access", "role"}        -> {"userProfile"}
    [] kind \in {"approve", "reject"}     -> {"requests"}
    [] kind = "preauthorize"              -> {"users"}
    [] kind = "cancel"                    -> {"submission"}
    [] kind = "archiveItem"               -> {"history"}
    [] OTHER                              -> {}

Learnt(w) ==
  [l \in DOMAIN ack |-> IF l \in ReadersOf(w.kind) /\ w.version > ack[l]
                        THEN w.version ELSE ack[l]]

\* Its good answer, with what the handler sets and reloads.
Succeeds(w, v, ls) ==
  /\ w.mounted /\ w.done
  /\ view' = v /\ reload' = ls
  /\ calls' = calls \ {w}
  /\ ack' = Learnt(w)
  /\ UNCHANGED <<screen, db>>

\* Another page is mounted; what the old one sent goes on without it.
Abandoned(cs) == {[w EXCEPT !.mounted = FALSE] : w \in cs}
Mounts(s, v) ==
  /\ screen' = s /\ view' = v /\ reload' = {}
  /\ calls' = Abandoned(calls)
  /\ UNCHANGED <<db, ack>>

\* An address of page s: the page that is mounted keeps its state, as `kept`,
\* and another one is mounted as `fresh`.  The calls `cs` are those left.
Navigates(s, fresh, kept, cs) ==
  /\ screen' = s /\ reload' = {}
  /\ view' = IF screen = s THEN kept ELSE fresh
  /\ calls' = IF screen = s THEN cs ELSE Abandoned(cs)
  /\ UNCHANGED <<db, ack>>

(***************************************************************************)
(* The confirmation dialog (components/ConfirmActionModal.js).  It covers  *)
(* the page and keeps the focus, so while it is open no other command can  *)
(* be given.  Its own mutation keeps it open: neither Escape nor a click   *)
(* beside it nor its buttons do anything while that is under way.          *)
(***************************************************************************)
Closed == [kind |-> "closed", target |-> 0]
Dialog(kind, target) == [kind |-> kind, target |-> target]
DialogBusy == InFlight(view.dialog.kind)
\* Mutant: Escape closes the dialog whatever it is busy with.
EscapeAlwaysHeeded == view.dialog # Closed

EscapeHeeded == view.dialog # Closed /\ ~DialogBusy
ConfirmHeeded(kind) == view.dialog.kind = kind /\ ~DialogBusy
CancelDialog == EscapeHeeded /\ Set([view EXCEPT !.dialog = Closed])
=============================================================================
