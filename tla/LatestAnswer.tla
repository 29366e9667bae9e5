---------------------------- MODULE LatestAnswer -----------------------------
(***************************************************************************)
(* What a loader promises to whoever looks at it: of all it was asked for, *)
(* only the last thing may still appear.  `want` is what is asked for now, *)
(* or one of Silent; `shown` is what the content was read for, or NoValue. *)
(* An error may stand on its own; what is shown beside none, with nothing  *)
(* pending, is what is wanted.                                             *)
(***************************************************************************)
CONSTANTS Silent,   \* what asks for nothing
          NoValue,  \* no content
          Writable  \* the loaders whose content a handler writes, too

VARIABLES want, pending, failed, shown   \* functions on the loaders
vars == <<want, pending, failed, shown>>

Init ==
  \A l \in DOMAIN want :
    want[l] \in Silent /\ ~pending[l] /\ ~failed[l] /\ shown[l] = NoValue

Stays(l) ==
  /\ want'[l] = want[l] /\ pending'[l] = pending[l]
  /\ failed'[l] = failed[l] /\ shown'[l] = shown[l]

\* Something is asked for, the same thing again or another; old content may
\* stay for the time being, but nothing new comes with it.
Asks(l) ==
  /\ pending'[l] <=> want'[l] \notin Silent
  /\ shown'[l] \in {shown[l], NoValue}

\* What is pending goes on; an earlier error may be forgotten meanwhile.
Continues(l) ==
  /\ pending[l] /\ pending'[l]
  /\ want'[l] = want[l] /\ shown'[l] = shown[l]

Answers(l) ==
  /\ pending[l] /\ ~pending'[l]
  /\ want'[l] = want[l] /\ failed'[l] = failed[l]
  /\ shown'[l] = want[l]

Fails(l) ==
  /\ pending[l] /\ ~pending'[l]
  /\ want'[l] = want[l] /\ failed'[l]
  /\ shown'[l] \in {shown[l], NoValue}

\* A handler shows what it was answered, which may be about what was asked for
\* before; what is wanted now is then asked for at once.
Writes(l) ==
  l \in Writable /\ (pending'[l] <=> want'[l] \notin Silent)

Next ==
  /\ DOMAIN want' = DOMAIN want
  /\ \A l \in DOMAIN want :
       \/ Stays(l) \/ Asks(l) \/ Continues(l) \/ Answers(l) \/ Fails(l)
       \/ Writes(l)

Spec == Init /\ [][Next]_vars

\* With nothing pending and no error, what is shown is what is wanted.
ShowsWhatIsWanted ==
  \A l \in DOMAIN want :
    want[l] \notin Silent /\ ~pending[l] /\ ~failed[l] => shown[l] = want[l]
=============================================================================
