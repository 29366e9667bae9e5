--------------------------- MODULE ExecutionQueue --------------------------
(***************************************************************************)
(* The persistent execution queue of the Performance System backend:       *)
(*                                                                         *)
(*   - the rows of the executions and submissions tables;                  *)
(*   - execution_dispatcher.py: the cycle claim / run / sync, with the     *)
(*     failure handler, and the advisory lock that makes it a singleton;   *)
(*   - worker_execution_service.py: the heartbeat threads it starts;       *)
(*   - execution_cancellation_service.py: the web cancellation;            *)
(*   - execution_recovery_service.py: the watchdog;                        *)
(*   - the intake of /sendcode, which fails a bundle it could not enqueue. *)
(*                                                                         *)
(* A database transaction is one action when everything it reads is under  *)
(* its own row locks, and several when it is not: transition_execution     *)
(* reads a row and later updates it if state and version are unchanged.    *)
(* A cancellation keeps its row locked between its two actions, and so     *)
(* does a claim between the SELECT that finds it and its commit.           *)
(***************************************************************************)
EXTENDS ExecutionStates

CONSTANTS
  Executions,     \* the execution rows, numbered by rank in (queued_at, id)
  Submissions,    \* the bundles
  SubmissionOf,   \* the bundle of each execution
  Dispatchers,    \* the dispatcher processes that may be started
  NoDispatcher,   \* the advisory lock is free
  Requests,       \* concurrent cancellation requests
  Faults          \* the failures that may happen

FaultKinds ==
  { "crash",      \* a process is killed
    "session",    \* the connection that holds the advisory lock drops
    "error",      \* a database call or the code around it raises
    "reply",      \* a commit succeeds and its caller sees an error
    "lease",      \* a heartbeat thread meets a transient error and ends
    "slow",       \* a row grows stale although its heartbeat thread lives
    "abort",      \* a watchdog cycle stops half-way
    "enqueue" }   \* /sendcode cannot write the files of a bundle

ASSUME ExecutionsAssumption == Executions \subseteq Nat \ {0}
ASSUME SubmissionOfAssumption == SubmissionOf \in [Executions -> Submissions]
ASSUME DispatchersAssumption == NoDispatcher \notin Dispatchers
ASSUME FaultsAssumption == Faults \subseteq FaultKinds

NoExecution == 0

VARIABLES
  state, version, result,  \* executions.execution_state, state_version, result_available
  started,     \* executions.started_at IS NOT NULL
  old,         \* last activity not after the cutoff of the watchdog's last scan
  status,      \* submissions.status
  holder,      \* the dispatcher whose session holds the advisory lock
  pc,          \* where each dispatcher is in its cycle
  cur,         \* the execution it claimed
  pending,     \* what it is about to write
  seen,        \* the row it read before writing
  lease,       \* its live heartbeat threads, by execution
  request,     \* the row each cancellation request has locked, and its rights
  candidates,  \* the rows of the watchdog's scan that remain to be recovered
  intake,      \* where the /sendcode of each bundle is
  todo,        \* the rows a failed intake has not yet marked
  intakeSeen   \* the row it read before marking

rows == <<state, version, result, started>>
dispatcher == <<pc, cur, pending, seen, lease>>
intakes == <<intake, todo, intakeSeen>>
vars == <<state, version, result, started, old, status, holder, pc, cur,
          pending, seen, lease, request, candidates, intake, todo, intakeSeen>>

\* execution_state and state_version as one read returned them.
Snapshot == [state : RowStates, version : Nat]
Candidate == [id : Executions, state : ActiveStates, version : Nat]

NoRow == [state |-> "ABSENT", version |-> 0]
RowOf(e) == [state |-> state[e], version |-> version[e]]

NoRequest == [id |-> NoExecution, authorized |-> FALSE]

Locations ==
  { "off", "idle", "claim", "prepare", "serve", "read", "write", "graph",
    "fail", "failread", "failwrite", "sync", "syncwrite" }

Pendings == {"none", "PROCESSING", "COMPLETED", "FAILED", "finished", "ERROR"}

\* The values of submissions.status that the queue writes.
Statuses == {"none", "QUEUED", "finished", "ERROR"}

\* Where a /sendcode request is; "failed" once it has answered 503.
IntakeSteps == {"none", "writing", "done", "failing", "marking", "failed"}

RowsOK ==
  /\ state \in [Executions -> RowStates]
  /\ version \in [Executions -> Nat]
  /\ result \in [Executions -> BOOLEAN]
  /\ started \in [Executions -> BOOLEAN]
  /\ old \in [Executions -> BOOLEAN]
  /\ status \in [Submissions -> Statuses]

DispatchersOK ==
  /\ holder \in Dispatchers \cup {NoDispatcher}
  /\ pc \in [Dispatchers -> Locations]
  /\ cur \in [Dispatchers -> Executions \cup {NoExecution}]
  /\ pending \in [Dispatchers -> Pendings]
  /\ seen \in [Dispatchers -> Snapshot]
  /\ lease \in [Dispatchers -> SUBSET Executions]

OthersOK ==
  /\ request \in [Requests -> [id : Executions \cup {NoExecution}, authorized : BOOLEAN]]
  /\ candidates \subseteq Candidate
  /\ intake \in [Submissions -> IntakeSteps]
  /\ todo \in [Submissions -> SUBSET Executions]
  /\ intakeSeen \in [Submissions -> Snapshot]

TypeOK == RowsOK /\ DispatchersOK /\ OthersOK

Init ==
  /\ state = [e \in Executions |-> "ABSENT"]
  /\ version = [e \in Executions |-> 0]
  /\ result = [e \in Executions |-> FALSE]
  /\ started = [e \in Executions |-> FALSE]
  /\ old = [e \in Executions |-> FALSE]
  /\ status = [s \in Submissions |-> "none"]
  /\ holder = NoDispatcher
  /\ pc = [d \in Dispatchers |-> "off"]
  /\ cur = [d \in Dispatchers |-> NoExecution]
  /\ pending = [d \in Dispatchers |-> "none"]
  /\ seen = [d \in Dispatchers |-> NoRow]
  /\ lease = [d \in Dispatchers |-> {}]
  /\ request = [r \in Requests |-> NoRequest]
  /\ candidates = {}
  /\ intake = [s \in Submissions |-> "none"]
  /\ todo = [s \in Submissions |-> {}]
  /\ intakeSeen = [s \in Submissions |-> NoRow]

-----------------------------------------------------------------------------
(* The executions table.                                                   *)

Bundle(s) == {e \in Executions : SubmissionOf[e] = s}

Active(e) == state[e] \in ActiveStates
Terminal(e) == state[e] \in TerminalStates

\* The transaction of a dispatcher that claims e is open.
Claiming(d, e) == pc[d] = "claim" /\ cur[d] = e

\* A cancellation or a claim holds the row FOR UPDATE; any other write of it
\* waits.
Locked(e) ==
  \/ \E r \in Requests : request[r].id = e
  \/ \E d \in Dispatchers : Claiming(d, e)

\* Mutant: the UPDATE forgets state and version.
UnchangedAlways(e, row) == e \in Executions

\* The WHERE clause of the conditional UPDATE.
Unchanged(e, row) == state[e] = row.state /\ version[e] = row.version

\* The SET clause of the UPDATE.
SetState(e, to) ==
  /\ state' = [state EXCEPT ![e] = to]
  /\ version' = [version EXCEPT ![e] = @ + 1]
  /\ result' = [result EXCEPT ![e] = ResultAfter(to, @)]
  /\ started' = [started EXCEPT ![e] = @ \/ to = "RUNNING"]

\* First in queue order; the rows of one bundle are inserted in this order.
First(e, S) == e \in S /\ \A f \in S : e <= f

-----------------------------------------------------------------------------
(* Intake: POST /sendcode.                                                 *)

(* create_submission_bundle commits the submission and all its rows.       *)
CreateBundle(s) ==
  /\ intake[s] = "none"
  /\ intake' = [intake EXCEPT ![s] = "writing"]
  /\ status' = [status EXCEPT ![s] = "QUEUED"]
  /\ state' = [e \in Executions |-> IF e \in Bundle(s) THEN "QUEUED" ELSE state[e]]
  /\ UNCHANGED <<version, result, started, old, holder, dispatcher, request,
                 candidates, todo, intakeSeen>>

(* The files of the bundle are written after the commit.                   *)
IntakeDone(s) ==
  /\ intake[s] = "writing"
  /\ intake' = [intake EXCEPT ![s] = "done"]
  /\ UNCHANGED <<rows, old, status, holder, dispatcher, request, candidates,
                 todo, intakeSeen>>

IntakeFails(s) ==
  /\ "enqueue" \in Faults
  /\ intake[s] = "writing"
  /\ intake' = [intake EXCEPT ![s] = "failing"]
  /\ todo' = [todo EXCEPT ![s] = Bundle(s)]
  /\ UNCHANGED <<rows, old, status, holder, dispatcher, request, candidates,
                 intakeSeen>>

(* mark_failed reads the next row of the bundle; a row that may not become *)
(* FAILED raises, and the error is swallowed.                              *)
IntakeRead(s) ==
  /\ intake[s] = "failing"
  /\ \E e \in todo[s] :
       /\ First(e, todo[s])
       /\ \/ /\ CanTransition(state[e], "FAILED")
             /\ intake' = [intake EXCEPT ![s] = "marking"]
             /\ intakeSeen' = [intakeSeen EXCEPT ![s] = RowOf(e)]
             /\ UNCHANGED todo
          \/ /\ ~CanTransition(state[e], "FAILED") \/ "error" \in Faults
             /\ todo' = [todo EXCEPT ![s] = @ \ {e}]
             /\ UNCHANGED <<intake, intakeSeen>>
  /\ UNCHANGED <<rows, old, status, holder, dispatcher, request, candidates>>

(* ... and updates it if nobody did in between.                            *)
IntakeMark(s) ==
  /\ intake[s] = "marking"
  /\ \E e \in todo[s] :
       /\ First(e, todo[s])
       /\ \/ ~Locked(e) /\ Unchanged(e, intakeSeen[s]) /\ SetState(e, "FAILED")
          \/ ~Locked(e) /\ ~Unchanged(e, intakeSeen[s]) /\ UNCHANGED rows
          \/ "error" \in Faults /\ UNCHANGED rows
       /\ todo' = [todo EXCEPT ![s] = @ \ {e}]
  /\ intake' = [intake EXCEPT ![s] = "failing"]
  /\ intakeSeen' = [intakeSeen EXCEPT ![s] = NoRow]
  /\ UNCHANGED <<old, status, holder, dispatcher, request, candidates>>

(* Whatever the rows became, the submission is reported as ERROR.          *)
IntakeReport(s) ==
  /\ intake[s] = "failing"
  /\ todo[s] = {}
  /\ \/ status' = [status EXCEPT ![s] = "ERROR"]
     \/ "error" \in Faults /\ UNCHANGED status
  /\ intake' = [intake EXCEPT ![s] = "failed"]
  /\ UNCHANGED <<rows, old, holder, dispatcher, request, candidates, todo,
                 intakeSeen>>

IntakeCrash(s) ==
  /\ "crash" \in Faults
  /\ intake[s] \in {"writing", "failing", "marking"}
  /\ intake' = [intake EXCEPT ![s] = "done"]
  /\ todo' = [todo EXCEPT ![s] = {}]
  /\ intakeSeen' = [intakeSeen EXCEPT ![s] = NoRow]
  /\ UNCHANGED <<rows, old, status, holder, dispatcher, request, candidates>>

-----------------------------------------------------------------------------
(* The dispatcher process.                                                 *)

Goto(d, place) == pc' = [pc EXCEPT ![d] = place]

\* Back in the loop of main(), with nothing in hand.
EndCycle(d) ==
  /\ Goto(d, "idle")
  /\ cur' = [cur EXCEPT ![d] = NoExecution]
  /\ pending' = [pending EXCEPT ![d] = "none"]
  /\ seen' = [seen EXCEPT ![d] = NoRow]

\* Mutant: the heartbeat thread is not stopped.
KeepLease(d) == lease' = [lease EXCEPT ![d] = @]

StopLease(d) == lease' = [lease EXCEPT ![d] = @ \ {cur[d]}]

Start(d) ==
  /\ pc[d] = "off"
  /\ holder = NoDispatcher
  /\ holder' = d
  /\ Goto(d, "idle")
  /\ UNCHANGED <<rows, old, status, cur, pending, seen, lease, request,
                 candidates, intakes>>

ReleaseLock(d) == holder' = IF holder = d THEN NoDispatcher ELSE holder

(* SIGTERM, or --once: honoured between two cycles only.                   *)
Stop(d) ==
  /\ pc[d] = "idle"
  /\ Goto(d, "off")
  /\ ReleaseLock(d)
  /\ UNCHANGED <<rows, old, status, cur, pending, seen, lease, request,
                 candidates, intakes>>

(* The process dies with its threads and its sessions.                     *)
Crash(d) ==
  /\ "crash" \in Faults
  /\ pc[d] # "off"
  /\ Goto(d, "off")
  /\ cur' = [cur EXCEPT ![d] = NoExecution]
  /\ pending' = [pending EXCEPT ![d] = "none"]
  /\ seen' = [seen EXCEPT ![d] = NoRow]
  /\ lease' = [lease EXCEPT ![d] = {}]
  /\ ReleaseLock(d)
  /\ UNCHANGED <<rows, old, status, request, candidates, intakes>>

(* The lock lives in a session that main() never looks at again.           *)
DropSession ==
  /\ "session" \in Faults
  /\ holder # NoDispatcher
  /\ holder' = NoDispatcher
  /\ UNCHANGED <<rows, old, status, dispatcher, request, candidates, intakes>>

\* Mutant: a row that runs is claimed again.
ClaimableAgain ==
  {e \in Executions : state[e] \in {"QUEUED", "RUNNING"} /\ ~Locked(e)}

\* Mutant: no row of a bundle is claimed once one of them has started.
ClaimableIfFresh ==
  {e \in Executions : /\ state[e] = "QUEUED" /\ ~Locked(e)
                      /\ \A f \in Bundle(SubmissionOf[e]) : ~started[f]}

Claimable == {e \in Executions : state[e] = "QUEUED" /\ ~Locked(e)}

(* claim_next_queued_execution: FOR UPDATE SKIP LOCKED LIMIT 1 on the      *)
(* QUEUED rows in queue order.  The row stays locked while the transaction *)
(* locks the submission, which it may have to wait for, and selects a node. *)
ClaimHead(d) ==
  /\ pc[d] = "idle"
  /\ \E e \in Executions :
       /\ First(e, Claimable)
       /\ cur' = [cur EXCEPT ![d] = e]
  /\ Goto(d, "claim")
  /\ UNCHANGED <<rows, old, status, holder, pending, seen, lease, request,
                 candidates, intakes>>

(* mark_running, and the commit.                                           *)
ClaimCommit(d) ==
  /\ pc[d] = "claim"
  /\ SetState(cur[d], "RUNNING")
  /\ old' = [old EXCEPT ![cur[d]] = FALSE]
  /\ Goto(d, "prepare")
  /\ UNCHANGED <<status, holder, cur, pending, seen, lease, request,
                 candidates, intakes>>

(* No measurement node is eligible, or a call of the transaction raises:   *)
(* the row is QUEUED again for everyone.                                   *)
GiveBack(d) ==
  /\ pc[d] = "claim"
  /\ EndCycle(d)
  /\ UNCHANGED <<rows, old, status, holder, lease, request, candidates, intakes>>

(* The claim commits, its caller sees an error: the row runs unowned.      *)
ClaimReplyLost(d) ==
  /\ "reply" \in Faults
  /\ pc[d] = "claim"
  /\ SetState(cur[d], "RUNNING")
  /\ old' = [old EXCEPT ![cur[d]] = FALSE]
  /\ EndCycle(d)
  /\ UNCHANGED <<status, holder, lease, request, candidates, intakes>>

(* activate_claimed_execution: the row must still be RUNNING; the first    *)
(* heartbeat is written before the heartbeat thread starts.                *)
Activate(d) ==
  /\ pc[d] = "prepare"
  /\ ~Locked(cur[d])
  /\ state[cur[d]] = "RUNNING"
  /\ old' = [old EXCEPT ![cur[d]] = FALSE]
  /\ lease' = [lease EXCEPT ![d] = @ \cup {cur[d]}]
  /\ Goto(d, "serve")
  /\ UNCHANGED <<rows, status, holder, cur, pending, seen, request, candidates,
                 intakes>>

(* The submission, its source or the status marker cannot be prepared, or  *)
(* the row is no longer RUNNING.                                           *)
PrepareFails(d) ==
  /\ pc[d] = "prepare"
  /\ Goto(d, "fail")
  /\ UNCHANGED <<rows, old, status, holder, cur, pending, seen, lease, request,
                 candidates, intakes>>

Proceed(d, place, what) ==
  /\ Goto(d, place)
  /\ pending' = [pending EXCEPT ![d] = what]
  /\ UNCHANGED <<rows, old, status, holder, cur, seen, lease, request,
                 candidates, intakes>>

(* run_single_execution: DONE asks for PROCESSING; an ERROR marker, the    *)
(* timeout of the master or a communication error ask for FAILED.          *)
MeasurementEnds(d) ==
  /\ pc[d] = "serve"
  /\ \E what \in {"PROCESSING", "FAILED"} : Proceed(d, "read", what)

(* The marker still reads as PENDING at the timeout.                       *)
NoOutcome(d) ==
  /\ pc[d] = "serve"
  /\ Proceed(d, "fail", "none")

(* graph_results and result_bundle_exists.                                 *)
PostProcess(d) ==
  /\ pc[d] = "graph"
  /\ \E what \in {"COMPLETED", "FAILED"} : Proceed(d, "read", what)

\* Mutant: an exception of the failure handler is handled by itself.
RaiseAgain(d) ==
  /\ Goto(d, "fail")
  /\ pending' = [pending EXCEPT ![d] = "none"]
  /\ seen' = [seen EXCEPT ![d] = NoRow]
  /\ StopLease(d)
  /\ UNCHANGED cur

(* An exception leaves the runner for the failure handler, or the failure  *)
(* handler for main().  The calls that write a terminal state stop the     *)
(* heartbeat thread on their way out; mark_processing does not.            *)
Raise(d) ==
  IF pc[d] \in {"failread", "failwrite"}
  THEN EndCycle(d) /\ StopLease(d)
  ELSE /\ Goto(d, "fail")
       /\ pending' = [pending EXCEPT ![d] = "none"]
       /\ seen' = [seen EXCEPT ![d] = NoRow]
       /\ IF pending[d] = "PROCESSING" THEN UNCHANGED lease ELSE StopLease(d)
       /\ UNCHANGED cur

(* transition_execution reads state and version ...                        *)
ReadRow(d) ==
  /\ pc[d] \in {"read", "failread"}
  /\ \/ /\ CanTransition(state[cur[d]], pending[d])
        /\ Goto(d, IF pc[d] = "read" THEN "write" ELSE "failwrite")
        /\ seen' = [seen EXCEPT ![d] = RowOf(cur[d])]
        /\ UNCHANGED <<cur, pending, lease>>
     \/ ~CanTransition(state[cur[d]], pending[d]) /\ Raise(d)
  /\ UNCHANGED <<rows, old, status, holder, request, candidates, intakes>>

(* ... and updates the row if both are unchanged.                          *)
UpdateRow(d) ==
  /\ pc[d] \in {"write", "failwrite"}
  /\ ~Locked(cur[d])
  /\ Unchanged(cur[d], seen[d])
  /\ SetState(cur[d], pending[d])
  /\ IF pending[d] = "PROCESSING"
     THEN Goto(d, "graph") /\ UNCHANGED lease
     ELSE Goto(d, "sync") /\ StopLease(d)
  /\ pending' = [pending EXCEPT ![d] = "none"]
  /\ seen' = [seen EXCEPT ![d] = NoRow]
  /\ UNCHANGED <<old, status, holder, cur, request, candidates, intakes>>

(* ConcurrentExecutionUpdate.                                              *)
UpdateRefused(d) ==
  /\ pc[d] \in {"write", "failwrite"}
  /\ ~Locked(cur[d])
  /\ ~Unchanged(cur[d], seen[d])
  /\ Raise(d)
  /\ UNCHANGED <<rows, old, status, holder, request, candidates, intakes>>

UpdateReplyLost(d) ==
  /\ "reply" \in Faults
  /\ pc[d] \in {"write", "failwrite"}
  /\ ~Locked(cur[d])
  /\ Unchanged(cur[d], seen[d])
  /\ SetState(cur[d], pending[d])
  /\ Raise(d)
  /\ UNCHANGED <<old, status, holder, request, candidates, intakes>>

(* A failed database call.  get_execution_context runs before the try that *)
(* stops the heartbeat thread, so the first read may leave it running.     *)
CallFails(d) ==
  /\ "error" \in Faults
  /\ pc[d] \in {"read", "write", "failread", "failwrite"}
  /\ \/ Raise(d)
     \/ pc[d] = "read" /\ Goto(d, "fail")
        /\ pending' = [pending EXCEPT ![d] = "none"]
        /\ UNCHANGED <<cur, seen, lease>>
  /\ UNCHANGED <<rows, old, status, holder, request, candidates, intakes>>

(* _mark_dispatch_failure: somebody else already ended the execution ...   *)
HandleInactive(d) ==
  /\ pc[d] = "fail"
  /\ ~Active(cur[d])
  /\ StopLease(d)
  /\ Goto(d, "sync")
  /\ UNCHANGED <<rows, old, status, holder, cur, pending, seen, request,
                 candidates, intakes>>

(* ... or it is still active, or the read failed and the claimed row, which *)
(* says RUNNING, stands for it.                                            *)
HandleActive(d) ==
  /\ pc[d] = "fail"
  /\ Active(cur[d]) \/ "error" \in Faults
  /\ Proceed(d, "failread", "FAILED")

-----------------------------------------------------------------------------
(* sync_submission_terminal_status.                                        *)

\* Mutant: one terminal execution is enough.
SettledOnce(s) == \E e \in Bundle(s) : Terminal(e)

\* Mutant: PROCESSING is not counted as active.
SettledButProcessing(s) ==
  Bundle(s) # {} /\ \A e \in Bundle(s) : state[e] \notin {"QUEUED", "RUNNING"}

Settled(s) == Bundle(s) # {} /\ \A e \in Bundle(s) : Terminal(e)

\* Mutant: the name of an execution state is written to the submission.
StateAsStatus(s) ==
  IF \A e \in Bundle(s) : state[e] = "COMPLETED" THEN "COMPLETED" ELSE "FAILED"

\* Mutant: a cancelled execution does not count against the bundle.
StatusIgnoringCancelled(s) ==
  IF \A e \in Bundle(s) : state[e] \in {"COMPLETED", "CANCELLED"}
  THEN "finished" ELSE "ERROR"

LegacyStatus(s) ==
  IF \A e \in Bundle(s) : state[e] = "COMPLETED" THEN "finished" ELSE "ERROR"

SyncRead(d) ==
  /\ pc[d] = "sync"
  /\ LET s == SubmissionOf[cur[d]] IN
       \/ /\ Settled(s)
          /\ Goto(d, "syncwrite")
          /\ pending' = [pending EXCEPT ![d] = LegacyStatus(s)]
          /\ UNCHANGED <<cur, seen>>
       \/ ~Settled(s) /\ EndCycle(d)
  /\ UNCHANGED <<rows, old, status, holder, lease, request, candidates, intakes>>

SyncWrite(d) ==
  /\ pc[d] = "syncwrite"
  /\ status' = [status EXCEPT ![SubmissionOf[cur[d]]] = pending[d]]
  /\ EndCycle(d)
  /\ UNCHANGED <<rows, old, holder, lease, request, candidates, intakes>>

SyncFails(d) ==
  /\ "error" \in Faults
  /\ pc[d] \in {"sync", "syncwrite"}
  /\ EndCycle(d)
  /\ UNCHANGED <<rows, old, status, holder, lease, request, candidates, intakes>>

-----------------------------------------------------------------------------
(* The heartbeat threads.                                                  *)

Beat(d, e) ==
  /\ e \in lease[d]
  /\ ~Locked(e)
  /\ \/ Active(e) /\ old' = [old EXCEPT ![e] = FALSE] /\ UNCHANGED lease
     \/ ~Active(e) /\ lease' = [lease EXCEPT ![d] = @ \ {e}] /\ UNCHANGED old
  /\ UNCHANGED <<rows, status, holder, pc, cur, pending, seen, request,
                 candidates, intakes>>

(* Any exception ends the thread, and nothing starts it again.             *)
LeaseDies(d, e) ==
  /\ "lease" \in Faults
  /\ e \in lease[d]
  /\ lease' = [lease EXCEPT ![d] = @ \ {e}]
  /\ UNCHANGED <<rows, old, status, holder, pc, cur, pending, seen, request,
                 candidates, intakes>>

-----------------------------------------------------------------------------
(* Web cancellation.                                                       *)

CancelLock(r) ==
  /\ request[r] = NoRequest
  /\ \E e \in Executions, authorized \in BOOLEAN :
       /\ state[e] # "ABSENT"
       /\ ~Locked(e)
       /\ request' = [request EXCEPT ![r] = [id |-> e, authorized |-> authorized]]
  /\ UNCHANGED <<rows, old, status, holder, dispatcher, candidates, intakes>>

\* Mutant: the state is not checked under the lock.
CancelAnyState(r) ==
  request[r].authorized /\ CanTransition(state[request[r].id], "CANCELLED")

CancelAllowed(r) == request[r].authorized /\ state[request[r].id] = "QUEUED"

CancelCommit(r) ==
  /\ request[r].id # NoExecution
  /\ CancelAllowed(r)
  /\ SetState(request[r].id, "CANCELLED")
  /\ request' = [request EXCEPT ![r] = NoRequest]
  /\ UNCHANGED <<old, status, holder, dispatcher, candidates, intakes>>

(* Forbidden, Conflict or any other error: rollback.                       *)
CancelRollback(r) ==
  /\ request[r].id # NoExecution
  /\ ~CancelAllowed(r) \/ "error" \in Faults
  /\ request' = [request EXCEPT ![r] = NoRequest]
  /\ UNCHANGED <<rows, old, status, holder, dispatcher, candidates, intakes>>

-----------------------------------------------------------------------------
(* The recovery watchdog, run with --apply.                                *)

\* A heartbeat thread that lives renews its row long before the cutoff.
MayAge(e) == "slow" \in Faults \/ \A d \in Dispatchers : e \notin lease[d]

(* The cutoff moves forward once per cycle, to now minus 90 s: rows whose  *)
(* last activity it passes become old, and old rows are the candidates.    *)
WatchdogScan ==
  /\ candidates = {}
  /\ \E aged \in SUBSET {e \in Executions : Active(e) /\ MayAge(e)} :
       /\ old' = [e \in Executions |-> old[e] \/ e \in aged]
       /\ candidates' =
            {[id |-> e, state |-> state[e], version |-> version[e]] :
               e \in {f \in Executions : Active(f) /\ (old[f] \/ f \in aged)}}
  /\ UNCHANGED <<rows, status, holder, dispatcher, request, intakes>>

\* Mutant: the activity is not compared with the cutoff again.
StillSameVersion(c) == Unchanged(c.id, c)

\* The WHERE clause of fail_execution_if_stale.
StillStale(c) == Unchanged(c.id, c) /\ old[c.id]

WatchdogRecover(e) ==
  /\ First(e, {c.id : c \in candidates})
  /\ \E c \in candidates :
       /\ c.id = e
       /\ ~Locked(e)
       /\ \/ StillStale(c) /\ SetState(e, "FAILED")
          \/ ~StillStale(c) /\ UNCHANGED rows
       /\ candidates' = candidates \ {c}
  /\ UNCHANGED <<old, status, holder, dispatcher, request, intakes>>

WatchdogAborts ==
  /\ "abort" \in Faults
  /\ candidates # {}
  /\ candidates' = {}
  /\ UNCHANGED <<rows, old, status, holder, dispatcher, request, intakes>>

-----------------------------------------------------------------------------

Intake(s) ==
  \/ CreateBundle(s) \/ IntakeDone(s) \/ IntakeFails(s) \/ IntakeRead(s)
  \/ IntakeMark(s) \/ IntakeReport(s) \/ IntakeCrash(s)

\* The steps of a cycle that the loop of main() takes by itself.
Work(d) ==
  \/ ClaimCommit(d) \/ GiveBack(d)
  \/ Activate(d) \/ PrepareFails(d) \/ MeasurementEnds(d) \/ NoOutcome(d)
  \/ PostProcess(d) \/ ReadRow(d) \/ UpdateRow(d) \/ UpdateRefused(d)
  \/ HandleInactive(d) \/ HandleActive(d) \/ SyncRead(d) \/ SyncWrite(d)

Mishap(d) ==
  \/ Crash(d) \/ ClaimReplyLost(d) \/ UpdateReplyLost(d) \/ CallFails(d)
  \/ SyncFails(d)

Dispatch(d) == Start(d) \/ Stop(d) \/ ClaimHead(d) \/ Work(d) \/ Mishap(d)

Heartbeat == \E d \in Dispatchers, e \in Executions : Beat(d, e) \/ LeaseDies(d, e)

Cancel(r) == CancelLock(r) \/ CancelCommit(r) \/ CancelRollback(r)

Watchdog == WatchdogScan \/ WatchdogAborts \/ \E e \in Executions : WatchdogRecover(e)

Next ==
  \/ \E s \in Submissions : Intake(s)
  \/ \E d \in Dispatchers : Dispatch(d)
  \/ DropSession
  \/ Heartbeat
  \/ \E r \in Requests : Cancel(r)
  \/ Watchdog

Spec == Init /\ [][Next]_vars
-----------------------------------------------------------------------------
(* Safety.                                                                 *)

(* result_available is TRUE exactly on COMPLETED rows, through every race  *)
(* of dispatcher, watchdog, cancellation and intake failure (the CHECK     *)
(* chk_executions_result_requires_completed, and its converse).            *)
ResultIffCompleted ==
  \A e \in Executions : result[e] <=> state[e] = "COMPLETED"

(* A cancelled execution was never claimed.  The state machine allows      *)
(* RUNNING -> CANCELLED; only the row lock and the check of                *)
(* cancel_queued_execution keep a cancellation off a claimed row.          *)
CancelledNeverStarted ==
  \A e \in Executions : state[e] = "CANCELLED" => ~started[e]

(* No execution is in the hands of two dispatchers, even when the advisory *)
(* lock is lost and two of them claim side by side.                        *)
SoleOwner ==
  \A d1, d2 \in Dispatchers :
    cur[d1] # NoExecution /\ cur[d1] = cur[d2] => d1 = d2

(* A heartbeat thread lives only for the execution in hand, and is gone    *)
(* whenever the cycle is over, however it ended.  A thread left behind     *)
(* would keep an abandoned row fresh and hide it from the watchdog.        *)
NoOrphanLease ==
  \A d \in Dispatchers :
    /\ lease[d] \subseteq {cur[d]}
    /\ pc[d] \in {"off", "idle", "claim", "prepare", "sync", "syncwrite"} => lease[d] = {}

(* submissions.status says finished only if every execution completed: the *)
(* counts are read before the status is written, by whoever last saw the   *)
(* bundle settle.                                                          *)
FinishedIsTrue ==
  \A s \in Submissions :
    status[s] = "finished" => \A e \in Bundle(s) : state[e] = "COMPLETED"

(* A bundle whose intake did not fail is reported only once every one of   *)
(* its executions is terminal (docstring of the sync function).            *)
ReportedIsSettled ==
  \A s \in Submissions :
    status[s] \in {"finished", "ERROR"} /\ intake[s] # "failed" =>
      \A e \in Bundle(s) : Terminal(e)

-----------------------------------------------------------------------------
(* What a step may never do.                                               *)

(* The watchdog fails no execution whose heartbeat thread is alive, even   *)
(* if the thread started between the scan and the update.                  *)
LiveLeaseNeverRecovered ==
  [][\A e \in Executions :
       WatchdogRecover(e) /\ state'[e] # state[e] =>
         \A d \in Dispatchers : e \notin lease[d]]_vars

(* Once a bundle is reported, its report stands, whatever the intake is    *)
(* doing; only a failing intake may still turn finished into ERROR, and    *)
(* after it the executions that went on may turn ERROR into finished.      *)
ReportIsFinal ==
  [][\A s \in Submissions :
       /\ status[s] \in {"finished", "ERROR"}
       /\ intake[s] \notin {"failing", "failed"}
       => status'[s] = status[s]]_vars

\* A request that holds the row and is about to cancel it.
BeingCancelled(e) == \E r \in Requests : request[r].id = e /\ CancelAllowed(r)

(* A dispatcher takes the oldest QUEUED execution that is not being        *)
(* cancelled (README: one Execution at a time in FIFO order).  SKIP LOCKED *)
(* passes every locked row: that of a cancellation that will be refused,   *)
(* and that of another dispatcher's claim that may be given back.          *)
ClaimIsFifo ==
  [][\A d \in Dispatchers :
       cur[d] = NoExecution /\ cur'[d] # NoExecution =>
         \A e \in Executions :
           state[e] = "QUEUED" /\ ~BeingCancelled(e) => cur'[d] <= e]_vars

(* At most one dispatcher operates on the database (docstring of the       *)
(* dispatcher).                                                            *)
SingleDispatcher ==
  \A d1, d2 \in Dispatchers : pc[d1] # "off" /\ pc[d2] # "off" => d1 = d2

\* A living dispatcher that activated e is measuring or processing it.
Working(d, e) == cur[d] = e /\ pc[d] \in {"serve", "read", "write", "graph"}

(* The watchdog recovers abandoned executions only (docstring of the       *)
(* watchdog): none that a living dispatcher is still working on.           *)
RecoversOnlyAbandoned ==
  [][\A e \in Executions :
       WatchdogRecover(e) /\ state'[e] # state[e] =>
         \A d \in Dispatchers : ~Working(d, e)]_vars

-----------------------------------------------------------------------------
(* The abstract lifecycle, under the identity mapping.                     *)

Lifecycle == INSTANCE ExecutionLifecycle WITH Executions <- Executions,
               state <- state, version <- version, result <- result

ImplementsLifecycle == Lifecycle!Spec

-----------------------------------------------------------------------------
(* Liveness.                                                               *)

\* A scan whose cutoff has passed every row that may grow old.
FullScan ==
  /\ WatchdogScan
  /\ \A e \in Executions : Active(e) /\ MayAge(e) => old'[e]

(* A process that runs goes on running; a write waiting for a row lock is  *)
(* queued before later lockers; a web transaction ends; the watchdog runs  *)
(* cycle after cycle and time passes between them.  Nothing is assumed of  *)
(* users, of faults, or of the measurement's outcome.                      *)
Fairness ==
  /\ \A s \in Submissions : SF_vars(Intake(s) /\ ~CreateBundle(s))
  /\ \A d \in Dispatchers : SF_vars(Work(d))
  /\ \A r \in Requests : WF_vars(CancelCommit(r) \/ CancelRollback(r))
  /\ SF_vars(FullScan)
  /\ \A e \in Executions : SF_vars(WatchdogRecover(e))

LiveSpec == Spec /\ Fairness

(* Every claimed execution reaches a terminal state, whatever crashes,     *)
(* lost replies or dead heartbeat threads happen to its dispatcher.        *)
ActiveEnds == \A e \in Executions : Active(e) ~> Terminal(e)

(* The loop of main() is never stuck inside a cycle.                       *)
CyclesEnd == \A d \in Dispatchers : pc[d] # "off" ~> pc[d] \in {"idle", "off"}

(* If a dispatcher stays up and its claims find an eligible node again and *)
(* again, no queued execution is starved by other rows, by cancellations   *)
(* that lock it and roll back, or by rows that crashed dispatchers left.   *)
QueueDrains ==
  \A d \in Dispatchers, e \in Executions :
    <>[](pc[d] # "off") /\ SF_vars(ClaimHead(d)) /\ SF_vars(ClaimCommit(d)) =>
      (state[e] = "QUEUED" ~> state[e] # "QUEUED")

-----------------------------------------------------------------------------
(* The inductive invariant behind the safety properties.  TypeOK says what *)
(* the variables hold; the parts below say how they hang together.         *)

\* A dispatcher inside its cycle has an execution; what it is about to
\* write is allowed from the row it read.
ControlOK ==
  \A d \in Dispatchers :
    /\ cur[d] = NoExecution <=> pc[d] \in {"off", "idle"}
    /\ pc[d] \in {"write", "failwrite"} => CanTransition(seen[d].state, pending[d])
    /\ pc[d] = "syncwrite" => pending[d] \in {"finished", "ERROR"}

\* The rows of a bundle appear with its commit; a failed intake marks only
\* rows that may become FAILED.
IntakeOK ==
  \A s \in Submissions :
    /\ intake[s] = "none" => \A e \in Bundle(s) : state[e] = "ABSENT"
    /\ intake[s] = "marking" => CanTransition(intakeSeen[s].state, "FAILED")

\* A row that was never claimed has no start time.
UnclaimedNotStarted ==
  \A e \in Executions : state[e] \in {"ABSENT", "QUEUED", "CANCELLED"} => ~started[e]

\* A row that is being claimed is QUEUED, and no request holds it; once
\* claimed it is past the queue, for good.
OwnedPastQueue ==
  \A d \in Dispatchers, e \in Executions :
    cur[d] = e =>
      IF pc[d] = "claim"
      THEN state[e] = "QUEUED" /\ \A r \in Requests : request[r].id # e
      ELSE state[e] \notin {"ABSENT", "QUEUED"}

\* When threads are prompt, the row of a live thread has not grown old.
LeasedIsFresh ==
  "slow" \notin Faults =>
    \A d \in Dispatchers : \A e \in lease[d] : ~old[e]

\* What is reported, or read and about to be reported, is the verdict on a
\* settled bundle; a bundle that has no rows yet has no report.
ReportsAgree ==
  /\ \A d \in Dispatchers :
       pc[d] = "syncwrite" =>
         /\ Settled(SubmissionOf[cur[d]])
         /\ pending[d] = LegacyStatus(SubmissionOf[cur[d]])
  /\ \A s \in Submissions :
       status[s] \in {"finished", "ERROR"} /\ intake[s] # "failed" =>
         Settled(s) /\ status[s] = LegacyStatus(s)
  /\ \A s \in Submissions : intake[s] = "none" => status[s] = "none"

IInv ==
  /\ TypeOK
  /\ ControlOK
  /\ IntakeOK
  /\ ResultIffCompleted
  /\ UnclaimedNotStarted
  /\ OwnedPastQueue
  /\ SoleOwner
  /\ NoOrphanLease
  /\ FinishedIsTrue
  /\ ReportsAgree
  /\ LeasedIsFresh
=============================================================================
