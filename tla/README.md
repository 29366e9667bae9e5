# Performance System: verification project

Performance System receives C and C++ programs from students and teachers, measures their
energy use and performance on dedicated machines, and shows and compares the results. This
directory holds TLA+ models of the parts of the system where several processes, a database and
a network meet, and of the pages of the client, where requests, timers, effects and handlers
meet in one browser tab; TLC configurations that model-check them on small instances; and
proofs that TLAPS checks for every instance.

Paths are relative to the repository's root (`src/` in `PROJECT.json`).

- [The system](#the-system)
- [The modules](#the-modules)
- [How the models correspond to the code](#how-the-models-correspond-to-the-code)
- [What the runs show](#what-the-runs-show)
- [Where code and documents disagree](#where-code-and-documents-disagree)
- [What is proved](#what-is-proved)
- [What is not modelled](#what-is-not-modelled)
- [What could come next](#what-could-come-next)
- [Running the checks](#running-the-checks)

## The system

One PostgreSQL database, one web process (Flask, several request threads), one dispatcher, one
watchdog, a few measurement nodes, and a React client.

```
 client --- POST /sendcode ------> intake ------ INSERT rows ----+
   |                                 |                            v
   +--- POST .../cancel ---> cancellation -- row lock --> [ executions / submissions ]
   +--- polling  GET status  <------------------------------  ^        ^         ^
                                                              |        |         |
              dispatcher: claim, run, report  ----------------+        |         |
                  | starts                                             |         |
                  +--> heartbeat thread (last_heartbeat_at) -----------+         |
                  |                                                              |
                  +--> master sockets <----> measurement node (slave.py)         |
                                                                                 |
              watchdog: scan, fail what has no heartbeat ------------------------+

 client (one page on screen at a time)
   analysis form:  archive | parameters | target, policies | course, protocol | draft
                      \         \             |                 /           /
                       +------ review ---- submission ---- executions followed ---- panel
   lists and details:  controls --> dependencies of an effect --> request --> content
                       handlers --> mutation at the server --> the effects to run again
```

### Components

| Component | Files under `Server/` | State | Operations |
| --- | --- | --- | --- |
| Execution state machine | `webapp/services/execution_state_service.py`, `webapp/repositories/execution_repository.py` | `executions.execution_state`, `state_version`, `result_available` | `transition_execution`, `mark_processing`, `mark_completed`, `mark_failed` |
| Queue and dispatcher | `execution_dispatcher.py`, `webapp/services/execution_queue_service.py`, `execution_runner_service.py`, `execution_dispatch_service.py` | a PostgreSQL advisory lock; the execution in hand | claim, activate, measure, post-process, failure handler, report |
| Heartbeat threads | `webapp/services/worker_execution_service.py` | one daemon thread per active execution; `last_heartbeat_at` | start, beat, end on any exception, stop |
| Recovery watchdog | `recovery_watchdog.py`, `webapp/services/execution_recovery_service.py` | none between cycles | scan stale rows, fail each one conditionally |
| Cancellation | `webapp/services/execution_cancellation_service.py`, `webapp/routes/execution_status_routes.py` | a transaction with the row locked | cancel a QUEUED row, or roll back |
| Submission report | `execution_runner_service.py`, `webapp/repositories/submission_repository.py` | `submissions.status` | counts, then the legacy status |
| Intake | `webapp/app.py` (`cap_code`), `execution_creation_service.py`, `upload_service.py` | rows of a bundle, ZIP, marker and source files | create a bundle, enqueue its files, mark a failure |
| Node selection | `webapp/services/measurement_node_selector_service.py`, `webapp/repositories/measurement_node_assignment_repository.py` | `submissions.measurement_node_*` | choose, pin or change the node of a submission |
| Node registry | `webapp/services/measurement_node_service.py`, `webapp/routes/measurement_node_heartbeat_routes.py` | `measurement_nodes` (enabled, draining, last heartbeat) | register, heartbeat, drain |
| Master | `webapp/socketUtils.py`, `measurement_node_transport.py` | status markers, two listening sockets | send the program, receive the result |
| Measurement node | `slave.py` | its place in its loop, one task at a time | connect, compile, measure, report |
| Result bundle | `webapp/dataProcessing.py`, `webapp/services/result_artifact_service.py`, `results_service.py` | files of a finished execution | `graph_results`, `result_bundle_exists`, reads |
| Notifications | `webapp/services/notification_service.py`, `webapp/routes/feedback_notifications_routes.py` | one row per user, kind and event | record, list, mark read |
| Courses and protocols | `webapp/services/experimental_protocol_service.py`, `webapp/routes/experimental_protocol_routes.py`, `teacher_courses_routes.py` | courses, enrolments, protocols | edit, publish, archive |
| Access requests, users, sessions | `webapp/routes/admin_access_requests_routes.py`, `admin_users_routes.py`, `auth_routes.py`, `auth.py` | requests, users | request, approve, reject, sign in |
| AI explanations | `webapp/services/ai_explanation_service.py`, `comparison_ai_service.py`, `ai_runtime.py`, `ai_transports.py` | a file cache | look up, generate, store |
| Comparison, pedagogy, provenance, read routes | the remaining services and routes | none | calculations and reads on finished rows |

The client, under `Client/my-app/src`:

| Component | Files | State | Operations |
| --- | --- | --- | --- |
| Execution polling | `screens/RenderForm/hooks/` | a round of GETs or a timer, the last snapshots, pending cancellations | follow, answer, reschedule, ask again, cancel |
| Status panel | `screens/RenderForm/components/StatusPanel.js` | none: computed from the above and two flags of the page | which of seven panels, which commands |
| Analysis form | `screens/RenderForm/` | archive and title, parameters, target with policies and nodes, courses, the address, the stored draft, submissions in flight | edit, load a configuration, review, submit, recover, reset |
| Requests of a page | `common/requestErrorModel.js`, `components/ConfirmActionModal.js` | per effect: request, loading, error, content; per handler: its call; an open dialog | effect and cleanup, timer, answer, confirm |
| Course pages | `screens/Teacher*.js` | lists, tabs, filters, forms, dialogs | courses, enrolments, assistants, protocols |
| Administration pages | `screens/Admin*.js` | the same | users and roles, access requests, audit, status |
| Result pages | `screens/HistoryPage.js`, `SubmissionOverviewPage.js`, `RenderImage.js`, `ComparisonPage.js` | lists, selections, notes, ranges, viewers | archive, reference, compare, cancel, explain |
| Navigation | `App.js` | the address | which page is mounted for whom |
| Remaining screens | menus, profile, login, tutorial, feedback panel, texts | the screens' state | one request each |

`PROJECT.json` gives each of them a status and says what is left out.

### How the parts interact, and what is hard about it

*The database row is the only thing the actors share.* Intake, dispatcher, heartbeat thread,
watchdog and cancellation write the same `executions` row from different processes. Three
disciplines coexist: `FOR UPDATE` (cancellation), `FOR UPDATE SKIP LOCKED` (claim) and an
optimistic `UPDATE ... WHERE execution_state = .. AND state_version = ..` (every transition of
the dispatcher, the intake's failure handler and the watchdog). Each is simple. The hard part
is that they meet on one row, and that `transition_execution` reads in one transaction and
writes in another.

*The dispatcher can vanish at any line.* A crash, an exception, or a commit whose reply is lost
leaves a row RUNNING or PROCESSING. Its heartbeat thread should be gone by then, or the watchdog
would never see it; and it should not be gone while the dispatcher still works.

*The lock that makes the dispatcher unique is a session lock* on a connection `main()` never
uses again.

*The bundle's report is derived state.* `submissions.status` is computed from counts read in one
transaction and written in another, by whichever dispatcher ended an execution, and by a failing
intake, which writes ERROR whatever became of the rows.

*The exchange with a node is over two unreliable connections and marker files.* Every recent queued
marker wakes every node, an old one nobody. Results come late, or never; the master has its own timeouts; the node
does not retry its result. Master and node prove to each other who they are, but nothing in a
result proves which task it belongs to: the master writes the marker that the result names.

*A page of the client is one process with many requests.* React runs an effect again when
something it depends on changes, and its cleanup first; whether the answer of the older request can still write
depends on that cleanup. A page that is gone still gets its answers; a handler that waits for an
answer goes on with the values it closed over. The content of a list is a copy of the
database from when the server read it; a mutation makes it old, and the handler must name the effects
to run again.

*The form is several small machines over one address.* Archive, policies, courses, the draft,
the configuration an address loads, the submission and the polling each have their own requests
in flight, and a reset, a retry, a new address or leaving the page meets all of them at once.

The hazards, each at the line where it bites and with the properties that cover it, are listed
under "hazards" in `PROJECT.json`.

### What makes each component correct

- *State machine*: rows only take allowed moves, terminal rows stay, a result is offered exactly
  by COMPLETED rows, whoever writes and in whatever order.
- *Queue and dispatcher*: no execution is claimed twice; queue order; every cycle ends, however
  it fails; every execution that was claimed reaches a terminal state; one dispatcher at a time.
- *Heartbeat threads*: a thread lives no longer than the cycle that started it.
- *Watchdog*: fails abandoned executions, eventually all of them, and no others.
- *Cancellation*: succeeds only on executions nobody has started.
- *Report*: made only of settled bundles, true, and final.
- *Intake*: a bundle is created whole, and its failure does not disturb executions that run.
- *Node selection*: an execution goes to a node that is eligible when it is claimed; the
  executions of one submission run on one node.
- *Master and node*: the outcome that an execution gets is that of its own measurement; a
  measurement ends on both sides, whatever is lost.
- *Polling and panel*: one loop of GETs, no answer applied to another bundle or after a later one;
  following stops only when all executions have ended or with an error that offers to go on; what the
  panel says has been reached.
- *Form*: one submission at a time; policies of the chosen target; a protocol goes to its course; the
  draft is the form; a typed title stays.
- *Pages*: a list shows what its page asks for now and nothing read before a change the user was
  told of; a confirmed decision stays on screen until it is answered.

## The modules

| Module | Role |
| --- | --- |
| `ExecutionStates` | The states of one execution row and the transitions between them, as operators. |
| `ExecutionLifecycle` | The abstract specification: what any user of the backend may see an execution do. |
| `ExecutionQueue` | The detailed specification: intake, dispatchers, heartbeat threads, cancellations and watchdog on one database. Extends `ExecutionStates`; instantiates `ExecutionLifecycle`. |
| `ExecutionQueueProofs` | Theorems about `ExecutionQueue` and their TLAPS proofs. |
| `MCExecutionQueue` | Small instances of `ExecutionQueue` for TLC. |
| `MeasurementService` | The abstract specification of a measurement: one verdict, one outcome, and success only by the verdict. |
| `Measurement` | The exchange between dispatchers (as masters) and measurement nodes: markers, ports, timeouts. Instantiates `MeasurementService`. |
| `MeasurementProofs` | Theorems about `Measurement` and their TLAPS proofs. |
| `MCMeasurement` | Small instances of `Measurement` for TLC. |
| `ZipInspection` | The archive and the title of the analysis form. |
| `MeasurementForm` | Its parameters, its target, the policies and nodes asked for. |
| `ExecutionPolling` | Following and cancelling the executions of a bundle. Extends `ExecutionStates`. |
| `StatusPanel` | What the panel shows and which commands it offers. Extends `ExecutionPolling`. |
| `AnalysisForm` | The whole form page. Extends `ZipInspection`, `MeasurementForm` and `StatusPanel`. |
| `AnalysisFormProofs`, `StatusPanelProofs`, `FormTypes` | Theorems about `AnalysisForm`; the second one about its polling and its panel, the last about its types. |
| `MCAnalysisForm` | Small instances of `AnalysisForm`. |
| `Loaders` | What all pages share: an effect that reads, a handler's call, a dialog. |
| `LatestAnswer` | The abstract specification of an effect that reads: only the last thing asked for appears. |
| `CoursePages`, `AdminPages`, `ResultPages` | The pages: controls, dependencies of their effects, handlers and what they do with answers. Extend `Loaders`. |
| `ClientPages` | All pages under the addresses of `App.js`. Extends the three; instantiates `LatestAnswer`. |
| `ClientPagesProofs`, `DecisionProofs`, `PageTypes` | Theorems about `ClientPages`; the second one about its dialogs, the last about its types. |
| `MCClientPages` | Small instances of `ClientPages`. |

`Measurement` is what happens inside the action `MeasurementEnds` of `ExecutionQueue`: there the
outcome of `run_single_execution` is a choice, here it is the result of an exchange. What the queue
relies on is `MeasurementService`: at most one outcome per claimed execution.
`ExecutionQueue` composes the actors in one module because what they share is the row: each
action is a transaction, or one part of a transaction that others can come between.

The rows of `ExecutionQueue` appear in `AnalysisForm` as rows that move as `ExecutionStates` allows, at
any time: what `ImplementsLifecycle` promises is all that the client may rely on. `ClientPages` knows of
the server only that a mutation is carried out at some moment and that a read tells what was there
when it was read: a counter of versions is all that is left of the database.

## How the models correspond to the code

### `ExecutionQueue`: variables

| Variable | Code |
| --- | --- |
| `state`, `version`, `result`, `started` | columns `execution_state`, `state_version`, `result_available`, and `started_at IS NOT NULL` of `executions`. A row not yet inserted is `ABSENT`. |
| `old` | the row's last activity (`last_heartbeat_at`, else `started_at`, ...) is not after the cutoff of the watchdog's last scan |
| `status` | `submissions.status`, for the values the queue writes |
| `holder` | the session that has the advisory lock |
| `pc`, `cur`, `pending`, `seen` | a dispatcher's place in its cycle, the execution it claimed, what it is about to write, the row it read before |
| `lease` | the live heartbeat threads of each dispatcher |
| `request` | the row a cancellation has locked, and whether its user may cancel it |
| `candidates` | the rows of the current watchdog cycle still to be recovered |
| `intake`, `todo`, `intakeSeen` | the place of a `/sendcode` request, and in its failure handler the rows still to be marked and the row it read |

An execution is the number of its rank in `(queued_at, id)`, the order in which the claim sorts;
the rows of one bundle are inserted in this order too. Identifiers, texts, failure metadata and
timestamps are abstracted: no property tells them apart.

*Time* appears only through `old`. The watchdog computes a cutoff (now minus 90 s) once per
cycle; a scan may let any active row fall behind it, except rows that a live thread renews, when
threads are prompt (the thread's period is far below 90 s). The fault `slow` removes that
exception. A beat makes the row fresh again, and the conditional UPDATE of the watchdog compares
with the cutoff of its scan, as the code does.

### `ExecutionQueue`: actions

| Action | Code |
| --- | --- |
| `CreateBundle` | `create_submission_bundle`: one transaction, all rows QUEUED |
| `IntakeDone`, `IntakeFails` | the files of the bundle are written, or not, after that commit |
| `IntakeRead`, `IntakeMark`, `IntakeReport` | the `except` branch of `cap_code`: for each row `mark_failed` (a read, then the conditional UPDATE), with errors swallowed; then `submissions.status = 'ERROR'` and the 503 answer |
| `Start`, `Stop` | `main()` with its advisory lock; SIGTERM, which is honoured between cycles |
| `DropSession` | the lock's connection is lost; nobody notices |
| `ClaimHead`, `ClaimCommit`, `GiveBack`, `ClaimReplyLost` | `claim_next_queued_execution`: the SELECT that locks the head of the queue, then `mark_running` and the commit, or the row is given back (no eligible node, or a call that raises), or the commit comes without an answer |
| `Activate`, `PrepareFails` | the rest of the preparation, up to `activate_claimed_execution`, or its failure at any line |
| `MeasurementEnds`, `NoOutcome` | what `run_single_execution` made of the exchange with the node |
| `ReadRow`, `UpdateRow`, `UpdateRefused`, `UpdateReplyLost`, `CallFails` | `transition_execution` as a read and a conditional UPDATE, with each way it may fail, for PROCESSING, COMPLETED and FAILED alike |
| `PostProcess` | `graph_results` and the check of the bundle's files |
| `HandleInactive`, `HandleActive` | `_mark_dispatch_failure` |
| `SyncRead`, `SyncWrite`, `SyncFails` | `sync_submission_terminal_status` |
| `Beat`, `LeaseDies` | `_heartbeat_loop` |
| `CancelLock`, `CancelCommit`, `CancelRollback` | `cancel_queued_execution`: `SELECT ... FOR UPDATE`, the checks, the end of the transaction |
| `WatchdogScan`, `WatchdogRecover`, `WatchdogAborts` | `list_stale_executions`, one `fail_execution_if_stale` per candidate in the order of the scan, a cycle that an exception ends |
| `Crash`, `IntakeCrash` | a process is killed; its threads and sessions go with it |

`Raise` is where an exception goes: from the runner to the failure handler, from the failure
handler to `main()`. Whether the heartbeat thread survives depends on where the exception came
from: `mark_worker_completed` and its siblings stop it in a `finally`, `mark_processing` does
not, and the context read before the `try` may fail with the thread running. The model keeps
these cases apart because `NoOrphanLease` depends on them.

`GiveBack`, `PrepareFails` and `NoOutcome` are always possible: a source that cannot be read, or a marker
that says PENDING at the master's timeout, is ordinary behaviour and no fault.

A database transaction is *one* action if all it reads is under its own locks, and several if
not. The claim keeps the row it found locked while it locks the submission, which it may have to wait for, and
selects a node; the row is still QUEUED then and may stay so. The scan of the claim skips locked rows, so while a
cancellation or another dispatcher's claim holds a row, a claim passes it. Every other write of a locked row
waits: `~Locked` in its guard.

### `ExecutionQueue`: faults

`Faults` is a constant, so that a run says which failures it allows and a theorem holds for
every choice: `crash`, `session` (the advisory lock's connection), `error` (a database call
raises), `reply` (a commit whose caller sees an error), `lease` (a heartbeat thread dies),
`slow` (a heartbeat thread lives and does not beat for 90 s), `abort` (a watchdog cycle stops),
`enqueue` (the files of a bundle cannot be written).

### `Measurement`

| Variable | Code |
| --- | --- |
| `pc`, `job` | a dispatcher's place in `run_single_execution` and `slave_serve`, and its execution: `idle`, `bind` (marker written, no ports yet), `open` (listening, building the payload), `send` (`send_manager`), `recv` (`recv_manager`), `poll` (the loop that reads the marker) |
| `target` | the node of the claim (`measurement_node_key`) |
| `marker` | the file `status/<codename>`: none, `IN QUEUE:<node>`, `DONE`, an error, "no machines available", "timeout exceeded" |
| `outcome` | what `run_single_execution` asks of the state machine |
| `at`, `task` | a node's place in the loop of `main()`, and the payload it has: `watching` (`wait_until_recent_in_queue`), `connecting`, `hello` (waits for the answer of the send port), `measuring`, `reporting` (waits for the challenge of the result port) |
| `verdict` | how the measurement ended on the node, set when the node reports |
| `aged` | the executions whose queued marker is older than `QUEUE_RECENT_SECONDS` (300 s) |

| Action | Code |
| --- | --- |
| `Serve` | the marker is written, then the claimed row is activated; the activation may raise |
| `Bind`, `LoadSource`, `SourceFails` | `slave_serve` up to `send_manager`; an unreadable source returns silently, an invalid description raises |
| `TurnAway`, `TurnAwayFails`, `Deliver`, `DeliverInVain`, `SendTimeout` | `send_manager` and `send_program`: NOT_SELECTED for a node that is not the target, authentication and payload for the target, 60 s in all |
| `Receive`, `RejectReport`, `RecvTimeout`, `RecvFails` | `recv_manager` and `receive_data` |
| `Conclude`, `PollTimeout` | the loop of `run_single_execution` around `read_legacy_outcome` |
| `Crash` | the dispatcher is killed; its ports close |
| `Ages` | five minutes pass over a queued marker that is not written again |
| `Wake`, `Connect`, `HelloTimeout`, `Report`, `ReportTimeout`, `NodeFails` | the loop of `slave.py` |

When a master stops listening, whoever still waits for its answer gets an error: `Close` sends
these nodes back to their loop in the same step. A node that gave up leaves a dead connection in
the backlog, which the master accepts, finds dead and drops: no state changes, and the model has
no action for it. A program that was delivered stays on its node whatever becomes of the master.

The waits are abstracted by two faults and the age of the markers. A queued marker wakes every node, whoever it is
for, as long as it is recent (`Recent`); after 300 s it wakes nobody. A marker may age while its dispatcher waits for
the ports of another one, or once the program is sent, which then does not matter; between binding and sending there is only the minute
of `send_manager`. The master writes its marker before it has the ports and never again. So with two dispatchers the
second one can open its ports for a target that nothing sends there: `SendTimeout` then ends the execution with "no machines
available" although nothing failed (`Missed`). Otherwise `SendTimeout` needs the fault `away`: the target is too busy
or too far to ask for work within 60 s. A measurement may outlast the 2000 s of `recv_manager` and of
`MASTER_EXECUTION_TIMEOUT_SECONDS`: `overrun`; without it these waits end only when the target
does not have the program. The other faults are `crash`, `node` (killed, or a task without any
result), `network`, `payload` (a node discards what it was sent), `source`, `disk` (a marker
or a result file cannot be written). The untargeted protocol of old executions is left out: the claim of the
dispatcher gives every execution a node.

### `AnalysisForm` and its parts

A step is a change of state *with the effects it triggers*: React runs them before any other event
reaches the page, so nothing can be seen in between. What comes later, answers, timers and the end of
a reading, are steps of their own.

| Variables | Code |
| --- | --- |
| `file`, `fileMeta`, `fileError`, `inspecting`, `title` | the state of `useZipAnalysis`, the title and its origin. An archive is a name; whether it is refused, unreadable or without sources are sets. |
| `reads` | the archives whose `arrayBuffer()` has not been answered; nothing cancels them |
| `task`, `dataType`, `input`, `samples`, `profile` | the parameters |
| `mode`, `nodeKey`, `nodes`, `policy`, `availability`, `policyReads`, `nodeReads` | the target and what was asked about it. A request has `live`, which the cleanup of its effect clears. |
| `fileList`, `polls`, `timer`, `shown`, `requestError` | `useExecutionPolling`: rounds of GETs, `live` until their effect is cleaned up, and the snapshots on screen |
| `cancelling`, `cancels` | `executionCancellationState`, and the requests behind it |
| `isSubmitting`, `submissionError`, `submitLock`, `posts` | the page's flags, the ref against a second submission, the submissions in flight; `ours` while the page that sent one is mounted |
| `mounted`, `search`, `load` | the page, its address, and the configuration or recovery the address is loading |
| `courses`, `selectedCourse`, `personal`, `activeProtocol` | the course card and the attached protocol |
| `draft`, `draftRestored` | `localStorage` and the notice about it |
| `row`, `accepted` | the backend: the executions, and what a submission was accepted with |

`Requirements` is `buildAnalysisRequirements`; `PanelMode` and `Commands` are those of the panel, and
are the guards of the handlers: a command the panel does not offer cannot be given. `Autosave` is
part of every step, as the effect is; two handlers remove the draft first, and pass it to `Autosave` empty.
`Mount` is the first render with its effects, `Fresh` the state it starts from. `GoBack` is the browser's way back to the address of
a bundle; of the history of the browser this is all that is modelled: the addresses that load a configuration are left by `ClearSearch`, and
are visited through `OpenForm`. Leaving the page does not end
what it asked for: a submission in flight goes on, and its answer, good or bad, finds another page or none.

Four facts of the libraries the code stands on are in the model: React 17 does not batch the state changes
of a promise, which here makes no difference to what can be seen between two events; `navigate` of react-router works after its
component is gone, so an accepted submission takes the user to its executions wherever he is; `Promise.all` settles when its
last GET does; a ref keeps its value across a reset.

Some behaviour may surprise a reader of the code and is modelled as it is: an accepted submission whose answer is
lost looks like a refused one; a failing recovery shows the error panel although the executions are healthy; a starter
address replaces a stored draft; a recovery sets the samples and not the profile; in AUTO, policies that cannot be read
offer no retry; a suggested title comes back from the draft as a typed one; the archive of a repeated
submission may replace the one under review; a pending cancellation outlives its bundle on screen: `restoreExecution` and the
late answer of an earlier page's submission bring another bundle and do not clear it, and only a snapshot of the
same execution, or the answer of the request, releases it. The restoration asks for all executions of the address at once
(one step here); each GET may be answered before its row ends. The backend answers every submission context with
`personal_allowed` true and `selection_required` false (`get_submission_course_context`), so the
requirement of a course and the card of an automatic one never occur. An answer to a submission without public identifiers, and focus,
scrolling and the guided tour are left out.

### `ClientPages` and its parts

Every list and every card of a page has an effect that reads it. `Loaders` models such an effect with the state
it sets, and a page module says for each one what it depends on (`key`) and which kind of effect it is
(`traits`), read off its code:

| Trait | The effect |
| --- | --- |
| `guarded` | has a cleanup that aborts its request or makes its answer be ignored |
| `delayed` | waits for a timer, for a field the user types in |
| `clears` | empties its content when it fails |
| `blanks`, `vacates` | empties its content when it starts; also when it returns at once |
| `noisy`, `hollow` | reads the body with `requestJson`, which turns an aborted body into an empty answer: an error is shown, or nothing |

| Variables | Code |
| --- | --- |
| `screen`, `view` | the mounted page, and the state of its controls: tab, filters, page, forms, dialog |
| `reload` | the reload counters the step raised |
| `loads` | per loader: requests under way, `loading`, `failed`, and of the content shown only what it was read for and when |
| `calls` | the requests of handlers: sent, carried out, answered; `mounted` while their page is |
| `db`, `ack` | the version of the database, and per loader the version of the last change to what it reads that a handler was told of |

A step is a command of the page, a link, an address, the progress of a call or the progress of a
loader's request; `Effects` then runs again each effect whose `key` changed or that the handler reloads. A request
goes through its timer, the server's read (when the content gets its version), the headers and the body, because an abort
between the last two is what `requestJson` hides. A page whose address changes only in the id stays mounted with its
state (`Navigates`); any other address mounts a new one (`Mounts`).

The handlers of four pages write into content that an effect has read (`Written`): `patchCourse` shows the course it was answered, the
decisions on a user one field of the profile on screen, the commands of a submission one of its fields. They do so also
when the address has changed since, so content of an earlier address may come back; `Mixed` content is of both. Each of them also raises the
reload counter of the effect, which then reads what the address names now, except those of a submission. A handler that reloads by a
function instead (`loadHistory`, `loadSubmission`) took that function from the page when it was given, and reads what was asked then
(`AskedBy`).

The page of a submission keeps `reading`, `refused` and `traced`: its whole content comes from one unguarded answer, and the trace of the
archive is read for the executions that this answer brought, whatever the address says, and anew after each answer. While the dialog is open, nothing else
can be clicked, and `ConfirmActionModal` ignores Escape and its buttons while its own request is under way.

Loaders do not influence one another: a page reads of a loader at most whether it is settled, failed or empty, and these guards are
open for a loader that is not watched. (The trace depends on the answers to the submission: if that loader is not
watched, `SubmissionSettles` brings any of them.) So `Init` chooses any set of loaders to watch, and what holds of each holds
of all.

Two effects are not guarded, `loadHistory` and `loadSubmission`: the later answer wins. The model has them so, and the properties speak
of the guarded ones.

## What the runs show

| Run | Instance | Shows |
| --- | --- | --- |
| `queue_core` | 2 executions of 1 bundle, 1 dispatcher, 1 cancellation at a time, all faults but `slow` | types; `CancelledNeverStarted`; `NoOrphanLease`; `FinishedIsTrue`; `ReportedIsSettled`; the actions `ReportIsFinal` and `LiveLeaseNeverRecovered`; the refinement `ImplementsLifecycle` |
| `queue_two_dispatchers` | the same with 2 dispatchers, faults `session`, `crash`, `error`, `slow` | `SoleOwner`: side by side after a lost lock, two dispatchers never hold one execution |
| `queue_live` | 2 executions, 1 dispatcher, 1 cancellation, faults `crash`, `error`, `reply`, `lease`, with fairness | `ActiveEnds`, `CyclesEnd`, `QueueDrains` |
| `queue_fifo`, `queue_singleton`, `queue_abandoned` | the smallest instance that shows it | three statements of the documentation that the code does not keep, see below |
| `measurement_core` | 2 executions, 2 nodes, 2 dispatchers, all faults, with fairness | types; `TargetOnJob`; the actions `OwnMarker` and `VerdictStands`; the refinement `ImplementsService`; `ServeEnds` and `NodesReturn` |
| `measurement_ideal` | the same without faults (markers grow old all the same) | `SerialMeasurement`, `VerdictArrives` |
| `measurement_parallel` | 1 dispatcher, the fault `overrun` only | a fourth statement that the code does not keep |
| `client_form` | 2 executions, 5 archives (valid, valid, refused, unreadable, without sources), 2 nodes, 2 courses, one configuration per kind of address | types; `OnePollingLoop`, `FollowedUntilSettled`, `PanelTellsTheTruth`; `PolicyOfTarget`; `OneSubmission`, `ProtocolCourse`, `SubmittingIsReal`; `AutosaveHolds`, `DraftComesBack`; the actions `ShownNeverGoesBack`, `InputFollowsPolicy`, `TypedTitleKept`; with fairness, `SettledIsShown` and `CancelSettles` |
| `form_zip` | the same | a fifth statement that the code does not keep |
| `client_pages` | 2 of everything an address names, 2 searches, 2 pages of a list, 3 executions, an administrator, 1 change of the database, 2 calls at a time | types; `ReadYourWrites`; `DecisionStaysOnScreen`; the refinement `ShowsTheLatest` |

The properties, and what could break them:

- `CancelledNeverStarted`. The state machine allows RUNNING to CANCELLED. What keeps a
  cancellation off a claimed execution is the check of the state under the row lock.
- `SoleOwner`. The advisory lock is not needed for it: the claim's row lock and the move out of
  QUEUED are enough.
- `NoOrphanLease`. Every way out of a cycle, exceptions of exception handlers included, ends the
  thread. One left behind would hide an abandoned row from the watchdog.
- `FinishedIsTrue`, `ReportedIsSettled`, `ReportIsFinal`. The counts are stale when the status
  is written. This is harmless because settled bundles stay settled and a verdict on them stays
  the same. A failing intake is the exception: it writes ERROR while executions may still run, a
  dispatcher may later replace it by `finished`, and the three properties say exactly where
  this exception ends.
- `LiveLeaseNeverRecovered`. The scan of the watchdog is old when it acts. Version and state
  alone would not protect a row: a heartbeat changes neither. The cutoff is compared again in
  the UPDATE.
- `ImplementsLifecycle`. All interleavings together only take allowed moves, one version at a
  time, and offer results of COMPLETED rows only. Without the version in the WHERE clause, a
  watchdog and a dispatcher would overwrite each other's terminal state.
- `ActiveEnds`. Whatever happened to the dispatcher, each claimed execution ends.
- `CyclesEnd`. No exception path leads back into the cycle.
- `QueueDrains`. For a dispatcher that stays up and whose claims find an eligible node again and
  again, no queued execution is starved by others, by cancellations that roll back, or by rows
  that crashed dispatchers left.

- `TargetOnJob`, `OwnMarker`. A master that gave up closes its ports, and the next one opens the
  same two, while the node of the first still measures and will report there. That no result ends
  the wrong execution rests on two things together: the master takes a result only from its own
  target, and that target has asked for work in between, so its old task is gone.
- `VerdictStands`. No timeout, and no other master, overwrites what a node reported. The poll
  loop writes "timeout exceeded" without reading again; this is harmless because the master's own
  receiver has ended by then and nobody else may write that marker.
- `ImplementsService`. An execution goes on to post-processing only if its node measured it with
  success; it is measured at most once and gets at most one outcome, with two dispatchers and
  crashes too.
- `ServeEnds`, `NodesReturn`. No loss leaves a master waiting for a result that will not come, or
  a node stuck with a result nobody takes. The loop around `bind` has no end of its own: it ends
  because every way out of `slave_serve` closes the ports.
- `VerdictArrives`. Without faults the target gets through to its master, past the other nodes that
  the same marker woke, and its verdict becomes the outcome, unless the marker has grown too old by the time the master
  has the ports (`TooLate`). That exception is real with two dispatchers; with one it does not exist, which is proved.
- `SerialMeasurement`. It rests on the ports, not on the advisory lock: dispatchers take turns. It
  holds as long as no dispatcher is killed and its waits are long enough, with more than one
  dispatcher only if their connections hold too (proved); not otherwise, see below.

- `OnePollingLoop`, `FollowedUntilSettled`. Retries, cancellations, a lost answer and new files each restart the
  effect, whose cleanup must stop a round or a timer, whichever there is; and no way of ending a round may end
  the loop while something runs, unless the panel offers to ask again.
- `ShownNeverGoesBack`. GETs of a round that was replaced are still answered, and a snapshot may be older
  than the one on screen.
- `PanelTellsTheTruth`. The panel combines two errors, a flag of the page and snapshots taken at different
  moments; an end it announces must be an end, for every execution it announces it of.
- `SettledIsShown`, `CancelSettles`. No interleaving of restarts keeps the panel running, or a
  cancellation pending whose execution is on screen. If another bundle takes the screen the cancellation stays
  pending, as in the code; when its bundle comes back it is settled. Both assume `AddressRests`: a user who goes back and
  forth for ever starts the polling anew each time.
- `PolicyOfTarget`, `InputFollowsPolicy`. Policies are asked for again with each change of the target, and the
  handlers compute limits for a state React has not applied yet.
- `OneSubmission`, `SubmittingIsReal`. A reset, a retry, a recovery and leaving the page end everything a submission
  started, except the request itself.
- `ProtocolCourse`. Protocol, course and address are three pieces of state with five handlers and four loads between them.
- `AutosaveHolds`, `DraftComesBack`. The draft is written by an effect, removed by handlers, and must
  be neither lost nor overwritten by what an address loads.
- `TypedTitleKept`. A reading of an archive ends when it wants, and suggests a title.
- `ShowsTheLatest`. Filters, tabs, pages and addresses change while requests are under way: no answer to
  what was asked before comes back. Two pages are written by handlers, too (`Writable`): such a write may be about an earlier
  address, and is allowed only if what the address names now is asked for in the same step.
- `ReadYourWrites`. The handler of a mutation must reload each effect whose content the mutation changed, also
  when a read from before it is still under way.
- `DecisionStaysOnScreen`. The error of a decision is shown in its dialog, so the dialog must wait for the answer.
  Nor may a second decision of its kind be confirmed meanwhile. Only turning the page of a user to another user takes the
  dialog away with its request under way; on that page, too, nothing else does.

### Bounds, and why they are enough

Nothing in the model is cut off: a row makes at most three moves, so `version` is bounded by the
state machine itself, and no state constraint is used. The instances are bounded by the
constants only.

*Two executions.* Rows interact through the order of the claim, the scan of the watchdog, the
loop of the failing intake, and the counts of a bundle. Each of these compares one row with the
rest; with two rows there is a settled and an unsettled one, a first and a later one, one in
hand and one in the queue. *One bundle*: bundles do not share anything but the dispatcher; two
executions in one bundle make the counts interesting. *One cancellation slot*, used again and
again; two cancellations of one row exclude each other by the row lock, as one and a retry do.
*One dispatcher* where the properties are about a cycle, *two* where they are about a lost lock;
a second dispatcher also starts after a crash of the first. The safety properties of
`queue_core` are also proved for all values of the constants, so there the run is
the quick check and the proof the answer. `slow` is left out of `queue_core` because
`LiveLeaseNeverRecovered` is about prompt threads; the other properties do not need that, as
their proofs show.

*`Measurement`.* Two dispatchers contend for the ports; two nodes are a target and another one; two
executions are a late one and its successor, on the same node or on the other. What is served first has the first
name (`LiveSpecInOrder`): executions, nodes and masters are interchangeable, so every behaviour is one of these after a
renaming, and TLC allows no symmetry where liveness is checked. Everything else is
finite by itself: a marker is written at most twice, a verdict once. Executions are not served
twice, as they are not claimed twice (`SoleOwner`). Deadlock is not checked: when all executions
have been served, masters and nodes wait for work that does not come.

*`AnalysisForm`.* The parts of the form meet only in the review, the address and the reset, and their product is out
of reach. `MCAnalysisForm` chooses at the start one of eight parts to exercise (`focus`): archive, repeated
submission, parameters, target, course with its loads, submission, tracking, and the replacement of one followed bundle by
another; the others stay in a state the form
can be in, so that the states explored are the sum of the parts. The safety properties are proved for the whole
form, so that here too the run is the quick check. `MaxPosts` is two: a submission of a page that was left and one of
the page on screen. Tracking starts with one execution of two being processed; in the replacement, a page follows one bundle while
a submission of an earlier page is on its way; the followed row may be claimed after its cancellation was sent, no row ends by
itself and the page is not left. A policy that does not arrive is left to the part of the target. `MaxCancels` is one click per execution: a second one finds the same rows. Of the rounds
whose effect was cleaned up the model keeps the last: they all do the same, nothing. `CHECK_DEADLOCK` is off, because a form that
has nothing under way and whose part in focus has been used up stops.

*`ClientPages`.* `MCClientPages` watches one loader, or a few, on their page and the pages their answers lead
to, with the controls their dependencies and their reloads come from (`Foci`; `Within` keeps a run in its focus). Foci that
are `OfOne` stay on the page of one course or of one submission (those that remove and restore students, pin, archive or
annotate, or look for earlier executions): the others change it. Two requests of a loader may be under
way (`MaxRequests`): the one from before and the one from after. One change of the database tells before from
after. `ShowsTheLatest`, `ReadYourWrites` and `DecisionStaysOnScreen` are proved for all loaders and pages at once; the run also serves to show that
each control and each handler fires. Deadlock is checked: a user can always go to another page.

### Fairness

`LiveSpec` of `ExecutionQueue` adds to `Spec`:

- a dispatcher that is in a cycle goes on (`SF(Work(d))`), and so does an intake: a running
  process runs. Strong fairness, because a step that writes a row is disabled whenever a
  cancellation has the row: PostgreSQL queues the waiting writer before later lockers, so it
  does not wait forever. The measurement ends, with any outcome: the master has timeouts.
- a cancellation that has a row commits or rolls back (`WF`);
- the watchdog completes its cycles, and time passes between them (`SF(FullScan)`, where a full
  scan is one whose cutoff passes every row nobody renews, and `SF(WatchdogRecover(e))`).

Nothing is assumed about users, faults or outcomes, and claims are *not* fair by themselves: a
claim may find no eligible measurement node and give its row back. That appears only in the antecedent of
`QueueDrains`, next to "a dispatcher stays up": it finds a head, and commits a claim, again and again
(`SF(ClaimHead(d))`, `SF(ClaimCommit(d))`). Faults may strike forever: they are actions
without fairness.
`abort` is excluded from `queue_live`: a watchdog that never completes a cycle recovers nobody.

`LiveSpec` of `Measurement` assumes:

- of a master, that it builds its payload, that its waits end (`WF(Timeout(m))`, a socket timeout
  or a failing accept; `WF(Conclude(m) \/ PollTimeout(m))`, a loop that counts its seconds), and that
  a port that is free again and again is bound (`SF(Bind(m))`, tried every two seconds);
- of a connection, `SF(Exchange(m, n))`: a node that gives up after 5 s connects again, and a
  master that accepts one connection after the other comes to it in the end;
- of a node, that it watches, connects and gives up when it is not answered, and that a benchmark
  ends (`WF(Report(n))`: `run_benchmark` kills it after its timeout).

Whether work is served, and every fault, is left to chance.

`FairSpec` of `AnalysisForm` assumes that a GET is answered (well or badly), that a round whose GETs are answered
ends, that a timer fires, and that a cancellation reaches the backend and is answered. These are timeouts and
event loops of a browser. Nothing is assumed about users, submissions, or the executions themselves: `SettledIsShown` starts
when they have ended. `ClientPages` has no fairness and no liveness.

## Where code and documents disagree

- **`queue_fifo` / `ClaimIsFifo`.** The documentation says one execution at a time in FIFO
  order. A cancellation that will be refused, because its user has no right to it, locks the
  row all the same, and SKIP LOCKED passes it: a younger execution is claimed first. With two dispatchers
  (a lost advisory lock) an open claim does the same: while the first selects a node for the head, the
  second passes it, and the first may still give it back.
- **`queue_singleton` / `SingleDispatcher`.** The dispatcher's docstring says that one operates on
  a database. When the lock's connection drops, the first goes on and a second starts.
- **`queue_abandoned` / `RecoversOnlyAbandoned`.** The watchdog's docstring says that it recovers
  abandoned executions. A heartbeat thread that met one transient error ended without notice,
  and the watchdog fails an execution whose dispatcher is measuring it.

- **`measurement_parallel` / `SerialMeasurement`.** The dispatcher's docstring says that it never runs two
  benchmarks in parallel, and the repository's README that measurement is serialized. The wait for
  a result is fixed at 2000 s, the measurement's own limit comes from the policy and may be
  any positive number. With a longer one, the master gives up, and the next execution goes to
  another node while the first still measures. The failure it records is "no machines available",
  for an execution that a machine is measuring.

- **`form_zip` / `ReadyZipWasInspected`.** Comments in the form and in its readiness model say that what is shown as
  ready was validated, and that the list of requirements is the only judge of it. `analyzeZipFile` does not tie the
  end of a reading to the file it read: a large archive that is replaced by another one ends its reading later,
  clears the flag and writes its own description, and the other file, refused or not yet read, is ready
  for review. The backend inspects what it receives, so nothing wrong is measured; the review shows the wrong archive.

Each of them is a counterexample on a small instance; the theorems say, for every instance, what it takes:

| Divergence | What is promised holds for all instances as long as | Theorem |
| --- | --- | --- |
| `queue_fifo` | every cancellation under way is by a user who may cancel, and one dispatcher operates at a time | `ClaimsFollowTheQueue` |
| `queue_singleton` | the session with the lock does not drop | `LockMakesSingle` |
| `queue_abandoned` | no heartbeat thread ends early or is late | `RecoveredWereAbandoned` |
| `measurement_parallel` | no measurement outlasts its master and no dispatcher is killed (and there is one dispatcher, or no connection fails) | `OneDispatcherSerializes`, `PortsSerialize` |
| `form_zip` | no two readings of archives are under way at once | `OneReadingSuffices` |

In none of the first four does the code damage a row: `SoleOwner`, `ImplementsLifecycle` and the report's
properties hold in all of them; and the late result of the fourth is refused, as `OwnMarker` says.

## What is proved

`ExecutionQueueProofs` proves, for any number of executions, bundles, dispatchers and
cancellation requests and any set of faults:

| Theorem | Statement |
| --- | --- |
| `QueueInvariant` | `Spec => []IInv`, the inductive invariant |
| `QueueTypes` | `Spec => []TypeOK` |
| `CancelledWereQueued` | `Spec => []CancelledNeverStarted` |
| `OneOwner` | `Spec => []SoleOwner` |
| `LeasesEndWithCycles` | `Spec => []NoOrphanLease` |
| `FinishedMeansCompleted` | `Spec => []FinishedIsTrue` |
| `ReportsAreSettled` | `Spec => []ReportedIsSettled` |
| `ReportsStand` | `Spec => ReportIsFinal` |
| `QueueImplementsLifecycle` | `Spec => ImplementsLifecycle`, the refinement |
| `LiveLeasesAreSafe` | `"slow" \notin Faults` implies `Spec => LiveLeaseNeverRecovered` |
| `RowsMoveAsDeclared` | a row stays, appears in QUEUED or takes an allowed transition with the next version |
| `LockMakesSingle` | without `session`, `Spec => []SingleDispatcher` |
| `ClaimsFollowTheQueue` | `Spec /\ []OnlyOwnersCancel /\ []SingleDispatcher => ClaimIsFifo` |
| `RecoveredWereAbandoned` | without `slow` and `lease`, `Spec => RecoversOnlyAbandoned` |
| `LastEndIsReported` | without `crash`, `error` and `reply`: the step that ends the last execution of a bundle makes its report due (`Due`), and it stays due, unless the step is a cancellation or the watchdog's |
| `CompletedIsReported` | without the same: a bundle whose executions have all completed is reported as finished, or somebody is about to |

The assumptions are those the module names: executions are positive numbers (so that zero can mean
"none" and ranks can be compared), each has a bundle, `NoDispatcher` is not a dispatcher, and
`Faults` is a set of known faults. Nothing is assumed finite.

### The argument

The safety properties are not inductive by themselves. `IInv` at the end of `ExecutionQueue` adds
what they rest on:

- `ControlOK`: a dispatcher has an execution exactly while it is in a cycle, and what it is about
  to write is allowed from the row it read;
- `IntakeOK`: rows appear with the commit of their bundle, and a failed intake marks only rows it
  may mark;
- `UnclaimedNotStarted`: QUEUED and CANCELLED rows have no start time. It is what makes
  `CancelledNeverStarted` inductive;
- `OwnedPastQueue`: an execution in hand is past the queue, or it is being claimed: then it is QUEUED and no
  cancellation has it. With it, `SoleOwner` is inductive: a claim takes a QUEUED row that is not locked, so nobody has it;
- `ReportsAgree`: a dispatcher about to write a report has the verdict on a bundle that is
  settled *now*, and so has every report already written, except those of a failed intake;
- `LeasedIsFresh`: without `slow`, the row of a live thread is not old.

The theorems with hypotheses have strengthenings of their own, in `ExecutionQueueProofs`:

- `RunsWithLock`: a dispatcher that has started holds the advisory lock. Only a drop of its session can end
  that, and `SingleDispatcher` says no more than that the lock has one holder;
- `OnlyOwnersCancel`: every request that has a row locked will be granted. Then a row that a claim passes by is about to be
  CANCELLED, and is not waiting any more. That only holds of requests: the row of another dispatcher's open claim may be
  given back, hence the second hypothesis, that there is no other dispatcher. `LockMakesSingle` gives it when no session drops;
- `WorkIsLeased`, with `HandlerFails` (the failure handler writes nothing but FAILED): a dispatcher at work on an active
  row has its heartbeat thread, if no thread ends by itself. `LeasedIsFresh` then keeps the watchdog away;
- `Due`: a report is written, or a dispatcher is about to read and write it, or a failing intake has it still to do
  (with `TodoOK`: in its own bundle). `EndsAreDue` goes through all the writers of rows: the dispatcher goes to its report
  after its last UPDATE, the intake after its marks, and `EndedSilently` names the two that do not. Calls that fail are excluded
  because the report is then skipped by the code itself: the hazard at `execution_dispatcher.py:226`.

The pivot is `RowShape`: each step of `Next` leaves all rows alone, inserts one bundle, or moves one
row along an allowed transition with the next version. It is proved once, action by action;
the refinement, `RowsOnlyAdvance` (terminal rows stay), `ResultStep`, `StartedStep`, and
everything about reports (`SettledStands`: a settled bundle keeps its verdict) follow from it
without looking at the actions again. The conditional UPDATE enters in exactly one place: because
the row is `Unchanged` since it was read, the transition that was allowed then is allowed now.

The remaining lemmas follow one group of variables each (`ClaimOnly`, `StatusMoves`, `OldMoves`,
`IntakeMoves`, `LeaseStep`), so that each part of `IInv` has a short proof of its own, and
`InvStep` puts them together.

### The exchange with the nodes

`MeasurementProofs` proves, for any number of executions, nodes and dispatchers and any set of
faults:

| Theorem | Statement |
| --- | --- |
| `MeasurementInvariant` | `Spec => []IInv`, the inductive invariant |
| `MeasurementTypes` | `Spec => []TypeOK` |
| `ResultsAreExpected` | `Spec => []TargetOnJob` |
| `MarkersHaveOneWriter` | `Spec => OwnMarker` |
| `VerdictsStand` | `Spec => VerdictStands` |
| `MeasurementImplementsService` | `Spec => ImplementsService`, the refinement |
| `OneDispatcherSerializes` | without `crash` and `overrun`, and with at most one dispatcher, `Spec => []SerialMeasurement` |
| `PortsSerialize` | without `crash`, `overrun` and `network`, `Spec => []SerialMeasurement`, for any number of dispatchers |
| `OutcomesAreMeasured` | with `Faults = {}`, an outcome is the one the execution's own node measured, or the execution was given up before its program was sent (`Spec => []VerdictIsHeard`), and it is given up only with a queued marker that had grown old (`GivesUpOld`) |
| `OneDispatcherMeasures` | with `Faults = {}` and at most one dispatcher, every outcome is the one the execution's own node measured |

The assumptions: `NoExecution` and `NoNode` are no execution and no node, `Faults` is a set of known
faults. The invariant `IInv` at the end of `Measurement` says that the ports have one owner
(`OneListener`), that a master has an execution exactly while it is busy, nobody else has the same
one, and its marker is queued while the ports are open (`JobsOK`), that a node has a task exactly
while it measures or reports, as the target of that task (`TasksOK`), and that nobody has a program
before it was sent (`UndeliveredOK`). `TargetOnJob` needs all of these: a master that comes to wait
has just sent its program to its target, and only the owner of the ports can send another.
`DoneIsOk` then follows because an accepted result is that of the master's own execution
(`ReceivedIsOwn`), and the refinement from `DoneIsOk`. `MeasuredIsAwaited` is the invariant
behind `OneDispatcherSerializes` and `PortsSerialize`: as long as nothing kills a master and its
waits are long enough, a node that measures has a master that waits for it. Unless an accept fails, that
master has the ports, and no other has them.

`OutcomesAreMeasured` is what the exchange is for: when nothing fails, no execution ends by a
default, and by a time-out only if its marker is older than the nodes look back. A marker can only grow so old while its
dispatcher waits for the ports that another one has, so a single dispatcher gets every verdict: `OneDispatcherMeasures`, from the
invariant `Fresh`. The invariant of the first, `Heard`, follows the answer: a master that receives has its target at work, one that
polls has its answer in the marker, a marker is that of the verdict and an outcome that of the marker. The masters of other dispatchers and their
nodes run meanwhile, and every recent marker wakes all nodes; what keeps them apart is `TasksOK`.

`StepKinds` regroups the actions by what they change; `OwnStep` and `OwnEnd` say what a step of a
master does to others and to itself, and `Lose` that most steps can only take work from nodes.
Each part of the invariant is proved from these.

### The analysis form

`AnalysisFormProofs`, `StatusPanelProofs` and `FormTypes` prove, for any executions, archives, nodes, policies, courses,
configurations and bounds:

| Theorem | Statement |
| --- | --- |
| `TargetInvariant`, `PoliciesMatchTarget` | `Spec => []TargetInv`, `Spec => []PolicyOfTarget` |
| `EditsFollowThePolicy` | `Spec => InputFollowsPolicy` |
| `SubmissionsHoldTheLock`, `NeverTwoSubmissions` | `Spec => []SubmissionInv`, `Spec => []OneSubmission` |
| `SubmittingHasAReason` | `Spec => []SubmittingIsReal` |
| `ProtocolsKeepTheirCourse` | `Spec => []ProtocolCourse` |
| `DraftIsTheForm` | `Spec => []AutosaveHolds` |
| `DraftsComeBack` | `Spec => []DraftComesBack` |
| `TitlesAreKept` | `Spec => TypedTitleKept` |
| `OneReadingSuffices` | `Spec /\ []OneReading => []ReadyZipWasInspected` |
| `FormTypesHold` | `Spec => []TypeOK` |
| `RoundsInvariant`, `NeverTwoLoops`, `NeverStopsSilently` | `Spec => [](FilesInv /\ RoundsInv)`, `Spec => []OnePollingLoop`, `Spec => []FollowedUntilSettled` |
| `AnswersInvariant`, `SnapshotsNeverGoBack`, `PanelsTellTheTruth` | `Spec => []PanelInv`, `Spec => ShownNeverGoesBack`, `Spec => []PanelTellsTheTruth` |

The assumptions are those on the constants in the modules: finite sets of executions and courses, values that mean "none"
outside the sets they belong to, policies with ordered limits and configurations of the right types. `SamplesAssumption` says that what an
address loads (an execution to repeat or reuse, a protocol, a starter) asks for 1 to 100 repetitions: the server refuses anything else
(`MAX_SAMPLES` in `execution_creation_service.py`), and the protocols and starters are checked in the same way.

Each property has a strengthening of its own, as small as it allows:

- `TargetInv`: the requests for policies that are still live, and the policies on screen, are about the current
  target. Each change of the target cleans up the old requests in the same step.
- `SubmissionInv`: a submission of the page on screen holds the lock, and two of them are one. The flag
  `isSubmitting` would not do: a reset clears it.
- `Attached`: an attached protocol means that its course is selected and the courses are there, and nothing
  is being loaded that could change them; a protocol is loaded only once the courses are there.
- `AcceptedInv`: an accepted submission has executions; without it, the submitting panel could follow nothing.
- `RoundsInv`: at most one round is live, it is about the executions on screen, and there is no timer beside it.
- `AnswersInv`: every snapshot, on screen or on its way, was reached by its row (`Reached`), and an end is
  final; the answers of the live round are not older than the snapshots on screen. Answers of cleaned-up rounds may be
  older, and are never shown.
- `SamplesInv`: a profile with a name stands beside a number from 1 to 100, and so does the review, which opens only on
  a complete form; hence what is sent, what is accepted, and what the address of an accepted submission gives back. Without
  the last three, the form of a restored execution could hold a number that the reader of its draft would replace.
- `TypesInv`: what a page restores was stored, sent or given before, so the types of the form need those of the draft, of
  the submissions and of what was accepted. And whatever is followed, sent or named by an address exists at the
  backend (`RealInv`): the answer to a GET of a row that was never inserted would be no state of an execution.
- `ArchiveInv`: the archive in the form is being read, was refused, or is the one described. It holds as long as at most one
  reading is under way (`OneReading`); the run `form_zip` shows what two do.
- `AutosaveHolds` is inductive as it is, and the two action properties need no invariant of states.

As in the backend, the pivot is the *shape* of a step: what it may do to one group of variables, proved once over all
actions (`TargetShape`, `PostsShape`, `CourseShape`, `FollowShape`; `RowsMove`: rows only move on), after which the
invariants follow without the actions. `FollowShape`, for instance, says that a step leaves the loop of GETs alone, follows a new list of
executions, clears everything, or moves one round on.

### The pages

`ClientPagesProofs` proves, for any ids, filters, roles, bounds and any set of loaders:

| Theorem | Statement |
| --- | --- |
| `OneRequestAtATime` | `Spec => []RequestsInv`: of a guarded loader at most one request can still write, and it is for what the page wants now |
| `PagesShowTheLatest` | `Spec => ShowsTheLatest`, the refinement of `LatestAnswer`, in which a handler may write a course or a profile only if what is wanted is asked for in the same step |
| `SettledPagesShowWhatIsWanted` | what `LatestAnswer` promises, said of the pages: `Spec => []Latest!ShowsWhatIsWanted`. A loader with no request and no error shows what its effect depends on now; for the trace these are the executions on screen |
| `PagesReadTheirWrites` | `Spec => []ReadYourWrites` |
| `DecisionsStay` (in `DecisionProofs`) | `Spec => []DecisionStaysOnScreen` |
| `PagesKeepTheirTypes` (in `PageTypes`) | `Spec => []PagesTypeOK` |

Whatever a page does, a step leaves a guarded loader untouched, runs its effect again, also upon what a handler has just written, or moves its one request on
(`LoaderStep`); each case is a step of `LatestAnswer`. That a write never stands alone is `WrittenIsReloaded`. For `ReadYourWrites`, a step of a page leaves the database and the
acknowledgements alone, carries a mutation out, or tells a handler of one (`StepShape`: `Quiet`, `CarriedOut`, `Told`). The
invariant (`ReadsInv`) says that whatever a guarded loader is being sent, or shows once it is settled, was read
after the last change its page was told of. Only `Told` could break it, and there every loader of `ReadersOf` is run
again by the handler (`NotToldOf`), which is checked handler by handler.

`DecisionStaysOnScreen` needs to know on which page a decision can be under way at all (`PageOf`), that its dialog is a
dialog, and that of each kind there is one (`DialogInv`). A step keeps the dialog and starts no decision (`DialogKept`),
opens or closes a dialog where no decision is under way (`DialogFree`), confirms one (`Confirmed`), closes the dialog of the one it
answers (`Decided`), carries a call out (`Progress`), or mounts a page (`PageGone`). That the controls of a page change its dialog only in
`DialogFree` is what the code's modals promise, and is proved control by control; the page of a user is the
exception, since its address may change under the dialog, and there `DialogFree` is the turn to another user
(`TurnedToAnother`), the one case the property itself excepts. `Decided` closes only a dialog of its own kind: an answer cannot
take away the dialog of another decision. The proof stands on `PagesTypeOK`, so `DecisionProofs` builds on `PageTypes`.

`PagesTypeOK` says of each page what its view may be; a comparison, for one, always has two to four executions, and the range of a
result is never the wrong way round. It is not inductive: an answer writes in the view of the page that is mounted, so one has to know that
it is the page that asked. `PagesInv` adds that. A call that is still mounted belongs to the page on screen (`AtHome`), and its target is one that page can show
(`TargetFits`); what a loader has read or is being sent was there when it was read (`LoaderFits`); and the loader of a submission,
whose answer rewrites the whole page and which nothing aborts, has a request under way only on that page
(`SubmissionAlone`): leaving it discards the state of the effect with its component. The step goes over every handler of every page, every
address and every answer, good, bad or late; the bounds on calls need the cardinality of a set from which one call is taken, or whose
calls are all disowned (`ReplacedFit`).

### What is only model-checked

`ActiveEnds`, `CyclesEnd`, `QueueDrains`, `ServeEnds`, `NodesReturn`, `VerdictArrives`, `SettledIsShown` and
`CancelSettles` are liveness properties under fairness: TLC checks them on the instances of their runs, and there is no
proof. The five divergences are counterexamples, which a small instance settles; what excludes each of them is proved.

## What is not modelled

- *Data*: source texts, the content of a ZIP, the numbers of a result, statistics, comparison and
  pedagogy, texts for the reader. They are computed from finished executions and change no shared
  state.
- *Read routes*, status pages and exports of the server: they read.
- *The registry of measurement nodes and the selection*: `ExecutionQueue` knows that a claim may find no node. The
  choice inside the claim, affinity and draining need a module of their own. The hazards that belong to it are listed without a property.
- *The files of a bundle*, which the intake writes after the commit that makes its rows claimable: `MeasurementEnds`
  may have any outcome, so a truncated source is not told from a failed measurement.
- *Transactions of the routes* for courses, protocols, access requests, users and notifications: each one is a single
  transaction under the lock of its row or its uniqueness constraint. The pages that call them are modelled with the
  server as a set of answers.
- *The file cache of the AI explanations*: written by temporary file and rename.
- *Dry-run* of the watchdog, which writes nothing.
- *The legacy flow* `run_single_execution(already_claimed=False)`, which the dispatcher does not use.
- In the client: *language and theme* (a change of language runs again the effects that depend on the translation, as
  a reload would), the *session* and its expiry, menus, profile, login, tutorial, and the feedback panel, whose
  hazard is in the note of its component. In `ClientPages` only the page's own mutations change the database: changes by others
  make a list old too, and no property promises otherwise.

## What could come next

Of the parts above, in the order in which they carry the system's behaviour:

1. `NodeAssignment`: registry, draining and selector, with the choice inside the claim's
   transaction, as a refinement of `ClaimHead` and `ClaimCommit` of `ExecutionQueue`. Properties: eligibility when claimed, one node per
   started submission, pinned submissions never move.
2. `SubmissionFiles`: the files of a bundle against a dispatcher that writes its own marker and source.
   Properties: a measurement gets the right source; no verdict is erased.
3. The transactions of the routes, with the pages of `ClientPages` as their users.

## Running the checks

```
tlc -workers 2 -config queue_core.cfg MCExecutionQueue     # and the other .cfg files
tlc -workers 2 -config measurement_core.cfg MCMeasurement
tlc -workers 2 -config client_form.cfg MCAnalysisForm        # and form_zip.cfg
tlc -workers 2 -config client_pages.cfg MCClientPages
tlapm ExecutionQueueProofs.tla                              # the other *Proofs.tla, FormTypes.tla and PageTypes.tla
```

`queue_core` has 938,434 distinct states, `queue_two_dispatchers` 1,284,941 (up to the symmetry of
the dispatchers), `queue_live` 61,170; each takes one to two minutes. `measurement_core` has 36,080 (its temporal
properties take most of its minute), `measurement_ideal` 6,833. `client_form` has
297,721 distinct states and `client_pages` 524,350, each in two to three minutes.
