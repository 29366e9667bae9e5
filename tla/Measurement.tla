----------------------------- MODULE Measurement ---------------------------
(***************************************************************************)
(* One measurement after another: the dispatcher acting as master, in      *)
(* run_single_execution and socketUtils.slave_serve, and the measurement   *)
(* nodes running slave.py.  They share the status markers, files that say  *)
(* how an execution stands, and talk over two ports of the master: the     *)
(* send port, where a node that has seen a queued marker asks for work,    *)
(* and the result port, where it delivers a result.                        *)
(*                                                                         *)
(* Every claimed execution has a target node, so the targeted protocol is  *)
(* the one modelled.  Nobody speaks before the master has challenged or    *)
(* refused him: a connection that its node has given up carries nothing,   *)
(* the master rejects it and goes on, and it is left out here.  A node has *)
(* at most one connection it still waits on: at[n] says on which port.     *)
(***************************************************************************)

CONSTANTS
  Executions, Nodes,
  Masters,               \* the dispatcher processes
  NoExecution, NoNode,
  Faults                 \* the failures that may happen

FaultKinds ==
  { "crash",     \* a dispatcher is killed
    "node",      \* a node is killed, or produces no result at all
    "network",   \* a connection fails in the middle of its use
    "payload",   \* a node discards the program it was sent
    "away",      \* the target does not ask for work in time (60 s)
    "overrun",   \* a measurement outlasts the waits of the master (2000 s)
    "source",    \* the source cannot be read or described
    "disk" }     \* a marker or a result file cannot be written

ASSUME NoExecutionAssumption == NoExecution \notin Executions
ASSUME NoNodeAssumption == NoNode \notin Nodes
ASSUME FaultsAssumption == Faults \subseteq FaultKinds

VARIABLES
  pc,       \* where each master is in run_single_execution
  job,      \* the execution it runs
  target,   \* the node each execution was assigned by its claim
  marker,   \* Server/status/<codename>
  aged,     \* the executions whose queued marker is over 300 s old
  outcome,  \* what run_single_execution asks of the state machine
  at,       \* where each node is in the loop of main()
  task,     \* the execution it was given
  verdict   \* how the measurement of each execution ended on its node

vars == <<pc, job, target, marker, aged, outcome, at, task, verdict>>
master == <<pc, job>>
nodes == <<at, task>>

\* IN QUEUE, DONE, an error code of the node or of the exchange, "no machines
\* available" and "timeout exceeded".
Markers == {"none", "queued", "done", "error", "nomachines", "timeout"}
Steps == {"idle", "bind", "open", "send", "recv", "poll"}
Places == {"watching", "connecting", "hello", "measuring", "reporting"}

TypeOK ==
  /\ pc \in [Masters -> Steps]
  /\ job \in [Masters -> Executions \cup {NoExecution}]
  /\ target \in [Executions -> Nodes \cup {NoNode}]
  /\ marker \in [Executions -> Markers]
  /\ aged \subseteq Executions
  /\ outcome \in [Executions -> {"none", "PROCESSING", "FAILED"}]
  /\ at \in [Nodes -> Places]
  /\ task \in [Nodes -> Executions \cup {NoExecution}]
  /\ verdict \in [Executions -> {"none", "ok", "bad"}]

Init ==
  /\ pc = [m \in Masters |-> "idle"]
  /\ job = [m \in Masters |-> NoExecution]
  /\ target = [e \in Executions |-> NoNode]
  /\ marker = [e \in Executions |-> "none"]
  /\ aged = {}
  /\ outcome = [e \in Executions |-> "none"]
  /\ at = [n \in Nodes |-> "watching"]
  /\ task = [n \in Nodes |-> NoExecution]
  /\ verdict = [e \in Executions |-> "none"]

-----------------------------------------------------------------------------
(* The markers.                                                            *)

\* Mutant: the marker is not read again before it is overwritten.
AlwaysPending(e) == e \in Executions

Pending(e) == marker[e] = "queued"

\* A marker that is written is a new file again.
Mark(e, mark) ==
  /\ marker' = [marker EXCEPT ![e] = mark]
  /\ aged' = aged \ {e}

\* What the nodes look for: a queued marker of the last QUEUE_RECENT_SECONDS.
Recent(e) == Pending(e) /\ e \notin aged

-----------------------------------------------------------------------------
(* The two ports.                                                          *)

\* Both listeners are open from bind to the finally of slave_serve.
Serving(m) == pc[m] \in {"open", "send", "recv"}
Listening == \E m \in Masters : Serving(m)

(* Five minutes pass.  With its ports open, a master waits one minute for  *)
(* its target; what can take longer is the wait for the ports, when        *)
(* another master has them, and all that follows once the program is sent. *)
Ages(e) ==
  /\ Recent(e)
  /\ \A m \in Masters :
       job[m] = e => pc[m] \in {"recv", "poll"} \/ (pc[m] = "bind" /\ Listening)
  /\ aged' = aged \cup {e}
  /\ UNCHANGED <<pc, job, target, marker, outcome, at, task, verdict>>

\* The nodes whose connection some master has not answered yet.
Waiting == {n \in Nodes : at[n] \in {"hello", "reporting"}}

\* Nodes whose round is over; they return to the loop, with nothing in hand.
Return(S) ==
  /\ at' = [n \in Nodes |-> IF n \in S THEN "watching" ELSE at[n]]
  /\ task' = [n \in Nodes |-> IF n \in S THEN NoExecution ELSE task[n]]

Goto(m, step) == pc' = [pc EXCEPT ![m] = step]

\* Mutant: whoever connects is taken for the target.
AnyPeer(m, n) == n \in Nodes /\ m \in Masters

\* authenticate_measurement_node_peer: n holds the token of the target.
IsTarget(m, n) == n = target[job[m]]

\* The target has the program of m and is not done with it.
OnTheJob(m) == \E n \in Nodes : IsTarget(m, n) /\ task[n] = job[m]

\* Mutant: a wait that may end at any time.
OverdueEarly(m) == m \in Masters

\* A wait of 2000 s ends.
Overdue(m) == "overrun" \in Faults \/ ~OnTheJob(m)

-----------------------------------------------------------------------------
(* The master.                                                             *)

(* run_single_execution marks the execution as queued and activates it.    *)
(* If the row is no longer RUNNING, the activation raises.                 *)
Serve(m, e, n) ==
  /\ pc[m] = "idle"
  /\ marker[e] = "none"
  /\ target' = [target EXCEPT ![e] = n]
  /\ Mark(e, "queued")
  /\ \/ Goto(m, "bind") /\ job' = [job EXCEPT ![m] = e]
     \/ UNCHANGED master
  /\ UNCHANGED <<outcome, nodes, verdict>>

(* The loop around bind ends when no other process has the ports.          *)
Bind(m) ==
  /\ pc[m] = "bind"
  /\ ~Listening
  /\ Goto(m, "open")
  /\ UNCHANGED <<job, target, aged, marker, outcome, nodes, verdict>>

(* The source is read and the payload built, with the ports open.          *)
LoadSource(m) ==
  /\ pc[m] = "open"
  /\ Goto(m, "send")
  /\ UNCHANGED <<job, target, aged, marker, outcome, nodes, verdict>>

\* Back in the dispatcher, with or without an outcome.
Finish(m, what) ==
  /\ Goto(m, "idle")
  /\ job' = [job EXCEPT ![m] = NoExecution]
  /\ outcome' = [outcome EXCEPT ![job[m]] = what]

\* The marker cannot be written.
Unwritten == "disk" \in Faults /\ UNCHANGED <<marker, aged>>

\* slave_serve returns: the listeners close on whoever still waits.
Close(m) ==
  /\ Goto(m, "poll")
  /\ Return(Waiting)
  /\ UNCHANGED job

(* The source cannot be read: slave_serve returns and says nothing.  It    *)
(* has no valid description: slave_serve raises, run_single_execution      *)
(* writes the marker, if it can, and asks for FAILED.                      *)
SourceFails(m) ==
  /\ "source" \in Faults
  /\ pc[m] = "open"
  /\ \/ Close(m) /\ UNCHANGED <<marker, aged, outcome>>
     \/ /\ Finish(m, "FAILED")
        /\ Return(Waiting)
        /\ Mark(job[m], "error") \/ Unwritten
  /\ UNCHANGED <<target, verdict>>

\* "ERROR: no machines available", if it can be written.
NoMachines(m) ==
  /\ Mark(job[m], "nomachines") \/ Unwritten
  /\ Close(m)
  /\ UNCHANGED <<target, outcome, verdict>>

\* A round of the loop of send_manager or recv_manager that changes nothing
\* on the side of the master: accept, refuse, continue.
Refuse(n) ==
  /\ Return({n})
  /\ UNCHANGED <<master, target, aged, marker, outcome, verdict>>

\* Mutant: the loop ends with the first node that is not the target.
TurnAwayAndStop(m, n) ==
  /\ pc[m] = "send" /\ at[n] = "hello" /\ ~IsTarget(m, n) /\ NoMachines(m)

TurnAway(m, n) ==
  /\ pc[m] = "send"
  /\ at[n] = "hello"
  /\ ~IsTarget(m, n) \/ "network" \in Faults
  /\ Refuse(n)

(* The answer NOT_SELECTED cannot be sent: the error ends the loop.        *)
TurnAwayFails(m, n) ==
  /\ "network" \in Faults
  /\ pc[m] = "send"
  /\ at[n] = "hello"
  /\ ~IsTarget(m, n)
  /\ NoMachines(m)

(* The target authenticates itself and is sent the program.                *)
Deliver(m, n) ==
  /\ pc[m] = "send"
  /\ at[n] = "hello"
  /\ IsTarget(m, n)
  /\ Goto(m, "recv")
  /\ at' = [at EXCEPT ![n] = "measuring"]
  /\ task' = [task EXCEPT ![n] = job[m]]
  /\ UNCHANGED <<job, target, aged, marker, outcome, verdict>>

(* send_program swallows its errors, and a node may reject what it gets:   *)
(* the master waits for a result all the same.                             *)
DeliverInVain(m, n) ==
  /\ Faults \cap {"network", "payload"} # {}
  /\ pc[m] = "send"
  /\ at[n] = "hello"
  /\ IsTarget(m, n)
  /\ Goto(m, "recv")
  /\ Return({n})
  /\ UNCHANGED <<job, target, aged, marker, outcome, verdict>>

\* The target of m is not on its way to the master, and no marker sends it.
Missed(m) ==
  /\ \E n \in Nodes : IsTarget(m, n) /\ at[n] = "watching"
  /\ ~ \E e \in Executions : Recent(e)

(* 60 s without the target: it is late, or its marker grew too old to wake *)
(* it while the master waited for the ports.                               *)
SendTimeout(m) ==
  /\ pc[m] = "send"
  /\ "away" \in Faults \/ Missed(m)
  /\ NoMachines(m)

\* Mutant: the marker is written with the words of the node.
MarkerAsSent(v) == v

\* The marker that receive_data writes for what the node sent.
MarkerOf(v) == IF v = "ok" THEN "done" ELSE "error"

(* receive_data: the marker written is that of the execution the result    *)
(* names.                                                                  *)
Receive(m, n) ==
  /\ pc[m] = "recv"
  /\ at[n] = "reporting"
  /\ IsTarget(m, n)
  /\ Mark(task[n], MarkerOf(verdict[task[n]])) \/ Unwritten
  /\ Close(m)
  /\ UNCHANGED <<target, outcome, verdict>>

(* Another node's result, a connection that fails, a result that cannot be *)
(* stored: the master waits on, and the node has nothing left to send.     *)
RejectReport(m, n) ==
  /\ pc[m] = "recv"
  /\ at[n] = "reporting"
  /\ \/ ~IsTarget(m, n)
     \/ "network" \in Faults
     \/ "disk" \in Faults /\ verdict[task[n]] = "ok"
  /\ Refuse(n)

RecvTimeout(m) ==
  /\ pc[m] = "recv"
  /\ Overdue(m)
  /\ NoMachines(m)

(* accept raises: recv_manager ends without a word.                        *)
RecvFails(m) ==
  /\ "network" \in Faults
  /\ pc[m] = "recv"
  /\ Close(m)
  /\ UNCHANGED <<target, aged, marker, outcome, verdict>>

\* Mutant: only the errors of the node count as failures.
OutcomeOfNode(mark) == IF mark = "error" THEN "FAILED" ELSE "PROCESSING"

\* classify_status_text, for a marker that is no longer PENDING.
OutcomeOf(mark) == IF mark = "done" THEN "PROCESSING" ELSE "FAILED"

Conclude(m) ==
  /\ pc[m] = "poll"
  /\ ~Pending(job[m])
  /\ Finish(m, OutcomeOf(marker[job[m]]))
  /\ UNCHANGED <<target, aged, marker, nodes, verdict>>

\* Mutant: the loop of run_single_execution has no end of its own.
PollForever(m) == m \notin Masters /\ UNCHANGED vars

(* MASTER_EXECUTION_TIMEOUT_SECONDS; if "timeout exceeded" cannot be       *)
(* written, run_single_execution raises.                                   *)
PollTimeout(m) ==
  /\ pc[m] = "poll"
  /\ Pending(job[m])
  /\ Overdue(m)
  /\ \/ Mark(job[m], "timeout") /\ Finish(m, "FAILED")
     \/ Unwritten /\ Finish(m, "none")
  /\ UNCHANGED <<target, nodes, verdict>>

Crash(m) ==
  /\ "crash" \in Faults
  /\ pc[m] # "idle"
  /\ Finish(m, "none")
  /\ Return(IF Serving(m) THEN Waiting ELSE {})
  /\ UNCHANGED <<target, aged, marker, verdict>>

-----------------------------------------------------------------------------
(* The measurement node.                                                   *)

Move(n, place) ==
  /\ at' = [at EXCEPT ![n] = place]
  /\ UNCHANGED <<master, target, aged, marker, outcome, task, verdict>>

(* A recent queued marker, whoever it is for, sends a node to the master.  *)
Wake(n) ==
  /\ at[n] = "watching"
  /\ \E e \in Executions : Recent(e)
  /\ Move(n, "connecting")

(* connect_to_server tries again until the port is open.                   *)
Connect(n) ==
  /\ at[n] = "connecting"
  /\ Listening
  /\ Move(n, "hello")

(* No answer to the hello within 5 s.                                      *)
HelloTimeout(n) ==
  /\ at[n] = "hello"
  /\ Refuse(n)

\* Mutant: the node waits until the result port is open.
ReportWhenOpen(n) ==
  /\ at[n] = "measuring"
  /\ Listening
  /\ \E v \in {"ok", "bad"} : verdict' = [verdict EXCEPT ![task[n]] = v]
  /\ at' = [at EXCEPT ![n] = "reporting"]
  /\ UNCHANGED <<master, target, aged, marker, outcome, task>>

(* The benchmark ends and the node connects to the result port, once.      *)
Report(n) ==
  /\ at[n] = "measuring"
  /\ \E v \in {"ok", "bad"} : verdict' = [verdict EXCEPT ![task[n]] = v]
  /\ \/ Listening /\ at' = [at EXCEPT ![n] = "reporting"] /\ UNCHANGED task
     \/ (~Listening \/ "network" \in Faults) /\ Return({n})
  /\ UNCHANGED <<master, target, aged, marker, outcome>>

\* A master waits for the result of n.
Expected(n) == \E m \in Masters : pc[m] = "recv" /\ IsTarget(m, n)

(* No challenge within 5 s: nobody receives, or not from n.                *)
ReportTimeout(n) ==
  /\ at[n] = "reporting"
  /\ ~Expected(n) \/ "network" \in Faults
  /\ Refuse(n)

NodeFails(n) ==
  /\ "node" \in Faults
  /\ at[n] # "watching"
  /\ Refuse(n)

-----------------------------------------------------------------------------

Exchange(m, n) ==
  \/ TurnAway(m, n) \/ TurnAwayFails(m, n) \/ Deliver(m, n)
  \/ DeliverInVain(m, n) \/ Receive(m, n) \/ RejectReport(m, n)

Timeout(m) == SendTimeout(m) \/ RecvTimeout(m) \/ RecvFails(m)

Master(m) ==
  \/ \E e \in Executions, n \in Nodes : Serve(m, e, n)
  \/ Bind(m) \/ LoadSource(m) \/ SourceFails(m) \/ Timeout(m)
  \/ Conclude(m) \/ PollTimeout(m) \/ Crash(m)
  \/ \E n \in Nodes : Exchange(m, n)

Node(n) ==
  \/ Wake(n) \/ Connect(n) \/ HelloTimeout(n) \/ Report(n)
  \/ ReportTimeout(n) \/ NodeFails(n)

Next ==
  \/ \E m \in Masters : Master(m)
  \/ \E n \in Nodes : Node(n)
  \/ \E e \in Executions : Ages(e)

Spec == Init /\ [][Next]_vars
-----------------------------------------------------------------------------
(* Safety.                                                                 *)

(* A target that has something in hand while its master waits for a result *)
(* has the execution the master waits for.  Nothing in the result channel  *)
(* ties a result to the execution: authentication proves the node, not the *)
(* task, and the marker written is the one the result names.               *)
TargetOnJob ==
  \A m \in Masters, n \in Nodes :
    pc[m] = "recv" /\ IsTarget(m, n) /\ task[n] # NoExecution => task[n] = job[m]

(* No two nodes measure at the same time (docstring of the dispatcher: it  *)
(* never runs two benchmarks in parallel).                                 *)
SerialMeasurement ==
  \A n1, n2 \in Nodes : at[n1] = "measuring" /\ at[n2] = "measuring" => n1 = n2

-----------------------------------------------------------------------------
(* What a step may never do.                                               *)

(* Only the master that runs an execution changes its marker, once it is   *)
(* queued: a late result of an execution that its master gave up is never  *)
(* written, over whatever it was concluded with, by the next one.          *)
OwnMarker ==
  [][\A e \in Executions :
       marker[e] # "none" /\ marker'[e] # marker[e] =>
         \E m \in Masters : job[m] = e]_vars

(* What a node reported stands: no timeout of the master, however late the *)
(* result came, turns it into something else.                              *)
VerdictStands ==
  [][\A e \in Executions :
       marker[e] \in {"done", "error"} => marker'[e] = marker[e]]_vars

-----------------------------------------------------------------------------
(* The service promised to the queue, under the identity mapping.          *)

Service == INSTANCE MeasurementService WITH Executions <- Executions,
             verdict <- verdict, outcome <- outcome

ImplementsService == Service!Spec

-----------------------------------------------------------------------------
(* Liveness.                                                               *)

(* Processes run on and waits end.  A master tries to bind again and again *)
(* and a node that was not answered connects again, so what is enabled for *)
(* them again and again happens in the end.                                *)
Fairness ==
  /\ \A m \in Masters :
       /\ SF_vars(Bind(m))
       /\ WF_vars(LoadSource(m))
       /\ WF_vars(Timeout(m))
       /\ WF_vars(Conclude(m) \/ PollTimeout(m))
       /\ \A n \in Nodes : SF_vars(Exchange(m, n))
  /\ \A n \in Nodes :
       /\ WF_vars(Wake(n) \/ Connect(n))
       /\ WF_vars(Report(n))
       /\ WF_vars(HelloTimeout(n) \/ ReportTimeout(n))

LiveSpec == Spec /\ Fairness

(* run_single_execution returns, whatever is lost on the way.              *)
ServeEnds == \A m \in Masters : pc[m] # "idle" ~> pc[m] = "idle"

(* A node always comes back to its loop.                                   *)
NodesReturn == \A n \in Nodes : at[n] # "watching" ~> at[n] \in {"watching", "connecting"}

\* e has the outcome that its own node measured.
Measured(e) ==
  verdict[e] # "none" /\ outcome[e] = OutcomeOf(MarkerOf(verdict[e]))

\* The ports are free for e, but its marker no longer wakes anybody.
TooLate(m, e) == pc[m] = "send" /\ job[m] = e /\ e \in aged

(* Without faults, an execution gets the verdict of its node, unless its   *)
(* marker grew too old while its dispatcher waited for another one to free *)
(* the ports.  The target is neither starved by the other nodes, which are *)
(* woken by every marker, nor missed by the timeouts, and nothing is lost  *)
(* once the program is sent.                                               *)
VerdictArrives ==
  \A m \in Masters, e \in Executions :
    pc[m] = "bind" /\ job[m] = e ~> Measured(e) \/ TooLate(m, e)
-----------------------------------------------------------------------------
(* The inductive invariant behind the safety properties.                   *)

\* The ports have one owner at a time.
OneListener == \A m1, m2 \in Masters : Serving(m1) /\ Serving(m2) => m1 = m2

\* An execution is run by one master, once; until a result or a timeout its
\* marker stays queued.
JobsOK ==
  /\ \A m \in Masters :
       /\ job[m] = NoExecution <=> pc[m] = "idle"
       /\ pc[m] # "idle" => marker[job[m]] # "none" /\ outcome[job[m]] = "none"
       /\ Serving(m) \/ pc[m] = "bind" => marker[job[m]] = "queued"
  /\ \A m1, m2 \in Masters :
       job[m1] = job[m2] /\ job[m1] # NoExecution => m1 = m2

\* A node measures, then reports, an execution that it is the target of.
TasksOK ==
  \A n \in Nodes :
    /\ task[n] = NoExecution <=> at[n] \notin {"measuring", "reporting"}
    /\ task[n] # NoExecution => target[task[n]] = n /\ marker[task[n]] # "none"
    /\ at[n] = "measuring" => verdict[task[n]] = "none"
    /\ at[n] = "reporting" => verdict[task[n]] # "none"

\* Nobody has been given an execution before its program is sent.
UndeliveredOK ==
  /\ \A e \in Executions :
       marker[e] = "none" => verdict[e] = "none" /\ outcome[e] = "none"
  /\ \A m \in Masters :
       pc[m] \in {"bind", "open", "send"} =>
         verdict[job[m]] = "none" /\ \A n \in Nodes : task[n] # job[m]

DoneIsOk == \A e \in Executions : marker[e] = "done" => verdict[e] = "ok"

\* Without crashes and overruns, a node that measures is waited for, by its
\* master's receiver if the network does not fail.
MeasuredIsAwaited ==
  Faults \cap {"crash", "overrun"} = {} =>
    \A n \in Nodes :
      at[n] = "measuring" =>
        \E m \in Masters :
          /\ job[m] = task[n] /\ Pending(job[m])
          /\ pc[m] = "recv" \/ (pc[m] = "poll" /\ "network" \in Faults)

IInv ==
  /\ TypeOK /\ OneListener /\ JobsOK /\ TasksOK /\ UndeliveredOK
  /\ TargetOnJob /\ DoneIsOk /\ MeasuredIsAwaited
=============================================================================
