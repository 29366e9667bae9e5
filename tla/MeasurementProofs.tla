-------------------------- MODULE MeasurementProofs ------------------------
(* Theorems about Measurement, for any number of executions, nodes and     *)
(* dispatchers and any set of faults.                                      *)
EXTENDS Measurement, TLAPS

USE DEF master, nodes, Mark, Unwritten

-----------------------------------------------------------------------------
(* Types.                                                                  *)

LEMMA ReturnType ==
  ASSUME TypeOK, NEW S, Return(S)
  PROVE  /\ at' \in [Nodes -> Places]
         /\ task' \in [Nodes -> Executions \cup {NoExecution}]
BY DEF TypeOK, Return, Places

LEMMA GotoType ==
  ASSUME TypeOK, NEW m \in Masters, NEW step \in Steps, Goto(m, step)
  PROVE  pc' \in [Masters -> Steps]
BY DEF TypeOK, Goto

LEMMA FinishType ==
  ASSUME TypeOK, NEW m \in Masters, NEW what \in {"none", "PROCESSING", "FAILED"},
         Finish(m, what)
  PROVE  /\ pc' \in [Masters -> Steps]
         /\ job' \in [Masters -> Executions \cup {NoExecution}]
         /\ outcome' \in [Executions -> {"none", "PROCESSING", "FAILED"}]
BY DEF TypeOK, Finish, Goto, Steps

LEMMA MarkType ==
  ASSUME TypeOK, NEW e, NEW mark \in Markers, Mark(e, mark)
  PROVE  marker' \in [Executions -> Markers] /\ aged' \subseteq Executions
BY DEF TypeOK

\* The marker of job[m], or of task[n], is that of an execution.
LEMMA JobIsExecution ==
  ASSUME TypeOK, JobsOK, NEW m \in Masters, pc[m] # "idle"
  PROVE  job[m] \in Executions
BY DEF TypeOK, JobsOK

LEMMA TaskIsExecution ==
  ASSUME TypeOK, TasksOK, NEW n \in Nodes, at[n] \in {"measuring", "reporting"}
  PROVE  task[n] \in Executions
BY DEF TypeOK, TasksOK

LEMMA CloseType ==
  ASSUME TypeOK, NEW m \in Masters, Close(m)
  PROVE  /\ pc' \in [Masters -> Steps]
         /\ job' \in [Masters -> Executions \cup {NoExecution}]
         /\ at' \in [Nodes -> Places]
         /\ task' \in [Nodes -> Executions \cup {NoExecution}]
BY ReturnType, GotoType DEF Close, Steps, TypeOK

LEMMA NoMachinesType ==
  ASSUME TypeOK, NEW m \in Masters, NoMachines(m)
  PROVE  TypeOK'
<1>1. marker' \in [Executions -> Markers] /\ aged' \subseteq Executions
  BY MarkType DEF NoMachines, Markers, TypeOK
<1>2. QED
  BY <1>1, CloseType DEF NoMachines, TypeOK

LEMMA RefuseType ==
  ASSUME TypeOK, NEW n \in Nodes, Refuse(n)
  PROVE  TypeOK'
BY ReturnType DEF Refuse, TypeOK

LEMMA TypeStep == TypeOK /\ JobsOK /\ TasksOK /\ [Next]_vars => TypeOK'
<1> SUFFICES ASSUME TypeOK, JobsOK, TasksOK, [Next]_vars PROVE TypeOK'
  OBVIOUS
<1>1. ASSUME NEW m \in Masters, NEW e \in Executions, NEW n \in Nodes, Serve(m, e, n)
      PROVE  TypeOK'
  BY <1>1 DEF Serve, Goto, TypeOK, Steps, Markers
<1>2. ASSUME NEW m \in Masters, Bind(m) \/ LoadSource(m) PROVE TypeOK'
  BY <1>2, GotoType DEF Bind, LoadSource, TypeOK, Steps
<1>3. ASSUME NEW m \in Masters, SourceFails(m) PROVE TypeOK'
  <2>1. marker' \in [Executions -> Markers] /\ aged' \subseteq Executions
    BY <1>3, MarkType DEF SourceFails, Markers, TypeOK
  <2>2. at' \in [Nodes -> Places] /\ task' \in [Nodes -> Executions \cup {NoExecution}]
    BY <1>3, ReturnType, CloseType DEF SourceFails
  <2>3. QED
    BY <1>3, <2>1, <2>2, CloseType, FinishType DEF SourceFails, TypeOK
<1>4. ASSUME NEW m \in Masters, Timeout(m) PROVE TypeOK'
  BY <1>4, NoMachinesType, CloseType
  DEF Timeout, SendTimeout, RecvTimeout, RecvFails, TypeOK
<1>5. ASSUME NEW m \in Masters, Conclude(m) PROVE TypeOK'
  BY <1>5, FinishType DEF Conclude, OutcomeOf, TypeOK
<1>6. ASSUME NEW m \in Masters, PollTimeout(m) PROVE TypeOK'
  <2>1. marker' \in [Executions -> Markers] /\ aged' \subseteq Executions
    BY <1>6, MarkType DEF PollTimeout, Markers, TypeOK
  <2>2. QED
    BY <1>6, <2>1, FinishType DEF PollTimeout, TypeOK
<1>7. ASSUME NEW m \in Masters, Crash(m) PROVE TypeOK'
  BY <1>7, FinishType, ReturnType DEF Crash, TypeOK
<1>8. ASSUME NEW m \in Masters, NEW n \in Nodes, Exchange(m, n) PROVE TypeOK'
  <2>1. CASE TurnAway(m, n) \/ RejectReport(m, n)
    BY <2>1, RefuseType DEF TurnAway, RejectReport
  <2>2. CASE TurnAwayFails(m, n)
    BY <2>2, NoMachinesType DEF TurnAwayFails
  <2>3. CASE Deliver(m, n)
    BY <2>3, JobIsExecution DEF Deliver, Goto, TypeOK, Steps, Places
  <2>4. CASE DeliverInVain(m, n)
    BY <2>4, ReturnType, GotoType DEF DeliverInVain, TypeOK, Steps
  <2>5. CASE Receive(m, n)
    <3>1. marker' \in [Executions -> Markers] /\ aged' \subseteq Executions
      BY <2>5, MarkType DEF Receive, MarkerOf, Markers, TypeOK
    <3>2. QED
      BY <2>5, <3>1, CloseType DEF Receive, TypeOK
  <2>6. QED
    BY <1>8, <2>1, <2>2, <2>3, <2>4, <2>5 DEF Exchange
<1>9. ASSUME NEW n \in Nodes, Node(n) PROVE TypeOK'
  <2>1. CASE Wake(n) \/ Connect(n)
    BY <2>1 DEF Wake, Connect, Move, TypeOK, Places
  <2>2. CASE HelloTimeout(n) \/ ReportTimeout(n) \/ NodeFails(n)
    BY <2>2, RefuseType DEF HelloTimeout, ReportTimeout, NodeFails
  <2>3. CASE Report(n)
    <3>1. verdict' \in [Executions -> {"none", "ok", "bad"}]
      BY <2>3 DEF Report, TypeOK
    <3>2. at' \in [Nodes -> Places] /\ task' \in [Nodes -> Executions \cup {NoExecution}]
      BY <2>3, ReturnType DEF Report, TypeOK, Places
    <3>3. QED
      BY <2>3, <3>1, <3>2 DEF Report, TypeOK
  <2>4. QED
    BY <1>9, <2>1, <2>2, <2>3 DEF Node
<1>10. ASSUME NEW e \in Executions, Ages(e) PROVE TypeOK'
  BY <1>10 DEF Ages, TypeOK
<1>11. CASE UNCHANGED vars
  BY <1>11 DEF vars, TypeOK
<1>12. QED
  BY <1>1, <1>2, <1>3, <1>4, <1>5, <1>6, <1>7, <1>8, <1>9, <1>10, <1>11
  DEF Next, Master

-----------------------------------------------------------------------------
(* The kinds of steps, seen from what they change.                         *)

\* A round of an accept loop that ends with "no machines available".
GiveUp(m) ==
  /\ pc[m] \in {"send", "recv"}
  /\ pc[m] = "recv" => Overdue(m)
  /\ NoMachines(m)

\* A node's step outside of a measurement.
Approach(n) ==
  /\ at[n] \in {"watching", "connecting"}
  /\ \E place \in {"connecting", "hello"} : Move(n, place)

MasterKinds(m) ==
  \/ \E e \in Executions, n \in Nodes : Serve(m, e, n)
  \/ Bind(m) \/ LoadSource(m) \/ SourceFails(m) \/ GiveUp(m) \/ RecvFails(m)
  \/ Conclude(m) \/ PollTimeout(m) \/ Crash(m)
  \/ \E n \in Nodes : Deliver(m, n) \/ DeliverInVain(m, n) \/ Receive(m, n)

NodeKinds(n) == Refuse(n) \/ Approach(n) \/ Report(n)

\* At most, a marker grows old.
Still == UNCHANGED <<pc, job, target, marker, outcome, at, task, verdict>>

LEMMA StepKinds ==
  ASSUME [Next]_vars
  PROVE  \/ \E m \in Masters : MasterKinds(m)
         \/ \E n \in Nodes : NodeKinds(n)
         \/ Still
<1>1. ASSUME NEW m \in Masters, NEW n \in Nodes, Exchange(m, n)
      PROVE  MasterKinds(m) \/ NodeKinds(n)
  BY <1>1 DEF Exchange, TurnAway, TurnAwayFails, RejectReport, MasterKinds, NodeKinds,
              GiveUp
<1>2. ASSUME NEW m \in Masters, Timeout(m) PROVE MasterKinds(m)
  BY <1>2 DEF Timeout, SendTimeout, RecvTimeout, MasterKinds, GiveUp
<1>3. ASSUME NEW n \in Nodes, Node(n) PROVE NodeKinds(n)
  BY <1>3 DEF Node, Wake, Connect, HelloTimeout, ReportTimeout, NodeFails, NodeKinds,
              Approach
<1>4. ASSUME NEW m \in Masters, Master(m)
      PROVE  MasterKinds(m) \/ \E n \in Nodes : NodeKinds(n)
  BY <1>1, <1>2, <1>4 DEF Master, MasterKinds
<1>5. ASSUME NEW e \in Executions, Ages(e) PROVE Still
  BY <1>5 DEF Ages, Still
<1>6. QED
  BY <1>3, <1>4, <1>5 DEF Next, Still, vars

-----------------------------------------------------------------------------
(* The parts of the invariant, one after the other.                        *)

LEMMA ListenerStep == TypeOK /\ OneListener /\ [Next]_vars => OneListener'
<1> SUFFICES ASSUME TypeOK, OneListener, [Next]_vars PROVE OneListener'
  OBVIOUS
<1> USE DEF Goto, Serving
<1>1. ASSUME NEW m \in Masters, Bind(m) PROVE OneListener'
  BY <1>1 DEF Bind, Listening, OneListener, TypeOK
<1>2. ASSUME NEW m \in Masters, MasterKinds(m), ~Bind(m)
      PROVE  \A k \in Masters : Serving(k)' => Serving(k)
  BY <1>2 DEF MasterKinds, Serve, LoadSource, SourceFails, GiveUp, NoMachines, RecvFails,
              Conclude, PollTimeout, Crash, Deliver, DeliverInVain, Receive, Close,
              Finish, TypeOK
<1>3. ASSUME NEW n \in Nodes, NodeKinds(n) PROVE UNCHANGED pc
  BY <1>3 DEF NodeKinds, Refuse, Approach, Move, Report
<1>4. QED
  BY <1>1, <1>2, <1>3, StepKinds DEF OneListener, Still

\* A result that is accepted is that of the master's own execution.
LEMMA ReceivedIsOwn ==
  ASSUME TypeOK, JobsOK, TasksOK, TargetOnJob,
         NEW m \in Masters, NEW n \in Nodes, Receive(m, n)
  PROVE  task[n] = job[m] /\ job[m] \in Executions
BY JobIsExecution DEF Receive, TasksOK, TargetOnJob

\* Every step but Serve writes the marker of m's own execution or none.
OwnStep(m) ==
  /\ \A e \in Executions : e # job[m] => marker'[e] = marker[e] /\ outcome'[e] = outcome[e]
  /\ \A k \in Masters : k # m => pc'[k] = pc[k] /\ job'[k] = job[k]

LEMMA OnlyOwn ==
  ASSUME TypeOK, JobsOK, TasksOK, TargetOnJob, NEW m \in Masters, MasterKinds(m),
         ~ \E e \in Executions, n \in Nodes : Serve(m, e, n)
  PROVE  OwnStep(m) /\ pc[m] # "idle"
<1> USE DEF TypeOK, OwnStep, Goto
<1>1. CASE Bind(m) \/ LoadSource(m)
  BY <1>1 DEF Bind, LoadSource
<1>2. CASE SourceFails(m)
  BY <1>2 DEF SourceFails, Close, Finish
<1>3. CASE GiveUp(m) \/ RecvFails(m)
  BY <1>3 DEF GiveUp, NoMachines, RecvFails, Close
<1>4. CASE Conclude(m) \/ PollTimeout(m) \/ Crash(m)
  BY <1>4 DEF Conclude, PollTimeout, Crash, Finish
<1>5. ASSUME NEW n \in Nodes, Deliver(m, n) \/ DeliverInVain(m, n) \/ Receive(m, n)
      PROVE  OwnStep(m) /\ pc[m] # "idle"
  BY <1>5, ReceivedIsOwn DEF Deliver, DeliverInVain, Receive, Close
<1>6. QED
  BY <1>1, <1>2, <1>3, <1>4, <1>5 DEF MasterKinds

\* What a step of m leaves behind for m itself.
OwnEnd(m) ==
  /\ job'[m] = NoExecution <=> pc'[m] = "idle"
  /\ pc'[m] # "idle" =>
       job'[m] = job[m] /\ marker'[job[m]] # "none" /\ outcome'[job[m]] = "none"
  /\ pc'[m] \in {"bind", "open", "send", "recv"} => marker'[job[m]] = "queued"

LEMMA OwnEnds ==
  ASSUME TypeOK, JobsOK, TasksOK, TargetOnJob, NEW m \in Masters, MasterKinds(m),
         ~ \E e \in Executions, n \in Nodes : Serve(m, e, n)
  PROVE  OwnEnd(m)
<1>0. job[m] \in Executions
  BY OnlyOwn, JobIsExecution
<1> USE <1>0, NoExecutionAssumption DEF TypeOK, JobsOK, OwnEnd, Goto, Serving
<1>1. CASE Bind(m) \/ LoadSource(m)
  BY <1>1 DEF Bind, LoadSource
<1>2. CASE SourceFails(m)
  BY <1>2 DEF SourceFails, Close, Finish
<1>3. CASE GiveUp(m) \/ RecvFails(m)
  BY <1>3 DEF GiveUp, NoMachines, RecvFails, Close
<1>4. CASE Conclude(m) \/ PollTimeout(m) \/ Crash(m)
  BY <1>4 DEF Conclude, PollTimeout, Crash, Finish
<1>5. ASSUME NEW n \in Nodes, Deliver(m, n) \/ DeliverInVain(m, n) \/ Receive(m, n)
      PROVE  OwnEnd(m)
  BY <1>5, ReceivedIsOwn DEF Deliver, DeliverInVain, Receive, Close, MarkerOf
<1>6. QED
  BY <1>1, <1>2, <1>3, <1>4, <1>5 DEF MasterKinds

LEMMA JobsStep ==
  TypeOK /\ JobsOK /\ TasksOK /\ TargetOnJob /\ UndeliveredOK /\ [Next]_vars => JobsOK'
<1> SUFFICES ASSUME TypeOK, JobsOK, TasksOK, TargetOnJob, UndeliveredOK, [Next]_vars
             PROVE  JobsOK'
  OBVIOUS
<1>0. TypeOK'
  BY TypeStep
<1>1. ASSUME NEW m \in Masters, NEW e \in Executions, NEW n \in Nodes, Serve(m, e, n)
      PROVE  JobsOK'
  <2>1. /\ marker[e] = "none" /\ marker'[e] = "queued" /\ outcome'[e] = "none"
        /\ \A d \in Executions : d # e => marker'[d] = marker[d] /\ outcome'[d] = outcome[d]
    BY <1>1 DEF Serve, TypeOK, UndeliveredOK
  <2>2. \A k \in Masters : pc[k] # "idle" => job[k] \in Executions /\ job[k] # e
    BY <2>1, JobIsExecution DEF JobsOK
  <2>3. CASE UNCHANGED master
    BY <2>1, <2>2, <2>3, NoExecutionAssumption DEF JobsOK, Serving
  <2>4. CASE Goto(m, "bind") /\ job' = [job EXCEPT ![m] = e]
    <3>1. /\ pc[m] = "idle" /\ pc'[m] = "bind" /\ job'[m] = e
          /\ \A k \in Masters : k # m => pc'[k] = pc[k] /\ job'[k] = job[k]
      BY <1>1, <2>4 DEF Serve, Goto, TypeOK
    <3>2. QED
      BY <2>1, <2>2, <3>1, NoExecutionAssumption DEF JobsOK, Serving
  <2>5. QED
    BY <1>1, <2>3, <2>4 DEF Serve
<1>2. ASSUME NEW m \in Masters, MasterKinds(m),
             ~ \E e \in Executions, n \in Nodes : Serve(m, e, n)
      PROVE  JobsOK'
  <2>1. OwnStep(m) /\ OwnEnd(m) /\ pc[m] # "idle"
    BY <1>2, OnlyOwn, OwnEnds
  <2>2. QED
    BY <1>0, <2>1, NoExecutionAssumption DEF OwnStep, OwnEnd, TypeOK, JobsOK, Serving
<1>3. ASSUME NEW n \in Nodes, NodeKinds(n) PROVE JobsOK'
  BY <1>3 DEF NodeKinds, Refuse, Approach, Move, Report, JobsOK, Serving
<1>4. QED
  BY <1>1, <1>2, <1>3, StepKinds DEF MasterKinds, JobsOK, Serving, Still

\* No marker is ever removed.
LEMMA MarkersStay ==
  ASSUME TypeOK, JobsOK, TasksOK, [Next]_vars, NEW e \in Executions, marker[e] # "none"
  PROVE  marker'[e] # "none"
<1>1. ASSUME NEW m \in Masters, MasterKinds(m) PROVE marker'[e] # "none"
  <2> USE DEF TypeOK
  <2>1. CASE \E d \in Executions, n \in Nodes : Serve(m, d, n)
    BY <2>1 DEF Serve
  <2>2. CASE Bind(m) \/ LoadSource(m) \/ RecvFails(m) \/ Conclude(m) \/ Crash(m)
    BY <2>2 DEF Bind, LoadSource, RecvFails, Conclude, Crash
  <2>3. CASE SourceFails(m) \/ PollTimeout(m)
    BY <2>3 DEF SourceFails, PollTimeout
  <2>4. CASE GiveUp(m)
    BY <2>4 DEF GiveUp, NoMachines
  <2>5. CASE \E n \in Nodes : Deliver(m, n) \/ DeliverInVain(m, n) \/ Receive(m, n)
    BY <2>5 DEF Deliver, DeliverInVain, Receive, MarkerOf
  <2>6. QED
    BY <1>1, <2>1, <2>2, <2>3, <2>4, <2>5 DEF MasterKinds
<1>2. ASSUME NEW n \in Nodes, NodeKinds(n) PROVE UNCHANGED marker
  BY <1>2 DEF NodeKinds, Refuse, Approach, Move, Report
<1>3. QED
  BY <1>1, <1>2, StepKinds DEF Still

\* The nodes only lose what they have in hand.
Lose == UNCHANGED nodes \/ \E S \in SUBSET Nodes : Return(S)

LEMMA LoseKeepsTasks ==
  ASSUME TypeOK, TasksOK, Lose, UNCHANGED <<target, verdict>>, NoExecution \notin Executions,
         \A e \in Executions : marker[e] # "none" => marker'[e] # "none"
  PROVE  TasksOK'
<1>1. CASE UNCHANGED nodes
  BY <1>1 DEF TasksOK, TypeOK
<1>2. ASSUME NEW S \in SUBSET Nodes, Return(S) PROVE TasksOK'
  <2>1. \A n \in Nodes : /\ n \in S => at'[n] = "watching" /\ task'[n] = NoExecution
                         /\ n \notin S => at'[n] = at[n] /\ task'[n] = task[n]
    BY <1>2 DEF Return
  <2>2. QED
    BY <2>1 DEF TasksOK, TypeOK
<1>3. QED
  BY <1>1, <1>2 DEF Lose

\* The steps of a master that leave targets and nodes alone, or take from them.
LEMMA MasterLoses ==
  ASSUME TypeOK, NEW m \in Masters, MasterKinds(m),
         ~ \E e \in Executions, n \in Nodes : Serve(m, e, n),
         ~ \E n \in Nodes : Deliver(m, n)
  PROVE  Lose /\ UNCHANGED <<target, verdict>>
<1>0. Waiting \in SUBSET Nodes
  BY DEF Waiting
<1> USE <1>0 DEF Lose, Close
<1>1. CASE Bind(m) \/ LoadSource(m) \/ Conclude(m) \/ PollTimeout(m)
  BY <1>1 DEF Bind, LoadSource, Conclude, PollTimeout
<1>2. CASE SourceFails(m)
  BY <1>2 DEF SourceFails
<1>3. CASE GiveUp(m) \/ RecvFails(m)
  BY <1>3 DEF GiveUp, NoMachines, RecvFails
<1>4. CASE Crash(m)
  BY <1>4 DEF Crash
<1>5. ASSUME NEW n \in Nodes, DeliverInVain(m, n) \/ Receive(m, n)
      PROVE  Lose /\ UNCHANGED <<target, verdict>>
  BY <1>5 DEF DeliverInVain, Receive
<1>6. QED
  BY <1>1, <1>2, <1>3, <1>4, <1>5 DEF MasterKinds

LEMMA TasksStep ==
  TypeOK /\ JobsOK /\ TasksOK /\ UndeliveredOK /\ [Next]_vars => TasksOK'
<1> SUFFICES ASSUME TypeOK, JobsOK, TasksOK, UndeliveredOK, [Next]_vars PROVE TasksOK'
  OBVIOUS
<1>0. \A e \in Executions : marker[e] # "none" => marker'[e] # "none"
  BY MarkersStay
<1>1. ASSUME NEW m \in Masters, NEW e \in Executions, NEW n \in Nodes, Serve(m, e, n)
      PROVE  TasksOK'
  <2>1. \A d \in Executions : d # e => target'[d] = target[d]
    BY <1>1 DEF Serve, TypeOK
  <2>2. marker[e] = "none" /\ UNCHANGED <<nodes, verdict>>
    BY <1>1 DEF Serve
  <2>3. QED
    BY <1>0, <2>1, <2>2 DEF TasksOK, TypeOK
<1>2. ASSUME NEW m \in Masters, NEW n \in Nodes, Deliver(m, n) PROVE TasksOK'
  <2>1. /\ job[m] \in Executions /\ target[job[m]] = n /\ marker[job[m]] # "none"
        /\ verdict[job[m]] = "none"
    BY <1>2, JobIsExecution DEF Deliver, IsTarget, JobsOK, UndeliveredOK
  <2>2. /\ at'[n] = "measuring" /\ task'[n] = job[m]
        /\ \A k \in Nodes : k # n => at'[k] = at[k] /\ task'[k] = task[k]
    BY <1>2 DEF Deliver, TypeOK
  <2>3. UNCHANGED <<target, marker, verdict>>
    BY <1>2 DEF Deliver
  <2>4. QED
    BY <2>1, <2>2, <2>3, NoExecutionAssumption DEF TasksOK, TypeOK
<1>3. ASSUME NEW m \in Masters, MasterKinds(m),
             ~ \E e \in Executions, n \in Nodes : Serve(m, e, n),
             ~ \E n \in Nodes : Deliver(m, n)
      PROVE  TasksOK'
  BY <1>0, <1>3, MasterLoses, LoseKeepsTasks, NoExecutionAssumption
<1>4. ASSUME NEW n \in Nodes, Refuse(n) PROVE TasksOK'
  BY <1>0, <1>4, LoseKeepsTasks, NoExecutionAssumption DEF Refuse, Lose
<1>5. ASSUME NEW n \in Nodes, Approach(n) PROVE TasksOK'
  BY <1>5, NoExecutionAssumption DEF Approach, Move, TasksOK, TypeOK
<1>6. ASSUME NEW n \in Nodes, Report(n) PROVE TasksOK'
  <2>1. task[n] \in Executions /\ target[task[n]] = n /\ verdict[task[n]] = "none"
    BY <1>6, TaskIsExecution DEF Report, TasksOK
  <2>2. /\ verdict'[task[n]] # "none"
        /\ \A e \in Executions : e # task[n] => verdict'[e] = verdict[e]
        /\ UNCHANGED <<target, marker>>
    BY <1>6, <2>1 DEF Report, TypeOK
  <2>3. /\ \/ at'[n] = "reporting" /\ task'[n] = task[n]
           \/ at'[n] = "watching" /\ task'[n] = NoExecution
        /\ \A k \in Nodes : k # n => at'[k] = at[k] /\ task'[k] = task[k]
    BY <1>6 DEF Report, Return, TypeOK
  <2>4. ASSUME NEW k \in Nodes, k # n, task[k] # NoExecution PROVE task[k] # task[n]
    BY <2>1, <2>4 DEF TasksOK
  <2>5. QED
    BY <2>1, <2>2, <2>3, <2>4, NoExecutionAssumption DEF TasksOK, TypeOK
<1>7. CASE Still
  BY <1>7 DEF Still, TasksOK
<1>8. QED
  BY <1>1, <1>2, <1>3, <1>4, <1>5, <1>6, <1>7, StepKinds DEF NodeKinds

\* A report is the first of its execution, and costs only the reporting node.
ReportStep(n) ==
  /\ task[n] \in Executions /\ verdict[task[n]] = "none" /\ marker[task[n]] # "none"
  /\ verdict'[task[n]] \in {"ok", "bad"}
  /\ \A e \in Executions : e # task[n] => verdict'[e] = verdict[e]
  /\ at'[n] # "measuring"
  /\ \A k \in Nodes : /\ k # n => at'[k] = at[k]
                      /\ task'[k] # NoExecution => task'[k] = task[k]
  /\ UNCHANGED <<master, target, marker, outcome>>

LEMMA ReportSteps ==
  ASSUME TypeOK, TasksOK, NEW n \in Nodes, Report(n)
  PROVE  ReportStep(n)
<1>1. task[n] \in Executions /\ verdict[task[n]] = "none" /\ marker[task[n]] # "none"
  BY TaskIsExecution, NoExecutionAssumption DEF Report, TasksOK
<1>2. /\ verdict'[task[n]] \in {"ok", "bad"}
      /\ \A e \in Executions : e # task[n] => verdict'[e] = verdict[e]
  BY <1>1 DEF Report, TypeOK
<1>3. /\ at'[n] # "measuring"
      /\ \A k \in Nodes : /\ k # n => at'[k] = at[k]
                          /\ task'[k] # NoExecution => task'[k] = task[k]
  BY DEF Report, Return, TypeOK
<1>4. QED
  BY <1>1, <1>2, <1>3 DEF Report, ReportStep

\* What the nodes may lose.
LEMMA Losses ==
  ASSUME TypeOK, Lose
  PROVE  \A n \in Nodes : /\ task'[n] # NoExecution => task'[n] = task[n]
                          /\ at'[n] = "measuring" => at[n] = "measuring" /\ task'[n] = task[n]
BY DEF Lose, Return, TypeOK

LEMMA UndeliveredStep ==
  TypeOK /\ JobsOK /\ TasksOK /\ TargetOnJob /\ UndeliveredOK /\ [Next]_vars
    => UndeliveredOK'
<1> SUFFICES ASSUME TypeOK, JobsOK, TasksOK, TargetOnJob, UndeliveredOK, [Next]_vars
             PROVE  UndeliveredOK'
  OBVIOUS
<1>0. /\ TypeOK' /\ JobsOK'
      /\ \A e \in Executions : marker'[e] = "none" => marker[e] = "none"
  BY TypeStep, JobsStep, MarkersStay
<1> USE NoExecutionAssumption
<1>1. ASSUME NEW m \in Masters, NEW e \in Executions, NEW n \in Nodes, Serve(m, e, n)
      PROVE  UndeliveredOK'
  <2>1. marker[e] = "none" /\ UNCHANGED <<nodes, verdict, outcome>>
    BY <1>1 DEF Serve
  <2>2. \A k \in Masters : \/ pc'[k] = pc[k] /\ job'[k] = job[k]
                           \/ job'[k] = e
    BY <1>1 DEF Serve, Goto, TypeOK
  <2>3. verdict[e] = "none" /\ \A k \in Nodes : task[k] # e
    BY <2>1 DEF UndeliveredOK, TasksOK
  <2>4. QED
    BY <1>0, <2>1, <2>2, <2>3 DEF UndeliveredOK
<1>2. ASSUME NEW m \in Masters, MasterKinds(m),
             ~ \E e \in Executions, n \in Nodes : Serve(m, e, n)
      PROVE  UndeliveredOK'
  <2>1. OwnStep(m) /\ OwnEnd(m) /\ pc[m] # "idle" /\ job[m] \in Executions
    BY <1>2, OnlyOwn, OwnEnds, JobIsExecution
  <2>2. marker[job[m]] # "none" /\ UNCHANGED verdict
    BY <1>2, <2>1, MasterLoses DEF JobsOK, Deliver
  <2>3. \A e \in Executions : marker'[e] = "none" => verdict'[e] = "none" /\ outcome'[e] = "none"
    BY <1>0, <2>1, <2>2, MarkersStay DEF UndeliveredOK, OwnStep
  <2>4. pc'[m] \in {"bind", "open", "send"} =>
          pc[m] \in {"bind", "open", "send"} /\ ~ \E n \in Nodes : Deliver(m, n)
    BY <1>2 DEF MasterKinds, Goto, TypeOK, Bind, LoadSource, SourceFails, GiveUp, NoMachines,
                RecvFails, Conclude, PollTimeout, Crash, Deliver, DeliverInVain, Receive,
                Close, Finish
  <2>5. \A n \in Nodes : \/ task'[n] = task[n]
                         \/ task'[n] = NoExecution
                         \/ task'[n] = job[m] /\ \E k \in Nodes : Deliver(m, k)
    BY <1>2, MasterLoses, Losses DEF Deliver, TypeOK
  <2>6. ASSUME NEW k \in Masters, pc'[k] \in {"bind", "open", "send"}
        PROVE  verdict'[job'[k]] = "none" /\ \A n \in Nodes : task'[n] # job'[k]
    <3>1. pc[k] \in {"bind", "open", "send"} /\ job'[k] = job[k] /\ job[k] \in Executions
      BY <2>1, <2>4, <2>6, JobIsExecution DEF OwnStep, OwnEnd
    <3>2. k # m => job[k] # job[m]
      BY <2>1, <3>1 DEF JobsOK
    <3>3. QED
      BY <2>2, <2>4, <2>5, <2>6, <3>1, <3>2 DEF UndeliveredOK
  <2>7. QED
    BY <2>3, <2>6 DEF UndeliveredOK
<1>3. ASSUME NEW n \in Nodes, Refuse(n) \/ Approach(n) PROVE UndeliveredOK'
  <2>1. /\ UNCHANGED <<master, verdict, outcome>>
        /\ \A k \in Nodes : task'[k] = task[k] \/ task'[k] = NoExecution
    BY <1>3 DEF Refuse, Return, Approach, Move, TypeOK
  <2>2. \A m \in Masters : pc[m] # "idle" => job[m] # NoExecution
    BY DEF JobsOK
  <2>3. QED
    BY <1>0, <2>1, <2>2 DEF UndeliveredOK
<1>4. ASSUME NEW n \in Nodes, Report(n) PROVE UndeliveredOK'
  <2>1. ReportStep(n)
    BY <1>4, ReportSteps
  <2>2. \A m \in Masters : pc[m] # "idle" => job[m] # NoExecution /\ job[m] \in Executions
    BY JobIsExecution
  <2>3. QED
    BY <1>0, <2>1, <2>2 DEF UndeliveredOK, ReportStep
<1>5. CASE Still
  BY <1>5 DEF Still, UndeliveredOK
<1>6. QED
  BY <1>1, <1>2, <1>3, <1>4, <1>5, StepKinds DEF NodeKinds

LEMMA TargetStep ==
  TypeOK /\ OneListener /\ JobsOK /\ TasksOK /\ TargetOnJob /\ UndeliveredOK /\ [Next]_vars
    => TargetOnJob'
<1> SUFFICES ASSUME TypeOK, OneListener, JobsOK, TasksOK, TargetOnJob, UndeliveredOK,
                    [Next]_vars,
                    NEW m \in Masters, NEW n \in Nodes,
                    pc'[m] = "recv", IsTarget(m, n)', task'[n] # NoExecution
             PROVE  task'[n] = job'[m]
  BY DEF TargetOnJob
<1> USE NoExecutionAssumption
<1>1. CASE pc[m] # "recv"
  <2>1. PICK k \in Masters : MasterKinds(k)
    BY <1>1, StepKinds DEF NodeKinds, Refuse, Approach, Move, Report, Still
  <2>2. PICK p \in Nodes : Deliver(m, p) \/ DeliverInVain(m, p)
    BY <1>1, <2>1 DEF MasterKinds, Goto, TypeOK, Serve, Bind, LoadSource, SourceFails, GiveUp,
                NoMachines, RecvFails, Conclude, PollTimeout, Crash, Deliver, DeliverInVain,
                Receive, Close, Finish
  <2>3. p = n
    BY <2>2 DEF Deliver, DeliverInVain, IsTarget
  <2>4. QED
    BY <2>2, <2>3 DEF Deliver, DeliverInVain, Return, TypeOK
<1>2. CASE pc[m] = "recv"
  <2>1. job[m] \in Executions /\ marker[job[m]] # "none"
    BY <1>2, JobIsExecution DEF JobsOK
  <2>2. /\ task'[n] = task[n]
        /\ target'[job[m]] = target[job[m]]
        /\ job'[m] = job[m]
    <3>1. ASSUME NEW k \in Masters, NEW e \in Executions, NEW p \in Nodes, Serve(k, e, p)
          PROVE  /\ task' = task /\ target'[job[m]] = target[job[m]] /\ job'[m] = job[m]
      BY <1>2, <2>1, <3>1 DEF Serve, TypeOK
    <3>2. ASSUME NEW k \in Masters, NEW p \in Nodes, Deliver(k, p) PROVE FALSE
      BY <1>2, <3>2 DEF Deliver, OneListener, Serving, Goto, TypeOK
    <3>3. ASSUME NEW k \in Masters, MasterKinds(k),
                 ~ \E e \in Executions, p \in Nodes : Serve(k, e, p)
          PROVE  task'[n] = task[n] /\ UNCHANGED target /\ job'[m] = job[m]
      <4>1. Lose /\ UNCHANGED target
        BY <3>2, <3>3, MasterLoses
      <4>2. job'[m] = job[m]
        BY <3>3, OnlyOwn, OwnEnds DEF OwnStep, OwnEnd
      <4>3. QED
        BY <4>1, <4>2, Losses
    <3>4. ASSUME NEW p \in Nodes, NodeKinds(p)
          PROVE  task'[n] = task[n] /\ UNCHANGED <<target, job>>
      BY <3>4 DEF NodeKinds, Refuse, Approach, Move, Report, Return, TypeOK
    <3>5. QED
      BY <3>1, <3>3, <3>4, StepKinds DEF Still
  <2>3. QED
    BY <1>2, <2>2 DEF TargetOnJob, IsTarget
<1>3. QED
  BY <1>1, <1>2

\* The verdict of an execution is its last.
LEMMA VerdictsStay ==
  ASSUME TypeOK, TasksOK, [Next]_vars, NEW e \in Executions, verdict[e] # "none"
  PROVE  verdict'[e] = verdict[e]
<1>1. ASSUME NEW m \in Masters, MasterKinds(m) PROVE UNCHANGED verdict
  BY <1>1, MasterLoses DEF Serve, Deliver
<1>2. ASSUME NEW n \in Nodes, Report(n) PROVE verdict'[e] = verdict[e]
  BY <1>2, ReportSteps DEF ReportStep
<1>3. QED
  BY <1>1, <1>2, StepKinds DEF NodeKinds, Refuse, Approach, Move, Still

\* Only a result makes a marker "done".
LEMMA DoneByResult ==
  ASSUME TypeOK, JobsOK, TasksOK, TargetOnJob, [Next]_vars,
         NEW e \in Executions, marker'[e] = "done", marker[e] # "done"
  PROVE  verdict[e] = "ok"
<1>1. PICK m \in Masters : MasterKinds(m)
  BY StepKinds DEF NodeKinds, Refuse, Approach, Move, Report, Still
<1>2. PICK n \in Nodes : Receive(m, n)
  BY <1>1 DEF MasterKinds, TypeOK, Serve, Bind, LoadSource, SourceFails, GiveUp, NoMachines,
              RecvFails, Conclude, PollTimeout, Crash, Deliver, DeliverInVain
<1>3. task[n] = job[m] /\ job[m] \in Executions
  BY <1>2, ReceivedIsOwn
<1>4. marker' = [marker EXCEPT ![task[n]] = MarkerOf(verdict[task[n]])]
  BY <1>2 DEF Receive
<1>5. e = task[n] /\ MarkerOf(verdict[task[n]]) = "done"
  BY <1>3, <1>4 DEF TypeOK
<1>6. QED
  BY <1>5 DEF MarkerOf

LEMMA DoneStep ==
  TypeOK /\ JobsOK /\ TasksOK /\ TargetOnJob /\ DoneIsOk /\ [Next]_vars => DoneIsOk'
<1> SUFFICES ASSUME TypeOK, JobsOK, TasksOK, TargetOnJob, DoneIsOk, [Next]_vars,
                    NEW e \in Executions, marker'[e] = "done"
             PROVE  verdict'[e] = "ok"
  BY DEF DoneIsOk
<1>1. verdict[e] = "ok"
  BY DoneByResult DEF DoneIsOk
<1>2. QED
  BY <1>1, VerdictsStay

\* The master m waits for the node n, which measures.
Awaits(m, n) ==
  /\ job[m] = task[n] /\ Pending(job[m])
  /\ pc[m] = "recv" \/ (pc[m] = "poll" /\ "network" \in Faults)

LEMMA AwaitedStep ==
  TypeOK /\ JobsOK /\ TasksOK /\ TargetOnJob /\ UndeliveredOK /\ MeasuredIsAwaited
    /\ [Next]_vars => MeasuredIsAwaited'
<1> SUFFICES ASSUME TypeOK, JobsOK, TasksOK, TargetOnJob, UndeliveredOK, MeasuredIsAwaited,
                    [Next]_vars, Faults \cap {"crash", "overrun"} = {},
                    NEW n \in Nodes, at'[n] = "measuring"
             PROVE  \E m \in Masters : Awaits(m, n)'
  BY DEF MeasuredIsAwaited, Awaits
<1> USE NoExecutionAssumption
<1>1. ASSUME NEW k \in Masters, NEW p \in Nodes, Deliver(k, p), p = n
      PROVE  Awaits(k, n)'
  BY <1>1, JobIsExecution
  DEF Awaits, Deliver, Goto, TypeOK, JobsOK, Serving, Pending
<1>2. ASSUME ~ \E k \in Masters : Deliver(k, n)
      PROVE  at[n] = "measuring" /\ task'[n] = task[n]
  <2>1. ASSUME NEW k \in Masters, MasterKinds(k)
        PROVE  at[n] = "measuring" /\ task'[n] = task[n]
    BY <1>2, <2>1, MasterLoses, Losses DEF Serve, Deliver, TypeOK
  <2>2. ASSUME NEW p \in Nodes, NodeKinds(p)
        PROVE  at[n] = "measuring" /\ task'[n] = task[n]
    BY <2>2 DEF NodeKinds, Refuse, Approach, Move, Report, Return, TypeOK
  <2>3. QED
    BY <2>1, <2>2, StepKinds DEF Still
<1>3. ASSUME at[n] = "measuring", task'[n] = task[n] PROVE \E m \in Masters : Awaits(m, n)'
  <2>1. PICK m \in Masters : Awaits(m, n)
    BY <1>3 DEF MeasuredIsAwaited, Awaits
  <2>2. job[m] \in Executions /\ target[job[m]] = n /\ pc[m] # "idle"
    BY <1>3, <2>1, TaskIsExecution DEF TasksOK, Awaits
  <2>3. ASSUME NEW k \in Masters, NEW e \in Executions, NEW p \in Nodes, Serve(k, e, p)
        PROVE  Awaits(m, n)'
    <3>1. e # job[m] /\ k # m
      BY <2>1, <2>2, <2>3 DEF Serve, Awaits, Pending
    <3>2. QED
      BY <1>3, <2>1, <2>2, <2>3, <3>1 DEF Serve, Awaits, Pending, Goto, TypeOK
  <2>4. ASSUME NEW k \in Masters, MasterKinds(k), k # m,
               ~ \E e \in Executions, p \in Nodes : Serve(k, e, p)
        PROVE  Awaits(m, n)'
    <3>1. job[k] # job[m]
      BY <2>2, <2>4 DEF JobsOK
    <3>2. QED
      BY <1>3, <2>1, <2>2, <2>4, <3>1, OnlyOwn DEF OwnStep, Awaits, Pending
  <2>5. ASSUME MasterKinds(m) PROVE Awaits(m, n)'
    <3>1. OnTheJob(m)
      BY <2>1, <2>2 DEF OnTheJob, IsTarget, Awaits
    <3>2. ~Overdue(m)
      BY <3>1 DEF Overdue
    <3>3. ~ \E p \in Nodes : Receive(m, p)
      BY <1>3, <2>2 DEF Receive, IsTarget
    <3>4. RecvFails(m)
      BY <2>1, <2>5, <3>2, <3>3 DEF MasterKinds, Awaits, Serve, Bind, LoadSource, SourceFails,
           GiveUp, Conclude, PollTimeout, Crash, Deliver, DeliverInVain
    <3>5. QED
      BY <1>3, <2>1, <3>4 DEF RecvFails, Close, Goto, Awaits, Pending, TypeOK
  <2>6. ASSUME NEW p \in Nodes, NodeKinds(p) PROVE Awaits(m, n)'
    BY <1>3, <2>1, <2>6 DEF NodeKinds, Refuse, Approach, Move, Report, Awaits, Pending
  <2>7. CASE Still
    BY <1>3, <2>1, <2>7 DEF Still, Awaits, Pending
  <2>8. QED
    BY <2>3, <2>4, <2>5, <2>6, <2>7, StepKinds DEF MasterKinds
<1>4. QED
  BY <1>1, <1>2, <1>3

-----------------------------------------------------------------------------
(* The invariant, and what follows from it.                                *)

LEMMA InvInit == Init => IInv
<1> SUFFICES ASSUME Init PROVE IInv
  OBVIOUS
<1> USE NoExecutionAssumption DEF Init
<1>1. TypeOK
  BY DEF TypeOK, Steps, Markers, Places
<1>2. OneListener /\ JobsOK /\ TargetOnJob
  BY DEF OneListener, JobsOK, TargetOnJob, Serving
<1>3. TasksOK /\ UndeliveredOK /\ DoneIsOk /\ MeasuredIsAwaited
  BY DEF TasksOK, UndeliveredOK, DoneIsOk, MeasuredIsAwaited
<1>4. QED
  BY <1>1, <1>2, <1>3 DEF IInv

LEMMA InvStep == IInv /\ [Next]_vars => IInv'
BY TypeStep, ListenerStep, JobsStep, TasksStep, UndeliveredStep, TargetStep, DoneStep,
   AwaitedStep DEF IInv

THEOREM MeasurementInvariant == Spec => []IInv
<1>1. QED
  BY InvInit, InvStep, PTL DEF Spec

(* The variables keep their types, whatever happens to masters and nodes.  *)
THEOREM MeasurementTypes == Spec => []TypeOK
<1>1. IInv => TypeOK
  BY DEF IInv
<1>2. QED
  BY <1>1, MeasurementInvariant, PTL

(* While a master waits, its target has nothing but the execution the      *)
(* master waits for: an authenticated result is never somebody else's.     *)
THEOREM ResultsAreExpected == Spec => []TargetOnJob
<1>1. IInv => TargetOnJob
  BY DEF IInv
<1>2. QED
  BY <1>1, MeasurementInvariant, PTL

(* Once written, a marker changes only while a master runs its execution.  *)
THEOREM MarkersHaveOneWriter == Spec => OwnMarker
<1>1. ASSUME IInv, [Next]_vars, NEW e \in Executions, marker[e] # "none",
             marker'[e] # marker[e]
      PROVE  \E m \in Masters : job[m] = e
  <2>1. ASSUME NEW m \in Masters, NEW d \in Executions, NEW n \in Nodes, Serve(m, d, n)
        PROVE  FALSE
    BY <1>1, <2>1 DEF Serve, IInv, TypeOK
  <2>2. PICK m \in Masters : MasterKinds(m)
    BY <1>1, StepKinds DEF NodeKinds, Refuse, Approach, Move, Report, Still
  <2>3. QED
    BY <1>1, <2>1, <2>2, OnlyOwn DEF IInv, OwnStep
<1>2. IInv /\ [Next]_vars =>
        [\A e \in Executions :
           marker[e] # "none" /\ marker'[e] # marker[e] =>
             \E m \in Masters : job[m] = e]_vars
  BY <1>1
<1>3. QED
  BY <1>2, MeasurementInvariant, PTL DEF Spec, OwnMarker

\* A master writes the marker only while it is queued.
LEMMA QueuedIsWritten ==
  ASSUME IInv, NEW m \in Masters, MasterKinds(m), NEW e \in Executions,
         marker[e] \in {"done", "error"}
  PROVE  marker'[e] = marker[e]
<1> USE DEF IInv, TypeOK
<1>1. CASE \E d \in Executions, n \in Nodes : Serve(m, d, n)
  BY <1>1 DEF Serve
<1>2. ASSUME ~ \E d \in Executions, n \in Nodes : Serve(m, d, n), e = job[m]
      PROVE  marker'[e] = marker[e]
  <2>1. pc[m] \notin {"open", "send", "recv"} /\ ~Pending(e)
    BY <1>2 DEF JobsOK, Serving, Pending
  <2>2. QED
    BY <1>2, <2>1 DEF MasterKinds, Bind, LoadSource, SourceFails, GiveUp, RecvFails,
                      Conclude, PollTimeout, Crash, Deliver, DeliverInVain, Receive
<1>3. QED
  BY <1>1, <1>2, OnlyOwn DEF OwnStep

(* What a node reported, and its master stored, stands for good.           *)
THEOREM VerdictsStand == Spec => VerdictStands
<1>1. IInv /\ [Next]_vars =>
        [\A e \in Executions :
           marker[e] \in {"done", "error"} => marker'[e] = marker[e]]_vars
  BY QueuedIsWritten, StepKinds DEF NodeKinds, Refuse, Approach, Move, Report, Still
<1>2. QED
  BY <1>1, MeasurementInvariant, PTL DEF Spec, VerdictStands

\* Back in the dispatcher, m concludes its execution or leaves it without an outcome.
LEMMA FinishConcludes ==
  ASSUME IInv, NEW m \in Masters, pc[m] # "idle",
         NEW what \in {"none", "PROCESSING", "FAILED"}, Finish(m, what),
         what = "PROCESSING" => verdict[job[m]] = "ok", UNCHANGED verdict
  PROVE  [Service!Next]_(Service!vars)
<1>1. job[m] \in Executions /\ outcome[job[m]] = "none"
  BY JobIsExecution DEF IInv, JobsOK
<1>2. CASE what = "none"
  BY <1>1, <1>2 DEF Finish, IInv, TypeOK, Service!vars
<1>3. CASE what # "none"
  BY <1>1, <1>3 DEF Finish, Service!Conclude, Service!Next, Service!Outcomes
<1>4. QED
  BY <1>2, <1>3

LEMMA ServiceStep == IInv /\ [Next]_vars => [Service!Next]_(Service!vars)
<1> SUFFICES ASSUME IInv, [Next]_vars PROVE [Service!Next]_(Service!vars)
  OBVIOUS
<1>1. ASSUME NEW m \in Masters, Conclude(m) PROVE [Service!Next]_(Service!vars)
  <2>1. OutcomeOf(marker[job[m]]) = "PROCESSING" => verdict[job[m]] = "ok"
    BY <1>1, JobIsExecution DEF Conclude, OutcomeOf, IInv, DoneIsOk
  <2>2. OutcomeOf(marker[job[m]]) \in {"none", "PROCESSING", "FAILED"}
    BY DEF OutcomeOf
  <2>3. QED
    BY <1>1, <2>1, <2>2, FinishConcludes DEF Conclude
<1>2. ASSUME NEW m \in Masters, SourceFails(m) \/ PollTimeout(m) \/ Crash(m)
      PROVE  [Service!Next]_(Service!vars)
  BY <1>2, FinishConcludes DEF SourceFails, PollTimeout, Crash, Close, Service!vars
<1>3. ASSUME NEW m \in Masters, MasterKinds(m),
             ~(Conclude(m) \/ SourceFails(m) \/ PollTimeout(m) \/ Crash(m))
      PROVE  UNCHANGED <<verdict, outcome>>
  BY <1>3 DEF MasterKinds, Serve, Bind, LoadSource, GiveUp, NoMachines, RecvFails, Deliver,
              DeliverInVain, Receive, Close
<1>4. ASSUME NEW n \in Nodes, Report(n) PROVE [Service!Next]_(Service!vars)
  <2>1. task[n] \in Executions /\ verdict[task[n]] = "none" /\ UNCHANGED outcome
    BY <1>4, ReportSteps DEF IInv, ReportStep
  <2>2. PICK v \in {"ok", "bad"} : verdict' = [verdict EXCEPT ![task[n]] = v]
    BY <1>4 DEF Report
  <2>3. QED
    BY <2>1, <2>2 DEF Service!Measure, Service!Next, Service!Verdicts
<1>5. ASSUME NEW n \in Nodes, Refuse(n) \/ Approach(n) PROVE UNCHANGED <<verdict, outcome>>
  BY <1>5 DEF Refuse, Approach, Move
<1>6. QED
  BY <1>1, <1>2, <1>3, <1>4, <1>5, StepKinds DEF NodeKinds, Still, Service!vars

(* The exchange, with all its faults, implements the service promised to   *)
(* the queue: one measurement, one outcome, and post-processing only of    *)
(* executions that their own node measured with success.                   *)
THEOREM MeasurementImplementsService == Spec => ImplementsService
<1>1. Init => Service!Init
  BY DEF Init, Service!Init
<1>2. QED
  BY <1>1, ServiceStep, MeasurementInvariant, PTL DEF Spec, ImplementsService, Service!Spec

(* One dispatcher that is not killed, and whose waits outlast every        *)
(* measurement, never has two nodes measure at the same time: neither lost *)
(* connections nor nodes that die or discard a program can make it start   *)
(* the next measurement too early.                                         *)
THEOREM OneDispatcherSerializes ==
  ASSUME Faults \cap {"crash", "overrun"} = {},
         \A m1, m2 \in Masters : m1 = m2
  PROVE  Spec => []SerialMeasurement
<1>1. IInv => SerialMeasurement
  BY TaskIsExecution DEF IInv, MeasuredIsAwaited, TasksOK, SerialMeasurement
<1>2. QED
  BY <1>1, MeasurementInvariant, PTL

(* Any number of dispatchers, side by side, take their turns at the ports  *)
(* and measure one execution after the other, as long as none is killed,   *)
(* no measurement outlasts their waits and no connection fails in use.     *)
THEOREM PortsSerialize ==
  ASSUME Faults \cap {"crash", "overrun", "network"} = {}
  PROVE  Spec => []SerialMeasurement
<1>1. ASSUME IInv, NEW n1 \in Nodes, NEW n2 \in Nodes,
             at[n1] = "measuring", at[n2] = "measuring"
      PROVE  n1 = n2
  <2>1. PICK m1 \in Masters : job[m1] = task[n1] /\ pc[m1] = "recv"
    BY <1>1 DEF IInv, MeasuredIsAwaited
  <2>2. PICK m2 \in Masters : job[m2] = task[n2] /\ pc[m2] = "recv"
    BY <1>1 DEF IInv, MeasuredIsAwaited
  <2>3. m1 = m2
    BY <1>1, <2>1, <2>2 DEF IInv, OneListener, Serving
  <2>4. QED
    BY <1>1, <2>1, <2>2, <2>3 DEF IInv, TasksOK
<1>2. IInv => SerialMeasurement
  BY <1>1 DEF SerialMeasurement
<1>3. QED
  BY <1>2, MeasurementInvariant, PTL

-----------------------------------------------------------------------------
(* Without faults.  The waits of the master outlast every measurement, so  *)
(* what remains to be shown is that nothing in the protocol itself loses a *)
(* result: not the nodes woken by somebody else's marker, not the order in *)
(* which they connect, not the time-outs of the nodes.  One thing does: a  *)
(* marker that grew too old to wake the target before the ports were free. *)

Answers == {"done", "error", "nomachines"}

\* A master that receives has its target at work, one that polls has its
\* answer; markers say what the nodes measured, outcomes what markers say.
Heard ==
  /\ \A m \in Masters : pc[m] = "recv" => OnTheJob(m)
  /\ \A m \in Masters : pc[m] = "poll" => marker[job[m]] \in Answers
  /\ \A e \in Executions :
       marker[e] \in {"done", "error"} =>
         verdict[e] # "none" /\ marker[e] = MarkerOf(verdict[e])
  /\ \A e \in Executions :
       outcome[e] # "none" =>
         marker[e] \in Answers /\ outcome[e] = OutcomeOf(marker[e])

\* The steps that are left, by what they do to the work of the nodes.
Dismiss(n) ==
  /\ Refuse(n)
  /\ at[n] \in {"hello", "reporting"}
  /\ ~(at[n] = "reporting" /\ Expected(n))

\* m gives up an execution whose marker is too old to wake its target.
GiveUpOld(m) ==
  /\ pc[m] = "send" /\ job[m] \in aged
  /\ Mark(job[m], "nomachines") /\ Close(m)
  /\ UNCHANGED <<target, outcome, verdict>>

LEMMA FaultFreeKinds ==
  ASSUME Faults = {}, IInv, Heard, [Next]_vars
  PROVE  \/ \E m \in Masters, e \in Executions, n \in Nodes : Serve(m, e, n)
         \/ \E m \in Masters : Bind(m) \/ LoadSource(m) \/ Conclude(m) \/ GiveUpOld(m)
         \/ \E m \in Masters, n \in Nodes : Deliver(m, n) \/ Receive(m, n)
         \/ \E n \in Nodes : Dismiss(n) \/ Approach(n) \/ Report(n)
         \/ \E e \in Executions : Ages(e)
         \/ UNCHANGED vars
<1>1. ASSUME NEW m \in Masters PROVE ~PollTimeout(m) /\ ~RecvTimeout(m)
  BY DEF PollTimeout, RecvTimeout, Pending, Heard, Overdue, Answers
<1>2. ASSUME NEW m \in Masters, NEW n \in Nodes, Exchange(m, n)
      PROVE  Deliver(m, n) \/ Receive(m, n) \/ Dismiss(n)
  <2>1. CASE TurnAway(m, n)
    BY <2>1 DEF TurnAway, Dismiss
  <2>2. CASE RejectReport(m, n)
    <3>1. pc[m] = "recv" /\ ~IsTarget(m, n) /\ at[n] = "reporting" /\ Refuse(n)
      BY <2>2 DEF RejectReport
    <3>2. \A k \in Masters : pc[k] = "recv" => k = m
      BY <3>1 DEF IInv, OneListener, Serving
    <3>3. QED
      BY <3>1, <3>2 DEF Dismiss, Expected
  <2>3. QED
    BY <1>2, <2>1, <2>2 DEF Exchange, TurnAwayFails, DeliverInVain
<1>3. ASSUME NEW m \in Masters, Master(m),
             ~ \E e \in Executions, n \in Nodes : Serve(m, e, n)
      PROVE  \/ Bind(m) \/ LoadSource(m) \/ Conclude(m) \/ GiveUpOld(m)
             \/ \E n \in Nodes : Deliver(m, n) \/ Receive(m, n) \/ Dismiss(n)
  <2>1. CASE SendTimeout(m)
    <3>1. pc[m] = "send" /\ Missed(m) /\ NoMachines(m)
      BY <2>1 DEF SendTimeout
    <3>2. job[m] \in Executions /\ Pending(job[m])
      BY <3>1, JobIsExecution DEF IInv, JobsOK, Serving, Pending
    <3>3. job[m] \in aged
      BY <3>1, <3>2 DEF Missed, Recent
    <3>4. QED
      BY <3>1, <3>3 DEF GiveUpOld, NoMachines
  <2>2. QED
    BY <1>1, <1>2, <1>3, <2>1 DEF Master, SourceFails, Timeout, RecvFails, Crash
<1>4. ASSUME NEW n \in Nodes, Node(n)
      PROVE  Dismiss(n) \/ Approach(n) \/ Report(n)
  BY <1>4 DEF Node, Wake, Connect, HelloTimeout, ReportTimeout, NodeFails, Approach,
              Dismiss
<1>5. QED
  BY <1>3, <1>4 DEF Next

\* Work in hand stays in hand.
LEMMA WorkStays ==
  ASSUME TypeOK, NEW m \in Masters, OnTheJob(m), UNCHANGED <<job, target, task>>
  PROVE  OnTheJob(m)'
BY DEF OnTheJob, IsTarget

LEMMA HeardStep ==
  ASSUME Faults = {}, IInv, Heard, [Next]_vars
  PROVE  Heard'
<1> USE NoExecutionAssumption DEF IInv, TypeOK
<1>1. ASSUME NEW m \in Masters, NEW e \in Executions, NEW n \in Nodes, Serve(m, e, n)
      PROVE  Heard'
  <2>1. /\ marker[e] = "none" /\ marker' = [marker EXCEPT ![e] = "queued"]
        /\ target' = [target EXCEPT ![e] = n]
        /\ UNCHANGED <<outcome, task, verdict>>
    BY <1>1 DEF Serve, nodes
  <2>2. \A k \in Masters : pc'[k] \in {"recv", "poll"} =>
                             pc'[k] = pc[k] /\ job'[k] = job[k]
    BY <1>1 DEF Serve, Goto, master
  <2>3. \A k \in Masters : pc[k] \in {"recv", "poll"} => job[k] \in Executions \ {e}
    BY <2>1, JobIsExecution DEF JobsOK
  <2>4. ASSUME NEW k \in Masters, pc'[k] = "recv" PROVE OnTheJob(k)'
    <3>1. pc[k] = "recv" /\ job'[k] = job[k] /\ target'[job[k]] = target[job[k]]
      BY <2>1, <2>2, <2>3, <2>4
    <3>2. QED
      BY <2>1, <3>1 DEF Heard, OnTheJob, IsTarget
  <2>5. outcome[e] = "none"
    BY <2>1 DEF UndeliveredOK
  <2>6. QED
    BY <2>1, <2>2, <2>3, <2>4, <2>5 DEF Heard
<1>2. ASSUME NEW m \in Masters, Bind(m) \/ LoadSource(m)
      PROVE  Heard'
  <2>1. \A k \in Masters : pc'[k] \in {"recv", "poll"} => pc'[k] = pc[k]
    BY <1>2 DEF Bind, LoadSource, Goto
  <2>2. UNCHANGED <<job, target, task, marker, outcome, verdict>>
    BY <1>2 DEF Bind, LoadSource, nodes
  <2>3. QED
    BY <2>1, <2>2, WorkStays DEF Heard
<1>3. ASSUME NEW m \in Masters, Conclude(m)
      PROVE  Heard'
  <2>1. pc[m] = "poll" /\ job[m] \in Executions
    BY <1>3, JobIsExecution DEF Conclude
  <2>2. /\ outcome' = [outcome EXCEPT ![job[m]] = OutcomeOf(marker[job[m]])]
        /\ pc' = [pc EXCEPT ![m] = "idle"]
        /\ job' = [job EXCEPT ![m] = NoExecution]
        /\ UNCHANGED <<target, task, marker, verdict>>
    BY <1>3 DEF Conclude, Finish, Goto, nodes
  <2>3. ASSUME NEW k \in Masters, pc'[k] = "recv" PROVE OnTheJob(k)'
    <3>1. k # m /\ pc[k] = "recv" /\ job'[k] = job[k]
      BY <2>2, <2>3
    <3>2. QED
      BY <2>2, <3>1 DEF Heard, OnTheJob, IsTarget
  <2>4. QED
    BY <2>1, <2>2, <2>3 DEF Heard
<1>4. ASSUME NEW m \in Masters, NEW n \in Nodes, Deliver(m, n)
      PROVE  Heard'
  <2>1. /\ pc' = [pc EXCEPT ![m] = "recv"] /\ task' = [task EXCEPT ![n] = job[m]]
        /\ pc[m] = "send" /\ at[n] = "hello" /\ IsTarget(m, n)
        /\ UNCHANGED <<job, target, marker, outcome, verdict>>
    BY <1>4 DEF Deliver, Goto
  <2>2. OnTheJob(m)'
    BY <2>1 DEF OnTheJob, IsTarget
  <2>3. \A k \in Masters : pc[k] = "recv" => k = m
    BY <2>1 DEF OneListener, Serving
  <2>4. QED
    BY <2>1, <2>2, <2>3 DEF Heard
<1>5. ASSUME NEW m \in Masters, NEW n \in Nodes, Receive(m, n)
      PROVE  Heard'
  <2>1. task[n] = job[m] /\ job[m] \in Executions
    BY <1>5, ReceivedIsOwn
  <2>2. /\ marker' = [marker EXCEPT ![job[m]] = MarkerOf(verdict[job[m]])]
        /\ pc' = [pc EXCEPT ![m] = "poll"] /\ pc[m] = "recv"
        /\ UNCHANGED <<job, target, outcome, verdict>>
    BY <1>5, <2>1 DEF Receive, Close, Goto
  <2>3. verdict[job[m]] # "none"
    BY <1>5, <2>1 DEF Receive, TasksOK
  <2>4. MarkerOf(verdict[job[m]]) \in {"done", "error"}
    BY DEF MarkerOf
  <2>5. \A k \in Masters : pc'[k] # "recv"
    BY <2>2 DEF OneListener, Serving
  <2>6. outcome[job[m]] = "none"
    BY <2>2 DEF JobsOK
  <2>7. QED
    BY <2>1, <2>2, <2>3, <2>4, <2>5, <2>6 DEF Heard, Answers
<1>6. ASSUME NEW n \in Nodes, Dismiss(n)
      PROVE  Heard'
  <2>1. UNCHANGED <<pc, job, target, marker, outcome, verdict>>
    BY <1>6 DEF Dismiss, Refuse, master
  <2>2. \A k \in Nodes : k # n => task'[k] = task[k]
    BY <1>6 DEF Dismiss, Refuse, Return
  <2>3. ASSUME NEW m \in Masters, pc[m] = "recv" PROVE OnTheJob(m)'
    <3>1. PICK k \in Nodes : IsTarget(m, k) /\ task[k] = job[m]
      BY <2>3 DEF Heard, OnTheJob
    <3>2. at[k] \in {"measuring", "reporting"}
      BY <2>3, <3>1 DEF JobsOK, TasksOK
    <3>3. k # n
      BY <1>6, <2>3, <3>1, <3>2 DEF Dismiss, Expected
    <3>4. QED
      BY <2>1, <2>2, <3>1, <3>3 DEF OnTheJob, IsTarget
  <2>4. QED
    BY <2>1, <2>3 DEF Heard
<1>7. ASSUME NEW n \in Nodes, Approach(n)
      PROVE  Heard'
  BY <1>7, WorkStays DEF Approach, Move, master, Heard
<1>8. ASSUME NEW n \in Nodes, Report(n)
      PROVE  Heard'
  <2>1. /\ task[n] \in Executions /\ verdict[task[n]] = "none"
        /\ \A e \in Executions : e # task[n] => verdict'[e] = verdict[e]
        /\ UNCHANGED <<pc, job, target, marker, outcome>>
    BY <1>8, ReportSteps DEF ReportStep, master
  <2>2. ASSUME NEW m \in Masters, pc[m] = "recv" PROVE OnTheJob(m)'
    <3>1. Listening
      BY <2>2 DEF Listening, Serving
    <3>2. UNCHANGED task
      BY <1>8, <3>1 DEF Report
    <3>3. QED
      BY <2>1, <2>2, <3>2, WorkStays DEF Heard
  <2>3. marker[task[n]] \notin {"done", "error"}
    BY <2>1 DEF Heard
  <2>4. QED
    BY <2>1, <2>2, <2>3 DEF Heard
<1>9. ASSUME NEW m \in Masters, GiveUpOld(m)
      PROVE  Heard'
  <2>1. job[m] \in Executions /\ marker[job[m]] = "queued" /\ outcome[job[m]] = "none"
    BY <1>9, JobIsExecution DEF GiveUpOld, JobsOK, Serving
  <2>2. /\ marker' = [marker EXCEPT ![job[m]] = "nomachines"]
        /\ pc' = [pc EXCEPT ![m] = "poll"] /\ pc[m] = "send"
        /\ UNCHANGED <<job, target, outcome, verdict>>
    BY <1>9 DEF GiveUpOld, Close, Goto
  <2>3. \A k \in Masters : pc'[k] # "recv"
    BY <2>2 DEF OneListener, Serving
  <2>4. QED
    BY <2>1, <2>2, <2>3 DEF Heard, Answers
<1>10. CASE (\E e \in Executions : Ages(e)) \/ UNCHANGED vars
  <2>1. UNCHANGED <<pc, job, target, marker, outcome, task, verdict>>
    BY <1>10 DEF Ages, vars
  <2>2. QED
    BY <2>1, WorkStays DEF Heard
<1>11. QED
  BY <1>1, <1>2, <1>3, <1>4, <1>5, <1>6, <1>7, <1>8, <1>9, <1>10, FaultFreeKinds

\* An execution that has an outcome has the one its own node measured, or was
\* given up before its program was sent.
VerdictIsHeard ==
  \A e \in Executions :
    outcome[e] # "none" =>
      Measured(e) \/ (marker[e] = "nomachines" /\ outcome[e] = "FAILED")

\* Only an execution whose marker is too old is given up.
GivesUpOld ==
  [][\A e \in Executions :
       marker[e] # "nomachines" /\ marker'[e] = "nomachines" => e \in aged]_vars

\* One dispatcher alone never finds the ports taken, so it sends a program
\* while the marker is recent.
Fresh ==
  /\ \A m \in Masters : pc[m] \in {"bind", "open", "send"} => job[m] \notin aged
  /\ \A e \in Executions : marker[e] # "nomachines"

LEMMA OldStep ==
  ASSUME Faults = {}, IInv, Heard, [Next]_vars, NEW e \in Executions,
         marker[e] # "nomachines", marker'[e] = "nomachines"
  PROVE  \E m \in Masters : job[m] = e /\ GiveUpOld(m)
<1> USE DEF IInv, TypeOK
<1>1. ASSUME NEW m \in Masters, NEW n \in Nodes, Receive(m, n) PROVE FALSE
  <2>1. task[n] \in Executions /\ MarkerOf(verdict[task[n]]) # "nomachines"
    BY <1>1, ReceivedIsOwn DEF MarkerOf
  <2>2. QED
    BY <1>1, <2>1 DEF Receive
<1>2. ASSUME NEW m \in Masters, GiveUpOld(m) PROVE job[m] = e
  BY <1>2 DEF GiveUpOld
<1>3. ASSUME NEW m \in Masters, Bind(m) \/ LoadSource(m) \/ Conclude(m) PROVE FALSE
  BY <1>3 DEF Bind, LoadSource, Conclude
<1>4. ASSUME NEW m \in Masters, NEW d \in Executions, NEW n \in Nodes, Serve(m, d, n)
      PROVE  FALSE
  BY <1>4 DEF Serve
<1>5. ASSUME NEW m \in Masters, NEW n \in Nodes, Deliver(m, n) PROVE FALSE
  BY <1>5 DEF Deliver
<1>6. ASSUME NEW n \in Nodes, Dismiss(n) \/ Approach(n) \/ Report(n) PROVE FALSE
  BY <1>6 DEF Dismiss, Refuse, Approach, Move, Report
<1>7. CASE (\E d \in Executions : Ages(d)) \/ UNCHANGED vars
  BY <1>7 DEF Ages, vars
<1>8. QED
  BY <1>1, <1>2, <1>3, <1>4, <1>5, <1>6, <1>7, FaultFreeKinds

LEMMA FreshStep ==
  ASSUME Faults = {}, \A m1, m2 \in Masters : m1 = m2, IInv, Heard, Fresh, [Next]_vars
  PROVE  Fresh'
<1> USE DEF IInv, TypeOK
<1>1. ASSUME NEW e \in Executions PROVE marker'[e] # "nomachines"
  BY OldStep DEF Fresh, GiveUpOld
<1>2. ASSUME NEW m \in Masters, pc'[m] \in {"bind", "open", "send"}
      PROVE  job'[m] \notin aged'
  <2>1. ASSUME NEW e \in Executions, NEW n \in Nodes, Serve(m, e, n)
        PROVE  job'[m] \notin aged'
    BY <1>2, <2>1 DEF Serve, Goto
  <2>2. ASSUME Bind(m) \/ LoadSource(m) PROVE job'[m] \notin aged'
    BY <2>2 DEF Bind, LoadSource, Fresh
  <2>3. ASSUME NEW n \in Nodes, Conclude(m) \/ GiveUpOld(m) \/ Deliver(m, n) \/ Receive(m, n)
        PROVE  FALSE
    BY <1>2, <2>3 DEF Conclude, Finish, GiveUpOld, Deliver, Receive, Close, Goto
  <2>4. ASSUME NEW n \in Nodes, Dismiss(n) \/ Approach(n) \/ Report(n)
        PROVE  job'[m] \notin aged'
    BY <1>2, <2>4 DEF Dismiss, Refuse, Approach, Move, Report, Fresh
  <2>5. ASSUME NEW e \in Executions, Ages(e) PROVE job'[m] \notin aged'
    <3>1. ~(pc[m] = "bind" /\ Listening)
      BY DEF Listening, Serving
    <3>2. job[m] # e /\ aged' = aged \cup {e} /\ UNCHANGED <<pc, job>>
      BY <1>2, <2>5, <3>1 DEF Ages
    <3>3. QED
      BY <1>2, <3>2 DEF Fresh
  <2>6. CASE UNCHANGED vars
    BY <1>2, <2>6 DEF vars, Fresh
  <2>7. ASSUME Conclude(m) \/ GiveUpOld(m) PROVE FALSE
    BY <1>2, <2>7 DEF Conclude, Finish, GiveUpOld, Close, Goto
  <2>8. QED
    BY <2>1, <2>2, <2>3, <2>4, <2>5, <2>6, <2>7, FaultFreeKinds
<1>3. QED
  BY <1>1, <1>2 DEF Fresh

(* Without faults no outcome is made up: however many dispatchers, nodes   *)
(* and executions there are, FAILED means that the measurement failed, or  *)
(* that the program was never sent, because the queued marker had grown    *)
(* too old to wake the target while its dispatcher waited for the ports.   *)
THEOREM OutcomesAreMeasured ==
  ASSUME Faults = {}
  PROVE  Spec => []VerdictIsHeard /\ GivesUpOld
<1>1. Init => Heard
  BY DEF Init, Heard
<1>2. IInv /\ Heard /\ [Next]_vars => Heard'
  BY HeardStep
<1>3. Heard => VerdictIsHeard
  BY DEF Heard, Answers, OutcomeOf, VerdictIsHeard, Measured
<1>4. IInv /\ Heard /\ [Next]_vars =>
        [\A e \in Executions :
           marker[e] # "nomachines" /\ marker'[e] = "nomachines" => e \in aged]_vars
  BY OldStep DEF GiveUpOld
<1>5. QED
  BY <1>1, <1>2, <1>3, <1>4, MeasurementInvariant, PTL DEF Spec, GivesUpOld

(* One dispatcher alone, without faults, gives every execution the outcome *)
(* that its own node measured.                                             *)
THEOREM OneDispatcherMeasures ==
  ASSUME Faults = {}, \A m1, m2 \in Masters : m1 = m2
  PROVE  Spec => [](\A e \in Executions : outcome[e] # "none" => Measured(e))
<1>1. Init => Heard /\ Fresh
  BY DEF Init, Heard, Fresh
<1>2. IInv /\ Heard /\ Fresh /\ [Next]_vars => Heard' /\ Fresh'
  BY HeardStep, FreshStep
<1>3. Heard /\ Fresh => \A e \in Executions : outcome[e] # "none" => Measured(e)
  BY DEF Heard, Fresh, Answers, Measured
<1>4. QED
  BY <1>1, <1>2, <1>3, MeasurementInvariant, PTL DEF Spec
=============================================================================
