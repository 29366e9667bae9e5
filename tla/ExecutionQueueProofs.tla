----------------------- MODULE ExecutionQueueProofs ------------------------
(***************************************************************************)
(* Proofs about ExecutionQueue, for every set of executions, submissions,  *)
(* dispatchers and cancellation requests and for every set of faults.      *)
(*                                                                         *)
(* RowShape is the pivot: every step changes the executions table by one   *)
(* allowed transition of one row, or by the commit of a bundle, or not at  *)
(* all.  The lemmas about rows follow from that shape; the lemmas about    *)
(* dispatchers, heartbeat threads and reports go through the actions.      *)
(***************************************************************************)
EXTENDS ExecutionQueue, TLAPS

USE DEF rows, dispatcher, intakes

LEMMA SetStateType ==
  ASSUME RowsOK, NEW e \in Executions, NEW to \in States, SetState(e, to)
  PROVE  /\ state' \in [Executions -> RowStates]
         /\ version' \in [Executions -> Nat]
         /\ result' \in [Executions -> BOOLEAN]
         /\ started' \in [Executions -> BOOLEAN]
BY DEF RowsOK, SetState, ResultAfter, RowStates

LEMMA StopLeaseType ==
  ASSUME DispatchersOK, NEW d \in Dispatchers, StopLease(d)
  PROVE  lease' \in [Dispatchers -> SUBSET Executions]
BY DEF DispatchersOK, StopLease

LEMMA RowOfType ==
  ASSUME RowsOK, NEW e \in Executions
  PROVE  RowOf(e) \in Snapshot
BY DEF RowsOK, RowOf, Snapshot

LEMMA RaiseType ==
  ASSUME DispatchersOK, NEW d \in Dispatchers, Raise(d)
  PROVE  /\ pc' \in [Dispatchers -> Locations]
         /\ cur' \in [Dispatchers -> Executions \cup {NoExecution}]
         /\ pending' \in [Dispatchers -> Pendings]
         /\ seen' \in [Dispatchers -> Snapshot]
         /\ lease' \in [Dispatchers -> SUBSET Executions]
<1>1. NoRow \in Snapshot
  BY DEF NoRow, Snapshot, RowStates
<1>2. lease' \in [Dispatchers -> SUBSET Executions]
  BY StopLeaseType DEF Raise, DispatchersOK
<1>3. QED
  BY <1>1, <1>2 DEF Raise, EndCycle, Goto, DispatchersOK, Locations, Pendings

LEMMA TransitionTarget ==
  ASSUME NEW from \in RowStates, NEW to, CanTransition(from, to)
  PROVE  to \in States
BY DEF CanTransition, AllowedTransitions, States

LEMMA EndCycleType ==
  ASSUME DispatchersOK, NEW d \in Dispatchers, EndCycle(d)
  PROVE  /\ pc' \in [Dispatchers -> Locations]
         /\ cur' \in [Dispatchers -> Executions \cup {NoExecution}]
         /\ pending' \in [Dispatchers -> Pendings]
         /\ seen' \in [Dispatchers -> Snapshot]
<1>1. NoRow \in Snapshot
  BY DEF NoRow, Snapshot, RowStates
<1>2. QED
  BY <1>1 DEF EndCycle, Goto, DispatchersOK, Locations, Pendings

-----------------------------------------------------------------------------
(* Type correctness.                                                       *)

LEMMA CurrentIsExecution ==
  ASSUME DispatchersOK, ControlOK, NEW d \in Dispatchers, pc[d] \notin {"off", "idle"}
  PROVE  cur[d] \in Executions
BY DEF DispatchersOK, ControlOK

LEMMA PendingIsState ==
  ASSUME DispatchersOK, ControlOK, NEW d \in Dispatchers, pc[d] \in {"write", "failwrite"}
  PROVE  pending[d] \in States
BY TransitionTarget DEF DispatchersOK, ControlOK, Snapshot

LEMMA VerdictIsStatus ==
  ASSUME ControlOK, NEW d \in Dispatchers, pc[d] = "syncwrite"
  PROVE  pending[d] \in Statuses
BY DEF ControlOK, Statuses

LEMMA TypeStep == TypeOK /\ ControlOK /\ [Next]_vars => TypeOK'
<1> SUFFICES ASSUME TypeOK, ControlOK, [Next]_vars PROVE TypeOK'
  OBVIOUS
<1> USE ExecutionsAssumption, SubmissionOfAssumption, DispatchersAssumption
<1> USE DEF TypeOK
<1>1. ASSUME NEW s \in Submissions, CreateBundle(s) PROVE TypeOK'
  <2>1. RowsOK'
    BY <1>1 DEF CreateBundle, RowsOK, RowStates, States, Statuses
  <2>2. DispatchersOK'
    BY <1>1 DEF CreateBundle, DispatchersOK
  <2>3. OthersOK'
    BY <1>1 DEF CreateBundle, OthersOK, IntakeSteps
  <2>4. QED
    BY <2>1, <2>2, <2>3
<1>2. ASSUME NEW s \in Submissions, IntakeDone(s) PROVE TypeOK'
  <2>1. RowsOK'
    BY <1>2 DEF IntakeDone, RowsOK
  <2>2. DispatchersOK'
    BY <1>2 DEF IntakeDone, DispatchersOK
  <2>3. OthersOK'
    BY <1>2 DEF IntakeDone, OthersOK, IntakeSteps
  <2>4. QED
    BY <2>1, <2>2, <2>3
<1>3. ASSUME NEW s \in Submissions, IntakeFails(s) PROVE TypeOK'
  <2>1. RowsOK'
    BY <1>3 DEF IntakeFails, RowsOK
  <2>2. DispatchersOK'
    BY <1>3 DEF IntakeFails, DispatchersOK
  <2>3. OthersOK'
    BY <1>3 DEF IntakeFails, OthersOK, IntakeSteps, Bundle
  <2>4. QED
    BY <2>1, <2>2, <2>3
<1>4. ASSUME NEW s \in Submissions, IntakeRead(s) PROVE TypeOK'
  <2>1. RowsOK'
    BY <1>4 DEF IntakeRead, RowsOK
  <2>2. DispatchersOK'
    BY <1>4 DEF IntakeRead, DispatchersOK
  <2>3. OthersOK'
    BY <1>4, RowOfType DEF IntakeRead, OthersOK, IntakeSteps
  <2>4. QED
    BY <2>1, <2>2, <2>3
<1>5. ASSUME NEW s \in Submissions, IntakeMark(s) PROVE TypeOK'
  <2>1. RowsOK'
    BY <1>5, SetStateType DEF IntakeMark, RowsOK, OthersOK, States
  <2>2. DispatchersOK'
    BY <1>5 DEF IntakeMark, DispatchersOK
  <2>3. OthersOK'
    BY <1>5 DEF IntakeMark, OthersOK, IntakeSteps, NoRow, Snapshot, RowStates
  <2>4. QED
    BY <2>1, <2>2, <2>3
<1>6. ASSUME NEW s \in Submissions, IntakeReport(s) PROVE TypeOK'
  <2>1. RowsOK'
    BY <1>6 DEF IntakeReport, RowsOK, Statuses
  <2>2. DispatchersOK'
    BY <1>6 DEF IntakeReport, DispatchersOK
  <2>3. OthersOK'
    BY <1>6 DEF IntakeReport, OthersOK, IntakeSteps
  <2>4. QED
    BY <2>1, <2>2, <2>3
<1>7. ASSUME NEW s \in Submissions, IntakeCrash(s) PROVE TypeOK'
  <2>1. RowsOK'
    BY <1>7 DEF IntakeCrash, RowsOK
  <2>2. DispatchersOK'
    BY <1>7 DEF IntakeCrash, DispatchersOK
  <2>3. OthersOK'
    BY <1>7 DEF IntakeCrash, OthersOK, IntakeSteps, NoRow, Snapshot, RowStates
  <2>4. QED
    BY <2>1, <2>2, <2>3
<1>8. ASSUME NEW d \in Dispatchers, Start(d) PROVE TypeOK'
  <2>1. RowsOK'
    BY <1>8 DEF Start, RowsOK
  <2>2. DispatchersOK'
    BY <1>8 DEF Start, Goto, DispatchersOK, Locations, Pendings, NoExecution
  <2>3. OthersOK'
    BY <1>8 DEF Start, OthersOK
  <2>4. QED
    BY <2>1, <2>2, <2>3
<1>9. ASSUME NEW d \in Dispatchers, Stop(d) PROVE TypeOK'
  <2>1. RowsOK'
    BY <1>9 DEF Stop, RowsOK
  <2>2. DispatchersOK'
    BY <1>9 DEF Stop, Goto, ReleaseLock, DispatchersOK, Locations, Pendings, NoExecution
  <2>3. OthersOK'
    BY <1>9 DEF Stop, OthersOK
  <2>4. QED
    BY <2>1, <2>2, <2>3
<1>10. ASSUME NEW d \in Dispatchers, Crash(d) PROVE TypeOK'
  <2>1. RowsOK'
    BY <1>10 DEF Crash, RowsOK
  <2>2. DispatchersOK'
    BY <1>10
       DEF Crash, Goto, ReleaseLock, NoRow, Snapshot, RowStates, DispatchersOK,
           Locations, Pendings, NoExecution
  <2>3. OthersOK'
    BY <1>10 DEF Crash, OthersOK
  <2>4. QED
    BY <2>1, <2>2, <2>3
<1>11. ASSUME NEW d \in Dispatchers, ClaimHead(d) PROVE TypeOK'
  <2>1. RowsOK'
    BY <1>11 DEF ClaimHead, RowsOK
  <2>2. DispatchersOK'
    BY <1>11 DEF ClaimHead, Goto, DispatchersOK, Locations, Pendings, NoExecution
  <2>3. OthersOK'
    BY <1>11 DEF ClaimHead, OthersOK
  <2>4. QED
    BY <2>1, <2>2, <2>3
<1>12. ASSUME NEW d \in Dispatchers, ClaimCommit(d) \/ ClaimReplyLost(d) PROVE TypeOK'
  <2>1. RowsOK'
    BY <1>12, SetStateType, CurrentIsExecution
       DEF ClaimCommit, ClaimReplyLost, RowsOK, States
  <2>2. DispatchersOK'
    BY <1>12, EndCycleType
       DEF ClaimCommit, ClaimReplyLost, DispatchersOK, Goto, Locations
  <2>3. OthersOK'
    BY <1>12 DEF ClaimCommit, ClaimReplyLost, OthersOK
  <2>4. QED
    BY <2>1, <2>2, <2>3
<1>12a. ASSUME NEW d \in Dispatchers, GiveBack(d) PROVE TypeOK'
  <2>1. RowsOK'
    BY <1>12a DEF GiveBack, RowsOK
  <2>2. DispatchersOK'
    BY <1>12a, EndCycleType DEF GiveBack, DispatchersOK
  <2>3. OthersOK'
    BY <1>12a DEF GiveBack, OthersOK
  <2>4. QED
    BY <2>1, <2>2, <2>3
<1>13. ASSUME NEW d \in Dispatchers, Activate(d) PROVE TypeOK'
  <2>1. RowsOK'
    BY <1>13 DEF Activate, RowsOK, DispatchersOK
  <2>2. DispatchersOK'
    <3>1. cur[d] \in Executions
      BY <1>13, CurrentIsExecution DEF Activate
    <3>2. lease' \in [Dispatchers -> SUBSET Executions]
      BY <1>13, <3>1 DEF Activate, DispatchersOK
    <3>3. QED
      BY <1>13, <3>2 DEF Activate, Goto, DispatchersOK, Locations
  <2>3. OthersOK'
    BY <1>13 DEF Activate, OthersOK
  <2>4. QED
    BY <2>1, <2>2, <2>3
<1>14. ASSUME NEW d \in Dispatchers, PrepareFails(d) PROVE TypeOK'
  <2>1. RowsOK'
    BY <1>14 DEF PrepareFails, RowsOK
  <2>2. DispatchersOK'
    BY <1>14 DEF PrepareFails, Goto, DispatchersOK, Locations, Pendings, NoExecution
  <2>3. OthersOK'
    BY <1>14 DEF PrepareFails, OthersOK
  <2>4. QED
    BY <2>1, <2>2, <2>3
<1>15. ASSUME NEW d \in Dispatchers, MeasurementEnds(d) PROVE TypeOK'
  <2>1. RowsOK'
    BY <1>15 DEF MeasurementEnds, Proceed, RowsOK
  <2>2. DispatchersOK'
    BY <1>15
       DEF MeasurementEnds, Proceed, Goto, DispatchersOK, Locations, Pendings,
           NoExecution
  <2>3. OthersOK'
    BY <1>15 DEF MeasurementEnds, Proceed, OthersOK
  <2>4. QED
    BY <2>1, <2>2, <2>3
<1>16. ASSUME NEW d \in Dispatchers, NoOutcome(d) PROVE TypeOK'
  <2>1. RowsOK'
    BY <1>16 DEF NoOutcome, Proceed, RowsOK
  <2>2. DispatchersOK'
    BY <1>16
       DEF NoOutcome, Proceed, Goto, DispatchersOK, Locations, Pendings,
           NoExecution
  <2>3. OthersOK'
    BY <1>16 DEF NoOutcome, Proceed, OthersOK
  <2>4. QED
    BY <2>1, <2>2, <2>3
<1>17. ASSUME NEW d \in Dispatchers, PostProcess(d) PROVE TypeOK'
  <2>1. RowsOK'
    BY <1>17 DEF PostProcess, Proceed, RowsOK
  <2>2. DispatchersOK'
    BY <1>17
       DEF PostProcess, Proceed, Goto, DispatchersOK, Locations, Pendings,
           NoExecution
  <2>3. OthersOK'
    BY <1>17 DEF PostProcess, Proceed, OthersOK
  <2>4. QED
    BY <2>1, <2>2, <2>3
<1>18. ASSUME NEW d \in Dispatchers, ReadRow(d) PROVE TypeOK'
  <2>1. RowsOK'
    BY <1>18 DEF ReadRow, RowsOK
  <2>2. DispatchersOK'
    <3>1. cur[d] \in Executions
      BY <1>18, CurrentIsExecution DEF ReadRow
    <3>2. CASE Raise(d)
      BY <1>18, <3>2, RaiseType DEF ReadRow, DispatchersOK
    <3>3. CASE ~Raise(d)
      <4>1. seen' \in [Dispatchers -> Snapshot]
        BY <1>18, <3>1, <3>3, RowOfType DEF ReadRow, DispatchersOK
      <4>2. pc' \in [Dispatchers -> Locations]
        BY <1>18, <3>3 DEF ReadRow, Goto, DispatchersOK, Locations
      <4>3. QED
        BY <1>18, <3>3, <4>1, <4>2 DEF ReadRow, DispatchersOK
    <3>4. QED
      BY <3>2, <3>3
  <2>3. OthersOK'
    BY <1>18 DEF ReadRow, OthersOK
  <2>4. QED
    BY <2>1, <2>2, <2>3
<1>19. ASSUME NEW d \in Dispatchers, UpdateRow(d) PROVE TypeOK'
  <2>1. RowsOK'
    BY <1>19, SetStateType, CurrentIsExecution, PendingIsState DEF UpdateRow, RowsOK
  <2>2. DispatchersOK'
    BY <1>19, StopLeaseType
       DEF UpdateRow, Goto, NoRow, Snapshot, RowStates, DispatchersOK, Locations,
           Pendings
  <2>3. OthersOK'
    BY <1>19 DEF UpdateRow, OthersOK
  <2>4. QED
    BY <2>1, <2>2, <2>3
<1>20. ASSUME NEW d \in Dispatchers, UpdateRefused(d) PROVE TypeOK'
  <2>1. RowsOK'
    BY <1>20 DEF UpdateRefused, RowsOK
  <2>2. DispatchersOK'
    BY <1>20, RaiseType DEF UpdateRefused, DispatchersOK
  <2>3. OthersOK'
    BY <1>20 DEF UpdateRefused, OthersOK
  <2>4. QED
    BY <2>1, <2>2, <2>3
<1>21. ASSUME NEW d \in Dispatchers, UpdateReplyLost(d) PROVE TypeOK'
  <2>1. RowsOK'
    BY <1>21, SetStateType, CurrentIsExecution, PendingIsState
       DEF UpdateReplyLost, RowsOK
  <2>2. DispatchersOK'
    BY <1>21, RaiseType DEF UpdateReplyLost, DispatchersOK
  <2>3. OthersOK'
    BY <1>21 DEF UpdateReplyLost, OthersOK
  <2>4. QED
    BY <2>1, <2>2, <2>3
<1>22. ASSUME NEW d \in Dispatchers, CallFails(d) PROVE TypeOK'
  <2>1. RowsOK'
    BY <1>22 DEF CallFails, RowsOK
  <2>2. DispatchersOK'
    BY <1>22, RaiseType DEF CallFails, Goto, DispatchersOK, Locations, Pendings
  <2>3. OthersOK'
    BY <1>22 DEF CallFails, OthersOK
  <2>4. QED
    BY <2>1, <2>2, <2>3
<1>23. ASSUME NEW d \in Dispatchers, HandleInactive(d) PROVE TypeOK'
  <2>1. RowsOK'
    BY <1>23 DEF HandleInactive, RowsOK
  <2>2. DispatchersOK'
    BY <1>23, StopLeaseType DEF HandleInactive, Goto, DispatchersOK, Locations
  <2>3. OthersOK'
    BY <1>23 DEF HandleInactive, OthersOK
  <2>4. QED
    BY <2>1, <2>2, <2>3
<1>24. ASSUME NEW d \in Dispatchers, HandleActive(d) PROVE TypeOK'
  <2>1. RowsOK'
    BY <1>24 DEF HandleActive, Proceed, RowsOK
  <2>2. DispatchersOK'
    BY <1>24
       DEF HandleActive, Proceed, Goto, DispatchersOK, Locations, Pendings,
           NoExecution
  <2>3. OthersOK'
    BY <1>24 DEF HandleActive, Proceed, OthersOK
  <2>4. QED
    BY <2>1, <2>2, <2>3
<1>25. ASSUME NEW d \in Dispatchers, SyncRead(d) PROVE TypeOK'
  <2>1. RowsOK'
    BY <1>25 DEF SyncRead, RowsOK
  <2>2. DispatchersOK'
    BY <1>25, EndCycleType
       DEF SyncRead, Goto, LegacyStatus, DispatchersOK, Locations, Pendings
  <2>3. OthersOK'
    BY <1>25 DEF SyncRead, OthersOK
  <2>4. QED
    BY <2>1, <2>2, <2>3
<1>26. ASSUME NEW d \in Dispatchers, SyncWrite(d) PROVE TypeOK'
  <2>1. RowsOK'
    BY <1>26, VerdictIsStatus, CurrentIsExecution DEF SyncWrite, RowsOK
  <2>2. DispatchersOK'
    BY <1>26, EndCycleType DEF SyncWrite, DispatchersOK
  <2>3. OthersOK'
    BY <1>26 DEF SyncWrite, OthersOK
  <2>4. QED
    BY <2>1, <2>2, <2>3
<1>27. ASSUME NEW d \in Dispatchers, SyncFails(d) PROVE TypeOK'
  <2>1. RowsOK'
    BY <1>27 DEF SyncFails, RowsOK
  <2>2. DispatchersOK'
    BY <1>27, EndCycleType DEF SyncFails, DispatchersOK
  <2>3. OthersOK'
    BY <1>27 DEF SyncFails, OthersOK
  <2>4. QED
    BY <2>1, <2>2, <2>3
<1>28. CASE DropSession
  <2>1. RowsOK'
    BY <1>28 DEF DropSession, RowsOK
  <2>2. DispatchersOK'
    BY <1>28 DEF DropSession, DispatchersOK
  <2>3. OthersOK'
    BY <1>28 DEF DropSession, OthersOK
  <2>4. QED
    BY <2>1, <2>2, <2>3
<1>29. ASSUME NEW d \in Dispatchers, NEW e \in Executions, Beat(d, e) PROVE TypeOK'
  <2>1. RowsOK'
    BY <1>29 DEF Beat, RowsOK
  <2>2. DispatchersOK'
    BY <1>29 DEF Beat, DispatchersOK
  <2>3. OthersOK'
    BY <1>29 DEF Beat, OthersOK
  <2>4. QED
    BY <2>1, <2>2, <2>3
<1>30. ASSUME NEW d \in Dispatchers, NEW e \in Executions, LeaseDies(d, e) PROVE TypeOK'
  <2>1. RowsOK'
    BY <1>30 DEF LeaseDies, RowsOK
  <2>2. DispatchersOK'
    BY <1>30 DEF LeaseDies, DispatchersOK
  <2>3. OthersOK'
    BY <1>30 DEF LeaseDies, OthersOK
  <2>4. QED
    BY <2>1, <2>2, <2>3
<1>31. ASSUME NEW r \in Requests, CancelLock(r) PROVE TypeOK'
  <2>1. RowsOK'
    BY <1>31 DEF CancelLock, RowsOK
  <2>2. DispatchersOK'
    BY <1>31 DEF CancelLock, DispatchersOK
  <2>3. OthersOK'
    BY <1>31 DEF CancelLock, OthersOK
  <2>4. QED
    BY <2>1, <2>2, <2>3
<1>32. ASSUME NEW r \in Requests, CancelCommit(r) PROVE TypeOK'
  <2>1. RowsOK'
    BY <1>32, SetStateType DEF CancelCommit, RowsOK, OthersOK, States
  <2>2. DispatchersOK'
    BY <1>32 DEF CancelCommit, DispatchersOK
  <2>3. OthersOK'
    BY <1>32 DEF CancelCommit, OthersOK, NoRequest
  <2>4. QED
    BY <2>1, <2>2, <2>3
<1>33. ASSUME NEW r \in Requests, CancelRollback(r) PROVE TypeOK'
  <2>1. RowsOK'
    BY <1>33 DEF CancelRollback, RowsOK
  <2>2. DispatchersOK'
    BY <1>33 DEF CancelRollback, DispatchersOK
  <2>3. OthersOK'
    BY <1>33 DEF CancelRollback, OthersOK, NoRequest
  <2>4. QED
    BY <2>1, <2>2, <2>3
<1>34. CASE WatchdogScan
  <2>1. RowsOK'
    BY <1>34 DEF WatchdogScan, RowsOK
  <2>2. DispatchersOK'
    BY <1>34 DEF WatchdogScan, DispatchersOK
  <2>3. OthersOK'
    <3>1. candidates' \subseteq Candidate
      BY <1>34 DEF WatchdogScan, Candidate, Active, RowsOK
    <3>2. QED
      BY <1>34, <3>1 DEF WatchdogScan, OthersOK
  <2>4. QED
    BY <2>1, <2>2, <2>3
<1>35. ASSUME NEW e \in Executions, WatchdogRecover(e) PROVE TypeOK'
  <2>1. RowsOK'
    BY <1>35, SetStateType DEF WatchdogRecover, RowsOK, States
  <2>2. DispatchersOK'
    BY <1>35 DEF WatchdogRecover, DispatchersOK
  <2>3. OthersOK'
    BY <1>35 DEF WatchdogRecover, OthersOK
  <2>4. QED
    BY <2>1, <2>2, <2>3
<1>36. CASE WatchdogAborts
  <2>1. RowsOK'
    BY <1>36 DEF WatchdogAborts, RowsOK
  <2>2. DispatchersOK'
    BY <1>36 DEF WatchdogAborts, DispatchersOK
  <2>3. OthersOK'
    BY <1>36 DEF WatchdogAborts, OthersOK
  <2>4. QED
    BY <2>1, <2>2, <2>3
<1>37. CASE UNCHANGED vars
  BY <1>37 DEF vars, RowsOK, DispatchersOK, OthersOK
<1>38. QED
  BY <1>1, <1>2, <1>3, <1>4, <1>5, <1>6, <1>7, <1>8, <1>9, <1>10, <1>11, <1>12, <1>12a,
     <1>13, <1>14, <1>15, <1>16, <1>17, <1>18, <1>19, <1>20, <1>21, <1>22, <1>23,
     <1>24, <1>25, <1>26, <1>27, <1>28, <1>29, <1>30, <1>31, <1>32, <1>33, <1>34,
     <1>35, <1>36, <1>37
     DEF Next, Intake, Dispatch, Work, Mishap, Heartbeat, Cancel, Watchdog

-----------------------------------------------------------------------------
(* How a step changes the executions table: not at all, by the commit of a *)
(* bundle, or by one allowed transition of one row.  Everything the rows   *)
(* promise follows from this shape, whoever took the step.                 *)

CommitBundle(s) ==
  /\ intake[s] = "none" /\ intake'[s] # "none"
  /\ \A e \in Bundle(s) : state[e] = "ABSENT"
  /\ state' = [e \in Executions |-> IF e \in Bundle(s) THEN "QUEUED" ELSE state[e]]
  /\ UNCHANGED <<version, result, started>>

Transit(e, to) ==
  /\ CanTransition(state[e], to)
  /\ to = "CANCELLED" => state[e] = "QUEUED"
  /\ SetState(e, to)

RowStep ==
  \/ UNCHANGED rows
  \/ \E s \in Submissions : CommitBundle(s)
  \/ \E e \in Executions, to \in States : Transit(e, to)

LEMMA RowShape ==
  TypeOK /\ ControlOK /\ IntakeOK /\ OwnedPastQueue /\ [Next]_vars => RowStep
<1> SUFFICES ASSUME TypeOK, ControlOK, IntakeOK, OwnedPastQueue, [Next]_vars
             PROVE  RowStep
  OBVIOUS
<1> USE DEF TypeOK
<1>1. ASSUME NEW s \in Submissions, CreateBundle(s) PROVE RowStep
  BY <1>1 DEF CreateBundle, IntakeOK, RowStep, CommitBundle, OthersOK
<1>2. ASSUME NEW s \in Submissions, IntakeMark(s) PROVE RowStep
  <2>1. PICK e \in todo[s] :
          \/ (Unchanged(e, intakeSeen[s]) /\ SetState(e, "FAILED"))
          \/ UNCHANGED rows
    BY <1>2 DEF IntakeMark
  <2>2. e \in Executions
    BY DEF OthersOK
  <2>3. CanTransition(intakeSeen[s].state, "FAILED")
    BY <1>2 DEF IntakeMark, IntakeOK
  <2>4. QED
    BY <2>1, <2>2, <2>3 DEF RowStep, Transit, Unchanged, States
<1>3. ASSUME NEW d \in Dispatchers, ClaimCommit(d) \/ ClaimReplyLost(d) PROVE RowStep
  <2>1. pc[d] = "claim" /\ SetState(cur[d], "RUNNING")
    BY <1>3 DEF ClaimCommit, ClaimReplyLost
  <2>2. cur[d] \in Executions /\ CanTransition(state[cur[d]], "RUNNING")
    BY <2>1, CurrentIsExecution DEF OwnedPastQueue, CanTransition, AllowedTransitions
  <2>3. QED
    BY <2>1, <2>2 DEF RowStep, Transit, States
<1>4. ASSUME NEW d \in Dispatchers, UpdateRow(d) \/ UpdateReplyLost(d) PROVE RowStep
  <2>1. pc[d] \in {"write", "failwrite"} /\ Unchanged(cur[d], seen[d])
          /\ SetState(cur[d], pending[d])
    BY <1>4 DEF UpdateRow, UpdateReplyLost
  <2>2. cur[d] \in Executions /\ pending[d] \in States
    BY <2>1, CurrentIsExecution, PendingIsState
  <2>3. pending[d] # "CANCELLED" /\ CanTransition(state[cur[d]], pending[d])
    BY <2>1 DEF ControlOK, Unchanged, DispatchersOK, Pendings
  <2>4. QED
    BY <2>1, <2>2, <2>3 DEF RowStep, Transit
<1>5. ASSUME NEW r \in Requests, CancelCommit(r) PROVE RowStep
  <2>1. request[r].id \in Executions
    BY <1>5 DEF CancelCommit, OthersOK
  <2>2. QED
    BY <1>5, <2>1
       DEF CancelCommit, CancelAllowed, RowStep, Transit, CanTransition,
           AllowedTransitions, States
<1>6. ASSUME NEW e \in Executions, WatchdogRecover(e) PROVE RowStep
  <2>1. PICK c \in candidates :
          c.id = e /\ ((StillStale(c) /\ SetState(e, "FAILED")) \/ UNCHANGED rows)
    BY <1>6 DEF WatchdogRecover
  <2>2. c.state \in ActiveStates
    BY DEF OthersOK, Candidate
  <2>3. QED
    BY <2>1, <2>2
       DEF RowStep, Transit, StillStale, Unchanged, CanTransition,
           AllowedTransitions, States, ActiveStates
<1>7. ASSUME NEW s \in Submissions,
             \/ IntakeDone(s) \/ IntakeFails(s) \/ IntakeRead(s)
             \/ IntakeReport(s) \/ IntakeCrash(s)
      PROVE  RowStep
  BY <1>7 DEF IntakeDone, IntakeFails, IntakeRead, IntakeReport, IntakeCrash, RowStep
<1>8. ASSUME NEW d \in Dispatchers,
             \/ Start(d) \/ Stop(d) \/ Crash(d) \/ ClaimHead(d) \/ GiveBack(d)
             \/ Activate(d) \/ PrepareFails(d)
             \/ MeasurementEnds(d) \/ NoOutcome(d) \/ PostProcess(d) \/ ReadRow(d)
             \/ UpdateRefused(d) \/ CallFails(d) \/ HandleInactive(d)
             \/ HandleActive(d) \/ SyncRead(d) \/ SyncWrite(d) \/ SyncFails(d)
      PROVE  RowStep
  BY <1>8
     DEF Start, Stop, Crash, ClaimHead, GiveBack, Activate, PrepareFails,
         MeasurementEnds, NoOutcome, PostProcess, Proceed, ReadRow, UpdateRefused,
         CallFails, HandleInactive, HandleActive, SyncRead, SyncWrite, SyncFails,
         RowStep
<1>9. CASE DropSession \/ Heartbeat
  BY <1>9 DEF DropSession, Heartbeat, Beat, LeaseDies, RowStep
<1>10. ASSUME NEW r \in Requests, CancelLock(r) \/ CancelRollback(r) PROVE RowStep
  BY <1>10 DEF CancelLock, CancelRollback, RowStep
<1>11. CASE WatchdogScan \/ WatchdogAborts
  BY <1>11 DEF WatchdogScan, WatchdogAborts, RowStep
<1>12. CASE UNCHANGED vars
  BY <1>12 DEF vars, RowStep
<1>13. QED
  BY <1>1, <1>2, <1>3, <1>4, <1>5, <1>6, <1>7, <1>8, <1>9, <1>10, <1>11, <1>12
     DEF Next, Intake, Dispatch, Work, Mishap, Cancel, Watchdog

\* A terminal row keeps its state, and no row returns to the queue.
LEMMA RowsOnlyAdvance ==
  ASSUME TypeOK, RowStep, NEW e \in Executions
  PROVE  /\ state[e] \in TerminalStates => state'[e] = state[e]
         /\ state[e] \notin {"ABSENT", "QUEUED"} => state'[e] \notin {"ABSENT", "QUEUED"}
<1> USE DEF TypeOK, RowsOK
<1>1. CASE UNCHANGED rows
  BY <1>1
<1>2. ASSUME NEW s \in Submissions, CommitBundle(s)
      PROVE  state[e] = "ABSENT" \/ state'[e] = state[e]
  BY <1>2 DEF CommitBundle
<1>3. ASSUME NEW f \in Executions, NEW to \in States, Transit(f, to)
      PROVE  /\ state[e] \in TerminalStates => state'[e] = state[e]
             /\ state[e] \notin {"ABSENT", "QUEUED"} => state'[e] \notin {"ABSENT", "QUEUED"}
  BY <1>3 DEF Transit, SetState, CanTransition, AllowedTransitions, TerminalStates
<1>4. QED
  BY <1>1, <1>2, <1>3 DEF RowStep, TerminalStates

LEMMA ResultStep ==
  ASSUME TypeOK, ResultIffCompleted, RowStep
  PROVE  ResultIffCompleted'
<1> USE DEF TypeOK, RowsOK, ResultIffCompleted
<1>1. CASE UNCHANGED rows
  BY <1>1
<1>2. ASSUME NEW s \in Submissions, CommitBundle(s) PROVE ResultIffCompleted'
  BY <1>2 DEF CommitBundle
<1>3. ASSUME NEW e \in Executions, NEW to \in States, Transit(e, to)
      PROVE  ResultIffCompleted'
  BY <1>3 DEF Transit, SetState, ResultAfter, CanTransition, AllowedTransitions
<1>4. QED
  BY <1>1, <1>2, <1>3 DEF RowStep

LEMMA StartedStep ==
  ASSUME TypeOK, UnclaimedNotStarted, RowStep
  PROVE  UnclaimedNotStarted'
<1> USE DEF TypeOK, RowsOK, UnclaimedNotStarted
<1>1. CASE UNCHANGED rows
  BY <1>1
<1>2. ASSUME NEW s \in Submissions, CommitBundle(s) PROVE UnclaimedNotStarted'
  BY <1>2 DEF CommitBundle
<1>3. ASSUME NEW e \in Executions, NEW to \in States, Transit(e, to)
      PROVE  UnclaimedNotStarted'
  BY <1>3 DEF Transit, SetState, CanTransition, AllowedTransitions
<1>4. QED
  BY <1>1, <1>2, <1>3 DEF RowStep

-----------------------------------------------------------------------------
(* The queue implements the lifecycle.                                     *)

LEMMA LifecycleInit == Init => Lifecycle!Init
BY DEF Init, Lifecycle!Init

LEMMA LifecycleStep ==
  TypeOK /\ ResultIffCompleted /\ RowStep => [Lifecycle!Next]_(Lifecycle!vars)
<1> SUFFICES ASSUME TypeOK, ResultIffCompleted, RowStep
             PROVE  [Lifecycle!Next]_(Lifecycle!vars)
  OBVIOUS
<1> USE DEF TypeOK, RowsOK
<1>1. CASE UNCHANGED rows
  BY <1>1 DEF Lifecycle!vars
<1>2. ASSUME NEW s \in Submissions, CommitBundle(s) PROVE Lifecycle!Next
  <2>1. Bundle(s) \in SUBSET Executions
    BY DEF Bundle
  <2>2. Lifecycle!Create(Bundle(s))
    BY <1>2 DEF CommitBundle, Lifecycle!Create
  <2>3. QED
    BY <2>1, <2>2 DEF Lifecycle!Next
<1>3. ASSUME NEW e \in Executions, NEW to \in States, Transit(e, to) PROVE Lifecycle!Next
  <2>1. Lifecycle!CanTransition(state[e], to)
    BY <1>3 DEF Transit, CanTransition, AllowedTransitions,
                Lifecycle!CanTransition, Lifecycle!AllowedTransitions
  <2>2. ~result[e]
    BY <1>3 DEF Transit, CanTransition, AllowedTransitions, ResultIffCompleted
  <2>3. result' = [result EXCEPT ![e] = (to = "COMPLETED")]
    <3>1. ResultAfter(to, result[e]) <=> to = "COMPLETED"
      BY <2>2 DEF ResultAfter
    <3>2. ResultAfter(to, result[e]) \in BOOLEAN /\ (to = "COMPLETED") \in BOOLEAN
      BY DEF ResultAfter
    <3>3. ResultAfter(to, result[e]) = (to = "COMPLETED")
      BY <3>1, <3>2
    <3>4. QED
      BY <1>3, <3>3 DEF Transit, SetState
  <2>4. Lifecycle!Move(e, to)
    BY <1>3, <2>1, <2>3 DEF Transit, SetState, Lifecycle!Move
  <2>5. to \in Lifecycle!States
    BY DEF States, Lifecycle!States
  <2>6. QED
    BY <2>4, <2>5 DEF Lifecycle!Next
<1>4. QED
  BY <1>1, <1>2, <1>3 DEF RowStep

-----------------------------------------------------------------------------
(* Intake.                                                                 *)

LEMMA IntakeMoves ==
  ASSUME TypeOK, [Next]_vars, NEW s \in Submissions
  PROVE  /\ intake'[s] = "none" => intake[s] = "none"
         /\ intake'[s] = "marking" =>
              \/ intake[s] = "marking" /\ intakeSeen'[s] = intakeSeen[s]
              \/ CanTransition(intakeSeen'[s].state, "FAILED")
<1> USE DEF TypeOK, OthersOK
<1>1. ASSUME NEW t \in Submissions, IntakeRead(t)
      PROVE  /\ intake'[s] = "none" => intake[s] = "none"
             /\ intake'[s] = "marking" =>
                  \/ intake[s] = "marking" /\ intakeSeen'[s] = intakeSeen[s]
                  \/ CanTransition(intakeSeen'[s].state, "FAILED")
  BY <1>1 DEF IntakeRead, RowOf
<1>2. ASSUME NEW t \in Submissions,
             \/ CreateBundle(t) \/ IntakeDone(t) \/ IntakeFails(t)
             \/ IntakeMark(t) \/ IntakeReport(t) \/ IntakeCrash(t)
      PROVE  /\ intake'[s] = "none" => intake[s] = "none"
             /\ intake'[s] = "marking" =>
                  intake[s] = "marking" /\ intakeSeen'[s] = intakeSeen[s]
  BY <1>2
     DEF CreateBundle, IntakeDone, IntakeFails, IntakeMark, IntakeReport,
         IntakeCrash
<1>3. ASSUME NEW d \in Dispatchers, Dispatch(d) PROVE UNCHANGED intakes
  BY <1>3
     DEF Dispatch, Work, Mishap, Start, Stop, Crash, ClaimHead, ClaimCommit,
         GiveBack, ClaimReplyLost, Activate, PrepareFails, MeasurementEnds,
         NoOutcome, PostProcess, Proceed, ReadRow, UpdateRow, UpdateRefused,
         UpdateReplyLost, CallFails, HandleInactive, HandleActive, SyncRead,
         SyncWrite, SyncFails
<1>4. ASSUME NEW r \in Requests, Cancel(r) PROVE UNCHANGED intakes
  BY <1>4 DEF Cancel, CancelLock, CancelCommit, CancelRollback
<1>5. CASE DropSession \/ Heartbeat \/ Watchdog \/ UNCHANGED vars
  <2>1. UNCHANGED intakes
    BY <1>5 DEF DropSession, Heartbeat, Beat, LeaseDies, Watchdog, WatchdogScan,
                WatchdogRecover, WatchdogAborts, vars
  <2>2. QED
    BY <2>1
<1>6. QED
  BY <1>1, <1>2, <1>3, <1>4, <1>5 DEF Next, Intake

LEMMA IntakeStep == TypeOK /\ IntakeOK /\ RowStep /\ [Next]_vars => IntakeOK'
<1> SUFFICES ASSUME TypeOK, IntakeOK, RowStep, [Next]_vars, NEW s \in Submissions
             PROVE  /\ intake'[s] = "none" => \A e \in Bundle(s) : state'[e] = "ABSENT"
                    /\ intake'[s] = "marking" =>
                         CanTransition(intakeSeen'[s].state, "FAILED")
  BY DEF IntakeOK, Bundle
<1>1. ASSUME intake'[s] = "none", NEW e \in Bundle(s) PROVE state'[e] = "ABSENT"
  <2>1. e \in Executions /\ SubmissionOf[e] = s /\ state[e] = "ABSENT"
    BY <1>1, IntakeMoves DEF Bundle, IntakeOK
  <2>2. CASE UNCHANGED rows
    BY <2>1, <2>2
  <2>3. ASSUME NEW t \in Submissions, CommitBundle(t) PROVE state'[e] = "ABSENT"
    BY <1>1, <2>1, <2>3 DEF CommitBundle, Bundle
  <2>4. ASSUME NEW f \in Executions, NEW to \in States, Transit(f, to)
        PROVE  state'[e] = "ABSENT"
    BY <2>1, <2>4
       DEF Transit, SetState, CanTransition, AllowedTransitions, TypeOK, RowsOK
  <2>5. QED
    BY <2>2, <2>3, <2>4 DEF RowStep
<1>2. ASSUME intake'[s] = "marking" PROVE CanTransition(intakeSeen'[s].state, "FAILED")
  BY <1>2, IntakeMoves DEF IntakeOK
<1>3. QED
  BY <1>1, <1>2

-----------------------------------------------------------------------------
(* The dispatchers.  Nobody else moves them, and each moves only itself.   *)

LEMMA OthersLeaveDispatchers ==
  ASSUME [Next]_vars, ~\E d \in Dispatchers : Dispatch(d)
  PROVE  UNCHANGED <<pc, cur, pending, seen>>
BY DEF Next, Intake, CreateBundle, IntakeDone, IntakeFails, IntakeRead, IntakeMark,
       IntakeReport, IntakeCrash, DropSession, Heartbeat, Beat, LeaseDies, Cancel,
       CancelLock, CancelCommit, CancelRollback, Watchdog, WatchdogScan,
       WatchdogRecover, WatchdogAborts, vars

LEMMA ControlStep == TypeOK /\ ControlOK /\ [Next]_vars => ControlOK'
<1> SUFFICES ASSUME TypeOK, ControlOK, [Next]_vars PROVE ControlOK'
  OBVIOUS
<1> USE DEF TypeOK, DispatchersOK, ControlOK, Goto
<1> USE CurrentIsExecution, ExecutionsAssumption DEF NoExecution
<1>1. ASSUME NEW d \in Dispatchers, Start(d) \/ Stop(d) \/ Crash(d) PROVE ControlOK'
  BY <1>1 DEF Start, Stop, Crash
<1>2. ASSUME NEW d \in Dispatchers, ClaimHead(d) \/ ClaimCommit(d) PROVE ControlOK'
  BY <1>2 DEF ClaimHead, ClaimCommit
<1>3. ASSUME NEW d \in Dispatchers,
             \/ Activate(d) \/ PrepareFails(d) \/ MeasurementEnds(d) \/ NoOutcome(d)
             \/ PostProcess(d) \/ HandleInactive(d) \/ HandleActive(d)
      PROVE  ControlOK'
  BY <1>3
     DEF Activate, PrepareFails, MeasurementEnds, NoOutcome, PostProcess, Proceed,
         HandleInactive, HandleActive
<1>4. ASSUME NEW d \in Dispatchers, pc[d] \notin {"off", "idle"}, Raise(d)
      PROVE  ControlOK'
  BY <1>4 DEF Raise, EndCycle
<1>5. ASSUME NEW d \in Dispatchers, pc[d] \notin {"off", "idle"}, EndCycle(d)
      PROVE  ControlOK'
  BY <1>5 DEF EndCycle
<1>6. ASSUME NEW d \in Dispatchers, ReadRow(d) PROVE ControlOK'
  <2>1. CASE Raise(d)
    BY <1>4, <1>6, <2>1 DEF ReadRow
  <2>2. CASE ~Raise(d)
    BY <1>6, <2>2 DEF ReadRow, RowOf
  <2>3. QED
    BY <2>1, <2>2
<1>7. ASSUME NEW d \in Dispatchers, UpdateRow(d) PROVE ControlOK'
  BY <1>7 DEF UpdateRow
<1>8. ASSUME NEW d \in Dispatchers, UpdateRefused(d) \/ UpdateReplyLost(d) PROVE ControlOK'
  BY <1>4, <1>8 DEF UpdateRefused, UpdateReplyLost
<1>9. ASSUME NEW d \in Dispatchers, CallFails(d) PROVE ControlOK'
  <2>1. CASE Raise(d)
    BY <1>4, <1>9, <2>1 DEF CallFails
  <2>2. CASE ~Raise(d)
    BY <1>9, <2>2 DEF CallFails
  <2>3. QED
    BY <2>1, <2>2
<1>10. ASSUME NEW d \in Dispatchers, SyncRead(d) PROVE ControlOK'
  <2>1. CASE EndCycle(d)
    BY <1>5, <1>10, <2>1 DEF SyncRead
  <2>2. CASE ~EndCycle(d)
    BY <1>10, <2>2 DEF SyncRead, LegacyStatus
  <2>3. QED
    BY <2>1, <2>2
<1>11. ASSUME NEW d \in Dispatchers,
              GiveBack(d) \/ ClaimReplyLost(d) \/ SyncWrite(d) \/ SyncFails(d)
       PROVE  ControlOK'
  BY <1>5, <1>11 DEF GiveBack, ClaimReplyLost, SyncWrite, SyncFails
<1>12. CASE ~\E d \in Dispatchers : Dispatch(d)
  BY <1>12, OthersLeaveDispatchers
<1>13. QED
  BY <1>1, <1>2, <1>3, <1>6, <1>7, <1>8, <1>9, <1>10, <1>11, <1>12
     DEF Dispatch, Work, Mishap

\* Each dispatcher moves only itself.
LEMMA DispatchersMoveThemselves ==
  ASSUME TypeOK, NEW c \in Dispatchers, Dispatch(c), NEW d \in Dispatchers, d # c
  PROVE  pc'[d] = pc[d] /\ cur'[d] = cur[d]
BY DEF TypeOK, DispatchersOK, Dispatch, Work, Mishap, Start, Stop, Crash, ClaimHead,
       ClaimCommit, GiveBack, ClaimReplyLost, Activate, PrepareFails,
       MeasurementEnds, NoOutcome, PostProcess, Proceed, ReadRow, UpdateRow,
       UpdateRefused, UpdateReplyLost, CallFails, HandleInactive, HandleActive,
       SyncRead, SyncWrite, SyncFails, Raise, EndCycle, Goto

\* A dispatcher has the row it had, none, or the unlocked row of the queue
\* that it begins to claim.
LEMMA HandStep ==
  ASSUME TypeOK, ControlOK, [Next]_vars, NEW d \in Dispatchers
  PROVE  \/ cur'[d] = cur[d] /\ (pc'[d] = "claim" <=> pc[d] = "claim")
         \/ cur'[d] = NoExecution
         \/ /\ pc[d] = "claim" /\ pc'[d] = "prepare" /\ cur'[d] = cur[d]
            /\ ClaimCommit(d)
         \/ /\ cur'[d] \in Executions /\ pc'[d] = "claim" /\ ClaimHead(d)
            /\ state[cur'[d]] = "QUEUED" /\ ~Locked(cur'[d])
<1> USE DEF TypeOK, DispatchersOK
<1>1. CASE ~\E c \in Dispatchers : Dispatch(c)
  BY <1>1, OthersLeaveDispatchers
<1>2. ASSUME NEW c \in Dispatchers \ {d}, Dispatch(c)
      PROVE  cur'[d] = cur[d] /\ pc'[d] = pc[d]
  BY <1>2, DispatchersMoveThemselves
<1>3. CASE ClaimHead(d)
  BY <1>3 DEF ClaimHead, First, Claimable, Goto
<1>4. CASE ClaimCommit(d)
  BY <1>4 DEF ClaimCommit, Goto
<1>5. CASE Dispatch(d) /\ ~ClaimHead(d) /\ ~ClaimCommit(d)
  <2>1. \/ cur'[d] = NoExecution
        \/ cur'[d] = cur[d] /\ pc'[d] # "claim" /\ pc[d] # "claim"
    BY <1>5
       DEF Dispatch, Work, Mishap, Start, Stop, Crash, GiveBack, ClaimReplyLost,
           Activate, PrepareFails, MeasurementEnds, NoOutcome, PostProcess, Proceed,
           ReadRow, UpdateRow, UpdateRefused, UpdateReplyLost, CallFails,
           HandleInactive, HandleActive, SyncRead, SyncWrite, SyncFails, Raise,
           EndCycle, Goto
  <2>2. QED
    BY <2>1
<1>6. QED
  BY <1>1, <1>2, <1>3, <1>4, <1>5

\* Nobody but its dispatcher moves a row that is being claimed.
LEMMA ClaimedRowStays ==
  ASSUME TypeOK, ControlOK, OwnedPastQueue, SoleOwner, [Next]_vars,
         NEW d \in Dispatchers, NEW e \in Executions, Claiming(d, e),
         pc'[d] = "claim"
  PROVE  state'[e] = "QUEUED" /\ \A r \in Requests : request'[r].id # e
<1> USE DEF TypeOK, Claiming
<1>1. state[e] = "QUEUED" /\ Locked(e) /\ \A r \in Requests : request[r].id # e
  BY DEF OwnedPastQueue, Locked
<1>2. \A r \in Requests : request'[r].id # e
  <2>1. ASSUME NEW r \in Requests, Cancel(r) PROVE \A q \in Requests : request'[q].id # e
    BY <1>1, <2>1, ExecutionsAssumption
       DEF Cancel, CancelLock, CancelCommit, CancelRollback, NoRequest, NoExecution,
           OthersOK
  <2>2. CASE ~\E r \in Requests : Cancel(r)
    <3>1. UNCHANGED request
      BY <2>2
         DEF Next, Intake, CreateBundle, IntakeDone, IntakeFails, IntakeRead,
             IntakeMark, IntakeReport, IntakeCrash, Dispatch, Work, Mishap, Start,
             Stop, Crash, ClaimHead, ClaimCommit, GiveBack, ClaimReplyLost,
             Activate, PrepareFails, MeasurementEnds, NoOutcome, PostProcess,
             Proceed, ReadRow, UpdateRow, UpdateRefused, UpdateReplyLost, CallFails,
             HandleInactive, HandleActive, SyncRead, SyncWrite, SyncFails,
             DropSession, Heartbeat, Beat, LeaseDies, Watchdog, WatchdogScan,
             WatchdogRecover, WatchdogAborts, vars
    <3>2. QED
      BY <1>1, <3>1
  <2>3. QED
    BY <2>1, <2>2
<1>3. ASSUME NEW s \in Submissions, CreateBundle(s) \/ IntakeMark(s)
      PROVE  state'[e] = state[e]
  <2>1. CASE CreateBundle(s)
    BY <1>1, <2>1 DEF CreateBundle, RowsOK
  <2>2. CASE IntakeMark(s)
    BY <1>1, <2>2 DEF IntakeMark, SetState, RowsOK, rows
  <2>3. QED
    BY <1>3, <2>1, <2>2
<1>4. ASSUME NEW c \in Dispatchers, ClaimCommit(c) \/ ClaimReplyLost(c)
      PROVE  state'[e] = state[e]
  <2>1. c # d
    BY <1>4, ExecutionsAssumption
       DEF ClaimCommit, ClaimReplyLost, EndCycle, Goto, DispatchersOK
  <2>2. cur[c] # e
    BY <1>4, <2>1, ExecutionsAssumption DEF SoleOwner, NoExecution
  <2>3. QED
    BY <1>4, <2>2 DEF ClaimCommit, ClaimReplyLost, SetState, RowsOK
<1>5. ASSUME NEW c \in Dispatchers, UpdateRow(c) \/ UpdateReplyLost(c)
      PROVE  state'[e] = state[e]
  BY <1>1, <1>5 DEF UpdateRow, UpdateReplyLost, SetState, RowsOK
<1>6. ASSUME NEW r \in Requests, CancelCommit(r) PROVE state'[e] = state[e]
  BY <1>1, <1>6 DEF CancelCommit, SetState, RowsOK
<1>7. ASSUME NEW f \in Executions, WatchdogRecover(f) PROVE state'[e] = state[e]
  BY <1>1, <1>7 DEF WatchdogRecover, SetState, RowsOK, rows
<1>8. ASSUME ~\E s \in Submissions : CreateBundle(s) \/ IntakeMark(s),
             ~\E c \in Dispatchers : \/ ClaimCommit(c) \/ ClaimReplyLost(c)
                                     \/ UpdateRow(c) \/ UpdateReplyLost(c),
             ~\E r \in Requests : CancelCommit(r),
             ~\E f \in Executions : WatchdogRecover(f)
      PROVE  UNCHANGED state
  BY <1>8
     DEF Next, Intake, IntakeDone, IntakeFails, IntakeRead, IntakeReport, IntakeCrash,
         Dispatch, Work, Mishap, Start, Stop, Crash, ClaimHead, GiveBack, Activate,
         PrepareFails, MeasurementEnds, NoOutcome, PostProcess, Proceed, ReadRow,
         UpdateRefused, CallFails, HandleInactive, HandleActive, SyncRead, SyncWrite,
         SyncFails, DropSession, Heartbeat, Beat, LeaseDies, Cancel, CancelLock,
         CancelRollback, Watchdog, WatchdogScan, WatchdogAborts, rows, vars
<1>9. state'[e] = state[e]
  BY <1>3, <1>4, <1>5, <1>6, <1>7, <1>8
<1>10. QED
  BY <1>1, <1>2, <1>9

LEMMA OwnerStep ==
  TypeOK /\ ControlOK /\ OwnedPastQueue /\ SoleOwner /\ RowStep /\ [Next]_vars
    => OwnedPastQueue' /\ SoleOwner'
<1> SUFFICES ASSUME TypeOK, ControlOK, OwnedPastQueue, SoleOwner, RowStep, [Next]_vars
             PROVE  OwnedPastQueue' /\ SoleOwner'
  OBVIOUS
<1> USE DEF TypeOK, DispatchersOK
<1>1. ASSUME NEW d \in Dispatchers, NEW e \in Executions, cur'[d] = e
      PROVE  IF pc'[d] = "claim"
             THEN state'[e] = "QUEUED" /\ \A r \in Requests : request'[r].id # e
             ELSE state'[e] \notin {"ABSENT", "QUEUED"}
  <2>1. CASE cur'[d] = cur[d] /\ pc[d] = "claim" /\ pc'[d] = "claim"
    BY <1>1, <2>1, ClaimedRowStays DEF Claiming
  <2>2. CASE cur'[d] = cur[d] /\ pc[d] # "claim" /\ pc'[d] # "claim"
    BY <1>1, <2>2, RowsOnlyAdvance DEF OwnedPastQueue
  <2>3. CASE ClaimCommit(d)
    BY <1>1, <2>3 DEF ClaimCommit, SetState, Goto, RowsOK
  <2>4. CASE ClaimHead(d) /\ pc'[d] = "claim" /\ state[e] = "QUEUED" /\ ~Locked(e)
    BY <2>4 DEF ClaimHead, Locked, rows
  <2>5. QED
    BY <1>1, <2>1, <2>2, <2>3, <2>4, HandStep, ExecutionsAssumption DEF NoExecution
<1>2. ASSUME NEW c \in Dispatchers, NEW d \in Dispatchers,
             cur'[c] # NoExecution, cur'[c] = cur'[d], cur'[d] # cur[d]
      PROVE  c = d
  <2>1. ClaimHead(d) /\ state[cur'[d]] = "QUEUED" /\ cur'[d] \in Executions
          /\ ~Locked(cur'[d])
    BY <1>2, HandStep
  <2>2. c # d => cur'[c] = cur[c]
    BY <2>1, DispatchersMoveThemselves DEF Dispatch
  <2>3. QED
    BY <1>2, <2>1, <2>2 DEF OwnedPastQueue, Locked, Claiming
<1>3. SoleOwner'
  BY <1>2 DEF SoleOwner
<1>4. QED
  BY <1>1, <1>3 DEF OwnedPastQueue

-----------------------------------------------------------------------------
(* The heartbeat threads.                                                  *)

LEMMA LeaseStep ==
  TypeOK /\ ControlOK /\ NoOrphanLease /\ [Next]_vars => NoOrphanLease'
<1> SUFFICES ASSUME TypeOK, ControlOK, NoOrphanLease, [Next]_vars PROVE NoOrphanLease'
  OBVIOUS
<1> USE DEF TypeOK, DispatchersOK, ControlOK, NoOrphanLease, Goto
<1>1. ASSUME NEW d \in Dispatchers,
             \/ Start(d) \/ Stop(d) \/ Crash(d) \/ ClaimHead(d)
             \/ ClaimCommit(d) \/ GiveBack(d) \/ ClaimReplyLost(d)
      PROVE  NoOrphanLease'
  BY <1>1
     DEF Start, Stop, Crash, ClaimHead, ClaimCommit, GiveBack, ClaimReplyLost, EndCycle
<1>2. ASSUME NEW d \in Dispatchers,
             \/ Activate(d) \/ PrepareFails(d) \/ MeasurementEnds(d) \/ NoOutcome(d)
             \/ PostProcess(d) \/ HandleActive(d)
      PROVE  NoOrphanLease'
  BY <1>2
     DEF Activate, PrepareFails, MeasurementEnds, NoOutcome, PostProcess, Proceed,
         HandleActive
<1>3. ASSUME NEW d \in Dispatchers, HandleInactive(d) PROVE NoOrphanLease'
  BY <1>3 DEF HandleInactive, StopLease
<1>4. ASSUME NEW d \in Dispatchers, Raise(d) PROVE NoOrphanLease'
  BY <1>4 DEF Raise, EndCycle, StopLease
<1>5. ASSUME NEW d \in Dispatchers, ReadRow(d) PROVE NoOrphanLease'
  <2>1. CASE Raise(d)
    BY <1>4, <2>1
  <2>2. CASE ~Raise(d)
    BY <1>5, <2>2 DEF ReadRow
  <2>3. QED
    BY <2>1, <2>2
<1>6. ASSUME NEW d \in Dispatchers, UpdateRow(d) PROVE NoOrphanLease'
  BY <1>6 DEF UpdateRow, StopLease
<1>7. ASSUME NEW d \in Dispatchers, UpdateRefused(d) \/ UpdateReplyLost(d)
      PROVE  NoOrphanLease'
  BY <1>4, <1>7 DEF UpdateRefused, UpdateReplyLost
<1>8. ASSUME NEW d \in Dispatchers, CallFails(d) PROVE NoOrphanLease'
  <2>1. CASE Raise(d)
    BY <1>4, <2>1
  <2>2. CASE ~Raise(d)
    BY <1>8, <2>2 DEF CallFails
  <2>3. QED
    BY <2>1, <2>2
<1>9. ASSUME NEW d \in Dispatchers, SyncRead(d) \/ SyncWrite(d) \/ SyncFails(d)
      PROVE  NoOrphanLease'
  BY <1>9 DEF SyncRead, SyncWrite, SyncFails, EndCycle
<1>10. ASSUME NEW d \in Dispatchers, NEW e \in Executions, Beat(d, e) \/ LeaseDies(d, e)
       PROVE  NoOrphanLease'
  BY <1>10 DEF Beat, LeaseDies
<1>11. CASE (~\E d \in Dispatchers : Dispatch(d)) /\ ~Heartbeat
  <2>1. UNCHANGED lease
    BY <1>11
       DEF Next, Intake, CreateBundle, IntakeDone, IntakeFails, IntakeRead, IntakeMark,
           IntakeReport, IntakeCrash, DropSession, Cancel, CancelLock, CancelCommit,
           CancelRollback, Watchdog, WatchdogScan, WatchdogRecover, WatchdogAborts, vars
  <2>2. QED
    BY <1>11, <2>1, OthersLeaveDispatchers
<1>12. QED
  BY <1>1, <1>2, <1>3, <1>5, <1>6, <1>7, <1>8, <1>9, <1>10, <1>11
     DEF Dispatch, Work, Mishap, Heartbeat

\* Only a scan lets a row grow old, and only the activation starts a thread.
LEMMA OldMoves ==
  ASSUME TypeOK, ControlOK, [Next]_vars, NEW d \in Dispatchers, NEW e \in Executions
  PROVE  /\ old'[e] => old[e] \/ (WatchdogScan /\ MayAge(e))
         /\ e \in lease'[d] => e \in lease[d] \/ ~old'[e]
<1> USE DEF TypeOK, RowsOK, DispatchersOK
<1>1. ASSUME NEW c \in Dispatchers, Activate(c)
      PROVE  /\ old'[e] => old[e]
             /\ e \in lease'[d] => e \in lease[d] \/ ~old'[e]
  <2>1. cur[c] \in Executions
    BY <1>1, CurrentIsExecution DEF Activate
  <2>2. QED
    BY <1>1, <2>1 DEF Activate
<1>2. ASSUME NEW c \in Dispatchers, Dispatch(c), ~Activate(c)
      PROVE  (old'[e] => old[e]) /\ (e \in lease'[d] => e \in lease[d])
  <2>1. UNCHANGED old \/ \E f \in Executions : old' = [old EXCEPT ![f] = FALSE]
    BY <1>2
       DEF Dispatch, Work, Mishap, Start, Stop, Crash, ClaimHead, ClaimCommit,
           GiveBack, ClaimReplyLost, PrepareFails, MeasurementEnds, NoOutcome,
           PostProcess, Proceed, ReadRow, UpdateRow, UpdateRefused, UpdateReplyLost,
           CallFails, HandleInactive, HandleActive, SyncRead, SyncWrite, SyncFails
  <2>2. \/ UNCHANGED lease
        \/ lease' = [lease EXCEPT ![c] = {}]
        \/ StopLease(c)
    BY <1>2
       DEF Dispatch, Work, Mishap, Start, Stop, Crash, ClaimHead, ClaimCommit,
           GiveBack, ClaimReplyLost, PrepareFails, MeasurementEnds, NoOutcome,
           PostProcess, Proceed, ReadRow, UpdateRow, UpdateRefused, UpdateReplyLost,
           CallFails, HandleInactive, HandleActive, SyncRead, SyncWrite, SyncFails,
           Raise
  <2>3. QED
    BY <2>1, <2>2 DEF StopLease
<1>3. CASE Heartbeat
  BY <1>3 DEF Heartbeat, Beat, LeaseDies
<1>4. CASE WatchdogScan
  BY <1>4 DEF WatchdogScan
<1>5. CASE /\ ~\E c \in Dispatchers : Dispatch(c)
           /\ ~Heartbeat /\ ~WatchdogScan
  <2>1. UNCHANGED <<old, lease>>
    BY <1>5
       DEF Next, Intake, CreateBundle, IntakeDone, IntakeFails, IntakeRead, IntakeMark,
           IntakeReport, IntakeCrash, DropSession, Cancel, CancelLock, CancelCommit,
           CancelRollback, Watchdog, WatchdogRecover, WatchdogAborts, vars
  <2>2. QED
    BY <2>1
<1>6. QED
  BY <1>1, <1>2, <1>3, <1>4, <1>5

LEMMA FreshStep ==
  TypeOK /\ ControlOK /\ LeasedIsFresh /\ [Next]_vars => LeasedIsFresh'
<1> SUFFICES ASSUME TypeOK, ControlOK, LeasedIsFresh, [Next]_vars, "slow" \notin Faults,
                    TypeOK', NEW d \in Dispatchers, NEW e \in lease'[d]
             PROVE  ~old'[e]
  BY TypeStep DEF LeasedIsFresh
<1>1. e \in Executions
  BY DEF TypeOK, DispatchersOK
<1>2. CASE e \in lease[d]
  BY <1>1, <1>2, OldMoves DEF LeasedIsFresh, MayAge
<1>3. CASE e \notin lease[d]
  BY <1>1, <1>3, OldMoves
<1>4. QED
  BY <1>2, <1>3

-----------------------------------------------------------------------------
(* The report of a bundle.                                                 *)

\* A bundle seen completed stays completed.
\* A settled bundle keeps its rows, and with them its verdict.
LEMMA SettledStands ==
  ASSUME TypeOK, RowStep, NEW s \in Submissions, Settled(s)
  PROVE  Settled(s)' /\ LegacyStatus(s)' = LegacyStatus(s)
<1>1. \A e \in Bundle(s) : e \in Executions /\ state'[e] = state[e]
  BY RowsOnlyAdvance DEF Settled, Terminal, Bundle
<1>2. Bundle(s)' = Bundle(s)
  BY DEF Bundle
<1>3. QED
  BY <1>1, <1>2 DEF Settled, Terminal, LegacyStatus

\* A dispatcher about to report holds the verdict on a settled bundle.
LEMMA PendingReportStep ==
  ASSUME TypeOK, ControlOK, ReportsAgree, RowStep, [Next]_vars,
         NEW d \in Dispatchers, pc'[d] = "syncwrite"
  PROVE  /\ Settled(SubmissionOf[cur[d]])'
         /\ pending'[d] = LegacyStatus(SubmissionOf[cur[d]])'
<1> USE DEF TypeOK, DispatchersOK, Goto
<1>1. CASE UNCHANGED <<pc[d], pending[d], cur[d]>>
  <2>1. cur[d] \in Executions /\ pc[d] = "syncwrite"
    BY <1>1, CurrentIsExecution
  <2> DEFINE s == SubmissionOf[cur[d]]
  <2>2. s \in Submissions
    BY <2>1, SubmissionOfAssumption
  <2>3. Settled(s) /\ pending[d] = LegacyStatus(s)
    BY <2>1 DEF ReportsAgree
  <2>4. Settled(s)' /\ LegacyStatus(s)' = LegacyStatus(s)
    BY <1>1, <2>2, <2>3, SettledStands
  <2>5. QED
    BY <1>1, <2>3, <2>4
<1>2. CASE SyncRead(d)
  <2>1. /\ cur[d] \in Executions /\ cur'[d] = cur[d] /\ UNCHANGED rows
        /\ Settled(SubmissionOf[cur[d]])
        /\ pending'[d] = LegacyStatus(SubmissionOf[cur[d]])
    BY <1>2, CurrentIsExecution DEF SyncRead, EndCycle
  <2>2. QED
    BY <2>1 DEF Settled, Terminal, LegacyStatus, Bundle
<1>3. CASE ~SyncRead(d) /\ ~UNCHANGED <<pc[d], pending[d], cur[d]>>
  <2>1. PICK c \in Dispatchers : Dispatch(c)
    BY <1>3, OthersLeaveDispatchers
  <2>2. c = d
    BY <1>3, <2>1
       DEF Dispatch, Work, Mishap, Start, Stop, Crash, ClaimHead, ClaimCommit,
           GiveBack, ClaimReplyLost, Activate, PrepareFails, MeasurementEnds,
           NoOutcome, PostProcess, Proceed, ReadRow, UpdateRow, UpdateRefused,
           UpdateReplyLost, CallFails, HandleInactive, HandleActive, SyncRead,
           SyncWrite, SyncFails, Raise, EndCycle
  <2>3. pc'[d] # "syncwrite"
    BY <1>3, <2>1, <2>2
       DEF Dispatch, Work, Mishap, Start, Stop, Crash, ClaimHead, ClaimCommit,
           GiveBack, ClaimReplyLost, Activate, PrepareFails, MeasurementEnds,
           NoOutcome, PostProcess, Proceed, ReadRow, UpdateRow, UpdateRefused,
           UpdateReplyLost, CallFails, HandleInactive, HandleActive, SyncWrite,
           SyncFails, Raise, EndCycle
  <2>4. QED
    BY <2>3
<1>4. QED
  BY <1>1, <1>2, <1>3

\* Who writes submissions.status: the intake, when it commits a bundle and
\* when it fails, and a dispatcher that has read a verdict.
StatusStep(s) ==
  \/ status'[s] = status[s]
  \/ status'[s] = "QUEUED" /\ intake[s] = "none" /\ intake'[s] = "writing"
  \/ status'[s] = "ERROR" /\ intake[s] = "failing" /\ intake'[s] = "failed"
  \/ \E d \in Dispatchers : /\ pc[d] = "syncwrite" /\ SubmissionOf[cur[d]] = s
                            /\ status'[s] = pending[d]
                            /\ UNCHANGED intake

LEMMA StatusMoves ==
  ASSUME TypeOK, [Next]_vars, NEW s \in Submissions
  PROVE  StatusStep(s)
<1> USE DEF TypeOK, RowsOK, OthersOK, StatusStep
<1>1. ASSUME NEW t \in Submissions, CreateBundle(t) \/ IntakeReport(t)
      PROVE  StatusStep(s)
  BY <1>1 DEF CreateBundle, IntakeReport
<1>2. ASSUME NEW d \in Dispatchers, SyncWrite(d) PROVE StatusStep(s)
  BY <1>2 DEF SyncWrite
<1>3. CASE /\ ~\E t \in Submissions : CreateBundle(t) \/ IntakeReport(t)
           /\ ~\E d \in Dispatchers : SyncWrite(d)
  <2>1. UNCHANGED status
    BY <1>3
       DEF Next, Intake, IntakeDone, IntakeFails, IntakeRead, IntakeMark, IntakeCrash,
           Dispatch, Work, Mishap, Start, Stop, Crash, ClaimHead, ClaimCommit,
           GiveBack, ClaimReplyLost, Activate, PrepareFails, MeasurementEnds,
           NoOutcome, PostProcess, Proceed, ReadRow, UpdateRow, UpdateRefused,
           UpdateReplyLost, CallFails, HandleInactive, HandleActive, SyncRead,
           SyncFails, DropSession, Heartbeat, Beat, LeaseDies, Cancel, CancelLock,
           CancelCommit, CancelRollback, Watchdog, WatchdogScan, WatchdogRecover,
           WatchdogAborts, vars
  <2>2. QED
    BY <2>1
<1>4. QED
  BY <1>1, <1>2, <1>3

\* No request starts twice, and one that has answered 503 is over.
LEMMA IntakeNeverRestarts ==
  ASSUME TypeOK, [Next]_vars, NEW s \in Submissions
  PROVE  /\ intake[s] = "failed" => intake'[s] = "failed"
         /\ intake'[s] = "none" => intake[s] = "none"
<1> USE DEF TypeOK, OthersOK
<1>1. ASSUME NEW t \in Submissions, Intake(t)
      PROVE  /\ intake[s] = "failed" => intake'[s] = "failed"
             /\ intake'[s] = "none" => intake[s] = "none"
  BY <1>1 DEF Intake, CreateBundle, IntakeDone, IntakeFails, IntakeRead, IntakeMark,
              IntakeReport, IntakeCrash
<1>2. CASE ~\E t \in Submissions : Intake(t)
  <2>1. UNCHANGED intake
    BY <1>2
       DEF Next, Dispatch, Work, Mishap, Start, Stop, Crash, ClaimHead, ClaimCommit,
           GiveBack, ClaimReplyLost, Activate, PrepareFails, MeasurementEnds,
           NoOutcome, PostProcess, Proceed, ReadRow, UpdateRow, UpdateRefused,
           UpdateReplyLost, CallFails, HandleInactive, HandleActive, SyncRead,
           SyncWrite, SyncFails, DropSession, Heartbeat, Beat, LeaseDies, Cancel,
           CancelLock, CancelCommit, CancelRollback, Watchdog, WatchdogScan,
           WatchdogRecover, WatchdogAborts, vars
  <2>2. QED
    BY <2>1
<1>3. QED
  BY <1>1, <1>2

\* A dispatcher reports the settled bundle of its execution.
LEMMA ReporterKnows ==
  ASSUME ReportsAgree, NEW d \in Dispatchers, pc[d] = "syncwrite",
         NEW s \in Submissions, SubmissionOf[cur[d]] = s
  PROVE  Settled(s) /\ pending[d] = LegacyStatus(s)
BY DEF ReportsAgree

LEMMA ReportsStep ==
  TypeOK /\ ControlOK /\ IntakeOK /\ ReportsAgree /\ RowStep /\ [Next]_vars
    => ReportsAgree'
<1> SUFFICES ASSUME TypeOK, ControlOK, IntakeOK, ReportsAgree, RowStep, [Next]_vars
             PROVE  ReportsAgree'
  OBVIOUS
<1>1. ASSUME NEW d \in Dispatchers, pc'[d] = "syncwrite"
      PROVE  /\ Settled(SubmissionOf[cur[d]])'
             /\ pending'[d] = LegacyStatus(SubmissionOf[cur[d]])'
  BY <1>1, PendingReportStep
<1>2. ASSUME NEW s \in Submissions, status'[s] \in {"finished", "ERROR"},
             intake'[s] # "failed"
      PROVE  Settled(s)' /\ status'[s] = LegacyStatus(s)'
  <2>1. Settled(s) /\ status'[s] = LegacyStatus(s)
    BY <1>2, StatusMoves, IntakeNeverRestarts, ReporterKnows
       DEF StatusStep, ReportsAgree
  <2>2. QED
    BY <2>1, SettledStands
<1>3. ASSUME NEW s \in Submissions, intake'[s] = "none"
      PROVE  status'[s] = "none"
  <2>1. intake[s] = "none" /\ status[s] = "none"
    BY <1>3, IntakeNeverRestarts DEF ReportsAgree
  <2>2. ~Settled(s)
    BY <2>1 DEF IntakeOK, Settled, Terminal, TerminalStates
  <2>3. QED
    BY <1>3, <2>1, <2>2, StatusMoves, ReporterKnows DEF StatusStep
<1>4. QED
  BY <1>1, <1>2, <1>3 DEF ReportsAgree

LEMMA CompletedStays ==
  ASSUME TypeOK, RowStep, NEW s \in Submissions,
         \A e \in Bundle(s) : state[e] = "COMPLETED"
  PROVE  \A e \in Bundle(s) : state'[e] = "COMPLETED"
BY RowsOnlyAdvance DEF Bundle, TerminalStates

LEMMA FinishedStep ==
  TypeOK /\ ReportsAgree /\ FinishedIsTrue /\ RowStep /\ [Next]_vars
    => FinishedIsTrue'
<1> SUFFICES ASSUME TypeOK, ReportsAgree, FinishedIsTrue, RowStep, [Next]_vars,
                    NEW s \in Submissions, status'[s] = "finished"
             PROVE  \A e \in Bundle(s) : state'[e] = "COMPLETED"
  BY DEF FinishedIsTrue, Bundle
<1>1. \A e \in Bundle(s) : state[e] = "COMPLETED"
  BY StatusMoves, ReporterKnows DEF StatusStep, FinishedIsTrue, LegacyStatus
<1>2. QED
  BY <1>1, CompletedStays

-----------------------------------------------------------------------------
(* The theorems.                                                           *)

LEMMA InvInit == Init => IInv
<1> SUFFICES ASSUME Init PROVE IInv
  OBVIOUS
<1> USE DEF Init
<1>1. TypeOK
  BY DEF TypeOK, RowsOK, DispatchersOK, OthersOK, RowStates, Statuses, Locations,
         Pendings, IntakeSteps, NoRow, Snapshot, NoRequest
<1>2. ControlOK /\ IntakeOK /\ ResultIffCompleted /\ UnclaimedNotStarted
  BY DEF ControlOK, IntakeOK, ResultIffCompleted, UnclaimedNotStarted, Bundle
<1>3. OwnedPastQueue /\ SoleOwner /\ NoOrphanLease
  BY ExecutionsAssumption DEF OwnedPastQueue, SoleOwner, NoOrphanLease, NoExecution
<1>4. FinishedIsTrue /\ ReportsAgree /\ LeasedIsFresh
  BY DEF FinishedIsTrue, ReportsAgree, LeasedIsFresh
<1>5. QED
  BY <1>1, <1>2, <1>3, <1>4 DEF IInv

LEMMA InvStep == IInv /\ [Next]_vars => IInv' /\ RowStep
<1> SUFFICES ASSUME IInv, [Next]_vars PROVE IInv' /\ RowStep
  OBVIOUS
<1> USE DEF IInv
<1>1. RowStep
  BY RowShape
<1>2. TypeOK' /\ ControlOK' /\ IntakeOK'
  BY <1>1, TypeStep, ControlStep, IntakeStep
<1>3. ResultIffCompleted' /\ UnclaimedNotStarted'
  BY <1>1, ResultStep, StartedStep
<1>4. OwnedPastQueue' /\ SoleOwner' /\ NoOrphanLease'
  BY <1>1, OwnerStep, LeaseStep
<1>5. FinishedIsTrue' /\ ReportsAgree' /\ LeasedIsFresh'
  BY <1>1, FinishedStep, ReportsStep, FreshStep
<1>6. QED
  BY <1>1, <1>2, <1>3, <1>4, <1>5

(* The inductive invariant holds in every reachable state.                 *)
THEOREM QueueInvariant == Spec => []IInv
<1>1. Init => IInv
  BY InvInit
<1>2. IInv /\ [Next]_vars => IInv'
  BY InvStep
<1>3. QED
  BY <1>1, <1>2, PTL DEF Spec

(* Every variable keeps its type: whatever the dispatchers, the intake,    *)
(* the cancellations and the watchdog write, the tables stay well formed.  *)
THEOREM QueueTypes == Spec => []TypeOK
<1>1. IInv => TypeOK
  BY DEF IInv
<1>2. QED
  BY <1>1, QueueInvariant, PTL

(* A cancelled execution was never claimed, for any number of requests and *)
(* dispatchers.                                                            *)
THEOREM CancelledWereQueued == Spec => []CancelledNeverStarted
<1>1. IInv => CancelledNeverStarted
  BY DEF IInv, UnclaimedNotStarted, CancelledNeverStarted
<1>2. QED
  BY <1>1, QueueInvariant, PTL

(* No execution is ever in two hands, although the advisory lock may be    *)
(* lost at any time and any number of dispatchers claim side by side.      *)
THEOREM OneOwner == Spec => []SoleOwner
<1>1. IInv => SoleOwner
  BY DEF IInv
<1>2. QED
  BY <1>1, QueueInvariant, PTL

(* No heartbeat thread outlives the cycle that started it.                 *)
THEOREM LeasesEndWithCycles == Spec => []NoOrphanLease
<1>1. IInv => NoOrphanLease
  BY DEF IInv
<1>2. QED
  BY <1>1, QueueInvariant, PTL

(* A submission reported as finished has only completed executions.        *)
THEOREM FinishedMeansCompleted == Spec => []FinishedIsTrue
<1>1. IInv => FinishedIsTrue
  BY DEF IInv
<1>2. QED
  BY <1>1, QueueInvariant, PTL

(* A bundle whose intake did not fail is reported when it is settled.      *)
THEOREM ReportsAreSettled == Spec => []ReportedIsSettled
<1>1. IInv => ReportedIsSettled
  BY DEF IInv, ReportsAgree, ReportedIsSettled, Settled
<1>2. QED
  BY <1>1, QueueInvariant, PTL

LEMMA ReportStands ==
  ASSUME IInv, [Next]_vars, NEW s \in Submissions,
         status[s] \in {"finished", "ERROR"}, intake[s] \notin {"failing", "failed"}
  PROVE  status'[s] = status[s]
<1>1. status[s] = LegacyStatus(s) /\ intake[s] # "none"
  BY DEF IInv, ReportsAgree
<1>2. QED
  BY <1>1, StatusMoves, ReporterKnows DEF IInv, StatusStep

(* No dispatcher ever changes a report, however many of them read and      *)
(* write the submission of one bundle.                                     *)
THEOREM ReportsStand == Spec => ReportIsFinal
<1>1. IInv /\ [Next]_vars =>
        [\A s \in Submissions :
           /\ status[s] \in {"finished", "ERROR"}
           /\ intake[s] \notin {"failing", "failed"}
           => status'[s] = status[s]]_vars
  BY ReportStands
<1>2. QED
  BY <1>1, QueueInvariant, PTL DEF Spec, ReportIsFinal

(* The queue, with all its actors and faults, implements the lifecycle of  *)
(* ExecutionLifecycle: allowed transitions only, one at a time, terminal   *)
(* rows for good, a result exactly with COMPLETED.                         *)
THEOREM QueueImplementsLifecycle == Spec => ImplementsLifecycle
<1>1. Init => Lifecycle!Init
  BY LifecycleInit
<1>2. IInv /\ [Next]_vars => [Lifecycle!Next]_(Lifecycle!vars)
  BY InvStep, LifecycleStep DEF IInv
<1>3. QED
  BY <1>1, <1>2, QueueInvariant, PTL DEF Spec, ImplementsLifecycle, Lifecycle!Spec

LEMMA RecoverSparesLeased ==
  ASSUME "slow" \notin Faults, IInv, NEW e \in Executions, WatchdogRecover(e),
         state'[e] # state[e]
  PROVE  \A d \in Dispatchers : e \notin lease[d]
<1>1. PICK c \in candidates : c.id = e /\ (StillStale(c) \/ UNCHANGED rows)
  BY DEF WatchdogRecover
<1>2. old[e]
  BY <1>1 DEF StillStale
<1>3. QED
  BY <1>2 DEF IInv, LeasedIsFresh

(* If heartbeat threads are prompt, the watchdog fails no execution whose  *)
(* thread is alive, not even one started after the scan that listed it.    *)
THEOREM LiveLeasesAreSafe ==
  ASSUME "slow" \notin Faults
  PROVE  Spec => LiveLeaseNeverRecovered
<1>1. IInv /\ [Next]_vars =>
        [\A e \in Executions :
           WatchdogRecover(e) /\ state'[e] # state[e] =>
             \A d \in Dispatchers : e \notin lease[d]]_vars
  BY RecoverSparesLeased
<1>2. QED
  BY <1>1, QueueInvariant, PTL DEF Spec, LiveLeaseNeverRecovered

-----------------------------------------------------------------------------
(* What the documents promise, and when it holds.  Three claims of the     *)
(* repository are too strong: a run refutes each.  The theorems below say  *)
(* what has to be excluded for each of them to be true.                    *)

\* The process that runs is the one whose session has the lock.
RunsWithLock == \A d \in Dispatchers : pc[d] # "off" => holder = d

LEMMA LockStep ==
  ASSUME "session" \notin Faults, TypeOK, ControlOK, RunsWithLock, [Next]_vars
  PROVE  RunsWithLock'
<1> USE DEF TypeOK, DispatchersOK, RunsWithLock, Goto
<1>1. ASSUME NEW d \in Dispatchers, Start(d) PROVE RunsWithLock'
  BY <1>1, DispatchersAssumption DEF Start
<1>2. ASSUME NEW d \in Dispatchers, Stop(d) \/ Crash(d) PROVE RunsWithLock'
  BY <1>2 DEF Stop, Crash, ReleaseLock
<1>3. ASSUME NEW d \in Dispatchers, ClaimHead(d) \/ Work(d) \/ Mishap(d), ~Crash(d)
      PROVE  RunsWithLock'
  <2>1. pc[d] # "off" /\ holder' = holder
    BY <1>3
       DEF Work, Mishap, ClaimHead, ClaimCommit, GiveBack, ClaimReplyLost, Activate,
           PrepareFails, MeasurementEnds, NoOutcome, PostProcess, Proceed, ReadRow,
           UpdateRow, UpdateRefused, UpdateReplyLost, CallFails, HandleInactive,
           HandleActive, SyncRead, SyncWrite, SyncFails
  <2>2. \A c \in Dispatchers \ {d} : pc'[c] = pc[c]
    BY <1>3
       DEF Work, Mishap, ClaimHead, ClaimCommit, GiveBack, ClaimReplyLost, Activate,
           PrepareFails, MeasurementEnds, NoOutcome, PostProcess, Proceed, ReadRow,
           UpdateRow, UpdateRefused, UpdateReplyLost, CallFails, HandleInactive,
           HandleActive, SyncRead, SyncWrite, SyncFails, Raise, EndCycle
  <2>3. QED
    BY <2>1, <2>2
<1>4. CASE ~\E d \in Dispatchers : Dispatch(d)
  <2>1. UNCHANGED holder
    BY <1>4
       DEF Next, Intake, CreateBundle, IntakeDone, IntakeFails, IntakeRead, IntakeMark,
           IntakeReport, IntakeCrash, DropSession, Heartbeat, Beat, LeaseDies, Cancel,
           CancelLock, CancelCommit, CancelRollback, Watchdog, WatchdogScan,
           WatchdogRecover, WatchdogAborts, vars
  <2>2. QED
    BY <1>4, <2>1, OthersLeaveDispatchers
<1>5. QED
  BY <1>1, <1>2, <1>3, <1>4 DEF Dispatch

(* At most one dispatcher operates, whatever else fails, as long as the    *)
(* connection that holds the advisory lock does not drop.                  *)
THEOREM LockMakesSingle ==
  ASSUME "session" \notin Faults
  PROVE  Spec => []SingleDispatcher
<1>1. Init => RunsWithLock
  BY DEF Init, RunsWithLock
<1>2. IInv /\ RunsWithLock /\ [Next]_vars => RunsWithLock'
  BY LockStep DEF IInv
<1>3. RunsWithLock => SingleDispatcher
  BY DEF RunsWithLock, SingleDispatcher
<1>4. QED
  BY <1>1, <1>2, <1>3, QueueInvariant, PTL DEF Spec

\* No cancellation under way will be refused for want of rights.
OnlyOwnersCancel ==
  \A r \in Requests : request[r].id # NoExecution => request[r].authorized

LEMMA ClaimTakesFirst ==
  ASSUME TypeOK, ControlOK, SingleDispatcher, OnlyOwnersCancel, [Next]_vars,
         NEW d \in Dispatchers, cur[d] = NoExecution, cur'[d] # NoExecution,
         NEW e \in Executions, state[e] = "QUEUED", ~BeingCancelled(e)
  PROVE  cur'[d] <= e
<1> USE DEF TypeOK, DispatchersOK
<1>1. ClaimHead(d)
  BY HandStep, CurrentIsExecution, ExecutionsAssumption DEF ClaimCommit, NoExecution
<1>2. PICK f \in Executions : First(f, Claimable) /\ cur' = [cur EXCEPT ![d] = f]
  BY <1>1 DEF ClaimHead
<1>3. \A c \in Dispatchers : ~Claiming(c, e)
  BY <1>1 DEF ClaimHead, SingleDispatcher, Claiming
<1>4. ~Locked(e)
  BY <1>3, ExecutionsAssumption
     DEF OnlyOwnersCancel, BeingCancelled, CancelAllowed, Locked, NoExecution
<1>5. QED
  BY <1>2, <1>4 DEF First, Claimable

(* Claims follow the queue as long as nobody asks to cancel what he may    *)
(* not and one dispatcher operates at a time, which LockMakesSingle says   *)
(* it does while the connection with the advisory lock lasts: a refused    *)
(* request and the claim of another dispatcher are the only ones whose row *)
(* lock a claim passes by for nothing.                                     *)
THEOREM ClaimsFollowTheQueue ==
  Spec /\ []OnlyOwnersCancel /\ []SingleDispatcher => ClaimIsFifo
<1>1. IInv /\ OnlyOwnersCancel /\ SingleDispatcher /\ [Next]_vars =>
        [\A d \in Dispatchers :
           cur[d] = NoExecution /\ cur'[d] # NoExecution =>
             \A e \in Executions :
               state[e] = "QUEUED" /\ ~BeingCancelled(e) => cur'[d] <= e]_vars
  BY ClaimTakesFirst DEF IInv
<1>2. QED
  BY <1>1, QueueInvariant, PTL DEF Spec, ClaimIsFifo

\* The failure handler writes nothing but FAILED.
HandlerFails ==
  \A d \in Dispatchers :
    pc[d] \in {"failread", "failwrite"} => pending[d] = "FAILED"

LEMMA HandlerStep ==
  ASSUME TypeOK, HandlerFails, [Next]_vars
  PROVE  HandlerFails'
<1> USE DEF TypeOK, DispatchersOK, HandlerFails, Goto
<1>1. ASSUME NEW d \in Dispatchers,
             \/ Start(d) \/ Stop(d) \/ ClaimHead(d) \/ ClaimCommit(d) \/ GiveBack(d)
      PROVE  HandlerFails'
  BY <1>1 DEF Start, Stop, ClaimHead, ClaimCommit, GiveBack, EndCycle
<1>2. ASSUME NEW d \in Dispatchers, Raise(d) PROVE HandlerFails'
  BY <1>2 DEF Raise, EndCycle
<1>3. ASSUME NEW d \in Dispatchers, Mishap(d) PROVE HandlerFails'
  <2>1. CASE Raise(d)
    BY <1>2, <2>1
  <2>2. CASE ~Raise(d)
    BY <1>3, <2>2
       DEF Mishap, Crash, ClaimReplyLost, UpdateReplyLost, CallFails, SyncFails,
           EndCycle
  <2>3. QED
    BY <2>1, <2>2
<1>4. ASSUME NEW d \in Dispatchers,
             \/ Activate(d) \/ PrepareFails(d) \/ MeasurementEnds(d) \/ NoOutcome(d)
             \/ PostProcess(d) \/ HandleInactive(d) \/ HandleActive(d)
      PROVE  HandlerFails'
  BY <1>4
     DEF Activate, PrepareFails, MeasurementEnds, NoOutcome, PostProcess, Proceed,
         HandleInactive, HandleActive
<1>5. ASSUME NEW d \in Dispatchers,
             \/ ReadRow(d) \/ UpdateRow(d) \/ UpdateRefused(d) \/ SyncRead(d)
             \/ SyncWrite(d)
      PROVE  HandlerFails'
  <2>1. CASE Raise(d)
    BY <1>2, <2>1
  <2>2. CASE ~Raise(d)
    BY <1>5, <2>2
       DEF ReadRow, UpdateRow, UpdateRefused, SyncRead, SyncWrite, EndCycle
  <2>3. QED
    BY <2>1, <2>2
<1>6. CASE ~\E d \in Dispatchers : Dispatch(d)
  BY <1>6, OthersLeaveDispatchers
<1>7. QED
  BY <1>1, <1>3, <1>4, <1>5, <1>6 DEF Dispatch, Work

\* While a dispatcher works on a row that is still active, its thread beats.
WorkIsLeased ==
  \A d \in Dispatchers : \A e \in Executions :
    Working(d, e) /\ Active(e) => e \in lease[d]

\* A thread is stopped by the dispatcher that leaves its work, and ends by
\* itself only when the row has ended.
LEMMA LeaseLasts ==
  ASSUME "lease" \notin Faults, TypeOK, [Next]_vars,
         NEW d \in Dispatchers, NEW e \in lease[d], Active(e), Working(d, e)'
  PROVE  e \in lease'[d]
<1> USE DEF TypeOK, DispatchersOK, Working, Goto
<1>1. ASSUME NEW c \in Dispatchers, Start(c) \/ Stop(c) \/ Crash(c) \/ ClaimHead(c)
      PROVE  e \in lease'[d]
  BY <1>1 DEF Start, Stop, Crash, ClaimHead
<1>2. ASSUME NEW c \in Dispatchers, Mishap(c) \/ Work(c),
             ~UNCHANGED lease, ~Crash(c), ~Activate(c)
      PROVE  StopLease(c) /\ pc'[c] \in {"idle", "fail", "sync"}
  BY <1>2
     DEF Mishap, Work, ClaimHead, ClaimCommit, GiveBack, ClaimReplyLost,
         PrepareFails, MeasurementEnds, NoOutcome, PostProcess, Proceed, ReadRow,
         UpdateRow, UpdateRefused, UpdateReplyLost, CallFails, HandleInactive,
         HandleActive, SyncRead, SyncWrite, SyncFails, Raise, EndCycle
<1>3. ASSUME NEW c \in Dispatchers, Activate(c)
      PROVE  e \in lease'[d]
  BY <1>3 DEF Activate
<1>4. ASSUME NEW c \in Dispatchers, Mishap(c) \/ Work(c)
      PROVE  e \in lease'[d]
  BY <1>1, <1>2, <1>3, <1>4 DEF StopLease
<1>5. CASE Heartbeat
  BY <1>5 DEF Heartbeat, Beat, LeaseDies
<1>6. CASE (~\E c \in Dispatchers : Dispatch(c)) /\ ~Heartbeat
  BY <1>6
     DEF Next, Intake, CreateBundle, IntakeDone, IntakeFails, IntakeRead, IntakeMark,
         IntakeReport, IntakeCrash, DropSession, Cancel, CancelLock, CancelCommit,
         CancelRollback, Watchdog, WatchdogScan, WatchdogRecover, WatchdogAborts, vars
<1>7. QED
  BY <1>1, <1>4, <1>5, <1>6 DEF Dispatch

\* Work begins with the activation, and goes on with the same execution.
LEMMA WorkBegins ==
  ASSUME TypeOK, HandlerFails, [Next]_vars, NEW d \in Dispatchers, NEW e \in Executions,
         Working(d, e)', ~Working(d, e)
  PROVE  e \in lease'[d]
<1> USE DEF TypeOK, DispatchersOK, Working, Goto
<1>1. PICK c \in Dispatchers : Dispatch(c)
  BY OthersLeaveDispatchers
<1>2. CASE Activate(c)
  BY <1>2 DEF Activate
<1>3. CASE Start(c) \/ Stop(c) \/ ClaimHead(c)
  BY <1>3 DEF Start, Stop, ClaimHead
<1>4. CASE Mishap(c)
  BY <1>4
     DEF Mishap, Crash, ClaimReplyLost, UpdateReplyLost, CallFails, SyncFails, Raise,
         EndCycle
<1>5. CASE Work(c) /\ ~Activate(c)
  <2>1. \A b \in Dispatchers \ {c} : pc'[b] = pc[b] /\ cur'[b] = cur[b]
    BY <1>5
       DEF Work, ClaimHead, ClaimCommit, GiveBack, PrepareFails, MeasurementEnds,
           NoOutcome, PostProcess, Proceed, ReadRow, UpdateRow, UpdateRefused,
           HandleInactive, HandleActive, SyncRead, SyncWrite, Raise, EndCycle
  <2>2. ASSUME pc'[c] \in {"serve", "read", "write", "graph"}
        PROVE  cur'[c] = cur[c] /\ pc[c] \in {"serve", "read", "write", "graph"}
    <3>1. ~Raise(c) /\ ~EndCycle(c)
      BY <2>2 DEF Raise, EndCycle
    <3>2. CASE MeasurementEnds(c) \/ PostProcess(c)
      BY <3>2 DEF MeasurementEnds, PostProcess, Proceed
    <3>3. CASE PrepareFails(c) \/ NoOutcome(c) \/ HandleInactive(c)
               \/ HandleActive(c)
      BY <2>2, <3>3 DEF PrepareFails, NoOutcome, HandleInactive, HandleActive,
                        Proceed
    <3>4. CASE ReadRow(c)
      BY <2>2, <3>1, <3>4 DEF ReadRow
    <3>5. CASE UpdateRow(c)
      <4>1. pc'[c] = IF pending[c] = "PROCESSING" THEN "graph" ELSE "sync"
        BY <3>5 DEF UpdateRow
      <4>2. pc[c] \in {"write", "failwrite"} /\ cur' = cur
        BY <3>5 DEF UpdateRow
      <4>3. pending[c] = "PROCESSING" => pc[c] = "write"
        BY <4>2 DEF HandlerFails
      <4>4. QED
        BY <2>2, <4>1, <4>2, <4>3
    <3>6. CASE \/ UpdateRefused(c) \/ SyncRead(c) \/ SyncWrite(c)
               \/ ClaimCommit(c) \/ GiveBack(c)
      BY <2>2, <3>1, <3>6
         DEF UpdateRefused, SyncRead, SyncWrite, ClaimCommit, GiveBack, EndCycle
    <3>7. QED
      BY <1>5, <3>2, <3>3, <3>4, <3>5, <3>6 DEF Work
  <2>3. QED
    BY <2>1, <2>2
<1>6. QED
  BY <1>1, <1>2, <1>3, <1>4, <1>5 DEF Dispatch

LEMMA WorkLeasedStep ==
  ASSUME "lease" \notin Faults, IInv, HandlerFails, WorkIsLeased, [Next]_vars
  PROVE  WorkIsLeased'
<1> SUFFICES ASSUME NEW d \in Dispatchers, NEW e \in Executions,
                    Working(d, e)', Active(e)'
             PROVE  e \in lease'[d]
  BY DEF WorkIsLeased
<1>1. CASE Working(d, e)
  <2>1. Active(e)
    <3>1. state[e] \notin {"ABSENT", "QUEUED"}
      BY <1>1 DEF IInv, OwnedPastQueue, Working
    <3>2. state[e] \notin TerminalStates
      BY InvStep, RowsOnlyAdvance
         DEF IInv, Active, ActiveStates, TerminalStates
    <3>3. QED
      BY <3>1, <3>2
         DEF IInv, TypeOK, RowsOK, RowStates, States, TerminalStates, Active,
             ActiveStates
  <2>2. QED
    BY <1>1, <2>1, LeaseLasts DEF WorkIsLeased, IInv
<1>2. CASE ~Working(d, e)
  BY <1>2, WorkBegins DEF IInv
<1>3. QED
  BY <1>1, <1>2

(* The watchdog recovers abandoned executions only, if heartbeat threads   *)
(* are prompt and do not end before their work does.                       *)
THEOREM RecoveredWereAbandoned ==
  ASSUME "slow" \notin Faults, "lease" \notin Faults
  PROVE  Spec => RecoversOnlyAbandoned
<1>1. Init => HandlerFails /\ WorkIsLeased
  BY DEF Init, HandlerFails, WorkIsLeased, Working
<1>2. IInv /\ HandlerFails /\ WorkIsLeased /\ [Next]_vars
        => HandlerFails' /\ WorkIsLeased'
  BY HandlerStep, WorkLeasedStep DEF IInv
<1>3. IInv /\ WorkIsLeased /\ [Next]_vars =>
        [\A e \in Executions :
           WatchdogRecover(e) /\ state'[e] # state[e] =>
             \A d \in Dispatchers : ~Working(d, e)]_vars
  <2> SUFFICES ASSUME IInv, WorkIsLeased, NEW e \in Executions, WatchdogRecover(e),
                      state'[e] # state[e], NEW d \in Dispatchers, Working(d, e)
               PROVE  FALSE
    OBVIOUS
  <2>1. PICK c \in candidates : c.id = e /\ StillStale(c)
    BY DEF WatchdogRecover, rows
  <2>2. Active(e)
    BY <2>1 DEF IInv, TypeOK, OthersOK, Candidate, StillStale, Unchanged, Active
  <2>3. e \in lease[d]
    BY <2>2 DEF WorkIsLeased
  <2>4. QED
    BY <2>3, RecoverSparesLeased
<1>4. QED
  BY <1>1, <1>2, <1>3, QueueInvariant, PTL DEF Spec, RecoversOnlyAbandoned

-----------------------------------------------------------------------------
(* Reports.  A bundle is due from the moment one of the actors that report *)
(* submissions is on its way to do so.                                     *)

Due(s) ==
  \/ status[s] \in {"finished", "ERROR"}
  \/ intake[s] \in {"failing", "marking"}
  \/ \E d \in Dispatchers :
       pc[d] \in {"sync", "syncwrite"} /\ SubmissionOf[cur[d]] = s

\* Every call returns and answers: no process dies, no call raises.
CallsSucceed == Faults \cap {"crash", "error", "reply"} = {}

\* What a failed intake has still to mark are rows of its bundle.
TodoOK == \A s \in Submissions : todo[s] \subseteq Bundle(s)

LEMMA OthersLeaveIntakes ==
  ASSUME [Next]_vars, ~\E s \in Submissions : Intake(s)
  PROVE  UNCHANGED intakes
BY
   DEF Next, Dispatch, Work, Mishap, Start, Stop, Crash, ClaimHead, ClaimCommit,
       GiveBack, ClaimReplyLost, Activate, PrepareFails, MeasurementEnds, NoOutcome,
       PostProcess, Proceed, ReadRow, UpdateRow, UpdateRefused, UpdateReplyLost,
       CallFails, HandleInactive, HandleActive, SyncRead, SyncWrite, SyncFails,
       DropSession, Heartbeat, Beat, LeaseDies, Cancel, CancelLock, CancelCommit,
       CancelRollback, Watchdog, WatchdogScan, WatchdogRecover, WatchdogAborts,
       vars, intakes

LEMMA TodoStep ==
  ASSUME TypeOK, TodoOK, [Next]_vars
  PROVE  TodoOK'
<1> USE DEF TypeOK, OthersOK, TodoOK, Bundle
<1>1. ASSUME NEW t \in Submissions, Intake(t) PROVE TodoOK'
  BY <1>1 DEF Intake, CreateBundle, IntakeDone, IntakeFails, IntakeRead, IntakeMark,
              IntakeReport, IntakeCrash
<1>2. CASE ~\E t \in Submissions : Intake(t)
  BY <1>2, OthersLeaveIntakes DEF intakes
<1>3. QED
  BY <1>1, <1>2

\* Whoever is on the way to report a settled bundle gets there.
LEMMA DueStays ==
  ASSUME CallsSucceed, IInv, [Next]_vars, NEW s \in Submissions, Settled(s), Due(s)
  PROVE  Due(s)'
<1> USE DEF IInv, TypeOK, CallsSucceed
<1>1. CASE status[s] \in {"finished", "ERROR"}
  <2>1. intake[s] # "none"
    BY DEF IntakeOK, Settled, Terminal, TerminalStates
  <2>2. status'[s] \in {"finished", "ERROR"}
    BY <1>1, <2>1, StatusMoves DEF StatusStep, ControlOK
  <2>3. QED
    BY <2>2 DEF Due
<1>2. CASE intake[s] \in {"failing", "marking"}
  <2>1. ASSUME NEW t \in Submissions, IntakeReport(t) PROVE Due(s)'
    BY <1>2, <2>1 DEF IntakeReport, Due, RowsOK, OthersOK
  <2>2. ASSUME NEW t \in Submissions, Intake(t), ~IntakeReport(t) PROVE Due(s)'
    <3>1. intake'[s] \in {"failing", "marking"}
      BY <1>2, <2>2
         DEF Intake, CreateBundle, IntakeDone, IntakeFails, IntakeRead, IntakeMark,
             IntakeCrash, OthersOK
    <3>2. QED
      BY <3>1 DEF Due
  <2>3. CASE ~\E t \in Submissions : Intake(t)
    BY <1>2, <2>3, OthersLeaveIntakes DEF Due, intakes
  <2>4. QED
    BY <2>1, <2>2, <2>3
<1>3. ASSUME NEW d \in Dispatchers, pc[d] \in {"sync", "syncwrite"},
             SubmissionOf[cur[d]] = s
      PROVE  Due(s)'
  <2>1. CASE ~\E c \in Dispatchers : Dispatch(c)
    BY <1>3, <2>1, OthersLeaveDispatchers DEF Due
  <2>2. ASSUME NEW c \in Dispatchers, Dispatch(c), c # d PROVE Due(s)'
    BY <1>3, <2>2, DispatchersMoveThemselves DEF Due
  <2>3. CASE SyncRead(d)
    <3>1. pc'[d] = "syncwrite" /\ cur' = cur
      BY <1>3, <2>3 DEF SyncRead, Goto, DispatchersOK
    <3>2. QED
      BY <1>3, <3>1 DEF Due
  <2>4. CASE SyncWrite(d)
    <3>1. status'[s] = pending[d] /\ pending[d] \in {"finished", "ERROR"}
      BY <1>3, <2>4 DEF SyncWrite, ControlOK, RowsOK
    <3>2. QED
      BY <3>1 DEF Due
  <2>5. CASE Dispatch(d) /\ ~SyncRead(d) /\ ~SyncWrite(d)
    BY <1>3, <2>5
       DEF Dispatch, Work, Mishap, Start, Stop, Crash, ClaimHead, ClaimCommit,
           GiveBack, ClaimReplyLost, Activate, PrepareFails, MeasurementEnds,
           NoOutcome, PostProcess, ReadRow, UpdateRow, UpdateRefused,
           UpdateReplyLost, CallFails, HandleInactive, HandleActive, SyncFails
  <2>6. QED
    BY <2>1, <2>2, <2>3, <2>4, <2>5
<1>4. QED
  BY <1>1, <1>2, <1>3 DEF Due

\* Who ends an execution: a dispatcher and a failing intake, on their way
\* to report its bundle, or a cancellation or the watchdog, which are not.
EndedSilently(e) ==
  \/ state'[e] = "CANCELLED" /\ \E r \in Requests : CancelCommit(r)
  \/ state'[e] = "FAILED" /\ \E f \in Executions : WatchdogRecover(f)

LEMMA EndsAreDue ==
  ASSUME CallsSucceed, IInv, TodoOK, [Next]_vars,
         NEW e \in Executions, ~Terminal(e), Terminal(e)'
  PROVE  EndedSilently(e) \/ Due(SubmissionOf[e])'
<1> USE DEF IInv, TypeOK, RowsOK, CallsSucceed
<1>0. state'[e] # state[e] /\ state'[e] \in TerminalStates
  BY DEF Terminal
<1>1. ASSUME NEW d \in Dispatchers, UpdateRow(d) PROVE Due(SubmissionOf[e])'
  <2>1. cur[d] \in Executions
    BY <1>1, CurrentIsExecution DEF UpdateRow
  <2>2. cur[d] = e /\ pending[d] = state'[e]
    BY <1>0, <1>1, <2>1 DEF UpdateRow, SetState
  <2>3. pc'[d] = "sync" /\ cur'[d] = e
    BY <1>0, <1>1, <2>2 DEF UpdateRow, Goto, TerminalStates, DispatchersOK
  <2>4. QED
    BY <2>3 DEF Due
<1>2. ASSUME NEW t \in Submissions, IntakeMark(t) PROVE Due(SubmissionOf[e])'
  <2>1. PICK f \in todo[t] : SetState(f, "FAILED")
    BY <1>0, <1>2 DEF IntakeMark, rows
  <2>2. f = e /\ SubmissionOf[e] = t
    BY <1>0, <2>1 DEF SetState, TodoOK, Bundle
  <2>3. intake'[t] = "failing"
    BY <1>2 DEF IntakeMark, OthersOK
  <2>4. QED
    BY <2>2, <2>3 DEF Due
<1>3. ASSUME NEW r \in Requests, CancelCommit(r) PROVE EndedSilently(e)
  BY <1>0, <1>3 DEF CancelCommit, SetState, EndedSilently, OthersOK
<1>4. ASSUME NEW f \in Executions, WatchdogRecover(f) PROVE EndedSilently(e)
  BY <1>0, <1>4 DEF WatchdogRecover, rows, SetState, EndedSilently
<1>5. ASSUME NEW d \in Dispatchers, ClaimCommit(d) PROVE FALSE
  BY <1>0, <1>5 DEF ClaimCommit, SetState, TerminalStates
<1>6. ASSUME NEW t \in Submissions, CreateBundle(t) PROVE FALSE
  BY <1>0, <1>6 DEF CreateBundle, TerminalStates
<1>7. CASE /\ ~\E t \in Submissions : CreateBundle(t) \/ IntakeMark(t)
           /\ ~\E d \in Dispatchers : ClaimCommit(d) \/ UpdateRow(d)
           /\ ~\E r \in Requests : CancelCommit(r)
           /\ ~\E f \in Executions : WatchdogRecover(f)
  <2>1. UNCHANGED state
    BY <1>7
       DEF Next, Intake, IntakeDone, IntakeFails, IntakeRead, IntakeReport, IntakeCrash,
           Dispatch, Work, ClaimHead, ClaimCommit, GiveBack, Mishap, Start, Stop,
           Crash, ClaimReplyLost, Activate, PrepareFails, MeasurementEnds,
           NoOutcome, PostProcess, Proceed, ReadRow, UpdateRefused, UpdateReplyLost,
           CallFails, HandleInactive, HandleActive, SyncRead, SyncWrite, SyncFails,
           DropSession, Heartbeat, Beat, LeaseDies, Cancel, CancelLock,
           CancelRollback, Watchdog, WatchdogScan, WatchdogAborts, rows, vars
  <2>2. QED
    BY <1>0, <2>1
<1>8. QED
  BY <1>1, <1>2, <1>3, <1>4, <1>5, <1>6, <1>7

\* The last row of a bundle ends.
LEMMA LastEnd ==
  ASSUME IInv, [Next]_vars, NEW s \in Submissions, ~Settled(s), Settled(s)'
  PROVE  \E e \in Bundle(s) : ~Terminal(e) /\ Terminal(e)'
BY DEF Settled, Bundle, Terminal

(* If every call succeeds, the step that ends the last execution of a      *)
(* bundle is the dispatcher's or the intake's, and then the bundle is due  *)
(* and stays due until its report is written; or it is a cancellation or   *)
(* the watchdog, and these alone leave a settled bundle without a report.  *)
THEOREM LastEndIsReported ==
  ASSUME CallsSucceed
  PROVE  Spec => [][\A s \in Submissions :
                      /\ ~Settled(s) /\ Settled(s)' =>
                           Due(s)' \/ \E e \in Bundle(s) : EndedSilently(e)
                      /\ Settled(s) /\ Due(s) => Due(s)']_vars
<1>1. Init => TodoOK
  BY DEF Init, TodoOK
<1>2. IInv /\ TodoOK /\ [Next]_vars => TodoOK'
  BY TodoStep DEF IInv
<1>3. IInv /\ TodoOK /\ [Next]_vars =>
        [\A s \in Submissions :
           /\ ~Settled(s) /\ Settled(s)' =>
                Due(s)' \/ \E e \in Bundle(s) : EndedSilently(e)
           /\ Settled(s) /\ Due(s) => Due(s)']_vars
  <2> SUFFICES ASSUME IInv, TodoOK, [Next]_vars, NEW s \in Submissions
               PROVE  /\ ~Settled(s) /\ Settled(s)' =>
                           Due(s)' \/ \E e \in Bundle(s) : EndedSilently(e)
                      /\ Settled(s) /\ Due(s) => Due(s)'
    OBVIOUS
  <2>1. ASSUME ~Settled(s), Settled(s)'
        PROVE  Due(s)' \/ \E e \in Bundle(s) : EndedSilently(e)
    <3>1. PICK e \in Bundle(s) : ~Terminal(e) /\ Terminal(e)'
      BY <2>1, LastEnd
    <3>2. e \in Executions /\ SubmissionOf[e] = s
      BY DEF Bundle
    <3>3. QED
      BY <3>1, <3>2, EndsAreDue
  <2>2. QED
    BY <2>1, DueStays
<1>4. QED
  BY <1>1, <1>2, <1>3, QueueInvariant, PTL DEF Spec

AllCompleted(s) == Bundle(s) # {} /\ \A e \in Bundle(s) : state[e] = "COMPLETED"

CompletedIsDue == \A s \in Submissions : AllCompleted(s) => Due(s)

LEMMA CompletedDueStep ==
  ASSUME CallsSucceed, IInv, TodoOK, CompletedIsDue, [Next]_vars
  PROVE  CompletedIsDue'
<1> SUFFICES ASSUME NEW s \in Submissions, AllCompleted(s)' PROVE Due(s)'
  BY DEF CompletedIsDue
<1>1. CASE AllCompleted(s)
  BY <1>1, DueStays DEF AllCompleted, CompletedIsDue, Settled, Terminal, TerminalStates
<1>2. CASE ~AllCompleted(s)
  <2>1. PICK e \in Bundle(s) : state[e] # "COMPLETED" /\ state'[e] = "COMPLETED"
    BY <1>2 DEF AllCompleted, Bundle
  <2>2. e \in Executions /\ SubmissionOf[e] = s
    BY DEF Bundle
  <2>3. ~Terminal(e) /\ Terminal(e)'
    BY <2>1, <2>2, InvStep, RowsOnlyAdvance DEF IInv, Terminal, TerminalStates
  <2>4. QED
    BY <2>1, <2>2, <2>3, EndsAreDue DEF EndedSilently
<1>3. QED
  BY <1>1, <1>2

(* If every call succeeds, a bundle whose executions have all completed is *)
(* reported as finished, or somebody is about to report it, for ever.      *)
THEOREM CompletedIsReported ==
  ASSUME CallsSucceed
  PROVE  Spec => []CompletedIsDue
<1>1. Init => TodoOK /\ CompletedIsDue
  BY DEF Init, TodoOK, CompletedIsDue, AllCompleted, Bundle
<1>2. IInv /\ TodoOK /\ CompletedIsDue /\ [Next]_vars => TodoOK' /\ CompletedIsDue'
  BY TodoStep, CompletedDueStep DEF IInv
<1>3. QED
  BY <1>1, <1>2, QueueInvariant, PTL DEF Spec

-----------------------------------------------------------------------------
(* What the readers of the table may rely on.                              *)

(* From one state to the next a row stays, appears in QUEUED or takes one  *)
(* allowed transition, and its version never goes back.  The screens that  *)
(* poll executions are modelled over a server that moves rows this way.    *)
THEOREM RowsMoveAsDeclared ==
  Spec => [][\A e \in Executions :
               /\ \/ state'[e] = state[e]
                  \/ state[e] = "ABSENT" /\ state'[e] = "QUEUED"
                  \/ CanTransition(state[e], state'[e])
               /\ version'[e] >= version[e]
               /\ state'[e] # state[e] /\ state[e] # "ABSENT" =>
                    version'[e] = version[e] + 1]_vars
<1>1. ASSUME IInv, RowStep, NEW e \in Executions
      PROVE  /\ \/ state'[e] = state[e]
                \/ state[e] = "ABSENT" /\ state'[e] = "QUEUED"
                \/ CanTransition(state[e], state'[e])
             /\ version'[e] >= version[e]
             /\ state'[e] # state[e] /\ state[e] # "ABSENT" =>
                  version'[e] = version[e] + 1
  <2> USE DEF IInv, TypeOK, RowsOK
  <2>1. CASE UNCHANGED rows
    BY <1>1, <2>1 DEF rows
  <2>2. ASSUME NEW s \in Submissions, CommitBundle(s)
        PROVE  /\ \/ state'[e] = state[e]
                  \/ state[e] = "ABSENT" /\ state'[e] = "QUEUED"
               /\ version'[e] = version[e]
    BY <2>2 DEF CommitBundle
  <2>3. ASSUME NEW f \in Executions, NEW to \in States, Transit(f, to)
        PROVE  \/ f # e /\ state'[e] = state[e] /\ version'[e] = version[e]
               \/ CanTransition(state[e], state'[e]) /\ version'[e] = version[e] + 1
    BY <1>1, <2>3 DEF Transit, SetState
  <2>4. QED
    BY <1>1, <2>1, <2>2, <2>3 DEF RowStep
<1>2. IInv /\ [Next]_vars =>
        [\A e \in Executions :
           /\ \/ state'[e] = state[e]
              \/ state[e] = "ABSENT" /\ state'[e] = "QUEUED"
              \/ CanTransition(state[e], state'[e])
           /\ version'[e] >= version[e]
           /\ state'[e] # state[e] /\ state[e] # "ABSENT" =>
                version'[e] = version[e] + 1]_vars
  BY <1>1, InvStep
<1>3. QED
  BY <1>2, QueueInvariant, PTL DEF Spec
=============================================================================
