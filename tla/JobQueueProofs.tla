--------------------------- MODULE JobQueueProofs ---------------------------
(***************************************************************************)
(* Theorems about JobQueue, for every set of workers and runs and every    *)
(* budget of faults, except where a theorem assumes a budget to be zero.   *)
(***************************************************************************)
EXTENDS JobQueue, FiniteSetTheorems, TLAPS

LEMMA FaultType ==
    ASSUME TypeOK, NEW k \in FaultKinds, Fault(k)
    PROVE  faults' \in [FaultKinds -> Nat]
<1>1. faults[k] \in Nat /\ faults[k] > 0
  BY DEF TypeOK, Fault
<1>2. faults[k] - 1 \in Nat
  BY <1>1
<1> QED
  BY <1>2 DEF TypeOK, Fault

LEMMA Kinds ==
    /\ "crash" \in FaultKinds /\ "stop" \in FaultKinds
    /\ "coordLoss" \in FaultKinds /\ "execLoss" \in FaultKinds
    /\ "rowLock" \in FaultKinds /\ "dbError" \in FaultKinds
    /\ "diskError" \in FaultKinds /\ "requestLost" \in FaultKinds
  BY DEF FaultKinds

LEMMA TypeInit == Init => TypeOK
  BY FaultsAssumption DEF Init, TypeOK, Terminal, Pending, ManagerPCs, Phases, Ended

LEMMA TypeRequest ==
    ASSUME TypeOK, NEW j \in Jobs, Request(j)
    PROVE  TypeOK'
<1>1. CASE CreateRun(j)
  BY <1>1 DEF TypeOK, CreateRun, lockVars, workerVars, Pending, Terminal
<1>2. CASE EnqueueLoad(j)
  BY <1>2 DEF TypeOK, EnqueueLoad, lockVars, workerVars
<1>3. CASE EnqueueUpdate(j)
  BY <1>3 DEF TypeOK, EnqueueUpdate, lockVars, workerVars, Pending, Terminal
<1>4. CASE RequestLost(j)
  BY <1>4, FaultType, Kinds DEF TypeOK, RequestLost, lockVars, workerVars
<1> QED
  BY <1>1, <1>2, <1>3, <1>4 DEF Request

LEMMA TypeCoordinate ==
    ASSUME TypeOK, NEW m \in Managers, Coordinate(m)
    PROVE  TypeOK'
<1> USE DEF TypeOK, queueVars, lockVars, ManagerPCs
<1>1. CASE TryCoordinator(m)
  BY <1>1 DEF TryCoordinator
<1>2. CASE TryExecution(m)
  BY <1>2 DEF TryExecution
<1>3. CASE RecoverPending(m)
  BY <1>3 DEF RecoverPending, Recovered, Pending
<1>4. CASE LoopHead(m)
  BY <1>4 DEF LoopHead
<1>5. CASE ClaimNone(m)
  BY <1>5 DEF ClaimNone
<1>6. CASE ClaimNextJob(m)
  BY <1>6 DEF ClaimNextJob, Oldest, Lockable, Pending, Phases
<1>7. CASE MonitorLoss(m)
  BY <1>7 DEF MonitorLoss
<1>8. CASE TaskEnds(m)
  BY <1>8 DEF TaskEnds, Phases
<1>9. CASE ReleaseExecution(m)
  BY <1>9 DEF ReleaseExecution
<1>10. CASE ReleaseCoordinator(m)
  BY <1>10 DEF ReleaseCoordinator
<1>11. CASE ExitLoop(m)
  BY <1>11 DEF ExitLoop
<1> QED
  BY <1>1, <1>2, <1>3, <1>4, <1>5, <1>6, <1>7, <1>8, <1>9, <1>10, <1>11
     DEF Coordinate

LEMMA TypeProcess ==
    ASSUME TypeOK, NEW m \in Managers, Process(m)
    PROVE  TypeOK'
<1> USE DEF TypeOK, queueVars, lockVars, Phases, Ended, Enter
<1>1. CASE ProcessorReturns(m)
  BY <1>1 DEF ProcessorReturns
<1>2. CASE ProcessorRaises(m)
  BY <1>2 DEF ProcessorRaises
<1>3. CASE LoadResult(m)
  BY <1>3, FaultType, Kinds DEF LoadResult
<1>4. CASE Complete(m)
  BY <1>4 DEF Complete, Terminal
<1>5. CASE Fail(m)
  BY <1>5 DEF Fail, Terminal
<1>6. CASE WriteFailure(m)
  BY <1>6, FaultType, Kinds DEF WriteFailure
<1> QED
  BY <1>1, <1>2, <1>3, <1>4, <1>5, <1>6 DEF Process

LEMMA TypeDatabaseFails ==
    ASSUME TypeOK, NEW m \in Managers, DatabaseFails(m)
    PROVE  TypeOK'
<1> USE FaultType, Kinds DEF TypeOK, lockVars, ManagerPCs
<1>1. CASE RecoverFails(m)
  BY <1>1 DEF RecoverFails, Recovered, Pending
<1>2. CASE ClaimFails(m)
  BY <1>2 DEF ClaimFails, Pending
<1>3. CASE CompleteFails(m)
  BY <1>3 DEF CompleteFails, Terminal, Enter, Phases
<1>4. CASE FailFails(m)
  BY <1>4 DEF FailFails, Terminal, Enter, Phases, Ended
<1> QED
  BY <1>1, <1>2, <1>3, <1>4 DEF DatabaseFails

LEMMA TypeDisturb ==
    ASSUME TypeOK, NEW m \in Managers, Disturb(m)
    PROVE  TypeOK'
<1> USE FaultType, Kinds DEF TypeOK, queueVars, lockVars, ManagerPCs
<1>1. CASE Stop(m)
  BY <1>1 DEF Stop
<1>2. CASE Crash(m)
  BY <1>2 DEF Crash, Phases
<1>3. CASE Start(m)
  BY <1>3 DEF Start
<1> QED
  BY <1>1, <1>2, <1>3 DEF Disturb

LEMMA TypeEnvironment ==
    ASSUME TypeOK,
           \/ LoseCoordinator
           \/ LoseExecution
           \/ \E j \in Jobs : LockRow(j) \/ UnlockRow(j)
    PROVE  TypeOK'
<1> USE FaultType, Kinds DEF TypeOK, queueVars, lockVars, workerVars
<1>1. CASE LoseCoordinator
  BY <1>1 DEF LoseCoordinator
<1>2. CASE LoseExecution
  BY <1>2 DEF LoseExecution
<1>3. ASSUME NEW j \in Jobs, LockRow(j) PROVE TypeOK'
  BY <1>3 DEF LockRow
<1>4. ASSUME NEW j \in Jobs, UnlockRow(j) PROVE TypeOK'
  BY <1>4 DEF UnlockRow
<1> QED
  BY <1>1, <1>2, <1>3, <1>4

(* Every variable keeps its type, whatever fails and in whatever order.    *)
THEOREM TypeCorrect == Spec => []TypeOK
<1>1. TypeOK /\ [Next]_vars => TypeOK'
  <2> SUFFICES ASSUME TypeOK, [Next]_vars PROVE TypeOK'
    OBVIOUS
  <2>1. CASE UNCHANGED vars
    BY <2>1 DEF vars, TypeOK
  <2>2. CASE Next
    BY <2>2, TypeRequest, TypeCoordinate, TypeProcess, TypeDatabaseFails,
       TypeDisturb, TypeEnvironment DEF Next
  <2> QED
    BY <2>1, <2>2
<1> QED
  BY TypeInit, <1>1, PTL DEF Spec

-----------------------------------------------------------------------------
(* The fence.  As long as no execution connection is lost, a worker that   *)
(* recovers, leads or processes holds the execution lock; the lock has one *)
(* holder, so at most one worker does.                                     *)

NoExecLoss == faults["execLoss"] = 0

Fenced ==
    \A m \in Managers : pc[m] \in {"recover", "lead", "claim", "run"} => execLock = m

TaskWhileRunning ==
    \A m \in Managers : /\ phase[m] # "none" <=> pc[m] = "run"
                        /\ pc[m] = "run" => taskJob[m] \in Jobs

FenceInv == TypeOK /\ NoExecLoss /\ Fenced /\ TaskWhileRunning

LEMMA FenceInit ==
    ASSUME MaxFaults["execLoss"] = 0, Init
    PROVE  FenceInv
  BY TypeInit DEF Init, FenceInv, NoExecLoss, Fenced, TaskWhileRunning

LEMMA FenceRequest ==
    ASSUME FenceInv, NEW j \in Jobs, Request(j)
    PROVE  FenceInv'
<1>1. TypeOK'
  BY TypeRequest DEF FenceInv
<1>2. UNCHANGED <<pc, phase, taskJob, execLock>> /\ faults'["execLoss"] = faults["execLoss"]
  BY Kinds DEF Request, CreateRun, EnqueueLoad, EnqueueUpdate, RequestLost, Fault,
         FenceInv, TypeOK, lockVars, workerVars
<1> QED
  BY <1>1, <1>2 DEF FenceInv, NoExecLoss, Fenced, TaskWhileRunning

LEMMA FenceCoordinate ==
    ASSUME FenceInv, NEW m \in Managers, Coordinate(m)
    PROVE  FenceInv'
<1>1. TypeOK'
  BY TypeCoordinate DEF FenceInv
<1> USE DEF FenceInv, TypeOK, NoExecLoss, Fenced, TaskWhileRunning, queueVars, lockVars
<1>2. CASE TryCoordinator(m)
  BY <1>1, <1>2 DEF TryCoordinator
<1>3. CASE TryExecution(m)
  BY <1>1, <1>3, NoManagerAssumption DEF TryExecution
<1>4. CASE RecoverPending(m)
  BY <1>1, <1>4 DEF RecoverPending
<1>5. CASE LoopHead(m)
  BY <1>1, <1>5 DEF LoopHead
<1>6. CASE ClaimNone(m)
  BY <1>1, <1>6 DEF ClaimNone
<1>7. CASE ClaimNextJob(m)
  BY <1>1, <1>7 DEF ClaimNextJob, Oldest, Lockable
<1>8. CASE MonitorLoss(m)
  BY <1>1, <1>8 DEF MonitorLoss
<1>9. CASE TaskEnds(m)
  BY <1>1, <1>9 DEF TaskEnds
<1>10. CASE ReleaseExecution(m)
  BY <1>1, <1>10 DEF ReleaseExecution
<1>11. CASE ReleaseCoordinator(m)
  BY <1>1, <1>11 DEF ReleaseCoordinator
<1>12. CASE ExitLoop(m)
  BY <1>1, <1>12 DEF ExitLoop
<1> QED
  BY <1>2, <1>3, <1>4, <1>5, <1>6, <1>7, <1>8, <1>9, <1>10, <1>11, <1>12
     DEF Coordinate

(* A step of the task moves it to another phase and leaves locks alone.    *)
LEMMA FenceProcess ==
    ASSUME FenceInv, NEW m \in Managers, Process(m)
    PROVE  FenceInv'
<1>1. TypeOK'
  BY TypeProcess DEF FenceInv
<1>2. /\ UNCHANGED <<pc, taskJob, execLock>>
      /\ \E p \in Phases \ {"none"} : phase' = [phase EXCEPT ![m] = p]
      /\ phase[m] # "none"
      /\ faults'["execLoss"] = faults["execLoss"]
  BY Kinds DEF FenceInv, TypeOK, Process, ProcessorReturns, ProcessorRaises, LoadResult,
         Complete, Fail, WriteFailure, Enter, Fault, Phases, Ended, lockVars
<1> QED
  BY <1>1, <1>2 DEF FenceInv, TypeOK, NoExecLoss, Fenced, TaskWhileRunning

LEMMA FenceDatabaseFails ==
    ASSUME FenceInv, NEW m \in Managers, DatabaseFails(m)
    PROVE  FenceInv'
<1>1. TypeOK'
  BY TypeDatabaseFails DEF FenceInv
<1> USE Kinds DEF FenceInv, TypeOK, NoExecLoss, Fenced, TaskWhileRunning, lockVars, Fault
<1>2. CASE RecoverFails(m)
  BY <1>1, <1>2 DEF RecoverFails
<1>3. CASE ClaimFails(m)
  BY <1>1, <1>3 DEF ClaimFails
<1>4. CASE CompleteFails(m)
  BY <1>1, <1>4 DEF CompleteFails, Enter
<1>5. CASE FailFails(m)
  BY <1>1, <1>5 DEF FailFails, Enter
<1> QED
  BY <1>2, <1>3, <1>4, <1>5 DEF DatabaseFails

LEMMA FenceDisturb ==
    ASSUME FenceInv, NEW m \in Managers, Disturb(m)
    PROVE  FenceInv'
<1>1. TypeOK'
  BY TypeDisturb DEF FenceInv
<1> USE Kinds DEF FenceInv, TypeOK, NoExecLoss, Fenced, TaskWhileRunning, queueVars,
                  lockVars, Fault
<1>2. CASE Stop(m)
  BY <1>1, <1>2 DEF Stop
<1>3. CASE Crash(m)
  BY <1>1, <1>3 DEF Crash
<1>4. CASE Start(m)
  BY <1>1, <1>4 DEF Start
<1> QED
  BY <1>2, <1>3, <1>4 DEF Disturb

LEMMA FenceEnvironment ==
    ASSUME FenceInv,
           \/ LoseCoordinator
           \/ LoseExecution
           \/ \E j \in Jobs : LockRow(j) \/ UnlockRow(j)
    PROVE  FenceInv'
<1>1. TypeOK'
  BY TypeEnvironment DEF FenceInv
<1>2. ~LoseExecution
  BY DEF FenceInv, NoExecLoss, LoseExecution, Fault
<1>3. UNCHANGED <<execLock, pc, phase, taskJob>> /\ faults'["execLoss"] = faults["execLoss"]
  BY <1>2, Kinds DEF LoseCoordinator, LockRow, UnlockRow, Fault, FenceInv, TypeOK,
                     queueVars, lockVars, workerVars
<1> QED
  BY <1>1, <1>3 DEF FenceInv, NoExecLoss, Fenced, TaskWhileRunning

LEMMA FenceStep == FenceInv /\ [Next]_vars => FenceInv'
<1> SUFFICES ASSUME FenceInv, [Next]_vars PROVE FenceInv'
  OBVIOUS
<1>1. CASE UNCHANGED vars
  BY <1>1 DEF vars, FenceInv, TypeOK, NoExecLoss, Fenced, TaskWhileRunning
<1>2. CASE Next
  BY <1>2, FenceRequest, FenceCoordinate, FenceProcess, FenceDatabaseFails,
     FenceDisturb, FenceEnvironment DEF Next
<1> QED
  BY <1>1, <1>2

THEOREM FenceHolds == ASSUME MaxFaults["execLoss"] = 0 PROVE Spec => []FenceInv
<1>1. Init => FenceInv
  BY FenceInit
<1> QED
  BY <1>1, FenceStep, PTL DEF Spec

(* At most one worker processes at any time, however often workers crash,  *)
(* stop or lose the coordinator connection.                                *)
THEOREM ExclusiveExecution == ASSUME MaxFaults["execLoss"] = 0 PROVE Spec => []NoOverlap
<1>1. FenceInv => NoOverlap
  BY DEF FenceInv, Fenced, TaskWhileRunning, NoOverlap, Processing
<1> QED
  BY <1>1, FenceHolds, PTL

(* Until an attempt has recorded its outcome its job has not ended: only   *)
(* the attempt itself could end it, since it is the only one.              *)
AttemptOpen ==
    \A m \in Managers : phase[m] \in {"processor", "returned", "complete"} =>
        jobState[taskJob[m]] \in Pending

LEMMA AttemptOpenStep ==
    ASSUME FenceInv, FenceInv', AttemptOpen, [Next]_vars
    PROVE  AttemptOpen'
<1> USE DEF FenceInv, TypeOK, AttemptOpen, Pending, Terminal
<1>1. CASE UNCHANGED vars
  BY <1>1 DEF vars
<1>2. ASSUME NEW j \in Jobs, Request(j) PROVE AttemptOpen'
  BY <1>2 DEF TaskWhileRunning, Request, CreateRun, EnqueueLoad, EnqueueUpdate, RequestLost, lockVars,
     workerVars
<1>3. ASSUME NEW m \in Managers, Coordinate(m) PROVE AttemptOpen'
  <2>1. CASE RecoverPending(m)
    BY <1>3, <2>1 DEF RecoverPending, Recovered, TaskWhileRunning, lockVars
  <2>2. CASE ClaimNextJob(m)
    BY <1>3, <2>2 DEF ClaimNextJob, Oldest, Lockable, TaskWhileRunning, lockVars
  <2>3. CASE TaskEnds(m)
    BY <1>3, <2>3 DEF TaskEnds, TaskWhileRunning, queueVars
  <2>4. CASE ~(RecoverPending(m) \/ ClaimNextJob(m) \/ TaskEnds(m))
    BY <1>3, <2>4 DEF Coordinate, TryCoordinator, TryExecution, LoopHead, ClaimNone, MonitorLoss,
       ReleaseExecution, ReleaseCoordinator, ExitLoop, queueVars, TaskWhileRunning
  <2> QED
    BY <2>1, <2>2, <2>3, <2>4
<1>4. ASSUME NEW m \in Managers, Process(m) PROVE AttemptOpen'
  <2>1. \A n \in Managers : phase[n] # "none" => n = m
    BY <1>4 DEF Fenced, TaskWhileRunning, Process, ProcessorReturns, ProcessorRaises, LoadResult,
       Complete, Fail, WriteFailure
  <2> QED
    BY <1>4, <2>1 DEF Process, ProcessorReturns, ProcessorRaises, LoadResult, Complete, Fail,
       WriteFailure, Enter, queueVars, TaskWhileRunning
<1>5. ASSUME NEW m \in Managers, DatabaseFails(m) PROVE AttemptOpen'
  <2>1. CASE RecoverFails(m)
    BY <1>5, <2>1 DEF RecoverFails, Recovered, TaskWhileRunning, lockVars
  <2>2. CASE ClaimFails(m)
    BY <1>5, <2>2 DEF ClaimFails, Oldest, Lockable, TaskWhileRunning, lockVars
  <2>3. CASE CompleteFails(m) \/ FailFails(m)
    <3>1. \A n \in Managers : phase[n] # "none" => n = m
      BY <2>3 DEF Fenced, TaskWhileRunning, CompleteFails, FailFails
    <3> QED
      BY <2>3, <3>1 DEF CompleteFails, FailFails, Enter, TaskWhileRunning
  <2> QED
    BY <1>5, <2>1, <2>2, <2>3 DEF DatabaseFails
<1>6. ASSUME NEW m \in Managers, Disturb(m) PROVE AttemptOpen'
  BY <1>6 DEF Disturb, Stop, Crash, Start, queueVars, lockVars, TaskWhileRunning
<1>7. ASSUME \/ LoseCoordinator
             \/ LoseExecution
             \/ \E j \in Jobs : LockRow(j) \/ UnlockRow(j)
      PROVE  AttemptOpen'
  BY <1>7 DEF LoseCoordinator, LoseExecution, LockRow, UnlockRow, queueVars, workerVars
<1> QED
  BY <1>1, <1>2, <1>3, <1>4, <1>5, <1>6, <1>7 DEF Next

(* A job that has ended is moved only by a request that read it before, or *)
(* from completed to failed by its own attempt.                            *)
THEOREM EndedRunsStay == ASSUME MaxFaults["execLoss"] = 0 PROVE Spec => EndsStay
<1> DEFINE Moves(j) == /\ jobState[j] \in Terminal
                       /\ jobState'[j] # jobState[j]
           Excused(j) == \/ request[j] = "requeue" /\ jobState'[j] = "queued"
                         \/ jobState[j] = "completed" /\ jobState'[j] = "failed"
<1>1. Init => AttemptOpen
  BY DEF Init, AttemptOpen
<1>2. ASSUME FenceInv, AttemptOpen, [Next]_vars, NEW j \in Jobs, Moves(j)
      PROVE  Excused(j)
  <2> USE DEF FenceInv, TypeOK, Terminal, Pending
  <2>1. CASE UNCHANGED vars
    BY <1>2, <2>1 DEF vars
  <2>2. ASSUME NEW k \in Jobs, Request(k) \/ LockRow(k) \/ UnlockRow(k) PROVE Excused(j)
    BY <1>2, <2>2 DEF Request, CreateRun, EnqueueLoad, EnqueueUpdate, RequestLost, LockRow, UnlockRow,
       queueVars
  <2>3. ASSUME NEW m \in Managers, Coordinate(m) PROVE FALSE
    BY <1>2, <2>3 DEF Coordinate, TryCoordinator, TryExecution, RecoverPending, Recovered, Batch,
       Lockable, Oldest, LoopHead, ClaimNone, ClaimNextJob, MonitorLoss, TaskEnds, ReleaseExecution,
       ReleaseCoordinator, ExitLoop, queueVars
  <2>4. ASSUME NEW m \in Managers, Process(m) PROVE Excused(j)
    BY <1>2, <2>4 DEF Process, ProcessorReturns, ProcessorRaises, LoadResult, Complete, Fail,
       WriteFailure, queueVars, AttemptOpen, TaskWhileRunning
  <2>5. ASSUME NEW m \in Managers, DatabaseFails(m) PROVE Excused(j)
    <3>1. ~RecoverFails(m) /\ ~ClaimFails(m)
      BY <1>2 DEF RecoverFails, Recovered, Batch, Lockable, Oldest, ClaimFails
    <3>2. CASE CompleteFails(m)
      BY <1>2, <3>2 DEF CompleteFails, AttemptOpen
    <3>3. CASE FailFails(m)
      BY <1>2, <3>3 DEF FailFails, TaskWhileRunning
    <3> QED
      BY <2>5, <3>1, <3>2, <3>3 DEF DatabaseFails
  <2>6. ASSUME NEW m \in Managers, Disturb(m) PROVE FALSE
    BY <1>2, <2>6 DEF Disturb, Stop, Crash, Start, queueVars
  <2>7. ~(LoseCoordinator \/ LoseExecution)
    BY <1>2 DEF LoseCoordinator, LoseExecution, queueVars
  <2> QED
    BY <1>2, <2>1, <2>2, <2>3, <2>4, <2>5, <2>6, <2>7 DEF Next
<1>3. FenceInv /\ AttemptOpen /\ [Next]_vars =>
        [\A j \in Jobs : jobState[j] \in Terminal /\ jobState'[j] # jobState[j] =>
            \/ request[j] = "requeue" /\ jobState'[j] = "queued"
            \/ jobState[j] = "completed" /\ jobState'[j] = "failed"]_vars
  BY <1>2
<1>4. FenceInv /\ FenceInv' /\ AttemptOpen /\ [Next]_vars => AttemptOpen'
  BY AttemptOpenStep
<1> QED
  BY <1>1, <1>3, <1>4, FenceHolds, PTL DEF Spec, EndsStay

(* A job ends only in a step of a worker that processes it and holds the   *)
(* execution lock.                                                         *)
THEOREM FencedCommit == ASSUME MaxFaults["execLoss"] = 0 PROVE Spec => CommitUnderFence
<1> DEFINE Ends(j) == jobState[j] \notin Terminal /\ jobState'[j] \in Terminal
<1>1. ASSUME FenceInv, [Next]_vars, NEW j \in Jobs, Ends(j)
      PROVE  \E m \in Managers : taskJob[m] = j /\ execLock = m
  <2>1. PICK m \in Managers : Complete(m) \/ Fail(m) \/ CompleteFails(m) \/ FailFails(m)
    <3>1. ASSUME NEW k \in Jobs, Request(k) \/ LockRow(k) \/ UnlockRow(k) PROVE FALSE
      BY <1>1, <3>1 DEF FenceInv, TypeOK, Request, CreateRun, EnqueueLoad, EnqueueUpdate,
         RequestLost, LockRow, UnlockRow, queueVars, Terminal
    <3>2. ASSUME NEW m \in Managers, Coordinate(m) PROVE FALSE
      BY <1>1, <3>2 DEF FenceInv, TypeOK, Coordinate, TryCoordinator, TryExecution,
         RecoverPending, Recovered, LoopHead, ClaimNone, ClaimNextJob, MonitorLoss, TaskEnds,
         ReleaseExecution, ReleaseCoordinator, ExitLoop, queueVars, Terminal
    <3>3. ASSUME NEW m \in Managers, RecoverFails(m) \/ ClaimFails(m) \/ Disturb(m) PROVE FALSE
      BY <1>1, <3>3 DEF FenceInv, TypeOK, RecoverFails, Recovered, ClaimFails, Disturb,
         Stop, Crash, Start, queueVars, Terminal
    <3>4. ~(LoseCoordinator \/ LoseExecution \/ UNCHANGED vars)
      BY <1>1 DEF LoseCoordinator, LoseExecution, queueVars, vars
    <3>5. ASSUME NEW m \in Managers,
                 ProcessorReturns(m) \/ ProcessorRaises(m) \/ LoadResult(m) \/ WriteFailure(m)
          PROVE  FALSE
      BY <1>1, <3>5 DEF ProcessorReturns, ProcessorRaises, LoadResult, WriteFailure, queueVars
    <3> QED
      BY <1>1, <3>1, <3>2, <3>3, <3>4, <3>5 DEF Next, Process, DatabaseFails
  <2>2. phase[m] # "none"
    BY <2>1 DEF Complete, Fail, CompleteFails, FailFails
  <2>3. execLock = m
    BY <1>1, <2>2 DEF FenceInv, Fenced, TaskWhileRunning
  <2>4. taskJob[m] = j
    BY <1>1, <2>1 DEF FenceInv, TypeOK, Complete, Fail, CompleteFails, FailFails
  <2> QED
    BY <2>3, <2>4
<1>2. FenceInv /\ [Next]_vars =>
        [\A j \in Jobs : jobState[j] \notin Terminal /\ jobState'[j] \in Terminal
           => \E m \in Managers : taskJob[m] = j /\ execLock = m]_vars
  BY <1>1
<1> QED
  BY <1>2, FenceHolds, PTL DEF Spec, CommitUnderFence

-----------------------------------------------------------------------------
(* Orphans.  Without transactions that hold rows, and with a batch that    *)
(* covers the queue, recovery leaves no running row, and from then on the  *)
(* only running row is the leader's own.                                   *)

NoRowLocks == held = {} /\ faults["rowLock"] = 0

RunningIsOurs ==
    \A m \in Managers :
        /\ pc[m] = "run" => \A j \in Jobs : jobState[j] = "running" => taskJob[m] = j
        /\ phase[m] \in {"failureFile", "ended", "broken"}
              => \A j \in Jobs : jobState[j] # "running"

OrphanInv == FenceInv /\ NoRowLocks /\ NoOrphan /\ RunningIsOurs

LEMMA WholeBatch ==
    ASSUME Cardinality(Jobs) <= RecoverLimit, NEW S \in SUBSET Jobs
    PROVE  Batch(S) = S
<1>1. ASSUME NEW j \in S PROVE Cardinality({k \in S : k <= j}) <= RecoverLimit
  <2>1. {k \in S : k <= j} \subseteq Jobs
    OBVIOUS
  <2>2. /\ IsFiniteSet({k \in S : k <= j})
        /\ Cardinality({k \in S : k <= j}) <= Cardinality(Jobs)
    BY <2>1, JobsAssumption, FS_Subset
  <2>3. Cardinality({k \in S : k <= j}) \in Nat /\ Cardinality(Jobs) \in Nat
    BY <2>2, JobsAssumption, FS_CardinalityType
  <2> QED
    BY <2>2, <2>3, LimitAssumption
<1> QED
  BY <1>1 DEF Batch

LEMMA OrphanInit ==
    ASSUME MaxFaults["execLoss"] = 0, MaxFaults["rowLock"] = 0, Init
    PROVE  OrphanInv
  BY FenceInit DEF Init, OrphanInv, NoRowLocks, NoOrphan, RunningIsOurs

(* Two workers that are both past recovery are the same worker.            *)
LEMMA OneFenced ==
    ASSUME FenceInv, NEW m \in Managers, NEW n \in Managers,
           pc[m] \in {"recover", "lead", "claim", "run"},
           pc[n] \in {"recover", "lead", "claim", "run"}
    PROVE  m = n
  BY DEF FenceInv, Fenced

(* A step that makes no row running and moves no worker into a stricter    *)
(* clause keeps the invariant.                                             *)
LEMMA QuietStep ==
    ASSUME OrphanInv, FenceInv', NoRowLocks',
           \A j \in Jobs : jobState'[j] = "running" => jobState[j] = "running",
           \A m \in Managers :
              /\ pc'[m] \in {"lead", "claim"} => pc[m] \in {"lead", "claim"}
              /\ pc'[m] = "run" => pc[m] = "run" /\ taskJob'[m] = taskJob[m]
              /\ phase'[m] \in {"failureFile", "ended", "broken"} =>
                    phase[m] \in {"failureFile", "ended", "broken"}
    PROVE  OrphanInv'
  BY DEF OrphanInv, NoOrphan, RunningIsOurs

LEMMA OrphanRequest ==
    ASSUME OrphanInv, NEW j \in Jobs, Request(j)
    PROVE  OrphanInv'
<1>1. FenceInv'
  BY FenceRequest DEF OrphanInv
<1>2. UNCHANGED <<pc, phase, taskJob, held>> /\ faults'["rowLock"] = faults["rowLock"]
  BY Kinds DEF Request, CreateRun, EnqueueLoad, EnqueueUpdate, RequestLost, Fault,
         OrphanInv, FenceInv, TypeOK, lockVars, workerVars
<1>3. \A k \in Jobs : jobState'[k] = "running" => jobState[k] = "running"
  BY DEF Request, CreateRun, EnqueueLoad, EnqueueUpdate, RequestLost, OrphanInv, FenceInv,
         TypeOK
<1> QED
  BY <1>1, <1>2, <1>3, QuietStep DEF OrphanInv, NoRowLocks

LEMMA OrphanCoordinate ==
    ASSUME Cardinality(Jobs) <= RecoverLimit,
           OrphanInv, NEW m \in Managers, Coordinate(m)
    PROVE  OrphanInv'
<1>1. FenceInv'
  BY FenceCoordinate DEF OrphanInv
<1>2. UNCHANGED <<held, faults>>
  BY DEF Coordinate, TryCoordinator, TryExecution, RecoverPending, LoopHead, ClaimNone,
         ClaimNextJob, MonitorLoss, TaskEnds, ReleaseExecution, ReleaseCoordinator, ExitLoop
<1>3. NoRowLocks'
  BY <1>2 DEF OrphanInv, NoRowLocks
<1> USE DEF queueVars, lockVars
<1>4. CASE \/ TryCoordinator(m) \/ TryExecution(m) \/ LoopHead(m) \/ ClaimNone(m)
           \/ MonitorLoss(m) \/ ReleaseExecution(m) \/ ReleaseCoordinator(m) \/ ExitLoop(m)
  <2>1. UNCHANGED <<jobState, phase, taskJob>>
    BY <1>4 DEF TryCoordinator, TryExecution, LoopHead, ClaimNone, MonitorLoss,
       ReleaseExecution, ReleaseCoordinator, ExitLoop
  <2>2. \A n \in Managers :
          /\ pc'[n] \in {"lead", "claim"} => pc[n] \in {"lead", "claim"}
          /\ pc'[n] = "run" => pc[n] = "run"
    BY <1>4 DEF OrphanInv, FenceInv, TypeOK, TryCoordinator, TryExecution, LoopHead,
       ClaimNone, MonitorLoss, ReleaseExecution, ReleaseCoordinator, ExitLoop
  <2> QED
    BY <1>1, <1>3, <2>1, <2>2, QuietStep
<1>5. CASE RecoverPending(m)
  <2>1. Batch(Lockable(Pending)) = Lockable(Pending)
    BY WholeBatch DEF Lockable
  <2>2. \A j \in Jobs : jobState'[j] # "running"
    BY <1>5, <2>1 DEF RecoverPending, Recovered, Lockable, Pending, OrphanInv, NoRowLocks,
       FenceInv, TypeOK
  <2> QED
    BY <1>1, <1>3, <2>2 DEF OrphanInv, NoOrphan, RunningIsOurs
<1>6. CASE ClaimNextJob(m)
  <2>1. PICK j \in Jobs : /\ jobState' = [jobState EXCEPT ![j] = "running"]
                          /\ taskJob'  = [taskJob EXCEPT ![m] = j]
    BY <1>6 DEF ClaimNextJob, Oldest, Lockable
  <2>2. \A k \in Jobs : jobState'[k] = "running" => k = j
    BY <1>6, <2>1 DEF ClaimNextJob, OrphanInv, NoOrphan, FenceInv, TypeOK
  <2>3. \A n \in Managers :
          /\ pc'[n] \notin {"lead", "claim"}
          /\ pc'[n] = "run" => n = m
          /\ phase'[n] # "none" => n = m
    BY <1>6, OneFenced DEF ClaimNextJob, OrphanInv, FenceInv, TypeOK, TaskWhileRunning
  <2>4. taskJob'[m] = j /\ phase'[m] = "processor"
    BY <1>6, <2>1 DEF ClaimNextJob, OrphanInv, FenceInv, TypeOK
  <2> QED
    BY <1>1, <1>3, <2>2, <2>3, <2>4 DEF OrphanInv, NoOrphan, RunningIsOurs
<1>7. CASE TaskEnds(m)
  <2>1. UNCHANGED jobState
    BY <1>7 DEF TaskEnds
  <2>2. pc'[m] \in {"lead", "claim"} => phase[m] = "ended"
    BY <1>7 DEF TaskEnds, OrphanInv, FenceInv, TypeOK
  <2>3. pc'[m] # "run" /\ phase'[m] = "none"
    BY <1>7 DEF TaskEnds, OrphanInv, FenceInv, TypeOK
  <2>4. \A n \in Managers \ {m} :
          pc'[n] = pc[n] /\ phase'[n] = phase[n] /\ taskJob'[n] = taskJob[n]
    BY <1>7 DEF TaskEnds, OrphanInv, FenceInv, TypeOK
  <2> QED
    BY <1>1, <1>3, <2>1, <2>2, <2>3, <2>4 DEF OrphanInv, NoOrphan, RunningIsOurs
<1> QED
  BY <1>4, <1>5, <1>6, <1>7 DEF Coordinate

LEMMA OrphanProcess ==
    ASSUME OrphanInv, NEW m \in Managers, Process(m)
    PROVE  OrphanInv'
<1>1. FenceInv'
  BY FenceProcess DEF OrphanInv
<1>2. UNCHANGED <<pc, taskJob, held>> /\ faults'["rowLock"] = faults["rowLock"]
  BY Kinds DEF OrphanInv, FenceInv, TypeOK, Process, ProcessorReturns, ProcessorRaises,
         LoadResult, Complete, Fail, WriteFailure, Fault, lockVars
<1>3. NoRowLocks'
  BY <1>2 DEF OrphanInv, NoRowLocks
<1>4. \A j \in Jobs : jobState'[j] = "running" => jobState[j] = "running"
  BY DEF OrphanInv, FenceInv, TypeOK, Process, ProcessorReturns, ProcessorRaises,
         LoadResult, Complete, Fail, WriteFailure, queueVars
<1>5. pc[m] = "run" /\ phase[m] # "none" /\ taskJob[m] \in Jobs
  BY DEF OrphanInv, FenceInv, TaskWhileRunning, Process, ProcessorReturns, ProcessorRaises,
         LoadResult, Complete, Fail, WriteFailure
<1>6. ASSUME phase'[m] \in {"failureFile", "ended", "broken"}
      PROVE  \A j \in Jobs : jobState'[j] # "running"
  <2>1. \A j \in Jobs : jobState[j] = "running" => taskJob[m] = j
    BY <1>5 DEF OrphanInv, RunningIsOurs
  <2>2. CASE ProcessorReturns(m) \/ ProcessorRaises(m)
    BY <1>6, <2>2 DEF ProcessorReturns, ProcessorRaises, Enter, OrphanInv, FenceInv, TypeOK
  <2>3. CASE LoadResult(m)
    BY <1>6, <2>1, <2>3 DEF LoadResult, Enter, OrphanInv, FenceInv, TypeOK, Terminal, queueVars
  <2>4. CASE Complete(m) \/ Fail(m)
    BY <2>1, <2>4, <1>5 DEF Complete, Fail, OrphanInv, FenceInv, TypeOK
  <2>5. CASE WriteFailure(m)
    BY <2>5 DEF WriteFailure, OrphanInv, RunningIsOurs, queueVars
  <2> QED
    BY <2>2, <2>3, <2>4, <2>5 DEF Process
<1>7. \A n \in Managers \ {m} : phase'[n] = phase[n]
  BY DEF OrphanInv, FenceInv, TypeOK, Process, ProcessorReturns, ProcessorRaises,
         LoadResult, Complete, Fail, WriteFailure, Enter
<1> QED
  BY <1>1, <1>2, <1>3, <1>4, <1>6, <1>7 DEF OrphanInv, NoOrphan, RunningIsOurs

LEMMA OrphanDatabaseFails ==
    ASSUME OrphanInv, NEW m \in Managers, DatabaseFails(m)
    PROVE  OrphanInv'
<1>1. FenceInv'
  BY FenceDatabaseFails DEF OrphanInv
<1>2. UNCHANGED held /\ faults'["rowLock"] = faults["rowLock"] /\ UNCHANGED taskJob
  BY Kinds DEF OrphanInv, FenceInv, TypeOK, DatabaseFails, RecoverFails, ClaimFails,
         CompleteFails, FailFails, Fault
<1>3. NoRowLocks'
  BY <1>2 DEF OrphanInv, NoRowLocks
<1>4. CASE ClaimFails(m)
  <2>1. pc[m] = "claim" /\ pc' = [pc EXCEPT ![m] = "release"] /\ UNCHANGED phase
    BY <1>4 DEF ClaimFails
  <2>2. \A n \in Managers : pc'[n] \notin {"lead", "claim", "run"} /\ phase'[n] = "none"
    BY <2>1, OneFenced DEF OrphanInv, FenceInv, TypeOK, TaskWhileRunning
  <2> QED
    BY <1>1, <1>3, <2>2 DEF OrphanInv, NoOrphan, RunningIsOurs
<1>5. CASE RecoverFails(m) \/ CompleteFails(m) \/ FailFails(m)
  <2>1. \A j \in Jobs : jobState'[j] = "running" => jobState[j] = "running"
    BY <1>5 DEF RecoverFails, Recovered, CompleteFails, FailFails, OrphanInv, FenceInv, TypeOK
  <2>2. \A n \in Managers :
          /\ pc'[n] \in {"lead", "claim"} => pc[n] \in {"lead", "claim"}
          /\ pc'[n] = "run" => pc[n] = "run"
    BY <1>5 DEF RecoverFails, CompleteFails, FailFails, OrphanInv, FenceInv, TypeOK
  <2>3. \A n \in Managers : phase'[n] \in {"failureFile", "ended", "broken"} =>
                              phase[n] \in {"failureFile", "ended", "broken"}
    BY <1>5 DEF RecoverFails, CompleteFails, FailFails, Enter, OrphanInv, FenceInv, TypeOK
  <2> QED
    BY <1>1, <1>2, <1>3, <2>1, <2>2, <2>3, QuietStep
<1> QED
  BY <1>4, <1>5 DEF DatabaseFails

LEMMA OrphanDisturb ==
    ASSUME OrphanInv, NEW m \in Managers, Disturb(m)
    PROVE  OrphanInv'
<1>1. FenceInv'
  BY FenceDisturb DEF OrphanInv
<1>2. UNCHANGED <<held, jobState>> /\ faults'["rowLock"] = faults["rowLock"]
  BY Kinds DEF OrphanInv, FenceInv, TypeOK, Disturb, Stop, Crash, Start, Fault, queueVars
<1>3. \A n \in Managers :
        /\ pc'[n] \in {"lead", "claim"} => pc[n] \in {"lead", "claim"}
        /\ pc'[n] = "run" => pc[n] = "run" /\ taskJob'[n] = taskJob[n]
        /\ phase'[n] \in {"failureFile", "ended", "broken"} =>
              phase[n] \in {"failureFile", "ended", "broken"}
  BY DEF OrphanInv, FenceInv, TypeOK, Disturb, Stop, Crash, Start
<1> QED
  BY <1>1, <1>2, <1>3, QuietStep DEF OrphanInv, NoRowLocks

LEMMA OrphanEnvironment ==
    ASSUME OrphanInv,
           \/ LoseCoordinator
           \/ LoseExecution
           \/ \E j \in Jobs : LockRow(j) \/ UnlockRow(j)
    PROVE  OrphanInv'
<1>1. FenceInv'
  BY FenceEnvironment DEF OrphanInv
<1>2. LoseCoordinator
  BY DEF OrphanInv, NoRowLocks, FenceInv, NoExecLoss, LoseExecution, LockRow, UnlockRow, Fault
<1>3. /\ UNCHANGED <<held, jobState, pc, phase, taskJob>>
      /\ faults'["rowLock"] = faults["rowLock"]
  BY <1>2, Kinds DEF LoseCoordinator, Fault, OrphanInv, FenceInv, TypeOK, queueVars, workerVars
<1> QED
  BY <1>1, <1>3, QuietStep DEF OrphanInv, NoRowLocks

(* A leader that has recovered and is between two jobs leaves no row       *)
(* running, as long as recovery skips no row and its batch is large enough.*)
THEOREM NoOrphanedRun ==
    ASSUME MaxFaults["execLoss"] = 0, MaxFaults["rowLock"] = 0,
           Cardinality(Jobs) <= RecoverLimit
    PROVE  Spec => []NoOrphan
<1>1. Init => OrphanInv
  BY OrphanInit
<1>2. OrphanInv /\ [Next]_vars => OrphanInv'
  <2> SUFFICES ASSUME OrphanInv, [Next]_vars PROVE OrphanInv'
    OBVIOUS
  <2>1. CASE UNCHANGED vars
    <3>1. FenceInv'
      BY <2>1, FenceStep DEF OrphanInv
    <3> QED
      BY <2>1, <3>1 DEF vars, OrphanInv, NoRowLocks, NoOrphan, RunningIsOurs
  <2>2. CASE Next
    BY <2>2, OrphanRequest, OrphanCoordinate, OrphanProcess, OrphanDatabaseFails,
       OrphanDisturb, OrphanEnvironment DEF Next
  <2> QED
    BY <2>1, <2>2
<1>3. OrphanInv => NoOrphan
  BY DEF OrphanInv
<1> QED
  BY <1>1, <1>2, <1>3, PTL DEF Spec

-----------------------------------------------------------------------------
(* JobQueue implements ExclusiveQueue: every step of the workers, of the   *)
(* requests and of the environment is a step of the abstract queue or a    *)
(* stutter, as long as no execution connection is lost.                    *)

(* The mapped job is the task's own while one executes, NoJob otherwise.   *)
JobIsMapped ==
    /\ \A m \in Managers : Executing(m) => ExecutingJob = taskJob[m]
    /\ (\A m \in Managers : ~Executing(m)) => ExecutingJob = NoJob

LEMMA MappedNow == FenceInv => JobIsMapped
<1> SUFFICES ASSUME FenceInv PROVE JobIsMapped
  OBVIOUS
<1>1. ASSUME NEW m \in Managers, Executing(m) PROVE ExecutingJob = taskJob[m]
  <2>1. \A n \in Managers : Executing(n) => n = m
    BY <1>1 DEF FenceInv, Fenced, TaskWhileRunning, Executing
  <2>2. (CHOOSE n \in Managers : Executing(n)) = m
    BY <1>1, <2>1
  <2> QED
    BY <1>1, <2>2 DEF ExecutingJob
<1>2. ASSUME \A m \in Managers : ~Executing(m) PROVE ExecutingJob = NoJob
  BY <1>2 DEF ExecutingJob
<1> QED
  BY <1>1, <1>2 DEF JobIsMapped

LEMMA MappedNext == FenceInv' => JobIsMapped'
  BY MappedNow, PTL

LEMMA Mapped ==
    /\ FenceInv => /\ \A m \in Managers : Executing(m) => ExecutingJob = taskJob[m]
                   /\ (\A m \in Managers : ~Executing(m)) => ExecutingJob = NoJob
    /\ FenceInv' => /\ \A m \in Managers : Executing(m)' => ExecutingJob' = taskJob'[m]
                    /\ (\A m \in Managers : ~Executing(m)') => ExecutingJob' = NoJob
  BY MappedNow, MappedNext DEF JobIsMapped

LEMMA SameExecution ==
    ASSUME FenceInv, FenceInv',
           \A m \in Managers : /\ Executing(m)' <=> Executing(m)
                               /\ Executing(m) => taskJob'[m] = taskJob[m]
    PROVE  ExecutingJob' = ExecutingJob
<1>1. CASE \E m \in Managers : Executing(m)
  BY <1>1, Mapped
<1>2. CASE \A m \in Managers : ~Executing(m)
  BY <1>2, Mapped
<1> QED
  BY <1>1, <1>2

LEMMA RefineInit ==
    ASSUME FenceInv, Init
    PROVE  EQ!Init
<1>1. \A m \in Managers : ~Executing(m)
  BY DEF Init, Executing
<1> QED
  BY <1>1, Mapped DEF Init, EQ!Init

LEMMA RefineRequest ==
    ASSUME FenceInv, FenceInv', NEW j \in Jobs, Request(j)
    PROVE  [EQ!Next]_(EQ!vars)
<1>1. ExecutingJob' = ExecutingJob
  <2>1. UNCHANGED <<phase, taskJob>>
    BY DEF Request, CreateRun, EnqueueLoad, EnqueueUpdate, RequestLost, workerVars
  <2> QED
    BY <2>1, SameExecution DEF Executing
<1>2. CASE CreateRun(j)
  BY <1>1, <1>2 DEF CreateRun, EQ!Next, EQ!Submit
<1>3. CASE EnqueueUpdate(j)
  <2>1. CASE jobState[j] = "absent"
    BY <1>1, <1>3, <2>1 DEF EnqueueUpdate, EQ!Next, EQ!Submit
  <2>2. CASE jobState[j] # "absent"
    BY <1>1, <1>3, <2>2 DEF EnqueueUpdate, EQ!Next, EQ!Reopen
  <2> QED
    BY <2>1, <2>2
<1>4. CASE EnqueueLoad(j) \/ RequestLost(j)
  BY <1>1, <1>4 DEF EnqueueLoad, RequestLost, EQ!vars
<1> QED
  BY <1>2, <1>3, <1>4 DEF Request

LEMMA RefineCoordinate ==
    ASSUME FenceInv, FenceInv', NEW m \in Managers, Coordinate(m)
    PROVE  [EQ!Next]_(EQ!vars)
<1>1. CASE \/ TryCoordinator(m) \/ TryExecution(m) \/ LoopHead(m) \/ ClaimNone(m)
           \/ MonitorLoss(m) \/ ReleaseExecution(m) \/ ReleaseCoordinator(m) \/ ExitLoop(m)
  <2>1. UNCHANGED <<jobState, phase, taskJob>>
    BY <1>1 DEF TryCoordinator, TryExecution, LoopHead, ClaimNone, MonitorLoss,
       ReleaseExecution, ReleaseCoordinator, ExitLoop, queueVars
  <2> QED
    BY <2>1, SameExecution DEF Executing, EQ!vars
<1>2. CASE RecoverPending(m)
  <2>1. UNCHANGED <<phase, taskJob>>
    BY <1>2 DEF RecoverPending
  <2>2. ExecutingJob' = ExecutingJob
    BY <2>1, SameExecution DEF Executing
  <2>3. ExecutingJob = NoJob
    BY <1>2, Mapped, OneFenced DEF RecoverPending, FenceInv, TaskWhileRunning, Executing
  <2> DEFINE S == {j \in Batch(Lockable(Pending)) : jobState[j] = "running"}
  <2>4. EQ!Requeue(S)
    BY <1>2, <2>2, <2>3 DEF RecoverPending, Recovered, Batch, Lockable, Pending, FenceInv,
       TypeOK, EQ!Requeue
  <2>5. S \in SUBSET Jobs
    BY DEF Batch, Lockable
  <2> QED
    BY <2>4, <2>5 DEF EQ!Next
<1>3. CASE ClaimNextJob(m)
  <2>1. PICK j \in Jobs : /\ jobState[j] = "queued"
                          /\ jobState' = [jobState EXCEPT ![j] = "running"]
                          /\ taskJob'  = [taskJob EXCEPT ![m] = j]
    BY <1>3 DEF ClaimNextJob, Oldest, Lockable
  <2>2. ExecutingJob = NoJob
    BY <1>3, Mapped, OneFenced DEF ClaimNextJob, FenceInv, TaskWhileRunning, Executing
  <2>3. Executing(m)' /\ taskJob'[m] = j
    BY <1>3, <2>1 DEF ClaimNextJob, FenceInv, TypeOK, Executing
  <2>4. ExecutingJob' = j
    BY <2>3, Mapped
  <2> QED
    BY <2>1, <2>2, <2>4 DEF EQ!Next, EQ!Begin
<1>4. CASE TaskEnds(m)
  <2>1. \A n \in Managers : /\ Executing(n)' <=> Executing(n)
                            /\ Executing(n) => taskJob'[n] = taskJob[n]
    BY <1>4 DEF TaskEnds, FenceInv, TypeOK, Executing, Ended
  <2> QED
    BY <1>4, <2>1, SameExecution DEF TaskEnds, queueVars, EQ!vars
<1> QED
  BY <1>1, <1>2, <1>3, <1>4 DEF Coordinate

(* A step of the task that executes: the abstract job is its own, and the  *)
(* execution is over when the phase is past "raised".                      *)
LEMMA TaskStep ==
    ASSUME FenceInv, FenceInv', NEW m \in Managers, Executing(m), UNCHANGED taskJob
    PROVE  /\ taskJob[m] \in Jobs
           /\ ExecutingJob = taskJob[m]
           /\ Executing(m)' => ExecutingJob' = taskJob[m]
<1>1. taskJob[m] \in Jobs /\ pc[m] = "run"
  BY DEF FenceInv, TaskWhileRunning, Executing
<1>2. ExecutingJob = taskJob[m]
  BY Mapped
<1>3. Executing(m)' => ExecutingJob' = taskJob[m]
  BY Mapped
<1> QED
  BY <1>1, <1>2, <1>3

LEMMA RefineProcess ==
    ASSUME FenceInv, FenceInv', NEW m \in Managers, Process(m) \/ DatabaseFails(m)
    PROVE  [EQ!Next]_(EQ!vars)
<1> USE DEF Enter
<1>1. CASE WriteFailure(m)
  <2>1. UNCHANGED <<jobState, taskJob>> /\ \A n \in Managers : Executing(n)' <=> Executing(n)
    BY <1>1 DEF WriteFailure, FenceInv, TypeOK, Executing, queueVars
  <2> QED
    BY <2>1, SameExecution DEF EQ!vars
<1>2. CASE ProcessorReturns(m) \/ ProcessorRaises(m)
  <2>1. UNCHANGED <<jobState, taskJob>> /\ \A n \in Managers : Executing(n)' <=> Executing(n)
    BY <1>2 DEF ProcessorReturns, ProcessorRaises, FenceInv, TypeOK, Executing, queueVars
  <2> QED
    BY <2>1, SameExecution DEF EQ!vars
<1>3. CASE LoadResult(m)
  <2>1. /\ UNCHANGED <<jobState, taskJob>>
        /\ Executing(m)
        /\ \A n \in Managers \ {m} : phase'[n] = phase[n]
        /\ phase'[m] \in {"ended", "complete", "raised"}
    BY <1>3 DEF LoadResult, FenceInv, TypeOK, Executing, queueVars
  <2>2. CASE Executing(m)'
    <3>1. ExecutingJob' = ExecutingJob
      BY <2>1, <2>2, TaskStep
    <3> QED
      BY <2>1, <3>1 DEF EQ!vars
  <2>3. CASE ~Executing(m)'
    <3>1. \A n \in Managers \ {m} : ~Executing(n)
      BY <2>1 DEF FenceInv, Fenced, TaskWhileRunning, Executing
    <3>2. ExecutingJob' = NoJob
      BY <2>1, <2>3, <3>1, Mapped DEF Executing
    <3> QED
      BY <2>1, <3>2 DEF EQ!Next, EQ!Abandon
  <2> QED
    BY <2>2, <2>3
<1>4. CASE Complete(m) \/ Fail(m) \/ CompleteFails(m) \/ FailFails(m)
  <2>1. UNCHANGED taskJob /\ Executing(m)
    BY <1>4 DEF Complete, Fail, CompleteFails, FailFails, Executing
  <2>2. \/ \E s \in EQ!Ending : jobState' = [jobState EXCEPT ![taskJob[m]] = s]
        \/ UNCHANGED jobState
    BY <1>4 DEF Complete, Fail, CompleteFails, FailFails, EQ!Ending
  <2>3. /\ taskJob[m] \in Jobs
        /\ ExecutingJob = taskJob[m]
        /\ ExecutingJob' \in {taskJob[m], NoJob}
    <3>1. \A n \in Managers \ {m} : ~Executing(n)
      BY <2>1 DEF FenceInv, Fenced, TaskWhileRunning, Executing
    <3>2. \A n \in Managers \ {m} : phase'[n] = phase[n]
      BY <1>4 DEF Complete, Fail, CompleteFails, FailFails, FenceInv, TypeOK
    <3>3. ~Executing(m)' => ExecutingJob' = NoJob
      BY <3>1, <3>2, Mapped DEF Executing
    <3> QED
      BY <2>1, <3>3, TaskStep
  <2>4. CASE UNCHANGED jobState
    BY <2>3, <2>4 DEF EQ!Next, EQ!Abandon, EQ!vars
  <2>5. CASE \E s \in EQ!Ending : jobState' = [jobState EXCEPT ![taskJob[m]] = s]
    BY <2>3, <2>5 DEF EQ!Next, EQ!Finish
  <2> QED
    BY <2>2, <2>4, <2>5
<1>5. CASE RecoverFails(m)
  <2>1. UNCHANGED <<phase, taskJob>> /\ pc[m] = "recover"
    BY <1>5 DEF RecoverFails
  <2>2. ExecutingJob' = ExecutingJob
    BY <2>1, SameExecution DEF Executing
  <2>3. ExecutingJob = NoJob
    BY <2>1, Mapped, OneFenced DEF FenceInv, TaskWhileRunning, Executing
  <2>4. CASE UNCHANGED jobState
    BY <2>2, <2>4 DEF EQ!vars
  <2>5. CASE jobState' = Recovered
    <3> DEFINE S == {j \in Batch(Lockable(Pending)) : jobState[j] = "running"}
    <3>1. EQ!Requeue(S)
      BY <2>2, <2>3, <2>5 DEF Recovered, Batch, Lockable, Pending, FenceInv, TypeOK,
         EQ!Requeue
    <3>2. S \in SUBSET Jobs
      BY DEF Batch, Lockable
    <3> QED
      BY <3>1, <3>2 DEF EQ!Next
  <2> QED
    BY <1>5, <2>4, <2>5 DEF RecoverFails
<1>6. CASE ClaimFails(m)
  <2>1. UNCHANGED <<phase, taskJob>> /\ pc[m] = "claim"
    BY <1>6 DEF ClaimFails
  <2>2. ExecutingJob' = ExecutingJob
    BY <2>1, SameExecution DEF Executing
  <2>3. ExecutingJob = NoJob
    BY <2>1, Mapped, OneFenced DEF FenceInv, TaskWhileRunning, Executing
  <2>4. CASE UNCHANGED jobState
    BY <2>2, <2>4 DEF EQ!vars
  <2>5. CASE \E j \in Oldest(Lockable({"queued"})) : jobState' = [jobState EXCEPT ![j] = "running"]
    BY <2>2, <2>3, <2>5 DEF Oldest, Lockable, EQ!Next, EQ!Begin
  <2> QED
    BY <1>6, <2>4, <2>5 DEF ClaimFails
<1> QED
  BY <1>1, <1>2, <1>3, <1>4, <1>5, <1>6 DEF Process, DatabaseFails

LEMMA RefineDisturb ==
    ASSUME FenceInv, FenceInv', NEW m \in Managers, Disturb(m)
    PROVE  [EQ!Next]_(EQ!vars)
<1>1. CASE Stop(m) \/ Start(m)
  <2>1. UNCHANGED <<jobState, phase, taskJob>>
    BY <1>1 DEF Stop, Start, queueVars
  <2> QED
    BY <2>1, SameExecution DEF Executing, EQ!vars
<1>2. CASE Crash(m)
  <2>1. UNCHANGED jobState
    BY <1>2 DEF Crash, queueVars
  <2>2. /\ \A n \in Managers \ {m} : phase'[n] = phase[n] /\ taskJob'[n] = taskJob[n]
        /\ ~Executing(m)'
    BY <1>2 DEF Crash, FenceInv, TypeOK, Executing
  <2>3. CASE Executing(m)
    <3>1. \A n \in Managers : ~Executing(n)'
      BY <2>2, <2>3 DEF FenceInv, Fenced, TaskWhileRunning, Executing
    <3>2. ExecutingJob' = NoJob
      BY <3>1, Mapped
    <3> QED
      BY <2>1, <3>2 DEF EQ!Next, EQ!Abandon
  <2>4. CASE ~Executing(m)
    <3>1. ExecutingJob' = ExecutingJob
      BY <2>2, <2>4, SameExecution DEF Executing
    <3> QED
      BY <2>1, <3>1 DEF EQ!vars
  <2> QED
    BY <2>3, <2>4
<1> QED
  BY <1>1, <1>2 DEF Disturb

LEMMA RefineStep == FenceInv /\ FenceInv' /\ [Next]_vars => [EQ!Next]_(EQ!vars)
<1> SUFFICES ASSUME FenceInv, FenceInv', [Next]_vars PROVE [EQ!Next]_(EQ!vars)
  OBVIOUS
<1>1. CASE UNCHANGED vars
  BY <1>1, SameExecution DEF vars, Executing, EQ!vars
<1>2. CASE \/ LoseCoordinator \/ LoseExecution
           \/ \E j \in Jobs : LockRow(j) \/ UnlockRow(j)
  <2>1. UNCHANGED <<jobState, phase, taskJob>>
    BY <1>2 DEF LoseCoordinator, LoseExecution, LockRow, UnlockRow, queueVars, workerVars
  <2> QED
    BY <2>1, SameExecution DEF Executing, EQ!vars
<1>3. CASE \E j \in Jobs : Request(j)
  BY <1>3, RefineRequest
<1>4. CASE \E m \in Managers :
              Coordinate(m) \/ Process(m) \/ DatabaseFails(m) \/ Disturb(m)
  BY <1>4, RefineCoordinate, RefineProcess, RefineDisturb
<1> QED
  BY <1>1, <1>2, <1>3, <1>4 DEF Next

(* The render queue keeps the promise of ExclusiveQueue: one run executed  *)
(* at a time, runs ended only by their execution, interrupted runs put     *)
(* back only while nothing is executed.                                    *)
THEOREM ImplementsExclusiveQueue == ASSUME MaxFaults["execLoss"] = 0 PROVE Spec => Exclusive
<1>1. FenceInv /\ Init => EQ!Init
  BY RefineInit
<1> QED
  BY <1>1, FenceHolds, RefineStep, PTL DEF Spec, Exclusive, EQ!Spec
=============================================================================
