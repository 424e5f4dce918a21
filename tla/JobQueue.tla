------------------------------ MODULE JobQueue ------------------------------
(***************************************************************************)
(* The render queue: rows of video_jobs, the request that creates a run    *)
(* and then enqueues it, and the in-process workers (JobManager) of every  *)
(* web container.  A worker holds two PostgreSQL session advisory locks,   *)
(* each on a connection of its own: the coordinator lock (leadership) and  *)
(* the execution lock (the fence kept while an attempt drains).  A lost    *)
(* connection frees its lock at the server at once; the worker only finds  *)
(* out when it next probes the connection.                                 *)
(*                                                                         *)
(* Source: src/open_storyline/mvp/jobs.py (JobStore and JobManager).       *)
(***************************************************************************)
EXTENDS Integers, FiniteSets

CONSTANTS
    Managers,       \* worker coordinators, one per running web container
    Jobs,           \* runs, numbered in the order of (created_at, id)
    NoManager,      \* the holder of a free advisory lock
    NoJob,          \* the job of a worker that processes none
    RecoverLimit,   \* the batch limit of recover_pending
    MaxFaults       \* how often each kind of fault may still happen

FaultKinds ==
    {"crash", "stop", "coordLoss", "execLoss", "rowLock", "dbError",
     "diskError", "requestLost"}

ASSUME JobsAssumption == Jobs \subseteq Int /\ IsFiniteSet(Jobs)
ASSUME NoJobAssumption == NoJob \notin Jobs
ASSUME NoManagerAssumption == NoManager \notin Managers
ASSUME LimitAssumption == RecoverLimit \in Nat
ASSUME FaultsAssumption == MaxFaults \in [FaultKinds -> Nat]

VARIABLES
    jobState,    \* video_jobs.state; "absent" before the row is inserted
    request,     \* the HTTP request that creates the run and enqueues it
    coordLock,   \* holder of WORKER_ADVISORY_LOCK
    execLock,    \* holder of WORKER_EXECUTION_ADVISORY_LOCK
    pc,          \* where each coordinator task stands
    phase,       \* where the _process task of each worker stands
    taskJob,     \* the job that task processes
    lost,        \* leadership_lost of _process_with_lock_monitor
    stopping,    \* JobManager._stop
    held,        \* jobs whose row, or owner row, another transaction holds
    faults       \* faults left, per kind

queueVars  == <<jobState, request>>
lockVars   == <<coordLock, execLock>>
workerVars == <<pc, phase, taskJob, lost, stopping>>
vars       == <<jobState, request, coordLock, execLock, pc, phase, taskJob,
                lost, stopping, held, faults>>

Terminal == {"completed", "failed"}
Pending  == {"queued", "running"}

ManagerPCs ==
    {"down", "wait", "exec", "recover", "lead", "claim", "run",
     "release", "releaseCoord", "unwind", "unwindCoord", "dead"}

(* The phases of a _process task.  The last three end it: normally, with   *)
(* an error the coordinator catches, with one it does not.                 *)
Ended  == {"ended", "escaped", "broken"}
Phases == {"none", "processor", "returned", "complete", "raised", "failureFile"}
            \cup Ended

TypeOK ==
    /\ jobState  \in [Jobs -> {"absent"} \cup Pending \cup Terminal]
    /\ request   \in [Jobs -> {"idle", "created", "requeue", "over"}]
    /\ coordLock \in Managers \cup {NoManager}
    /\ execLock  \in Managers \cup {NoManager}
    /\ pc        \in [Managers -> ManagerPCs]
    /\ phase     \in [Managers -> Phases]
    /\ taskJob   \in [Managers -> Jobs \cup {NoJob}]
    /\ lost      \in [Managers -> BOOLEAN]
    /\ stopping  \in [Managers -> BOOLEAN]
    /\ held      \in SUBSET Jobs
    /\ faults    \in [FaultKinds -> Nat]

Init ==
    /\ jobState  = [j \in Jobs |-> "absent"]
    /\ request   = [j \in Jobs |-> "idle"]
    /\ coordLock = NoManager
    /\ execLock  = NoManager
    /\ pc        = [m \in Managers |-> "wait"]
    /\ phase     = [m \in Managers |-> "none"]
    /\ taskJob   = [m \in Managers |-> NoJob]
    /\ lost      = [m \in Managers |-> FALSE]
    /\ stopping  = [m \in Managers |-> FALSE]
    /\ held      = {}
    /\ faults    = MaxFaults

Fault(kind) ==
    /\ faults[kind] > 0
    /\ faults' = [faults EXCEPT ![kind] = @ - 1]

(* A row that another transaction holds is skipped, not waited for, by     *)
(* FOR UPDATE SKIP LOCKED; the owner row is part of the same join.         *)
Lockable(states) == {j \in Jobs \ held : jobState[j] \in states}
Oldest(S)        == {j \in S : \A k \in S : j <= k}
Batch(S)         == {j \in S : Cardinality({k \in S : k <= j}) <= RecoverLimit}

LocksAlive(m) == coordLock = m /\ execLock = m

-----------------------------------------------------------------------------
(* The request: the row is inserted queued, then enqueue() loads it and,   *)
(* unless the state it read says otherwise, writes "queued".               *)

CreateRun(j) ==
    /\ jobState[j] = "absent"
    /\ jobState' = [jobState EXCEPT ![j] = "queued"]
    /\ request'  = [request EXCEPT ![j] = "created"]
    /\ UNCHANGED <<lockVars, workerVars, held, faults>>

EnqueueLoad(j) ==
    /\ request[j] = "created"
    /\ request' = [request EXCEPT ![j] =
                      IF jobState[j] = "running" THEN "requeue" ELSE "over"]
    /\ UNCHANGED <<jobState, lockVars, workerVars, held, faults>>

EnqueueUpdate(j) ==
    /\ request[j] = "requeue"
    /\ j \notin held
    /\ jobState' = [jobState EXCEPT ![j] = "queued"]
    /\ request'  = [request EXCEPT ![j] = "over"]
    /\ UNCHANGED <<lockVars, workerVars, held, faults>>

RequestLost(j) ==
    /\ request[j] \in {"created", "requeue"}
    /\ Fault("requestLost")
    /\ request' = [request EXCEPT ![j] = "over"]
    /\ UNCHANGED <<jobState, lockVars, workerVars, held>>

-----------------------------------------------------------------------------
(* The coordinator: take both locks, recover, lead.                        *)

TryCoordinator(m) ==
    /\ pc[m] = "wait"
    /\ ~stopping[m]
    /\ coordLock = NoManager
    /\ coordLock' = m
    /\ pc' = [pc EXCEPT ![m] = "exec"]
    /\ UNCHANGED <<queueVars, execLock, phase, taskJob, lost, stopping, held, faults>>

(* The standby did not wait for the execution lock: it takes leadership    *)
(* while the previous leader is still draining an attempt.                 *)
TryExecution_NoFence(m) ==
    /\ pc[m] = "exec"
    /\ execLock' = m
    /\ pc' = [pc EXCEPT ![m] = "recover"]
    /\ UNCHANGED <<queueVars, coordLock, phase, taskJob, lost, stopping, held, faults>>

TryExecution(m) ==
    /\ pc[m] = "exec"
    /\ \/ /\ execLock = NoManager
          /\ execLock' = m
          /\ pc' = [pc EXCEPT ![m] = "recover"]
       \/ /\ execLock # NoManager
          /\ pc' = [pc EXCEPT ![m] = "release"]
          /\ UNCHANGED execLock
    /\ UNCHANGED <<queueVars, coordLock, phase, taskJob, lost, stopping, held, faults>>

Recovered == [j \in Jobs |-> IF j \in Batch(Lockable(Pending)) THEN "queued"
                                                               ELSE jobState[j]]

(* Recovery looked at queued rows only, as the claim does.                 *)
RecoverPending_QueuedOnly(m) ==
    /\ pc[m] = "recover"
    /\ pc' = [pc EXCEPT ![m] = "lead"]
    /\ jobState' = [j \in Jobs |-> IF j \in Batch(Lockable({"queued"}))
                                   THEN "queued" ELSE jobState[j]]
    /\ UNCHANGED <<request, lockVars, phase, taskJob, lost, stopping, held, faults>>

RecoverPending(m) ==
    /\ pc[m] = "recover"
    /\ jobState' = Recovered
    /\ pc' = [pc EXCEPT ![m] = "lead"]
    /\ UNCHANGED <<request, lockVars, phase, taskJob, lost, stopping, held, faults>>

(* The database fails before or after the recovery commits.                *)
RecoverFails(m) ==
    /\ pc[m] = "recover"
    /\ Fault("dbError")
    /\ jobState' \in {jobState, Recovered}
    /\ pc' = [pc EXCEPT ![m] = "release"]
    /\ UNCHANGED <<request, lockVars, phase, taskJob, lost, stopping, held>>

LoopHead(m) ==
    /\ pc[m] = "lead"
    /\ pc' = [pc EXCEPT ![m] =
                 IF stopping[m] \/ ~LocksAlive(m) THEN "release" ELSE "claim"]
    /\ UNCHANGED <<queueVars, lockVars, phase, taskJob, lost, stopping, held, faults>>

ClaimNone(m) ==
    /\ pc[m] = "claim"
    /\ Lockable({"queued"}) = {}
    /\ pc' = [pc EXCEPT ![m] = "lead"]
    /\ UNCHANGED <<queueVars, lockVars, phase, taskJob, lost, stopping, held, faults>>

ClaimNextJob(m) ==
    /\ pc[m] = "claim"
    /\ \E j \in Oldest(Lockable({"queued"})) :
          /\ jobState' = [jobState EXCEPT ![j] = "running"]
          /\ taskJob'  = [taskJob EXCEPT ![m] = j]
    /\ phase' = [phase EXCEPT ![m] = "processor"]
    /\ lost'  = [lost EXCEPT ![m] = FALSE]
    /\ pc'    = [pc EXCEPT ![m] = "run"]
    /\ UNCHANGED <<request, lockVars, stopping, held, faults>>

(* The claim raises: before its commit, or after it, when the row it made  *)
(* running is loaded again.                                                *)
ClaimFails(m) ==
    /\ pc[m] = "claim"
    /\ Fault("dbError")
    /\ \/ UNCHANGED jobState
       \/ \E j \in Oldest(Lockable({"queued"})) :
             jobState' = [jobState EXCEPT ![j] = "running"]
    /\ pc' = [pc EXCEPT ![m] = "release"]
    /\ UNCHANGED <<request, lockVars, phase, taskJob, lost, stopping, held>>

(* The monitor stopped draining: it drops the attempt and gives up the     *)
(* locks while the processor is still at work.                             *)
MonitorLoss_NoDrain(m) ==
    /\ pc[m] = "run"
    /\ ~lost[m]
    /\ phase[m] \notin Ended
    /\ ~LocksAlive(m)
    /\ lost' = [lost EXCEPT ![m] = TRUE]
    /\ execLock' = IF execLock = m THEN NoManager ELSE execLock
    /\ UNCHANGED <<queueVars, coordLock, pc, phase, taskJob, stopping, held, faults>>

MonitorLoss(m) ==
    /\ pc[m] = "run"
    /\ ~lost[m]
    /\ phase[m] \notin Ended
    /\ ~LocksAlive(m)
    /\ lost' = [lost EXCEPT ![m] = TRUE]
    /\ UNCHANGED <<queueVars, lockVars, pc, phase, taskJob, stopping, held, faults>>

TaskEnds(m) ==
    /\ pc[m] = "run"
    /\ phase[m] \in Ended
    /\ pc' = [pc EXCEPT ![m] =
                 IF phase[m] = "broken" THEN "unwind"
                 ELSE IF phase[m] = "ended" /\ ~lost[m] THEN "lead"
                 ELSE "release"]
    /\ phase'   = [phase EXCEPT ![m] = "none"]
    /\ taskJob' = [taskJob EXCEPT ![m] = NoJob]
    /\ UNCHANGED <<queueVars, lockVars, lost, stopping, held, faults>>

(* The finally clause gives up the execution lock first.                   *)
ReleaseExecution(m) ==
    /\ pc[m] \in {"release", "unwind"}
    /\ execLock' = IF execLock = m THEN NoManager ELSE execLock
    /\ pc' = [pc EXCEPT ![m] =
                 IF @ = "release" THEN "releaseCoord" ELSE "unwindCoord"]
    /\ UNCHANGED <<queueVars, coordLock, phase, taskJob, lost, stopping, held, faults>>

ReleaseCoordinator(m) ==
    /\ pc[m] \in {"releaseCoord", "unwindCoord"}
    /\ coordLock' = IF coordLock = m THEN NoManager ELSE coordLock
    /\ pc' = [pc EXCEPT ![m] = IF @ = "releaseCoord" THEN "wait" ELSE "dead"]
    /\ UNCHANGED <<queueVars, execLock, phase, taskJob, lost, stopping, held, faults>>

ExitLoop(m) ==
    /\ pc[m] \in {"wait", "dead"}
    /\ stopping[m]
    /\ pc' = [pc EXCEPT ![m] = "down"]
    /\ stopping' = [stopping EXCEPT ![m] = FALSE]
    /\ UNCHANGED <<queueVars, lockVars, phase, taskJob, lost, held, faults>>

-----------------------------------------------------------------------------
(* The _process task of a worker.                                          *)

Enter(m, p) == phase' = [phase EXCEPT ![m] = p]

ProcessorReturns(m) ==
    /\ phase[m] = "processor"
    /\ Enter(m, "returned")
    /\ UNCHANGED <<queueVars, lockVars, pc, taskJob, lost, stopping, held, faults>>

ProcessorRaises(m) ==
    /\ phase[m] = "processor"
    /\ Enter(m, "raised")
    /\ UNCHANGED <<queueVars, lockVars, pc, taskJob, lost, stopping, held, faults>>

LoadResult(m) ==
    /\ phase[m] = "returned"
    /\ \/ /\ Enter(m, IF jobState[taskJob[m]] \in Terminal THEN "ended"
                                                           ELSE "complete")
          /\ UNCHANGED faults
       \/ /\ Enter(m, "raised")
          /\ Fault("dbError")
    /\ UNCHANGED <<queueVars, lockVars, pc, taskJob, lost, stopping, held>>

Complete(m) ==
    /\ phase[m] = "complete"
    /\ taskJob[m] \notin held
    /\ jobState' = [jobState EXCEPT ![taskJob[m]] = "completed"]
    /\ Enter(m, "ended")
    /\ UNCHANGED <<request, lockVars, pc, taskJob, lost, stopping, held, faults>>

(* update() fails, or the load() that follows its commit does: either way  *)
(* the handler of _process goes on to fail the job.                        *)
CompleteFails(m) ==
    /\ phase[m] = "complete"
    /\ Fault("dbError")
    /\ \/ UNCHANGED jobState
       \/ /\ taskJob[m] \notin held
          /\ jobState' = [jobState EXCEPT ![taskJob[m]] = "completed"]
    /\ Enter(m, "raised")
    /\ UNCHANGED <<request, lockVars, pc, taskJob, lost, stopping, held>>

(* The handler only logged the error and left the row as it was.           *)
Fail_LeaveRow(m) ==
    /\ phase[m] = "raised"
    /\ Enter(m, "failureFile")
    /\ UNCHANGED <<queueVars, lockVars, pc, taskJob, lost, stopping, held, faults>>

Fail(m) ==
    /\ phase[m] = "raised"
    /\ taskJob[m] \notin held
    /\ jobState' = [jobState EXCEPT ![taskJob[m]] = "failed"]
    /\ Enter(m, "failureFile")
    /\ UNCHANGED <<request, lockVars, pc, taskJob, lost, stopping, held, faults>>

FailFails(m) ==
    /\ phase[m] = "raised"
    /\ Fault("dbError")
    /\ \/ UNCHANGED jobState
       \/ /\ taskJob[m] \notin held
          /\ jobState' = [jobState EXCEPT ![taskJob[m]] = "failed"]
    /\ Enter(m, "escaped")
    /\ UNCHANGED <<request, lockVars, pc, taskJob, lost, stopping, held>>

(* failure.json is written and registered: an OSError is not a             *)
(* JobStoreError, so nothing above _process catches it.                    *)
WriteFailure(m) ==
    /\ phase[m] = "failureFile"
    /\ \/ /\ Enter(m, "ended")
          /\ UNCHANGED faults
       \/ /\ Enter(m, "escaped")
          /\ Fault("dbError")
       \/ /\ Enter(m, "broken")
          /\ Fault("diskError")
    /\ UNCHANGED <<queueVars, lockVars, pc, taskJob, lost, stopping, held>>

-----------------------------------------------------------------------------
(* The environment.                                                        *)

Stop(m) ==
    /\ pc[m] # "down"
    /\ ~stopping[m]
    /\ Fault("stop")
    /\ stopping' = [stopping EXCEPT ![m] = TRUE]
    /\ UNCHANGED <<queueVars, lockVars, pc, phase, taskJob, lost, held>>

Crash(m) ==
    /\ pc[m] # "down"
    /\ Fault("crash")
    /\ pc'       = [pc EXCEPT ![m] = "down"]
    /\ phase'    = [phase EXCEPT ![m] = "none"]
    /\ taskJob'  = [taskJob EXCEPT ![m] = NoJob]
    /\ stopping' = [stopping EXCEPT ![m] = FALSE]
    /\ coordLock' = IF coordLock = m THEN NoManager ELSE coordLock
    /\ execLock'  = IF execLock = m THEN NoManager ELSE execLock
    /\ UNCHANGED <<queueVars, lost, held>>

Start(m) ==
    /\ pc[m] = "down"
    /\ pc'   = [pc EXCEPT ![m] = "wait"]
    /\ lost' = [lost EXCEPT ![m] = FALSE]
    /\ UNCHANGED <<queueVars, lockVars, phase, taskJob, stopping, held, faults>>

LoseCoordinator ==
    /\ coordLock # NoManager
    /\ Fault("coordLoss")
    /\ coordLock' = NoManager
    /\ UNCHANGED <<queueVars, execLock, workerVars, held>>

LoseExecution ==
    /\ execLock # NoManager
    /\ Fault("execLoss")
    /\ execLock' = NoManager
    /\ UNCHANGED <<queueVars, coordLock, workerVars, held>>

LockRow(j) ==
    /\ j \notin held
    /\ jobState[j] # "absent"
    /\ Fault("rowLock")
    /\ held' = held \cup {j}
    /\ UNCHANGED <<queueVars, lockVars, workerVars>>

UnlockRow(j) ==
    /\ j \in held
    /\ held' = held \ {j}
    /\ UNCHANGED <<queueVars, lockVars, workerVars, faults>>

-----------------------------------------------------------------------------
Request(j) ==
    \/ CreateRun(j)
    \/ EnqueueLoad(j)
    \/ EnqueueUpdate(j)
    \/ RequestLost(j)

Coordinate(m) ==
    \/ TryCoordinator(m)
    \/ TryExecution(m)
    \/ RecoverPending(m)
    \/ LoopHead(m)
    \/ ClaimNone(m)
    \/ ClaimNextJob(m)
    \/ MonitorLoss(m)
    \/ TaskEnds(m)
    \/ ReleaseExecution(m)
    \/ ReleaseCoordinator(m)
    \/ ExitLoop(m)

Process(m) ==
    \/ ProcessorReturns(m)
    \/ ProcessorRaises(m)
    \/ LoadResult(m)
    \/ Complete(m)
    \/ Fail(m)
    \/ WriteFailure(m)

DatabaseFails(m) ==
    \/ RecoverFails(m)
    \/ ClaimFails(m)
    \/ CompleteFails(m)
    \/ FailFails(m)

Disturb(m) ==
    \/ Stop(m)
    \/ Crash(m)
    \/ Start(m)

Next ==
    \/ \E j \in Jobs : Request(j) \/ LockRow(j) \/ UnlockRow(j)
    \/ \E m \in Managers :
          Coordinate(m) \/ Process(m) \/ DatabaseFails(m) \/ Disturb(m)
    \/ LoseCoordinator
    \/ LoseExecution

Spec == Init /\ [][Next]_vars

(* A worker's tasks run, a container that went down is started again by    *)
(* the platform, and a transaction that holds a row ends.  The processor   *)
(* ends too: every provider call and every ffmpeg run has a timeout.       *)
Fairness ==
    /\ \A m \in Managers :
          /\ WF_vars(Coordinate(m))
          /\ WF_vars(Process(m))
          /\ WF_vars(Start(m))
    /\ \A j \in Jobs : WF_vars(UnlockRow(j))

FairSpec == Spec /\ Fairness

-----------------------------------------------------------------------------
(* Properties.                                                             *)

Processing(m) == phase[m] \notin {"none"} \cup Ended

(* At most one worker processes at any time: the execution lock fences a   *)
(* draining attempt from the next leader, whichever worker crashes, stops, *)
(* or loses the coordinator connection.                                    *)
NoOverlap == \A m, n \in Managers : Processing(m) /\ Processing(n) => m = n

(* Once a leader has recovered and is between two jobs, no row is left     *)
(* running: a running row there would never be claimed nor recovered.      *)
NoOrphan ==
    \A m \in Managers : pc[m] \in {"lead", "claim"} =>
        \A j \in Jobs : jobState[j] # "running"

(* A job ends only in a step of the worker that processes it, and that     *)
(* worker holds the execution lock at that moment.                         *)
CommitUnderFence ==
    [][\A j \in Jobs : jobState[j] \notin Terminal /\ jobState'[j] \in Terminal
         => \E m \in Managers : taskJob[m] = j /\ execLock = m]_vars

(* "Terminal jobs cannot be queued" (enqueue), as far as it goes: a job    *)
(* that has ended leaves its end only by the update of a request that read *)
(* it before it ended, or for failed, when the load after its completion   *)
(* raises.  No recovery, claim or late result of an earlier attempt moves  *)
(* it.                                                                     *)
EndsStay ==
    [][\A j \in Jobs : jobState[j] \in Terminal /\ jobState'[j] # jobState[j] =>
          \/ request[j] = "requeue" /\ jobState'[j] = "queued"
          \/ jobState[j] = "completed" /\ jobState'[j] = "failed"]_vars

(* Every run that was created ends, through any finite number of faults.   *)
EventuallyTerminal ==
    \A j \in Jobs : jobState[j] \in Pending ~> jobState[j] \in Terminal

(* The queue implements the exclusive queue: the run being executed is the *)
(* one whose attempt has not recorded its outcome yet.                     *)
Executing(m) == phase[m] \in {"processor", "returned", "complete", "raised"}
ExecutingJob == IF \E m \in Managers : Executing(m)
                THEN taskJob[CHOOSE m \in Managers : Executing(m)]
                ELSE NoJob

EQ == INSTANCE ExclusiveQueue WITH state <- jobState, executing <- ExecutingJob
Exclusive == EQ!Spec

=============================================================================
