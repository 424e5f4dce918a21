------------------------------ MODULE Retention ------------------------------
(***************************************************************************)
(* What becomes of a run's files and rows once the run has ended: the      *)
(* sweep of the worker, the deletion of a session, audit holds and the     *)
(* retention pass, which purges expired media and later the whole run.     *)
(* Passes, deletions and holds exclude each other by one advisory lock;    *)
(* the worker does not take it.                                            *)
(*                                                                         *)
(* A deadline is "later" or "due"; it becomes due between passes, which    *)
(* are short against deadlines of days.  The files of a run are told apart *)
(* by what retention does with them.                                       *)
(*                                                                         *)
(* Source: src/open_storyline/mvp/retention.py (RetentionService) and what *)
(* jobs.py, checkpoints.py, session_media.py and prompt_versions.py do     *)
(* with the same rows and files.                                           *)
(***************************************************************************)
EXTENDS Integers, FiniteSets

CONSTANTS
    Sessions,    \* editing sessions
    Workflow,    \* the workflow version of each session
    Jobs,        \* runs, made during the run of the system or imported
    Home,        \* the session of each run
    Web,         \* retention services of the web process
    Commands,    \* retention services of operator commands
    NoOne,       \* the holder of a free lock
    MaxFaults    \* how often each kind of fault may still happen

Actors     == Web \cup Commands
FaultKinds == {"crash", "error", "lockLoss"}   \* error: of disk or database

ASSUME HomeAssumption     == Home \in [Jobs -> Sessions]
ASSUME WorkflowAssumption == Workflow \in [Sessions -> {1, 2}]
ASSUME NoOneAssumption    == NoOne \notin Actors
ASSUME BudgetAssumption   == MaxFaults \in [FaultKinds -> Nat]

VARIABLES
    sess,     \* the row of each session, its source and its analysis cache
    job,      \* the row of each run
    row,      \* the artifact and checkpoint rows of each run
    disk,     \* the files of each run
    worker,   \* where the worker is with each run
    keep,     \* the paths that the worker's sweep will leave alone
    lock,     \* the holder of the cleanup lock
    op,       \* what each retention service is doing
    faults    \* faults left, per kind

runVars == <<row, disk, worker, keep>>
vars    == <<sess, job, row, disk, worker, keep, lock, op, faults>>

(* What the worker writes, in this order; all but the temporary files are  *)
(* registered once written.  "evidence" are the JSON and SRT files.        *)
Recorded == {"evidence", "checkpoint", "video"}
Media    == {"input", "work", "video"}       \* what a media purge removes
Kinds    == Media \cup Recorded

SessionStates == {"open", "deleted", "gone"}
JobStates     == {"absent", "active", "terminal", "gone"}
Workers       == {"none", "render", "failing", "failure", "ended", "sweep", "clear"}
OpSteps       == {"idle", "sources", "cache", "media", "files", "mark",
                  "audit", "row", "empty", "source"}

Resting == [step |-> "idle", todo |-> {}, home |-> NoOne, run |-> NoOne,
            video |-> "none", reason |-> "none"]

Statuses    == {"none", "available", "deleted", "missing"}
SessionRows == [state : SessionStates, due : BOOLEAN, held : BOOLEAN,
                source : {"none", "ready", "purged"}, expired : BOOLEAN,
                cache : BOOLEAN]
RunRows     == [state : JobStates, media : {"none", "later", "due"}, due : BOOLEAN]
Ops         == [step : OpSteps, todo : SUBSET (Sessions \cup Jobs),
                home : Sessions \cup {NoOne}, run : Jobs \cup {NoOne},
                video : Statuses, reason : {"none", "pass", "session_deleted"}]

TypeOK ==
    /\ sess   \in [Sessions -> SessionRows]
    /\ job    \in [Jobs -> RunRows]
    /\ row    \in [Jobs -> [Recorded -> Statuses]]
    /\ disk   \in [Jobs -> SUBSET Kinds]
    /\ worker \in [Jobs -> Workers]
    /\ keep   \in [Jobs -> SUBSET Kinds]
    /\ lock   \in Actors \cup {NoOne}
    /\ op     \in [Actors -> Ops]
    /\ faults \in [FaultKinds -> Nat]

(* A legacy session holds imported runs, which have ended; a new session   *)
(* is empty.                                                               *)
Imported(j) == Workflow[Home[j]] = 1
Recorded0(j) == [k \in Recorded |->
                   IF Imported(j) /\ k # "checkpoint" THEN "available" ELSE "none"]

Init ==
    /\ sess = [s \in Sessions |->
                 [state |-> "open", due |-> FALSE, held |-> FALSE,
                  source |-> "none", expired |-> FALSE, cache |-> FALSE]]
    /\ job  = [j \in Jobs |->
                 IF Imported(j)
                 THEN [state |-> "terminal", media |-> "later", due |-> FALSE]
                 ELSE [state |-> "absent", media |-> "none", due |-> FALSE]]
    /\ row  = [j \in Jobs |-> Recorded0(j)]
    /\ disk = [j \in Jobs |->
                 IF Imported(j) THEN {"input", "evidence", "video"} ELSE {}]
    /\ worker = [j \in Jobs |-> "none"]
    /\ keep   = [j \in Jobs |-> {}]
    /\ lock   = NoOne
    /\ op     = [a \in Actors |-> Resting]
    /\ faults = MaxFaults

Fault(kind) ==
    /\ faults[kind] > 0
    /\ faults' = [faults EXCEPT ![kind] = @ - 1]

(* A session is deleted together with all its runs, under the row locks of *)
(* all of them, so that a run is hidden exactly when its session is.       *)
Exists(j)  == job[j].state \in {"active", "terminal"}
Hidden(j)  == sess[Home[j]].state # "open"
Found(j)   == Exists(j) /\ ~Hidden(j)          \* what load finds
JobsOf(s)  == {j \in Jobs : Home[j] = s}
Busy(s)    == \E j \in JobsOf(s) : job[j].state = "active"

-----------------------------------------------------------------------------
(* Time.                                                                   *)

Quiet == \A a \in Actors : op[a].step = "idle"

(* The steps that follow a run's end take seconds.                         *)
Settled(j) == worker[j] \in {"none", "render"}

MediaFallsDue(j) ==
    /\ Quiet /\ Settled(j)
    /\ Exists(j) /\ job[j].media = "later"
    /\ job' = [job EXCEPT ![j].media = "due"]
    /\ UNCHANGED <<sess, runVars, lock, op, faults>>

JobFallsDue(j) ==
    /\ Quiet /\ Settled(j)
    /\ Exists(j) /\ ~job[j].due
    /\ job' = [job EXCEPT ![j].due = TRUE]
    /\ UNCHANGED <<sess, runVars, lock, op, faults>>

(* The deadline of a session is no earlier than those of its runs.         *)
SessionFallsDue(s) ==
    /\ Quiet
    /\ sess[s].state # "gone" /\ ~sess[s].due
    /\ \A j \in JobsOf(s) : Exists(j) => job[j].due
    /\ sess' = [sess EXCEPT ![s].due = TRUE]
    /\ UNCHANGED <<job, runVars, lock, op, faults>>

SourceExpires(s) ==
    /\ Quiet
    /\ sess[s].source = "ready" /\ ~sess[s].expired
    /\ sess' = [sess EXCEPT ![s].expired = TRUE]
    /\ UNCHANGED <<job, runVars, lock, op, faults>>

-----------------------------------------------------------------------------
(* The requests of a client and the worker.                                *)

SourceCompleted(s) ==
    /\ Workflow[s] = 2
    /\ sess[s].state = "open" /\ ~sess[s].due /\ sess[s].source = "none"
    /\ sess' = [sess EXCEPT ![s].source = "ready"]
    /\ UNCHANGED <<job, runVars, lock, op, faults>>

(* A new run of an open session with a ready source renews the deadlines   *)
(* of both.                                                                *)
CreateRun(j) ==
    LET s == Home[j]
    IN /\ job[j].state = "absent"
       /\ Workflow[s] = 2
       /\ sess[s].state = "open" /\ ~sess[s].due
       /\ sess[s].source = "ready" /\ ~sess[s].expired
       /\ job'    = [job EXCEPT ![j] =
                       [state |-> "active", media |-> "later", due |-> FALSE]]
       /\ worker' = [worker EXCEPT ![j] = "render"]
       /\ UNCHANGED <<sess, row, disk, keep, lock, op, faults>>

Stored(j, k) == k \in disk[j] /\ row[j][k] = "available"

Write(j, k) ==
    /\ worker[j] = "render" /\ job[j].state = "active"
    /\ k \notin disk[j]
    /\ \/ k = "work"
       \/ k = "evidence"   /\ "work" \in disk[j]
       \/ k = "checkpoint" /\ Stored(j, "evidence")
       \/ k = "video"      /\ Stored(j, "checkpoint")
    /\ disk' = [disk EXCEPT ![j] = @ \cup {k}]
    /\ UNCHANGED <<sess, job, row, worker, keep, lock, op, faults>>

(* register_artifact, and the row of a saved checkpoint.                   *)
Register(j, k) ==
    /\ worker[j] = "render" /\ job[j].state = "active"
    /\ k \in disk[j] /\ row[j][k] # "available"
    /\ row' = [row EXCEPT ![j][k] = "available"]
    /\ UNCHANGED <<sess, job, disk, worker, keep, lock, op, faults>>

SaveAnalysis(j) ==
    /\ worker[j] = "render" /\ job[j].state = "active"
    /\ "work" \in disk[j] /\ ~sess[Home[j]].cache
    /\ sess' = [sess EXCEPT ![Home[j]].cache = TRUE]
    /\ UNCHANGED <<job, runVars, lock, op, faults>>

(* The run ends: its deadlines start, the session outlives it and a ready  *)
(* source is renewed.                                                      *)
Finish(j) ==
    /\ worker[j] = "render" /\ job[j].state = "active" /\ ~Hidden(j)
    /\ job'  = [job EXCEPT ![j] =
                  [state |-> "terminal", media |-> "later", due |-> FALSE]]
    /\ sess' = [sess EXCEPT ![Home[j]].due = FALSE, ![Home[j]].expired = FALSE]
    /\ \E next \in {"ended", "failing"} :
          /\ next = "ended" => Stored(j, "video")
          /\ worker' = [worker EXCEPT ![j] = next]
    /\ UNCHANGED <<row, disk, keep, lock, op, faults>>

(* A failed run leaves failure.json; the run may have been deleted before  *)
(* it is written, or after.                                                *)
WriteFailure(j) ==
    /\ worker[j] = "failing"
    /\ IF Found(j)
       THEN /\ disk'   = [disk EXCEPT ![j] = @ \cup {"evidence"}]
            /\ worker' = [worker EXCEPT ![j] = "failure"]
       ELSE /\ worker' = [worker EXCEPT ![j] = "none"]
            /\ UNCHANGED disk
    /\ UNCHANGED <<sess, job, row, keep, lock, op, faults>>

RegisterFailure(j) ==
    /\ worker[j] = "failure"
    /\ IF Found(j)
       THEN /\ row'    = [row EXCEPT ![j]["evidence"] = "available"]
            /\ worker' = [worker EXCEPT ![j] = "ended"]
       ELSE /\ worker' = [worker EXCEPT ![j] = "none"]
            /\ UNCHANGED row
    /\ UNCHANGED <<sess, job, disk, keep, lock, op, faults>>

(* The worker reads the run again; for a deleted one it gives up, and the  *)
(* exception takes its sweep with it.                                      *)
Reload(j) ==
    /\ worker[j] = "ended"
    /\ worker' = [worker EXCEPT ![j] = IF Found(j) THEN "sweep" ELSE "none"]
    /\ UNCHANGED <<sess, job, row, disk, keep, lock, op, faults>>

(* cleanup_terminal_job compares the paths below the run's directory with  *)
(* the registered ones.  Those of artifacts start there; those of          *)
(* checkpoints start one directory above, and match no file.               *)
Below(j, k)  == IF k \in Recorded THEN <<"output", k>> ELSE <<k>>
Path(j, k)   == IF k = "checkpoint" THEN <<j, "output", k>> ELSE <<"output", k>>
Paths(j)     == {Path(j, k) : k \in {r \in Recorded : row[j][r] # "none"}}

SweepRead(j) ==
    /\ worker[j] = "sweep"
    /\ IF job[j].state = "terminal"
       THEN /\ keep'   = [keep EXCEPT ![j] =
                            {k \in Kinds : Below(j, k) \in Paths(j)} \cup {"input"}]
            /\ worker' = [worker EXCEPT ![j] = "clear"]
       ELSE /\ worker' = [worker EXCEPT ![j] = "none"]
            /\ UNCHANGED keep
    /\ UNCHANGED <<sess, job, row, disk, lock, op, faults>>

SweepFiles(j) ==
    /\ worker[j] = "clear"
    /\ disk'   = [disk EXCEPT ![j] = @ \cap keep[j]]
    /\ keep'   = [keep EXCEPT ![j] = {}]
    /\ worker' = [worker EXCEPT ![j] = "none"]
    /\ UNCHANGED <<sess, job, row, lock, op, faults>>

(* A restart takes the worker's last steps with it: the run has ended and  *)
(* nobody resumes them.  An active run starts over with its files in place.*)
WorkerCrash(j) ==
    /\ worker[j] \notin {"none", "render"}
    /\ Fault("crash")
    /\ worker' = [worker EXCEPT ![j] = "none"]
    /\ keep'   = [keep EXCEPT ![j] = {}]
    /\ UNCHANGED <<sess, job, row, disk, lock, op>>

-----------------------------------------------------------------------------
(* The steps of a retention service.                                       *)

At(a, step)   == op[a].step = step
Goes(a, o)    == op' = [op EXCEPT ![a] = o]
Moves(a, step) == Goes(a, [op[a] EXCEPT !.step = step])

Dropped(a, x) == [op[a] EXCEPT !.todo = @ \ {x}]

(* The next run of the loop over the runs, after this one.                 *)
NextRun(a) ==
    Goes(a, [Dropped(a, op[a].run) EXCEPT
               !.step  = IF At(a, "row") THEN "audit" ELSE "media",
               !.run   = NoOne, !.video = "none"])

Unlock(a) == lock' = IF lock = a THEN NoOne ELSE lock
Ends(a)   == Goes(a, Resting) /\ Unlock(a)

SourceCandidates ==
    {s \in Sessions : /\ sess[s].source = "ready"
                      /\ sess[s].state # "gone"
                      /\ sess[s].state = "deleted" \/ sess[s].expired
                      /\ ~Busy(s)}

(* A hold that keeps the media too.                                        *)
MediaCandidates_NotHeld ==
    {j \in Jobs : /\ job[j].state = "terminal"
                  /\ job[j].media = "due"
                  /\ ~sess[Home[j]].held}

MediaCandidates ==
    {j \in Jobs : /\ job[j].state = "terminal"
                  /\ job[j].media # "none"
                  /\ job[j].media = "due" \/ Hidden(j)}
Due(j) == job[j].state = "terminal" /\ job[j].due /\ ~sess[Home[j]].held

AuditCandidates == {j \in Jobs : Due(j)}

StartPass(a) ==
    /\ At(a, "idle") /\ lock = NoOne
    /\ lock' = a
    /\ Goes(a, [Resting EXCEPT !.step = "sources", !.todo = SourceCandidates,
                               !.reason = "pass"])
    /\ UNCHANGED <<sess, job, runVars, faults>>

(* session_media.purge, in full in SessionSource: it refuses while a run   *)
(* of the session is active.                                               *)
Purgeable(s) == /\ sess[s].source = "ready" /\ ~Busy(s)
                /\ sess[s].state = "deleted" \/ sess[s].expired
SourcePurged(s) == sess' = [sess EXCEPT ![s].source = "purged"]

PassSource(a, s) ==
    /\ At(a, "sources") /\ s \in op[a].todo
    /\ IF a \in Web /\ ~Busy(s)
       THEN /\ IF Purgeable(s) THEN SourcePurged(s) ELSE UNCHANGED sess
            /\ Goes(a, [Dropped(a, s) EXCEPT !.step = "cache", !.home = s])
       ELSE /\ Goes(a, Dropped(a, s))
            /\ UNCHANGED sess
    /\ UNCHANGED <<job, runVars, lock, faults>>

PassSourceFails(a, s) ==
    /\ At(a, "sources") /\ s \in op[a].todo /\ a \in Web
    /\ Fault("error")
    /\ Goes(a, Dropped(a, s))
    /\ UNCHANGED <<sess, job, runVars, lock>>

(* _purge_session_analysis_cache: the files, then the rows.                *)
PassCache(a) ==
    /\ At(a, "cache")
    /\ sess' = [sess EXCEPT ![op[a].home].cache = FALSE]
    /\ Goes(a, [op[a] EXCEPT !.step = "sources", !.home = NoOne])
    /\ UNCHANGED <<job, runVars, lock, faults>>

(* The loops end: the candidates of the next one are read.                 *)
NextLoop(a) ==
    /\ op[a].todo = {} /\ op[a].reason = "pass"
    /\ \/ /\ At(a, "sources")
          /\ Goes(a, [op[a] EXCEPT !.step = "media", !.todo = MediaCandidates])
       \/ /\ At(a, "media")
          /\ Goes(a, [op[a] EXCEPT !.step = "audit", !.todo = AuditCandidates])
       \/ /\ At(a, "audit")
          /\ Moves(a, "empty")
    /\ UNCHANGED <<sess, job, runVars, lock, faults>>

(* _purge_media_job: read the rows, remove the files, mark the rows.       *)
PurgeRead(a, j) ==
    /\ At(a, "media") /\ j \in op[a].todo
    /\ IF job[j].state = "terminal" /\ job[j].media # "none"
       THEN Goes(a, [op[a] EXCEPT !.step = "files", !.run = j,
                                  !.video = row[j]["video"]])
       ELSE Goes(a, Dropped(a, j))
    /\ UNCHANGED <<sess, job, runVars, lock, faults>>

Emptied(j, kinds) == disk' = [disk EXCEPT ![j] = @ \ kinds]

PurgeFiles(a) ==
    LET j == op[a].run
    IN /\ At(a, "files")
       /\ Emptied(j, Media)
       /\ Goes(a, [op[a] EXCEPT
                     !.step  = "mark",
                     !.video = IF @ = "none" THEN "none"
                               ELSE IF "video" \in disk[j] THEN "deleted"
                               ELSE "missing"])
       /\ UNCHANGED <<sess, job, row, worker, keep, lock, faults>>

(* Some of the files are gone when an error ends the purge of this run.    *)
PurgeFilesFail(a) ==
    /\ At(a, "files")
    /\ Fault("error")
    /\ \E some \in SUBSET (disk[op[a].run] \cap Media) : Emptied(op[a].run, some)
    /\ NextRun(a)
    /\ UNCHANGED <<sess, job, row, worker, keep, lock>>

PurgeMark(a) ==
    LET j == op[a].run
    IN /\ At(a, "mark")
       /\ IF job[j].state = "terminal"
          THEN /\ row' = [row EXCEPT ![j]["video"] =
                            IF op[a].video = "none" THEN @ ELSE op[a].video]
               /\ job' = [job EXCEPT ![j].media = "none"]
          ELSE UNCHANGED <<row, job>>
       /\ NextRun(a)
       /\ UNCHANGED <<sess, disk, worker, keep, lock, faults>>

(* A failed purge that is recorded as done.                                *)
PurgeMarkFails_Recorded(a) ==
    /\ At(a, "mark")
    /\ Fault("error")
    /\ job' = [job EXCEPT ![op[a].run].media = "none"]
    /\ NextRun(a)
    /\ UNCHANGED <<sess, runVars, lock>>

PurgeMarkFails(a) ==
    /\ At(a, "mark")
    /\ Fault("error")
    /\ NextRun(a)
    /\ UNCHANGED <<sess, job, runVars, lock>>

(* _hard_delete_job: first the whole directory, then the row, if it is     *)
(* still due.                                                              *)
HardTree(a, j) ==
    /\ At(a, "audit") /\ j \in op[a].todo
    /\ Emptied(j, Kinds)
    /\ Goes(a, [op[a] EXCEPT !.step = "row", !.run = j])
    /\ UNCHANGED <<sess, job, row, worker, keep, lock, faults>>

HardTreeFails(a, j) ==
    /\ At(a, "audit") /\ j \in op[a].todo
    /\ Fault("error")
    /\ \E some \in SUBSET disk[j] : Emptied(j, some)
    /\ Goes(a, Dropped(a, j))
    /\ UNCHANGED <<sess, job, row, worker, keep, lock>>

HardRow(a) ==
    LET j == op[a].run
    IN /\ At(a, "row")
       /\ IF Due(j)
          THEN /\ job' = [job EXCEPT ![j] =
                            [state |-> "gone", media |-> "none", due |-> FALSE]]
               /\ row' = [row EXCEPT ![j] = [k \in Recorded |-> "none"]]
          ELSE UNCHANGED <<job, row>>
       /\ NextRun(a)
       /\ UNCHANGED <<sess, disk, worker, keep, lock, faults>>

HardRowFails(a) ==
    /\ At(a, "row")
    /\ Fault("error")
    /\ NextRun(a)
    /\ UNCHANGED <<sess, job, runVars, lock>>

(* _delete_empty_sessions deletes a batch in one transaction.  The rows of *)
(* a session's source (and of its prompt versions, which need a source)    *)
(* restrict its deletion and are themselves never deleted: one such        *)
(* session fails the whole batch.                                          *)
EmptySessions ==
    {s \in Sessions : /\ sess[s].state # "gone" /\ sess[s].due /\ ~sess[s].held
                      /\ \A j \in JobsOf(s) : ~Exists(j)}
Restricted(s) == sess[s].source # "none"

DeleteEmpty(a) ==
    /\ At(a, "empty")
    /\ IF \E s \in EmptySessions : Restricted(s)
       THEN UNCHANGED sess
       ELSE sess' = [s \in Sessions |->
                       IF s \in EmptySessions
                       THEN [sess[s] EXCEPT !.state = "gone", !.due = FALSE,
                                            !.cache = FALSE]
                       ELSE sess[s]]
    /\ Ends(a)
    /\ UNCHANGED <<job, runVars, faults>>

(* A database error outside the loops' own handlers ends the whole pass:   *)
(* while it reads candidates, drops a cache or deletes the empty sessions. *)
PassAborts(a) ==
    /\ op[a].reason = "pass"
    /\ \/ At(a, "cache") \/ At(a, "empty")
       \/ op[a].todo = {} /\ op[a].step \in {"sources", "media", "audit"}
    /\ Fault("error")
    /\ Ends(a)
    /\ UNCHANGED <<sess, job, runVars>>

(* delete_session: one transaction, then the purge of the runs' media and  *)
(* of the source.  A second call purges what is left.                      *)
DeleteSession(a, s) ==
    LET first == sess[s].state = "open"
    IN /\ At(a, "idle") /\ lock = NoOne
       /\ sess[s].state # "gone" /\ Workflow[s] = 2
       /\ ~Busy(s)
       /\ sess' = IF first
                  THEN [sess EXCEPT ![s].state = "deleted", ![s].due = FALSE]
                  ELSE sess
       /\ job'  = IF first
                  THEN [j \in Jobs |->
                          IF j \in JobsOf(s) /\ Exists(j)
                          THEN [job[j] EXCEPT
                                  !.due   = FALSE,
                                  !.media = IF @ = "none" THEN "none" ELSE "due"]
                          ELSE job[j]]
                  ELSE job
       /\ lock' = a
       /\ Goes(a, [Resting EXCEPT
                     !.step = "media", !.home = s, !.reason = "session_deleted",
                     !.todo = {j \in JobsOf(s) : Exists(j) /\ job[j].media # "none"}])
       /\ UNCHANGED <<runVars, faults>>

DeleteSource(a) ==
    /\ At(a, "media") /\ op[a].reason = "session_deleted" /\ op[a].todo = {}
    /\ IF Purgeable(op[a].home) THEN SourcePurged(op[a].home) ELSE UNCHANGED sess
    /\ Ends(a)
    /\ UNCHANGED <<job, runVars, faults>>

DeleteSourceFails(a) ==
    /\ At(a, "media") /\ op[a].reason = "session_deleted" /\ op[a].todo = {}
    /\ Fault("error")
    /\ Ends(a)
    /\ UNCHANGED <<sess, job, runVars>>

(* A hold that does not wait for the cleanup lock.                         *)
ChangeHold_Unlocked(s) ==
    /\ sess[s].state # "gone"
    /\ sess' = [sess EXCEPT ![s].held = ~@]
    /\ UNCHANGED <<job, runVars, lock, op, faults>>

(* set_audit_hold and clear_audit_hold: the lock and one transaction.      *)
ChangeHold(s) ==
    /\ lock = NoOne
    /\ sess[s].state # "gone"
    /\ sess' = [sess EXCEPT ![s].held = ~@]
    /\ UNCHANGED <<job, runVars, lock, op, faults>>

Crash(a) ==
    /\ ~At(a, "idle")
    /\ Fault("crash")
    /\ Ends(a)
    /\ UNCHANGED <<sess, job, runVars>>

(* The connection that holds the lock is lost; nobody looks at it again    *)
(* until the operation ends.                                               *)
LoseLock(a) ==
    /\ lock = a
    /\ Fault("lockLoss")
    /\ lock' = NoOne
    /\ UNCHANGED <<sess, job, runVars, op>>

-----------------------------------------------------------------------------
Step(a) ==
    \/ \E s \in Sessions : PassSource(a, s) \/ PassSourceFails(a, s)
    \/ PassCache(a) \/ NextLoop(a) \/ PassAborts(a)
    \/ \E j \in Jobs : PurgeRead(a, j) \/ HardTree(a, j) \/ HardTreeFails(a, j)
    \/ PurgeFiles(a) \/ PurgeFilesFail(a) \/ PurgeMark(a) \/ PurgeMarkFails(a)
    \/ HardRow(a) \/ HardRowFails(a) \/ DeleteEmpty(a)
    \/ DeleteSource(a) \/ DeleteSourceFails(a)

Work(j) ==
    \/ \E k \in Kinds : Write(j, k)
    \/ \E k \in Recorded : Register(j, k)
    \/ SaveAnalysis(j) \/ Finish(j)
    \/ WriteFailure(j) \/ RegisterFailure(j) \/ Reload(j)
    \/ SweepRead(j) \/ SweepFiles(j) \/ WorkerCrash(j)

Next ==
    \/ \E a \in Actors : Step(a) \/ StartPass(a) \/ Crash(a) \/ LoseLock(a)
    \/ \E a \in Web, s \in Sessions : DeleteSession(a, s)
    \/ \E s \in Sessions : \/ ChangeHold(s) \/ SourceCompleted(s)
                           \/ SessionFallsDue(s) \/ SourceExpires(s)
    \/ \E j \in Jobs : \/ Work(j) \/ CreateRun(j)
                       \/ MediaFallsDue(j) \/ JobFallsDue(j)

Spec == Init /\ [][Next]_vars

(* The scheduler of the web process tries a pass again and again and is    *)
(* not refused for ever: commands and deletions hold the lock for seconds, *)
(* passes come hours apart.  An operation that has begun goes on, and so   *)
(* does the worker.                                                        *)
Fairness ==
    /\ \A a \in Actors : WF_vars(Step(a))
    /\ \A a \in Web : SF_vars(StartPass(a))
    /\ \A j \in Jobs : WF_vars(Work(j))

LiveSpec == Spec /\ Fairness

-----------------------------------------------------------------------------
(* Properties.                                                             *)

(* A deleted session has no queued or running run: delete_session counts   *)
(* them and run creation reads deleted_at, each under the session's row    *)
(* lock.                                                                   *)
DeletedHasNoActive == \A j \in Jobs : Hidden(j) => job[j].state # "active"

(* Rows and files agree, or will be made to, whatever failed, crashed or   *)
(* was retried on the way: once a run's media deadline is cleared, its     *)
(* source copy, work files and videos are gone; a row that still calls a   *)
(* video available although the file is gone has its deadline to come; and *)
(* evidence that is gone was due, unless a later deletion of the session   *)
(* moved its deadline.                                                     *)
RowsFollowFiles ==
    \A j \in Jobs :
        /\ job[j].state = "terminal" /\ job[j].media = "none" => disk[j] \cap Media = {}
        /\ row[j]["video"] = "available" /\ "video" \notin disk[j]
              => job[j].media # "none"
        /\ row[j]["evidence"] = "available" /\ "evidence" \notin disk[j]
              => job[j].due \/ Hidden(j)

(* Registered evidence is removed only from a run whose audit deadline has *)
(* passed and whose session is not held, as long as the connection that    *)
(* holds the cleanup lock survives.                                        *)
Fenced == faults["lockLoss"] = MaxFaults["lockLoss"]
Losing(j) == /\ row[j]["evidence"] = "available" /\ "evidence" \in disk[j]
             /\ "evidence" \notin disk'[j]
EvidenceKept ==
    [][\A j \in Jobs : Losing(j) /\ Fenced => Due(j)]_vars

(* What is due is erased in the end: the expired media of an ended run,    *)
(* held or not, and a run past its audit deadline, unless its session is   *)
(* held again and again.                                                   *)
DueIsErased ==
    \A j \in Jobs :
        /\ (job[j].state = "terminal" /\ job[j].media = "due") ~> (job[j].media = "none")
        /\ <>[](~sess[Home[j]].held)
              => ((job[j].state = "terminal" /\ job[j].due) ~> ~job[j].due)

=============================================================================
