-------------------------- MODULE RetentionProofs --------------------------
(***************************************************************************)
(* Theorems about Retention, for every set of sessions, runs and services  *)
(* and every budget of faults.                                             *)
(***************************************************************************)
EXTENDS Retention, TLAPS

-----------------------------------------------------------------------------
(* Types.                                                                  *)

LEMMA FaultType ==
    ASSUME TypeOK, NEW k \in FaultKinds, Fault(k)
    PROVE  faults' \in [FaultKinds -> Nat]
<1>1. faults[k] \in Nat /\ faults[k] > 0
  BY DEF TypeOK, Fault
<1>2. faults[k] - 1 \in Nat
  BY <1>1
<1> QED
  BY <1>2 DEF TypeOK, Fault

LEMMA FaultNames ==
    {"crash", "error", "lockLoss"} \subseteq FaultKinds
  BY DEF FaultKinds

LEMMA OpType ==
    ASSUME TypeOK, NEW a \in Actors
    PROVE  op[a] \in Ops
  BY DEF TypeOK

LEMMA RestingType == Resting \in Ops
  BY DEF Resting, Ops, OpSteps, Statuses

LEMMA GoesType ==
    ASSUME TypeOK, NEW a \in Actors, NEW o \in Ops, Goes(a, o)
    PROVE  op' \in [Actors -> Ops]
  BY DEF TypeOK, Goes

LEMMA DroppedType ==
    ASSUME TypeOK, NEW a \in Actors, NEW x
    PROVE  Dropped(a, x) \in Ops
  BY OpType DEF Dropped, Ops

LEMMA NextRunType ==
    ASSUME TypeOK, NEW a \in Actors, NextRun(a)
    PROVE  op' \in [Actors -> Ops]
<1> DEFINE o == [Dropped(a, op[a].run) EXCEPT
                   !.step  = IF At(a, "row") THEN "audit" ELSE "media",
                   !.run   = NoOne, !.video = "none"]
<1>1. o \in Ops
  BY ZenonT(40), DroppedType DEF Ops, OpSteps, Statuses
<1> QED
  BY <1>1, GoesType DEF NextRun

LEMMA EndsType ==
    ASSUME TypeOK, NEW a \in Actors, Ends(a)
    PROVE  op' \in [Actors -> Ops] /\ lock' \in Actors \cup {NoOne}
<1>1. op' \in [Actors -> Ops]
  BY RestingType, GoesType DEF Ends
<1> QED
  BY <1>1 DEF Ends, Unlock, TypeOK

LEMMA TypeInit == Init => TypeOK
<1> SUFFICES ASSUME Init PROVE TypeOK
  OBVIOUS
<1>1. op \in [Actors -> Ops]
  BY RestingType DEF Init
<1>2. \A j \in Jobs : Recorded0(j) \in [Recorded -> Statuses]
  BY DEF Recorded0, Statuses
<1>3. row \in [Jobs -> [Recorded -> Statuses]]
  BY <1>2 DEF Init
<1>4. sess \in [Sessions -> SessionRows]
  BY DEF Init, SessionRows, SessionStates
<1>5. job \in [Jobs -> RunRows]
  BY DEF Init, RunRows, JobStates
<1>6. disk \in [Jobs -> SUBSET Kinds] /\ keep \in [Jobs -> SUBSET Kinds]
  BY DEF Init, Kinds, Media, Recorded
<1>7. worker \in [Jobs -> Workers] /\ lock \in Actors \cup {NoOne}
  BY DEF Init, Workers
<1>8. faults \in [FaultKinds -> Nat]
  BY BudgetAssumption DEF Init
<1> QED
  BY <1>1, <1>3, <1>4, <1>5, <1>6, <1>7, <1>8 DEF TypeOK

LEMMA TypeStep ==
    ASSUME TypeOK, NEW a \in Actors, Step(a)
    PROVE  TypeOK'
<1> USE DEF runVars
<1> DEFINE OpsOK == op' \in [Actors -> Ops]
<1>1. ASSUME NEW s \in Sessions, PassSource(a, s) PROVE TypeOK'
  <2> DEFINE o == [Dropped(a, s) EXCEPT !.step = "cache", !.home = s]
  <2>1. o \in Ops
    BY DroppedType DEF Ops, OpSteps
  <2>2. op' \in [Actors -> Ops]
    BY <1>1, <2>1, DroppedType, GoesType DEF PassSource
  <2>3. sess' \in [Sessions -> SessionRows]
    BY <1>1 DEF PassSource, SourcePurged, TypeOK, SessionRows
  <2> QED
    BY <1>1, <2>2, <2>3 DEF PassSource, TypeOK
<1>2. ASSUME NEW s \in Sessions, PassSourceFails(a, s) PROVE TypeOK'
  <2>1. op' \in [Actors -> Ops]
    BY <1>2, DroppedType, GoesType DEF PassSourceFails
  <2> QED
    BY <1>2, <2>1, FaultType, FaultNames DEF PassSourceFails, TypeOK
<1>3. CASE PassCache(a)
  <2> DEFINE o == [op[a] EXCEPT !.step = "sources", !.home = NoOne]
  <2>1. o \in Ops
    BY OpType DEF Ops, OpSteps
  <2>2. op' \in [Actors -> Ops]
    BY <1>3, <2>1, GoesType DEF PassCache
  <2>3. sess' \in [Sessions -> SessionRows]
    <3>1. \A s \in Sessions : [sess[s] EXCEPT !.cache = FALSE] \in SessionRows
      BY DEF TypeOK, SessionRows
    <3> QED
      BY <1>3, <3>1 DEF PassCache, TypeOK
  <2> QED
    BY <1>3, <2>2, <2>3 DEF PassCache, TypeOK
<1>4. CASE NextLoop(a)
  <2>1. [op[a] EXCEPT !.step = "media", !.todo = MediaCandidates] \in Ops
    BY OpType DEF Ops, OpSteps, MediaCandidates
  <2>2. [op[a] EXCEPT !.step = "audit", !.todo = AuditCandidates] \in Ops
    BY OpType DEF Ops, OpSteps, AuditCandidates
  <2>3. [op[a] EXCEPT !.step = "empty"] \in Ops
    BY OpType DEF Ops, OpSteps
  <2>4. op' \in [Actors -> Ops]
    BY <1>4, <2>1, <2>2, <2>3, GoesType DEF NextLoop, Moves
  <2> QED
    BY <1>4, <2>4 DEF NextLoop, TypeOK
<1>5. ASSUME NEW j \in Jobs, PurgeRead(a, j) PROVE TypeOK'
  <2> DEFINE o == [op[a] EXCEPT !.step = "files", !.run = j,
                                !.video = row[j]["video"]]
  <2>1. row[j]["video"] \in Statuses
    BY DEF TypeOK, Statuses, Recorded
  <2>2. o \in Ops
    BY <2>1, OpType DEF Ops, OpSteps
  <2>3. op' \in [Actors -> Ops]
    BY <1>5, <2>2, DroppedType, GoesType DEF PurgeRead
  <2> QED
    BY <1>5, <2>3 DEF PurgeRead, TypeOK
<1>6. ASSUME NEW j \in Jobs, HardTree(a, j) PROVE TypeOK'
  <2> DEFINE o == [op[a] EXCEPT !.step = "row", !.run = j]
  <2>1. o \in Ops
    BY OpType DEF Ops, OpSteps
  <2>2. op' \in [Actors -> Ops]
    BY <1>6, <2>1, GoesType DEF HardTree
  <2> QED
    BY <1>6, <2>2 DEF HardTree, Emptied, TypeOK
<1>7. ASSUME NEW j \in Jobs, HardTreeFails(a, j) PROVE TypeOK'
  <2>1. op' \in [Actors -> Ops]
    BY <1>7, DroppedType, GoesType DEF HardTreeFails
  <2>2. disk' \in [Jobs -> SUBSET Kinds]
    BY <1>7 DEF HardTreeFails, Emptied, TypeOK
  <2> QED
    BY <1>7, <2>1, <2>2, FaultType, FaultNames DEF HardTreeFails, TypeOK
<1>8. CASE PurgeFiles(a)
  <2> DEFINE o == [op[a] EXCEPT
                     !.step  = "mark",
                     !.video = IF @ = "none" THEN "none"
                               ELSE IF "video" \in disk[op[a].run] THEN "deleted"
                               ELSE "missing"]
  <2>1. o \in Ops
    BY OpType DEF Ops, OpSteps, Statuses
  <2>2. op' \in [Actors -> Ops]
    BY <1>8, <2>1, GoesType DEF PurgeFiles
  <2>3. disk' \in [Jobs -> SUBSET Kinds]
    BY <1>8 DEF PurgeFiles, Emptied, TypeOK
  <2> QED
    BY <1>8, <2>2, <2>3 DEF PurgeFiles, TypeOK
<1>9. CASE PurgeFilesFail(a)
  <2>1. op' \in [Actors -> Ops]
    BY <1>9, NextRunType DEF PurgeFilesFail
  <2>2. disk' \in [Jobs -> SUBSET Kinds]
    BY ZenonT(40), <1>9 DEF PurgeFilesFail, Emptied, TypeOK
  <2> QED
    BY <1>9, <2>1, <2>2, FaultType, FaultNames DEF PurgeFilesFail, TypeOK
<1>10. CASE PurgeMark(a)
  <2>1. op' \in [Actors -> Ops]
    BY <1>10, NextRunType DEF PurgeMark
  <2>2. op[a].video \in Statuses
    BY OpType DEF Ops
  <2>3. row' \in [Jobs -> [Recorded -> Statuses]]
    <3> DEFINE j == op[a].run
               new == [row[j] EXCEPT !["video"] =
                         IF op[a].video = "none" THEN @ ELSE op[a].video]
    <3>1. row' = row \/ row' = [row EXCEPT ![j] = new]
      BY <1>10 DEF PurgeMark
    <3>2. j \in Jobs => new \in [Recorded -> Statuses]
      BY <2>2 DEF TypeOK
    <3> QED
      BY <3>1, <3>2 DEF TypeOK
  <2>4. job' \in [Jobs -> RunRows]
    <3>1. \A j \in Jobs : [job[j] EXCEPT !.media = "none"] \in RunRows
      BY DEF TypeOK, RunRows
    <3> QED
      BY SMTT(30), <1>10, <3>1 DEF PurgeMark, TypeOK
  <2> QED
    BY <1>10, <2>1, <2>3, <2>4 DEF PurgeMark, TypeOK
<1>11. CASE PurgeMarkFails(a)
  BY <1>11, NextRunType, FaultType, FaultNames DEF PurgeMarkFails, TypeOK
<1>12. CASE HardRow(a)
  <2>1. op' \in [Actors -> Ops]
    BY <1>12, NextRunType DEF HardRow
  <2>2. row' \in [Jobs -> [Recorded -> Statuses]]
    BY SMTT(30), <1>12 DEF HardRow, TypeOK, Statuses
  <2>3. job' \in [Jobs -> RunRows]
    <3>1. [state |-> "gone", media |-> "none", due |-> FALSE] \in RunRows
      BY DEF RunRows, JobStates
    <3> QED
      BY <1>12, <3>1 DEF HardRow, TypeOK
  <2> QED
    BY <1>12, <2>1, <2>2, <2>3 DEF HardRow, TypeOK
<1>13. CASE HardRowFails(a)
  BY <1>13, NextRunType, FaultType, FaultNames DEF HardRowFails, TypeOK
<1>14. CASE DeleteEmpty(a)
  <2>1. sess' \in [Sessions -> SessionRows]
    <3>1. \A s \in Sessions :
             [sess[s] EXCEPT !.state = "gone", !.due = FALSE, !.cache = FALSE]
               \in SessionRows
      BY DEF TypeOK, SessionRows, SessionStates
    <3> QED
      BY <1>14, <3>1 DEF DeleteEmpty, TypeOK
  <2> QED
    BY <1>14, <2>1, EndsType DEF DeleteEmpty, TypeOK
<1>15. CASE DeleteSource(a)
  <2>1. sess' \in [Sessions -> SessionRows]
    BY <1>15 DEF DeleteSource, SourcePurged, TypeOK, SessionRows
  <2> QED
    BY <1>15, <2>1, EndsType DEF DeleteSource, TypeOK
<1>16. CASE DeleteSourceFails(a)
  BY <1>16, EndsType, FaultType, FaultNames DEF DeleteSourceFails, TypeOK
<1>17. CASE PassAborts(a)
  BY <1>17, EndsType, FaultType, FaultNames DEF PassAborts, TypeOK
<1> QED
  BY <1>1, <1>2, <1>3, <1>4, <1>5, <1>6, <1>7, <1>8, <1>9, <1>10, <1>11, <1>12,
     <1>13, <1>14, <1>15, <1>16, <1>17 DEF Step

LEMMA RenewedType ==
    ASSUME NEW r \in SessionRows
    PROVE  [r EXCEPT !.due = FALSE] \in SessionRows
           /\ [r EXCEPT !.expired = FALSE] \in SessionRows
  BY DEF SessionRows

LEMMA TypeWork ==
    ASSUME TypeOK, NEW j \in Jobs, Work(j)
    PROVE  TypeOK'
<1> USE DEF TypeOK, Workers
<1>1. ASSUME NEW k \in Kinds, Write(j, k) PROVE TypeOK'
  BY <1>1 DEF Write
<1>2. ASSUME NEW k \in Recorded, Register(j, k) PROVE TypeOK'
  <2>1. [row[j] EXCEPT ![k] = "available"] \in [Recorded -> Statuses]
    BY DEF Statuses
  <2>2. row' \in [Jobs -> [Recorded -> Statuses]]
    BY <1>2, <2>1 DEF Register
  <2> QED
    BY <1>2, <2>2 DEF Register
<1>3. CASE SaveAnalysis(j)
  BY <1>3 DEF SaveAnalysis, SessionRows, runVars
<1>4. CASE Finish(j)
  <2>1. sess' \in [Sessions -> SessionRows]
    <3>1. Home[j] \in Sessions
      BY HomeAssumption
    <3> DEFINE mid == [sess EXCEPT ![Home[j]] = [sess[Home[j]] EXCEPT !.due = FALSE]]
    <3>2. [sess[Home[j]] EXCEPT !.due = FALSE] \in SessionRows
      BY <3>1, RenewedType
    <3>3. mid \in [Sessions -> SessionRows]
      BY <3>1, <3>2
    <3>4. [mid[Home[j]] EXCEPT !.expired = FALSE] \in SessionRows
      <4> HIDE DEF mid
      <4> QED
        BY <3>1, <3>3, RenewedType
    <3>5. sess' = [mid EXCEPT ![Home[j]] = [mid[Home[j]] EXCEPT !.expired = FALSE]]
      BY <1>4 DEF Finish
    <3> HIDE DEF mid
    <3> QED
      BY <3>1, <3>3, <3>4, <3>5
  <2>2. job' \in [Jobs -> RunRows]
    BY <1>4 DEF Finish, RunRows, JobStates
  <2> QED
    BY <1>4, <2>1, <2>2 DEF Finish
<1>5. CASE WriteFailure(j)
  BY <1>5 DEF WriteFailure, Kinds, Recorded
<1>6. CASE RegisterFailure(j)
  <2>1. [row[j] EXCEPT !["evidence"] = "available"] \in [Recorded -> Statuses]
    BY DEF Statuses, Recorded
  <2>2. row' \in [Jobs -> [Recorded -> Statuses]]
    BY <1>6, <2>1 DEF RegisterFailure
  <2> QED
    BY <1>6, <2>2 DEF RegisterFailure
<1>7. CASE Reload(j)
  BY <1>7 DEF Reload
<1>8. CASE SweepRead(j)
  <2>1. {k \in Kinds : Below(j, k) \in Paths(j)} \cup {"input"} \in SUBSET Kinds
    BY DEF Kinds, Media
  <2>2. keep' \in [Jobs -> SUBSET Kinds]
    BY <1>8, <2>1 DEF SweepRead
  <2> QED
    BY <1>8, <2>2 DEF SweepRead
<1>9. CASE SweepFiles(j)
  BY <1>9 DEF SweepFiles
<1>10. CASE WorkerCrash(j)
  BY <1>10, FaultType, FaultNames DEF WorkerCrash
<1> QED
  BY <1>1, <1>2, <1>3, <1>4, <1>5, <1>6, <1>7, <1>8, <1>9, <1>10 DEF Work

LEMMA TypeNext == TypeOK /\ [Next]_vars => TypeOK'
<1> SUFFICES ASSUME TypeOK, [Next]_vars PROVE TypeOK'
  OBVIOUS
<1>1. ASSUME NEW a \in Actors, Step(a) PROVE TypeOK'
  BY <1>1, TypeStep
<1>2. ASSUME NEW a \in Actors, StartPass(a) PROVE TypeOK'
  <2> DEFINE o == [Resting EXCEPT !.step = "sources", !.todo = SourceCandidates,
                                  !.reason = "pass"]
  <2>1. o \in Ops
    BY RestingType DEF Ops, OpSteps, SourceCandidates
  <2>2. op' \in [Actors -> Ops]
    BY <1>2, <2>1, GoesType DEF StartPass
  <2> QED
    BY <1>2, <2>2 DEF StartPass, TypeOK, runVars
<1>3. ASSUME NEW a \in Actors, Crash(a) PROVE TypeOK'
  BY <1>3, EndsType, FaultType, FaultNames DEF Crash, TypeOK, runVars
<1>4. ASSUME NEW a \in Actors, LoseLock(a) PROVE TypeOK'
  BY <1>4, FaultType, FaultNames DEF LoseLock, TypeOK, runVars
<1>5. ASSUME NEW a \in Web, NEW s \in Sessions, DeleteSession(a, s) PROVE TypeOK'
  <2> DEFINE mine == {j \in JobsOf(s) : Exists(j) /\ job[j].media # "none"}
             o == [Resting EXCEPT !.step = "media", !.home = s,
                                  !.reason = "session_deleted", !.todo = mine]
  <2>1. o \in Ops
    BY RestingType DEF Ops, OpSteps, JobsOf
  <2>2. op' \in [Actors -> Ops]
    BY <1>5, <2>1, GoesType DEF DeleteSession, Actors
  <2>3. sess' \in [Sessions -> SessionRows]
    <3>1. [sess[s] EXCEPT !.state = "deleted", !.due = FALSE] \in SessionRows
      BY DEF TypeOK, SessionRows, SessionStates
    <3> QED
      BY <1>5, <3>1 DEF DeleteSession, TypeOK
  <2>4. job' \in [Jobs -> RunRows]
    <3>1. \A j \in Jobs :
             [job[j] EXCEPT !.due = FALSE,
                            !.media = IF @ = "none" THEN "none" ELSE "due"]
               \in RunRows
      BY DEF TypeOK, RunRows
    <3> QED
      BY <1>5, <3>1 DEF DeleteSession, TypeOK
  <2> QED
    BY <1>5, <2>2, <2>3, <2>4 DEF DeleteSession, TypeOK, runVars, Actors
<1>6. ASSUME NEW s \in Sessions,
             ChangeHold(s) \/ SourceCompleted(s) \/ SessionFallsDue(s) \/ SourceExpires(s)
      PROVE TypeOK'
  <2>1. sess' \in [Sessions -> SessionRows]
    <3>1. [sess[s] EXCEPT !.held = ~@] \in SessionRows
      BY ZenonT(40) DEF TypeOK, SessionRows
    <3>2. [sess[s] EXCEPT !.source = "ready"] \in SessionRows
      BY DEF TypeOK, SessionRows
    <3>3. [sess[s] EXCEPT !.due = TRUE] \in SessionRows
      BY DEF TypeOK, SessionRows
    <3>4. [sess[s] EXCEPT !.expired = TRUE] \in SessionRows
      BY DEF TypeOK, SessionRows
    <3> QED
      BY <1>6, <3>1, <3>2, <3>3, <3>4
         DEF ChangeHold, SourceCompleted, SessionFallsDue, SourceExpires, TypeOK
  <2> QED
    BY <1>6, <2>1
       DEF ChangeHold, SourceCompleted, SessionFallsDue, SourceExpires, TypeOK, runVars
<1>7. ASSUME NEW j \in Jobs, Work(j) PROVE TypeOK'
  BY <1>7, TypeWork
<1>8. ASSUME NEW j \in Jobs, CreateRun(j) \/ MediaFallsDue(j) \/ JobFallsDue(j)
      PROVE TypeOK'
  <2>1. job' \in [Jobs -> RunRows]
    <3>1. [state |-> "active", media |-> "later", due |-> FALSE] \in RunRows
      BY DEF RunRows, JobStates
    <3>2. [job[j] EXCEPT !.media = "due"] \in RunRows
      BY DEF TypeOK, RunRows
    <3>3. [job[j] EXCEPT !.due = TRUE] \in RunRows
      BY DEF TypeOK, RunRows
    <3> QED
      BY <1>8, <3>1, <3>2, <3>3 DEF CreateRun, MediaFallsDue, JobFallsDue, TypeOK
  <2> QED
    BY <1>8, <2>1 DEF CreateRun, MediaFallsDue, JobFallsDue, TypeOK, runVars, Workers
<1>9. CASE UNCHANGED vars
  BY <1>9 DEF vars, TypeOK
<1> QED
  BY <1>1, <1>2, <1>3, <1>4, <1>5, <1>6, <1>7, <1>8, <1>9 DEF Next

(* Every variable keeps its type: rows, deadlines, files and what each     *)
(* retention service carries from one transaction to the next.             *)
THEOREM RetentionTypeCorrect == Spec => []TypeOK
<1>1. Init => TypeOK
  BY TypeInit
<1>2. TypeOK /\ [Next]_vars => TypeOK'
  BY TypeNext
<1> QED
  BY <1>1, <1>2, PTL DEF Spec

-----------------------------------------------------------------------------
(* Deleted sessions.                                                       *)

(* No step makes a run active or a session deleted except the three that   *)
(* look first.                                                             *)
Calm == /\ \A s \in Sessions : sess'[s].state = sess[s].state
        /\ \A j \in Jobs : job'[j].state = "active" => job[j].state = "active"

LEMMA SameState ==
    ASSUME TypeOK, NEW h \in Sessions, NEW v \in BOOLEAN, NEW source,
           \/ sess' = sess
           \/ sess' = [sess EXCEPT ![h].cache = v]
           \/ sess' = [sess EXCEPT ![h].due = FALSE, ![h].expired = FALSE]
           \/ sess' = [sess EXCEPT ![h].held = ~@]
           \/ sess' = [sess EXCEPT ![h].source = source]
           \/ sess' = [sess EXCEPT ![h].due = v]
           \/ sess' = [sess EXCEPT ![h].expired = v]
    PROVE  \A s \in Sessions : sess'[s].state = sess[s].state
<1> USE DEF TypeOK, SessionRows
<1>1. CASE sess' = [sess EXCEPT ![h].due = FALSE, ![h].expired = FALSE]
  BY <1>1
<1>2. CASE sess' = [sess EXCEPT ![h].held = ~@]
  BY <1>2
<1>3. CASE sess' = [sess EXCEPT ![h].cache = v]
  BY <1>3
<1>4. CASE sess' = [sess EXCEPT ![h].source = source]
  BY <1>4
<1>5. CASE sess' = [sess EXCEPT ![h].due = v]
  BY <1>5
<1>6. CASE sess' = [sess EXCEPT ![h].expired = v]
  BY <1>6
<1> QED
  BY <1>1, <1>2, <1>3, <1>4, <1>5, <1>6

LEMMA SameRun ==
    ASSUME TypeOK, NEW j \in Jobs,
           \/ job' = job
           \/ \E m \in {"none", "due"} : job' = [job EXCEPT ![j].media = m]
           \/ job' = [job EXCEPT ![j].due = TRUE]
    PROVE  \A i \in Jobs : job'[i].state = job[i].state
<1> USE DEF TypeOK, RunRows
<1>1. CASE \E m \in {"none", "due"} : job' = [job EXCEPT ![j].media = m]
  <2>1. PICK m : job' = [job EXCEPT ![j].media = m]
    BY <1>1
  <2> QED
    BY <2>1
<1>2. CASE job' = [job EXCEPT ![j].due = TRUE]
  BY <1>2
<1> QED
  BY <1>1, <1>2

LEMMA CalmStep ==
    ASSUME TypeOK, NEW a \in Actors, Step(a), ~DeleteEmpty(a)
    PROVE  Calm
<1>1. CASE UNCHANGED <<sess, job>>
  BY <1>1 DEF Calm
<1>2. ASSUME NEW s \in Sessions, PassSource(a, s) PROVE Calm
  BY <1>2, SameState DEF PassSource, SourcePurged, Calm
<1>3. CASE PassCache(a)
  <2>1. CASE op[a].home \in Sessions
    BY <1>3, <2>1, SameState DEF PassCache, Calm
  <2>2. CASE op[a].home \notin Sessions
    BY <1>3, <2>2 DEF PassCache, Calm, TypeOK
  <2> QED
    BY <2>1, <2>2
<1>4. CASE PurgeMark(a)
  <2>1. CASE op[a].run \in Jobs
    BY <1>4, <2>1, SameRun DEF PurgeMark, Calm
  <2>2. CASE op[a].run \notin Jobs
    BY <1>4, <2>2 DEF PurgeMark, Calm, TypeOK
  <2> QED
    BY <2>1, <2>2
<1>5. CASE HardRow(a)
  BY <1>5 DEF HardRow, Calm, TypeOK
<1>6. CASE DeleteSource(a)
  <2>1. CASE op[a].home \in Sessions
    BY <1>6, <2>1, SameState DEF DeleteSource, SourcePurged, Calm
  <2>2. CASE op[a].home \notin Sessions
    BY <1>6, <2>2 DEF DeleteSource, SourcePurged, Calm, TypeOK
  <2> QED
    BY <2>1, <2>2
<1> QED
  BY <1>1, <1>2, <1>3, <1>4, <1>5, <1>6
     DEF Step, PassSourceFails, NextLoop, PassAborts, PurgeRead, HardTree,
         HardTreeFails, PurgeFiles, PurgeFilesFail, PurgeMarkFails, HardRowFails,
         DeleteSourceFails

LEMMA CalmWork ==
    ASSUME TypeOK, NEW j \in Jobs, Work(j)
    PROVE  Calm
<1> USE DEF Calm, TypeOK
<1>1. CASE UNCHANGED <<sess, job>>
  BY <1>1
<1>2. CASE SaveAnalysis(j)
  BY <1>2, SameState, HomeAssumption DEF SaveAnalysis
<1>3. CASE Finish(j)
  BY <1>3, SameState, HomeAssumption DEF Finish
<1> QED
  BY <1>1, <1>2, <1>3
     DEF Work, Write, Register, WriteFailure, RegisterFailure, Reload, SweepRead,
         SweepFiles, WorkerCrash

LEMMA DeletedNext ==
    TypeOK /\ DeletedHasNoActive /\ [Next]_vars => DeletedHasNoActive'
<1> SUFFICES ASSUME TypeOK, DeletedHasNoActive, [Next]_vars PROVE DeletedHasNoActive'
  OBVIOUS
<1>1. ASSUME Calm PROVE DeletedHasNoActive'
  BY <1>1, HomeAssumption DEF Calm, DeletedHasNoActive, Hidden
<1>2. ASSUME NEW a \in Actors, Step(a) PROVE DeletedHasNoActive'
  <2>1. CASE DeleteEmpty(a)
    <3>1. \A j \in Jobs : Home[j] \in EmptySessions => job[j].state # "active"
      BY HomeAssumption DEF EmptySessions, JobsOf, Exists
    <3>2. \A s \in Sessions \ EmptySessions : sess'[s] = sess[s]
      BY <2>1 DEF DeleteEmpty
    <3> QED
      BY <2>1, <3>1, <3>2, HomeAssumption DEF DeleteEmpty, DeletedHasNoActive, Hidden
  <2> QED
    BY <1>1, <1>2, <2>1, CalmStep
<1>3. ASSUME NEW a \in Actors, StartPass(a) \/ Crash(a) \/ LoseLock(a)
      PROVE  DeletedHasNoActive'
  BY <1>1, <1>3 DEF StartPass, Crash, LoseLock, Calm
<1>4. ASSUME NEW a \in Web, NEW s \in Sessions, DeleteSession(a, s)
      PROVE  DeletedHasNoActive'
  <2>1. \A j \in Jobs : Home[j] = s => job[j].state # "active"
    BY <1>4 DEF DeleteSession, Busy, JobsOf
  <2>2. \A t \in Sessions \ {s} : sess'[t] = sess[t]
    BY <1>4 DEF DeleteSession, TypeOK
  <2>3. \A j \in Jobs : job'[j].state = job[j].state
    BY <1>4 DEF DeleteSession, TypeOK, RunRows
  <2> QED
    BY <2>1, <2>2, <2>3, HomeAssumption DEF DeletedHasNoActive, Hidden
<1>5. ASSUME NEW s \in Sessions,
             ChangeHold(s) \/ SourceCompleted(s) \/ SessionFallsDue(s) \/ SourceExpires(s)
      PROVE  DeletedHasNoActive'
  <2>1. Calm
    BY <1>5, SameState
       DEF ChangeHold, SourceCompleted, SessionFallsDue, SourceExpires, Calm
  <2> QED
    BY <1>1, <2>1
<1>6. ASSUME NEW j \in Jobs, Work(j) PROVE DeletedHasNoActive'
  BY <1>1, <1>6, CalmWork
<1>7. ASSUME NEW j \in Jobs, CreateRun(j) PROVE DeletedHasNoActive'
  BY <1>7, HomeAssumption DEF CreateRun, DeletedHasNoActive, Hidden, TypeOK
<1>8. ASSUME NEW j \in Jobs, MediaFallsDue(j) \/ JobFallsDue(j) PROVE DeletedHasNoActive'
  <2>1. Calm
    BY <1>8, SameRun DEF MediaFallsDue, JobFallsDue, Calm
  <2> QED
    BY <1>1, <2>1
<1>9. CASE UNCHANGED vars
  BY <1>1, <1>9 DEF vars, Calm
<1> QED
  BY <1>2, <1>3, <1>4, <1>5, <1>6, <1>7, <1>8, <1>9 DEF Next

(* delete_session and the creation of runs read each other's rows under    *)
(* the session's row lock: a deleted session never has an active run.      *)
THEOREM DeletedSessionIsIdle == Spec => []DeletedHasNoActive
<1>1. Init => TypeOK /\ DeletedHasNoActive
  BY TypeInit, HomeAssumption DEF Init, DeletedHasNoActive, Hidden
<1>2. TypeOK /\ DeletedHasNoActive /\ [Next]_vars => (TypeOK /\ DeletedHasNoActive)'
  BY TypeNext, DeletedNext
<1> QED
  BY <1>1, <1>2, PTL DEF Spec

-----------------------------------------------------------------------------
(* The cleanup lock: what excludes a hold from a deletion in progress.     *)

Exclusive == Fenced => \A a \in Actors : ~At(a, "idle") => lock = a
Budget    == faults["lockLoss"] <= MaxFaults["lockLoss"]

(* What the pass is about to delete stays due: nobody else may change it.  *)
DueAt(a) ==
    /\ At(a, "audit") => \A j \in op[a].todo \cap Jobs : Due(j)
    /\ At(a, "row") => \A j \in (op[a].todo \cap Jobs) \ {op[a].run} : Due(j)
StillDue == Fenced => \A a \in Actors : DueAt(a)

(* The worker's sweep spares the registered evidence.                      *)
KeepsEvidence ==
    \A j \in Jobs : worker[j] = "clear" /\ row[j]["evidence"] = "available"
                      => "evidence" \in keep[j]

HoldInv == TypeOK /\ Budget /\ Exclusive /\ StillDue /\ KeepsEvidence

LEMMA HoldInit == Init => HoldInv
<1> SUFFICES ASSUME Init PROVE HoldInv
  OBVIOUS
<1>1. TypeOK
  BY TypeInit
<1>2. Budget
  <2>1. MaxFaults["lockLoss"] \in Nat
    BY BudgetAssumption, FaultNames
  <2> QED
    BY <2>1 DEF Init, Budget
<1>3. \A a \in Actors : At(a, "idle") /\ ~At(a, "audit") /\ ~At(a, "row")
  BY DEF Init, At, Resting
<1>4. KeepsEvidence
  BY DEF Init, KeepsEvidence
<1> QED
  BY <1>1, <1>2, <1>3, <1>4 DEF HoldInv, Exclusive, StillDue, DueAt

(* What a step of one service may do to the others and to the lock.        *)
Alone(a) ==
    /\ \A b \in Actors \ {a} : op'[b] = op[b]
    /\ \/ lock' = lock
       \/ At(a, "idle")' /\ lock' = (IF lock = a THEN NoOne ELSE lock)
    /\ faults'["lockLoss"] = faults["lockLoss"]

LEMMA OtherFault ==
    ASSUME TypeOK, NEW k \in {"crash", "error"}, Fault(k)
    PROVE  faults'["lockLoss"] = faults["lockLoss"]
  BY DEF TypeOK, Fault, FaultKinds

LEMMA GoesAlone ==
    ASSUME TypeOK, NEW a \in Actors, NEW o, Goes(a, o)
    PROVE  \A b \in Actors \ {a} : op'[b] = op[b]
  BY DEF TypeOK, Goes

LEMMA EndsAlone ==
    ASSUME TypeOK, NEW a \in Actors, Ends(a)
    PROVE  /\ \A b \in Actors \ {a} : op'[b] = op[b]
           /\ At(a, "idle")' /\ lock' = (IF lock = a THEN NoOne ELSE lock)
<1>1. op'[a] = Resting
  BY DEF Ends, Goes, TypeOK
<1> QED
  BY <1>1, GoesAlone DEF Ends, Unlock, At, Resting

LEMMA StepAlone ==
    ASSUME TypeOK, NEW a \in Actors, Step(a)
    PROVE  Alone(a) /\ ~At(a, "idle")
<1> USE DEF Alone
<1>1. ASSUME NEW s \in Sessions, PassSource(a, s) PROVE Alone(a) /\ ~At(a, "idle")
  BY <1>1, GoesAlone DEF PassSource, At
<1>2. ASSUME NEW s \in Sessions, PassSourceFails(a, s) PROVE Alone(a) /\ ~At(a, "idle")
  BY <1>2, GoesAlone, OtherFault DEF PassSourceFails, At
<1>3. CASE PassCache(a) \/ NextLoop(a)
  BY <1>3, GoesAlone DEF PassCache, NextLoop, Moves, At
<1>4. ASSUME NEW j \in Jobs, PurgeRead(a, j) PROVE Alone(a) /\ ~At(a, "idle")
  BY <1>4, GoesAlone DEF PurgeRead, At
<1>5. ASSUME NEW j \in Jobs, HardTree(a, j) \/ HardTreeFails(a, j)
      PROVE  Alone(a) /\ ~At(a, "idle")
  BY <1>5, GoesAlone, OtherFault DEF HardTree, HardTreeFails, At
<1>6. CASE PurgeFiles(a)
  BY <1>6, GoesAlone DEF PurgeFiles, At
<1>7. CASE PurgeFilesFail(a) \/ PurgeMarkFails(a) \/ HardRowFails(a)
  BY <1>7, GoesAlone, OtherFault
     DEF PurgeFilesFail, PurgeMarkFails, HardRowFails, NextRun, At
<1>8. CASE PurgeMark(a) \/ HardRow(a)
  BY <1>8, GoesAlone DEF PurgeMark, HardRow, NextRun, At
<1>9. CASE DeleteEmpty(a) \/ DeleteSource(a)
  BY <1>9, EndsAlone DEF DeleteEmpty, DeleteSource, At
<1>10. CASE PassAborts(a) \/ DeleteSourceFails(a)
  BY <1>10, EndsAlone, OtherFault DEF PassAborts, DeleteSourceFails, At
<1> QED
  BY <1>1, <1>2, <1>3, <1>4, <1>5, <1>6, <1>7, <1>8, <1>9, <1>10 DEF Step

(* Steps of the other parts touch neither services nor lock.               *)
LEMMA OthersAway ==
    ASSUME TypeOK,
           \/ \E j \in Jobs : \/ Work(j) \/ CreateRun(j)
                              \/ MediaFallsDue(j) \/ JobFallsDue(j)
           \/ \E s \in Sessions : \/ ChangeHold(s) \/ SourceCompleted(s)
                                  \/ SessionFallsDue(s) \/ SourceExpires(s)
    PROVE  op' = op /\ lock' = lock /\ faults'["lockLoss"] = faults["lockLoss"]
<1>1. ASSUME NEW j \in Jobs, WorkerCrash(j)
      PROVE  op' = op /\ lock' = lock /\ faults'["lockLoss"] = faults["lockLoss"]
  BY <1>1, OtherFault DEF WorkerCrash
<1> QED
  BY <1>1
     DEF Work, Write, Register, SaveAnalysis, Finish, WriteFailure, RegisterFailure,
         Reload, SweepRead, SweepFiles, CreateRun, MediaFallsDue, JobFallsDue,
         ChangeHold, SourceCompleted, SessionFallsDue, SourceExpires

LEMMA LockNext ==
    TypeOK /\ Budget /\ Exclusive /\ [Next]_vars => (Budget /\ Exclusive)'
<1> SUFFICES ASSUME TypeOK, Budget, Exclusive, [Next]_vars PROVE (Budget /\ Exclusive)'
  OBVIOUS
<1>1. ASSUME NEW a \in Actors, Alone(a), ~At(a, "idle") PROVE (Budget /\ Exclusive)'
  BY <1>1 DEF Alone, Budget, Exclusive, Fenced, At
<1>2. ASSUME NEW a \in Actors, Step(a) PROVE (Budget /\ Exclusive)'
  BY <1>1, <1>2, StepAlone
<1>3. ASSUME NEW a \in Actors, lock = NoOne, lock' = a, NEW o, Goes(a, o),
             faults' = faults
      PROVE  (Budget /\ Exclusive)'
  <2>1. Fenced => \A b \in Actors : At(b, "idle")
    BY <1>3, NoOneAssumption DEF Exclusive
  <2>2. \A b \in Actors \ {a} : op'[b] = op[b]
    BY <1>3, GoesAlone
  <2> QED
    BY <1>3, <2>1, <2>2 DEF Budget, Exclusive, Fenced, At
<1>4. ASSUME NEW a \in Actors, StartPass(a) PROVE (Budget /\ Exclusive)'
  BY <1>3, <1>4 DEF StartPass
<1>5. ASSUME NEW a \in Web, NEW s \in Sessions, DeleteSession(a, s)
      PROVE  (Budget /\ Exclusive)'
  BY <1>3, <1>5 DEF DeleteSession, Actors
<1>6. ASSUME NEW a \in Actors, Crash(a) PROVE (Budget /\ Exclusive)'
  BY <1>1, <1>6, EndsAlone, OtherFault DEF Crash, Alone
<1>7. ASSUME NEW a \in Actors, LoseLock(a) PROVE (Budget /\ Exclusive)'
  <2>1. faults["lockLoss"] \in Nat /\ MaxFaults["lockLoss"] \in Nat
    BY BudgetAssumption, FaultNames DEF TypeOK
  <2>2. faults'["lockLoss"] = faults["lockLoss"] - 1
    BY <1>7, FaultNames DEF LoseLock, Fault, TypeOK
  <2> QED
    BY <2>1, <2>2 DEF Budget, Exclusive, Fenced
<1>8. ASSUME op' = op, lock' = lock, faults'["lockLoss"] = faults["lockLoss"]
      PROVE  (Budget /\ Exclusive)'
  BY <1>8 DEF Budget, Exclusive, Fenced, At
<1>9. CASE UNCHANGED vars
  BY <1>8, <1>9 DEF vars
<1> QED
  BY <1>2, <1>4, <1>5, <1>6, <1>7, <1>8, <1>9, OthersAway DEF Next

(* The pass itself: it reads the due runs, and works through them.         *)
LEMMA GoesTo ==
    ASSUME TypeOK, NEW a \in Actors, NEW o, Goes(a, o)
    PROVE  op'[a] = o
  BY DEF TypeOK, Goes

LEMMA DueStep ==
    ASSUME TypeOK, NEW a \in Actors, Step(a), DueAt(a)
    PROVE  DueAt(a)'
<1>1. ASSUME op'[a].step \notin {"audit", "row"} PROVE DueAt(a)'
  BY <1>1 DEF DueAt, At
<1>2. ASSUME NEW s \in Sessions, PassSource(a, s) \/ PassSourceFails(a, s)
      PROVE  DueAt(a)'
  <2>1. op'[a].step \in {"cache", "sources"}
    BY <1>2, GoesTo, OpType DEF PassSource, PassSourceFails, Dropped, At, Ops
  <2> QED
    BY <1>1, <2>1
<1>3. CASE PassCache(a)
  <2>1. op'[a].step = "sources"
    BY ZenonT(40), <1>3, GoesTo, OpType DEF PassCache, Ops
  <2> QED
    BY <1>1, <2>1
<1>4. CASE NextLoop(a)
  <2>1. CASE At(a, "sources") \/ At(a, "audit")
    <3>1. op'[a].step \in {"media", "empty"}
      BY ZenonT(40), <1>4, <2>1, GoesTo, OpType DEF NextLoop, Moves, At, Ops
    <3> QED
      BY <1>1, <3>1
  <2>2. CASE At(a, "media")
    <3>1. op'[a] = [op[a] EXCEPT !.step = "audit", !.todo = AuditCandidates]
      BY <1>4, <2>2, GoesTo DEF NextLoop, At
    <3>2. op'[a].step = "audit" /\ op'[a].todo = AuditCandidates
      BY <3>1, OpType DEF Ops
    <3>3. \A j \in Jobs : Due(j) => Due(j)'
      BY <1>4 DEF NextLoop, Due
    <3> QED
      BY <3>2, <3>3 DEF DueAt, At, AuditCandidates
  <2> QED
    BY <1>4, <2>1, <2>2 DEF NextLoop
<1>5. ASSUME NEW j \in Jobs, PurgeRead(a, j) PROVE DueAt(a)'
  <2>1. op'[a].step \in {"files", "media"}
    BY <1>5, GoesTo, OpType DEF PurgeRead, Dropped, At, Ops
  <2> QED
    BY <1>1, <2>1
<1>6. ASSUME NEW j \in Jobs, HardTree(a, j) PROVE DueAt(a)'
  <2>1. op'[a] = [op[a] EXCEPT !.step = "row", !.run = j]
    BY <1>6, GoesTo DEF HardTree
  <2>2. op'[a].step = "row" /\ op'[a].todo = op[a].todo /\ op'[a].run = j
    BY <2>1, OpType DEF Ops
  <2>3. \A i \in Jobs : Due(i) => Due(i)'
    BY <1>6 DEF HardTree, Due
  <2> QED
    BY <1>6, <2>2, <2>3 DEF DueAt, At, HardTree
<1>7. ASSUME NEW j \in Jobs, HardTreeFails(a, j) PROVE DueAt(a)'
  <2>1. op'[a].step = op[a].step /\ op'[a].todo \subseteq op[a].todo
    BY <1>7, GoesTo, OpType DEF HardTreeFails, Dropped, Ops
  <2>2. \A i \in Jobs : Due(i) => Due(i)'
    BY <1>7 DEF HardTreeFails, Due
  <2> QED
    BY <1>7, <2>1, <2>2 DEF DueAt, At, HardTreeFails
<1>8. CASE PurgeFiles(a)
  <2>1. op'[a].step = "mark"
    BY <1>8, GoesTo, OpType DEF PurgeFiles, Ops
  <2> QED
    BY <1>1, <2>1
<1>9. CASE PurgeFilesFail(a) \/ PurgeMark(a) \/ PurgeMarkFails(a)
  <2>1. op'[a].step = "media"
    BY <1>9, GoesTo, OpType, DroppedType
       DEF PurgeFilesFail, PurgeMark, PurgeMarkFails, NextRun, At, Ops
  <2> QED
    BY <1>1, <2>1
<1>10. CASE HardRow(a) \/ HardRowFails(a)
  <2> DEFINE r == op[a].run
  <2>1. op'[a].step = "audit" /\ op'[a].todo = op[a].todo \ {r}
    BY ZenonT(40), <1>10, GoesTo, OpType, DroppedType
       DEF HardRow, HardRowFails, NextRun, Dropped, At, Ops
  <2>2. \A i \in Jobs \ {r} : Due(i) => Due(i)'
    BY <1>10 DEF HardRow, HardRowFails, Due, TypeOK
  <2> QED
    BY <1>10, <2>1, <2>2 DEF DueAt, At, HardRow, HardRowFails
<1>11. CASE DeleteEmpty(a) \/ DeleteSource(a) \/ PassAborts(a) \/ DeleteSourceFails(a)
  <2>1. At(a, "idle")'
    BY <1>11, EndsAlone DEF DeleteEmpty, DeleteSource, PassAborts, DeleteSourceFails
  <2> QED
    BY <1>1, <2>1 DEF At
<1> QED
  BY <1>2, <1>3, <1>4, <1>5, <1>6, <1>7, <1>8, <1>9, <1>10, <1>11 DEF Step

(* A run that is due stays so while clients and workers move on.           *)
LEMMA DueStays ==
    ASSUME TypeOK,
           \/ \E j \in Jobs : Work(j) \/ CreateRun(j)
           \/ \E s \in Sessions : SourceCompleted(s)
    PROVE  \A i \in Jobs : Due(i) => Due(i)'
<1>1. ASSUME NEW j \in Jobs, SaveAnalysis(j) PROVE \A i \in Jobs : Due(i) => Due(i)'
  <2>1. \A s \in Sessions : sess'[s].held = sess[s].held
    BY <1>1, HomeAssumption DEF SaveAnalysis, TypeOK, SessionRows
  <2> QED
    BY <1>1, <2>1, HomeAssumption DEF SaveAnalysis, Due
<1>2. ASSUME NEW j \in Jobs, Finish(j) PROVE \A i \in Jobs : Due(i) => Due(i)'
  <2>1. \A s \in Sessions : sess'[s].held = sess[s].held
    <3> DEFINE h == Home[j]
    <3>1. h \in Sessions
      BY HomeAssumption
    <3>2. sess' = [sess EXCEPT ![h].due = FALSE, ![h].expired = FALSE]
      BY <1>2 DEF Finish
    <3> HIDE DEF h
    <3> QED
      BY <3>1, <3>2 DEF TypeOK, SessionRows
  <2>2. \A i \in Jobs \ {j} : job'[i] = job[i]
    BY <1>2 DEF Finish, TypeOK
  <2> QED
    BY <1>2, <2>1, <2>2, HomeAssumption DEF Finish, Due
<1>3. ASSUME NEW j \in Jobs, CreateRun(j) PROVE \A i \in Jobs : Due(i) => Due(i)'
  BY <1>3 DEF CreateRun, Due, TypeOK
<1>4. ASSUME NEW s \in Sessions, SourceCompleted(s)
      PROVE  \A i \in Jobs : Due(i) => Due(i)'
  <2>1. \A t \in Sessions : sess'[t].held = sess[t].held
    BY <1>4 DEF SourceCompleted, TypeOK, SessionRows
  <2> QED
    BY <1>4, <2>1, HomeAssumption DEF SourceCompleted, Due
<1>5. ASSUME UNCHANGED <<sess, job>> PROVE \A i \in Jobs : Due(i) => Due(i)'
  BY <1>5 DEF Due
<1> QED
  BY <1>1, <1>2, <1>3, <1>4, <1>5
     DEF Work, Write, Register, WriteFailure, RegisterFailure, Reload, SweepRead,
         SweepFiles, WorkerCrash

LEMMA DueNext ==
    TypeOK /\ Budget /\ Exclusive /\ StillDue /\ [Next]_vars => StillDue'
<1> SUFFICES ASSUME TypeOK, Budget, Exclusive, StillDue, [Next]_vars, Fenced'
             PROVE  \A b \in Actors : DueAt(b)'
  BY DEF StillDue
<1>1. ASSUME NEW b \in Actors, At(b, "idle")' PROVE DueAt(b)'
  BY <1>1 DEF DueAt, At
<1>2. ASSUME NEW a \in Actors, Fenced, lock = a, ~At(a, "idle"),
             \A b \in Actors \ {a} : op'[b] = op[b], DueAt(a)'
      PROVE  \A b \in Actors : DueAt(b)'
  <2>1. \A b \in Actors \ {a} : At(b, "idle")'
    BY <1>2, NoOneAssumption DEF Exclusive, At
  <2> QED
    BY <1>1, <1>2, <2>1
<1>3. ASSUME NEW a \in Actors, Step(a) PROVE \A b \in Actors : DueAt(b)'
  <2>1. Fenced /\ ~At(a, "idle") /\ \A b \in Actors \ {a} : op'[b] = op[b]
    BY <1>3, StepAlone DEF Alone, Fenced
  <2>2. lock = a /\ DueAt(a)
    BY <2>1 DEF Exclusive, StillDue
  <2> QED
    BY <1>2, <1>3, <2>1, <2>2, DueStep
<1>4. ASSUME Fenced, lock = NoOne, NEW a \in Actors, NEW o \in Ops, Goes(a, o),
             o.step \notin {"audit", "row"}
      PROVE  \A b \in Actors : DueAt(b)'
  <2>1. \A b \in Actors : At(b, "idle")
    BY <1>4, NoOneAssumption DEF Exclusive
  <2>2. \A b \in Actors \ {a} : At(b, "idle")'
    BY <1>4, <2>1, GoesAlone DEF At
  <2>3. DueAt(a)'
    BY <1>4, GoesTo DEF DueAt, At
  <2> QED
    BY <1>1, <2>2, <2>3
<1>5. ASSUME NEW a \in Actors, StartPass(a) PROVE \A b \in Actors : DueAt(b)'
  <2> DEFINE o == [Resting EXCEPT !.step = "sources", !.todo = SourceCandidates,
                                  !.reason = "pass"]
  <2>1. o \in Ops /\ o.step = "sources"
    BY RestingType DEF Ops, OpSteps, SourceCandidates
  <2>2. Fenced
    BY <1>5 DEF StartPass, Fenced
  <2> QED
    BY <1>4, <1>5, <2>1, <2>2 DEF StartPass
<1>6. ASSUME NEW a \in Web, NEW s \in Sessions, DeleteSession(a, s)
      PROVE  \A b \in Actors : DueAt(b)'
  <2> DEFINE mine == {j \in JobsOf(s) : Exists(j) /\ job[j].media # "none"}
             o == [Resting EXCEPT !.step = "media", !.home = s,
                                  !.reason = "session_deleted", !.todo = mine]
  <2>1. o \in Ops /\ o.step = "media"
    BY RestingType DEF Ops, OpSteps, JobsOf
  <2>2. Fenced
    BY <1>6 DEF DeleteSession, Fenced
  <2> QED
    BY <1>4, <1>6, <2>1, <2>2 DEF DeleteSession, Actors
<1>7. ASSUME NEW a \in Actors, Crash(a) PROVE \A b \in Actors : DueAt(b)'
  <2>1. Fenced
    BY <1>7, OtherFault DEF Crash, Fenced
  <2>2. lock = a /\ At(a, "idle")' /\ \A b \in Actors \ {a} : op'[b] = op[b]
    BY <1>7, <2>1, EndsAlone DEF Crash, Exclusive
  <2> QED
    BY <1>1, <1>2, <1>7, <2>1, <2>2 DEF Crash
<1>8. ASSUME NEW a \in Actors, LoseLock(a) PROVE \A b \in Actors : DueAt(b)'
  <2>1. faults["lockLoss"] \in Nat /\ MaxFaults["lockLoss"] \in Nat
    BY BudgetAssumption, FaultNames DEF TypeOK
  <2>2. faults'["lockLoss"] = faults["lockLoss"] - 1
    BY <1>8, FaultNames DEF LoseLock, Fault, TypeOK
  <2> QED
    BY <2>1, <2>2 DEF Budget, Fenced
<1>9. ASSUME op' = op, faults'["lockLoss"] = faults["lockLoss"],
             \A a \in Actors : At(a, "idle")
      PROVE  \A b \in Actors : DueAt(b)'
  BY <1>1, <1>9 DEF At
<1>10. ASSUME NEW s \in Sessions, ChangeHold(s) PROVE \A b \in Actors : DueAt(b)'
  <2>1. \A a \in Actors : At(a, "idle")
    BY <1>10, NoOneAssumption DEF ChangeHold, Exclusive, Fenced
  <2> QED
    BY <1>9, <1>10, <2>1 DEF ChangeHold
<1>11. ASSUME NEW s \in Sessions, SessionFallsDue(s) \/ SourceExpires(s)
       PROVE  \A b \in Actors : DueAt(b)'
  BY <1>9, <1>11 DEF SessionFallsDue, SourceExpires, Quiet, At
<1>12. ASSUME NEW j \in Jobs, MediaFallsDue(j) \/ JobFallsDue(j)
       PROVE  \A b \in Actors : DueAt(b)'
  BY <1>9, <1>12 DEF MediaFallsDue, JobFallsDue, Quiet, At
<1>13. ASSUME op' = op, faults'["lockLoss"] = faults["lockLoss"],
              \A i \in Jobs : Due(i) => Due(i)'
       PROVE  \A b \in Actors : DueAt(b)'
  BY <1>13 DEF StillDue, DueAt, At, Fenced
<1>14. ASSUME NEW j \in Jobs, Work(j) \/ CreateRun(j) PROVE \A b \in Actors : DueAt(b)'
  BY <1>13, <1>14, OthersAway, DueStays
<1>15. ASSUME NEW s \in Sessions, SourceCompleted(s) PROVE \A b \in Actors : DueAt(b)'
  BY <1>13, <1>15, OthersAway, DueStays
<1>16. CASE UNCHANGED vars
  BY <1>13, <1>16 DEF vars, Due
<1> QED
  BY <1>3, <1>5, <1>6, <1>7, <1>8, <1>10, <1>11, <1>12, <1>14, <1>15, <1>16 DEF Next

-----------------------------------------------------------------------------
(* The worker's sweep and the rows it goes by.                             *)

LEMMA EvidenceListed ==
    ASSUME NEW j \in Jobs, row[j]["evidence"] = "available"
    PROVE  Below(j, "evidence") \in Paths(j)
<1>1. Below(j, "evidence") = Path(j, "evidence")
  BY DEF Below, Path, Recorded
<1>2. "evidence" \in {r \in Recorded : row[j][r] # "none"}
  BY DEF Recorded
<1> QED
  BY <1>1, <1>2 DEF Paths

LEMMA KeepNext ==
    TypeOK /\ KeepsEvidence /\ [Next]_vars => KeepsEvidence'
<1> SUFFICES ASSUME TypeOK, KeepsEvidence, [Next]_vars PROVE KeepsEvidence'
  OBVIOUS
<1>1. ASSUME UNCHANGED <<worker, keep>>,
             \A j \in Jobs : row'[j]["evidence"] = "available"
                               => row[j]["evidence"] = "available"
      PROVE  KeepsEvidence'
  BY <1>1 DEF KeepsEvidence
<1>2. ASSUME NEW a \in Actors, Step(a) PROVE KeepsEvidence'
  <2>1. UNCHANGED <<worker, keep>>
    BY <1>2
       DEF Step, PassSource, PassSourceFails, PassCache, NextLoop, PassAborts,
           PurgeRead, HardTree, HardTreeFails, PurgeFiles, PurgeFilesFail, PurgeMark,
           PurgeMarkFails, HardRow, HardRowFails, DeleteEmpty, DeleteSource,
           DeleteSourceFails, runVars
  <2>2. CASE row' = row
    BY <1>1, <2>1, <2>2
  <2>3. CASE PurgeMark(a)
    <3>1. \A j \in Jobs : row'[j]["evidence"] = row[j]["evidence"]
      BY <2>3 DEF PurgeMark, TypeOK, Recorded
    <3> QED
      BY <1>1, <2>1, <3>1
  <2>4. CASE HardRow(a)
    <3>1. \A j \in Jobs : row'[j]["evidence"] \in {row[j]["evidence"], "none"}
      BY <2>4 DEF HardRow, TypeOK, Recorded
    <3> QED
      BY <1>1, <2>1, <3>1
  <2> QED
    BY <1>2, <2>2, <2>3, <2>4
       DEF Step, PassSource, PassSourceFails, PassCache, NextLoop, PassAborts,
           PurgeRead, HardTree, HardTreeFails, PurgeFiles, PurgeFilesFail,
           PurgeMarkFails, HardRowFails, DeleteEmpty, DeleteSource,
           DeleteSourceFails, runVars
<1>3. ASSUME NEW j \in Jobs, Work(j) PROVE KeepsEvidence'
  <2>1. ASSUME NEW next \in Workers \ {"clear"}, worker' = [worker EXCEPT ![j] = next],
               \A i \in Jobs \ {j} : keep'[i] = keep[i] /\ row'[i] = row[i]
        PROVE  KeepsEvidence'
    BY <2>1 DEF KeepsEvidence, TypeOK
  <2>2. CASE SweepRead(j)
    <3>1. row[j]["evidence"] = "available"
             => "evidence" \in {k \in Kinds : Below(j, k) \in Paths(j)}
      BY EvidenceListed DEF Kinds, Recorded
    <3>2. CASE job[j].state = "terminal"
      BY <2>2, <3>1, <3>2 DEF SweepRead, KeepsEvidence, TypeOK
    <3>3. CASE job[j].state # "terminal"
      BY <2>1, <2>2, <3>3 DEF SweepRead, Workers
    <3> QED
      BY <3>2, <3>3
  <2>3. CASE SweepFiles(j) \/ WorkerCrash(j)
    BY <2>1, <2>3 DEF SweepFiles, WorkerCrash, Workers, TypeOK
  <2>4. ASSUME NEW k \in Recorded, Register(j, k) PROVE KeepsEvidence'
    <3>1. \A i \in Jobs \ {j} : row'[i] = row[i]
      BY <2>4 DEF Register, TypeOK
    <3> QED
      BY <2>4, <3>1 DEF Register, KeepsEvidence
  <2>5. CASE RegisterFailure(j)
    BY <2>1, <2>5 DEF RegisterFailure, Workers, TypeOK
  <2>6. CASE Finish(j)
    BY <2>1, <2>6 DEF Finish, Workers
  <2>7. CASE WriteFailure(j) \/ Reload(j)
    BY <2>1, <2>7 DEF WriteFailure, Reload, Workers
  <2>8. CASE SaveAnalysis(j) \/ \E k \in Kinds : Write(j, k)
    BY <1>1, <2>8 DEF SaveAnalysis, Write, runVars
  <2> QED
    BY <1>3, <2>2, <2>3, <2>4, <2>5, <2>6, <2>7, <2>8 DEF Work
<1>4. ASSUME NEW j \in Jobs, CreateRun(j) PROVE KeepsEvidence'
  BY <1>4 DEF CreateRun, KeepsEvidence, TypeOK
<1>5. CASE UNCHANGED <<row, worker, keep>>
  BY <1>1, <1>5
<1> QED
  BY <1>2, <1>3, <1>4, <1>5
     DEF Next, StartPass, Crash, LoseLock, DeleteSession, ChangeHold, SourceCompleted,
         SessionFallsDue, SourceExpires, MediaFallsDue, JobFallsDue, runVars, vars

LEMMA HoldNext == HoldInv /\ [Next]_vars => HoldInv'
  BY TypeNext, LockNext, DueNext, KeepNext DEF HoldInv

(* What each step that takes files away takes away.                        *)
LEMMA OnlyDueLost ==
    ASSUME HoldInv, [Next]_vars, NEW j \in Jobs, Losing(j), Fenced
    PROVE  Due(j)
<1> USE DEF HoldInv
<1>0. disk' # disk
  BY DEF Losing
<1>1. ASSUME NEW a \in Actors, Step(a) PROVE Due(j)
  <2>1. ASSUME NEW i \in Jobs, HardTree(a, i) \/ HardTreeFails(a, i) PROVE Due(j)
    <3>1. i = j
      BY <2>1 DEF HardTree, HardTreeFails, Emptied, Losing, TypeOK
    <3> QED
      BY <2>1, <3>1 DEF HardTree, HardTreeFails, StillDue, DueAt
  <2>2. ASSUME PurgeFiles(a) \/ PurgeFilesFail(a) PROVE FALSE
    <3>1. PICK some \in SUBSET Media : disk' = [disk EXCEPT ![op[a].run] = @ \ some]
      <4>1. CASE PurgeFiles(a)
        BY <4>1 DEF PurgeFiles, Emptied
      <4>2. CASE PurgeFilesFail(a)
        BY <4>2 DEF PurgeFilesFail, Emptied
      <4> QED
        BY <2>2, <4>1, <4>2
    <3>2. "evidence" \notin some
      BY DEF Media
    <3> QED
      BY <3>1, <3>2 DEF Losing, TypeOK
  <2> QED
    BY <1>0, <1>1, <2>1, <2>2
       DEF Step, PassSource, PassSourceFails, PassCache, NextLoop, PassAborts,
           PurgeRead, PurgeMark, PurgeMarkFails, HardRow, HardRowFails, DeleteEmpty,
           DeleteSource, DeleteSourceFails, runVars
<1>2. ASSUME NEW i \in Jobs, Work(i) PROVE FALSE
  <2>1. ASSUME SweepFiles(i) PROVE FALSE
    BY <2>1 DEF SweepFiles, Losing, KeepsEvidence, TypeOK
  <2>2. ASSUME WriteFailure(i) \/ \E k \in Kinds : Write(i, k) PROVE FALSE
    BY <2>2 DEF WriteFailure, Write, Losing, TypeOK
  <2> QED
    BY <1>0, <1>2, <2>1, <2>2
       DEF Work, Register, SaveAnalysis, Finish, RegisterFailure, Reload, SweepRead,
           WorkerCrash, runVars
<1> QED
  BY <1>0, <1>1, <1>2
     DEF Next, StartPass, Crash, LoseLock, DeleteSession, ChangeHold, SourceCompleted,
         SessionFallsDue, SourceExpires, CreateRun, MediaFallsDue, JobFallsDue, runVars,
         vars

(* As long as the connection that holds the cleanup lock survives, only a  *)
(* run past its audit deadline and not held loses registered evidence:     *)
(* holds wait for the pass, the pass deletes only what it found due, and   *)
(* the worker's sweep and every media purge spare it.                      *)
THEOREM HeldEvidenceKept == Spec => EvidenceKept
<1>1. Init => HoldInv
  BY HoldInit
<1>2. HoldInv /\ [Next]_vars => HoldInv'
  BY HoldNext
<1>3. HoldInv /\ [Next]_vars
        => [\A j \in Jobs : Losing(j) /\ Fenced => Due(j)]_vars
  BY OnlyDueLost
<1> QED
  BY <1>1, <1>2, <1>3, PTL DEF Spec, EvidenceKept

-----------------------------------------------------------------------------
(* Rows and files.                                                         *)

Ended(j)  == job[j].state \in {"terminal", "gone"}
Lapsed(j) == \/ job[j].state = "gone"
             \/ job[j].state = "terminal" /\ (job[j].due \/ Hidden(j))
Lost(j)   == row[j]["evidence"] = "available" /\ "evidence" \notin disk[j]

(* What holds of a run: the worker's last steps are those of a run that    *)
(* has ended, the failure it is about to register is on disk unless        *)
(* retention may take it, and its sweep spares what is registered.         *)
RunOK(j) ==
    /\ job[j].state \in {"absent", "gone"} => row[j]["evidence"] # "available"
    /\ job[j].state = "active" => job[j].media # "none" /\ ~Lost(j)
    /\ worker[j] \notin {"none", "render"} => Ended(j)
    /\ job[j].media = "none" => row[j]["video"] # "available"
    /\ (job[j].state = "terminal" /\ job[j].media = "none") => disk[j] \cap Media = {}
    /\ Lost(j) => job[j].due \/ Hidden(j)
    /\ worker[j] = "failure" => "evidence" \in disk[j] \/ Lapsed(j)
    /\ (worker[j] = "clear" /\ row[j]["evidence"] = "available")
          => "evidence" \in keep[j]

(* What a retention service knows of the run it is at, and of those of its *)
(* list: what it read is still true when it acts, with or without the lock.*)
MediaAt(a) ==
    (At(a, "files") \/ At(a, "mark"))
      => /\ op[a].run \in Jobs /\ Ended(op[a].run)
         /\ op[a].video = "none" => row[op[a].run]["video"] # "available"
         /\ At(a, "mark") => /\ disk[op[a].run] \cap Media = {}
                             /\ op[a].video # "available"
AuditAt(a) ==
    /\ (At(a, "audit") \/ At(a, "row")) => \A i \in op[a].todo : i \in Jobs /\ Lapsed(i)
    /\ At(a, "row") => op[a].run \in Jobs /\ Lapsed(op[a].run)
OpOK(a) == MediaAt(a) /\ AuditAt(a)

FilesInv == /\ \A j \in Jobs : RunOK(j)
            /\ \A a \in Actors : OpOK(a)

FilesIInv == TypeOK /\ FilesInv

LEMMA FilesInit == Init => FilesIInv
<1> SUFFICES ASSUME Init PROVE FilesInv
  BY TypeInit DEF FilesIInv
<1>1. \A a \in Actors : OpOK(a)
  BY DEF Init, OpOK, MediaAt, AuditAt, At, Resting
<1>2. ASSUME NEW j \in Jobs PROVE RunOK(j)
  <2>1. CASE Imported(j)
    BY <2>1 DEF Init, RunOK, Lost, Ended, Lapsed, Recorded0, Recorded
  <2>2. CASE ~Imported(j)
    BY <2>2 DEF Init, RunOK, Lost, Ended, Lapsed, Recorded0, Recorded
  <2> QED
    BY <2>1, <2>2
<1> QED
  BY <1>1, <1>2 DEF FilesInv

(* Nothing brings a session back.                                          *)
LEMMA HiddenStays ==
    ASSUME TypeOK, [Next]_vars, NEW j \in Jobs, Hidden(j)
    PROVE  Hidden(j)'
<1> DEFINE h == Home[j]
<1>0. h \in Sessions /\ sess[h].state # "open"
  BY HomeAssumption DEF Hidden
<1>1. ASSUME \A s \in Sessions : sess'[s].state = sess[s].state PROVE Hidden(j)'
  BY <1>0, <1>1 DEF Hidden
<1>2. ASSUME NEW a \in Actors, Step(a) PROVE Hidden(j)'
  <2>1. CASE DeleteEmpty(a)
    <3> DEFINE gone == [sess[h] EXCEPT !.state = "gone", !.due = FALSE,
                                       !.cache = FALSE]
    <3>1. gone.state = "gone"
      BY <1>0 DEF TypeOK, SessionRows
    <3>2. sess'[h] \in {sess[h], gone}
      BY <1>0, <2>1 DEF DeleteEmpty
    <3>3. sess'[h].state # "open"
      <4> HIDE DEF gone, h
      <4> QED
        BY <1>0, <3>1, <3>2
    <3> QED
      BY <3>3 DEF Hidden
  <2> QED
    BY <1>1, <1>2, <2>1, CalmStep DEF Calm
<1>3. ASSUME NEW a \in Web, NEW s \in Sessions, DeleteSession(a, s) PROVE Hidden(j)'
  <2>1. sess'[h].state \in {sess[h].state, "deleted"}
    BY <1>0, <1>3 DEF DeleteSession, TypeOK, SessionRows
  <2> QED
    BY <1>0, <2>1 DEF Hidden
<1>4. ASSUME NEW s \in Sessions,
             ChangeHold(s) \/ SourceCompleted(s) \/ SessionFallsDue(s) \/ SourceExpires(s)
      PROVE  Hidden(j)'
  <2>1. \A t \in Sessions : sess'[t].state = sess[t].state
    BY <1>4, SameState DEF ChangeHold, SourceCompleted, SessionFallsDue, SourceExpires
  <2> QED
    BY <1>1, <2>1
<1>5. ASSUME NEW i \in Jobs, Work(i) PROVE Hidden(j)'
  BY <1>1, <1>5, CalmWork DEF Calm
<1>6. CASE sess' = sess
  BY <1>1, <1>6
<1> QED
  BY <1>2, <1>3, <1>4, <1>5, <1>6
     DEF Next, StartPass, Crash, LoseLock, CreateRun, MediaFallsDue, JobFallsDue, vars

-----------------------------------------------------------------------------
(* Runs that a step does not touch, and lists that stay true.              *)

LEMMA RunSame ==
    ASSUME NEW j \in Jobs, RunOK(j), Hidden(j) => Hidden(j)',
           job'[j] = job[j], row'[j] = row[j], disk'[j] = disk[j],
           worker'[j] = worker[j], keep'[j] = keep[j]
    PROVE  RunOK(j)'
  BY DEF RunOK, Ended, Lapsed, Lost

(* Of a run that has ended, media files only go and no video is registered.*)
Onward(i) ==
    /\ Ended(i) => /\ Ended(i)'
                   /\ disk'[i] \cap Media \subseteq disk[i] \cap Media
                   /\ row[i]["video"] # "available" => row'[i]["video"] # "available"
    /\ Lapsed(i) => Lapsed(i)'

LEMMA OpSame ==
    ASSUME NEW a \in Actors, OpOK(a), op'[a] = op[a], \A i \in Jobs : Onward(i)
    PROVE  OpOK(a)'
<1>1. MediaAt(a)'
  BY DEF OpOK, MediaAt, Onward, At
<1>2. AuditAt(a)'
  BY DEF OpOK, AuditAt, Onward, At
<1> QED
  BY <1>1, <1>2 DEF OpOK

LEMMA OpElsewhere ==
    ASSUME NEW a \in Actors, op'[a].step \in {"idle", "sources", "cache", "media", "empty", "source"}
    PROVE  OpOK(a)'
  BY DEF OpOK, MediaAt, AuditAt, At

LEMMA RunsSame ==
    ASSUME TypeOK, FilesInv, [Next]_vars, UNCHANGED <<job, row, disk, worker, keep>>
    PROVE  \A j \in Jobs : RunOK(j)' /\ Onward(j)
  BY HiddenStays, RunSame DEF FilesInv, Onward, Ended, Lapsed

-----------------------------------------------------------------------------
(* The steps of a retention service.                                       *)

LEMMA PurgeFilesOK ==
    ASSUME FilesIInv, NEW a \in Actors, [Next]_vars, PurgeFiles(a) \/ PurgeFilesFail(a)
    PROVE  /\ \A i \in Jobs : RunOK(i)' /\ Onward(i)
           /\ OpOK(a)'
<1>0. PICK j \in Jobs :
        /\ j = op[a].run /\ Ended(j) /\ At(a, "files")
        /\ op[a].video = "none" => row[j]["video"] # "available"
  BY DEF PurgeFiles, PurgeFilesFail, FilesIInv, FilesInv, OpOK, MediaAt, At
<1>1. UNCHANGED <<sess, job, row, worker, keep>>
  BY DEF PurgeFiles, PurgeFilesFail
<1>2. PICK some \in SUBSET Media : disk' = [disk EXCEPT ![j] = @ \ some]
  <2>1. CASE PurgeFiles(a)
    BY <1>0, <2>1 DEF PurgeFiles, Emptied
  <2>2. CASE PurgeFilesFail(a)
    BY <1>0, <2>2 DEF PurgeFilesFail, Emptied
  <2> QED
    BY <2>1, <2>2
<1>3. ASSUME NEW i \in Jobs \ {j} PROVE RunOK(i)' /\ Onward(i)
  <2>1. disk'[i] = disk[i]
    BY <1>2 DEF FilesIInv, TypeOK
  <2>2. RunOK(i)'
    BY <1>1, <2>1, HiddenStays, RunSame DEF FilesIInv, FilesInv
  <2> QED
    BY <1>1, <2>1, <2>2 DEF Onward, Ended, Lapsed, Hidden
<1>4. disk'[j] = disk[j] \ some /\ "evidence" \notin some
  BY <1>0, <1>2 DEF FilesIInv, TypeOK, Media
<1>5. ("evidence" \in disk'[j] <=> "evidence" \in disk[j])
      /\ (disk'[j] \cap Media \subseteq disk[j] \cap Media)
  BY <1>4
<1>6. RunOK(j) /\ (Lost(j)' <=> Lost(j)) /\ (Ended(j)' <=> Ended(j)) /\ (Lapsed(j)' <=> Lapsed(j))
      /\ (Hidden(j)' <=> Hidden(j))
  BY <1>0, <1>1, <1>5 DEF FilesIInv, FilesInv, Lost, Ended, Lapsed, Hidden
<1>7. RunOK(j)' /\ Onward(j)
  BY <1>0, <1>1, <1>5, <1>6 DEF RunOK, Onward
<1>8. OpOK(a)'
  <2>1. CASE PurgeFiles(a)
    <3> DEFINE v == IF op[a].video = "none" THEN "none"
                    ELSE IF "video" \in disk[op[a].run] THEN "deleted"
                    ELSE "missing"
    <3>1. op'[a] = [op[a] EXCEPT !.step = "mark", !.video = v]
      BY <2>1, GoesTo DEF PurgeFiles, FilesIInv
    <3>0. v \in {"none", "deleted", "missing"} /\ (v = "none" => op[a].video = "none")
      OBVIOUS
    <3>2. /\ op'[a].step = "mark" /\ op'[a].run = j
          /\ op'[a].video \in {"none", "deleted", "missing"}
          /\ op'[a].video = "none" => op[a].video = "none"
      <4> HIDE DEF v
      <4> QED
        BY <1>0, <3>0, <3>1, OpType DEF Ops, FilesIInv
    <3>3. disk'[j] \cap Media = {}
      BY <1>0, <2>1 DEF PurgeFiles, Emptied, FilesIInv, TypeOK
    <3>4. MediaAt(a)'
      BY <1>0, <1>1, <1>6, <3>2, <3>3 DEF MediaAt, At
    <3>5. AuditAt(a)'
      BY <3>2 DEF AuditAt, At
    <3> QED
      BY <3>4, <3>5 DEF OpOK
  <2>2. CASE PurgeFilesFail(a)
    <3>1. op'[a].step = "media"
      BY <2>2, <1>0, GoesTo, OpType, DroppedType
         DEF PurgeFilesFail, NextRun, At, Ops, FilesIInv
    <3> QED
      BY <3>1, OpElsewhere
  <2> QED
    BY <2>1, <2>2
<1> QED
  BY <1>3, <1>7, <1>8

LEMMA PurgeMarkOK ==
    ASSUME FilesIInv, NEW a \in Actors, [Next]_vars, PurgeMark(a) \/ PurgeMarkFails(a)
    PROVE  /\ \A i \in Jobs : RunOK(i)' /\ Onward(i)
           /\ OpOK(a)'
<1>0. PICK j \in Jobs :
        /\ j = op[a].run /\ Ended(j) /\ At(a, "mark")
        /\ op[a].video = "none" => row[j]["video"] # "available"
        /\ op[a].video # "available" /\ disk[j] \cap Media = {}
  BY DEF PurgeMark, PurgeMarkFails, FilesIInv, FilesInv, OpOK, MediaAt, At
<1>1. UNCHANGED <<sess, disk, worker, keep>>
  BY DEF PurgeMark, PurgeMarkFails, runVars
<1>2. OpOK(a)'
  <2>1. op'[a].step = "media"
    BY ZenonT(40), <1>0, GoesTo, OpType, DroppedType
       DEF PurgeMark, PurgeMarkFails, NextRun, At, Ops, FilesIInv
  <2> QED
    BY <2>1, OpElsewhere
<1>3. CASE UNCHANGED <<job, row>>
  BY <1>1, <1>2, <1>3, RunsSame DEF FilesIInv
<1>4. CASE PurgeMark(a) /\ job[j].state = "terminal"
  <2>1. /\ row' = [row EXCEPT ![j]["video"] =
                            IF op[a].video = "none" THEN @ ELSE op[a].video]
        /\ job' = [job EXCEPT ![j].media = "none"]
    BY <1>0, <1>4 DEF PurgeMark
  <2>2. ASSUME NEW i \in Jobs \ {j} PROVE RunOK(i)' /\ Onward(i)
    <3>1. row'[i] = row[i] /\ job'[i] = job[i]
      BY <2>1 DEF FilesIInv, TypeOK
    <3>2. RunOK(i)'
      BY <1>1, <3>1, HiddenStays, RunSame DEF FilesIInv, FilesInv
    <3> QED
      BY <1>1, <3>1, <3>2 DEF Onward, Ended, Lapsed, Hidden
  <2>3. row'[j]["evidence"] = row[j]["evidence"] /\ row'[j]["video"] # "available"
    <3>1. row[j] \in [Recorded -> Statuses] /\ "video" \in Recorded /\ "evidence" \in Recorded
      BY <1>0 DEF FilesIInv, TypeOK, Recorded
    <3>2. row'[j] = [row[j] EXCEPT !["video"] =
                            IF op[a].video = "none" THEN @ ELSE op[a].video]
      BY <1>0, <2>1 DEF FilesIInv, TypeOK
    <3> QED
      BY <1>0, <3>1, <3>2
  <2>4. job'[j].state = job[j].state /\ job'[j].due = job[j].due /\ job'[j].media = "none"
    BY <1>0, <2>1 DEF FilesIInv, TypeOK, RunRows
  <2>5. /\ RunOK(j) /\ (Lost(j)' <=> Lost(j)) /\ (Ended(j)' <=> Ended(j))
        /\ (Lapsed(j)' <=> Lapsed(j)) /\ (Hidden(j)' <=> Hidden(j))
    BY <1>0, <1>1, <2>3, <2>4 DEF FilesIInv, FilesInv, Lost, Ended, Lapsed, Hidden
  <2>6. RunOK(j)' /\ Onward(j)
    BY <1>0, <1>1, <1>4, <2>3, <2>4, <2>5 DEF RunOK, Onward
  <2> QED
    BY <1>2, <2>2, <2>6
<1> QED
  BY <1>0, <1>3, <1>4 DEF PurgeMark, PurgeMarkFails, runVars

LEMMA HardTreeOK ==
    ASSUME FilesIInv, NEW a \in Actors, NEW j \in Jobs, [Next]_vars,
           HardTree(a, j) \/ HardTreeFails(a, j)
    PROVE  /\ \A i \in Jobs : RunOK(i)' /\ Onward(i)
           /\ OpOK(a)'
<1>0. /\ At(a, "audit") /\ j \in op[a].todo /\ Lapsed(j)
      /\ \A i \in op[a].todo : i \in Jobs /\ Lapsed(i)
  BY DEF HardTree, HardTreeFails, FilesIInv, FilesInv, OpOK, AuditAt, At
<1>1. UNCHANGED <<sess, job, row, worker, keep>>
  BY DEF HardTree, HardTreeFails
<1>2. PICK some \in SUBSET Kinds : disk' = [disk EXCEPT ![j] = @ \ some]
  <2>1. CASE HardTree(a, j)
    BY <2>1 DEF HardTree, Emptied
  <2>2. CASE HardTreeFails(a, j)
    BY <2>2 DEF HardTreeFails, Emptied, FilesIInv, TypeOK
  <2> QED
    BY <2>1, <2>2
<1>3. ASSUME NEW i \in Jobs \ {j} PROVE RunOK(i)' /\ Onward(i)
  <2>1. disk'[i] = disk[i]
    BY <1>2 DEF FilesIInv, TypeOK
  <2>2. RunOK(i)'
    BY <1>1, <2>1, HiddenStays, RunSame DEF FilesIInv, FilesInv
  <2> QED
    BY <1>1, <2>1, <2>2 DEF Onward, Ended, Lapsed, Hidden
<1>4. disk'[j] \subseteq disk[j]
  BY <1>2 DEF FilesIInv, TypeOK
<1>5. /\ RunOK(j) /\ (Ended(j)' <=> Ended(j)) /\ (Lapsed(j)' <=> Lapsed(j))
      /\ (Hidden(j)' <=> Hidden(j)) /\ Ended(j)
      /\ job[j].state \in {"terminal", "gone"}
      /\ job[j].state = "terminal" => job[j].due \/ Hidden(j)
  BY <1>0, <1>1 DEF FilesIInv, FilesInv, Ended, Lapsed, Hidden
<1>6. RunOK(j)' /\ Onward(j)
  BY <1>0, <1>1, <1>4, <1>5 DEF RunOK, Onward, Lost
<1>7. OpOK(a)'
  <2>1. /\ op'[a].step \in {"row", "audit"} /\ op'[a].todo \subseteq op[a].todo
        /\ op'[a].step = "row" => op'[a].run = j
    <3>0. op[a] \in Ops
      BY OpType DEF FilesIInv
    <3>1. CASE HardTree(a, j)
      <4>1. op'[a] = [op[a] EXCEPT !.step = "row", !.run = j]
        BY <3>1, GoesTo DEF HardTree, FilesIInv
      <4> QED
        BY <3>0, <4>1 DEF Ops
    <3>2. CASE HardTreeFails(a, j)
      <4>1. op'[a] = [op[a] EXCEPT !.todo = @ \ {j}]
        BY <3>2, GoesTo DEF HardTreeFails, Dropped, FilesIInv
      <4> QED
        BY <1>0, <3>0, <4>1 DEF Ops, At
    <3> QED
      BY <3>1, <3>2
  <2>2. \A i \in Jobs : Lapsed(i) => Lapsed(i)'
    BY <1>1 DEF Lapsed, Hidden
  <2> QED
    BY <1>0, <2>1, <2>2 DEF OpOK, MediaAt, AuditAt, At
<1> QED
  BY <1>3, <1>6, <1>7

LEMMA HardRowOK ==
    ASSUME FilesIInv, NEW a \in Actors, [Next]_vars, HardRow(a) \/ HardRowFails(a)
    PROVE  /\ \A i \in Jobs : RunOK(i)' /\ Onward(i)
           /\ OpOK(a)'
<1>0. PICK j \in Jobs :
        /\ j = op[a].run /\ At(a, "row") /\ Lapsed(j)
        /\ \A i \in op[a].todo : i \in Jobs /\ Lapsed(i)
  BY DEF HardRow, HardRowFails, FilesIInv, FilesInv, OpOK, AuditAt, At
<1>1. UNCHANGED <<sess, disk, worker, keep>>
  BY DEF HardRow, HardRowFails, runVars
<1>2. ASSUME \A i \in Jobs : Lapsed(i) => Lapsed(i)' PROVE OpOK(a)'
  <2>1. op'[a].step = "audit" /\ op'[a].todo \subseteq op[a].todo
    <3>1. op'[a] = [[op[a] EXCEPT !.todo = @ \ {op[a].run}] EXCEPT
                      !.step = "audit", !.run = NoOne, !.video = "none"]
      BY <1>0, GoesTo DEF HardRow, HardRowFails, NextRun, Dropped, At, FilesIInv
    <3> QED
      BY <3>1, OpType DEF Ops, FilesIInv
  <2> QED
    BY <1>0, <1>2, <2>1 DEF OpOK, MediaAt, AuditAt, At
<1>3. CASE UNCHANGED <<job, row>>
  BY <1>1, <1>2, <1>3, RunsSame DEF FilesIInv, Onward
<1>4. CASE HardRow(a) /\ Due(j)
  <2>1. /\ job' = [job EXCEPT ![j] = [state |-> "gone", media |-> "none", due |-> FALSE]]
        /\ row' = [row EXCEPT ![j] = [k \in Recorded |-> "none"]]
    BY <1>0, <1>4 DEF HardRow
  <2>2. ASSUME NEW i \in Jobs \ {j} PROVE RunOK(i)' /\ Onward(i)
    <3>1. row'[i] = row[i] /\ job'[i] = job[i]
      BY <2>1 DEF FilesIInv, TypeOK
    <3>2. RunOK(i)'
      BY <1>1, <3>1, HiddenStays, RunSame DEF FilesIInv, FilesInv
    <3> QED
      BY <1>1, <3>1, <3>2 DEF Onward, Ended, Lapsed, Hidden
  <2>3. /\ job'[j].state = "gone"
        /\ row'[j]["evidence"] = "none" /\ row'[j]["video"] = "none"
    BY <1>0, <2>1 DEF FilesIInv, TypeOK, Recorded
  <2>4. Ended(j)' /\ Lapsed(j)' /\ ~Lost(j)'
    BY <2>3 DEF Ended, Lapsed, Lost
  <2>5. RunOK(j)' /\ Onward(j)
    BY <1>1, <2>3, <2>4 DEF RunOK, Onward
  <2> QED
    BY <1>2, <2>2, <2>5 DEF Onward
<1> QED
  BY <1>0, <1>3, <1>4 DEF HardRow, HardRowFails, runVars

(* The steps of a service that change none of its runs.                    *)
LEMMA ServiceOK ==
    ASSUME FilesIInv, NEW a \in Actors, [Next]_vars,
           \/ \E s \in Sessions : PassSource(a, s) \/ PassSourceFails(a, s)
           \/ PassCache(a) \/ NextLoop(a) \/ PassAborts(a)
           \/ \E j \in Jobs : PurgeRead(a, j)
           \/ DeleteEmpty(a) \/ DeleteSource(a) \/ DeleteSourceFails(a)
           \/ StartPass(a) \/ Crash(a)
    PROVE  /\ \A i \in Jobs : RunOK(i)' /\ Onward(i)
           /\ OpOK(a)'
<1>0. UNCHANGED <<job, row, disk, worker, keep>>
  BY DEF PassSource, PassSourceFails, PassCache, NextLoop, PassAborts, PurgeRead,
         DeleteEmpty, DeleteSource, DeleteSourceFails, StartPass, Crash, runVars
<1>1. \A i \in Jobs : RunOK(i)' /\ Onward(i)
  BY <1>0, RunsSame DEF FilesIInv
<1>2. ASSUME NEW s \in Sessions, PassSource(a, s) \/ PassSourceFails(a, s) PROVE OpOK(a)'
  <2>1. op'[a].step \in {"cache", "sources"}
    BY <1>2, GoesTo, OpType
       DEF PassSource, PassSourceFails, Dropped, At, Ops, FilesIInv
  <2> QED
    BY <2>1, OpElsewhere
<1>3. CASE PassCache(a)
  <2>1. op'[a].step = "sources"
    BY ZenonT(40), <1>3, GoesTo, OpType DEF PassCache, Ops, FilesIInv
  <2> QED
    BY <1>1, <2>1, OpElsewhere
<1>4. CASE NextLoop(a)
  <2>1. CASE At(a, "sources") \/ At(a, "audit")
    <3>1. op'[a].step \in {"media", "empty"}
      BY <1>4, <2>1, GoesTo, OpType DEF NextLoop, Moves, At, Ops, FilesIInv
    <3> QED
      BY <1>1, <3>1, OpElsewhere
  <2>2. CASE At(a, "media")
    <3>1. op'[a] = [op[a] EXCEPT !.step = "audit", !.todo = AuditCandidates]
      BY <1>4, <2>2, GoesTo DEF NextLoop, At, FilesIInv
    <3>2. op'[a].step = "audit" /\ op'[a].todo = AuditCandidates
      BY <3>1, OpType DEF Ops, FilesIInv
    <3>3. \A i \in AuditCandidates : i \in Jobs /\ Lapsed(i)
      BY DEF AuditCandidates, Due, Lapsed
    <3>4. \A i \in AuditCandidates : i \in Jobs /\ Lapsed(i)'
      BY <1>1, <3>3 DEF Onward
    <3> QED
      BY <1>1, <3>2, <3>4 DEF OpOK, MediaAt, AuditAt, At
  <2> QED
    BY <1>4, <2>1, <2>2 DEF NextLoop
<1>5. ASSUME NEW j \in Jobs, PurgeRead(a, j) PROVE OpOK(a)'
  <2>1. CASE job[j].state = "terminal" /\ job[j].media # "none"
    <3>1. op'[a] = [op[a] EXCEPT !.step = "files", !.run = j, !.video = row[j]["video"]]
      BY <1>5, <2>1, GoesTo DEF PurgeRead, FilesIInv
    <3>2. /\ op'[a].step = "files" /\ op'[a].run = j
          /\ op'[a].video = row'[j]["video"]
      BY <1>0, <3>1, OpType DEF Ops, FilesIInv
    <3>3. job'[j].state = "terminal"
      BY <1>0, <2>1
    <3> QED
      BY <3>2, <3>3 DEF OpOK, MediaAt, AuditAt, At, Ended
  <2>2. CASE ~(job[j].state = "terminal" /\ job[j].media # "none")
    <3>1. op'[a].step = "media"
      BY <1>5, <2>2, GoesTo, OpType DEF PurgeRead, Dropped, At, Ops, FilesIInv
    <3> QED
      BY <3>1, OpElsewhere
  <2> QED
    BY <2>1, <2>2
<1>6. CASE DeleteEmpty(a) \/ DeleteSource(a) \/ PassAborts(a) \/ DeleteSourceFails(a)
           \/ Crash(a)
  <2>1. op'[a].step = "idle"
    BY <1>6, EndsAlone
       DEF DeleteEmpty, DeleteSource, PassAborts, DeleteSourceFails, Crash, At, FilesIInv
  <2> QED
    BY <1>1, <2>1, OpElsewhere
<1>7. CASE StartPass(a)
  <2>1. op'[a].step = "sources"
    BY <1>7, GoesTo DEF StartPass, Resting, FilesIInv
  <2> QED
    BY <1>1, <2>1, OpElsewhere
<1> QED
  BY <1>1, <1>2, <1>3, <1>4, <1>5, <1>6, <1>7

LEMMA DeleteSessionOK ==
    ASSUME FilesIInv, NEW a \in Web, NEW s \in Sessions, [Next]_vars, DeleteSession(a, s)
    PROVE  /\ \A i \in Jobs : RunOK(i)' /\ Onward(i)
           /\ OpOK(a)'
<1>0. UNCHANGED <<row, disk, worker, keep>> /\ a \in Actors
  BY DEF DeleteSession, runVars, Actors
<1>1. OpOK(a)'
  <2>1. op'[a].step = "media"
    BY ZenonT(40), <1>0, GoesTo DEF DeleteSession, Resting, FilesIInv
  <2> QED
    BY <1>0, <2>1, OpElsewhere
<1>2. ASSUME NEW i \in Jobs PROVE RunOK(i)' /\ Onward(i)
  <2>1. CASE job'[i] = job[i]
    <3>1. RunOK(i)'
      BY <1>0, <2>1, HiddenStays, RunSame DEF FilesIInv, FilesInv
    <3> QED
      BY <1>0, <2>1, <3>1, HiddenStays DEF Onward, Ended, Lapsed, FilesIInv
  <2>2. CASE job'[i] # job[i]
    <3>1. /\ sess[s].state = "open" /\ i \in JobsOf(s) /\ Exists(i)
          /\ job[i].state # "active" /\ job[i] \in RunRows
          /\ job'[i] = [job[i] EXCEPT !.due = FALSE,
                                      !.media = IF @ = "none" THEN "none" ELSE "due"]
      BY <2>2 DEF DeleteSession, FilesIInv, TypeOK, Busy, JobsOf
    <3>2. /\ job[i].state = "terminal" /\ job'[i].state = "terminal"
          /\ job'[i].media = "none" <=> job[i].media = "none"
      BY <3>1 DEF Exists, RunRows
    <3>3. Hidden(i)'
      <4>0. sess' = [sess EXCEPT ![s].state = "deleted", ![s].due = FALSE]
        BY <3>1 DEF DeleteSession
      <4>1. sess'[s].state = "deleted" /\ Home[i] = s
        BY <3>1, <4>0 DEF FilesIInv, TypeOK, SessionRows, JobsOf
      <4> QED
        BY <4>1 DEF Hidden
    <3>4. RunOK(i) /\ (Lost(i)' <=> Lost(i)) /\ Ended(i)' /\ Lapsed(i)'
      BY <1>0, <3>2, <3>3 DEF FilesIInv, FilesInv, Lost, Ended, Lapsed
    <3>5. RunOK(i)'
      BY <1>0, <3>2, <3>3, <3>4 DEF RunOK
    <3> QED
      BY <1>0, <3>4, <3>5 DEF Onward
  <2> QED
    BY <2>1, <2>2
<1> QED
  BY <1>1, <1>2

-----------------------------------------------------------------------------
(* The steps of the worker and of the clock.                               *)

LEMMA WorkOK ==
    ASSUME FilesIInv, NEW j \in Jobs, [Next]_vars, Work(j)
    PROVE  RunOK(j)' /\ Onward(j)
<1> USE DEF FilesIInv, TypeOK
<1>0. RunOK(j) /\ (Hidden(j) => Hidden(j)')
  BY HiddenStays DEF FilesInv
<1>e. "evidence" \in Recorded /\ "video" \in Recorded
  BY DEF Recorded
<1>1. ASSUME NEW k \in Kinds, Write(j, k) PROVE RunOK(j)' /\ Onward(j)
  <2>1. /\ UNCHANGED <<job, row, worker, keep>> /\ worker[j] = "render"
        /\ job[j].state = "active" /\ disk[j] \subseteq disk'[j]
    BY <1>1 DEF Write
  <2> QED
    BY <1>0, <2>1 DEF RunOK, Onward, Lost, Ended, Lapsed
<1>2. ASSUME NEW k \in Recorded, Register(j, k) PROVE RunOK(j)' /\ Onward(j)
  <2>1. /\ UNCHANGED <<job, disk, worker, keep>> /\ worker[j] = "render"
        /\ job[j].state = "active" /\ k \in disk[j]
        /\ row' = [row EXCEPT ![j][k] = "available"]
    BY <1>2 DEF Register
  <2>2. row'[j]["evidence"] = row[j]["evidence"] \/ "evidence" \in disk[j]
    BY <1>e, <2>1
  <2> QED
    BY <1>0, <2>1, <2>2 DEF RunOK, Onward, Lost, Ended, Lapsed
<1>3. CASE SaveAnalysis(j)
  BY <1>3, RunsSame DEF SaveAnalysis, runVars
<1>4. CASE Finish(j)
  <2>1. /\ UNCHANGED <<row, disk, keep>> /\ worker[j] = "render"
        /\ job[j].state = "active" /\ worker'[j] \in {"ended", "failing"}
        /\ job'[j].state = "terminal" /\ job'[j].media = "later"
    BY <1>4 DEF Finish
  <2> QED
    BY <1>0, <2>1 DEF RunOK, Onward, Lost, Ended, Lapsed
<1>5. CASE WriteFailure(j)
  <2>1. /\ UNCHANGED <<sess, job, row, keep>> /\ worker[j] = "failing" /\ Ended(j)
        /\ \/ disk'[j] = disk[j] \cup {"evidence"} /\ worker'[j] = "failure"
           \/ disk'[j] = disk[j] /\ worker'[j] = "none"
    BY <1>0, <1>5 DEF WriteFailure, RunOK
  <2>2. disk'[j] \cap Media = disk[j] \cap Media
    BY <2>1 DEF Media
  <2> QED
    BY <1>0, <2>1, <2>2 DEF RunOK, Onward, Lost, Ended, Lapsed
<1>6. CASE RegisterFailure(j)
  <2>1. UNCHANGED <<sess, job, disk, keep>> /\ worker[j] = "failure" /\ Ended(j)
    BY <1>0, <1>6 DEF RegisterFailure, RunOK
  <2>2. CASE Found(j)
    <3>1. job[j].state = "terminal" /\ worker'[j] = "ended"
      BY <1>6, <2>1, <2>2 DEF RegisterFailure, Found, Exists, Ended
    <3>2. row'[j]["evidence"] = "available" /\ row'[j]["video"] = row[j]["video"]
      BY <1>6, <1>e, <2>2 DEF RegisterFailure
    <3>3. "evidence" \in disk[j] \/ job[j].due \/ Hidden(j)
      BY <1>0, <2>1, <3>1 DEF RunOK, Lapsed
    <3> QED
      BY <1>0, <2>1, <3>1, <3>2, <3>3 DEF RunOK, Onward, Lost, Ended, Lapsed
  <2>3. CASE ~Found(j)
    <3>1. row' = row /\ worker'[j] = "none"
      BY <1>6, <2>3 DEF RegisterFailure
    <3> QED
      BY <1>0, <2>1, <3>1 DEF RunOK, Onward, Lost, Ended, Lapsed
  <2> QED
    BY <2>2, <2>3
<1>7. CASE Reload(j)
  <2>1. /\ UNCHANGED <<sess, job, row, disk, keep>> /\ worker[j] = "ended"
        /\ worker'[j] \in {"sweep", "none"}
    BY <1>7 DEF Reload
  <2> QED
    BY <1>0, <2>1 DEF RunOK, Onward, Lost, Ended, Lapsed
<1>8. CASE SweepRead(j)
  <2>1. UNCHANGED <<sess, job, row, disk>> /\ worker[j] = "sweep"
    BY <1>8 DEF SweepRead
  <2>2. \/ worker'[j] = "none"
        \/ /\ worker'[j] = "clear" /\ job[j].state = "terminal"
           /\ keep'[j] = {k \in Kinds : Below(j, k) \in Paths(j)} \cup {"input"}
    BY <1>8 DEF SweepRead
  <2>3. worker'[j] = "clear" /\ row[j]["evidence"] = "available" => "evidence" \in keep'[j]
    BY <2>2, EvidenceListed DEF Kinds, Recorded
  <2> QED
    BY <1>0, <2>1, <2>2, <2>3 DEF RunOK, Onward, Lost, Ended, Lapsed
<1>9. CASE SweepFiles(j)
  <2>1. /\ UNCHANGED <<sess, job, row>> /\ worker[j] = "clear"
        /\ worker'[j] = "none" /\ disk'[j] = disk[j] \cap keep[j]
    BY <1>9 DEF SweepFiles
  <2>2. Lost(j)' <=> Lost(j)
    BY <1>0, <2>1 DEF RunOK, Lost
  <2> QED
    BY <1>0, <2>1, <2>2 DEF RunOK, Onward, Lost, Ended, Lapsed
<1>10. CASE WorkerCrash(j)
  <2>1. UNCHANGED <<sess, job, row, disk>> /\ worker'[j] = "none"
    BY <1>10 DEF WorkerCrash
  <2> QED
    BY <1>0, <2>1 DEF RunOK, Onward, Lost, Ended, Lapsed
<1> QED
  BY <1>1, <1>2, <1>3, <1>4, <1>5, <1>6, <1>7, <1>8, <1>9, <1>10 DEF Work

LEMMA ClockOK ==
    ASSUME FilesIInv, NEW j \in Jobs, [Next]_vars,
           CreateRun(j) \/ MediaFallsDue(j) \/ JobFallsDue(j)
    PROVE  RunOK(j)' /\ Onward(j)
<1> USE DEF FilesIInv, TypeOK
<1>0. RunOK(j) /\ (Hidden(j) => Hidden(j)')
  BY HiddenStays DEF FilesInv
<1>1. CASE CreateRun(j)
  <2>1. /\ UNCHANGED <<row, disk, keep>> /\ job[j].state = "absent"
        /\ worker'[j] = "render"
        /\ job'[j].state = "active" /\ job'[j].media = "later"
    BY <1>1 DEF CreateRun
  <2> QED
    BY <1>0, <2>1 DEF RunOK, Onward, Lost, Ended, Lapsed
<1>2. CASE MediaFallsDue(j)
  <2>1. /\ UNCHANGED <<row, disk, keep, worker>> /\ job[j].media = "later"
        /\ job'[j].state = job[j].state /\ job'[j].due = job[j].due
        /\ job'[j].media = "due"
    BY <1>2 DEF MediaFallsDue, runVars, RunRows
  <2> QED
    BY <1>0, <2>1 DEF RunOK, Onward, Lost, Ended, Lapsed
<1>3. CASE JobFallsDue(j)
  <2>1. /\ UNCHANGED <<row, disk, keep, worker>> /\ job'[j].media = job[j].media
        /\ job'[j].state = job[j].state /\ job'[j].due = TRUE
    BY <1>3 DEF JobFallsDue, runVars, RunRows
  <2> QED
    BY <1>0, <2>1 DEF RunOK, Onward, Lost, Ended, Lapsed
<1> QED
  BY <1>1, <1>2, <1>3

(* A step about one run leaves the others, and every service, alone.       *)
LEMMA OthersOK ==
    ASSUME FilesIInv, NEW j \in Jobs, [Next]_vars,
           Work(j) \/ CreateRun(j) \/ MediaFallsDue(j) \/ JobFallsDue(j)
    PROVE  /\ op' = op
           /\ \A i \in Jobs \ {j} : RunOK(i)' /\ Onward(i)
<1> USE DEF FilesIInv, TypeOK
<1>1. op' = op
  BY OthersAway DEF MediaFallsDue, JobFallsDue
<1>2. ASSUME NEW i \in Jobs \ {j}
      PROVE  /\ job'[i] = job[i] /\ row'[i] = row[i] /\ disk'[i] = disk[i]
             /\ worker'[i] = worker[i] /\ keep'[i] = keep[i]
  <2>1. CASE Work(j)
    BY <2>1 DEF Work, Write, Register, SaveAnalysis, Finish, WriteFailure,
                RegisterFailure, Reload, SweepRead, SweepFiles, WorkerCrash, runVars
  <2>2. CASE CreateRun(j) \/ MediaFallsDue(j) \/ JobFallsDue(j)
    BY <2>2 DEF CreateRun, MediaFallsDue, JobFallsDue, runVars
  <2> QED
    BY <2>1, <2>2
<1>3. ASSUME NEW i \in Jobs \ {j} PROVE RunOK(i)' /\ Onward(i)
  <2>1. RunOK(i)'
    BY <1>2, HiddenStays, RunSame DEF FilesInv
  <2> QED
    BY <1>2, <2>1, HiddenStays DEF Onward, Ended, Lapsed
<1> QED
  BY <1>1, <1>3

LEMMA FilesNext == FilesIInv /\ [Next]_vars => FilesIInv'
<1> SUFFICES ASSUME FilesIInv, [Next]_vars PROVE FilesInv'
  BY TypeNext DEF FilesIInv
<1>1. ASSUME NEW a \in Actors, \A b \in Actors \ {a} : op'[b] = op[b],
             \A i \in Jobs : RunOK(i)' /\ Onward(i), OpOK(a)'
      PROVE  FilesInv'
  BY <1>1, OpSame DEF FilesIInv, FilesInv
<1>2. ASSUME op' = op, \A i \in Jobs : RunOK(i)' /\ Onward(i) PROVE FilesInv'
  BY <1>2, OpSame DEF FilesIInv, FilesInv
<1>3. ASSUME NEW a \in Actors, Step(a) PROVE FilesInv'
  <2>1. \A b \in Actors \ {a} : op'[b] = op[b]
    BY <1>3, StepAlone DEF Alone, FilesIInv
  <2>2. (\A i \in Jobs : RunOK(i)' /\ Onward(i)) /\ OpOK(a)'
    BY <1>3, PurgeFilesOK, PurgeMarkOK, HardTreeOK, HardRowOK, ServiceOK DEF Step
  <2> QED
    BY <1>1, <2>1, <2>2
<1>4. ASSUME NEW a \in Actors, StartPass(a) \/ Crash(a) PROVE FilesInv'
  <2>1. \A b \in Actors \ {a} : op'[b] = op[b]
    BY <1>4, GoesAlone, EndsAlone DEF StartPass, Crash, FilesIInv, TypeOK, Goes
  <2> QED
    BY <1>1, <1>4, <2>1, ServiceOK
<1>5. ASSUME NEW a \in Actors, LoseLock(a) PROVE FilesInv'
  BY <1>2, <1>5, RunsSame DEF LoseLock, runVars, FilesIInv
<1>6. ASSUME NEW a \in Web, NEW s \in Sessions, DeleteSession(a, s) PROVE FilesInv'
  <2>1. a \in Actors /\ \A b \in Actors \ {a} : op'[b] = op[b]
    BY <1>6 DEF DeleteSession, Actors, Goes, FilesIInv, TypeOK
  <2> QED
    BY <1>1, <1>6, <2>1, DeleteSessionOK
<1>7. ASSUME NEW s \in Sessions,
             ChangeHold(s) \/ SourceCompleted(s) \/ SessionFallsDue(s) \/ SourceExpires(s)
      PROVE  FilesInv'
  <2>1. UNCHANGED <<job, row, disk, worker, keep, op>>
    BY <1>7 DEF ChangeHold, SourceCompleted, SessionFallsDue, SourceExpires, runVars
  <2> QED
    BY <1>2, <2>1, RunsSame DEF FilesIInv
<1>8. ASSUME NEW j \in Jobs,
             Work(j) \/ CreateRun(j) \/ MediaFallsDue(j) \/ JobFallsDue(j)
      PROVE  FilesInv'
  BY <1>2, <1>8, WorkOK, ClockOK, OthersOK
<1>9. CASE UNCHANGED vars
  BY <1>2, <1>9, RunsSame DEF vars, runVars, FilesIInv
<1> QED
  BY <1>3, <1>4, <1>5, <1>6, <1>7, <1>8, <1>9 DEF Next

(* Whatever fails, crashes or is retried, with or without the cleanup lock *)
(* (retention takes each run through its own steps and checks its row when *)
(* it marks it): once a media deadline is cleared the media are gone, a    *)
(* row that calls a missing video available has its purge to come, and     *)
(* evidence that is gone was due or belongs to a deleted session.          *)
THEOREM RowsAndFilesAgree == Spec => []RowsFollowFiles
<1>1. Init => FilesIInv
  BY FilesInit
<1>2. FilesIInv /\ [Next]_vars => FilesIInv'
  BY FilesNext
<1>3. FilesIInv => RowsFollowFiles
  BY DEF FilesIInv, FilesInv, RunOK, Lost, RowsFollowFiles
<1> QED
  BY <1>1, <1>2, <1>3, PTL DEF Spec
=============================================================================
