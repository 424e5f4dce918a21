---------------------------- MODULE SessionSource ----------------------------
(***************************************************************************)
(* The one source video of an editing session: its row, its files and the  *)
(* requests that work on them, each under the session's advisory lock.     *)
(* The lock lives on a database connection that the request also uses for  *)
(* its transactions: once the connection is lost the lock is free, the     *)
(* next statement of the request fails, and a request that goes on after   *)
(* that failure talks to a new connection, without the lock.  The files    *)
(* are fenced by nothing but the lock.                                     *)
(*                                                                         *)
(* A byte is the client file it came from, so that content tells the files *)
(* apart; a digest is the content it was computed from.                    *)
(*                                                                         *)
(* Source: src/open_storyline/mvp/session_media.py (SessionMediaStore) and *)
(* what prompt_versions.py, jobs.py and retention.py do with the row.      *)
(***************************************************************************)
EXTENDS Integers, Sequences, FiniteSets

CONSTANTS
    Requests,     \* requests, retention passes and run creations in flight
    Files,        \* videos that clients upload
    Suffixes,     \* file name extensions
    Declared,     \* what a client declares of a file: suffix and size
    MaxChunk,     \* max_chunk_bytes
    Missing,      \* the content of a path with no file
    MaxFaults     \* how often each kind of fault or delay may still happen

FaultKinds == {"abort", "lockLoss", "dbError", "probe", "expiry"}

ASSUME FilesAssumption  == "zero" \notin Files
ASSUME SuffixAssumption == Suffixes \subseteq STRING
                             /\ Suffixes \cap {"part", "dead", "none"} = {}
ASSUME DeclaredAssumption ==
    Declared \in [Files -> [suffix : Suffixes, size : Nat \ {0}]]
ASSUME ChunkAssumption   == MaxChunk \in Nat \ {0}
ASSUME MissingAssumption == Missing \notin Seq(Files \cup {"zero"})
ASSUME FaultsAssumption  == MaxFaults \in [FaultKinds -> Nat]

VARIABLES
    row,        \* the row of session_input_videos
    owner,      \* whether the editing session is deleted
    activeRun,  \* a run on this source is queued or running
    disk,       \* the content behind each path of the input directory
    pc,         \* the next step of each request
    arg,        \* what each request knows
    conn,       \* the state of each request's connection
    handle,     \* the path each request's open file has, "dead" once unlinked
    faults      \* faults left, per kind

rowVars == <<row, owner, activeRun>>
reqVars == <<pc, arg, conn, handle>>
vars    == <<row, owner, activeRun, disk, pc, arg, conn, handle, faults>>

Bytes    == Files \cup {"zero"}       \* "zero" fills a hole in a file
Contents == Seq(Bytes)
Paths    == {"part"} \cup Suffixes
Metas    == {Declared[f] : f \in Files}

Settled   == {"ready", "expired", "deleted"}
RowStates == {"missing", "uploading", "validating", "failed"} \cup Settled

Idle  == [file |-> Missing, meta |-> Missing, from |-> 0, pos |-> 0,
          path |-> "none", digest |-> Missing, reason |-> "none"]
NoRow == [state |-> "missing", meta |-> Missing, received |-> 0,
          purged |-> FALSE, due |-> FALSE, hash |-> Missing, path |-> "none"]

TxnSteps ==
    {"initialize", "status", "append", "record", "complete", "validating",
     "ready", "cancel", "cancelled", "purge", "purged", "run", "create"}
FileSteps == {"open", "write", "candidate", "probe", "replace", "failUnlink",
              "cancelUnlink", "purgeUnlink"}
Steps == TxnSteps \cup FileSteps \cup {"idle", "fail", "hash", "relock"}

TypeOK ==
    /\ row \in [state : RowStates, meta : Metas \cup {Missing}, received : Nat,
                purged : BOOLEAN, due : BOOLEAN,
                hash : Contents \cup {Missing}, path : Suffixes \cup {"none"}]
    /\ owner     \in {"active", "deleted"}
    /\ activeRun \in BOOLEAN
    /\ disk      \in [Paths -> Contents \cup {Missing}]
    /\ pc        \in [Requests -> Steps]
    /\ arg       \in [Requests ->
                        [file : Files \cup {Missing}, meta : Metas \cup {Missing},
                         from : Nat, pos : Nat, path : Paths \cup {"none"},
                         digest : Contents \cup {Missing},
                         reason : {"none", "session_deleted", "expired", "wasReady"}]]
    /\ conn      \in [Requests -> {"closed", "locked", "broken", "fresh"}]
    /\ handle    \in [Requests -> Paths \cup {"none", "dead"}]
    /\ faults    \in [FaultKinds -> Nat]

Init ==
    /\ row       = NoRow
    /\ owner     = "active"
    /\ activeRun = FALSE
    /\ disk      = [p \in Paths |-> Missing]
    /\ pc        = [r \in Requests |-> "idle"]
    /\ arg       = [r \in Requests |-> Idle]
    /\ conn      = [r \in Requests |-> "closed"]
    /\ handle    = [r \in Requests |-> "none"]
    /\ faults    = MaxFaults

Fault(kind) ==
    /\ faults[kind] > 0
    /\ faults' = [faults EXCEPT ![kind] = @ - 1]

-----------------------------------------------------------------------------
(* The lock and the steps of a request.                                    *)

Free == \A r \in Requests : conn[r] # "locked"

Acquire(r) == Free /\ conn' = [conn EXCEPT ![r] = "locked"]

(* The request answers and gives back its lock and its connection.         *)
Answer(r) ==
    /\ pc'   = [pc EXCEPT ![r] = "idle"]
    /\ arg'  = [arg EXCEPT ![r] = Idle]
    /\ conn' = [conn EXCEPT ![r] = "closed"]

Close(r) == Answer(r) /\ handle' = [handle EXCEPT ![r] = "none"]

GoTo(r, step) == pc' = [pc EXCEPT ![r] = step]

(* The statement of a request reaches the database.                        *)
At(r, step)  == pc[r] = step
Txn(r, step) == At(r, step) /\ conn[r] \in {"locked", "fresh"}

-----------------------------------------------------------------------------
(* The files.                                                              *)

Linked(S)   == {p \in S : disk[p] # Missing}
Unlinked(S) == [p \in Paths |-> IF p \in S THEN Missing ELSE disk[p]]
Orphaned(S) == [r \in Requests |-> IF handle[r] \in S THEN "dead" ELSE handle[r]]

Written(content, at, byte) ==
    [i \in 1..(IF at < Len(content) THEN Len(content) ELSE at + 1) |->
        IF i = at + 1 THEN byte
        ELSE IF i <= Len(content) THEN content[i] ELSE "zero"]

Truncated(content, size) ==
    [i \in 1..size |-> IF i <= Len(content) THEN content[i] ELSE "zero"]

Unlink(S) == disk' = Unlinked(S) /\ handle' = Orphaned(S)

(* Writes through a handle reach the file wherever it is linked by now.    *)
Through(r, content) ==
    [p \in Paths |-> IF handle[r] = p THEN content ELSE disk[p]]

SourcePaths(meta) == {"part", meta.suffix}

-----------------------------------------------------------------------------
(* _reconcile_locked: what a transaction makes of the row it reads, and    *)
(* the paths it unlinks on the way.                                        *)

FailedRow == [row EXCEPT !.state = "failed", !.received = 0, !.purged = TRUE]

Reconciled ==
    LET here     == Linked(SourcePaths(row.meta))
        actual   == IF here = {} THEN 0 ELSE Len(disk[CHOOSE p \in here : TRUE])
        diverged == \/ Cardinality(here) > 1
                    \/ row.meta.suffix \in here /\ row.state # "validating"
                    \/ actual > row.meta.size
    IN  IF row.state \in Settled \/ (row.state = "failed" /\ row.purged)
        THEN [row |-> row, unlink |-> {}, ok |-> TRUE]
        ELSE IF diverged
        THEN [row |-> FailedRow, unlink |-> here, ok |-> FALSE]
        ELSE IF actual < row.received
        THEN [row |-> [row EXCEPT !.state = "failed", !.received = actual],
              unlink |-> {}, ok |-> FALSE]
        ELSE [row |-> [row EXCEPT !.received = actual,
                                  !.due = row.due /\ actual = row.received],
              unlink |-> {}, ok |-> TRUE]

(* A transaction that reconciles and then leaves the row as it is.         *)
ReconcileAndClose(r) ==
    /\ row' = Reconciled.row
    /\ Unlink(Reconciled.unlink)
    /\ Answer(r)
    /\ UNCHANGED <<owner, activeRun, faults>>

-----------------------------------------------------------------------------
(* Requests arrive.  A try-lock that fails answers SOURCE_UPLOAD_BUSY and  *)
(* changes nothing.                                                        *)

Begin(r, step, file, reason) ==
    /\ At(r, "idle")
    /\ Acquire(r)
    /\ GoTo(r, step)
    /\ arg' = [arg EXCEPT ![r] = [Idle EXCEPT !.file = file, !.reason = reason]]
    /\ UNCHANGED <<rowVars, disk, handle, faults>>

BeginUpload(r) == \E f \in Files : Begin(r, "initialize", f, "none")
BeginAppend(r) == row.state # "missing" /\ \E f \in Files : Begin(r, "append", f, "none")
BeginOther(r) ==
    /\ row.state # "missing"
    /\ \E step \in {"status", "complete", "cancel", "run"} : Begin(r, step, Missing, "none")
BeginPurge(r) ==
    /\ row.state # "missing"
    /\ ~row.purged
    /\ row.due \/ owner = "deleted"
    /\ ~activeRun
    /\ Begin(r, "purge", Missing,
             IF owner = "deleted" THEN "session_deleted" ELSE "expired")

Status(r) == Txn(r, "status") /\ owner = "active" /\ ReconcileAndClose(r)

-----------------------------------------------------------------------------
(* initialize: a new row, the same upload again, or a failed one restarted *)
(* from nothing.                                                           *)

Uploading(meta) == [NoRow EXCEPT !.state = "uploading", !.meta = meta]

InitializeFirst(r) ==
    /\ Txn(r, "initialize")
    /\ owner = "active"
    /\ row.state = "missing"
    /\ row' = Uploading(Declared[arg[r].file])
    /\ Close(r)
    /\ UNCHANGED <<owner, activeRun, disk, faults>>

InitializeAgain(r) ==
    LET now  == Reconciled.row
        meta == Declared[arg[r].file]
    IN  /\ Txn(r, "initialize")
        /\ owner = "active"
        /\ row.state # "missing"
        /\ IF Reconciled.ok /\ now.state = "failed"
           THEN /\ row' = Uploading(meta)
                /\ Unlink(SourcePaths(now.meta))
           ELSE /\ row' = [now EXCEPT !.due =
                             @ /\ ~( /\ Reconciled.ok
                                     /\ now.state \in {"uploading", "validating"}
                                     /\ now.meta = meta )]
                /\ Unlink(Reconciled.unlink)
        /\ Answer(r)
        /\ UNCHANGED <<owner, activeRun, faults>>

-----------------------------------------------------------------------------
(* append_chunk                                                            *)

AppendLoad(r) ==
    /\ Txn(r, "append")
    /\ owner = "active"
    /\ Reconciled.ok
    /\ Reconciled.row.state = "uploading"
    /\ Reconciled.row.received < row.meta.size
    /\ row' = Reconciled.row
    /\ arg' = [arg EXCEPT ![r].from = Reconciled.row.received,
                          ![r].pos  = Reconciled.row.received,
                          ![r].meta = row.meta]
    /\ GoTo(r, "open")
    /\ UNCHANGED <<owner, activeRun, disk, conn, handle, faults>>

(* Another offset than the row's, or a row that takes no chunk.            *)
AppendRefused(r) == Txn(r, "append") /\ owner = "active" /\ ReconcileAndClose(r)

(* Opening source.part empties it.                                         *)
Open_Truncates(r) ==
    /\ At(r, "open")
    /\ disk'   = [disk EXCEPT !["part"] = <<>>]
    /\ handle' = [handle EXCEPT ![r] = "part"]
    /\ GoTo(r, "write")
    /\ UNCHANGED <<rowVars, arg, conn, faults>>

Open(r) ==
    /\ At(r, "open")
    /\ disk'   = [disk EXCEPT !["part"] = IF @ = Missing THEN <<>> ELSE @]
    /\ handle' = [handle EXCEPT ![r] = "part"]
    /\ GoTo(r, "write")
    /\ UNCHANGED <<rowVars, arg, conn, faults>>

Room(r) == arg[r].pos < arg[r].meta.size /\ arg[r].pos - arg[r].from < MaxChunk

Write(r) ==
    /\ At(r, "write")
    /\ Room(r)
    /\ disk' = Through(r, Written(disk[handle[r]], arg[r].pos, arg[r].file))
    /\ arg'  = [arg EXCEPT ![r].pos = @ + 1]
    /\ UNCHANGED <<rowVars, pc, conn, handle, faults>>

(* The whole file is dropped, not only this chunk.                         *)
RejectChunk_FromStart(r) ==
    /\ At(r, "write")
    /\ ~Room(r)
    /\ disk' = Through(r, Truncated(disk[handle[r]], 0))
    /\ Close(r)
    /\ UNCHANGED <<rowVars, faults>>

(* The client sends more than there is room for.                           *)
RejectChunk(r) ==
    /\ At(r, "write")
    /\ ~Room(r)
    /\ disk' = Through(r, Truncated(disk[handle[r]], arg[r].from))
    /\ Close(r)
    /\ UNCHANGED <<rowVars, faults>>

(* The stream ends, with nothing written, or stalls past its idle timeout. *)
EndOfChunk(r) ==
    /\ At(r, "write")
    /\ arg[r].pos > arg[r].from
    /\ GoTo(r, "record")
    /\ handle' = [handle EXCEPT ![r] = "none"]
    /\ UNCHANGED <<rowVars, disk, arg, conn, faults>>

ChunkTimeout(r) ==
    /\ At(r, "write")
    /\ Close(r)
    /\ UNCHANGED <<rowVars, disk, faults>>

RecordChunk(r) ==
    /\ Txn(r, "record")
    /\ owner = "active"
    /\ row'  = [Reconciled.row EXCEPT
                   !.state = IF Reconciled.ok THEN "uploading" ELSE @,
                   !.due   = FALSE]
    /\ Unlink(Reconciled.unlink)
    /\ Answer(r)
    /\ UNCHANGED <<owner, activeRun, faults>>

-----------------------------------------------------------------------------
(* complete                                                                *)

CompleteLoad(r) ==
    /\ Txn(r, "complete")
    /\ owner = "active"
    /\ Reconciled.ok
    /\ Reconciled.row.state \in {"uploading", "validating"}
    /\ Reconciled.row.received = row.meta.size
    /\ row' = Reconciled.row
    /\ arg' = [arg EXCEPT ![r].meta = row.meta]
    /\ GoTo(r, "candidate")
    /\ UNCHANGED <<owner, activeRun, disk, conn, handle, faults>>

CompleteRefused(r) ==
    /\ Txn(r, "complete")
    /\ owner = "active"
    /\ ~( /\ Reconciled.ok
          /\ Reconciled.row.state \in {"uploading", "validating"}
          /\ Reconciled.row.received = row.meta.size )
    /\ ReconcileAndClose(r)

Candidate(r) ==
    LET final == arg[r].meta.suffix
        path  == IF disk[final] # Missing THEN final ELSE "part"
        whole == disk[path] # Missing /\ Len(disk[path]) = arg[r].meta.size
    IN  /\ At(r, "candidate")
        /\ arg' = [arg EXCEPT ![r].path = path]
        /\ GoTo(r, IF whole THEN "validating" ELSE "failUnlink")
        /\ UNCHANGED <<rowVars, disk, conn, handle, faults>>

SetValidating(r) ==
    /\ Txn(r, "validating")
    /\ row.state \in {"uploading", "validating"}
    /\ row' = [row EXCEPT !.state = "validating"]
    /\ GoTo(r, "probe")
    /\ UNCHANGED <<owner, activeRun, disk, arg, conn, handle, faults>>

ValidatingRefused(r) ==
    /\ Txn(r, "validating")
    /\ row.state \notin {"uploading", "validating"}
    /\ Close(r)
    /\ UNCHANGED <<rowVars, disk, faults>>

(* The prober accepts any bytes that look like a video, or refuses them.   *)
ProbeAndHash(r) ==
    /\ At(r, "probe")
    /\ disk[arg[r].path] # Missing
    /\ arg' = [arg EXCEPT ![r].digest = disk[arg[r].path]]
    /\ GoTo(r, "replace")
    /\ UNCHANGED <<rowVars, disk, conn, handle, faults>>

ProbeRefuses(r) ==
    /\ At(r, "probe")
    /\ IF disk[arg[r].path] # Missing THEN Fault("probe") ELSE UNCHANGED faults
    /\ GoTo(r, "failUnlink")
    /\ UNCHANGED <<rowVars, disk, arg, conn, handle>>

(* The validated bytes are copied, source.part stays.                      *)
Replace_Copy(r) ==
    /\ At(r, "replace")
    /\ disk' = [disk EXCEPT ![arg[r].meta.suffix] = arg[r].digest]
    /\ GoTo(r, "ready")
    /\ UNCHANGED <<rowVars, arg, conn, handle, faults>>

Replace(r) ==
    LET final == arg[r].meta.suffix
    IN  /\ At(r, "replace")
        /\ \/ /\ arg[r].path = final
              /\ GoTo(r, "ready")
              /\ UNCHANGED <<disk, handle>>
           \/ /\ arg[r].path # final
              /\ disk[final] = Missing
              /\ disk["part"] # Missing
              /\ disk'   = [disk EXCEPT ![final] = disk["part"], !["part"] = Missing]
              /\ handle' = [s \in Requests |->
                               IF handle[s] = "part" THEN final ELSE handle[s]]
              /\ GoTo(r, "ready")
           \/ /\ arg[r].path # final
              /\ disk[final] # Missing \/ disk["part"] = Missing
              /\ GoTo(r, "failUnlink")
              /\ UNCHANGED <<disk, handle>>
        /\ UNCHANGED <<rowVars, arg, conn, faults>>

MarkReady(r) ==
    /\ Txn(r, "ready")
    /\ owner = "active"
    /\ row.state = "validating"
    /\ row' = [row EXCEPT !.state = "ready", !.received = row.meta.size,
                          !.hash = arg[r].digest, !.path = arg[r].meta.suffix,
                          !.due = FALSE, !.purged = FALSE]
    /\ Close(r)
    /\ UNCHANGED <<owner, activeRun, disk, faults>>

ReadyRefused(r) ==
    /\ Txn(r, "ready")
    /\ owner = "active"
    /\ row.state # "validating"
    /\ Close(r)
    /\ UNCHANGED <<rowVars, disk, faults>>

(* The renamed file of an earlier attempt is forgotten.                    *)
FailUnlink_PartOnly(r) ==
    /\ At(r, "failUnlink")
    /\ Unlink({"part"})
    /\ GoTo(r, "fail")
    /\ UNCHANGED <<rowVars, arg, conn, faults>>

(* _fail_validation looks the file name up, unlinks, and writes the row in *)
(* a second transaction.  When the lookup fails only source.part goes; a   *)
(* connection lost before it is replaced, without the lock, after it.      *)
FailUnlink(r) ==
    /\ At(r, "failUnlink")
    /\ \/ /\ conn[r] # "broken"
          /\ Unlink(SourcePaths(row.meta))
          /\ UNCHANGED <<conn, faults>>
       \/ /\ IF conn[r] = "broken" THEN UNCHANGED faults ELSE Fault("dbError")
          /\ Unlink({"part"})
          /\ conn'   = [conn EXCEPT ![r] = IF @ = "broken" THEN "fresh" ELSE @]
    /\ GoTo(r, "fail")
    /\ UNCHANGED <<rowVars, arg>>

FailValidation(r) ==
    /\ Txn(r, "fail")
    /\ row' = IF row.state = "ready" THEN row
              ELSE [FailedRow EXCEPT !.hash = Missing, !.path = "none"]
    /\ Close(r)
    /\ UNCHANGED <<owner, activeRun, disk, faults>>

-----------------------------------------------------------------------------
(* A ready source is cancelled like any other.                             *)
CancelLoad_AnyState(r) ==
    /\ Txn(r, "cancel")
    /\ owner = "active"
    /\ Reconciled.ok
    /\ row' = Reconciled.row
    /\ arg' = [arg EXCEPT ![r].meta = row.meta]
    /\ GoTo(r, "cancelUnlink")
    /\ UNCHANGED <<owner, activeRun, disk, conn, handle, faults>>

(* cancel                                                                  *)
CancelLoad(r) ==
    /\ Txn(r, "cancel")
    /\ owner = "active"
    /\ Reconciled.ok
    /\ Reconciled.row.state \notin Settled
    /\ row' = Reconciled.row
    /\ arg' = [arg EXCEPT ![r].meta = row.meta]
    /\ GoTo(r, "cancelUnlink")
    /\ UNCHANGED <<owner, activeRun, disk, conn, handle, faults>>

CancelRefused(r) ==
    /\ Txn(r, "cancel")
    /\ owner = "active"
    /\ ~Reconciled.ok \/ Reconciled.row.state \in Settled
    /\ ReconcileAndClose(r)

(* Only source.part is removed.                                            *)
CancelUnlink_PartOnly(r) ==
    /\ At(r, "cancelUnlink")
    /\ Unlink({"part"})
    /\ GoTo(r, "cancelled")
    /\ UNCHANGED <<rowVars, arg, conn, faults>>

CancelUnlink(r) ==
    /\ At(r, "cancelUnlink")
    /\ Unlink(SourcePaths(arg[r].meta))
    /\ GoTo(r, "cancelled")
    /\ UNCHANGED <<rowVars, arg, conn, faults>>

MarkCancelled(r) ==
    /\ Txn(r, "cancelled")
    /\ owner = "active"
    /\ row' = [FailedRow EXCEPT !.hash = Missing, !.path = "none", !.due = FALSE]
    /\ Close(r)
    /\ UNCHANGED <<owner, activeRun, disk, faults>>

-----------------------------------------------------------------------------
(* purge, by the retention service or the deletion of the session.         *)

PurgeLoad(r) ==
    /\ Txn(r, "purge")
    /\ ~activeRun
    /\ row.due \/ arg[r].reason = "session_deleted"
    /\ ~(row.purged /\ row.state \in {"failed", "expired", "deleted"})
    /\ arg' = [arg EXCEPT ![r].meta = row.meta,
                          ![r].reason = IF @ = "expired" /\ row.state = "ready"
                                        THEN "wasReady" ELSE @]
    /\ GoTo(r, "purgeUnlink")
    /\ UNCHANGED <<rowVars, disk, conn, handle, faults>>

PurgeRefused(r) ==
    /\ Txn(r, "purge")
    /\ \/ activeRun
       \/ ~row.due /\ arg[r].reason # "session_deleted"
       \/ row.purged /\ row.state \in {"failed", "expired", "deleted"}
    /\ Close(r)
    /\ UNCHANGED <<rowVars, disk, faults>>

PurgeUnlink(r) ==
    /\ At(r, "purgeUnlink")
    /\ Unlink(SourcePaths(arg[r].meta))
    /\ GoTo(r, "purged")
    /\ UNCHANGED <<rowVars, arg, conn, faults>>

MarkPurged(r) ==
    /\ Txn(r, "purged")
    /\ row' = [row EXCEPT
                 !.purged = TRUE,
                 !.state = CASE arg[r].reason = "session_deleted" -> "deleted"
                             [] arg[r].reason = "wasReady"        -> "expired"
                             [] OTHER                             -> "failed"]
    /\ Close(r)
    /\ UNCHANGED <<owner, activeRun, disk, faults>>

-----------------------------------------------------------------------------
(* A run on the source: resolved under the lock, hashed without it, and    *)
(* created under it again.  The end of the run renews the source.          *)

Usable       == row.state = "ready" /\ ~row.purged /\ ~row.due
ResolveReady == Usable /\ disk[row.path] # Missing

RunResolve(r) ==
    /\ Txn(r, "run")
    /\ owner = "active"
    /\ ResolveReady
    /\ arg'  = [arg EXCEPT ![r].path = row.path]
    /\ conn' = [conn EXCEPT ![r] = "closed"]
    /\ GoTo(r, "hash")
    /\ UNCHANGED <<rowVars, disk, handle, faults>>

RunUnresolved(r) ==
    /\ Txn(r, "run")
    /\ owner = "active"
    /\ ~ResolveReady
    /\ Close(r)
    /\ UNCHANGED <<rowVars, disk, faults>>

RunHash(r) ==
    /\ At(r, "hash")
    /\ \/ /\ disk[arg[r].path] # Missing
          /\ arg' = [arg EXCEPT ![r].digest = disk[arg[r].path]]
          /\ GoTo(r, "relock")
          /\ UNCHANGED <<conn, handle>>
       \/ /\ disk[arg[r].path] = Missing
          /\ Close(r)
    /\ UNCHANGED <<rowVars, disk, faults>>

RunLock(r) ==
    /\ At(r, "relock")
    /\ Acquire(r)
    /\ GoTo(r, "create")
    /\ UNCHANGED <<rowVars, disk, arg, handle, faults>>

(* The expiry is not looked at again under the lock.                       *)
LockedWorkspace_Expired(r) ==
    row.state = "ready" /\ ~row.purged /\ row.hash = arg[r].digest

LockedWorkspace(r) == Usable /\ row.hash = arg[r].digest

RunCreate(r) ==
    /\ Txn(r, "create")
    /\ owner = "active"
    /\ LockedWorkspace(r)
    /\ ~activeRun
    /\ activeRun' = TRUE
    /\ row' = [row EXCEPT !.due = FALSE]
    /\ Close(r)
    /\ UNCHANGED <<owner, disk, faults>>

RunRefused(r) ==
    /\ Txn(r, "create")
    /\ owner = "active"
    /\ ~LockedWorkspace(r) \/ activeRun
    /\ Close(r)
    /\ UNCHANGED <<rowVars, disk, faults>>

RunEnds ==
    /\ activeRun
    /\ activeRun' = FALSE
    /\ row' = [row EXCEPT !.due = @ /\ ~(row.state = "ready" /\ ~row.purged)]
    /\ UNCHANGED <<owner, disk, reqVars, faults>>

-----------------------------------------------------------------------------
(* What happens around the requests.                                       *)

DeleteSession ==
    /\ owner = "active"
    /\ ~activeRun
    /\ owner' = "deleted"
    /\ UNCHANGED <<row, activeRun, disk, reqVars, faults>>

(* expires_at passes.                                                      *)
Expire ==
    /\ row.state # "missing"
    /\ ~row.due
    /\ Fault("expiry")
    /\ row' = [row EXCEPT !.due = TRUE]
    /\ UNCHANGED <<owner, activeRun, disk, reqVars>>

OwnerGone(r) ==
    /\ \E step \in TxnSteps \ {"validating", "purge", "purged"} : Txn(r, step)
    /\ owner = "deleted"
    /\ Close(r)
    /\ UNCHANGED <<rowVars, disk, faults>>

(* A transaction on a lost connection fails at its first statement; one    *)
(* the database refuses may already have unlinked what it reconciled.      *)
Reconciling == {"initialize", "status", "append", "record", "complete", "cancel"}

TxnFails(r) ==
    /\ pc[r] \in TxnSteps \cup {"fail"}
    /\ \/ conn[r] = "broken" /\ UNCHANGED <<disk, handle, faults>>
       \/ /\ conn[r] # "broken"
          /\ Fault("dbError")
          /\ Unlink(IF pc[r] \in Reconciling /\ row.state # "missing"
                    THEN Reconciled.unlink ELSE {})
    /\ Answer(r)
    /\ UNCHANGED rowVars

LoseLock(r) ==
    /\ conn[r] = "locked"
    /\ Fault("lockLoss")
    /\ conn' = [conn EXCEPT ![r] = "broken"]
    /\ UNCHANGED <<rowVars, disk, pc, arg, handle>>

(* The process serving the request ends.                                   *)
Abort(r) ==
    /\ ~At(r, "idle")
    /\ Fault("abort")
    /\ Close(r)
    /\ UNCHANGED <<rowVars, disk>>

-----------------------------------------------------------------------------
Arrive(r) == BeginUpload(r) \/ BeginAppend(r) \/ BeginOther(r) \/ BeginPurge(r)

Step(r) ==
    \/ Status(r) \/ InitializeFirst(r) \/ InitializeAgain(r)
    \/ AppendLoad(r) \/ AppendRefused(r) \/ Open(r) \/ Write(r)
    \/ RejectChunk(r) \/ EndOfChunk(r) \/ ChunkTimeout(r) \/ RecordChunk(r)
    \/ CompleteLoad(r) \/ CompleteRefused(r) \/ Candidate(r)
    \/ SetValidating(r) \/ ValidatingRefused(r) \/ ProbeAndHash(r)
    \/ ProbeRefuses(r) \/ Replace(r) \/ MarkReady(r) \/ ReadyRefused(r)
    \/ FailUnlink(r) \/ FailValidation(r)
    \/ CancelLoad(r) \/ CancelRefused(r) \/ CancelUnlink(r) \/ MarkCancelled(r)
    \/ PurgeLoad(r) \/ PurgeRefused(r) \/ PurgeUnlink(r) \/ MarkPurged(r)
    \/ RunResolve(r) \/ RunUnresolved(r) \/ RunHash(r) \/ RunLock(r)
    \/ RunCreate(r) \/ RunRefused(r) \/ OwnerGone(r) \/ TxnFails(r)

Disturb(r) == LoseLock(r) \/ Abort(r)

Next ==
    \/ \E r \in Requests : Arrive(r) \/ Step(r) \/ Disturb(r)
    \/ RunEnds \/ DeleteSession \/ Expire

Spec == Init /\ [][Next]_vars

-----------------------------------------------------------------------------
(* What becomes ready is one declared file, every byte once and in its     *)
(* place, however the upload was cut, resumed and retried (append_chunk),  *)
(* as long as all who take part in the upload send the same file: two of   *)
(* the same name, size and type are not told apart (_metadata_matches).  A *)
(* source that is ready, in time and of a live session has these bytes on  *)
(* disk and nothing beside them (_reconcile_locked, complete, purge).      *)
ReadyIntact ==
    row.state = "ready" =>
        /\ \E f \in Files : /\ Declared[f] = row.meta
                            /\ row.hash = [i \in 1..Declared[f].size |-> f]
        /\ ~row.due /\ owner = "active"
              => Linked(Paths) = {row.path} /\ disk[row.path] = row.hash

(* A queued or running run has the validated source it was created on: no  *)
(* purge, upload or cancellation takes it away (purge, RunCreate).         *)
RunKeepsSource ==
    activeRun => row.state = "ready" /\ disk[row.path] = row.hash

(* Once a source counts as purged, no file of it is left that no later     *)
(* purge would look for (purge, cancel, _fail_validation, _reconcile).     *)
PurgedLeavesNothing ==
    row.purged /\ (\A r \in Requests : pc[r] = "idle") => Linked(Paths) = {}

(* A ready source can only expire or be deleted, and keeps its identity,   *)
(* even when requests have lost their lock (complete, append_chunk,        *)
(* cancel, _fail_validation).                                              *)
SourceImmutable ==
    [][row.state = "ready" =>
          /\ row'.state \in Settled
          /\ <<row'.hash, row'.path, row'.meta>> = <<row.hash, row.path, row.meta>>]_row

(* An upload fails because it was cancelled, purged or refused, or because *)
(* an aborted one of these took its files: never because a chunk stalled,  *)
(* was rejected or was cut by a crash (append_chunk, _reconcile_locked).   *)
FailsOnPurpose ==
    [][row.state \in {"uploading", "validating"} /\ row'.state = "failed" =>
          \/ \E r \in Requests : pc[r] \in {"cancelled", "purged", "fail"}
          \/ Linked(Paths) = {}]_row

(* A request that started is carried on, and the retention loop, which     *)
(* only tries the lock, keeps coming back until it gets it.                *)
Fairness ==
    /\ \A r \in Requests : WF_vars(Step(r))
    /\ SF_vars(\E r \in Requests : BeginPurge(r))

LiveSpec == Spec /\ Fairness

(* The files of a deleted session go, though requests may be in the middle *)
(* of them when it is deleted and the purge may be refused (delete_session *)
(* and run of retention.py).                                               *)
DeletedIsPurged ==
    owner = "deleted" ~> Linked(Paths) = {}

-----------------------------------------------------------------------------
(* What an upload has on disk, and whether all that its row records is     *)
(* still there: it is not once a cancellation, a purge or a failed         *)
(* validation has taken the files and has yet to say so.                   *)
InProgress == row.state \in {"uploading", "validating"}

Stored ==
    LET path == IF disk["part"] # Missing THEN "part" ELSE row.meta.suffix
    IN  IF disk[path] = Missing THEN <<>> ELSE disk[path]

Lasting == InProgress /\ row.received <= Len(Stored)

Phase == IF Lasting THEN "open"
         ELSE IF InProgress THEN "failed"
         ELSE IF row.state \in {"expired", "deleted"} THEN "gone"
         ELSE row.state

Acknowledged == IF Lasting THEN SubSeq(Stored, 1, row.received)
                ELSE IF row.state = "ready" THEN row.hash
                ELSE <<>>

(* Acknowledged bytes stay until the upload fails as a whole, whichever    *)
(* requests crash, stall, repeat or come between; no more than one chunk   *)
(* is ever in doubt; and what becomes ready is what was acknowledged       *)
(* (append_chunk, _reconcile_locked, complete, cancel, purge).             *)
RS == INSTANCE ResumableSource
         WITH phase <- Phase, meta <- row.meta, content <- Acknowledged
Resumable == RS!Spec
=============================================================================
