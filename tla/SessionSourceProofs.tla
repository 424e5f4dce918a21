------------------------ MODULE SessionSourceProofs ------------------------
(***************************************************************************)
(* Theorems about SessionSource, for every set of requests and files,      *)
(* every chunk size and every budget of faults of every kind.  Inv types   *)
(* the state; LockInv is what holds of the row even when locks are lost,   *)
(* and gives SourceImmutable; SafeInv relates the row, the files and the   *)
(* requests until the first lock is lost, and gives the other invariants;  *)
(* ChunkInv bounds what of an upload is not recorded, and with it gives    *)
(* the refinement of ResumableSource.                                      *)
(***************************************************************************)
EXTENDS SessionSource, SequenceTheorems, FiniteSetTheorems, TLAPS

RowType == [state : RowStates, meta : Metas \cup {Missing}, received : Nat,
            purged : BOOLEAN, due : BOOLEAN,
            hash : Contents \cup {Missing}, path : Suffixes \cup {"none"}]

ArgType == [file : Files \cup {Missing}, meta : Metas \cup {Missing},
            from : Nat, pos : Nat, path : Paths \cup {"none"},
            digest : Contents \cup {Missing},
            reason : {"none", "session_deleted", "expired", "wasReady"}]

(* What is known of the row, and of what a request carries, at each step.  *)
RowKnown ==
    /\ row.state # "missing" => row.meta \in Metas
    /\ row.state = "ready" => row.path \in Suffixes

NamesFile == {"initialize", "append", "open", "write"}
HasMeta   == {"open", "write", "record", "candidate", "validating", "probe",
              "replace", "ready"}
HasPath   == {"validating", "probe", "replace", "hash"}

ArgKnown ==
    \A r \in Requests :
        /\ pc[r] \notin {"idle", "initialize"} => row.state # "missing"
        /\ pc[r] \in NamesFile => arg[r].file \in Files
        /\ pc[r] \in HasMeta => arg[r].meta \in Metas
        /\ pc[r] \in HasPath => arg[r].path \in Paths

(* An open file that is not unlinked is at the path its handle names.      *)
HandleLinked ==
    \A r \in Requests : handle[r] \in Paths => disk[handle[r]] # Missing

Inv == TypeOK /\ RowKnown /\ ArgKnown /\ HandleLinked

-----------------------------------------------------------------------------
(* The operators.                                                          *)

LEMMA MetaType ==
    ASSUME NEW meta \in Metas
    PROVE  meta.suffix \in Suffixes /\ meta.size \in Nat /\ meta.size > 0
  BY DeclaredAssumption DEF Metas

LEMMA DeclaredType == \A f \in Files : Declared[f] \in Metas
  BY DEF Metas

LEMMA WrittenType ==
    ASSUME NEW content \in Contents, NEW at \in Nat, NEW byte \in Bytes
    PROVE  Written(content, at, byte) \in Contents
<1> DEFINE n == IF at < Len(content) THEN Len(content) ELSE at + 1
           w == Written(content, at, byte)
<1>1. Len(content) \in Nat /\ \A i \in 1..Len(content) : content[i] \in Bytes
  BY LenProperties, ElementOfSeq DEF Contents
<1>2. n \in Nat
  BY <1>1
<1>3. w \in [1..n -> Bytes]
  BY <1>1, <1>2 DEF Written, Bytes
<1> QED
  BY <1>2, <1>3, SeqDef DEF Contents

LEMMA TruncatedType ==
    ASSUME NEW content \in Contents, NEW size \in Nat
    PROVE  Truncated(content, size) \in Contents
<1>1. Len(content) \in Nat /\ \A i \in 1..Len(content) : content[i] \in Bytes
  BY LenProperties, ElementOfSeq DEF Contents
<1>2. Truncated(content, size) \in [1..size -> Bytes]
  BY <1>1 DEF Truncated, Bytes
<1> QED
  BY <1>2, SeqDef DEF Contents

LEMMA ReconciledType ==
    ASSUME TypeOK, RowKnown, row.state # "missing"
    PROVE  /\ Reconciled.row \in RowType
           /\ Reconciled.row.state # "missing"
           /\ Reconciled.row.meta = row.meta
           /\ Reconciled.row.path = row.path
           /\ Reconciled.row.hash = row.hash
           /\ Reconciled.row.state = "ready" <=> row.state = "ready"
           /\ Reconciled.unlink \subseteq Paths
           /\ row.state \in Settled => Reconciled.ok /\ Reconciled.row = row
                                          /\ Reconciled.unlink = {}
<1> DEFINE here == Linked(SourcePaths(row.meta))
           actual == IF here = {} THEN 0 ELSE Len(disk[CHOOSE p \in here : TRUE])
<1>1. here \subseteq Paths /\ \A p \in here : disk[p] \in Contents
  BY MetaType DEF Linked, SourcePaths, Paths, RowKnown, TypeOK
<1>2. actual \in Nat
  <2>1. CASE here = {}
    BY <2>1
  <2>2. CASE here # {}
    <3>1. (CHOOSE p \in here : TRUE) \in here
      BY <2>2
    <3> QED
      BY <2>2, <3>1, <1>1, LenProperties DEF Contents
  <2> QED
    BY <2>1, <2>2
<1>3. row \in RowType
  BY DEF TypeOK, RowType
<1> HIDE DEF here, actual
<1>4. [row EXCEPT !.state = "failed", !.received = actual] \in RowType
  BY <1>2, <1>3 DEF RowType, RowStates
<1>5. [row EXCEPT !.received = actual, !.due = row.due /\ actual = row.received]
         \in RowType
  BY <1>2, <1>3 DEF RowType
<1>6. FailedRow \in RowType
  BY <1>3 DEF FailedRow, RowType, RowStates
<1> DEFINE same == [row |-> row, unlink |-> {}, ok |-> TRUE]
           lost == [row |-> FailedRow, unlink |-> here, ok |-> FALSE]
           short == [row |-> [row EXCEPT !.state = "failed", !.received = actual],
                     unlink |-> {}, ok |-> FALSE]
           kept == [row |-> [row EXCEPT !.received = actual,
                                        !.due = row.due /\ actual = row.received],
                    unlink |-> {}, ok |-> TRUE]
<1>7. /\ Reconciled \in {same, lost, short, kept}
      /\ row.state \in Settled => Reconciled = same
      /\ Reconciled # same => row.state \notin Settled
  BY DEF Reconciled, here, actual
<1>8. CASE Reconciled = same
  BY <1>3, <1>8
<1>9. CASE Reconciled # same
  <2>1. Reconciled.row \in {FailedRow, short.row, kept.row}
    BY <1>7, <1>9
  <2>2. Reconciled.row \in RowType
    BY <1>4, <1>5, <1>6, <2>1
  <2>3. row.state # "ready" /\ row.state # "missing"
    BY <1>7, <1>9 DEF Settled
  <2>4. \A r \in {FailedRow, short.row, kept.row} :
          /\ r.state \in {"failed", row.state}
          /\ r.meta = row.meta /\ r.path = row.path /\ r.hash = row.hash
    BY <1>3 DEF FailedRow, RowType
  <2>5. Reconciled.unlink \subseteq Paths
    BY <1>1, <1>7
  <2> QED
    BY <1>7, <1>9, <2>1, <2>2, <2>3, <2>4, <2>5
<1> QED
  BY <1>8, <1>9

-----------------------------------------------------------------------------
(* The invariant splits into the row, the files and the requests; a step   *)
(* either ends its request or moves it on.                                 *)

RowInv  == row \in RowType /\ RowKnown
DiskInv ==
    /\ disk   \in [Paths -> Contents \cup {Missing}]
    /\ handle \in [Requests -> Paths \cup {"none", "dead"}]
    /\ HandleLinked
ReqInv ==
    /\ pc   \in [Requests -> Steps]
    /\ arg  \in [Requests -> ArgType]
    /\ conn \in [Requests -> {"closed", "locked", "broken", "fresh"}]
    /\ ArgKnown
EnvInv ==
    /\ owner     \in {"active", "deleted"}
    /\ activeRun \in BOOLEAN
    /\ faults    \in [FaultKinds -> Nat]

LEMMA Split == Inv <=> RowInv /\ DiskInv /\ ReqInv /\ EnvInv
  BY DEF Inv, TypeOK, RowInv, DiskInv, ReqInv, EnvInv, RowType, ArgType

LEMMA SplitPrime == Inv' <=> RowInv' /\ DiskInv' /\ ReqInv' /\ EnvInv'
  BY DEF Inv, TypeOK, RowInv, DiskInv, ReqInv, EnvInv, RowType, ArgType

LEMMA IdleType == Idle \in ArgType
  BY DEF Idle, ArgType

LEMMA UnlinkDisk ==
    ASSUME DiskInv, NEW S, Unlink(S)
    PROVE  DiskInv'
<1>1. handle' \in [Requests -> Paths \cup {"none", "dead"}]
  BY DEF DiskInv, Unlink, Orphaned
<1>2. disk' \in [Paths -> Contents \cup {Missing}]
  BY DEF DiskInv, Unlink, Unlinked
<1>3. ASSUME NEW r \in Requests, handle'[r] \in Paths
      PROVE  disk'[handle'[r]] # Missing
  <2>1. handle'[r] = handle[r] /\ handle[r] \notin S
    BY <1>3, SuffixAssumption DEF DiskInv, Unlink, Orphaned, Paths
  <2> QED
    BY <1>3, <2>1 DEF DiskInv, HandleLinked, Unlink, Unlinked
<1> QED
  BY <1>1, <1>2, <1>3 DEF DiskInv, HandleLinked

LEMMA CloseDisk ==
    ASSUME DiskInv, NEW r \in Requests,
           handle' = [handle EXCEPT ![r] = "none"] \/ UNCHANGED handle,
           UNCHANGED disk
    PROVE  DiskInv'
<1>1. "none" \notin Paths
  BY SuffixAssumption DEF Paths
<1> QED
  BY <1>1 DEF DiskInv, HandleLinked

(* Every request but r keeps its step and what it carries.                 *)
LEMMA AnswerReq ==
    ASSUME ReqInv, NEW r \in Requests, Answer(r),
           row.state # "missing" => row'.state # "missing"
    PROVE  ReqInv'
<1>1. /\ pc'   \in [Requests -> Steps]
      /\ conn' \in [Requests -> {"closed", "locked", "broken", "fresh"}]
  BY DEF ReqInv, Answer, Steps
<1>2. arg' \in [Requests -> ArgType]
  BY IdleType DEF ReqInv, Answer
<1>3. ArgKnown'
  BY DEF ReqInv, Answer, ArgKnown, NamesFile, HasMeta, HasPath
<1> QED
  BY <1>1, <1>2, <1>3 DEF ReqInv

LEMMA MoveReq ==
    ASSUME ReqInv, NEW r \in Requests, NEW step \in Steps, NEW a \in ArgType,
           pc' = [pc EXCEPT ![r] = step],
           arg' = [arg EXCEPT ![r] = a],
           conn' \in [Requests -> {"closed", "locked", "broken", "fresh"}],
           row.state # "missing" => row'.state # "missing",
           step \notin {"idle", "initialize"} => row'.state # "missing",
           step \in NamesFile => a.file \in Files,
           step \in HasMeta => a.meta \in Metas,
           step \in HasPath => a.path \in Paths
    PROVE  ReqInv'
<1>1. pc' \in [Requests -> Steps] /\ arg' \in [Requests -> ArgType]
  BY DEF ReqInv
<1>2. ArgKnown'
  <2> SUFFICES ASSUME NEW s \in Requests
               PROVE  /\ pc'[s] \notin {"idle", "initialize"} => row'.state # "missing"
                      /\ pc'[s] \in NamesFile => arg'[s].file \in Files
                      /\ pc'[s] \in HasMeta => arg'[s].meta \in Metas
                      /\ pc'[s] \in HasPath => arg'[s].path \in Paths
    BY DEF ArgKnown
  <2>1. CASE s = r
    BY <2>1 DEF ReqInv
  <2>2. CASE s # r
    BY <2>2 DEF ReqInv, ArgKnown
  <2> QED
    BY <2>1, <2>2
<1> QED
  BY <1>1, <1>2 DEF ReqInv

LEMMA FaultEnv ==
    ASSUME EnvInv, NEW k \in FaultKinds, Fault(k), UNCHANGED <<owner, activeRun>>
    PROVE  EnvInv'
<1>1. faults[k] \in Nat /\ faults[k] - 1 \in Nat
  BY DEF EnvInv, Fault
<1> QED
  BY <1>1 DEF EnvInv, Fault

LEMMA Kinds == {"abort", "lockLoss", "dbError", "probe", "expiry"} \subseteq FaultKinds
  BY DEF FaultKinds

LEMMA ReconciledRow ==
    ASSUME Inv, row.state # "missing"
    PROVE  /\ Reconciled.row \in RowType
           /\ Reconciled.row.state # "missing"
           /\ Reconciled.row.meta \in Metas
           /\ Reconciled.row.state = "ready" => Reconciled.row.path \in Suffixes
           /\ Reconciled.unlink \subseteq Paths
  BY ReconciledType DEF Inv, RowKnown

-----------------------------------------------------------------------------
(* The steps that end their request.                                       *)

LEMMA EndsWithRow ==
    ASSUME Inv, NEW r \in Requests, Answer(r), UNCHANGED <<owner, activeRun, faults>>,
           row' \in RowType, RowKnown',
           row.state # "missing" => row'.state # "missing",
           (\E S : Unlink(S)) \/ (Close(r) /\ UNCHANGED disk)
    PROVE  Inv'
<1>1. ReqInv'
  BY AnswerReq, Split
<1>2. DiskInv'
  <2>1. CASE \E S : Unlink(S)
    BY <2>1, UnlinkDisk, Split
  <2>2. CASE Close(r) /\ UNCHANGED disk
    BY <2>2, CloseDisk, Split DEF Close
  <2> QED
    BY <2>1, <2>2
<1>3. EnvInv'
  BY Split DEF EnvInv
<1> QED
  BY <1>1, <1>2, <1>3, SplitPrime DEF RowInv

LEMMA ReconcileAndCloseInv ==
    ASSUME Inv, NEW r \in Requests, ReconcileAndClose(r), row.state # "missing"
    PROVE  Inv'
<1>1. row' \in RowType /\ RowKnown' /\ row'.state # "missing"
  BY ReconciledRow DEF ReconcileAndClose, RowKnown
<1> QED
  BY <1>1, EndsWithRow DEF ReconcileAndClose

(* A request past its arrival has found a row.                             *)
LEMMA RowThere ==
    ASSUME Inv, NEW r \in Requests, pc[r] \notin {"idle", "initialize"}
    PROVE  row.state # "missing" /\ row.meta \in Metas
  BY DEF Inv, ArgKnown, RowKnown

LEMMA ReconcilersInv ==
    ASSUME Inv, NEW r \in Requests,
           Status(r) \/ AppendRefused(r) \/ CompleteRefused(r) \/ CancelRefused(r)
    PROVE  Inv'
<1>1. pc[r] \notin {"idle", "initialize"} /\ ReconcileAndClose(r)
  BY DEF Status, AppendRefused, CompleteRefused, CancelRefused, Txn, At
<1> QED
  BY <1>1, RowThere, ReconcileAndCloseInv

LEMMA InitializeFirstInv ==
    ASSUME Inv, NEW r \in Requests, InitializeFirst(r)
    PROVE  Inv'
<1>1. Declared[arg[r].file] \in Metas
  BY DeclaredType DEF Inv, ArgKnown, NamesFile, InitializeFirst, Txn, At
<1>2. row' \in RowType /\ RowKnown' /\ row'.state # "missing"
  BY <1>1 DEF InitializeFirst, Uploading, NoRow, RowType, RowStates, RowKnown
<1> QED
  BY <1>2, EndsWithRow DEF InitializeFirst, Close

LEMMA InitializeAgainInv ==
    ASSUME Inv, NEW r \in Requests, InitializeAgain(r)
    PROVE  Inv'
<1>1. Declared[arg[r].file] \in Metas
  BY DeclaredType DEF Inv, ArgKnown, NamesFile, InitializeAgain, Txn, At
<1>2. row.state # "missing"
  BY DEF InitializeAgain
<1>3. row' \in RowType /\ RowKnown' /\ row'.state # "missing"
  <2>1. CASE Reconciled.ok /\ Reconciled.row.state = "failed"
    <3>1. row' = Uploading(Declared[arg[r].file])
      BY <2>1 DEF InitializeAgain
    <3> QED
      BY <1>1, <3>1 DEF Uploading, NoRow, RowType, RowStates, RowKnown
  <2>2. CASE ~(Reconciled.ok /\ Reconciled.row.state = "failed")
    <3>1. PICK d \in BOOLEAN : row' = [Reconciled.row EXCEPT !.due = d]
      <4>1. row' = [Reconciled.row EXCEPT !.due =
                      @ /\ ~( /\ Reconciled.ok
                              /\ Reconciled.row.state \in {"uploading", "validating"}
                              /\ Reconciled.row.meta = Declared[arg[r].file] )]
        BY <2>2 DEF InitializeAgain
      <4> QED
        BY <4>1
    <3> QED
      BY <1>2, <3>1, ReconciledRow DEF RowType, RowKnown
  <2> QED
    BY <2>1, <2>2
<1>4. \E S : Unlink(S)
  BY DEF InitializeAgain
<1> QED
  BY <1>3, <1>4, EndsWithRow DEF InitializeAgain

(* The steps that close the file and leave the row.                        *)
LEMMA RefusalsInv ==
    ASSUME Inv, NEW r \in Requests, Close(r), UNCHANGED <<row, owner, activeRun, disk, faults>>
    PROVE  Inv'
<1>1. row' \in RowType /\ RowKnown'
  BY Split DEF RowInv, RowKnown
<1> QED
  BY <1>1, EndsWithRow DEF Close

LEMMA RefusedInv ==
    ASSUME Inv, NEW r \in Requests,
           \/ ChunkTimeout(r) \/ ValidatingRefused(r) \/ ReadyRefused(r)
           \/ PurgeRefused(r) \/ RunUnresolved(r) \/ RunRefused(r) \/ OwnerGone(r)
    PROVE  Inv'
  BY RefusalsInv DEF ChunkTimeout, ValidatingRefused, ReadyRefused, PurgeRefused,
                     RunUnresolved, RunRefused, OwnerGone, rowVars

(* The transactions that end a request with a new row.                     *)
LEMMA RecordChunkInv ==
    ASSUME Inv, NEW r \in Requests, RecordChunk(r)
    PROVE  Inv'
<1>1. row.state # "missing"
  BY RowThere DEF RecordChunk, Txn, At
<1>2. row' \in RowType /\ RowKnown' /\ row'.state # "missing"
  <2>1. PICK st \in {"uploading", Reconciled.row.state} :
            row' = [Reconciled.row EXCEPT !.state = st, !.due = FALSE]
    BY DEF RecordChunk
  <2> QED
    BY <1>1, <2>1, ReconciledRow DEF RowType, RowKnown, RowStates
<1> QED
  BY <1>2, EndsWithRow DEF RecordChunk

LEMMA MarkReadyInv ==
    ASSUME Inv, NEW r \in Requests, MarkReady(r)
    PROVE  Inv'
<1>1. row.meta \in Metas /\ arg[r].meta \in Metas /\ row \in RowType /\ arg[r] \in ArgType
  BY RowThere, Split DEF MarkReady, Txn, At, Inv, ArgKnown, HasMeta, RowInv, ReqInv
<1>2. row' \in RowType /\ RowKnown' /\ row'.state # "missing"
  BY <1>1, MetaType DEF MarkReady, RowType, ArgType, RowKnown, RowStates, Settled
<1> QED
  BY <1>2, EndsWithRow DEF MarkReady, Close

LEMMA RowMarksInv ==
    ASSUME Inv, NEW r \in Requests,
           FailValidation(r) \/ MarkCancelled(r) \/ MarkPurged(r) \/ RunCreate(r)
    PROVE  row' \in RowType /\ RowKnown' /\ row'.state # "missing"
<1>1. pc[r] \notin {"idle", "initialize"}
  BY DEF FailValidation, MarkCancelled, MarkPurged, RunCreate, Txn, At
<1>2. row \in RowType /\ row.state # "missing" /\ row.meta \in Metas /\ RowKnown
  BY <1>1, RowThere, Split DEF RowInv
<1>3. CASE FailValidation(r)
  BY <1>2, <1>3 DEF FailValidation, FailedRow, RowType, RowKnown, RowStates
<1>4. CASE MarkCancelled(r)
  BY <1>2, <1>4 DEF MarkCancelled, FailedRow, RowType, RowKnown, RowStates
<1>5. CASE MarkPurged(r)
  <2>1. PICK st \in {"deleted", "expired", "failed"} :
            row' = [row EXCEPT !.purged = TRUE, !.state = st]
    BY <1>5 DEF MarkPurged
  <2> QED
    BY <1>2, <2>1 DEF RowType, RowKnown, RowStates, Settled
<1>6. CASE RunCreate(r)
  BY <1>2, <1>6 DEF RunCreate, RowType, RowKnown
<1> QED
  BY <1>3, <1>4, <1>5, <1>6

LEMMA MarksInv ==
    ASSUME Inv, NEW r \in Requests,
           FailValidation(r) \/ MarkCancelled(r) \/ MarkPurged(r)
    PROVE  Inv'
  BY RowMarksInv, EndsWithRow
     DEF FailValidation, MarkCancelled, MarkPurged, Close

(* Steps that also change something else.                                  *)
LEMMA RunCreateInv ==
    ASSUME Inv, NEW r \in Requests, RunCreate(r)
    PROVE  Inv'
<1>1. ReqInv'
  BY RowMarksInv, AnswerReq, Split DEF RunCreate, Close
<1>2. DiskInv'
  BY CloseDisk, Split DEF RunCreate, Close
<1>3. EnvInv'
  BY Split DEF RunCreate, EnvInv
<1> QED
  BY <1>1, <1>2, <1>3, RowMarksInv, SplitPrime DEF RowInv

LEMMA RejectChunkInv ==
    ASSUME Inv, NEW r \in Requests, RejectChunk(r)
    PROVE  Inv'
<1>1. ReqInv'
  BY AnswerReq, Split DEF RejectChunk, Close, rowVars
<1>2. DiskInv'
  <2>1. ASSUME NEW p \in Paths, handle[r] = p
        PROVE  Truncated(disk[handle[r]], arg[r].from) \in Contents
    <3>1. disk[p] \in Contents /\ arg[r].from \in Nat
      BY <2>1, Split DEF DiskInv, HandleLinked, ReqInv, ArgType
    <3> QED
      BY <2>1, <3>1, TruncatedType
  <2>2. Missing \notin Contents /\ "none" \notin Paths
    BY MissingAssumption, SuffixAssumption DEF Contents, Bytes, Paths
  <2>3. disk' \in [Paths -> Contents \cup {Missing}]
    BY <2>1, Split DEF RejectChunk, Through, DiskInv
  <2>4. \A p \in Paths : disk[p] # Missing => disk'[p] # Missing
    BY <2>1, <2>2 DEF RejectChunk, Through
  <2> QED
    BY <2>2, <2>3, <2>4, Split DEF RejectChunk, Close, DiskInv, HandleLinked
<1> QED
  BY <1>1, <1>2, Split, SplitPrime DEF RejectChunk, rowVars, RowInv, RowKnown, EnvInv

LEMMA TxnFailsInv ==
    ASSUME Inv, NEW r \in Requests, TxnFails(r)
    PROVE  Inv'
<1>1. ReqInv'
  BY AnswerReq, Split DEF TxnFails, rowVars
<1>2. DiskInv'
  <2>1. CASE UNCHANGED <<disk, handle>>
    BY <2>1, CloseDisk, Split
  <2>2. CASE \E S : Unlink(S)
    BY <2>2, UnlinkDisk, Split
  <2> QED
    BY <2>1, <2>2 DEF TxnFails
<1>3. EnvInv'
  <2>1. UNCHANGED <<owner, activeRun>>
    BY DEF TxnFails, rowVars
  <2>2. UNCHANGED faults \/ Fault("dbError")
    BY DEF TxnFails
  <2> QED
    BY <2>1, <2>2, FaultEnv, Kinds, Split DEF EnvInv
<1> QED
  BY <1>1, <1>2, <1>3, Split, SplitPrime DEF TxnFails, rowVars, RowInv, RowKnown

LEMMA AbortInv ==
    ASSUME Inv, NEW r \in Requests, Abort(r)
    PROVE  Inv'
<1>1. ReqInv'
  BY AnswerReq, Split DEF Abort, Close, rowVars
<1>2. DiskInv'
  BY CloseDisk, Split DEF Abort, Close
<1>3. EnvInv'
  BY FaultEnv, Kinds, Split DEF Abort, rowVars
<1> QED
  BY <1>1, <1>2, <1>3, Split, SplitPrime DEF Abort, rowVars, RowInv, RowKnown

-----------------------------------------------------------------------------
(* The steps that move a request on.                                       *)

LEMMA KeepsRow ==
    ASSUME RowInv, UNCHANGED row
    PROVE  RowInv'
  BY DEF RowInv, RowKnown

LEMMA KeepsDisk ==
    ASSUME DiskInv, UNCHANGED <<disk, handle>>
    PROVE  DiskInv'
  BY DEF DiskInv, HandleLinked

LEMMA KeepsEnv ==
    ASSUME EnvInv, UNCHANGED <<owner, activeRun, faults>>
    PROVE  EnvInv'
  BY DEF EnvInv

LEMMA BeginInv ==
    ASSUME Inv, NEW r \in Requests,
           NEW step \in Steps \ (HasMeta \cup HasPath \cup {"idle"}),
           NEW file \in Files \cup {Missing},
           NEW reason \in {"none", "session_deleted", "expired"},
           Begin(r, step, file, reason),
           step \in NamesFile => file \in Files,
           step # "initialize" => row.state # "missing"
    PROVE  Inv'
<1>1. [Idle EXCEPT !.file = file, !.reason = reason] \in ArgType
  BY IdleType DEF ArgType
<1>2. [Idle EXCEPT !.file = file, !.reason = reason].file = file
  BY DEF Idle
<1>3. conn' \in [Requests -> {"closed", "locked", "broken", "fresh"}]
  BY Split DEF Begin, Acquire, ReqInv
<1>4. ReqInv'
  BY <1>1, <1>2, <1>3, MoveReq, Split DEF Begin, GoTo, rowVars
<1> QED
  BY <1>4, KeepsRow, KeepsDisk, KeepsEnv, Split, SplitPrime DEF Begin, rowVars

LEMMA ArriveInv ==
    ASSUME Inv, NEW r \in Requests, Arrive(r)
    PROVE  Inv'
<1> USE DEF NamesFile, HasMeta, HasPath, Steps, TxnSteps, FileSteps
<1>1. CASE BeginUpload(r)
  BY <1>1, BeginInv DEF BeginUpload
<1>2. CASE BeginAppend(r)
  BY <1>2, BeginInv DEF BeginAppend
<1>3. CASE BeginOther(r)
  BY <1>3, BeginInv DEF BeginOther
<1>4. CASE BeginPurge(r)
  BY <1>4, BeginInv DEF BeginPurge
<1> QED
  BY <1>1, <1>2, <1>3, <1>4 DEF Arrive

(* A step of r that changes neither the files nor anything outside it.     *)
LEMMA MovesOn ==
    ASSUME Inv, NEW r \in Requests, NEW step \in Steps, NEW a \in ArgType,
           GoTo(r, step), arg' = [arg EXCEPT ![r] = a],
           row' \in RowType, RowKnown', row'.state # "missing",
           UNCHANGED <<owner, activeRun, disk, conn, handle, faults>>,
           step \in NamesFile => a.file \in Files,
           step \in HasMeta => a.meta \in Metas,
           step \in HasPath => a.path \in Paths
    PROVE  Inv'
<1>1. conn' \in [Requests -> {"closed", "locked", "broken", "fresh"}]
  BY Split DEF ReqInv
<1>2. ReqInv'
  BY <1>1, MoveReq, Split DEF GoTo
<1> QED
  BY <1>2, KeepsDisk, KeepsEnv, Split, SplitPrime DEF RowInv

(* What a request in the middle of its steps may rely on.                  *)
LEMMA Middle ==
    ASSUME Inv, NEW r \in Requests, pc[r] \notin {"idle", "initialize"}
    PROVE  /\ row \in RowType /\ RowKnown /\ row.state # "missing" /\ row.meta \in Metas
           /\ arg[r] \in ArgType
           /\ arg = [arg EXCEPT ![r] = arg[r]]
           /\ pc = [pc EXCEPT ![r] = pc[r]]
           /\ pc[r] \in NamesFile => arg[r].file \in Files
           /\ pc[r] \in HasMeta => arg[r].meta \in Metas
           /\ pc[r] \in HasPath => arg[r].path \in Paths
  BY RowThere, Split DEF RowInv, ReqInv, ArgKnown

LEMMA AppendLoadInv ==
    ASSUME Inv, NEW r \in Requests, AppendLoad(r)
    PROVE  Inv'
<1> DEFINE a == [arg[r] EXCEPT !.from = Reconciled.row.received,
                               !.pos  = Reconciled.row.received,
                               !.meta = row.meta]
<1>1. pc[r] = "append"
  BY DEF AppendLoad, Txn, At
<1>2. /\ arg[r] \in ArgType /\ arg[r].file \in Files
      /\ row.meta \in Metas /\ row.state # "missing"
  BY <1>1, Middle DEF NamesFile
<1>3. Reconciled.row \in RowType
  BY <1>2, ReconciledRow
<1>4. a \in ArgType /\ a.file \in Files /\ a.meta \in Metas
  BY <1>2, <1>3 DEF ArgType, RowType
<1>5. arg' = [arg EXCEPT ![r] = a]
  BY DEF AppendLoad
<1>6. row' \in RowType /\ RowKnown' /\ row'.state # "missing"
  BY <1>2, ReconciledRow DEF AppendLoad, RowKnown
<1>7. "open" \in Steps /\ "open" \notin HasPath
  BY DEF Steps, FileSteps, HasPath
<1> QED
  BY <1>4, <1>5, <1>6, <1>7, MovesOn DEF AppendLoad

(* The transactions that load the meta of the row.                         *)
LEMMA LoadsInv ==
    ASSUME Inv, NEW r \in Requests, CompleteLoad(r) \/ CancelLoad(r)
    PROVE  Inv'
<1> DEFINE a == [arg[r] EXCEPT !.meta = row.meta]
<1>1. pc[r] \notin {"idle", "initialize"}
  BY DEF CompleteLoad, CancelLoad, Txn, At
<1>2. a \in ArgType /\ a.meta \in Metas /\ row.state # "missing"
  BY <1>1, Middle DEF ArgType
<1>3. arg' = [arg EXCEPT ![r] = a]
  BY DEF CompleteLoad, CancelLoad
<1>4. row' \in RowType /\ RowKnown' /\ row'.state # "missing"
  BY <1>2, ReconciledRow DEF CompleteLoad, CancelLoad, RowKnown
<1>5. \A step \in {"candidate", "cancelUnlink"} :
         step \in Steps /\ step \notin HasPath \cup NamesFile
  BY DEF Steps, FileSteps, HasPath, NamesFile
<1> QED
  BY <1>2, <1>3, <1>4, <1>5, MovesOn DEF CompleteLoad, CancelLoad

LEMMA OpenInv ==
    ASSUME Inv, NEW r \in Requests, Open(r)
    PROVE  Inv'
<1>1. pc[r] = "open"
  BY DEF Open, At
<1>2. ReqInv'
  <2>1. "write" \in Steps /\ "write" \notin HasPath
    BY DEF Steps, FileSteps, HasPath
  <2>2. arg[r].file \in Files /\ arg[r].meta \in Metas
    BY <1>1, Middle DEF NamesFile, HasMeta
  <2>3. conn' \in [Requests -> {"closed", "locked", "broken", "fresh"}]
    BY Split DEF ReqInv, Open
  <2> QED
    BY <1>1, <2>1, <2>2, <2>3, Middle, MoveReq, Split DEF Open, GoTo, rowVars
<1>3. DiskInv'
  <2>1. "part" \in Paths /\ <<>> \in Contents /\ Missing \notin Contents
    BY MissingAssumption DEF Paths, Contents, Bytes
  <2>2. disk' \in [Paths -> Contents \cup {Missing}]
        /\ handle' \in [Requests -> Paths \cup {"none", "dead"}]
    BY <2>1, Split DEF Open, DiskInv
  <2>3. \A p \in Paths : disk[p] # Missing => disk'[p] # Missing
    BY <2>1, Split DEF Open, DiskInv
  <2>4. disk'["part"] # Missing
    BY <2>1, Split DEF Open, DiskInv
  <2> QED
    BY <2>2, <2>3, <2>4, Split DEF Open, DiskInv, HandleLinked
<1> QED
  BY <1>2, <1>3, KeepsRow, KeepsEnv, Split, SplitPrime DEF Open, rowVars

LEMMA WriteInv ==
    ASSUME Inv, NEW r \in Requests, Write(r)
    PROVE  Inv'
<1> DEFINE a == [arg[r] EXCEPT !.pos = @ + 1]
<1>1. pc[r] = "write"
  BY DEF Write, At
<1>2. arg[r] \in ArgType /\ arg[r].file \in Files /\ arg[r].meta \in Metas
  BY <1>1, Middle DEF NamesFile, HasMeta
<1>3. ReqInv'
  <2>1. a \in ArgType /\ a.file \in Files /\ a.meta \in Metas
    BY <1>2 DEF ArgType
  <2>2. arg' = [arg EXCEPT ![r] = a] /\ pc' = [pc EXCEPT ![r] = "write"]
    BY <1>1, Middle DEF Write
  <2>3. "write" \in Steps /\ "write" \notin HasPath
    BY DEF Steps, FileSteps, HasPath
  <2>4. conn' \in [Requests -> {"closed", "locked", "broken", "fresh"}]
    BY Split DEF ReqInv, Write
  <2>5. row'.state # "missing"
    BY <1>1, Middle DEF Write, rowVars
  <2> HIDE DEF a
  <2> QED
    BY <2>1, <2>2, <2>3, <2>4, <2>5, MoveReq, Split
<1>4. DiskInv'
  <2>1. ASSUME NEW p \in Paths, handle[r] = p
        PROVE  Written(disk[handle[r]], arg[r].pos, arg[r].file) \in Contents
    <3>1. disk[p] \in Contents /\ arg[r].pos \in Nat /\ arg[r].file \in Bytes
      BY <1>2, <2>1, Split DEF DiskInv, HandleLinked, ArgType, Bytes
    <3> QED
      BY <2>1, <3>1, WrittenType
  <2>2. Missing \notin Contents
    BY MissingAssumption DEF Contents, Bytes
  <2>3. disk' \in [Paths -> Contents \cup {Missing}]
    BY <2>1, Split DEF Write, Through, DiskInv
  <2>4. \A p \in Paths : disk[p] # Missing => disk'[p] # Missing
    BY <2>1, <2>2 DEF Write, Through
  <2> QED
    BY <2>3, <2>4, Split DEF Write, DiskInv, HandleLinked
<1> QED
  BY <1>3, <1>4, KeepsRow, KeepsEnv, Split, SplitPrime DEF Write, rowVars

LEMMA EndOfChunkInv ==
    ASSUME Inv, NEW r \in Requests, EndOfChunk(r)
    PROVE  Inv'
<1>1. pc[r] = "write"
  BY DEF EndOfChunk, At
<1>2. ReqInv'
  <2>1. "record" \in Steps /\ "record" \notin HasPath \cup NamesFile
    BY DEF Steps, TxnSteps, HasPath, NamesFile
  <2>2. arg[r].meta \in Metas
    BY <1>1, Middle DEF HasMeta
  <2>3. conn' \in [Requests -> {"closed", "locked", "broken", "fresh"}]
    BY Split DEF ReqInv, EndOfChunk
  <2> QED
    BY <1>1, <2>1, <2>2, <2>3, Middle, MoveReq, Split DEF EndOfChunk, GoTo, rowVars
<1>3. DiskInv'
  BY CloseDisk, Split DEF EndOfChunk
<1> QED
  BY <1>2, <1>3, KeepsRow, KeepsEnv, Split, SplitPrime DEF EndOfChunk, rowVars

(* The steps of complete that only look at the files.                      *)
LEMMA CandidateInv ==
    ASSUME Inv, NEW r \in Requests, Candidate(r)
    PROVE  Inv'
<1>1. pc[r] = "candidate"
  BY DEF Candidate, At
<1>2. arg[r] \in ArgType /\ arg[r].meta \in Metas
  BY <1>1, Middle DEF HasMeta
<1>3. PICK path \in Paths : arg' = [arg EXCEPT ![r].path = path]
  <2>1. arg[r].meta.suffix \in Paths /\ "part" \in Paths
    BY <1>2, MetaType DEF Paths
  <2> QED
    BY <2>1 DEF Candidate
<1>4. PICK step \in {"validating", "failUnlink"} : GoTo(r, step)
  BY DEF Candidate
<1> DEFINE a == [arg[r] EXCEPT !.path = path]
<1>5. a \in ArgType /\ a.meta \in Metas /\ a.path \in Paths
  BY <1>2 DEF ArgType
<1>6. step \in Steps /\ step \notin NamesFile
  BY DEF Steps, TxnSteps, FileSteps, NamesFile
<1>7. row' \in RowType /\ RowKnown' /\ row'.state # "missing"
  BY <1>1, Middle DEF Candidate, rowVars, RowKnown
<1>8. UNCHANGED <<owner, activeRun, disk, conn, handle, faults>>
  BY DEF Candidate, rowVars
<1>9. arg' = [arg EXCEPT ![r] = a]
  BY <1>3
<1> HIDE DEF a
<1> QED
  BY <1>4, <1>5, <1>6, <1>7, <1>8, <1>9, MovesOn

LEMMA SetValidatingInv ==
    ASSUME Inv, NEW r \in Requests, SetValidating(r)
    PROVE  Inv'
<1>1. pc[r] = "validating"
  BY DEF SetValidating, Txn, At
<1>2. /\ arg[r] \in ArgType /\ arg[r].meta \in Metas /\ arg[r].path \in Paths
      /\ arg' = [arg EXCEPT ![r] = arg[r]]
  BY <1>1, Middle DEF HasMeta, HasPath, SetValidating
<1>3. row' \in RowType /\ RowKnown' /\ row'.state # "missing"
  BY <1>1, Middle DEF SetValidating, RowType, RowStates, RowKnown
<1>4. "probe" \in Steps /\ "probe" \notin NamesFile
  BY DEF Steps, FileSteps, NamesFile
<1> QED
  BY <1>2, <1>3, <1>4, MovesOn DEF SetValidating

LEMMA ProbeAndHashInv ==
    ASSUME Inv, NEW r \in Requests, ProbeAndHash(r)
    PROVE  Inv'
<1> DEFINE a == [arg[r] EXCEPT !.digest = disk[arg[r].path]]
<1>1. pc[r] = "probe"
  BY DEF ProbeAndHash, At
<1>2. arg[r] \in ArgType /\ arg[r].meta \in Metas /\ arg[r].path \in Paths
  BY <1>1, Middle DEF HasMeta, HasPath
<1>3. disk[arg[r].path] \in Contents
  BY <1>2, Split DEF ProbeAndHash, DiskInv
<1>4. a \in ArgType /\ a.meta \in Metas /\ a.path \in Paths
  BY <1>2, <1>3 DEF ArgType
<1>5. row' \in RowType /\ RowKnown' /\ row'.state # "missing"
  BY <1>1, Middle DEF ProbeAndHash, rowVars, RowKnown
<1>6. "replace" \in Steps /\ "replace" \notin NamesFile
  BY DEF Steps, FileSteps, NamesFile
<1>7. /\ arg' = [arg EXCEPT ![r] = a] /\ GoTo(r, "replace")
      /\ UNCHANGED <<owner, activeRun, disk, conn, handle, faults>>
  BY DEF ProbeAndHash, rowVars
<1> HIDE DEF a
<1> QED
  BY <1>4, <1>5, <1>6, <1>7, MovesOn

LEMMA ProbeRefusesInv ==
    ASSUME Inv, NEW r \in Requests, ProbeRefuses(r)
    PROVE  Inv'
<1>1. pc[r] = "probe"
  BY DEF ProbeRefuses, At
<1>2. ReqInv'
  <2>1. /\ "failUnlink" \in Steps
        /\ "failUnlink" \notin HasPath \cup NamesFile \cup HasMeta
    BY DEF Steps, FileSteps, HasPath, NamesFile, HasMeta
  <2>2. conn' \in [Requests -> {"closed", "locked", "broken", "fresh"}]
    BY Split DEF ReqInv, ProbeRefuses
  <2> QED
    BY <1>1, <2>1, <2>2, Middle, MoveReq, Split DEF ProbeRefuses, GoTo, rowVars
<1>3. EnvInv'
  <2>1. UNCHANGED faults \/ Fault("probe")
    BY DEF ProbeRefuses
  <2>2. UNCHANGED <<owner, activeRun>>
    BY DEF ProbeRefuses, rowVars
  <2> QED
    BY <2>1, <2>2, FaultEnv, Kinds, Split DEF EnvInv
<1> QED
  BY <1>2, <1>3, KeepsRow, KeepsDisk, Split, SplitPrime DEF ProbeRefuses, rowVars

LEMMA ReplaceInv ==
    ASSUME Inv, NEW r \in Requests, Replace(r)
    PROVE  Inv'
<1> DEFINE final == arg[r].meta.suffix
<1>1. pc[r] = "replace"
  BY DEF Replace, At
<1>2. arg[r].meta \in Metas /\ final \in Suffixes /\ final \in Paths /\ "part" \in Paths
  BY <1>1, Middle, MetaType DEF HasMeta, Paths
<1>3. ReqInv'
  <2>1. \A step \in {"ready", "failUnlink"} :
           step \in Steps /\ step \notin HasPath \cup NamesFile
    BY DEF Steps, TxnSteps, FileSteps, HasPath, NamesFile
  <2>2. conn' \in [Requests -> {"closed", "locked", "broken", "fresh"}]
    BY Split DEF ReqInv, Replace
  <2>3. PICK step \in {"ready", "failUnlink"} : pc' = [pc EXCEPT ![r] = step]
    BY DEF Replace, GoTo
  <2> QED
    BY <1>1, <1>2, <2>1, <2>2, <2>3, Middle, MoveReq, Split DEF Replace, rowVars
<1>4. DiskInv'
  <2>1. CASE UNCHANGED <<disk, handle>>
    BY <2>1, KeepsDisk, Split
  <2>2. CASE /\ disk[final] = Missing
             /\ disk["part"] # Missing
             /\ disk'   = [disk EXCEPT ![final] = disk["part"], !["part"] = Missing]
             /\ handle' = [s \in Requests |->
                              IF handle[s] = "part" THEN final ELSE handle[s]]
    <3>1. final # "part"
      BY <1>2, SuffixAssumption
    <3>2. disk' \in [Paths -> Contents \cup {Missing}]
      BY <1>2, <2>2, Split DEF DiskInv
    <3>3. handle' \in [Requests -> Paths \cup {"none", "dead"}]
      BY <1>2, <2>2, Split DEF DiskInv
    <3>4. disk'[final] # Missing
      BY <1>2, <2>2, <3>1, Split DEF DiskInv
    <3>5. \A p \in Paths \ {"part"} : disk[p] # Missing => disk'[p] # Missing
      BY <1>2, <2>2, <3>4, Split DEF DiskInv
    <3>6. ASSUME NEW s \in Requests, handle'[s] \in Paths
          PROVE  disk'[handle'[s]] # Missing
      <4>1. CASE handle[s] = "part"
        BY <2>2, <3>4, <4>1
      <4>2. CASE handle[s] # "part"
        BY <2>2, <3>5, <3>6, <4>2, Split DEF DiskInv, HandleLinked
      <4> QED
        BY <4>1, <4>2
    <3> QED
      BY <3>2, <3>3, <3>6 DEF DiskInv, HandleLinked
  <2> QED
    BY <2>1, <2>2 DEF Replace
<1> QED
  BY <1>3, <1>4, KeepsRow, KeepsEnv, Split, SplitPrime DEF Replace, rowVars

(* The steps that unlink files and go on.                                  *)
LEMMA UnlinksOn ==
    ASSUME Inv, NEW r \in Requests, pc[r] \notin {"idle", "initialize"},
           NEW step \in {"fail", "cancelled", "purged"},
           GoTo(r, step), NEW S, Unlink(S), UNCHANGED <<rowVars, arg>>,
           conn' \in [Requests -> {"closed", "locked", "broken", "fresh"}],
           UNCHANGED faults \/ Fault("dbError")
    PROVE  Inv'
<1>1. ReqInv'
  <2>1. step \in Steps /\ step \notin NamesFile \cup HasMeta \cup HasPath
    BY DEF Steps, TxnSteps, NamesFile, HasMeta, HasPath
  <2>2. arg[r] \in ArgType /\ arg' = [arg EXCEPT ![r] = arg[r]]
        /\ row.state # "missing" /\ row' = row
    BY Middle DEF rowVars
  <2> QED
    BY <2>1, <2>2, MoveReq, Split DEF GoTo
<1>2. EnvInv'
  BY FaultEnv, Kinds, Split DEF EnvInv, rowVars
<1> QED
  BY <1>1, <1>2, UnlinkDisk, KeepsRow, Split, SplitPrime DEF rowVars

LEMMA UnlinksInv ==
    ASSUME Inv, NEW r \in Requests, FailUnlink(r) \/ CancelUnlink(r) \/ PurgeUnlink(r)
    PROVE  Inv'
<1>1. pc[r] \notin {"idle", "initialize"}
  BY DEF FailUnlink, CancelUnlink, PurgeUnlink, At
<1>2. conn' \in [Requests -> {"closed", "locked", "broken", "fresh"}]
  BY Split DEF ReqInv, FailUnlink, CancelUnlink, PurgeUnlink
<1>3. PICK S : Unlink(S)
  BY DEF FailUnlink, CancelUnlink, PurgeUnlink
<1>4. PICK step \in {"fail", "cancelled", "purged"} : GoTo(r, step)
  BY DEF FailUnlink, CancelUnlink, PurgeUnlink
<1>5. UNCHANGED <<rowVars, arg>> /\ (UNCHANGED faults \/ Fault("dbError"))
  BY DEF FailUnlink, CancelUnlink, PurgeUnlink
<1> QED
  BY <1>1, <1>2, <1>3, <1>4, <1>5, UnlinksOn

LEMMA PurgeLoadInv ==
    ASSUME Inv, NEW r \in Requests, PurgeLoad(r)
    PROVE  Inv'
<1>1. pc[r] = "purge"
  BY DEF PurgeLoad, Txn, At
<1> DEFINE reason == IF arg[r].reason = "expired" /\ row.state = "ready"
                     THEN "wasReady" ELSE arg[r].reason
           a == [arg[r] EXCEPT !.meta = row.meta, !.reason = reason]
<1>2. arg' = [arg EXCEPT ![r] = a]
  BY <1>1, Middle, Split DEF PurgeLoad, ReqInv, ArgType
<1>3. a \in ArgType
  BY <1>1, Middle DEF ArgType
<1>4. row' \in RowType /\ RowKnown' /\ row'.state # "missing"
  BY <1>1, Middle DEF PurgeLoad, rowVars, RowKnown
<1>5. /\ "purgeUnlink" \in Steps
      /\ "purgeUnlink" \notin NamesFile \cup HasMeta \cup HasPath
  BY DEF Steps, FileSteps, NamesFile, HasMeta, HasPath
<1>6. /\ arg' = [arg EXCEPT ![r] = a] /\ GoTo(r, "purgeUnlink")
      /\ UNCHANGED <<owner, activeRun, disk, conn, handle, faults>>
  BY <1>2 DEF PurgeLoad, rowVars
<1> HIDE DEF a
<1> QED
  BY <1>3, <1>4, <1>5, <1>6, MovesOn

(* The steps of a run creation.                                            *)
LEMMA RunResolveInv ==
    ASSUME Inv, NEW r \in Requests, RunResolve(r)
    PROVE  Inv'
<1> DEFINE a == [arg[r] EXCEPT !.path = row.path]
<1>1. pc[r] = "run"
  BY DEF RunResolve, Txn, At
<1>2. row.path \in Paths
  BY <1>1, Middle DEF RunResolve, ResolveReady, Usable, RowKnown, Paths
<1>3. a \in ArgType /\ a.path \in Paths
  BY <1>1, <1>2, Middle DEF ArgType
<1>4. "hash" \in Steps /\ "hash" \notin NamesFile \cup HasMeta
  BY DEF Steps, NamesFile, HasMeta
<1>5. conn' \in [Requests -> {"closed", "locked", "broken", "fresh"}]
  BY Split DEF ReqInv, RunResolve
<1>6. /\ arg' = [arg EXCEPT ![r] = a] /\ pc' = [pc EXCEPT ![r] = "hash"]
      /\ row' = row /\ row.state # "missing"
  BY <1>1, Middle DEF RunResolve, GoTo, rowVars
<1>7. ReqInv'
  <2> HIDE DEF a
  <2> QED
    BY <1>3, <1>4, <1>5, <1>6, MoveReq, Split
<1> QED
  BY <1>7, KeepsRow, KeepsDisk, KeepsEnv, Split, SplitPrime DEF RunResolve, rowVars

LEMMA RunHashInv ==
    ASSUME Inv, NEW r \in Requests, RunHash(r)
    PROVE  Inv'
<1>1. pc[r] = "hash"
  BY DEF RunHash, At
<1>2. CASE Close(r)
  BY <1>2, RefusalsInv DEF RunHash, rowVars
<1>3. CASE /\ disk[arg[r].path] # Missing
           /\ arg' = [arg EXCEPT ![r].digest = disk[arg[r].path]]
           /\ GoTo(r, "relock")
           /\ UNCHANGED <<conn, handle>>
  <2> DEFINE a == [arg[r] EXCEPT !.digest = disk[arg[r].path]]
  <2>1. disk[arg[r].path] \in Contents
    BY <1>1, <1>3, Middle, Split DEF HasPath, DiskInv
  <2>2. a \in ArgType
    BY <1>1, <2>1, Middle DEF ArgType
  <2>3. row' \in RowType /\ RowKnown' /\ row'.state # "missing"
    BY <1>1, Middle DEF RunHash, rowVars, RowKnown
  <2>4. "relock" \in Steps /\ "relock" \notin NamesFile \cup HasMeta \cup HasPath
    BY DEF Steps, NamesFile, HasMeta, HasPath
  <2>5. /\ arg' = [arg EXCEPT ![r] = a]
        /\ UNCHANGED <<owner, activeRun, disk, conn, handle, faults>>
    BY <1>3 DEF RunHash, rowVars
  <2> HIDE DEF a
  <2> QED
    BY <1>3, <2>2, <2>3, <2>4, <2>5, MovesOn
<1> QED
  BY <1>2, <1>3 DEF RunHash

LEMMA RunLockInv ==
    ASSUME Inv, NEW r \in Requests, RunLock(r)
    PROVE  Inv'
<1>1. pc[r] = "relock"
  BY DEF RunLock, At
<1>2. ReqInv'
  <2>1. "create" \in Steps /\ "create" \notin NamesFile \cup HasMeta \cup HasPath
    BY DEF Steps, TxnSteps, NamesFile, HasMeta, HasPath
  <2>2. conn' \in [Requests -> {"closed", "locked", "broken", "fresh"}]
    BY Split DEF ReqInv, RunLock, Acquire
  <2> QED
    BY <1>1, <2>1, <2>2, Middle, MoveReq, Split DEF RunLock, GoTo, rowVars
<1> QED
  BY <1>2, KeepsRow, KeepsDisk, KeepsEnv, Split, SplitPrime DEF RunLock, rowVars

LEMMA LoseLockInv ==
    ASSUME Inv, NEW r \in Requests, LoseLock(r)
    PROVE  Inv'
<1>1. ReqInv'
  BY Split DEF LoseLock, ReqInv, ArgKnown, rowVars
<1>2. EnvInv'
  BY FaultEnv, Kinds, Split DEF LoseLock, rowVars
<1> QED
  BY <1>1, <1>2, KeepsRow, KeepsDisk, Split, SplitPrime DEF LoseLock, rowVars

(* What happens around the requests.                                       *)
LEMMA AroundInv ==
    ASSUME Inv, RunEnds \/ DeleteSession \/ Expire
    PROVE  Inv'
<1>1. PICK due \in BOOLEAN : row' = [row EXCEPT !.due = due]
  BY Split DEF RunEnds, DeleteSession, Expire, RowInv, RowType
<1>2. RowInv' /\ row'.state = row.state
  BY <1>1, Split DEF RowInv, RowType, RowKnown
<1>3. UNCHANGED <<disk, reqVars>>
  BY DEF RunEnds, DeleteSession, Expire
<1>4. ReqInv'
  BY <1>2, <1>3, Split DEF reqVars, ReqInv, ArgKnown
<1>5. EnvInv'
  <2>1. CASE Expire
    BY <2>1, FaultEnv, Kinds, Split DEF Expire
  <2>2. CASE RunEnds \/ DeleteSession
    BY <2>2, Split DEF RunEnds, DeleteSession, EnvInv
  <2> QED
    BY <2>1, <2>2
<1> QED
  BY <1>2, <1>3, <1>4, <1>5, KeepsDisk, Split, SplitPrime DEF reqVars

-----------------------------------------------------------------------------
(* The invariant holds initially and every step keeps it.                  *)

LEMMA InitInv == Init => Inv
<1> SUFFICES ASSUME Init PROVE Inv
  OBVIOUS
<1>1. RowInv
  BY DEF Init, NoRow, RowInv, RowType, RowStates, RowKnown
<1>2. DiskInv
  BY SuffixAssumption DEF Init, DiskInv, HandleLinked, Paths
<1>3. ReqInv
  BY IdleType DEF Init, ReqInv, ArgKnown, Steps, NamesFile, HasMeta, HasPath
<1>4. EnvInv
  BY FaultsAssumption DEF Init, EnvInv
<1> QED
  BY <1>1, <1>2, <1>3, <1>4, Split

LEMMA StepInv ==
    ASSUME Inv, NEW r \in Requests, Step(r)
    PROVE  Inv'
  BY ReconcilersInv, InitializeFirstInv, InitializeAgainInv, AppendLoadInv,
     OpenInv, WriteInv, RejectChunkInv, EndOfChunkInv, RefusedInv,
     RecordChunkInv, LoadsInv, CandidateInv, SetValidatingInv, ProbeAndHashInv,
     ProbeRefusesInv, ReplaceInv, MarkReadyInv, UnlinksInv, MarksInv,
     PurgeLoadInv, RunResolveInv, RunHashInv, RunLockInv, RunCreateInv,
     TxnFailsInv DEF Step

LEMMA StutterInv == Inv /\ UNCHANGED vars => Inv'
<1> SUFFICES ASSUME Inv, UNCHANGED vars PROVE Inv'
  OBVIOUS
<1>1. ReqInv'
  BY Split DEF vars, ReqInv, ArgKnown
<1> QED
  BY <1>1, KeepsRow, KeepsDisk, KeepsEnv, Split, SplitPrime DEF vars

LEMMA NextInv == Inv /\ [Next]_vars => Inv'
<1> SUFFICES ASSUME Inv, [Next]_vars PROVE Inv'
  OBVIOUS
<1>1. ASSUME NEW r \in Requests, Arrive(r) \/ Step(r) \/ Disturb(r) PROVE Inv'
  BY <1>1, ArriveInv, StepInv, LoseLockInv, AbortInv DEF Disturb
<1> QED
  BY <1>1, AroundInv, StutterInv DEF Next

(* Whatever the faults, the row, the requests and the files stay within    *)
(* their types, a request past its arrival finds a row, and an open file   *)
(* that is not unlinked is where its handle says.                          *)
THEOREM SourceTypeCorrect == Spec => []TypeOK
<1>1. Inv => TypeOK
  BY DEF Inv
<1> QED
  BY <1>1, InitInv, NextInv, PTL DEF Spec

-----------------------------------------------------------------------------
(* The lock.  It is enough to know of the holder: a request whose          *)
(* connection broke commits nothing any more, except for the failure of a  *)
(* validation on a fresh connection, which leaves a ready row alone.       *)

Uploads == {"open", "write", "record", "candidate", "validating", "probe",
            "replace", "ready", "failUnlink", "cancelUnlink", "cancelled"}

OneHolder ==
    \A r, s \in Requests : conn[r] = "locked" /\ conn[s] = "locked" => r = s

FreshFails == \A r \in Requests : conn[r] = "fresh" => pc[r] = "fail"

UploadsAlone ==
    \A r \in Requests :
        conn[r] = "locked" /\ pc[r] \in Uploads => row.state # "ready"

PurgesKnown ==
    \A r \in Requests :
        /\ pc[r] = "purge" => arg[r].reason \in {"session_deleted", "expired"}
        /\ conn[r] = "locked" /\ pc[r] \in {"purgeUnlink", "purged"} /\ row.state = "ready"
              => arg[r].reason \in {"session_deleted", "wasReady"}

LockInv == OneHolder /\ FreshFails /\ UploadsAlone /\ PurgesKnown

(* What a step of r has to show: the other requests are not affected       *)
(* unless the row becomes ready, and only the holder makes it so.          *)
Others(r) ==
    \A s \in Requests \ {r} : pc'[s] = pc[s] /\ arg'[s] = arg[s] /\ conn'[s] = conn[s]

LEMMA LockFrame ==
    ASSUME LockInv, NEW r \in Requests, Others(r),
           conn'[r] = "locked" => conn[r] = "locked" \/ Free,
           conn'[r] = "fresh" => pc'[r] = "fail",
           conn'[r] = "locked" /\ pc'[r] \in Uploads => row'.state # "ready",
           pc'[r] = "purge" => arg'[r].reason \in {"session_deleted", "expired"},
           conn'[r] = "locked" /\ pc'[r] \in {"purgeUnlink", "purged"} /\ row'.state = "ready"
              => arg'[r].reason \in {"session_deleted", "wasReady"},
           row'.state = "ready" => row.state = "ready" \/ conn[r] = "locked"
    PROVE  LockInv'
<1>1. OneHolder'
  BY DEF LockInv, OneHolder, Others, Free
<1>2. FreshFails'
  BY DEF LockInv, FreshFails, Others
<1>3. ASSUME NEW s \in Requests \ {r}, conn[s] = "locked", row'.state = "ready"
      PROVE  row.state = "ready"
  BY <1>3 DEF LockInv, OneHolder
<1>4. UploadsAlone'
  BY <1>3 DEF LockInv, UploadsAlone, Others
<1>5. PurgesKnown'
  BY <1>3 DEF LockInv, PurgesKnown, Others
<1> QED
  BY <1>1, <1>2, <1>4, <1>5 DEF LockInv

(* A request that answers; only the holder makes the row ready.            *)
LEMMA AnswerLock ==
    ASSUME Inv, LockInv, NEW r \in Requests, Answer(r),
           row'.state = "ready" => row.state = "ready" \/ conn[r] = "locked"
    PROVE  LockInv'
<1>1. Others(r) /\ pc'[r] = "idle" /\ conn'[r] = "closed"
  BY Split DEF Answer, Others, ReqInv
<1> QED
  BY <1>1, LockFrame DEF Uploads

(* A statement that reaches the database is the holder's, but for one.     *)
LEMMA TxnLocked ==
    ASSUME LockInv, NEW r \in Requests, NEW step, Txn(r, step), step # "fail"
    PROVE  conn[r] = "locked"
  BY DEF LockInv, FreshFails, Txn, At

LEMMA ReconciledState ==
    ASSUME Inv, row.state # "missing"
    PROVE  /\ Reconciled.row.state = "ready" <=> row.state = "ready"
           /\ row.state \in Settled => Reconciled.row = row
           /\ row.state \in Settled => Reconciled.ok /\ Reconciled.unlink = {}
  BY ReconciledType DEF Inv

LEMMA ReconcilersLock ==
    ASSUME Inv, LockInv, NEW r \in Requests,
           Status(r) \/ AppendRefused(r) \/ CompleteRefused(r) \/ CancelRefused(r)
    PROVE  LockInv'
<1>1. pc[r] \notin {"idle", "initialize"} /\ ReconcileAndClose(r)
  BY DEF Status, AppendRefused, CompleteRefused, CancelRefused, Txn, At
<1> QED
  BY <1>1, RowThere, ReconciledState, AnswerLock DEF ReconcileAndClose

LEMMA RowEndsLock ==
    ASSUME Inv, LockInv, NEW r \in Requests,
           \/ InitializeFirst(r) \/ InitializeAgain(r) \/ RecordChunk(r)
           \/ MarkReady(r) \/ FailValidation(r) \/ MarkCancelled(r)
           \/ MarkPurged(r) \/ RunCreate(r)
    PROVE  LockInv'
<1>1. Answer(r)
  BY DEF InitializeFirst, InitializeAgain, RecordChunk, MarkReady, FailValidation,
         MarkCancelled, MarkPurged, RunCreate, Close
<1>2. CASE FailValidation(r)
  <2>1. row'.state = "ready" => row.state = "ready"
    BY <1>2, Split DEF FailValidation, FailedRow, RowInv, RowType
  <2> QED
    BY <1>1, <2>1, AnswerLock
<1>3. CASE ~FailValidation(r)
  <2>1. conn[r] = "locked"
    BY <1>3, TxnLocked DEF InitializeFirst, InitializeAgain, RecordChunk, MarkReady,
                    MarkCancelled, MarkPurged, RunCreate
  <2> QED
    BY <1>1, <2>1, AnswerLock
<1> QED
  BY <1>2, <1>3

LEMMA KeptRowEndsLock ==
    ASSUME Inv, LockInv, NEW r \in Requests,
           \/ ChunkTimeout(r) \/ ValidatingRefused(r) \/ ReadyRefused(r)
           \/ PurgeRefused(r) \/ RunUnresolved(r) \/ RunRefused(r) \/ OwnerGone(r)
           \/ RejectChunk(r) \/ TxnFails(r) \/ Abort(r)
    PROVE  LockInv'
<1>1. Answer(r) /\ row' = row
  BY DEF ChunkTimeout, ValidatingRefused, ReadyRefused, PurgeRefused, RunUnresolved,
         RunRefused, OwnerGone, RejectChunk, TxnFails, Abort, Close, rowVars
<1> QED
  BY <1>1, AnswerLock

(* Moves within an upload, a completion or a cancellation.                 *)
LEMMA UploadMoves ==
    ASSUME Inv, LockInv, NEW r \in Requests, pc[r] \in Uploads,
           NEW step \in Uploads \cup {"fail"}, pc' = [pc EXCEPT ![r] = step],
           Others(r),
           \/ conn' = conn
           \/ step = "fail" /\ (conn'[r] = "locked" => conn[r] = "locked"),
           row'.state = "ready" => row.state = "ready"
    PROVE  LockInv'
<1>1. pc'[r] = step
  BY Split DEF ReqInv
<1>2. conn'[r] = "locked" => conn[r] = "locked" /\ row'.state # "ready"
  BY DEF LockInv, UploadsAlone
<1>3. conn'[r] = "fresh" => step = "fail"
  BY DEF LockInv, FreshFails, Uploads
<1> QED
  BY <1>1, <1>2, <1>3, LockFrame DEF Uploads

LEMMA UploadsLock ==
    ASSUME Inv, LockInv, NEW r \in Requests,
           \/ Open(r) \/ Write(r) \/ EndOfChunk(r) \/ Candidate(r) \/ SetValidating(r)
           \/ ProbeAndHash(r) \/ ProbeRefuses(r) \/ Replace(r) \/ CancelUnlink(r)
    PROVE  LockInv'
<1>1. pc[r] \in Uploads
  BY DEF Uploads, Open, Write, EndOfChunk, Candidate, SetValidating, ProbeAndHash,
         ProbeRefuses, Replace, CancelUnlink, Txn, At
<1>2. PICK step \in Uploads : pc' = [pc EXCEPT ![r] = step]
  <2>1. CASE Write(r)
    BY <1>1, <2>1, Split DEF Write, ReqInv
  <2>2. CASE ~Write(r)
    BY <2>2 DEF Uploads, Open, EndOfChunk, Candidate, SetValidating, ProbeAndHash,
                ProbeRefuses, Replace, CancelUnlink, GoTo
  <2> QED
    BY <2>1, <2>2
<1>3. conn' = conn
  BY DEF Open, Write, EndOfChunk, Candidate, SetValidating, ProbeAndHash,
         ProbeRefuses, Replace, CancelUnlink
<1>4. \A s \in Requests \ {r} : arg'[s] = arg[s]
  BY Split DEF ReqInv, Open, Write, EndOfChunk, Candidate, SetValidating, ProbeAndHash,
               ProbeRefuses, Replace, CancelUnlink
<1>5. row'.state = "ready" => row.state = "ready"
  <2>1. CASE SetValidating(r)
    BY <2>1, Split DEF SetValidating, RowInv, RowType
  <2>2. CASE ~SetValidating(r)
    BY <2>2 DEF Open, Write, EndOfChunk, Candidate, ProbeAndHash, ProbeRefuses,
                Replace, CancelUnlink, rowVars
  <2> QED
    BY <2>1, <2>2
<1>6. Others(r)
  BY <1>2, <1>3, <1>4, Split DEF Others, ReqInv
<1> QED
  BY <1>1, <1>2, <1>3, <1>5, <1>6, UploadMoves

LEMMA FailUnlinkLock ==
    ASSUME Inv, LockInv, NEW r \in Requests, FailUnlink(r)
    PROVE  LockInv'
<1>1. pc[r] \in Uploads /\ pc' = [pc EXCEPT ![r] = "fail"] /\ row' = row /\ arg' = arg
  BY DEF FailUnlink, At, Uploads, GoTo, rowVars
<1>2. Others(r)
  BY <1>1, Split DEF Others, FailUnlink, ReqInv
<1>3. conn'[r] = "locked" => conn[r] = "locked"
  BY Split DEF FailUnlink, ReqInv
<1> QED
  BY <1>1, <1>2, <1>3, UploadMoves

(* The transactions that find the row not ready and go on to the files.    *)
LEMMA LoadsLock ==
    ASSUME Inv, LockInv, NEW r \in Requests,
           AppendLoad(r) \/ CompleteLoad(r) \/ CancelLoad(r)
    PROVE  LockInv'
<1>1. row'.state # "ready"
  BY DEF AppendLoad, CompleteLoad, CancelLoad, Settled
<1>2. pc'[r] \in {"open", "candidate", "cancelUnlink"}
  BY Split DEF AppendLoad, CompleteLoad, CancelLoad, GoTo, ReqInv
<1>3. Others(r) /\ conn'[r] = conn[r]
  BY Split DEF Others, AppendLoad, CompleteLoad, CancelLoad, GoTo, ReqInv
<1>4. conn[r] = "locked"
  BY TxnLocked DEF AppendLoad, CompleteLoad, CancelLoad
<1> QED
  BY <1>1, <1>2, <1>3, <1>4, LockFrame

LEMMA PurgesLock ==
    ASSUME Inv, LockInv, NEW r \in Requests, PurgeLoad(r) \/ PurgeUnlink(r)
    PROVE  LockInv'
<1>1. CASE PurgeLoad(r)
  <2>1. conn[r] = "locked" /\ pc[r] = "purge"
    BY <1>1, TxnLocked DEF PurgeLoad, Txn, At
  <2>2. Others(r) /\ conn'[r] = "locked" /\ pc'[r] = "purgeUnlink" /\ row' = row
    BY <1>1, <2>1, Split DEF Others, PurgeLoad, GoTo, ReqInv, rowVars
  <2>3. row.state = "ready" => arg'[r].reason \in {"session_deleted", "wasReady"}
    <3>1. arg[r] \in ArgType /\ arg[r].reason \in {"session_deleted", "expired"}
      BY <2>1, Split DEF ReqInv, LockInv, PurgesKnown
    <3>2. arg'[r] = [arg[r] EXCEPT !.meta = row.meta,
                        !.reason = IF @ = "expired" /\ row.state = "ready"
                                   THEN "wasReady" ELSE @]
      BY <1>1, Split DEF PurgeLoad, ReqInv, ArgType
    <3> QED
      BY <3>1, <3>2 DEF ArgType
  <2> QED
    BY <2>1, <2>2, <2>3, LockFrame DEF Uploads
<1>2. CASE PurgeUnlink(r)
  <2>1. Others(r) /\ conn'[r] = conn[r] /\ arg'[r] = arg[r] /\ pc'[r] = "purged"
        /\ row' = row /\ pc[r] = "purgeUnlink"
    BY <1>2, Split DEF Others, PurgeUnlink, GoTo, ReqInv, rowVars, At
  <2>2. conn[r] # "fresh"
    BY <2>1 DEF LockInv, FreshFails
  <2> QED
    BY <2>1, <2>2, LockFrame DEF Uploads, LockInv, PurgesKnown
<1> QED
  BY <1>1, <1>2

LEMMA RunsLock ==
    ASSUME Inv, LockInv, NEW r \in Requests, RunResolve(r) \/ RunHash(r) \/ RunLock(r)
    PROVE  LockInv'
<1>1. CASE RunHash(r) /\ Close(r)
  BY <1>1, AnswerLock DEF RunHash, Close, rowVars
<1>2. CASE ~(RunHash(r) /\ Close(r))
  <2>1. pc'[r] \in {"hash", "relock", "create"} /\ row' = row
    BY <1>2, Split DEF RunResolve, RunHash, RunLock, GoTo, ReqInv, rowVars
  <2>2. Others(r)
    BY <1>2, Split DEF Others, RunResolve, RunHash, RunLock, GoTo, Acquire, ReqInv
  <2>3. conn'[r] \in {conn[r], "closed", "locked"}
        /\ (conn'[r] = "locked" => conn[r] = "locked" \/ Free)
    BY <1>2, Split DEF RunResolve, RunHash, RunLock, Acquire, ReqInv
  <2>4. conn[r] # "fresh"
    BY DEF LockInv, FreshFails, RunResolve, RunHash, RunLock, Txn, At
  <2> QED
    BY <2>1, <2>2, <2>3, <2>4, LockFrame DEF Uploads
<1> QED
  BY <1>1, <1>2

LEMMA ArriveLock ==
    ASSUME Inv, LockInv, NEW r \in Requests, Arrive(r)
    PROVE  LockInv'
<1>1. PICK step \in {"initialize", "append", "status", "complete", "cancel", "run", "purge"},
           file \in Files \cup {Missing}, reason \in {"none", "session_deleted", "expired"} :
          /\ Begin(r, step, file, reason)
          /\ step = "purge" => reason # "none"
  BY DEF Arrive, BeginUpload, BeginAppend, BeginOther, BeginPurge
<1>2. Others(r) /\ conn'[r] = "locked" /\ pc'[r] = step /\ Free /\ row' = row
      /\ arg'[r] = [Idle EXCEPT !.file = file, !.reason = reason]
  BY <1>1, Split DEF Begin, GoTo, Acquire, Others, ReqInv, rowVars
<1>3. arg'[r].reason = reason
  BY <1>2 DEF Idle
<1> QED
  BY <1>1, <1>2, <1>3, LockFrame DEF Uploads

LEMMA AroundLock ==
    ASSUME Inv, LockInv, RunEnds \/ DeleteSession \/ Expire \/ UNCHANGED vars
    PROVE  LockInv'
<1>1. row'.state = row.state /\ UNCHANGED <<pc, arg, conn>>
  BY Split DEF RunEnds, DeleteSession, Expire, vars, reqVars, RowInv, RowType
<1> QED
  BY <1>1 DEF LockInv, OneHolder, FreshFails, UploadsAlone, PurgesKnown

LEMMA LoseLockLock ==
    ASSUME Inv, LockInv, NEW r \in Requests, LoseLock(r)
    PROVE  LockInv'
<1>1. Others(r) /\ conn'[r] = "broken" /\ pc'[r] = pc[r] /\ arg'[r] = arg[r] /\ row' = row
  BY Split DEF LoseLock, Others, ReqInv, rowVars
<1> QED
  BY <1>1, LockFrame DEF LockInv, PurgesKnown

LEMMA StepLock ==
    ASSUME Inv, LockInv, NEW r \in Requests, Step(r)
    PROVE  LockInv'
  BY ReconcilersLock, RowEndsLock, KeptRowEndsLock, UploadsLock, FailUnlinkLock,
     LoadsLock, PurgesLock, RunsLock DEF Step

LEMMA NextLock == Inv /\ LockInv /\ [Next]_vars => LockInv'
<1> SUFFICES ASSUME Inv, LockInv, [Next]_vars PROVE LockInv'
  OBVIOUS
<1>1. ASSUME NEW r \in Requests, Arrive(r) \/ Step(r) \/ Disturb(r) PROVE LockInv'
  BY <1>1, ArriveLock, StepLock, LoseLockLock, KeptRowEndsLock DEF Disturb
<1> QED
  BY <1>1, AroundLock DEF Next

LEMMA InitLock == Init => LockInv
  BY DEF Init, LockInv, OneHolder, FreshFails, UploadsAlone, PurgesKnown

-----------------------------------------------------------------------------
(* A ready source stays what it is.                                        *)

Kept ==
    row.state = "ready" =>
        /\ row'.state \in Settled
        /\ <<row'.hash, row'.path, row'.meta>> = <<row.hash, row.path, row.meta>>

LEMMA KeptByTransactions ==
    ASSUME Inv, LockInv, row.state = "ready", NEW r \in Requests,
           \/ Status(r) \/ AppendRefused(r) \/ CompleteRefused(r) \/ CancelRefused(r)
           \/ InitializeFirst(r) \/ InitializeAgain(r) \/ RunCreate(r)
           \/ FailValidation(r) \/ MarkPurged(r)
    PROVE  Kept
<1>1. row \in RowType /\ Reconciled.row = row /\ Reconciled.ok
  BY ReconciledState, Split DEF RowInv, Settled
<1>2. CASE MarkPurged(r)
  <2>1. conn[r] = "locked" /\ pc[r] = "purged"
    BY <1>2, TxnLocked DEF MarkPurged, Txn, At
  <2>2. arg[r].reason \in {"session_deleted", "wasReady"}
    BY <2>1 DEF LockInv, PurgesKnown
  <2>3. row' = [row EXCEPT !.purged = TRUE, !.state = "deleted"]
        \/ row' = [row EXCEPT !.purged = TRUE, !.state = "expired"]
    BY <1>2, <2>2 DEF MarkPurged
  <2> QED
    BY <1>1, <2>3 DEF Kept, RowType, Settled
<1>3. CASE InitializeAgain(r)
  <2>1. PICK due : row' = [row EXCEPT !.due = due]
    BY <1>1, <1>3 DEF InitializeAgain
  <2> QED
    BY <1>1, <2>1 DEF Kept, RowType, Settled
<1>4. CASE RunCreate(r)
  BY <1>1, <1>4 DEF RunCreate, Kept, RowType, Settled
<1>5. CASE FailValidation(r) \/ InitializeFirst(r)
  BY <1>5 DEF FailValidation, InitializeFirst, Kept, Settled
<1>6. CASE Status(r) \/ AppendRefused(r) \/ CompleteRefused(r) \/ CancelRefused(r)
  BY <1>1, <1>6 DEF Status, AppendRefused, CompleteRefused, CancelRefused,
                    ReconcileAndClose, Kept, Settled
<1> QED
  BY <1>2, <1>3, <1>4, <1>5, <1>6

(* The transactions of an upload, a completion or a cancellation do not    *)
(* take place on a ready row.                                              *)
LEMMA NotOnReady ==
    ASSUME Inv, LockInv, row.state = "ready", NEW r \in Requests,
           \/ AppendLoad(r) \/ RecordChunk(r) \/ CompleteLoad(r) \/ SetValidating(r)
           \/ MarkReady(r) \/ CancelLoad(r) \/ MarkCancelled(r)
    PROVE  FALSE
<1>1. CASE RecordChunk(r) \/ MarkCancelled(r)
  <2>1. conn[r] = "locked" /\ pc[r] \in Uploads
    BY <1>1, TxnLocked DEF RecordChunk, MarkCancelled, Txn, At, Uploads
  <2> QED
    BY <2>1 DEF LockInv, UploadsAlone
<1>2. CASE SetValidating(r) \/ MarkReady(r)
  BY <1>2 DEF SetValidating, MarkReady
<1>3. CASE AppendLoad(r) \/ CompleteLoad(r) \/ CancelLoad(r)
  <2>1. Reconciled.row.state = "ready"
    BY ReconciledState
  <2> QED
    BY <1>3, <2>1 DEF AppendLoad, CompleteLoad, CancelLoad, Settled
<1> QED
  BY <1>1, <1>2, <1>3

LEMMA StepKeeps == Inv /\ LockInv /\ [Next]_vars => [Kept]_row
<1> SUFFICES ASSUME Inv, LockInv, [Next]_vars, row.state = "ready"
             PROVE  [Kept]_row
  BY DEF Kept
<1>1. ASSUME NEW r \in Requests, Step(r) PROVE [Kept]_row
  <2>1. CASE row' = row
    BY <2>1
  <2>2. CASE row' # row
    <3>1. \/ Status(r) \/ AppendRefused(r) \/ CompleteRefused(r) \/ CancelRefused(r)
          \/ InitializeFirst(r) \/ InitializeAgain(r) \/ RunCreate(r)
          \/ FailValidation(r) \/ MarkPurged(r)
          \/ AppendLoad(r) \/ RecordChunk(r) \/ CompleteLoad(r) \/ SetValidating(r)
          \/ MarkReady(r) \/ CancelLoad(r) \/ MarkCancelled(r)
      BY <1>1, <2>2
         DEF Step, Open, Write, RejectChunk, EndOfChunk, ChunkTimeout, Candidate,
             ValidatingRefused, ProbeAndHash, ProbeRefuses, Replace, ReadyRefused,
             FailUnlink, CancelUnlink, PurgeLoad, PurgeRefused, PurgeUnlink,
             RunResolve, RunUnresolved, RunHash, RunLock, RunRefused, OwnerGone,
             TxnFails, rowVars
    <3> QED
      BY <3>1, KeptByTransactions, NotOnReady
  <2> QED
    BY <2>1, <2>2
<1>2. ASSUME NEW r \in Requests, Arrive(r) \/ Disturb(r) PROVE row' = row
  BY <1>2 DEF Arrive, BeginUpload, BeginAppend, BeginOther, BeginPurge, Begin,
              Disturb, LoseLock, Abort, rowVars
<1>3. CASE RunEnds \/ DeleteSession \/ Expire
  <2>1. row \in RowType
    BY Split DEF RowInv
  <2> QED
    BY <1>3, <2>1 DEF RunEnds, DeleteSession, Expire, Kept, RowType, Settled
<1> QED
  BY <1>1, <1>2, <1>3 DEF Next, vars

(* A ready source only expires or is deleted and never changes its bytes,  *)
(* name or hash, whatever requests lose their lock, crash or fail in the   *)
(* middle of an upload, a completion, a cancellation or a purge.           *)
THEOREM Immutable == Spec => SourceImmutable
<1>1. Init => Inv /\ LockInv
  BY InitInv, InitLock
<1>2. Inv /\ LockInv /\ [Next]_vars => (Inv /\ LockInv)'
  BY NextInv, NextLock
<1>3. Inv /\ LockInv /\ [Next]_vars => [Kept]_row
  BY StepKeeps
<1> QED
  BY <1>1, <1>2, <1>3, PTL DEF Spec, SourceImmutable, Kept

-----------------------------------------------------------------------------
(* The files, as long as no request has lost its lock.  A request that     *)
(* works has the lock, so what it has read of the row and of the files     *)
(* stays true until it answers; what a request leaves behind that stops    *)
(* half-way, the next transaction can repair.                              *)

LocksHeld == faults["lockLoss"] = MaxFaults["lockLoss"]

Working(r) == pc[r] \notin {"idle", "hash", "relock"}

Served(r) ==
    /\ conn[r]   = IF Working(r) THEN "locked" ELSE "closed"
    /\ handle[r] = IF pc[r] = "write" THEN "part" ELSE "none"

(* What a request at work may rely on: the row it has read.                *)
RowAt(r) ==
    /\ pc[r] \in HasMeta \cup {"cancelUnlink", "purgeUnlink"} => arg[r].meta = row.meta
    /\ pc[r] \in {"open", "write", "record"} => row.state = "uploading"
    /\ pc[r] \in {"candidate", "validating", "failUnlink", "fail"} =>
          row.state \in {"uploading", "validating"}
    /\ pc[r] \in {"probe", "replace", "ready"} => row.state = "validating"
    /\ pc[r] \in {"cancelUnlink", "cancelled"} => row.state \notin Settled
    /\ pc[r] \in {"purge", "purgeUnlink", "purged"} /\ arg[r].reason = "session_deleted" =>
          owner = "deleted"
    /\ pc[r] \in {"purgeUnlink", "purged"} => ~activeRun /\ (row.due \/ owner = "deleted")

Size(p) == IF disk[p] = Missing THEN 0 ELSE Len(disk[p])
Whole(p) == disk[p] # Missing /\ Len(disk[p]) = row.meta.size

(* The files it has read: a chunk goes to the end of source.part, and what *)
(* is validated is the whole file that is renamed and hashed.              *)
FilesAt(r) ==
    /\ pc[r] = "open" =>
          /\ arg[r].from = row.received /\ arg[r].pos = row.received
          /\ Size("part") = row.received
    /\ pc[r] = "write" =>
          /\ arg[r].from = row.received /\ arg[r].from <= arg[r].pos
          /\ disk["part"] # Missing /\ Len(disk["part"]) = arg[r].pos
    /\ pc[r] \in {"validating", "probe", "replace"} =>
          arg[r].path \in SourcePaths(row.meta) /\ Whole(arg[r].path)
    /\ pc[r] = "replace" => disk[arg[r].path] = arg[r].digest
    /\ pc[r] = "ready" =>
          /\ Whole(row.meta.suffix) /\ disk[row.meta.suffix] = arg[r].digest
          /\ disk["part"] = Missing

Owned ==
    /\ activeRun => owner = "active" /\ row.state = "ready"
    /\ row.purged => row.state \in {"failed", "expired", "deleted"}
    /\ row.state = "ready" => row.path = row.meta.suffix

(* Only the files of the row's own source are there.                       *)
Beside ==
    \A p \in Paths :
        disk[p] # Missing => row.state # "missing" /\ p \in SourcePaths(row.meta)

(* An upload has source.part, at least as long as recorded, or, once it is *)
(* being validated, the whole renamed file, or nothing.                    *)
Uploaded ==
    row.state \in {"uploading", "validating"} =>
        /\ disk["part"] # Missing =>
              /\ disk[row.meta.suffix] = Missing
              /\ row.received <= Len(disk["part"])
              /\ Len(disk["part"]) <= row.meta.size
        /\ disk[row.meta.suffix] # Missing =>
              /\ row.state = "validating"
              /\ Len(disk[row.meta.suffix]) = row.meta.size
              /\ row.received <= row.meta.size

(* A ready source is on disk as it was hashed while a run is on it, or     *)
(* while no purge is due.                                                  *)
ReadyHeld ==
    row.state = "ready" /\ (activeRun \/ (~row.due /\ owner = "active")) =>
        disk[row.path] = row.hash /\ disk["part"] = Missing /\ row.hash # Missing

RowFiles == Owned /\ Beside /\ Uploaded /\ ReadyHeld
AtWork(r) == Served(r) /\ RowAt(r) /\ FilesAt(r)
SafeInv == RowFiles /\ \A r \in Requests : AtWork(r)

Sound == Inv /\ LockInv /\ SafeInv

-----------------------------------------------------------------------------
LEMMA SourceType ==
    ASSUME Inv, row.state # "missing"
    PROVE  /\ row.meta \in Metas
           /\ row.meta.suffix \in Paths /\ row.meta.suffix # "part" /\ "part" \in Paths
           /\ SourcePaths(row.meta) = {"part", row.meta.suffix}
           /\ row.meta.size \in Nat /\ row.meta.size > 0 /\ row.received \in Nat
           /\ row \in RowType
<1>1. row.meta \in Metas /\ row \in RowType
  BY Split DEF RowInv, RowKnown
<1>2. row.meta.suffix \in Suffixes /\ "part" \notin Suffixes
  BY <1>1, MetaType, SuffixAssumption
<1> QED
  BY <1>1, <1>2, MetaType DEF Paths, SourcePaths, RowType

LEMMA FileType ==
    ASSUME Inv, NEW p \in Paths
    PROVE  /\ disk[p] # Missing => disk[p] \in Contents /\ Len(disk[p]) \in Nat
           /\ Size(p) \in Nat
<1>1. disk[p] # Missing => disk[p] \in Contents
  BY Split DEF DiskInv
<1> QED
  BY <1>1, LenProperties DEF Contents, Size

(* While a request works no other one does.                                *)
LEMMA Alone ==
    ASSUME Sound, NEW r \in Requests, Working(r) \/ Free,
           NEW s \in Requests \ {r}
    PROVE  ~Working(s)
  BY DEF Sound, SafeInv, AtWork, Served, LockInv, OneHolder, Free

LEMMA Unaffected ==
    ASSUME Sound, NEW s \in Requests, ~Working(s),
           pc'[s] = pc[s], conn'[s] = conn[s], handle'[s] = handle[s]
    PROVE  AtWork(s)'
<1>1. pc[s] \in {"idle", "hash", "relock"} /\ Served(s)
  BY DEF Sound, SafeInv, AtWork, Working
<1> QED
  BY <1>1 DEF AtWork, Served, RowAt, FilesAt, Working, HasMeta

LEMMA SoloFrame ==
    ASSUME Sound, NEW r \in Requests, Working(r) \/ Free, Others(r),
           \A s \in Requests \ {r} : handle'[s] = handle[s],
           AtWork(r)', RowFiles'
    PROVE  SafeInv'
<1>1. ASSUME NEW s \in Requests \ {r} PROVE AtWork(s)'
  BY <1>1, Alone, Unaffected DEF Others
<1> QED
  BY <1>1 DEF SafeInv

LEMMA KeepsRowFiles ==
    ASSUME RowFiles, UNCHANGED <<row, disk, owner, activeRun>>
    PROVE  RowFiles'
  BY DEF RowFiles, Owned, Beside, Uploaded, ReadyHeld

LEMMA OrphanNone ==
    ASSUME Sound, NEW S, S \subseteq Paths, Unlink(S), NEW s \in Requests, pc[s] # "write"
    PROVE  handle'[s] = "none" /\ handle[s] = "none"
<1>1. handle[s] = "none" /\ "none" \notin S
  BY SuffixAssumption DEF Paths, Sound, SafeInv, AtWork, Served
<1> QED
  BY <1>1 DEF Unlink, Orphaned

LEMMA IdleAtWork ==
    ASSUME NEW r \in Requests, pc'[r] = "idle", conn'[r] = "closed", handle'[r] = "none"
    PROVE  AtWork(r)'
  BY DEF AtWork, Served, RowAt, FilesAt, Working, HasMeta

(* A request at work answers.                                              *)
LEMMA AnswerSafe ==
    ASSUME Sound, NEW r \in Requests, Working(r), Answer(r), RowFiles',
           \/ Close(r)
           \/ pc[r] # "write" /\ (UNCHANGED handle \/ \E S \in SUBSET Paths : Unlink(S))
    PROVE  SafeInv'
<1>1. Others(r) /\ pc'[r] = "idle" /\ conn'[r] = "closed"
  BY Split DEF Answer, Others, ReqInv, Sound
<1>2. handle'[r] = "none" /\ \A s \in Requests \ {r} : handle'[s] = handle[s]
  <2>1. CASE Close(r)
    BY <2>1, Split DEF Close, Sound, DiskInv
  <2>2. CASE pc[r] # "write" /\ UNCHANGED handle
    BY <2>2 DEF Sound, SafeInv, AtWork, Served
  <2>3. CASE pc[r] # "write" /\ \E S \in SUBSET Paths : Unlink(S)
    <3>1. ASSUME NEW s \in Requests \ {r} PROVE pc[s] # "write"
      BY Alone, <3>1 DEF Working
    <3> QED
      BY <2>3, <3>1, OrphanNone
  <2> QED
    BY <2>1, <2>2, <2>3
<1> QED
  BY <1>1, <1>2, IdleAtWork, SoloFrame

(* It goes on instead.                                                     *)
LEMMA MoveSafe ==
    ASSUME Sound, NEW r \in Requests, Working(r), NEW step,
           pc' = [pc EXCEPT ![r] = step], conn' = conn,
           \A s \in Requests \ {r} : arg'[s] = arg[s] /\ handle'[s] = handle[s],
           handle'[r] = IF step = "write" THEN "part" ELSE "none",
           step \notin {"idle", "hash", "relock"},
           RowAt(r)', FilesAt(r)', RowFiles'
    PROVE  SafeInv'
<1>1. Others(r) /\ pc'[r] = step /\ conn'[r] = "locked"
  BY Split DEF Others, ReqInv, Sound, SafeInv, AtWork, Served
<1>2. AtWork(r)'
  BY <1>1 DEF AtWork, Served, Working
<1> QED
  BY <1>1, <1>2, SoloFrame

-----------------------------------------------------------------------------
(* What a transaction makes of the row and the files it finds.             *)

LEMMA LinkedAre ==
    ASSUME Sound, row.state # "missing"
    PROVE  /\ \A p \in Paths : disk[p] # Missing => p \in {"part", row.meta.suffix}
           /\ Linked(SourcePaths(row.meta)) = Linked(Paths)
  BY SourceType DEF Sound, SafeInv, RowFiles, Beside, Linked

(* A live upload is found as it was left, longer than recorded at most, or *)
(* without any file.                                                       *)
LEMMA ReconciledUpload ==
    ASSUME Sound, row.state \in {"uploading", "validating"}
    PROVE  /\ Reconciled.unlink = {}
           /\ \/ /\ ~Reconciled.ok /\ Linked(Paths) = {}
                 /\ Reconciled.row = [row EXCEPT !.state = "failed", !.received = 0]
              \/ /\ Reconciled.ok
                 /\ \E n \in {Size("part"), Size(row.meta.suffix)}, d \in BOOLEAN :
                       /\ Reconciled.row = [row EXCEPT !.received = n, !.due = d]
                       /\ \/ disk["part"] # Missing /\ n = Size("part")
                             /\ disk[row.meta.suffix] = Missing
                          \/ disk[row.meta.suffix] # Missing /\ n = Size(row.meta.suffix)
                             /\ disk["part"] = Missing
                          \/ Linked(Paths) = {} /\ n = 0
<1> DEFINE here == Linked(SourcePaths(row.meta))
           actual == IF here = {} THEN 0 ELSE Len(disk[CHOOSE p \in here : TRUE])
           part == "part"
           suffix == row.meta.suffix
<1>1. /\ part \in Paths /\ suffix \in Paths /\ suffix # part
      /\ row.meta.size \in Nat /\ row.received \in Nat /\ row \in RowType
      /\ SourcePaths(row.meta) = {part, suffix}
  BY SourceType DEF Sound
<1>2. here = Linked(Paths)
  BY LinkedAre
<1>3. CASE disk[part] # Missing
  <2>1. disk[suffix] = Missing /\ row.received <= Len(disk[part])
        /\ Len(disk[part]) <= row.meta.size
    BY <1>3 DEF Sound, SafeInv, RowFiles, Uploaded
  <2>2. here = {part}
    BY <1>1, <1>3, <2>1 DEF Linked
  <2>3. Cardinality(here) = 1 /\ actual = Len(disk[part]) /\ Len(disk[part]) \in Nat
    BY <1>1, <1>3, <2>2, FileType, FS_Singleton DEF Sound
  <2>4. ~(\/ Cardinality(here) > 1
          \/ suffix \in here /\ row.state # "validating"
          \/ actual > row.meta.size) /\ ~(actual < row.received)
    <3>1. suffix \in here => row.state = "validating"
      BY <1>1, <2>1, <2>2
    <3>2. ~(Cardinality(here) > 1)
      BY <2>3
    <3>3. ~(actual > row.meta.size) /\ ~(actual < row.received)
      <4> HIDE DEF actual
      <4> QED
        BY <1>1, <2>1, <2>3
    <3> QED
      BY <3>1, <3>2, <3>3
  <2>5. /\ Reconciled.row = [row EXCEPT !.received = actual,
                                  !.due = row.due /\ actual = row.received]
        /\ Reconciled.ok /\ Reconciled.unlink = {}
    <3> HIDE DEF here, actual
    <3> QED
      BY <2>4 DEF Reconciled, Settled, here, actual
  <2>6. (row.due /\ actual = row.received) \in BOOLEAN
    OBVIOUS
  <2> QED
    BY <1>3, <2>1, <2>3, <2>5, <2>6 DEF Size
<1>4. CASE disk[part] = Missing /\ disk[suffix] # Missing
  <2>1. row.state = "validating" /\ Len(disk[suffix]) = row.meta.size
        /\ row.received <= row.meta.size
    BY <1>4 DEF Sound, SafeInv, RowFiles, Uploaded
  <2>2. here = {suffix}
    BY <1>1, <1>4 DEF Linked
  <2>3. Cardinality(here) = 1 /\ actual = Len(disk[suffix])
    BY <1>1, <1>4, <2>2, FS_Singleton
  <2>4. ~(\/ Cardinality(here) > 1
          \/ suffix \in here /\ row.state # "validating"
          \/ actual > row.meta.size) /\ ~(actual < row.received)
    <3>1. suffix \in here => row.state = "validating"
      BY <1>1, <2>1, <2>2
    <3>2. ~(Cardinality(here) > 1)
      BY <2>3
    <3>3. ~(actual > row.meta.size) /\ ~(actual < row.received)
      <4> HIDE DEF actual
      <4> QED
        BY <1>1, <2>1, <2>3
    <3> QED
      BY <3>1, <3>2, <3>3
  <2>5. /\ Reconciled.row = [row EXCEPT !.received = actual,
                                  !.due = row.due /\ actual = row.received]
        /\ Reconciled.ok /\ Reconciled.unlink = {}
    <3> HIDE DEF here, actual
    <3> QED
      BY <2>4 DEF Reconciled, Settled, here, actual
  <2>6. (row.due /\ actual = row.received) \in BOOLEAN
    OBVIOUS
  <2> QED
    BY <1>4, <2>1, <2>3, <2>5, <2>6 DEF Size
<1>5. CASE disk[part] = Missing /\ disk[suffix] = Missing
  <2>1. here = {} /\ actual = 0 /\ Linked(Paths) = {}
    BY <1>1, <1>2, <1>5 DEF Linked
  <2>2. Cardinality(here) = 0
    BY <2>1, FS_EmptySet
  <2>3. ~(\/ Cardinality(here) > 1
          \/ suffix \in here /\ row.state # "validating"
          \/ actual > row.meta.size)
    BY <1>1, <2>1, <2>2
  <2>4. CASE actual < row.received
    <3>1. /\ Reconciled.row = [row EXCEPT !.state = "failed", !.received = actual]
          /\ ~Reconciled.ok /\ Reconciled.unlink = {}
      <4> HIDE DEF here, actual
      <4> QED
        BY <2>3, <2>4 DEF Reconciled, Settled, here, actual
    <3> QED
      BY <2>1, <3>1
  <2>5. CASE ~(actual < row.received)
    <3>1. /\ Reconciled.row = [row EXCEPT !.received = actual,
                                  !.due = row.due /\ actual = row.received]
          /\ Reconciled.ok /\ Reconciled.unlink = {}
      <4> HIDE DEF here, actual
      <4> QED
        BY <2>3, <2>5 DEF Reconciled, Settled, here, actual
    <3>2. (row.due /\ actual = row.received) \in BOOLEAN
      OBVIOUS
    <3>3. 0 = Size("part")
      BY <1>5 DEF Size
    <3> QED
      BY <2>1, <3>1, <3>2, <3>3
  <2> QED
    BY <2>4, <2>5
<1> QED
  BY <1>3, <1>4, <1>5

(* Of a failed one at most the files are removed.                          *)
LEMMA ReconciledOther ==
    ASSUME Sound, row.state \notin {"missing", "uploading", "validating"}
    PROVE  \/ /\ Reconciled.row = row /\ Reconciled.unlink = {} /\ Reconciled.ok
           \/ /\ row.state = "failed" /\ ~row.purged
              /\ Reconciled.row = FailedRow /\ Reconciled.unlink = Linked(Paths)
              /\ ~Reconciled.ok
           \/ /\ row.state = "failed" /\ ~row.purged /\ Reconciled.unlink = {}
              /\ Reconciled.row.state = "failed" /\ ~Reconciled.row.purged
<1> DEFINE here == Linked(SourcePaths(row.meta))
           actual == IF here = {} THEN 0 ELSE Len(disk[CHOOSE p \in here : TRUE])
           diverged == \/ Cardinality(here) > 1
                       \/ row.meta.suffix \in here /\ row.state # "validating"
                       \/ actual > row.meta.size
<1>1. row \in RowType /\ here = Linked(Paths)
  BY SourceType, LinkedAre DEF Sound
<1>2. CASE row.state \in Settled \/ (row.state = "failed" /\ row.purged)
  BY <1>2 DEF Reconciled
<1>3. CASE row.state = "failed" /\ ~row.purged /\ diverged
  <2> HIDE DEF actual, here
  <2>1. Reconciled.row = FailedRow /\ Reconciled.unlink = here /\ ~Reconciled.ok
    BY <1>3 DEF Reconciled, Settled, actual, here
  <2> QED
    BY <1>1, <1>3, <2>1
<1>4. CASE row.state = "failed" /\ ~row.purged /\ ~diverged
  <2> HIDE DEF actual, here
  <2>1. /\ Reconciled.unlink = {}
        /\ \/ Reconciled.row = [row EXCEPT !.state = "failed", !.received = actual]
           \/ Reconciled.row = [row EXCEPT !.received = actual,
                                    !.due = row.due /\ actual = row.received]
    BY <1>4 DEF Reconciled, Settled, actual, here
  <2> QED
    BY <1>1, <1>4, <2>1 DEF RowType
<1> QED
  BY <1>1, <1>2, <1>3, <1>4 DEF RowType, RowStates

LEMMA UnlinkNone == ASSUME Inv, disk' = Unlinked({}) PROVE disk' = disk
  BY Split DEF Unlinked, DiskInv

(* No file appears by unlinking.                                           *)
LEMMA UnlinkedFiles ==
    ASSUME NEW S, disk' = Unlinked(S)
    PROVE  /\ \A p \in Paths : disk'[p] # Missing => disk'[p] = disk[p] /\ p \notin S
           /\ \A p \in Paths \cap S : disk'[p] = Missing
  BY DEF Unlinked

LEMMA ReconciledFiles ==
    ASSUME Sound, row.state # "missing", NEW d \in BOOLEAN,
           row' = [Reconciled.row EXCEPT !.due = d],
           row.state = "ready" => d = row.due,
           disk' = Unlinked(Reconciled.unlink), UNCHANGED <<owner, activeRun>>
    PROVE  RowFiles'
<1>1. row \in RowType /\ RowFiles /\ Inv
  BY SourceType DEF Sound, SafeInv
<1>2. CASE row.state \in {"uploading", "validating"}
  <2>1. disk' = disk /\ ~activeRun
    BY <1>1, <1>2, ReconciledUpload, UnlinkNone DEF RowFiles, Owned
  <2>2. CASE /\ ~Reconciled.ok /\ Linked(Paths) = {}
             /\ Reconciled.row = [row EXCEPT !.state = "failed", !.received = 0]
    <3>1. row'.state = "failed" /\ row'.meta = row.meta
      BY <1>1, <2>2 DEF RowType
    <3>2. \A p \in Paths : disk[p] = Missing
      BY <2>2 DEF Linked
    <3> QED
      BY <2>1, <3>1, <3>2 DEF RowFiles, Owned, Beside, Uploaded, ReadyHeld
  <2>3. CASE \E n \in {Size("part"), Size(row.meta.suffix)}, e \in BOOLEAN :
                /\ Reconciled.row = [row EXCEPT !.received = n, !.due = e]
                /\ \/ disk["part"] # Missing /\ n = Size("part")
                      /\ disk[row.meta.suffix] = Missing
                   \/ disk[row.meta.suffix] # Missing /\ n = Size(row.meta.suffix)
                      /\ disk["part"] = Missing
                   \/ Linked(Paths) = {} /\ n = 0
    <3>1. PICK n \in {Size("part"), Size(row.meta.suffix)}, e \in BOOLEAN :
                /\ Reconciled.row = [row EXCEPT !.received = n, !.due = e]
                /\ \/ disk["part"] # Missing /\ n = Size("part")
                      /\ disk[row.meta.suffix] = Missing
                   \/ disk[row.meta.suffix] # Missing /\ n = Size(row.meta.suffix)
                      /\ disk["part"] = Missing
                   \/ Linked(Paths) = {} /\ n = 0
      BY <2>3
    <3>2. /\ row'.state = row.state /\ row'.meta = row.meta /\ row'.received = n
          /\ row'.purged = row.purged
      BY <1>1, <3>1 DEF RowType
    <3>3. row.meta.size \in Nat /\ {"part", row.meta.suffix} \subseteq Paths
          /\ Size("part") \in Nat /\ Size(row.meta.suffix) \in Nat
      BY <1>1, SourceType, FileType
    <3>4. Uploaded'
      <4>1. CASE disk["part"] # Missing /\ n = Size("part")
                 /\ disk[row.meta.suffix] = Missing
        BY <1>1, <1>2, <2>1, <3>2, <3>3, <4>1 DEF RowFiles, Uploaded, Size
      <4>2. CASE disk[row.meta.suffix] # Missing /\ n = Size(row.meta.suffix)
                 /\ disk["part"] = Missing
        BY <1>1, <1>2, <2>1, <3>2, <3>3, <4>2 DEF RowFiles, Uploaded, Size
      <4>3. CASE Linked(Paths) = {}
        <5>1. disk["part"] = Missing /\ disk[row.meta.suffix] = Missing
          BY <3>3, <4>3 DEF Linked
        <5> QED
          BY <2>1, <3>2, <5>1 DEF Uploaded
      <4> QED
        BY <3>1, <4>1, <4>2, <4>3
    <3> QED
      BY <1>1, <1>2, <2>1, <3>2, <3>4 DEF RowFiles, Owned, Beside, ReadyHeld
  <2> QED
    BY <1>2, <2>2, <2>3, ReconciledUpload
<1>3. CASE row.state \notin {"missing", "uploading", "validating"}
  <2>1. CASE Reconciled.row = row /\ Reconciled.unlink = {} /\ Reconciled.ok
    <3>1. disk' = disk /\ row' = [row EXCEPT !.due = d]
      BY <1>1, <2>1, UnlinkNone
    <3>2. /\ row'.state = row.state /\ row'.meta = row.meta /\ row'.path = row.path
          /\ row'.purged = row.purged /\ row'.hash = row.hash /\ row'.due = d
      BY <1>1, <3>1 DEF RowType
    <3> QED
      BY <1>1, <1>3, <3>1, <3>2 DEF RowFiles, Owned, Beside, Uploaded, ReadyHeld
  <2>2. CASE row.state = "failed" /\ Reconciled.row.state = "failed"
    <3>1. row'.state = "failed" /\ row'.meta = row.meta /\ ~activeRun
      BY <1>1, <1>3, <2>2, ReconciledType DEF RowType, RowFiles, Owned, Inv
    <3>2. Beside'
      BY <1>1, <3>1, UnlinkedFiles DEF RowFiles, Beside
    <3> QED
      BY <1>1, <3>1, <3>2 DEF RowFiles, Owned, Uploaded, ReadyHeld
  <2>3. row.state = "failed" => FailedRow.state = "failed"
    BY <1>1 DEF FailedRow, RowType
  <2> QED
    BY <1>3, <2>1, <2>2, <2>3, ReconciledOther
<1> QED
  BY <1>2, <1>3

(* An upload that is found wanting has lost its files before.              *)
LEMMA ReconciledFails ==
    ASSUME Sound, row.state \in {"uploading", "validating"}
    PROVE  /\ Reconciled.row.state = "failed" => Linked(Paths) = {}
           /\ ~Reconciled.ok => Linked(Paths) = {}
  BY ReconciledUpload, SourceType DEF Sound, RowType

LEMMA SameDue ==
    ASSUME Inv, row.state # "missing"
    PROVE  /\ Reconciled.row.due \in BOOLEAN
           /\ Reconciled.row = [Reconciled.row EXCEPT !.due = Reconciled.row.due]
           /\ row.state = "ready" => Reconciled.row.due = row.due
  BY ReconciledRow, ReconciledState DEF RowType, Settled

LEMMA TxnWorks ==
    ASSUME Sound, NEW r \in Requests, NEW step \in TxnSteps, Txn(r, step)
    PROVE  Working(r) /\ pc[r] # "write" /\ pc[r] # "idle"
  BY DEF Txn, At, Working, TxnSteps

LEMMA ReconcilersSafe ==
    ASSUME Sound, NEW r \in Requests,
           Status(r) \/ AppendRefused(r) \/ CompleteRefused(r) \/ CancelRefused(r)
    PROVE  SafeInv'
<1>1. PICK step \in {"status", "append", "complete", "cancel"} : Txn(r, step)
  BY DEF Status, AppendRefused, CompleteRefused, CancelRefused
<1>2. ReconcileAndClose(r) /\ Working(r) /\ pc[r] = step
  BY <1>1, TxnWorks DEF Status, AppendRefused, CompleteRefused, CancelRefused, TxnSteps,
                        Txn, At
<1>3. row.state # "missing"
  BY <1>2, RowThere DEF Sound
<1>4. Reconciled.unlink \subseteq Paths
  BY <1>3, ReconciledRow DEF Sound
<1>5. RowFiles'
  BY <1>2, <1>3, SameDue, ReconciledFiles DEF ReconcileAndClose, Unlink, Sound
<1> QED
  BY <1>2, <1>4, <1>5, AnswerSafe DEF ReconcileAndClose

-----------------------------------------------------------------------------
(* The steps that end a request.                                           *)

LEMMA Parts ==
    ASSUME Sound
    PROVE  /\ Inv /\ LockInv /\ RowFiles /\ Owned /\ Beside /\ Uploaded /\ ReadyHeld
           /\ \A r \in Requests : AtWork(r) /\ Served(r) /\ RowAt(r) /\ FilesAt(r)
  BY DEF Sound, SafeInv, RowFiles, AtWork

LEMMA FreshRow ==
    ASSUME NEW meta \in Metas
    PROVE  /\ Uploading(meta).state = "uploading" /\ Uploading(meta).meta = meta
           /\ Uploading(meta).received = 0 /\ ~Uploading(meta).purged
  BY DEF Uploading, NoRow

LEMMA NewUpload ==
    ASSUME NEW meta \in Metas, row' = Uploading(meta), ~activeRun',
           \A p \in Paths : disk'[p] = Missing
    PROVE  RowFiles'
<1>1. "part" \in Paths /\ meta.suffix \in Paths
  BY MetaType DEF Paths
<1> QED
  BY <1>1, FreshRow DEF RowFiles, Owned, Beside, Uploaded, ReadyHeld

LEMMA InitializeFirstSafe ==
    ASSUME Sound, NEW r \in Requests, InitializeFirst(r)
    PROVE  SafeInv'
<1>1. Working(r) /\ pc[r] = "initialize"
  BY TxnWorks DEF InitializeFirst, TxnSteps, Txn, At
<1>2. Declared[arg[r].file] \in Metas
  BY <1>1, DeclaredType DEF Sound, Inv, ArgKnown, NamesFile
<1>3. /\ \A p \in Paths : disk'[p] = Missing
      /\ ~activeRun'
  BY Parts DEF InitializeFirst, Beside, Owned
<1>4. RowFiles'
  BY <1>2, <1>3, NewUpload DEF InitializeFirst
<1> QED
  BY <1>1, <1>4, AnswerSafe DEF InitializeFirst, Close

LEMMA InitializeAgainSafe ==
    ASSUME Sound, NEW r \in Requests, InitializeAgain(r)
    PROVE  SafeInv'
<1>1. Working(r) /\ pc[r] = "initialize" /\ row.state # "missing" /\ Answer(r)
  BY TxnWorks DEF InitializeAgain, TxnSteps, Txn, At
<1>2. Declared[arg[r].file] \in Metas
  BY <1>1, DeclaredType DEF Sound, Inv, ArgKnown, NamesFile
<1>3. Reconciled.unlink \subseteq Paths /\ Reconciled.row.meta = row.meta
      /\ SourcePaths(row.meta) \subseteq Paths /\ row \in RowType
  BY <1>1, ReconciledType, SourceType DEF Sound, Inv
<1>4. CASE Reconciled.ok /\ Reconciled.row.state = "failed"
  <2>1. row' = Uploading(Declared[arg[r].file]) /\ Unlink(SourcePaths(row.meta))
        /\ activeRun' = activeRun
    BY <1>3, <1>4 DEF InitializeAgain
  <2>2. \A p \in Paths : disk'[p] = Missing
    BY <1>1, <2>1, Parts DEF Beside, Unlink, Unlinked
  <2>3. row.state # "ready"
    BY <1>1, <1>4, ReconciledState DEF Sound
  <2>4. RowFiles'
    BY <1>2, <2>1, <2>2, <2>3, NewUpload, Parts DEF Owned
  <2> QED
    BY <1>1, <1>3, <2>1, <2>4, AnswerSafe
<1>5. CASE ~(Reconciled.ok /\ Reconciled.row.state = "failed")
  <2> DEFINE d == Reconciled.row.due
                    /\ ~( /\ Reconciled.ok
                          /\ Reconciled.row.state \in {"uploading", "validating"}
                          /\ Reconciled.row.meta = Declared[arg[r].file] )
  <2>1. row' = [Reconciled.row EXCEPT !.due = d] /\ Unlink(Reconciled.unlink)
        /\ UNCHANGED <<owner, activeRun>>
    BY <1>5 DEF InitializeAgain
  <2>2. d \in BOOLEAN
    OBVIOUS
  <2>3. row.state = "ready" => d = row.due
    BY <1>1, <1>3, ReconciledState DEF Sound, Settled, RowType
  <2> HIDE DEF d
  <2>4. RowFiles'
    BY <1>1, <2>1, <2>2, <2>3, ReconciledFiles DEF Unlink
  <2> QED
    BY <1>1, <1>3, <2>1, <2>4, AnswerSafe
<1> QED
  BY <1>4, <1>5

LEMMA RecordChunkSafe ==
    ASSUME Sound, NEW r \in Requests, RecordChunk(r)
    PROVE  SafeInv'
<1>1. Working(r) /\ pc[r] = "record" /\ Answer(r)
  BY TxnWorks DEF RecordChunk, TxnSteps, Txn, At
<1>2. row.state = "uploading"
  BY <1>1, Parts DEF RowAt
<1>3. Reconciled.unlink \subseteq Paths /\ Reconciled.row \in RowType
  BY <1>2, ReconciledRow DEF Sound
<1>4. row' = [Reconciled.row EXCEPT !.due = FALSE]
  <2>1. CASE Reconciled.ok
    <3>1. Reconciled.row.state = "uploading"
      BY <1>2, <2>1, ReconciledUpload, SourceType DEF Sound, RowType
    <3> QED
      BY <1>3, <2>1, <3>1 DEF RecordChunk, RowType
  <2>2. CASE ~Reconciled.ok
    BY <1>3, <2>2 DEF RecordChunk, RowType
  <2> QED
    BY <2>1, <2>2
<1>5. RowFiles'
  BY <1>2, <1>4, ReconciledFiles DEF RecordChunk, Unlink
<1> QED
  BY <1>1, <1>3, <1>5, AnswerSafe DEF RecordChunk

LEMMA MarkReadySafe ==
    ASSUME Sound, NEW r \in Requests, MarkReady(r)
    PROVE  SafeInv'
<1>1. Working(r) /\ pc[r] = "ready" /\ Close(r) /\ UNCHANGED <<owner, activeRun, disk>>
  BY TxnWorks DEF MarkReady, TxnSteps, Txn, At
<1>2. /\ row.state = "validating" /\ arg[r].meta = row.meta
      /\ Whole(row.meta.suffix) /\ disk[row.meta.suffix] = arg[r].digest
      /\ disk["part"] = Missing
  BY <1>1, Parts DEF RowAt, FilesAt, HasMeta
<1>3. row \in RowType /\ SourcePaths(row.meta) = {"part", row.meta.suffix}
  BY <1>2, SourceType DEF Sound
<1>4. /\ row'.state = "ready" /\ row'.meta = row.meta /\ row'.path = row.meta.suffix
      /\ row'.hash = arg[r].digest /\ ~row'.purged
  BY <1>2, <1>3 DEF MarkReady, RowType
<1>5. ~activeRun
  BY <1>2, Parts DEF Owned
<1>6. RowFiles'
  BY <1>1, <1>2, <1>3, <1>4, <1>5, Parts
     DEF RowFiles, Owned, Beside, Uploaded, ReadyHeld, Whole
<1> QED
  BY <1>1, <1>6, AnswerSafe DEF Close

(* A row that ends failed, expired or deleted claims nothing of its files  *)
(* but that no other are there.                                            *)
LEMMA EndedRow ==
    ASSUME Sound, row.state # "missing", ~activeRun, UNCHANGED <<activeRun, disk>>,
           row'.meta = row.meta, row'.state \in {"failed", "expired", "deleted"}
    PROVE  RowFiles'
  BY Parts DEF RowFiles, Owned, Beside, Uploaded, ReadyHeld

LEMMA MarksSafe ==
    ASSUME Sound, NEW r \in Requests,
           FailValidation(r) \/ MarkCancelled(r) \/ MarkPurged(r)
    PROVE  SafeInv'
<1>1. pc[r] \in {"fail", "cancelled", "purged"} /\ Close(r)
      /\ UNCHANGED <<owner, activeRun, disk>>
  BY DEF FailValidation, MarkCancelled, MarkPurged, Txn, At
<1>2. Working(r)
  BY <1>1 DEF Working
<1>3. row.state # "missing" /\ row \in RowType
  BY <1>1, RowThere, SourceType DEF Sound
<1>4. ~activeRun /\ (pc[r] = "fail" => row.state # "ready")
  BY <1>1, Parts DEF RowAt, Owned, Settled
<1>5. row'.meta = row.meta /\ row'.state \in {"failed", "expired", "deleted"}
  <2>1. CASE FailValidation(r)
    <3>1. row' = [FailedRow EXCEPT !.hash = Missing, !.path = "none"]
      BY <1>4, <2>1 DEF FailValidation, Txn, At
    <3> QED
      BY <1>3, <3>1 DEF FailedRow, RowType
  <2>2. CASE MarkCancelled(r)
    BY <1>3, <2>2 DEF MarkCancelled, FailedRow, RowType
  <2>3. CASE MarkPurged(r)
    <3>1. PICK st \in {"deleted", "expired", "failed"} :
              row' = [row EXCEPT !.purged = TRUE, !.state = st]
      BY <2>3 DEF MarkPurged
    <3> QED
      BY <1>3, <3>1 DEF RowType
  <2> QED
    BY <2>1, <2>2, <2>3
<1>6. RowFiles'
  BY <1>1, <1>3, <1>4, <1>5, EndedRow
<1> QED
  BY <1>1, <1>2, <1>6, AnswerSafe DEF Close

LEMMA RunCreateSafe ==
    ASSUME Sound, NEW r \in Requests, RunCreate(r)
    PROVE  SafeInv'
<1>1. Working(r) /\ pc[r] = "create" /\ Close(r) /\ UNCHANGED <<owner, disk>>
  BY TxnWorks DEF RunCreate, TxnSteps, Txn, At
<1>2. row.state = "ready" /\ ~row.due /\ owner = "active" /\ ~row.purged
  BY DEF RunCreate, LockedWorkspace, Usable
<1>3. row \in RowType
  BY <1>2, SourceType DEF Sound
<1>4. row' = row
  BY <1>2, <1>3 DEF RunCreate, RowType
<1>5. RowFiles'
  BY <1>1, <1>2, <1>4, Parts DEF RowFiles, Owned, Beside, Uploaded, ReadyHeld
<1> QED
  BY <1>1, <1>5, AnswerSafe DEF Close

(* The steps that answer and leave the row and the files.                  *)
LEMMA KeptEndsSafe ==
    ASSUME Sound, NEW r \in Requests, Close(r), UNCHANGED <<row, disk, owner, activeRun>>
    PROVE  SafeInv'
<1>1. RowFiles'
  BY Parts, KeepsRowFiles
<1>2. CASE Working(r)
  BY <1>1, <1>2, AnswerSafe DEF Close
<1>3. CASE ~Working(r)
  <2>1. /\ pc'[r] = "idle" /\ conn'[r] = "closed" /\ handle'[r] = "none"
        /\ \A s \in Requests \ {r} : /\ pc'[s] = pc[s] /\ arg'[s] = arg[s]
                                     /\ conn'[s] = conn[s] /\ handle'[s] = handle[s]
    BY Parts, Split DEF Close, Answer, ReqInv, DiskInv
  <2>2. ASSUME NEW s \in Requests \ {r} PROVE AtWork(s)'
    BY <2>1, Parts DEF AtWork, Served, RowAt, FilesAt, Working, Whole, Size
  <2> QED
    BY <1>1, <2>1, <2>2, IdleAtWork DEF SafeInv
<1> QED
  BY <1>2, <1>3

LEMMA RefusalsSafe ==
    ASSUME Sound, NEW r \in Requests,
           \/ ChunkTimeout(r) \/ ValidatingRefused(r) \/ ReadyRefused(r)
           \/ PurgeRefused(r) \/ RunUnresolved(r) \/ RunRefused(r) \/ OwnerGone(r)
           \/ Abort(r) \/ (RunHash(r) /\ Close(r))
    PROVE  SafeInv'
  BY KeptEndsSafe DEF ChunkTimeout, ValidatingRefused, ReadyRefused, PurgeRefused,
                      RunUnresolved, RunRefused, OwnerGone, Abort, RunHash, rowVars

LEMMA RejectChunkSafe ==
    ASSUME Sound, NEW r \in Requests, RejectChunk(r)
    PROVE  SafeInv'
<1>1. pc[r] = "write" /\ Working(r) /\ Close(r) /\ UNCHANGED <<row, owner, activeRun>>
  BY DEF RejectChunk, At, Working, rowVars
<1>2. /\ row.state = "uploading" /\ handle[r] = "part" /\ arg[r].from = row.received
      /\ arg[r].from <= arg[r].pos /\ disk["part"] # Missing
      /\ Len(disk["part"]) = arg[r].pos /\ arg[r] \in ArgType
  BY <1>1, Parts, Split DEF Served, RowAt, FilesAt, ReqInv
<1>3. /\ "part" \in Paths /\ row.meta.suffix \in Paths /\ row.meta.suffix # "part"
      /\ row.meta.size \in Nat /\ row.received \in Nat
      /\ SourcePaths(row.meta) = {"part", row.meta.suffix}
  BY <1>2, SourceType DEF Sound
<1> DEFINE content == Truncated(disk["part"], arg[r].from)
<1>4. disk' = [p \in Paths |-> IF p = "part" THEN content ELSE disk[p]]
  BY <1>2 DEF RejectChunk, Through
<1>5. Len(content) = row.received /\ content # Missing
  <2>1. content \in Contents
    BY <1>2, <1>3, FileType, TruncatedType DEF Sound
  <2>2. content \in Seq(Bytes) /\ content \in [1..row.received -> Bytes]
    <3>1. DOMAIN content = 1..row.received
      BY <1>2, <1>3 DEF Truncated
    <3> QED
      BY <2>1, <3>1, ElementOfSeq, LenProperties DEF Contents
  <2>3. Missing \notin Contents
    BY MissingAssumption DEF Contents, Bytes
  <2> HIDE DEF content
  <2> QED
    BY <1>3, <2>1, <2>2, <2>3, LenProperties
<1>6. Len(disk["part"]) \in Nat /\ row.received <= Len(disk["part"])
      /\ Len(disk["part"]) <= row.meta.size /\ disk[row.meta.suffix] = Missing
  BY <1>2, <1>3, Parts, FileType DEF Uploaded
<1> HIDE DEF content
<1>7. RowFiles'
  BY <1>1, <1>2, <1>3, <1>4, <1>5, <1>6, Parts
     DEF RowFiles, Owned, Beside, Uploaded, ReadyHeld
<1> QED
  BY <1>1, <1>7, AnswerSafe DEF Close

LEMMA TxnFailsSafe ==
    ASSUME Sound, NEW r \in Requests, TxnFails(r)
    PROVE  SafeInv'
<1>1. /\ Working(r) /\ pc[r] # "write" /\ Answer(r) /\ conn[r] = "locked"
      /\ UNCHANGED <<row, owner, activeRun>>
  <2>1. pc[r] \in TxnSteps \cup {"fail"} /\ Answer(r) /\ UNCHANGED <<row, owner, activeRun>>
    BY DEF TxnFails, rowVars
  <2>2. Working(r) /\ pc[r] # "write"
    BY <2>1 DEF Working, TxnSteps
  <2> QED
    BY <2>1, <2>2, Parts DEF Served
<1>2. PICK S \in SUBSET Paths :
         Unlink(S) /\ (S = {} \/ (row.state # "missing" /\ S = Reconciled.unlink))
  <2>1. Unlink(IF pc[r] \in Reconciling /\ row.state # "missing"
               THEN Reconciled.unlink ELSE {})
    BY <1>1 DEF TxnFails
  <2>2. CASE pc[r] \in Reconciling /\ row.state # "missing"
    BY <2>1, <2>2, ReconciledRow, Parts
  <2>3. CASE ~(pc[r] \in Reconciling /\ row.state # "missing")
    <3>1. Unlink({})
      BY <2>1, <2>3
    <3> QED
      BY <3>1
  <2> QED
    BY <2>2, <2>3
<1>3. RowFiles'
  <2>1. CASE S = {}
    BY <1>1, <1>2, <2>1, UnlinkNone, Parts, KeepsRowFiles DEF Unlink
  <2>2. CASE row.state \in {"uploading", "validating"} /\ S = Reconciled.unlink
    BY <1>1, <1>2, <2>2, ReconciledUpload, UnlinkNone, Parts, KeepsRowFiles DEF Unlink
  <2>3. CASE row.state \notin {"missing", "uploading", "validating"} /\ S = Reconciled.unlink
    <3>1. CASE S = {}
      BY <2>1, <3>1
    <3>2. CASE row.state = "failed"
      BY <1>1, <1>2, <3>2, UnlinkedFiles, Parts
         DEF Unlink, RowFiles, Owned, Beside, Uploaded, ReadyHeld
    <3> QED
      BY <2>3, <3>1, <3>2, ReconciledOther
  <2> QED
    BY <1>2, <2>1, <2>2, <2>3
<1> QED
  BY <1>1, <1>2, <1>3, AnswerSafe

-----------------------------------------------------------------------------
(* The steps that begin a request or move it on.                           *)

LEMMA ArriveSafe ==
    ASSUME Sound, NEW r \in Requests, Arrive(r)
    PROVE  SafeInv'
<1>1. PICK step \in {"initialize", "append", "status", "complete", "cancel", "run", "purge"},
           file \in Files \cup {Missing}, reason \in {"none", "session_deleted", "expired"} :
          /\ Begin(r, step, file, reason)
          /\ reason = "session_deleted" => owner = "deleted"
  BY DEF Arrive, BeginUpload, BeginAppend, BeginOther, BeginPurge
<1>2. /\ Others(r) /\ conn'[r] = "locked" /\ pc'[r] = step /\ Free /\ pc[r] = "idle"
      /\ arg'[r] = [Idle EXCEPT !.file = file, !.reason = reason]
      /\ UNCHANGED <<row, owner, activeRun, disk, handle>>
  BY <1>1, Parts, Split DEF Begin, GoTo, Acquire, Others, ReqInv, rowVars, At
<1>3. arg'[r].reason = reason
  BY <1>2 DEF Idle
<1>4. handle'[r] = "none"
  BY <1>2, Parts DEF Served
<1>5. AtWork(r)'
  BY <1>1, <1>2, <1>3, <1>4 DEF AtWork, Served, RowAt, FilesAt, Working, HasMeta
<1> QED
  BY <1>2, <1>5, SoloFrame, Parts, KeepsRowFiles

LEMMA AppendLoadSafe ==
    ASSUME Sound, NEW r \in Requests, AppendLoad(r)
    PROVE  SafeInv'
<1>1. Working(r) /\ pc[r] = "append"
  BY TxnWorks DEF AppendLoad, TxnSteps, Txn, At
<1>2. row.state # "missing" /\ row \in RowType /\ arg[r] \in ArgType
  BY <1>1, RowThere, SourceType, Parts, Split DEF ReqInv
<1>3. row.state = "uploading"
  <2>1. row.state \notin {"missing", "uploading", "validating"} =>
           Reconciled.row.state # "uploading"
    BY <1>2, ReconciledOther DEF FailedRow, RowType
  <2>2. row.state = "validating" => Reconciled.row.state # "uploading"
    BY <1>2, ReconciledUpload DEF RowType
  <2> QED
    BY <1>2, <2>1, <2>2 DEF AppendLoad
<1>4. row'.meta = row.meta /\ row'.state = "uploading" /\ row'.received = Size("part")
      /\ disk' = disk
  <2>1. disk[row.meta.suffix] = Missing
    BY <1>3, Parts DEF Uploaded
  <2>2. PICK n \in {Size("part"), Size(row.meta.suffix)}, d \in BOOLEAN :
           /\ Reconciled.row = [row EXCEPT !.received = n, !.due = d]
           /\ \/ disk["part"] # Missing /\ n = Size("part")
              \/ Linked(Paths) = {} /\ n = 0
    BY <1>3, <2>1, ReconciledUpload DEF AppendLoad
  <2>3. n = Size("part")
    BY <2>2, Parts DEF Size, Linked, Paths
  <2> QED
    BY <1>2, <1>3, <2>2, <2>3 DEF AppendLoad, RowType
<1>5. /\ arg'[r].from = row'.received /\ arg'[r].pos = row'.received
      /\ arg'[r].meta = row.meta /\ \A s \in Requests \ {r} : arg'[s] = arg[s]
  BY <1>2, Parts, Split DEF AppendLoad, ReqInv, ArgType
<1>6. RowFiles'
  <2>1. disk' = Unlinked(Reconciled.unlink)
    BY <1>3, <1>4, ReconciledUpload, Parts, Split DEF Unlinked, DiskInv
  <2> QED
    BY <1>2, <2>1, SameDue, ReconciledFiles, Parts DEF AppendLoad
<1>7. pc'[r] = "open" /\ handle'[r] = "none" /\ conn' = conn /\ pc' = [pc EXCEPT ![r] = "open"]
      /\ handle' = handle
  BY <1>1, Parts, Split DEF AppendLoad, GoTo, ReqInv, Served
<1>8. RowAt(r)' /\ FilesAt(r)'
  BY <1>4, <1>5, <1>7 DEF RowAt, FilesAt, Size
<1> QED
  BY <1>1, <1>5, <1>6, <1>7, <1>8, MoveSafe

LEMMA OpenSafe ==
    ASSUME Sound, NEW r \in Requests, Open(r)
    PROVE  SafeInv'
<1>1. Working(r) /\ pc[r] = "open" /\ UNCHANGED <<row, owner, activeRun, arg, conn>>
  BY DEF Open, At, Working, rowVars
<1>2. /\ row.state = "uploading" /\ arg[r].from = row.received /\ arg[r].meta = row.meta
      /\ arg[r].pos = row.received /\ Size("part") = row.received
  BY <1>1, Parts DEF RowAt, FilesAt, HasMeta
<1>3. /\ "part" \in Paths /\ row.meta.suffix \in Paths /\ row.meta.suffix # "part"
      /\ row.meta.size \in Nat /\ row.received \in Nat
      /\ SourcePaths(row.meta) = {"part", row.meta.suffix}
  BY <1>2, SourceType DEF Sound
<1>4. <<>> # Missing
  <2>1. <<>> \in Seq(Files \cup {"zero"})
    OBVIOUS
  <2> QED
    BY <2>1, MissingAssumption
<1>5. /\ disk'["part"] # Missing /\ Len(disk'["part"]) = row.received
      /\ \A p \in Paths \ {"part"} : disk'[p] = disk[p]
  BY <1>2, <1>3, <1>4, Parts, Split DEF Open, DiskInv, Size
<1>6. disk[row.meta.suffix] = Missing /\ row.received <= row.meta.size
  BY <1>2, <1>3, Parts DEF Uploaded, Size
<1>7. RowFiles'
  BY <1>1, <1>2, <1>3, <1>5, <1>6, Parts
     DEF RowFiles, Owned, Beside, Uploaded, ReadyHeld
<1>8. /\ pc' = [pc EXCEPT ![r] = "write"] /\ pc'[r] = "write" /\ handle'[r] = "part"
      /\ \A s \in Requests \ {r} : handle'[s] = handle[s]
  BY Parts, Split DEF Open, GoTo, ReqInv, DiskInv
<1>9. RowAt(r)' /\ FilesAt(r)'
  BY <1>1, <1>2, <1>3, <1>5, <1>8 DEF RowAt, FilesAt
<1> QED
  BY <1>1, <1>7, <1>8, <1>9, MoveSafe

LEMMA WrittenAtEnd ==
    ASSUME NEW content \in Contents, NEW byte \in Bytes
    PROVE  /\ Written(content, Len(content), byte) \in Contents
           /\ Len(Written(content, Len(content), byte)) = Len(content) + 1
           /\ \A i \in 1..(Len(content) + 1) :
                 Written(content, Len(content), byte)[i] =
                     IF i = Len(content) + 1 THEN byte ELSE content[i]
<1> DEFINE w == Written(content, Len(content), byte)
<1>1. Len(content) \in Nat
  BY LenProperties DEF Contents
<1>2. w \in Contents
  BY <1>1, WrittenType
<1>3. DOMAIN w = 1..(Len(content) + 1)
  BY <1>1 DEF Written
<1>4. Len(w) = Len(content) + 1
  <2>1. DOMAIN w = 1..Len(w) /\ Len(w) \in Nat
    BY <1>2, LenProperties DEF Contents
  <2> HIDE DEF w
  <2> QED
    BY <1>1, <1>3, <2>1
<1>5. \A i \in 1..(Len(content) + 1) :
         w[i] = IF i = Len(content) + 1 THEN byte ELSE content[i]
  BY <1>1 DEF Written
<1> QED
  BY <1>2, <1>4, <1>5

LEMMA WriteSafe ==
    ASSUME Sound, NEW r \in Requests, Write(r)
    PROVE  SafeInv'
<1>1. Working(r) /\ pc[r] = "write"
      /\ UNCHANGED <<row, owner, activeRun, conn, pc, handle>>
  BY DEF Write, At, Working, rowVars
<1>2. /\ row.state = "uploading" /\ arg[r].from = row.received /\ arg[r].meta = row.meta
      /\ arg[r].from <= arg[r].pos /\ disk["part"] # Missing
      /\ Len(disk["part"]) = arg[r].pos /\ handle[r] = "part"
      /\ arg[r] \in ArgType /\ arg[r].file \in Bytes
  BY <1>1, Parts, Split
     DEF RowAt, FilesAt, HasMeta, Served, ReqInv, ArgKnown, NamesFile, Bytes
<1>3. /\ "part" \in Paths /\ row.meta.suffix \in Paths /\ row.meta.suffix # "part"
      /\ row.meta.size \in Nat /\ row.received \in Nat /\ disk["part"] \in Contents
      /\ SourcePaths(row.meta) = {"part", row.meta.suffix}
  BY <1>2, SourceType, FileType DEF Sound
<1> DEFINE content == Written(disk["part"], Len(disk["part"]), arg[r].file)
<1>4. /\ content \in Contents /\ content # Missing /\ Len(content) = arg[r].pos + 1
  BY <1>2, <1>3, WrittenAtEnd, MissingAssumption DEF Contents, Bytes
<1>5. /\ disk'["part"] = content
      /\ \A p \in Paths \ {"part"} : disk'[p] = disk[p]
  BY <1>2, <1>3 DEF Write, Through
<1>6. arg[r].pos < row.meta.size
  BY <1>2 DEF Write, Room
<1>7. /\ arg'[r].pos = arg[r].pos + 1 /\ arg'[r].from = arg[r].from
      /\ arg'[r].meta = arg[r].meta /\ \A s \in Requests \ {r} : arg'[s] = arg[s]
  BY <1>2, Parts, Split DEF Write, ReqInv, ArgType
<1> HIDE DEF content
<1>8. arg[r].pos \in Nat /\ disk[row.meta.suffix] = Missing
  BY <1>2, Parts DEF ArgType, Uploaded
<1>9. RowFiles'
  BY <1>1, <1>2, <1>3, <1>4, <1>5, <1>6, <1>8, Parts
     DEF RowFiles, Owned, Beside, Uploaded, ReadyHeld
<1>10. RowAt(r)' /\ FilesAt(r)'
  BY <1>1, <1>2, <1>3, <1>4, <1>5, <1>7, <1>8 DEF RowAt, FilesAt
<1>11. pc' = [pc EXCEPT ![r] = "write"]
  BY <1>1, Parts, Split DEF ReqInv
<1> QED
  BY <1>1, <1>2, <1>7, <1>9, <1>10, <1>11, MoveSafe

LEMMA EndOfChunkSafe ==
    ASSUME Sound, NEW r \in Requests, EndOfChunk(r)
    PROVE  SafeInv'
<1>1. /\ Working(r) /\ pc[r] = "write" /\ pc' = [pc EXCEPT ![r] = "record"]
      /\ UNCHANGED <<row, owner, activeRun, disk, arg, conn>>
  BY DEF EndOfChunk, At, Working, rowVars, GoTo
<1>2. /\ pc'[r] = "record" /\ handle'[r] = "none"
      /\ \A s \in Requests \ {r} : handle'[s] = handle[s]
  BY <1>1, Parts, Split DEF EndOfChunk, ReqInv, DiskInv
<1>3. RowAt(r)' /\ FilesAt(r)'
  BY <1>1, <1>2, Parts DEF RowAt, FilesAt, HasMeta
<1> QED
  BY <1>1, <1>2, <1>3, Parts, KeepsRowFiles, MoveSafe

(* The steps between two transactions that leave the file handles.         *)
LEMMA PlainMove ==
    ASSUME Sound, NEW r \in Requests, Working(r), pc[r] # "write",
           NEW step \in Steps \ {"idle", "hash", "relock", "write"},
           pc' = [pc EXCEPT ![r] = step], conn' = conn, handle' = handle,
           \A s \in Requests \ {r} : arg'[s] = arg[s],
           pc'[r] = step => RowAt(r)' /\ FilesAt(r)', RowFiles'
    PROVE  SafeInv'
<1>1. handle'[r] = "none" /\ pc'[r] = step
  BY Parts, Split DEF Served, ReqInv
<1> QED
  BY <1>1, MoveSafe

LEMMA CompleteLoadSafe ==
    ASSUME Sound, NEW r \in Requests, CompleteLoad(r)
    PROVE  SafeInv'
<1>1. Working(r) /\ pc[r] = "complete"
  BY TxnWorks DEF CompleteLoad, TxnSteps, Txn, At
<1>2. row.state # "missing" /\ row \in RowType /\ arg[r] \in ArgType
  BY <1>1, RowThere, SourceType, Parts, Split DEF ReqInv
<1>3. row.state \in {"uploading", "validating"}
  BY <1>2, ReconciledOther DEF CompleteLoad, FailedRow, RowType, Settled
<1>4. row'.meta = row.meta /\ row'.state = row.state
  BY <1>2, <1>3, ReconciledUpload DEF CompleteLoad, RowType
<1>5. arg'[r].meta = row.meta /\ \A s \in Requests \ {r} : arg'[s] = arg[s]
  BY <1>2, Parts, Split DEF CompleteLoad, ReqInv, ArgType
<1>6. disk' = Unlinked(Reconciled.unlink)
  BY <1>3, ReconciledUpload, Parts, Split DEF CompleteLoad, Unlinked, DiskInv
<1>7. RowFiles'
  BY <1>2, <1>6, SameDue, ReconciledFiles, Parts DEF CompleteLoad
<1>8. pc'[r] = "candidate" => RowAt(r)' /\ FilesAt(r)'
  BY <1>3, <1>4, <1>5 DEF RowAt, FilesAt
<1>9. "candidate" \in Steps
  BY DEF Steps, FileSteps
<1> QED
  BY <1>1, <1>5, <1>7, <1>8, <1>9, PlainMove DEF CompleteLoad, GoTo

LEMMA CancelLoadSafe ==
    ASSUME Sound, NEW r \in Requests, CancelLoad(r)
    PROVE  SafeInv'
<1>1. Working(r) /\ pc[r] = "cancel"
  BY TxnWorks DEF CancelLoad, TxnSteps, Txn, At
<1>2. row.state # "missing" /\ row \in RowType /\ arg[r] \in ArgType
  BY <1>1, RowThere, SourceType, Parts, Split DEF ReqInv
<1>3. row'.meta = row.meta /\ row'.state \notin Settled
  BY <1>2, ReconciledType, Parts DEF CancelLoad, Inv
<1>4. arg'[r].meta = row.meta /\ \A s \in Requests \ {r} : arg'[s] = arg[s]
  BY <1>2, Parts, Split DEF CancelLoad, ReqInv, ArgType
<1>5. disk' = Unlinked(Reconciled.unlink)
  <2>1. Reconciled.unlink = {}
    BY <1>2, ReconciledUpload, ReconciledOther DEF CancelLoad
  <2> QED
    BY <2>1, Parts, Split DEF CancelLoad, Unlinked, DiskInv
<1>6. RowFiles'
  BY <1>2, <1>5, SameDue, ReconciledFiles, Parts DEF CancelLoad
<1>7. pc'[r] = "cancelUnlink" => RowAt(r)' /\ FilesAt(r)'
  BY <1>3, <1>4 DEF RowAt, FilesAt
<1>8. "cancelUnlink" \in Steps
  BY DEF Steps, FileSteps
<1> QED
  BY <1>1, <1>4, <1>6, <1>7, <1>8, PlainMove DEF CancelLoad, GoTo

LEMMA CandidateSafe ==
    ASSUME Sound, NEW r \in Requests, Candidate(r)
    PROVE  SafeInv'
<1>1. Working(r) /\ pc[r] = "candidate" /\ UNCHANGED <<row, owner, activeRun, disk, conn, handle>>
  BY DEF Candidate, At, Working, rowVars
<1>2. arg[r].meta = row.meta /\ row.state \in {"uploading", "validating"} /\ arg[r] \in ArgType
  BY <1>1, Parts, Split DEF RowAt, HasMeta, ReqInv
<1>3. SourcePaths(row.meta) = {"part", row.meta.suffix}
  BY <1>2, SourceType DEF Sound
<1>4. PICK path \in {"part", row.meta.suffix} :
         /\ arg' = [arg EXCEPT ![r].path = path]
         /\ pc' = [pc EXCEPT ![r] = IF Whole(path) THEN "validating" ELSE "failUnlink"]
  BY <1>2 DEF Candidate, GoTo, Whole
<1>5. /\ arg'[r].path = path /\ arg'[r].meta = row.meta
      /\ \A s \in Requests \ {r} : arg'[s] = arg[s]
  BY <1>2, <1>4, Parts, Split DEF ReqInv, ArgType
<1>6. CASE Whole(path)
  <2>1. pc'[r] = "validating" => RowAt(r)' /\ FilesAt(r)'
    BY <1>1, <1>2, <1>3, <1>5, <1>6 DEF RowAt, FilesAt, Whole
  <2>2. "validating" \in Steps
    BY DEF Steps, TxnSteps
  <2> QED
    BY <1>1, <1>4, <1>5, <1>6, <2>1, <2>2, Parts, KeepsRowFiles, PlainMove
<1>7. CASE ~Whole(path)
  <2>1. pc'[r] = "failUnlink" => RowAt(r)' /\ FilesAt(r)'
    BY <1>1, <1>2 DEF RowAt, FilesAt, HasMeta
  <2>2. "failUnlink" \in Steps
    BY DEF Steps, FileSteps
  <2> QED
    BY <1>1, <1>4, <1>5, <1>7, <2>1, <2>2, Parts, KeepsRowFiles, PlainMove
<1> QED
  BY <1>6, <1>7

LEMMA SetValidatingSafe ==
    ASSUME Sound, NEW r \in Requests, SetValidating(r)
    PROVE  SafeInv'
<1>1. Working(r) /\ pc[r] = "validating" /\ UNCHANGED <<owner, activeRun, disk, arg, conn, handle>>
  BY TxnWorks DEF SetValidating, TxnSteps, Txn, At
<1>2. /\ row.state \in {"uploading", "validating"} /\ arg[r].meta = row.meta
      /\ arg[r].path \in SourcePaths(row.meta) /\ Whole(arg[r].path)
  BY <1>1, Parts DEF RowAt, FilesAt, HasMeta
<1>3. /\ row'.state = "validating" /\ row'.meta = row.meta /\ row'.received = row.received
      /\ row'.purged = row.purged
  BY <1>2, SourceType DEF Sound, SetValidating, RowType
<1>4. RowFiles'
  BY <1>1, <1>2, <1>3, Parts DEF RowFiles, Owned, Beside, Uploaded, ReadyHeld
<1>5. pc'[r] = "probe" => RowAt(r)' /\ FilesAt(r)'
  BY <1>1, <1>2, <1>3 DEF RowAt, FilesAt, Whole
<1>6. "probe" \in Steps
  BY DEF Steps, FileSteps
<1> QED
  BY <1>1, <1>4, <1>5, <1>6, PlainMove DEF SetValidating, GoTo

LEMMA ProbesSafe ==
    ASSUME Sound, NEW r \in Requests, ProbeAndHash(r) \/ ProbeRefuses(r)
    PROVE  SafeInv'
<1>1. Working(r) /\ pc[r] = "probe" /\ UNCHANGED <<row, owner, activeRun, disk, conn, handle>>
  BY DEF ProbeAndHash, ProbeRefuses, At, Working, rowVars
<1>2. /\ row.state = "validating" /\ arg[r].meta = row.meta /\ arg[r] \in ArgType
      /\ arg[r].path \in SourcePaths(row.meta) /\ Whole(arg[r].path)
  BY <1>1, Parts, Split DEF RowAt, FilesAt, HasMeta, ReqInv
<1>3. CASE ProbeAndHash(r)
  <2>1. /\ arg'[r].digest = disk[arg[r].path] /\ arg'[r].path = arg[r].path
        /\ arg'[r].meta = arg[r].meta /\ \A s \in Requests \ {r} : arg'[s] = arg[s]
    BY <1>2, <1>3, Parts, Split DEF ProbeAndHash, ReqInv, ArgType
  <2>2. pc'[r] = "replace" => RowAt(r)' /\ FilesAt(r)'
    BY <1>1, <1>2, <2>1 DEF RowAt, FilesAt, Whole
  <2>3. "replace" \in Steps
    BY DEF Steps, FileSteps
  <2> QED
    BY <1>1, <1>3, <2>1, <2>2, <2>3, Parts, KeepsRowFiles, PlainMove DEF ProbeAndHash, GoTo
<1>4. CASE ProbeRefuses(r)
  <2>1. pc'[r] = "failUnlink" => RowAt(r)' /\ FilesAt(r)'
    BY <1>1, <1>2 DEF RowAt, FilesAt, HasMeta
  <2>2. "failUnlink" \in Steps
    BY DEF Steps, FileSteps
  <2> QED
    BY <1>1, <1>4, <2>1, <2>2, Parts, KeepsRowFiles, PlainMove DEF ProbeRefuses, GoTo
<1> QED
  BY <1>3, <1>4

LEMMA ReplaceSafe ==
    ASSUME Sound, NEW r \in Requests, Replace(r)
    PROVE  SafeInv'
<1> DEFINE final == row.meta.suffix
<1>1. Working(r) /\ pc[r] = "replace" /\ UNCHANGED <<row, owner, activeRun, arg, conn>>
  BY DEF Replace, At, Working, rowVars
<1>2. /\ row.state = "validating" /\ arg[r].meta = row.meta
      /\ arg[r].path \in {"part", final} /\ Whole(arg[r].path)
      /\ disk[arg[r].path] = arg[r].digest
      /\ final \in Paths /\ final # "part" /\ "part" \in Paths
      /\ SourcePaths(row.meta) = {"part", final}
  BY <1>1, Parts, SourceType DEF RowAt, FilesAt, HasMeta
<1>3. /\ disk["part"] # Missing => /\ disk[final] = Missing
                                   /\ row.received <= Len(disk["part"])
                                   /\ Len(disk["part"]) <= row.meta.size
      /\ ~activeRun
  BY <1>2, Parts DEF Uploaded, Owned
<1>4. "ready" \in Steps /\ "failUnlink" \in Steps
  BY DEF Steps, TxnSteps, FileSteps
<1>5. CASE arg[r].path = final /\ GoTo(r, "ready") /\ UNCHANGED <<disk, handle>>
  <2>1. disk["part"] = Missing
    BY <1>2, <1>3, <1>5 DEF Whole
  <2>2. pc'[r] = "ready" => RowAt(r)' /\ FilesAt(r)'
    BY <1>1, <1>2, <1>5, <2>1 DEF RowAt, FilesAt, Whole
  <2> QED
    BY <1>1, <1>4, <1>5, <2>2, Parts, KeepsRowFiles, PlainMove DEF GoTo
<1>6. CASE /\ arg[r].path # final
           /\ disk[final] # Missing \/ disk["part"] = Missing
           /\ GoTo(r, "failUnlink")
           /\ UNCHANGED <<disk, handle>>
  <2>1. pc'[r] = "failUnlink" => RowAt(r)' /\ FilesAt(r)'
    BY <1>1, <1>2 DEF RowAt, FilesAt, HasMeta
  <2> QED
    BY <1>1, <1>4, <1>6, <2>1, Parts, KeepsRowFiles, PlainMove DEF GoTo
<1>7. CASE /\ arg[r].path # final
           /\ disk[final] = Missing
           /\ disk["part"] # Missing
           /\ disk'   = [disk EXCEPT ![final] = disk["part"], !["part"] = Missing]
           /\ handle' = [s \in Requests |-> IF handle[s] = "part" THEN final ELSE handle[s]]
           /\ GoTo(r, "ready")
  <2>1. /\ disk'[final] = disk["part"] /\ disk'["part"] = Missing
        /\ \A p \in Paths \ {"part", final} : disk'[p] = disk[p]
    BY <1>2, <1>7, Parts, Split DEF DiskInv
  <2>2. /\ disk'[final] = arg[r].digest /\ disk'[final] # Missing
        /\ Len(disk'[final]) = row.meta.size
    BY <1>2, <1>7, <2>1 DEF Whole
  <2>3. RowFiles'
    <3>1. row.received <= row.meta.size
      BY <1>2, <1>3, <1>7 DEF Whole
    <3> QED
      BY <1>1, <1>2, <1>3, <2>1, <2>2, <3>1, Parts
         DEF RowFiles, Owned, Beside, Uploaded, ReadyHeld
  <2>4. ASSUME NEW s \in Requests PROVE handle'[s] = handle[s] /\ handle[s] = "none"
    <3>1. pc[s] # "write"
      BY <1>1, Alone DEF Working
    <3>2. handle[s] = "none"
      BY <3>1, Parts DEF Served
    <3> QED
      BY <1>7, <3>2
  <2>5. pc'[r] = "ready" => RowAt(r)' /\ FilesAt(r)'
    BY <1>1, <1>2, <2>1, <2>2 DEF RowAt, FilesAt, Whole
  <2>6. pc'[r] = "ready"
    BY <1>7, Parts, Split DEF GoTo, ReqInv
  <2> QED
    BY <1>1, <1>7, <2>3, <2>4, <2>5, <2>6, MoveSafe DEF GoTo
<1> QED
  BY <1>2, <1>5, <1>6, <1>7 DEF Replace

(* Files go, and the request goes on to what it says of the row.           *)
LEMMA UnlinksMove ==
    ASSUME Sound, NEW r \in Requests, Working(r), pc[r] # "write",
           NEW step \in {"fail", "cancelled", "purged"}, GoTo(r, step),
           NEW S \in SUBSET Paths, Unlink(S), UNCHANGED <<rowVars, arg, conn>>,
           \A p \in Paths \ S : disk[p] # Missing => row.state = "validating" /\ step = "fail",
           pc'[r] = step => RowAt(r)',
           row.state = "ready" => ~activeRun /\ (row.due \/ owner = "deleted")
    PROVE  SafeInv'
<1>1. ASSUME NEW s \in Requests PROVE handle'[s] = handle[s] /\ handle[s] = "none"
  <2>1. pc[s] # "write"
    BY Alone DEF Working
  <2> QED
    BY <2>1, OrphanNone
<1>2. pc' = [pc EXCEPT ![r] = step] /\ pc'[r] = step /\ UNCHANGED <<row, owner, activeRun>>
  BY Parts, Split DEF GoTo, ReqInv, rowVars
<1>3. FilesAt(r)'
  BY <1>2 DEF FilesAt
<1>4. RowFiles'
  BY <1>2, UnlinkedFiles, Parts, SourceType
     DEF Unlink, RowFiles, Owned, Beside, Uploaded, ReadyHeld
<1> QED
  BY <1>1, <1>2, <1>3, <1>4, MoveSafe

LEMMA UnlinksSafe ==
    ASSUME Sound, NEW r \in Requests, FailUnlink(r) \/ CancelUnlink(r) \/ PurgeUnlink(r)
    PROVE  SafeInv'
<1>1. /\ pc[r] \in {"failUnlink", "cancelUnlink", "purgeUnlink"} /\ Working(r)
      /\ UNCHANGED <<row, owner, activeRun, arg>>
  BY DEF FailUnlink, CancelUnlink, PurgeUnlink, At, Working, rowVars
<1>2. /\ row.state # "missing" /\ row \in RowType /\ conn[r] = "locked"
      /\ SourcePaths(row.meta) = {"part", row.meta.suffix}
      /\ SourcePaths(row.meta) \subseteq Paths /\ "part" \in Paths
  BY <1>1, RowThere, SourceType, Parts DEF Served
<1>3. \A p \in Paths : disk[p] # Missing => p \in {"part", row.meta.suffix}
  BY <1>2, Parts DEF Beside
<1>4. CASE FailUnlink(r)
  <2>1. pc[r] = "failUnlink" /\ GoTo(r, "fail") /\ row.state \in {"uploading", "validating"}
        /\ pc'[r] = "fail"
    BY <1>4, Parts, Split DEF FailUnlink, At, RowAt, GoTo, ReqInv
  <2>2. conn' = conn
    BY <1>2, <1>4, Parts, Split DEF FailUnlink, ReqInv
  <2>3. PICK S \in {SourcePaths(row.meta), {"part"}} : Unlink(S)
    BY <1>4 DEF FailUnlink
  <2>4. RowAt(r)'
    BY <1>1, <2>1 DEF RowAt, HasMeta
  <2>5. \A p \in Paths \ S : disk[p] # Missing => row.state = "validating"
    BY <1>2, <1>3, <2>1, <2>3, Parts DEF Uploaded
  <2> QED
    BY <1>1, <1>2, <2>1, <2>2, <2>3, <2>4, <2>5, UnlinksMove, Parts DEF rowVars
<1>5. CASE CancelUnlink(r)
  <2>1. /\ pc[r] = "cancelUnlink" /\ GoTo(r, "cancelled") /\ arg[r].meta = row.meta
        /\ row.state \notin Settled /\ pc'[r] = "cancelled" /\ conn' = conn
        /\ Unlink(SourcePaths(row.meta))
    BY <1>5, Parts, Split DEF CancelUnlink, At, RowAt, GoTo, ReqInv
  <2>2. RowAt(r)' /\ row.state # "ready"
    BY <1>1, <2>1 DEF RowAt, HasMeta, Settled
  <2> QED
    BY <1>1, <1>2, <1>3, <2>1, <2>2, UnlinksMove, Parts DEF rowVars
<1>6. CASE PurgeUnlink(r)
  <2>1. /\ pc[r] = "purgeUnlink" /\ GoTo(r, "purged") /\ arg[r].meta = row.meta
        /\ pc'[r] = "purged" /\ conn' = conn /\ Unlink(SourcePaths(row.meta))
        /\ ~activeRun /\ (row.due \/ owner = "deleted")
        /\ arg[r].reason = "session_deleted" => owner = "deleted"
    BY <1>6, Parts, Split DEF PurgeUnlink, At, RowAt, GoTo, ReqInv
  <2>2. RowAt(r)'
    BY <1>1, <2>1 DEF RowAt, HasMeta
  <2> QED
    BY <1>1, <1>2, <1>3, <2>1, <2>2, UnlinksMove, Parts DEF rowVars
<1> QED
  BY <1>4, <1>5, <1>6

LEMMA PurgeLoadSafe ==
    ASSUME Sound, NEW r \in Requests, PurgeLoad(r)
    PROVE  SafeInv'
<1>1. /\ Working(r) /\ pc[r] = "purge"
      /\ UNCHANGED <<row, owner, activeRun, disk, conn, handle>>
  BY TxnWorks DEF PurgeLoad, TxnSteps, Txn, At, rowVars
<1>2. /\ arg[r].reason = "session_deleted" => owner = "deleted"
      /\ arg[r] \in ArgType
  BY <1>1, Parts, Split DEF RowAt, ReqInv
<1>3. /\ arg'[r].meta = row.meta
      /\ arg'[r].reason = "session_deleted" => arg[r].reason = "session_deleted"
      /\ \A s \in Requests \ {r} : arg'[s] = arg[s]
  BY <1>2, Parts, Split DEF PurgeLoad, ReqInv, ArgType
<1>4. pc'[r] = "purgeUnlink" => RowAt(r)' /\ FilesAt(r)'
  BY <1>1, <1>2, <1>3 DEF RowAt, FilesAt, HasMeta, PurgeLoad
<1>5. "purgeUnlink" \in Steps
  BY DEF Steps, FileSteps
<1> QED
  BY <1>1, <1>3, <1>4, <1>5, Parts, KeepsRowFiles, PlainMove DEF PurgeLoad, GoTo

(* The creation of a run gives its lock back while it hashes.              *)
LEMMA RunsSafe ==
    ASSUME Sound, NEW r \in Requests, RunResolve(r) \/ (RunHash(r) /\ ~Close(r)) \/ RunLock(r)
    PROVE  SafeInv'
<1>1. UNCHANGED <<row, disk, owner, activeRun, handle>> /\ Others(r)
  BY Parts, Split
     DEF RunResolve, RunHash, RunLock, Others, GoTo, Acquire, ReqInv, rowVars
<1>2. AtWork(r)'
  <2>1. handle'[r] = "none"
    BY <1>1, Parts DEF RunResolve, RunHash, RunLock, Txn, At, Served
  <2>2. CASE RunResolve(r) \/ RunLock(r)
    <3>1. \/ pc'[r] = "hash" /\ conn'[r] = "closed"
          \/ pc'[r] = "create" /\ conn'[r] = "locked"
      BY <2>2, Parts, Split DEF RunResolve, RunLock, GoTo, Acquire, ReqInv
    <3> QED
      BY <2>1, <3>1 DEF AtWork, Served, RowAt, FilesAt, Working, HasMeta
  <2>3. CASE RunHash(r) /\ ~Close(r)
    <3>1. pc'[r] = "relock" /\ conn'[r] = "closed"
      BY <2>3, Parts, Split DEF RunHash, GoTo, ReqInv, Served, Working, At
    <3> QED
      BY <2>1, <3>1 DEF AtWork, Served, RowAt, FilesAt, Working, HasMeta
  <2> QED
    BY <2>2, <2>3
<1>3. RowFiles'
  BY <1>1, Parts, KeepsRowFiles
<1>4. CASE Working(r) \/ Free
  BY <1>1, <1>2, <1>3, <1>4, SoloFrame
<1>5. CASE ~(Working(r) \/ Free)
  <2>1. ASSUME NEW s \in Requests \ {r} PROVE AtWork(s)'
    BY <1>1, Parts DEF Others, AtWork, Served, RowAt, FilesAt, Working, Whole, Size
  <2> QED
    BY <1>2, <1>3, <2>1 DEF SafeInv
<1> QED
  BY <1>4, <1>5

-----------------------------------------------------------------------------
(* What happens around the requests.                                       *)

LEMMA AroundSafe ==
    ASSUME Sound, RunEnds \/ DeleteSession \/ Expire \/ UNCHANGED vars
    PROVE  SafeInv'
<1>1. PICK d \in BOOLEAN : row' = [row EXCEPT !.due = d]
  BY Parts, Split DEF RunEnds, DeleteSession, Expire, vars, RowInv, RowType
<1>2. /\ row'.state = row.state /\ row'.meta = row.meta /\ row'.received = row.received
      /\ row'.purged = row.purged /\ row'.path = row.path /\ row'.hash = row.hash
      /\ row'.due = d
  BY <1>1, Parts, Split DEF RowInv, RowType
<1>3. UNCHANGED <<disk, pc, arg, conn, handle>>
  BY DEF RunEnds, DeleteSession, Expire, vars, reqVars
<1>4. /\ row.state = "ready" /\ (activeRun' \/ (~row'.due /\ owner' = "active")) =>
            row.state = "ready" /\ (activeRun \/ (~row.due /\ owner = "active"))
      /\ activeRun' => activeRun /\ owner' = owner
      /\ owner = "deleted" => owner' = "deleted"
      /\ ~activeRun => ~activeRun' /\ (row.due => row'.due)
  BY <1>2, Parts DEF RunEnds, DeleteSession, Expire, vars, Owned
<1>5. RowFiles'
  BY <1>2, <1>3, <1>4, Parts DEF RowFiles, Owned, Beside, Uploaded, ReadyHeld
<1>6. ASSUME NEW r \in Requests PROVE AtWork(r)'
  <2>1. Served(r)'
    BY <1>3, Parts DEF Served, Working
  <2>2. RowAt(r)'
    BY <1>2, <1>3, <1>4, Parts DEF RowAt
  <2>3. FilesAt(r)'
    BY <1>2, <1>3, Parts DEF FilesAt, Whole, Size
  <2> QED
    BY <2>1, <2>2, <2>3 DEF AtWork
<1> QED
  BY <1>5, <1>6 DEF SafeInv

LEMMA StepSafe ==
    ASSUME Sound, NEW r \in Requests, Step(r)
    PROVE  SafeInv'
<1>1. CASE RunHash(r)
  BY <1>1, RunsSafe, RefusalsSafe
<1>2. CASE ~RunHash(r)
  BY <1>2, ReconcilersSafe, InitializeFirstSafe, InitializeAgainSafe, AppendLoadSafe,
     OpenSafe, WriteSafe, RejectChunkSafe, EndOfChunkSafe, RefusalsSafe,
     RecordChunkSafe, CompleteLoadSafe, CancelLoadSafe, CandidateSafe,
     SetValidatingSafe, ProbesSafe, ReplaceSafe, MarkReadySafe, UnlinksSafe,
     MarksSafe, PurgeLoadSafe, RunsSafe, RunCreateSafe, TxnFailsSafe DEF Step
<1> QED
  BY <1>1, <1>2

-----------------------------------------------------------------------------
(* The invariant while the locks are held.                                 *)

FaultsLeft == \A k \in FaultKinds : faults[k] <= MaxFaults[k]

SafeIInv == Inv /\ LockInv /\ FaultsLeft /\ (LocksHeld => SafeInv)

LEMMA FaultsShrink ==
    ASSUME Inv, [Next]_vars
    PROVE  \A k \in FaultKinds : faults'[k] <= faults[k]
<1>1. faults \in [FaultKinds -> Nat]
  BY Split DEF EnvInv
<1>2. \/ UNCHANGED faults
      \/ \E k \in FaultKinds : Fault(k)
  <2>1. ASSUME NEW r \in Requests, Arrive(r) \/ Step(r) \/ Disturb(r)
        PROVE  UNCHANGED faults \/ \E k \in FaultKinds : Fault(k)
    BY <2>1, Kinds
       DEF Arrive, BeginUpload, BeginAppend, BeginOther, BeginPurge, Begin, Disturb,
           LoseLock, Abort, Step, Status, AppendRefused, CompleteRefused, CancelRefused,
           ReconcileAndClose, InitializeFirst, InitializeAgain, AppendLoad, Open, Write,
           RejectChunk, EndOfChunk, ChunkTimeout, RecordChunk, CompleteLoad, Candidate,
           SetValidating, ValidatingRefused, ProbeAndHash, ProbeRefuses, Replace,
           MarkReady, ReadyRefused, FailUnlink, FailValidation, CancelLoad,
           CancelUnlink, MarkCancelled, PurgeLoad, PurgeRefused, PurgeUnlink,
           MarkPurged, RunResolve, RunUnresolved, RunHash, RunLock, RunCreate,
           RunRefused, OwnerGone, TxnFails
  <2> QED
    BY <2>1, Kinds DEF Next, RunEnds, DeleteSession, Expire, vars
<1> QED
  BY <1>1, <1>2 DEF Fault

(* A fault that has not happened after a step had not happened before it.  *)
LEMMA NotYet ==
    ASSUME Inv, FaultsLeft, [Next]_vars, NEW k \in FaultKinds
    PROVE  /\ faults'[k] <= MaxFaults[k]
           /\ faults'[k] = MaxFaults[k] => faults[k] = MaxFaults[k]
           /\ Fault(k) => faults'[k] # MaxFaults[k]
<1>1. faults \in [FaultKinds -> Nat] /\ faults' \in [FaultKinds -> Nat] /\ MaxFaults[k] \in Nat
  BY NextInv, Split, SplitPrime, FaultsAssumption DEF EnvInv
<1>2. faults'[k] <= faults[k] /\ faults[k] <= MaxFaults[k]
  BY FaultsShrink DEF FaultsLeft
<1> QED
  BY <1>1, <1>2 DEF Fault

LEMMA InitSafe == Init => SafeIInv
<1> SUFFICES ASSUME Init PROVE SafeIInv
  OBVIOUS
<1>1. FaultsLeft
  BY FaultsAssumption DEF Init, FaultsLeft
<1>2. RowFiles
  BY DEF Init, NoRow, RowFiles, Owned, Beside, Uploaded, ReadyHeld
<1>3. \A r \in Requests : AtWork(r)
  BY DEF Init, AtWork, Served, RowAt, FilesAt, Working, HasMeta
<1> QED
  BY <1>1, <1>2, <1>3, InitInv, InitLock DEF SafeIInv, SafeInv

LEMMA NextSafe == SafeIInv /\ [Next]_vars => SafeIInv'
<1> SUFFICES ASSUME SafeIInv, [Next]_vars PROVE SafeIInv'
  OBVIOUS
<1>1. Inv' /\ LockInv'
  BY NextInv, NextLock DEF SafeIInv
<1>2. FaultsLeft'
  BY NotYet DEF SafeIInv, FaultsLeft
<1>3. ASSUME LocksHeld' PROVE SafeInv'
  <2>1. Sound
    BY <1>3, NotYet, Kinds DEF SafeIInv, Sound, LocksHeld
  <2>2. ASSUME NEW r \in Requests PROVE ~LoseLock(r)
    BY <1>3, NotYet, Kinds DEF SafeIInv, LocksHeld, LoseLock
  <2>3. ASSUME NEW r \in Requests, Arrive(r) \/ Step(r) \/ Disturb(r) PROVE SafeInv'
    BY <2>1, <2>2, <2>3, ArriveSafe, StepSafe, RefusalsSafe DEF Disturb
  <2> QED
    BY <2>1, <2>3, AroundSafe DEF Next
<1> QED
  BY <1>1, <1>2, <1>3 DEF SafeIInv

(* Until a request loses its lock, whatever requests crash, stall, time    *)
(* out, fail or are refused by the database half-way, a queued or running  *)
(* run has the source it was created on (RunCreate, purge, cancel).        *)
THEOREM RunsKeepTheirSource == Spec => [](LocksHeld => RunKeepsSource)
<1>1. SafeIInv => (LocksHeld => RunKeepsSource)
  BY DEF SafeIInv, SafeInv, RowFiles, Owned, ReadyHeld, RunKeepsSource
<1> QED
  BY <1>1, InitSafe, NextSafe, PTL DEF Spec

-----------------------------------------------------------------------------
(* What a step of a request makes of the row.                              *)

Empty == \A p \in Paths : disk[p] = Missing

Ending == {"fail", "cancelled", "purged"}

LEMMA RowResult ==
    ASSUME Sound, NEW r \in Requests, Step(r)
    PROVE  \/ row' = row
           \/ /\ row.state # "missing" /\ disk' = Unlinked(Reconciled.unlink)
              /\ \E d \in BOOLEAN : row' = [Reconciled.row EXCEPT !.due = d]
           \/ /\ row.state \in {"missing", "failed"} /\ Empty'
              /\ \E meta \in Metas : row' = Uploading(meta)
           \/ SetValidating(r)
           \/ MarkReady(r)
           \/ /\ pc[r] \in Ending /\ UNCHANGED disk
              /\ row'.meta = row.meta /\ row'.state \in {"failed", "expired", "deleted"}
<1>1. CASE \/ Status(r) \/ AppendRefused(r) \/ CompleteRefused(r) \/ CancelRefused(r)
           \/ AppendLoad(r) \/ CompleteLoad(r) \/ CancelLoad(r)
  <2>1. pc[r] \notin {"idle", "initialize"} /\ row' = Reconciled.row
    BY <1>1 DEF Status, AppendRefused, CompleteRefused, CancelRefused, AppendLoad,
                CompleteLoad, CancelLoad, ReconcileAndClose, Txn, At
  <2>2. row.state # "missing"
    BY <2>1, RowThere, Parts
  <2>3. disk' = Unlinked(Reconciled.unlink)
    <3>1. CASE Status(r) \/ AppendRefused(r) \/ CompleteRefused(r) \/ CancelRefused(r)
      BY <3>1 DEF Status, AppendRefused, CompleteRefused, CancelRefused,
                  ReconcileAndClose, Unlink
    <3>2. CASE AppendLoad(r) \/ CompleteLoad(r) \/ CancelLoad(r)
      <4>1. Reconciled.ok /\ disk' = disk
        BY <3>2 DEF AppendLoad, CompleteLoad, CancelLoad
      <4>2. Reconciled.unlink = {}
        BY <2>2, <4>1, ReconciledUpload, ReconciledOther
      <4> QED
        BY <4>1, <4>2, Parts, Split DEF Unlinked, DiskInv
    <3> QED
      BY <1>1, <3>1, <3>2
  <2> QED
    BY <2>1, <2>2, <2>3, SameDue, Parts
<1>2. CASE RecordChunk(r)
  <2>1. row.state = "uploading"
    BY <1>2, Parts DEF RecordChunk, Txn, At, RowAt
  <2>2. Reconciled.row \in RowType
    BY <2>1, ReconciledRow, Parts
  <2>3. Reconciled.ok => Reconciled.row.state = "uploading"
    BY <2>1, ReconciledUpload, SourceType, Parts DEF RowType
  <2>4. row' = [Reconciled.row EXCEPT !.due = FALSE]
    <3>1. CASE Reconciled.ok
      BY <1>2, <2>2, <2>3, <3>1 DEF RecordChunk, RowType
    <3>2. CASE ~Reconciled.ok
      BY <1>2, <2>2, <3>2 DEF RecordChunk, RowType
    <3> QED
      BY <3>1, <3>2
  <2> QED
    BY <1>2, <2>1, <2>4 DEF RecordChunk, Unlink
<1>3. CASE InitializeFirst(r) \/ InitializeAgain(r)
  <2>1. Declared[arg[r].file] \in Metas
    BY <1>3, DeclaredType, Parts
       DEF Inv, ArgKnown, NamesFile, InitializeFirst, InitializeAgain, Txn, At
  <2>2. CASE InitializeFirst(r)
    BY <2>1, <2>2, Parts DEF InitializeFirst, Beside, Empty
  <2>3. CASE InitializeAgain(r) /\ Reconciled.ok /\ Reconciled.row.state = "failed"
    <3>1. row.state # "missing" /\ row' = Uploading(Declared[arg[r].file])
          /\ Unlink(SourcePaths(Reconciled.row.meta))
      BY <2>3 DEF InitializeAgain
    <3>2. Reconciled.row.meta = row.meta
      BY <3>1, ReconciledType, Parts DEF Inv
    <3>3. Empty'
      BY <3>1, <3>2, Parts DEF Beside, Unlink, Unlinked, Empty
    <3>4. row.state = "failed"
      <4>1. row \in RowType
        BY Parts, Split DEF RowInv
      <4>2. row.state \notin {"uploading", "validating"}
        BY <2>3, <4>1, ReconciledUpload DEF RowType
      <4> QED
        BY <2>3, <3>1, <4>2, ReconciledOther
    <3> QED
      BY <2>1, <3>1, <3>3, <3>4
  <2>4. CASE InitializeAgain(r) /\ ~(Reconciled.ok /\ Reconciled.row.state = "failed")
    <3> DEFINE d == Reconciled.row.due
                      /\ ~( /\ Reconciled.ok
                            /\ Reconciled.row.state \in {"uploading", "validating"}
                            /\ Reconciled.row.meta = Declared[arg[r].file] )
    <3>1. row' = [Reconciled.row EXCEPT !.due = d] /\ Unlink(Reconciled.unlink)
          /\ row.state # "missing" /\ d \in BOOLEAN
      BY <2>4 DEF InitializeAgain
    <3> QED
      BY <3>1 DEF Unlink
  <2> QED
    BY <1>3, <2>2, <2>3, <2>4
<1>4. CASE RunCreate(r)
  BY <1>4, Parts, Split DEF RunCreate, LockedWorkspace, Usable, RowInv, RowType
<1>5. CASE FailValidation(r) \/ MarkCancelled(r) \/ MarkPurged(r)
  <2>1. pc[r] \in Ending /\ UNCHANGED disk
    BY <1>5 DEF FailValidation, MarkCancelled, MarkPurged, Txn, At, Ending
  <2>2. row \in RowType
    BY Parts, Split DEF RowInv
  <2>3. CASE FailValidation(r)
    <3>1. row' = row \/ row' = [FailedRow EXCEPT !.hash = Missing, !.path = "none"]
      BY <2>3 DEF FailValidation
    <3> QED
      BY <2>1, <2>2, <3>1 DEF FailedRow, RowType
  <2>4. CASE MarkCancelled(r)
    BY <2>1, <2>2, <2>4 DEF MarkCancelled, FailedRow, RowType
  <2>5. CASE MarkPurged(r)
    <3>1. PICK st \in {"deleted", "expired", "failed"} :
              row' = [row EXCEPT !.purged = TRUE, !.state = st]
      BY <2>5 DEF MarkPurged
    <3> QED
      BY <2>1, <2>2, <3>1 DEF RowType
  <2> QED
    BY <1>5, <2>3, <2>4, <2>5
<1>6. CASE row' # row
  BY <1>1, <1>2, <1>3, <1>4, <1>5, <1>6
     DEF Step, Open, Write, RejectChunk, EndOfChunk, ChunkTimeout, Candidate,
         ValidatingRefused, ProbeAndHash, ProbeRefuses, Replace, ReadyRefused,
         FailUnlink, CancelUnlink, PurgeLoad, PurgeRefused, PurgeUnlink,
         RunResolve, RunUnresolved, RunHash, RunLock, RunRefused, OwnerGone,
         TxnFails, rowVars
<1> QED
  BY <1>6

LEMMA ElsewhereRow ==
    ASSUME Inv, [Next]_vars, \A r \in Requests : ~Step(r)
    PROVE  /\ \E d \in BOOLEAN : row' = [row EXCEPT !.due = d]
           /\ UNCHANGED disk
<1>1. row \in RowType
  BY Split DEF RowInv
<1>2. row = [row EXCEPT !.due = row.due] /\ row.due \in BOOLEAN
  BY <1>1 DEF RowType
<1>3. ASSUME NEW r \in Requests, Arrive(r) \/ Disturb(r)
      PROVE  row' = row /\ disk' = disk
  BY <1>3 DEF Arrive, BeginUpload, BeginAppend, BeginOther, BeginPurge, Begin,
              Disturb, LoseLock, Abort, rowVars
<1>4. CASE RunEnds \/ DeleteSession \/ Expire \/ UNCHANGED vars
  BY <1>1, <1>2, <1>4 DEF RunEnds, DeleteSession, Expire, vars, RowType
<1> QED
  BY <1>2, <1>3, <1>4 DEF Next

-----------------------------------------------------------------------------
(* An upload fails on purpose only.                                        *)

OnPurpose ==
    row.state \in {"uploading", "validating"} /\ row'.state = "failed" =>
        \/ \E r \in Requests : pc[r] \in {"cancelled", "purged", "fail"}
        \/ Linked(Paths) = {}

LEMMA StepOnPurpose == SafeIInv /\ LocksHeld /\ [Next]_vars => [OnPurpose]_row
<1> SUFFICES ASSUME SafeIInv, LocksHeld, [Next]_vars,
                    row.state \in {"uploading", "validating"}, row'.state = "failed"
             PROVE  \/ \E r \in Requests : pc[r] \in {"cancelled", "purged", "fail"}
                    \/ Linked(Paths) = {}
  BY DEF OnPurpose
<1>1. Sound /\ row \in RowType
  BY Split DEF SafeIInv, Sound, RowInv
<1>2. ASSUME NEW r \in Requests, Step(r)
      PROVE  pc[r] \in {"cancelled", "purged", "fail"} \/ Linked(Paths) = {}
  <2>1. CASE \E d \in BOOLEAN : row' = [Reconciled.row EXCEPT !.due = d]
    <3>1. Reconciled.row \in RowType
      BY <1>1, ReconciledRow, Parts
    <3> QED
      BY <1>1, <2>1, <3>1, ReconciledFails DEF RowType
  <2>2. CASE SetValidating(r) \/ MarkReady(r)
    BY <1>1, <2>2 DEF SetValidating, MarkReady, RowType
  <2> QED
    BY <1>1, <1>2, <2>1, <2>2, RowResult, FreshRow DEF Ending
<1>3. CASE \A r \in Requests : ~Step(r)
  BY <1>1, <1>3, ElsewhereRow, Parts DEF RowType
<1> QED
  BY <1>2, <1>3

(* While no request loses its lock, an upload never fails because a chunk  *)
(* stalled, was rejected or was cut by a crash: only when it is cancelled, *)
(* purged or refused, or after one of these had taken its files.           *)
THEOREM UploadsFailOnPurpose == Spec /\ []LocksHeld => FailsOnPurpose
<1>1. SafeIInv /\ LocksHeld /\ [Next]_vars => [OnPurpose]_row
  BY StepOnPurpose
<1> QED
  BY <1>1, InitSafe, NextSafe, PTL DEF Spec, FailsOnPurpose, OnPurpose

-----------------------------------------------------------------------------
(* No step but an append makes a file that was not there.                  *)

Copied ==
    \A p \in Paths : disk'[p] # Missing =>
        \E q \in Paths : disk[q] # Missing /\ disk'[p] = disk[q]

LEMMA StepCopies ==
    ASSUME Sound, NEW r \in Requests, Step(r), ~(Open(r) \/ Write(r) \/ RejectChunk(r))
    PROVE  Copied
<1>1. \/ UNCHANGED disk
      \/ \E S : Unlink(S)
      \/ Replace(r)
  BY DEF Step, Status, AppendRefused, CompleteRefused, CancelRefused,
         ReconcileAndClose, InitializeFirst, InitializeAgain, AppendLoad,
         EndOfChunk, ChunkTimeout, RecordChunk, CompleteLoad, Candidate,
         SetValidating, ValidatingRefused, ProbeAndHash, ProbeRefuses, MarkReady,
         ReadyRefused, FailUnlink, FailValidation, CancelLoad, CancelUnlink,
         MarkCancelled, PurgeLoad, PurgeRefused, PurgeUnlink, MarkPurged,
         RunResolve, RunUnresolved, RunHash, RunLock, RunCreate, RunRefused,
         OwnerGone, TxnFails
<1>2. CASE \E S : Unlink(S)
  BY <1>2, UnlinkedFiles DEF Unlink, Copied
<1>3. CASE Replace(r)
  <2>1. arg[r].meta.suffix \in Paths /\ "part" \in Paths
    BY <1>3, MetaType, Parts DEF Replace, At, Inv, ArgKnown, HasMeta, Paths
  <2>2. \/ UNCHANGED disk
        \/ disk' = [disk EXCEPT ![arg[r].meta.suffix] = disk["part"], !["part"] = Missing]
    BY <1>3 DEF Replace
  <2> QED
    BY <2>1, <2>2, Parts, Split DEF Copied, DiskInv
<1> QED
  BY <1>1, <1>2, <1>3 DEF Copied

-----------------------------------------------------------------------------
(* Nothing is left of a purged source, unless a statement failed.          *)

DatabaseAnswers == faults["dbError"] = MaxFaults["dbError"]

Cleaned ==
    /\ row.purged => Empty
    /\ \A r \in Requests : pc[r] \in Ending => Empty

LEMMA EmptyStays ==
    ASSUME Empty, Copied
    PROVE  Empty'
  BY DEF Empty, Copied

(* The requests a step of r leaves alone.                                  *)
LEMMA OthersStay ==
    ASSUME Sound, NEW r \in Requests, Step(r)
    PROVE  \A s \in Requests \ {r} : pc'[s] = pc[s]
<1>1. pc \in [Requests -> Steps]
  BY Parts, Split DEF ReqInv
<1> QED
  BY <1>1
     DEF Step, Status, AppendRefused, CompleteRefused, CancelRefused,
         ReconcileAndClose, InitializeFirst, InitializeAgain, AppendLoad, Open, Write,
         RejectChunk, EndOfChunk, ChunkTimeout, RecordChunk, CompleteLoad, Candidate,
         SetValidating, ValidatingRefused, ProbeAndHash, ProbeRefuses, Replace, MarkReady,
         ReadyRefused, FailUnlink, FailValidation, CancelLoad, CancelUnlink,
         MarkCancelled, PurgeLoad, PurgeRefused, PurgeUnlink, MarkPurged,
         RunResolve, RunUnresolved, RunHash, RunLock, RunCreate, RunRefused,
         OwnerGone, TxnFails, Close, Answer, GoTo

LEMMA RowCleaned ==
    ASSUME Sound, Cleaned, NEW r \in Requests, Step(r), row'.purged
    PROVE  Empty'
<1>1. row \in RowType
  BY Parts, Split DEF RowInv
<1>2. CASE row.purged
  <2>1. row.state \in {"failed", "expired", "deleted"}
    BY <1>2, Parts DEF Owned
  <2>2. ~(Open(r) \/ Write(r) \/ RejectChunk(r))
    BY <2>1, Parts DEF Open, Write, RejectChunk, At, RowAt
  <2> QED
    BY <1>2, <2>2, StepCopies, EmptyStays DEF Cleaned
<1>3. CASE ~row.purged
  <2>1. CASE /\ row.state # "missing" /\ disk' = Unlinked(Reconciled.unlink)
             /\ \E d \in BOOLEAN : row' = [Reconciled.row EXCEPT !.due = d]
    <3>1. Reconciled.row.purged
      BY <2>1, ReconciledRow, Parts DEF RowType
    <3>2. Reconciled.unlink = Linked(Paths)
      BY <1>1, <1>3, <2>1, <3>1, ReconciledUpload, ReconciledOther DEF RowType
    <3> QED
      BY <2>1, <3>2 DEF Unlinked, Linked, Empty
  <2>2. CASE pc[r] \in Ending /\ UNCHANGED disk
    BY <2>2 DEF Cleaned, Empty
  <2>3. CASE SetValidating(r) \/ MarkReady(r)
    BY <1>1, <1>3, <2>3 DEF SetValidating, MarkReady, RowType
  <2> QED
    BY <1>3, <2>1, <2>2, <2>3, RowResult, FreshRow
<1> QED
  BY <1>2, <1>3

LEMMA EndingCleaned ==
    ASSUME Sound, Cleaned, NEW r \in Requests, Step(r), ~Fault("dbError"),
           NEW s \in Requests, pc'[s] \in Ending
    PROVE  Empty'
<1>1. CASE pc[s] \in Ending
  <2>1. ~(Open(r) \/ Write(r) \/ RejectChunk(r))
    <3>1. Working(s) /\ pc[s] \notin {"open", "write"}
      BY <1>1 DEF Working, Ending
    <3> QED
      BY <3>1, Alone DEF Open, Write, RejectChunk, At, Working
  <2> QED
    BY <1>1, <2>1, StepCopies, EmptyStays DEF Cleaned
<1>2. CASE pc[s] \notin Ending
  <2>1. s = r
    BY <1>2, OthersStay
  <2>2. FailUnlink(r) \/ CancelUnlink(r) \/ PurgeUnlink(r)
    <3>1. pc \in [Requests -> Steps]
      BY Parts, Split DEF ReqInv
    <3> QED
      BY <1>2, <2>1, <3>1
         DEF Step, Status, AppendRefused, CompleteRefused, CancelRefused,
             ReconcileAndClose, InitializeFirst, InitializeAgain, AppendLoad, Open, Write,
             RejectChunk, EndOfChunk, ChunkTimeout, RecordChunk, CompleteLoad, Candidate,
             SetValidating, ValidatingRefused, ProbeAndHash, ProbeRefuses, Replace,
             MarkReady, ReadyRefused, FailValidation, CancelLoad, MarkCancelled, PurgeLoad,
             PurgeRefused, MarkPurged, RunResolve, RunUnresolved, RunHash, RunLock,
             RunCreate, RunRefused, OwnerGone, TxnFails, Close, Answer, GoTo, Ending
  <2>3. conn[r] = "locked" /\ pc[r] \in {"failUnlink", "cancelUnlink", "purgeUnlink"}
    BY <2>2, Parts DEF FailUnlink, CancelUnlink, PurgeUnlink, At, Served, Working
  <2>4. Unlink(SourcePaths(row.meta))
    <3>1. CASE FailUnlink(r)
      <4>1. (conn[r] # "broken" /\ Unlink(SourcePaths(row.meta))) \/ Fault("dbError")
        BY <2>3, <3>1 DEF FailUnlink
      <4> QED
        BY <4>1
    <3>2. CASE CancelUnlink(r) \/ PurgeUnlink(r)
      BY <3>2, Parts DEF CancelUnlink, PurgeUnlink, RowAt, At
    <3> QED
      BY <2>2, <3>1, <3>2
  <2> QED
    BY <2>4, Parts DEF Beside, Unlink, Unlinked, Empty
<1> QED
  BY <1>1, <1>2

LEMMA NextCleaned ==
    ASSUME Sound, Cleaned, [Next]_vars, ~Fault("dbError")
    PROVE  Cleaned'
<1>1. ASSUME NEW r \in Requests, Step(r) PROVE Cleaned'
  BY <1>1, RowCleaned, EndingCleaned DEF Cleaned
<1>2. CASE \A r \in Requests : ~Step(r)
  <2>1. row'.purged = row.purged /\ (Empty => Empty')
    BY <1>2, ElsewhereRow, Parts, Split DEF RowInv, RowType, Empty
  <2>2. ASSUME NEW s \in Requests, pc'[s] \in Ending PROVE pc[s] \in Ending
    <3>1. ASSUME NEW r \in Requests, Arrive(r) PROVE pc[s] \in Ending
      <4>1. PICK step \in {"initialize", "append", "status", "complete", "cancel", "run",
                           "purge"} : GoTo(r, step)
        BY <3>1 DEF Arrive, BeginUpload, BeginAppend, BeginOther, BeginPurge, Begin
      <4> QED
        BY <2>2, <4>1, Parts, Split DEF GoTo, ReqInv, Ending
    <3>2. ASSUME NEW r \in Requests, Disturb(r) PROVE pc[s] \in Ending
      BY <2>2, <3>2, Parts, Split DEF Disturb, LoseLock, Abort, Close, Answer, ReqInv, Ending
    <3>3. CASE RunEnds \/ DeleteSession \/ Expire \/ UNCHANGED vars
      BY <2>2, <3>3 DEF RunEnds, DeleteSession, Expire, vars, reqVars
    <3> QED
      BY <1>2, <3>1, <3>2, <3>3 DEF Next
  <2> QED
    BY <2>1, <2>2 DEF Cleaned
<1> QED
  BY <1>1, <1>2

CleanIInv == SafeIInv /\ (LocksHeld /\ DatabaseAnswers => Cleaned)

LEMMA InitCleaned == Init => CleanIInv
  BY InitSafe DEF CleanIInv, Init, NoRow, Cleaned, Ending

LEMMA NextCleanIInv == CleanIInv /\ [Next]_vars => CleanIInv'
<1> SUFFICES ASSUME CleanIInv, [Next]_vars, LocksHeld', DatabaseAnswers'
             PROVE  Cleaned'
  BY NextSafe DEF CleanIInv
<1>1. LocksHeld /\ DatabaseAnswers /\ ~Fault("dbError")
  BY NotYet, Kinds DEF CleanIInv, SafeIInv, LocksHeld, DatabaseAnswers
<1> QED
  BY <1>1, NextCleaned DEF CleanIInv, SafeIInv, Sound

(* Until a lock is lost or the database refuses a statement, no file of a  *)
(* source that counts as purged is left, in whatever order uploads,        *)
(* cancellations, failed validations, purges and crashes come (purge,      *)
(* cancel, _fail_validation, _reconcile_locked).                           *)
THEOREM PurgesAreThorough ==
    Spec => [](LocksHeld /\ DatabaseAnswers => PurgedLeavesNothing)
<1>1. CleanIInv => (LocksHeld /\ DatabaseAnswers => PurgedLeavesNothing)
  BY DEF CleanIInv, Cleaned, Empty, Linked, PurgedLeavesNothing
<1> QED
  BY <1>1, InitCleaned, NextCleanIInv, PTL DEF Spec

-----------------------------------------------------------------------------
(* The bytes of a source are those of one declared file.                   *)

(* Files that clients upload differ in what is declared of them, and a     *)
(* chunk comes from a file declared as the session's source is.            *)
ToldApart == \A f, g \in Files : Declared[f] = Declared[g] => f = g

SameSource == \A r \in Requests : pc[r] = "write" => Declared[arg[r].file] = row.meta

Own(content, meta) ==
    \A i \in 1..Len(content) : content[i] \in Files /\ Declared[content[i]] = meta

OwnBytes ==
    /\ \A p \in Paths : disk[p] # Missing => Own(disk[p], row.meta)
    /\ row.state = "ready" =>
          /\ row.hash \in Contents /\ Len(row.hash) = row.meta.size
          /\ Own(row.hash, row.meta)

LEMMA OwnMeta ==
    ASSUME Sound, NEW r \in Requests, Step(r)
    PROVE  row'.meta = row.meta \/ Empty'
<1>1. row \in RowType
  BY Parts, Split DEF RowInv
<1>2. row.state # "missing" => Reconciled.row \in RowType /\ Reconciled.row.meta = row.meta
  BY ReconciledType, Parts DEF Inv
<1>3. SetValidating(r) \/ MarkReady(r) => row'.meta = row.meta
  BY <1>1 DEF SetValidating, MarkReady, RowType
<1>4. ASSUME row.state # "missing", NEW d \in BOOLEAN, row' = [Reconciled.row EXCEPT !.due = d]
      PROVE  row'.meta = row.meta
  BY <1>2, <1>4 DEF RowType
<1> QED
  BY <1>3, <1>4, RowResult

LEMMA OwnReady ==
    ASSUME Sound, NEW r \in Requests, Step(r), row'.state = "ready"
    PROVE  \/ row.state = "ready" /\ row'.hash = row.hash /\ row'.meta = row.meta
           \/ MarkReady(r)
<1>1. row \in RowType
  BY Parts, Split DEF RowInv
<1>2. ASSUME row.state # "missing", NEW d \in BOOLEAN, row' = [Reconciled.row EXCEPT !.due = d]
      PROVE  row.state = "ready" /\ row'.hash = row.hash /\ row'.meta = row.meta
  <2>1. Reconciled.row \in RowType
    BY <1>2, ReconciledRow, Parts
  <2>2. Reconciled.row.state = "ready"
    BY <1>2, <2>1 DEF RowType
  <2>3. row.state = "ready" /\ Reconciled.row = row
    BY <1>2, <2>2, ReconciledState, Parts DEF Settled
  <2> QED
    BY <1>1, <1>2, <2>3 DEF RowType
<1>3. ~SetValidating(r)
  BY <1>1 DEF SetValidating, RowType
<1> QED
  BY <1>2, <1>3, RowResult, FreshRow

(* The files after a chunk is written or rejected.                         *)
LEMMA OwnChunks ==
    ASSUME Sound, OwnBytes, SameSource, NEW r \in Requests,
           Open(r) \/ Write(r) \/ RejectChunk(r)
    PROVE  \A p \in Paths : disk'[p] # Missing => Own(disk'[p], row.meta)
<1>1. CASE Open(r)
  <2>1. disk' = [disk EXCEPT !["part"] = IF @ = Missing THEN <<>> ELSE @]
        /\ disk \in [Paths -> Contents \cup {Missing}]
    BY <1>1, Parts, Split DEF Open, DiskInv
  <2>2. Own(<<>>, row.meta)
    BY DEF Own
  <2> QED
    BY <2>1, <2>2 DEF OwnBytes
<1>2. CASE Write(r)
  <2>1. /\ pc[r] = "write" /\ handle[r] = "part" /\ disk["part"] # Missing
        /\ Len(disk["part"]) = arg[r].pos /\ "part" \in Paths
        /\ arg[r].file \in Files /\ Declared[arg[r].file] = row.meta
    BY <1>2, Parts DEF Write, At, Served, FilesAt, Inv, ArgKnown, NamesFile, Paths, SameSource
  <2>2. disk["part"] \in Contents /\ Len(disk["part"]) \in Nat
    BY <2>1, FileType, Parts
  <2> DEFINE w == Written(disk["part"], Len(disk["part"]), arg[r].file)
  <2>3. /\ Len(w) = Len(disk["part"]) + 1
        /\ \A i \in 1..(Len(disk["part"]) + 1) :
              w[i] = IF i = Len(disk["part"]) + 1 THEN arg[r].file ELSE disk["part"][i]
    <3>1. arg[r].file \in Bytes
      BY <2>1 DEF Bytes
    <3> QED
      BY <2>2, <3>1, WrittenAtEnd
  <2>4. \A p \in Paths : disk'[p] = IF p = "part" THEN w ELSE disk[p]
    BY <1>2, <2>1 DEF Write, Through
  <2> HIDE DEF w
  <2>5. Own(w, row.meta)
    <3>1. Own(disk["part"], row.meta)
      BY <2>1 DEF OwnBytes
    <3>2. \A i \in 1..Len(w) : i = Len(disk["part"]) + 1 \/ i \in 1..Len(disk["part"])
      BY <2>2, <2>3
    <3> QED
      BY <2>1, <2>2, <2>3, <3>1, <3>2 DEF Own
  <2> QED
    BY <2>4, <2>5 DEF OwnBytes
<1>3. CASE RejectChunk(r)
  <2>1. /\ pc[r] = "write" /\ handle[r] = "part" /\ disk["part"] # Missing
        /\ Len(disk["part"]) = arg[r].pos /\ "part" \in Paths
        /\ arg[r].from <= arg[r].pos /\ arg[r] \in ArgType
    BY <1>3, Parts, Split DEF RejectChunk, At, Served, FilesAt, ReqInv, Paths
  <2>2. arg[r].from \in Nat /\ arg[r].pos \in Nat /\ disk["part"] \in Contents
    BY <2>1, FileType, Parts DEF ArgType
  <2> DEFINE t == Truncated(disk["part"], arg[r].from)
  <2>3. \A i \in 1..arg[r].from : t[i] = disk["part"][i] /\ i \in 1..Len(disk["part"])
    BY <2>1, <2>2 DEF Truncated
  <2>4. Len(t) = arg[r].from
    <3>1. t \in Contents /\ DOMAIN t = 1..arg[r].from
      BY <2>2, TruncatedType DEF Truncated
    <3>2. Len(t) \in Nat /\ DOMAIN t = 1..Len(t)
      BY <3>1, LenProperties DEF Contents
    <3> HIDE DEF t
    <3> QED
      BY <2>2, <3>1, <3>2
  <2>5. \A p \in Paths : disk'[p] = IF p = "part" THEN t ELSE disk[p]
    BY <1>3, <2>1 DEF RejectChunk, Through
  <2> HIDE DEF t
  <2>6. Own(t, row.meta)
    BY <2>1, <2>3, <2>4 DEF Own, OwnBytes
  <2> QED
    BY <2>5, <2>6 DEF OwnBytes
<1> QED
  BY <1>1, <1>2, <1>3

LEMMA NextOwn ==
    ASSUME Sound, OwnBytes, SameSource, [Next]_vars
    PROVE  OwnBytes'
<1>1. ASSUME NEW r \in Requests, Step(r)
      PROVE  OwnBytes'
  <2>1. \A p \in Paths : disk'[p] # Missing => Own(disk'[p], row'.meta)
    <3>1. CASE Open(r) \/ Write(r) \/ RejectChunk(r)
      <4>1. row' = row
        BY <3>1 DEF Open, Write, RejectChunk, rowVars
      <4> QED
        BY <3>1, <4>1, OwnChunks
    <3>2. CASE ~(Open(r) \/ Write(r) \/ RejectChunk(r))
      BY <1>1, <3>2, StepCopies, OwnMeta DEF Copied, Empty, OwnBytes
    <3> QED
      BY <3>1, <3>2
  <2>2. ASSUME row'.state = "ready"
        PROVE  /\ row'.hash \in Contents /\ Len(row'.hash) = row'.meta.size
               /\ Own(row'.hash, row'.meta)
    <3>1. CASE row.state = "ready" /\ row'.hash = row.hash /\ row'.meta = row.meta
      BY <3>1 DEF OwnBytes
    <3>2. CASE MarkReady(r)
      <4>1. /\ Whole(row.meta.suffix) /\ disk[row.meta.suffix] = arg[r].digest
            /\ row.state = "validating"
        BY <3>2, Parts DEF MarkReady, Txn, At, FilesAt
      <4>2. row \in RowType /\ row.meta.suffix \in Paths
        BY <4>1, SourceType, Parts
      <4>3. row'.hash = arg[r].digest /\ row'.meta = row.meta
        BY <3>2, <4>2 DEF MarkReady, RowType
      <4> QED
        BY <4>1, <4>2, <4>3, FileType, Parts DEF OwnBytes, Whole
    <3> QED
      BY <1>1, <2>2, <3>1, <3>2, OwnReady
  <2> QED
    BY <2>1, <2>2 DEF OwnBytes
<1>2. CASE \A r \in Requests : ~Step(r)
  <2>1. row'.state = row.state /\ row'.meta = row.meta /\ row'.hash = row.hash /\ disk' = disk
    BY <1>2, ElsewhereRow, Parts, Split DEF RowInv, RowType
  <2> QED
    BY <2>1 DEF OwnBytes
<1> QED
  BY <1>1, <1>2

OwnIInv == SafeIInv /\ (LocksHeld => OwnBytes)

LEMMA InitOwn == Init => OwnIInv
  BY InitSafe DEF OwnIInv, OwnBytes, Init, NoRow

LEMMA NextOwnIInv == OwnIInv /\ SameSource /\ [Next]_vars => OwnIInv'
<1> SUFFICES ASSUME OwnIInv, SameSource, [Next]_vars, LocksHeld'
             PROVE  OwnBytes'
  BY NextSafe DEF OwnIInv
<1>1. LocksHeld
  BY NotYet, Kinds DEF OwnIInv, SafeIInv, LocksHeld
<1> QED
  BY <1>1, NextOwn DEF OwnIInv, SafeIInv, Sound

LEMMA OwnReadyIntact ==
    ASSUME ToldApart, OwnIInv, LocksHeld
    PROVE  ReadyIntact
<1> SUFFICES ASSUME row.state = "ready"
             PROVE  /\ \E f \in Files : /\ Declared[f] = row.meta
                                        /\ row.hash = [i \in 1..Declared[f].size |-> f]
                    /\ ~row.due /\ owner = "active"
                          => Linked(Paths) = {row.path} /\ disk[row.path] = row.hash
  BY DEF ReadyIntact
<1>1. Sound /\ OwnBytes
  BY DEF OwnIInv, SafeIInv, Sound
<1>2. /\ row.meta \in Metas /\ row.meta.suffix \in Paths /\ row.meta.size \in Nat
      /\ row.path = row.meta.suffix /\ SourcePaths(row.meta) = {"part", row.meta.suffix}
  BY <1>1, SourceType, Parts DEF Owned
<1>3. \E f \in Files : Declared[f] = row.meta /\ row.hash = [i \in 1..Declared[f].size |-> f]
  <2>1. PICK f \in Files : Declared[f] = row.meta
    BY <1>2 DEF Metas
  <2>2. row.hash \in Contents /\ Len(row.hash) = row.meta.size
    BY <1>1 DEF OwnBytes
  <2>3. \A i \in 1..Len(row.hash) : row.hash[i] = f
    BY <1>1, <2>1 DEF OwnBytes, Own, ToldApart
  <2>4. row.hash = [i \in 1..Len(row.hash) |-> row.hash[i]]
    BY <2>2, LenProperties, SeqDef DEF Contents
  <2>5. row.hash = [i \in 1..row.meta.size |-> f]
    BY <2>2, <2>3, <2>4
  <2> QED
    BY <2>1, <2>5
<1>4. ASSUME ~row.due, owner = "active"
      PROVE  Linked(Paths) = {row.path} /\ disk[row.path] = row.hash
  <2>1. disk[row.path] = row.hash /\ disk["part"] = Missing /\ row.hash # Missing
    BY <1>1, <1>4, Parts DEF ReadyHeld
  <2>2. \A p \in Paths : disk[p] # Missing => p \in {"part", row.path}
    BY <1>1, <1>2, Parts DEF Beside
  <2> QED
    BY <1>2, <2>1, <2>2 DEF Linked
<1> QED
  BY <1>3, <1>4

(* Until a lock is lost, and as long as the chunks of an upload come from  *)
(* one client file, a source that becomes ready is that file, every byte   *)
(* once and in its place, whatever was cut, resumed, rejected, retried or  *)
(* restarted, and it is on disk alone until it is due (append_chunk,       *)
(* _reconcile_locked, complete, purge).                                    *)
THEOREM ReadyIsTheDeclaredFile ==
    ASSUME ToldApart
    PROVE  Spec /\ []SameSource => [](LocksHeld => ReadyIntact)
<1>1. OwnIInv => (LocksHeld => ReadyIntact)
  BY OwnReadyIntact
<1> QED
  BY <1>1, InitOwn, NextOwnIInv, PTL DEF Spec

-----------------------------------------------------------------------------
(* The upload as its client sees it: what a chunk does to the files, and   *)
(* what is recorded of them, implement ResumableSource.                    *)

ChunkStep(r) == Open(r) \/ Write(r) \/ RejectChunk(r)

(* What is on disk are whole bytes of clients' files.                      *)
WholeBytes ==
    \A p \in Paths : disk[p] # Missing => \A i \in 1..Len(disk[p]) : disk[p][i] \in Files

(* At most one chunk is not recorded, and none once the file is renamed.   *)
Recorded ==
    InProgress =>
        /\ disk["part"] # Missing => Len(disk["part"]) <= row.received + MaxChunk
        /\ disk[row.meta.suffix] # Missing => row.received = row.meta.size

(* A validation works on a row that has every byte.                        *)
Validating == {"candidate", "validating", "probe", "replace", "ready"}
FullAt == \A r \in Requests : pc[r] \in Validating => row.received = row.meta.size

(* What is gone counts as purged, and is not purged again.                 *)
Gone == {"expired", "deleted"}
GoneOnce ==
    /\ row.state \in Gone => row.purged
    /\ \A r \in Requests : pc[r] \in {"purgeUnlink", "purged"} => row.state \notin Gone

ChunkInv == WholeBytes /\ Recorded /\ FullAt /\ GoneOnce

(* The files while a chunk arrives: what was there up to the length that   *)
(* is recorded stays, and bytes of the client's file follow it.            *)
LEMMA ChunkResult ==
    ASSUME Sound, NEW r \in Requests, ChunkStep(r)
    PROVE  /\ row' = row /\ row.state = "uploading" /\ pc[r] \in {"open", "write"}
           /\ \A p \in Paths \ {"part"} : disk'[p] = disk[p]
           /\ disk'["part"] # Missing /\ disk'["part"] \in Contents
           /\ Len(disk'["part"]) \in Nat
           /\ row.received <= Len(disk'["part"])
           /\ \/ Len(disk'["part"]) <= row.received + MaxChunk
              \/ disk["part"] # Missing /\ Len(disk'["part"]) = Len(disk["part"])
           /\ \A i \in 1..Len(disk'["part"]) :
                 \/ /\ disk["part"] # Missing /\ i \in 1..Len(disk["part"])
                    /\ disk'["part"][i] = disk["part"][i]
                 \/ row.received < i /\ disk'["part"][i] \in Files
<1>1. row' = row /\ pc[r] \in {"open", "write"}
  BY DEF ChunkStep, Open, Write, RejectChunk, rowVars, At
<1>2. row.state = "uploading" /\ "part" \in Paths /\ row.received \in Nat
  BY <1>1, Parts, SourceType DEF RowAt
<1>3. CASE Open(r)
  <2>1. disk' = [disk EXCEPT !["part"] = IF @ = Missing THEN <<>> ELSE @]
        /\ disk \in [Paths -> Contents \cup {Missing}]
    BY <1>3, Parts, Split DEF Open, DiskInv
  <2>2. Size("part") = row.received
    BY <1>3, Parts DEF Open, At, FilesAt
  <2>3. <<>> \in Contents /\ Len(<<>>) = 0 /\ <<>> # Missing
    <3>1. <<>> \in Contents
      BY EmptySeq DEF Contents
    <3> QED
      BY <3>1, MissingAssumption DEF Contents, Bytes
  <2>4. /\ disk'["part"] = (IF disk["part"] = Missing THEN <<>> ELSE disk["part"])
        /\ \A p \in Paths \ {"part"} : disk'[p] = disk[p]
    BY <1>2, <2>1
  <2>5. MaxChunk \in Nat
    BY ChunkAssumption
  <2>6. CASE disk["part"] = Missing
    <3>1. disk'["part"] = <<>> /\ row.received = 0
      BY <2>2, <2>4, <2>6 DEF Size
    <3> QED
      BY <1>1, <1>2, <2>3, <2>4, <2>5, <3>1
  <2>7. CASE disk["part"] # Missing
    <3>1. disk'["part"] = disk["part"] /\ row.received = Len(disk["part"])
      BY <2>2, <2>4, <2>7 DEF Size
    <3>2. disk["part"] \in Contents
      BY <1>2, <2>7, FileType, Parts
    <3> QED
      BY <1>1, <1>2, <2>4, <2>5, <2>7, <3>1, <3>2
  <2> QED
    BY <2>6, <2>7
<1>4. CASE Write(r) \/ RejectChunk(r)
  <2>1. /\ handle[r] = "part" /\ disk["part"] # Missing
        /\ Len(disk["part"]) = arg[r].pos /\ arg[r].from = row.received
        /\ arg[r].from <= arg[r].pos /\ arg[r] \in ArgType /\ arg[r].file \in Files
    BY <1>4, Parts, Split
       DEF Write, RejectChunk, At, Served, FilesAt, ReqInv, Inv, ArgKnown, NamesFile
  <2>2. arg[r].from \in Nat /\ arg[r].pos \in Nat /\ disk["part"] \in Contents
    BY <1>2, <2>1, FileType, Parts DEF ArgType
  <2>3. CASE Write(r)
    <3> DEFINE w == Written(disk["part"], Len(disk["part"]), arg[r].file)
    <3>1. /\ w \in Contents /\ Len(w) = Len(disk["part"]) + 1
          /\ \A i \in 1..(Len(disk["part"]) + 1) :
                w[i] = IF i = Len(disk["part"]) + 1 THEN arg[r].file ELSE disk["part"][i]
      <4>1. arg[r].file \in Bytes
        BY <2>1 DEF Bytes
      <4> QED
        BY <2>2, <4>1, WrittenAtEnd
    <3>2. \A p \in Paths : disk'[p] = IF p = "part" THEN w ELSE disk[p]
      BY <2>1, <2>3 DEF Write, Through
    <3>3. w # Missing
      BY <3>1, MissingAssumption DEF Contents, Bytes
    <3>4. Len(w) <= row.received + MaxChunk /\ row.received <= Len(w)
      BY <1>2, <2>1, <2>2, <2>3, <3>1, ChunkAssumption DEF Write, Room
    <3> HIDE DEF w
    <3>5. \A i \in 1..Len(w) :
             \/ i \in 1..Len(disk["part"]) /\ w[i] = disk["part"][i]
             \/ row.received < i /\ w[i] \in Files
      <4> TAKE i \in 1..Len(w)
      <4>1. CASE i = Len(disk["part"]) + 1
        BY <1>2, <2>1, <2>2, <3>1, <4>1
      <4>2. CASE i # Len(disk["part"]) + 1
        BY <2>1, <2>2, <3>1, <4>2
      <4> QED
        BY <4>1, <4>2
    <3>6. disk'["part"] = w /\ \A p \in Paths \ {"part"} : disk'[p] = disk[p]
      BY <1>2, <3>2
    <3>7. Len(w) \in Nat
      BY <2>1, <2>2, <3>1
    <3> QED
      BY <1>1, <1>2, <2>1, <3>1, <3>3, <3>4, <3>5, <3>6, <3>7
  <2>4. CASE RejectChunk(r)
    <3> DEFINE t == Truncated(disk["part"], arg[r].from)
    <3>1. \A i \in 1..arg[r].from : t[i] = disk["part"][i] /\ i \in 1..Len(disk["part"])
      BY <2>1, <2>2 DEF Truncated
    <3>2. t \in Contents /\ DOMAIN t = 1..arg[r].from
      BY <2>2, TruncatedType DEF Truncated
    <3>3. t # Missing
      BY <3>2, MissingAssumption DEF Contents, Bytes
    <3>4. \A p \in Paths : disk'[p] = IF p = "part" THEN t ELSE disk[p]
      BY <2>1, <2>4 DEF RejectChunk, Through
    <3> HIDE DEF t
    <3>5. Len(t) = arg[r].from
      <4>1. Len(t) \in Nat /\ DOMAIN t = 1..Len(t)
        BY <3>2, LenProperties DEF Contents
      <4> QED
        BY <2>2, <3>2, <4>1
    <3>6. disk'["part"] = t /\ \A p \in Paths \ {"part"} : disk'[p] = disk[p]
      BY <1>2, <3>4
    <3>7. Len(t) \in Nat /\ Len(t) <= row.received + MaxChunk /\ row.received <= Len(t)
      BY <1>2, <2>1, <2>2, <3>5, ChunkAssumption
    <3>8. \A i \in 1..Len(t) : i \in 1..Len(disk["part"]) /\ t[i] = disk["part"][i]
      BY <3>1, <3>5
    <3> QED
      BY <1>1, <1>2, <2>1, <3>2, <3>3, <3>6, <3>7, <3>8
  <2> QED
    BY <1>4, <2>3, <2>4
<1> QED
  BY <1>3, <1>4 DEF ChunkStep

(* Any other step leaves a file, unlinks it or renames the whole one.      *)
LEMMA FileResult ==
    ASSUME Sound, NEW r \in Requests, Step(r), ~ChunkStep(r)
    PROVE  \/ \A p \in Paths : disk'[p] \in {disk[p], Missing}
           \/ /\ pc[r] = "replace" /\ row' = row /\ disk["part"] # Missing
              /\ disk[row.meta.suffix] = Missing
              /\ disk'["part"] = Missing /\ disk'[row.meta.suffix] = disk["part"]
              /\ \A p \in Paths \ {"part", row.meta.suffix} : disk'[p] = disk[p]
<1>1. \/ UNCHANGED disk
      \/ \E S : Unlink(S)
      \/ Replace(r)
  BY DEF ChunkStep, Step, Status, AppendRefused, CompleteRefused, CancelRefused,
         ReconcileAndClose, InitializeFirst, InitializeAgain, AppendLoad,
         EndOfChunk, ChunkTimeout, RecordChunk, CompleteLoad, Candidate,
         SetValidating, ValidatingRefused, ProbeAndHash, ProbeRefuses, MarkReady,
         ReadyRefused, FailUnlink, FailValidation, CancelLoad, CancelUnlink,
         MarkCancelled, PurgeLoad, PurgeRefused, PurgeUnlink, MarkPurged,
         RunResolve, RunUnresolved, RunHash, RunLock, RunCreate, RunRefused,
         OwnerGone, TxnFails
<1>2. CASE \E S : Unlink(S)
  BY <1>2 DEF Unlink, Unlinked
<1>3. CASE Replace(r) /\ ~UNCHANGED disk
  <2>1. pc[r] = "replace" /\ row' = row /\ arg[r].meta = row.meta
    BY <1>3, Parts DEF Replace, At, RowAt, HasMeta, rowVars
  <2>2. row.meta.suffix \in Paths /\ row.meta.suffix # "part" /\ "part" \in Paths
    BY <2>1, SourceType, Parts, RowThere
  <2>3. /\ disk[row.meta.suffix] = Missing /\ disk["part"] # Missing
        /\ disk' = [disk EXCEPT ![row.meta.suffix] = disk["part"], !["part"] = Missing]
    BY <1>3, <2>1 DEF Replace
  <2>4. disk \in [Paths -> Contents \cup {Missing}]
    BY Parts, Split DEF DiskInv
  <2> QED
    BY <2>1, <2>2, <2>3, <2>4
<1> QED
  BY <1>1, <1>2, <1>3

(* Two requests never work at the same time, so that what the one has seen *)
(* of the row is not changed by the other.                                 *)
LEMMA BystanderRow ==
    ASSUME Sound, NEW r \in Requests, Step(r), NEW s \in Requests \ {r}, Working(s)
    PROVE  row' = row
<1>1. pc[r] \in {"idle", "hash", "relock"}
  BY Alone DEF Working
<1> QED
  BY <1>1
     DEF Step, Status, AppendRefused, CompleteRefused, CancelRefused, Txn, At,
         InitializeFirst, InitializeAgain, AppendLoad, Open, Write,
         RejectChunk, EndOfChunk, ChunkTimeout, RecordChunk, CompleteLoad, Candidate,
         SetValidating, ValidatingRefused, ProbeAndHash, ProbeRefuses, Replace, MarkReady,
         ReadyRefused, FailUnlink, FailValidation, CancelLoad, CancelUnlink,
         MarkCancelled, PurgeLoad, PurgeRefused, PurgeUnlink, MarkPurged,
         RunResolve, RunUnresolved, RunHash, RunLock, RunCreate, RunRefused,
         OwnerGone, TxnFails, rowVars

-----------------------------------------------------------------------------
(* ChunkInv is preserved.                                                  *)

LEMMA NextWhole ==
    ASSUME Sound, WholeBytes, NEW r \in Requests, Step(r)
    PROVE  WholeBytes'
<1>1. CASE ChunkStep(r)
  <2> SUFFICES ASSUME NEW p \in Paths, disk'[p] # Missing, NEW i \in 1..Len(disk'[p])
               PROVE  disk'[p][i] \in Files
    BY DEF WholeBytes
  <2>1. CASE p # "part"
    BY <1>1, <2>1, ChunkResult DEF WholeBytes
  <2>2. CASE p = "part"
    <3>1. \/ /\ disk["part"] # Missing /\ i \in 1..Len(disk["part"])
             /\ disk'["part"][i] = disk["part"][i]
          \/ disk'["part"][i] \in Files
      BY <1>1, <2>2, ChunkResult
    <3> QED
      BY <2>2, <3>1 DEF WholeBytes
  <2> QED
    BY <2>1, <2>2
<1>2. CASE ~ChunkStep(r)
  BY <1>2, StepCopies DEF ChunkStep, Copied, WholeBytes
<1> QED
  BY <1>1, <1>2

(* The length that is recorded is the one found, if the upload goes on.    *)
LEMMA ReconciledOn ==
    ASSUME Sound, InProgress, Reconciled.row.state \in {"uploading", "validating"}
    PROVE  /\ Reconciled.ok /\ Reconciled.unlink = {}
           /\ Reconciled.row.state = row.state /\ Reconciled.row.meta = row.meta
           /\ Reconciled.row.received = Len(Stored) /\ row.received <= Len(Stored)
           /\ Stored \in Contents
<1>1. row \in RowType /\ row.state \in {"uploading", "validating"} /\ row.state # "missing"
  BY SourceType, Parts DEF InProgress
<1>2. /\ row.meta.suffix \in Paths /\ "part" \in Paths /\ row.received \in Nat
      /\ SourcePaths(row.meta) = {"part", row.meta.suffix}
  BY <1>1, SourceType, Parts
<1>3. Reconciled.ok
  BY <1>1, ReconciledUpload DEF RowType
<1>4. PICK n \in {Size("part"), Size(row.meta.suffix)}, d \in BOOLEAN :
         /\ Reconciled.row = [row EXCEPT !.received = n, !.due = d]
         /\ \/ disk["part"] # Missing /\ n = Size("part") /\ disk[row.meta.suffix] = Missing
            \/ disk[row.meta.suffix] # Missing /\ n = Size(row.meta.suffix)
               /\ disk["part"] = Missing
            \/ Linked(Paths) = {} /\ n = 0
  BY <1>1, <1>3, ReconciledUpload
<1>5. n = Len(Stored) /\ Stored \in Contents
  <2>1. CASE disk["part"] # Missing /\ n = Size("part")
    BY <1>2, <2>1, FileType, Parts DEF Stored, Size
  <2>2. CASE disk[row.meta.suffix] # Missing /\ n = Size(row.meta.suffix) /\ disk["part"] = Missing
    BY <1>2, <2>2, FileType, Parts DEF Stored, Size
  <2>3. CASE Linked(Paths) = {} /\ n = 0
    <3>1. disk["part"] = Missing /\ disk[row.meta.suffix] = Missing
      BY <1>2, <2>3 DEF Linked
    <3> QED
      BY <2>3, <3>1, EmptySeq DEF Stored, Contents
  <2> QED
    BY <1>4, <2>1, <2>2, <2>3
<1>6. /\ Reconciled.row.received = n /\ Reconciled.row.state = row.state
      /\ Reconciled.row.meta = row.meta
  BY <1>1, <1>4 DEF RowType
<1>7. row.received <= n
  <2> DEFINE here == Linked(SourcePaths(row.meta))
             actual == IF here = {} THEN 0 ELSE Len(disk[CHOOSE p \in here : TRUE])
  <2>1. ~(row.state \in Settled \/ (row.state = "failed" /\ row.purged))
    BY <1>1 DEF Settled
  <2>2. ~(actual < row.received) /\ Reconciled.row.received = actual
    BY <1>1, <1>3, <2>1 DEF Reconciled, RowType
  <2>3. n \in Nat
    BY <1>2, <1>4, FileType, Parts
  <2> HIDE DEF actual, here
  <2> QED
    BY <1>2, <1>6, <2>2, <2>3
<1> QED
  BY <1>1, <1>3, <1>5, <1>6, <1>7, ReconciledUpload

(* What is there of an upload: source.part, the renamed file, or nothing.  *)
LEMMA StoredIs ==
    ASSUME Sound, InProgress
    PROVE  /\ row.meta.suffix \in Paths /\ row.meta.suffix # "part" /\ "part" \in Paths
           /\ row.received \in Nat /\ row.meta.size \in Nat
           /\ Stored \in Contents /\ Len(Stored) \in Nat
           /\ disk["part"] # Missing => Stored = disk["part"] /\ disk[row.meta.suffix] = Missing
                                        /\ row.received <= Len(disk["part"])
           /\ disk["part"] = Missing /\ disk[row.meta.suffix] # Missing =>
                 /\ Stored = disk[row.meta.suffix] /\ Len(Stored) = row.meta.size
                 /\ row.received <= row.meta.size
           /\ disk["part"] = Missing /\ disk[row.meta.suffix] = Missing => Stored = <<>>
<1>1. row.state \in {"uploading", "validating"} /\ row.state # "missing"
  BY DEF InProgress
<1>2. /\ row.meta.suffix \in Paths /\ row.meta.suffix # "part" /\ "part" \in Paths
      /\ row.received \in Nat /\ row.meta.size \in Nat
  BY <1>1, SourceType, Parts
<1>3. Stored \in Contents
  BY <1>2, FileType, Parts, EmptySeq DEF Stored, Contents
<1>4. Len(Stored) \in Nat
  BY <1>3, LenProperties DEF Contents
<1> QED
  BY <1>1, <1>2, <1>3, <1>4, Parts DEF Stored, Uploaded

LEMMA NextRecorded ==
    ASSUME Sound, Recorded, FullAt, NEW r \in Requests, Step(r)
    PROVE  Recorded'
<1> SUFFICES ASSUME InProgress'
             PROVE  /\ disk'["part"] # Missing => Len(disk'["part"]) <= row'.received + MaxChunk
                    /\ disk'[row'.meta.suffix] # Missing => row'.received = row'.meta.size
  BY DEF Recorded
<1>1. row'.state \in {"uploading", "validating"} /\ MaxChunk \in Nat
  BY ChunkAssumption DEF InProgress
<1>2. row \in RowType
  BY Parts, Split DEF RowInv
<1>3. CASE row' = row
  <2>1. InProgress
    BY <1>1, <1>3 DEF InProgress
  <2>2. CASE ChunkStep(r)
    <3>1. disk'[row.meta.suffix] = disk[row.meta.suffix] /\ row.received \in Nat
      BY <2>1, <2>2, ChunkResult, StoredIs
    <3>2. Len(disk'["part"]) <= row.received + MaxChunk
      BY <2>1, <2>2, ChunkResult DEF Recorded
    <3> QED
      BY <1>3, <2>1, <3>1, <3>2 DEF Recorded
  <2>3. CASE ~ChunkStep(r)
    <3>1. CASE \A p \in Paths : disk'[p] \in {disk[p], Missing}
      BY <1>3, <2>1, <3>1, StoredIs DEF Recorded
    <3>2. CASE pc[r] = "replace" /\ disk'["part"] = Missing
      BY <1>3, <3>2 DEF FullAt, Validating
    <3> QED
      BY <2>3, <3>1, <3>2, FileResult
  <2> QED
    BY <2>2, <2>3
<1>4. ASSUME row.state # "missing", disk' = Unlinked(Reconciled.unlink),
             NEW d \in BOOLEAN, row' = [Reconciled.row EXCEPT !.due = d]
      PROVE  /\ disk'["part"] # Missing => Len(disk'["part"]) <= row'.received + MaxChunk
             /\ disk'[row'.meta.suffix] # Missing => row'.received = row'.meta.size
  <2>1. Reconciled.row \in RowType
    BY <1>4, ReconciledRow, Parts
  <2>2. row'.state = Reconciled.row.state /\ row'.received = Reconciled.row.received
        /\ row'.meta = Reconciled.row.meta
    BY <1>4, <2>1 DEF RowType
  <2>3. InProgress
    BY <1>1, <1>2, <1>4, <2>2, ReconciledOther DEF InProgress, RowType, FailedRow
  <2>4. row'.received = Len(Stored) /\ row'.meta = row.meta /\ disk' = disk
    BY <1>1, <1>4, <2>2, <2>3, ReconciledOn, UnlinkNone, Parts
  <2> QED
    BY <1>1, <2>3, <2>4, StoredIs
<1>5. ASSUME Empty', NEW meta \in Metas, row' = Uploading(meta)
      PROVE  disk'["part"] = Missing /\ disk'[row'.meta.suffix] = Missing
  BY <1>5, FreshRow, MetaType DEF Empty, Paths
<1>6. CASE SetValidating(r)
  <2>1. InProgress /\ disk' = disk /\ row'.received = row.received /\ row'.meta = row.meta
    BY <1>2, <1>6 DEF SetValidating, InProgress, RowType
  <2> QED
    BY <2>1 DEF Recorded
<1>7. ~MarkReady(r)
  BY <1>1, <1>2 DEF MarkReady, RowType
<1> QED
  BY <1>1, <1>3, <1>4, <1>5, <1>6, <1>7, RowResult

LEMMA NextFull ==
    ASSUME Sound, FullAt, NEW r \in Requests, Step(r)
    PROVE  FullAt'
<1> SUFFICES ASSUME NEW s \in Requests, pc'[s] \in Validating
             PROVE  row'.received = row'.meta.size
  BY DEF FullAt
<1>1. pc \in [Requests -> Steps] /\ row \in RowType
  BY Parts, Split DEF ReqInv, RowInv
<1>2. CASE s # r
  <2>1. pc[s] \in Validating /\ Working(s)
    BY <1>2, OthersStay DEF Validating, Working
  <2>2. row' = row
    BY <1>2, <2>1, BystanderRow
  <2> QED
    BY <2>1, <2>2 DEF FullAt
<1>3. CASE s = r
  <2>1. CompleteLoad(r) \/ (pc[r] \in Validating /\ (SetValidating(r) \/ row' = row))
    BY <1>1, <1>3
       DEF Step, Status, AppendRefused, CompleteRefused, CancelRefused,
           ReconcileAndClose, InitializeFirst, InitializeAgain, AppendLoad, Open, Write,
           RejectChunk, EndOfChunk, ChunkTimeout, RecordChunk, CompleteLoad, Candidate,
           SetValidating, ValidatingRefused, ProbeAndHash, ProbeRefuses, Replace, MarkReady,
           ReadyRefused, FailUnlink, FailValidation, CancelLoad, CancelUnlink,
           MarkCancelled, PurgeLoad, PurgeRefused, PurgeUnlink, MarkPurged,
           RunResolve, RunUnresolved, RunHash, RunLock, RunCreate, RunRefused,
           OwnerGone, TxnFails, Close, Answer, GoTo, At, Txn, rowVars, Validating
  <2>2. CASE CompleteLoad(r)
    <3>1. row.state # "missing"
      BY <2>2, RowThere, Parts DEF CompleteLoad, Txn, At
    <3>2. Reconciled.row.meta = row.meta
      BY <3>1, ReconciledType, Parts DEF Inv
    <3> QED
      BY <2>2, <3>2 DEF CompleteLoad
  <2>3. CASE pc[r] \in Validating /\ SetValidating(r)
    BY <1>1, <2>3 DEF SetValidating, RowType, FullAt
  <2>4. CASE pc[r] \in Validating /\ row' = row
    BY <2>4 DEF FullAt
  <2> QED
    BY <2>1, <2>2, <2>3, <2>4
<1> QED
  BY <1>2, <1>3

(* A row that is gone stays so: the requests that end one see another row. *)
LEMMA EndingRow ==
    ASSUME Sound, GoneOnce, NEW r \in Requests, Step(r), pc[r] \in Ending
    PROVE  /\ row.state \notin Gone
           /\ row'.state \in Gone => row'.purged
<1>1. row \in RowType
  BY Parts, Split DEF RowInv
<1>2. row.state \notin Gone
  BY Parts DEF RowAt, GoneOnce, Ending, Gone, Settled
<1>3. FailValidation(r) \/ MarkCancelled(r) \/ MarkPurged(r) \/ row' = row
  BY DEF Ending, Step, Status, AppendRefused, CompleteRefused, CancelRefused,
         InitializeFirst, InitializeAgain, AppendLoad, Open, Write,
         RejectChunk, EndOfChunk, ChunkTimeout, RecordChunk, CompleteLoad, Candidate,
         SetValidating, ValidatingRefused, ProbeAndHash, ProbeRefuses, Replace, MarkReady,
         ReadyRefused, FailUnlink, CancelLoad, CancelUnlink, PurgeLoad, PurgeRefused,
         PurgeUnlink, RunResolve, RunUnresolved, RunHash, RunLock, RunCreate, RunRefused,
         OwnerGone, TxnFails, At, Txn, rowVars
<1>4. CASE FailValidation(r)
  <2>1. row' = row \/ row' = [FailedRow EXCEPT !.hash = Missing, !.path = "none"]
    BY <1>4 DEF FailValidation
  <2> QED
    BY <1>1, <1>2, <2>1 DEF FailedRow, RowType, Gone
<1>5. CASE MarkCancelled(r)
  BY <1>1, <1>2, <1>5 DEF MarkCancelled, FailedRow, RowType, Gone
<1>6. CASE MarkPurged(r)
  <2>1. PICK st \in {"deleted", "expired", "failed"} :
            row' = [row EXCEPT !.purged = TRUE, !.state = st]
    BY <1>6 DEF MarkPurged
  <2> QED
    BY <1>1, <1>2, <2>1 DEF RowType
<1> QED
  BY <1>2, <1>3, <1>4, <1>5, <1>6

LEMMA NextGone ==
    ASSUME Sound, GoneOnce, NEW r \in Requests, Step(r)
    PROVE  GoneOnce'
<1>1. pc \in [Requests -> Steps] /\ row \in RowType
  BY Parts, Split DEF ReqInv, RowInv
<1>2. ASSUME row'.state \in Gone PROVE row'.purged
  <2>1. CASE row' = row
    BY <1>2, <2>1 DEF GoneOnce
  <2>2. ASSUME row.state # "missing", NEW d \in BOOLEAN,
               row' = [Reconciled.row EXCEPT !.due = d]
        PROVE  row'.purged
    <3>1. Reconciled.row \in RowType
      BY <2>2, ReconciledRow, Parts
    <3>2. row'.state = Reconciled.row.state /\ row'.purged = Reconciled.row.purged
      BY <2>2, <3>1 DEF RowType
    <3>3. row.state \notin {"uploading", "validating"}
      BY <1>1, <1>2, <3>2, ReconciledUpload DEF RowType, Gone
    <3>4. Reconciled.row = row
      BY <1>1, <1>2, <2>2, <3>2, <3>3, ReconciledOther DEF FailedRow, RowType, Gone
    <3> QED
      BY <1>2, <3>2, <3>4 DEF GoneOnce
  <2>3. ~SetValidating(r) /\ ~MarkReady(r)
    BY <1>1, <1>2 DEF SetValidating, MarkReady, RowType, Gone
  <2>4. CASE pc[r] \in Ending
    BY <1>2, <2>4, EndingRow
  <2> QED
    BY <1>2, <2>1, <2>2, <2>3, <2>4, RowResult, FreshRow DEF Gone
<1>3. ASSUME NEW s \in Requests, pc'[s] \in {"purgeUnlink", "purged"}
      PROVE  row'.state \notin Gone
  <2>1. CASE s # r
    <3>1. pc[s] \in {"purgeUnlink", "purged"} /\ Working(s)
      BY <1>3, <2>1, OthersStay DEF Working
    <3>2. row' = row
      BY <2>1, <3>1, BystanderRow
    <3> QED
      BY <3>1, <3>2 DEF GoneOnce
  <2>2. CASE s = r
    <3>1. row' = row /\ (PurgeLoad(r) \/ pc[r] \in {"purgeUnlink", "purged"})
      BY <1>1, <1>3, <2>2
         DEF Step, Status, AppendRefused, CompleteRefused, CancelRefused,
             ReconcileAndClose, InitializeFirst, InitializeAgain, AppendLoad, Open, Write,
             RejectChunk, EndOfChunk, ChunkTimeout, RecordChunk, CompleteLoad, Candidate,
             SetValidating, ValidatingRefused, ProbeAndHash, ProbeRefuses, Replace,
             MarkReady, ReadyRefused, FailUnlink, FailValidation, CancelLoad, CancelUnlink,
             MarkCancelled, PurgeLoad, PurgeRefused, PurgeUnlink, MarkPurged,
             RunResolve, RunUnresolved, RunHash, RunLock, RunCreate, RunRefused,
             OwnerGone, TxnFails, Close, Answer, GoTo, At, Txn, rowVars
    <3>2. CASE PurgeLoad(r)
      BY <3>1, <3>2 DEF PurgeLoad, GoneOnce, Gone
    <3> QED
      BY <3>1, <3>2 DEF GoneOnce
  <2> QED
    BY <2>1, <2>2
<1> QED
  BY <1>2, <1>3 DEF GoneOnce

LEMMA NextChunk ==
    ASSUME Sound, ChunkInv, [Next]_vars
    PROVE  ChunkInv'
<1>1. ASSUME NEW r \in Requests, Step(r) PROVE ChunkInv'
  BY <1>1, NextWhole, NextRecorded, NextFull, NextGone DEF ChunkInv
<1>2. CASE \A r \in Requests : ~Step(r)
  <2>1. /\ disk' = disk /\ row'.state = row.state /\ row'.meta = row.meta
        /\ row'.received = row.received /\ row'.purged = row.purged
    BY <1>2, ElsewhereRow, Parts, Split DEF RowInv, RowType
  <2>2. ASSUME NEW s \in Requests, pc'[s] \in Validating \cup {"purgeUnlink", "purged"}
        PROVE  pc'[s] = pc[s]
    <3>1. ASSUME NEW r \in Requests, Arrive(r) PROVE pc'[s] = pc[s]
      <4>1. PICK step \in {"initialize", "append", "status", "complete", "cancel", "run",
                           "purge"} : GoTo(r, step)
        BY <3>1 DEF Arrive, BeginUpload, BeginAppend, BeginOther, BeginPurge, Begin
      <4> QED
        BY <2>2, <4>1, Parts, Split DEF GoTo, ReqInv, Validating
    <3>2. ASSUME NEW r \in Requests, Disturb(r) PROVE pc'[s] = pc[s]
      BY <2>2, <3>2, Parts, Split
         DEF Disturb, LoseLock, Abort, Close, Answer, ReqInv, Validating
    <3>3. CASE RunEnds \/ DeleteSession \/ Expire \/ UNCHANGED vars
      BY <3>3 DEF RunEnds, DeleteSession, Expire, vars, reqVars
    <3> QED
      BY <1>2, <3>1, <3>2, <3>3 DEF Next
  <2>3. WholeBytes' /\ Recorded'
    BY <2>1 DEF ChunkInv, WholeBytes, Recorded, InProgress
  <2>4. FullAt' /\ GoneOnce'
    BY <2>1, <2>2 DEF ChunkInv, FullAt, GoneOnce, Validating
  <2> QED
    BY <2>3, <2>4 DEF ChunkInv
<1> QED
  BY <1>1, <1>2

-----------------------------------------------------------------------------
(* The steps of an upload are those of ResumableSource.                    *)

(* Two contents that agree up to a length have the same first bytes.       *)
LEMMA SamePrefix ==
    ASSUME NEW s \in Contents, NEW t \in Contents, NEW n \in Nat, n <= Len(s), n <= Len(t),
           \A i \in 1..n : s[i] = t[i]
    PROVE  SubSeq(s, 1, n) = SubSeq(t, 1, n)
<1>1. s \in Seq(Bytes) /\ t \in Seq(Bytes) /\ Len(s) \in Nat /\ Len(t) \in Nat
  BY LenProperties DEF Contents
<1>2. (\A i \in 1..n : s[i] \in Bytes) /\ (\A i \in 1..n : t[i] \in Bytes)
  BY <1>1, ElementOfSeq
<1>3. /\ SubSeq(s, 1, n) \in Seq(Bytes) /\ SubSeq(t, 1, n) \in Seq(Bytes)
      /\ Len(SubSeq(s, 1, n)) = n /\ Len(SubSeq(t, 1, n)) = n
      /\ \A i \in 1..n : SubSeq(s, 1, n)[i] = s[i] /\ SubSeq(t, 1, n)[i] = t[i]
  BY <1>1, <1>2, SubSeqProperties, Z3
<1> QED
  BY <1>3, SeqEqual

(* As long as the row records the same, what it records stays on disk or   *)
(* goes with the files, and does not come back.                            *)
LEMMA PrefixStays ==
    ASSUME Sound, NEW r \in Requests, Step(r), InProgress, InProgress',
           row'.meta = row.meta, row'.received = row.received, Lasting'
    PROVE  Lasting /\ SubSeq(Stored', 1, row.received) = SubSeq(Stored, 1, row.received)
<1> DEFINE suffix == row.meta.suffix
<1>1. /\ suffix \in Paths /\ suffix # "part" /\ "part" \in Paths /\ row.received \in Nat
      /\ Stored \in Contents /\ Len(Stored) \in Nat
  BY StoredIs
<1>2. row.received <= Len(Stored')
  BY DEF Lasting
<1>3. CASE Stored' = Stored
  BY <1>2, <1>3 DEF Lasting
<1>4. CASE Stored' = <<>>
  <2>1. row.received = 0
    BY <1>1, <1>2, <1>4
  <2> QED
    BY <1>1, <2>1, SubSeqEmpty DEF Lasting
<1>5. CASE ChunkStep(r)
  <2>1. /\ Stored' = disk'["part"] /\ disk'["part"] # Missing
        /\ \A i \in 1..row.received :
              disk["part"] # Missing /\ disk'["part"][i] = disk["part"][i]
    BY <1>1, <1>5, ChunkResult DEF Stored
  <2>2. CASE disk["part"] # Missing
    <3>1. Stored = disk["part"] /\ row.received <= Len(Stored)
      BY <2>2, StoredIs
    <3>2. Stored' \in Contents
      BY <1>5, <2>1, ChunkResult
    <3>3. \A i \in 1..row.received : Stored'[i] = Stored[i]
      BY <2>1, <2>2, <3>1
    <3>4. SubSeq(Stored', 1, row.received) = SubSeq(Stored, 1, row.received)
      BY <1>1, <1>2, <3>1, <3>2, <3>3, SamePrefix
    <3> QED
      BY <3>1, <3>4 DEF Lasting
  <2>3. CASE disk["part"] = Missing
    <3>1. row.received = 0
      BY <1>1, <2>1, <2>3
    <3> QED
      BY <1>1, <3>1, SubSeqEmpty DEF Lasting
  <2> QED
    BY <2>2, <2>3
<1>6. CASE \A p \in Paths : disk'[p] \in {disk[p], Missing}
  <2>1. CASE disk'["part"] # Missing
    BY <1>1, <1>3, <1>6, <2>1 DEF Stored
  <2>2. CASE disk'["part"] = Missing /\ disk'[suffix] # Missing
    <3>1. disk'[suffix] = disk[suffix] /\ disk["part"] = Missing
      BY <1>1, <1>6, <2>2, StoredIs
    <3> QED
      BY <1>3, <2>2, <3>1 DEF Stored
  <2>3. CASE disk'["part"] = Missing /\ disk'[suffix] = Missing
    BY <1>4, <2>3 DEF Stored
  <2> QED
    BY <2>1, <2>2, <2>3
<1>7. CASE /\ disk["part"] # Missing /\ disk'["part"] = Missing
           /\ disk'[suffix] = disk["part"]
  BY <1>3, <1>7 DEF Stored
<1> QED
  BY <1>5, <1>6, <1>7, FileResult

(* Bytes that were found behind those recorded are accepted.               *)
LEMMA Accepts ==
    ASSUME Sound, ChunkInv, InProgress, row.received <= Len(Stored),
           InProgress', row'.meta = row.meta, row'.received = Len(Stored), disk' = disk
    PROVE  [RS!Next]_(RS!vars)
<1> DEFINE n == Len(Stored)
           chunk == SubSeq(Stored, row.received + 1, n)
<1>1. /\ row.received \in Nat /\ n \in Nat /\ Stored \in Contents /\ row.meta.size \in Nat
  BY StoredIs
<1>2. Stored' = Stored
  BY DEF Stored
<1>3. Lasting /\ Lasting'
  BY <1>1, <1>2 DEF Lasting
<1>4. /\ Phase = "open" /\ Phase' = "open"
      /\ Acknowledged = SubSeq(Stored, 1, row.received) /\ Acknowledged' = SubSeq(Stored, 1, n)
  BY <1>2, <1>3 DEF Phase, Acknowledged
<1>5. CASE row.received = n
  BY <1>4, <1>5 DEF RS!vars
<1>6. CASE row.received < n
  <2>1. n <= row.meta.size /\ n - row.received \in 1..MaxChunk
    <3>1. CASE disk["part"] # Missing
      <4>1. Stored = disk["part"] /\ n <= row.received + MaxChunk
        BY <3>1, StoredIs DEF ChunkInv, Recorded
      <4>2. n <= row.meta.size
        BY <3>1, <4>1, Parts DEF Uploaded, InProgress
      <4> QED
        BY <1>1, <1>6, <4>1, <4>2, ChunkAssumption
    <3>2. CASE disk["part"] = Missing
      <4>1. disk[row.meta.suffix] # Missing
        BY <1>1, <1>6, <3>2, StoredIs
      <4> QED
        BY <1>1, <1>6, <3>2, <4>1, StoredIs DEF ChunkInv, Recorded
    <3> QED
      BY <3>1, <3>2
  <2>2. \A i \in 1..n : Stored[i] \in Files
    <3>1. CASE disk["part"] # Missing
      BY <3>1, StoredIs DEF ChunkInv, WholeBytes
    <3>2. CASE disk["part"] = Missing
      BY <1>1, <1>6, <3>2, StoredIs DEF ChunkInv, WholeBytes
    <3> QED
      BY <3>1, <3>2
  <2>3. chunk \in [1..(n - row.received) -> Files]
    <3>1. /\ chunk \in Seq(Files) /\ Len(chunk) = n - row.received
      <4>1. \A i \in (row.received + 1)..n : Stored[i] \in Files
        BY <1>1, <2>2
      <4>2. row.received + 1 \in Int /\ n \in Int /\ row.received + 1 <= n
            /\ n - (row.received + 1) + 1 = n - row.received
        BY <1>1, <1>6
      <4> HIDE DEF n
      <4> QED
        BY <4>1, <4>2, SubSeqProperties
    <3> HIDE DEF chunk, n
    <3> QED
      BY <3>1, LenProperties
  <2>4. SubSeq(Stored, 1, n) = SubSeq(Stored, 1, row.received) \o chunk
    <3>1. 1 \in 1..(Len(Stored) + 1) /\ row.received \in (1 - 1)..Len(Stored)
          /\ n \in row.received..Len(Stored)
      BY <1>1, <1>6
    <3> QED
      BY <1>1, <3>1, ConcatAdjacentSubSeq DEF Contents
  <2>5. Len(SubSeq(Stored, 1, row.received)) = row.received
    <3>1. \A i \in 1..row.received : Stored[i] \in Files
      BY <1>1, <1>6, <2>2
    <3>2. 1 \in Int /\ row.received \in Int
          /\ (IF 1 <= row.received THEN row.received - 1 + 1 ELSE 0) = row.received
      BY <1>1
    <3> QED
      BY <3>1, <3>2, SubSeqProperties
  <2>6. row.received + (n - row.received) <= row.meta.size
    BY <1>1, <2>1
  <2> HIDE DEF chunk, n
  <2>7. RS!Accept
    <3>1. Len(Acknowledged) + (n - row.received) <= row.meta.size
      BY <1>4, <2>5, <2>6
    <3>2. Acknowledged' = Acknowledged \o chunk
      BY <1>4, <2>4
    <3> QED
      BY <1>4, <2>1, <2>3, <3>1, <3>2 DEF RS!Accept
  <2> QED
    BY <2>7 DEF RS!Next
<1> QED
  BY <1>1, <1>5, <1>6

(* What remains, or fails as a whole.                                      *)
LEMMA KeepsOrFails ==
    ASSUME Sound, NEW r \in Requests, Step(r), InProgress, InProgress',
           row'.meta = row.meta, row'.received = row.received
    PROVE  [RS!Next]_(RS!vars)
<1>1. CASE Lasting'
  <2>1. Lasting /\ SubSeq(Stored', 1, row.received) = SubSeq(Stored, 1, row.received)
    BY <1>1, PrefixStays
  <2> QED
    BY <1>1, <2>1 DEF Phase, Acknowledged, RS!vars
<1>2. CASE ~Lasting' /\ ~Lasting
  <2>1. row.state # "ready" /\ row'.state # "ready"
    BY DEF InProgress
  <2> QED
    BY <1>2, <2>1 DEF Phase, Acknowledged, RS!vars
<1>3. CASE ~Lasting' /\ Lasting
  <2>1. row'.state # "ready"
    BY DEF InProgress
  <2>2. RS!Fail
    BY <1>3, <2>1 DEF Phase, Acknowledged, RS!Fail
  <2> QED
    BY <2>2 DEF RS!Next
<1> QED
  BY <1>1, <1>2, <1>3

(* An upload ends without success, or what failed is purged.               *)
LEMMA EndsUpload ==
    ASSUME row.state \in {"uploading", "validating", "failed"},
           row'.state \in {"failed", "expired", "deleted"}, row'.meta = row.meta
    PROVE  [RS!Next]_(RS!vars)
<1>1. /\ Phase \in {"open", "failed"}
      /\ Phase # "open" => Acknowledged = <<>>
  BY DEF Phase, Acknowledged, InProgress
<1>2. /\ Phase' = (IF row'.state = "failed" THEN "failed" ELSE "gone")
      /\ Acknowledged' = <<>>
  BY DEF Phase, Acknowledged, Lasting, InProgress
<1>3. CASE row'.state = "failed" /\ Phase = "open"
  BY <1>2, <1>3 DEF RS!Fail, RS!Next
<1>4. CASE row'.state = "failed" /\ Phase = "failed"
  BY <1>1, <1>2, <1>4 DEF RS!vars
<1>5. CASE row'.state # "failed"
  BY <1>1, <1>2, <1>5 DEF RS!Retire, RS!Next
<1> QED
  BY <1>1, <1>3, <1>4, <1>5

(* The whole file becomes the source.                                      *)
LEMMA Seals ==
    ASSUME Sound, ChunkInv, NEW r \in Requests, MarkReady(r)
    PROVE  [RS!Next]_(RS!vars)
<1>1. /\ row.state = "validating" /\ pc[r] = "ready"
      /\ Whole(row.meta.suffix) /\ disk[row.meta.suffix] = arg[r].digest
      /\ disk["part"] = Missing
  BY Parts DEF MarkReady, Txn, At, FilesAt
<1>2. InProgress /\ row.received = row.meta.size
  BY <1>1 DEF InProgress, ChunkInv, FullAt, Validating
<1>3. /\ Stored = arg[r].digest /\ Len(Stored) = row.meta.size
      /\ Stored \in Contents /\ row.meta.size \in Nat
  BY <1>1, <1>2, StoredIs DEF Whole
<1>4. row' = [row EXCEPT !.state = "ready", !.received = row.meta.size,
                         !.hash = arg[r].digest, !.path = arg[r].meta.suffix,
                         !.due = FALSE, !.purged = FALSE]
      /\ row \in RowType
  BY Parts, Split DEF MarkReady, RowInv
<1>5. row'.state = "ready" /\ row'.hash = arg[r].digest /\ row'.meta = row.meta
  BY <1>4 DEF RowType
<1>6. SubSeq(Stored, 1, row.received) = Stored
  BY <1>2, <1>3, SubSeqFull DEF Contents
<1>7. Phase = "open" /\ Acknowledged = Stored
  <2>1. Lasting
    BY <1>2, <1>3 DEF Lasting
  <2> QED
    BY <1>6, <2>1 DEF Phase, Acknowledged
<1>8. Phase' = "ready" /\ Acknowledged' = Stored
  BY <1>3, <1>5 DEF Phase, Acknowledged, Lasting, InProgress
<1>9. RS!Seal
  BY <1>3, <1>5, <1>7, <1>8 DEF RS!Seal
<1> QED
  BY <1>9 DEF RS!Next

(* A row at rest is not touched, expires or is deleted.                    *)
LEMMA AtRest ==
    ASSUME ~InProgress, ~InProgress', row'.meta = row.meta,
           \/ row'.state = row.state /\ row'.hash = row.hash
           \/ row.state \in Gone /\ row'.state \in Gone
           \/ row.state = "ready" /\ row'.state \in Gone
    PROVE  [RS!Next]_(RS!vars)
<1>1. CASE row'.state = row.state /\ row'.hash = row.hash
  BY <1>1 DEF Phase, Acknowledged, Lasting, InProgress, RS!vars
<1>2. CASE row.state \in Gone /\ row'.state \in Gone
  BY <1>2 DEF Phase, Acknowledged, Lasting, InProgress, RS!vars, Gone
<1>3. CASE row.state = "ready" /\ row'.state \in Gone
  <2>1. Phase = "ready" /\ Phase' = "gone" /\ Acknowledged' = <<>>
    BY <1>3 DEF Phase, Acknowledged, Lasting, InProgress, Gone
  <2> QED
    BY <2>1 DEF RS!Retire, RS!Next
<1> QED
  BY <1>1, <1>2, <1>3

LEMMA Begins ==
    ASSUME row.state \in {"missing", "failed"}, NEW meta \in Metas, row' = Uploading(meta),
           Empty', Inv'
    PROVE  [RS!Next]_(RS!vars)
<1>1. /\ row'.state = "uploading" /\ row'.meta = meta /\ row'.received = 0
  BY FreshRow
<1>2. Phase \in {"missing", "failed"}
  BY DEF Phase, Lasting, InProgress
<1>3. Stored' = <<>>
  <2>1. "part" \in Paths /\ meta.suffix \in Paths
    BY MetaType DEF Paths
  <2> QED
    BY <1>1, <2>1 DEF Stored, Empty
<1>4. Phase' = "open" /\ Acknowledged' = SubSeq(<<>>, 1, 0)
  BY <1>1, <1>3 DEF Phase, Acknowledged, Lasting, InProgress
<1>5. Acknowledged' = <<>>
  BY <1>4, SubSeqEmpty
<1>6. RS!Begin
  BY <1>1, <1>2, <1>4, <1>5 DEF RS!Begin, Metas
<1> QED
  BY <1>6 DEF RS!Next

LEMMA StepResumes ==
    ASSUME Sound, ChunkInv, NEW r \in Requests, Step(r)
    PROVE  [RS!Next]_(RS!vars)
<1>1. row \in RowType
  BY Parts, Split DEF RowInv
<1>2. CASE row' = row
  <2>1. CASE InProgress
    <3>1. InProgress'
      BY <1>2, <2>1 DEF InProgress
    <3> QED
      BY <1>2, <2>1, <3>1, KeepsOrFails
  <2>2. CASE ~InProgress
    <3>1. ~InProgress'
      BY <1>2, <2>2 DEF InProgress
    <3> QED
      BY <1>2, <2>2, <3>1, AtRest
  <2> QED
    BY <2>1, <2>2
<1>3. ASSUME row.state # "missing", disk' = Unlinked(Reconciled.unlink),
             NEW d \in BOOLEAN, row' = [Reconciled.row EXCEPT !.due = d]
      PROVE  [RS!Next]_(RS!vars)
  <2>1. Reconciled.row \in RowType
    BY <1>3, ReconciledRow, Parts
  <2>2. /\ row'.state = Reconciled.row.state /\ row'.received = Reconciled.row.received
        /\ row'.meta = row.meta /\ row'.hash = row.hash
    <3>1. Reconciled.row.meta = row.meta /\ Reconciled.row.hash = row.hash
      BY <1>3, ReconciledType, Parts DEF Inv
    <3> QED
      BY <1>3, <2>1, <3>1 DEF RowType
  <2>3. CASE InProgress /\ Reconciled.row.state \in {"uploading", "validating"}
    <3>1. /\ row.received <= Len(Stored) /\ row'.received = Len(Stored) /\ disk' = disk
      BY <1>3, <2>2, <2>3, ReconciledOn, UnlinkNone, Parts
    <3>2. InProgress'
      BY <2>2, <2>3 DEF InProgress
    <3> QED
      BY <2>2, <2>3, <3>1, <3>2, Accepts
  <2>4. CASE InProgress /\ Reconciled.row.state \notin {"uploading", "validating"}
    <3>1. row'.state = "failed"
      BY <1>1, <2>2, <2>4, ReconciledUpload DEF InProgress, RowType
    <3> QED
      BY <2>2, <2>4, <3>1, EndsUpload DEF InProgress
  <2>5. CASE ~InProgress
    <3>1. row'.state = row.state
      BY <1>1, <1>3, <2>2, <2>5, ReconciledOther DEF InProgress, FailedRow, RowType
    <3>2. ~InProgress'
      BY <2>5, <3>1 DEF InProgress
    <3> QED
      BY <2>2, <2>5, <3>1, <3>2, AtRest
  <2> QED
    BY <2>3, <2>4, <2>5
<1>4. CASE SetValidating(r)
  <2>1. InProgress /\ InProgress' /\ row'.meta = row.meta /\ row'.received = row.received
    BY <1>1, <1>4 DEF SetValidating, InProgress, RowType
  <2> QED
    BY <2>1, KeepsOrFails
<1>5. CASE /\ pc[r] \in Ending /\ row'.meta = row.meta
           /\ row'.state \in {"failed", "expired", "deleted"}
  <2>1. row.state \in RowStates /\ row.state \notin Gone
    BY <1>1, <1>5, EndingRow DEF RowType, ChunkInv
  <2>2. row.state # "missing"
    BY <1>5, RowThere, Parts DEF Ending
  <2>3. CASE row.state = "ready"
    <3>1. row' # row => row'.state \in Settled
      <4>1. [Next]_vars
        BY DEF Next
      <4> QED
        BY <2>3, <4>1, StepKeeps, Parts DEF Kept
    <3>2. row'.state \in Gone
      BY <1>5, <2>3, <3>1 DEF Settled, Gone
    <3> QED
      BY <1>5, <2>3, <3>2, AtRest DEF InProgress, Gone
  <2>4. CASE row.state \in {"uploading", "validating", "failed"}
    BY <1>5, <2>4, EndsUpload
  <2> QED
    BY <2>1, <2>2, <2>3, <2>4 DEF RowStates, Settled, Gone
<1>6. Inv'
  BY StepInv, Parts
<1> QED
  BY <1>2, <1>3, <1>4, <1>5, <1>6, Seals, Begins, RowResult

LEMMA ElsewhereResumes ==
    ASSUME Sound, [Next]_vars, \A r \in Requests : ~Step(r)
    PROVE  UNCHANGED RS!vars
<1>1. /\ disk' = disk /\ row'.state = row.state /\ row'.meta = row.meta
      /\ row'.received = row.received /\ row'.hash = row.hash
  BY ElsewhereRow, Parts, Split DEF RowInv, RowType
<1> QED
  BY <1>1 DEF RS!vars, Phase, Acknowledged, Lasting, InProgress, Stored

ChunkIInv == SafeIInv /\ (LocksHeld => ChunkInv)

LEMMA InitChunk == Init => ChunkIInv
  BY InitSafe
     DEF ChunkIInv, ChunkInv, WholeBytes, Recorded, FullAt, GoneOnce, Init, NoRow,
         InProgress, Validating, Gone

LEMMA NextChunkIInv == ChunkIInv /\ [Next]_vars => ChunkIInv'
<1> SUFFICES ASSUME ChunkIInv, [Next]_vars, LocksHeld' PROVE ChunkInv'
  BY NextSafe DEF ChunkIInv
<1>1. LocksHeld
  BY NotYet, Kinds DEF ChunkIInv, SafeIInv, LocksHeld
<1> QED
  BY <1>1, NextChunk DEF ChunkIInv, SafeIInv, Sound

LEMMA NextResumes == ChunkIInv /\ LocksHeld /\ [Next]_vars => [RS!Next]_(RS!vars)
<1> SUFFICES ASSUME ChunkIInv, LocksHeld, [Next]_vars PROVE [RS!Next]_(RS!vars)
  OBVIOUS
<1>1. Sound /\ ChunkInv
  BY DEF ChunkIInv, SafeIInv, Sound
<1> QED
  BY <1>1, StepResumes, ElsewhereResumes

(* While no request loses its lock, an upload implements ResumableSource:  *)
(* for any requests, files, chunk sizes, crashes, stalls, timeouts and     *)
(* refused statements, bytes that were acknowledged stay until the upload  *)
(* fails as a whole, every chunk adds whole bytes behind them, and the     *)
(* ready source is what was acknowledged (append_chunk, _reconcile_locked, *)
(* initialize, complete, cancel, purge).                                   *)
THEOREM UploadsResume == Spec /\ []LocksHeld => Resumable
<1>1. Init => RS!Init
  BY SubSeqEmpty DEF Init, NoRow, RS!Init, Phase, Acknowledged, Lasting, InProgress
<1> QED
  BY <1>1, InitChunk, NextChunkIInv, NextResumes, PTL DEF Spec, Resumable, RS!Spec
=============================================================================
