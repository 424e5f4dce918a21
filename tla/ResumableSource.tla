--------------------------- MODULE ResumableSource ---------------------------
(***************************************************************************)
(* What a session's source promises to the client that uploads it: the     *)
(* bytes that were acknowledged stay as they are until the upload fails as *)
(* a whole; a chunk adds whole bytes of a client's file behind them, no    *)
(* more than one chunk at a time; what becomes ready is exactly what was   *)
(* accepted, with the length declared; and it stays so until it is gone    *)
(* for good.  Rows, files, locks and requests are not visible here.        *)
(***************************************************************************)
EXTENDS Integers, Sequences

CONSTANTS
    Files,        \* videos that clients upload; a byte is the file it is of
    Declared,     \* what a client declares of a file
    MaxChunk,     \* max_chunk_bytes
    Missing

VARIABLES
    phase,        \* "missing", "open", "failed", "ready" or "gone"
    meta,         \* what was declared, or Missing
    content       \* the bytes accepted so far

vars == <<phase, meta, content>>

Init == phase = "missing" /\ meta = Missing /\ content = <<>>

(* An upload begins, or begins again from nothing                          *)
Begin ==
    /\ phase \in {"missing", "failed"} /\ phase' = "open"
    /\ \E f \in Files : meta' = Declared[f]
    /\ content' = <<>>

Accept ==
    /\ phase = "open" /\ UNCHANGED <<phase, meta>>
    /\ \E n \in 1 .. MaxChunk :
          /\ Len(content) + n <= meta.size
          /\ \E chunk \in [1 .. n -> Files] : content' = content \o chunk

Fail ==
    /\ phase = "open" /\ phase' = "failed"
    /\ content' = <<>> /\ UNCHANGED meta

Seal ==
    /\ phase = "open" /\ Len(content) = meta.size
    /\ phase' = "ready" /\ UNCHANGED <<meta, content>>

(* A source, or what is left of an upload, is purged                       *)
Retire ==
    /\ phase \in {"open", "failed", "ready"} /\ phase' = "gone"
    /\ content' = <<>> /\ UNCHANGED meta

Next == Begin \/ Accept \/ Fail \/ Seal \/ Retire

Spec == Init /\ [][Next]_vars
=============================================================================
