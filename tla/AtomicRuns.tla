----------------------------- MODULE AtomicRuns -----------------------------
(***************************************************************************)
(* What the transactions around runs promise: each takes effect at once,   *)
(* on rows that meet its conditions at that instant, as if no other were   *)
(* under way.  Statements, locks, snapshots and aborts are not visible     *)
(* here.  No row of a deleted session changes.                             *)
(*                                                                         *)
(* It also admits what enqueue() and the handler of a failed load really   *)
(* do: they bring back, or fail, a run that has ended (revived).           *)
(***************************************************************************)
EXTENDS Integers, FiniteSets

CONSTANTS
    Sessions,
    Requests,    \* each names the rows it makes
    Old,         \* requests answered before, whose runs have completed
    OldHome,     \* the session of those
    NoOne,
    MaxActive    \* OPENSTORYLINE_MAX_ACTIVE_JOBS

VARIABLES
    run,         \* the video_jobs row each request made
    number,      \* the version_number of the prompt version it made, or 0
    deleted,     \* sessions that are deleted
    revived      \* ended runs that were queued again or failed afterwards

vars == <<run, number, deleted, revived>>

Waiting == {"queued", "running"}
Ended   == {"completed", "failed"}

NoRun == [state |-> "absent", session |-> NoOne, version |-> NoOne,
          attempt |-> 0, favorite |-> FALSE]

Init ==
    /\ run = [q \in Requests |->
                 IF q \in Old THEN [state |-> "completed", session |-> OldHome[q],
                                    version |-> q, attempt |-> 1, favorite |-> FALSE]
                              ELSE NoRun]
    /\ number = [q \in Requests |-> IF q \in Old THEN 1 ELSE 0]
    /\ deleted = {} /\ revived = {}

-----------------------------------------------------------------------------
Exists(q) == q \in Requests /\ run[q].state # "absent"
Open(q)   == Exists(q) /\ run[q].session \notin deleted
Home(s)   == {q \in Requests : Exists(q) /\ run[q].session = s}
HasRoom   == Cardinality({q \in Requests : run[q].state \in Waiting} \ revived) < MaxActive

(* The next number after those given, without a gap                        *)
Follows(n, given) == (\A m \in given : m < n) /\ (n = 1 \/ n - 1 \in given)

Insert(q, s, v, n) ==
    /\ run[q].state = "absent" /\ s \notin deleted /\ HasRoom
    /\ run' = [run EXCEPT ![q] = [state |-> "queued", session |-> s, version |-> v,
                                  attempt |-> n, favorite |-> FALSE]]

(* A new version of the session, with its first attempt                    *)
Create(q, s) ==
    /\ Insert(q, s, q, 1)
    /\ \E n \in 1 .. Cardinality(Requests) + 1 :
          /\ Follows(n, {number[p] : p \in {p \in Requests : number[p] # 0 /\ run[p].session = s}})
          /\ number' = [number EXCEPT ![q] = n]
    /\ UNCHANGED <<deleted, revived>>

(* Another attempt of a version                                            *)
Rerun(q, v) ==
    /\ number[v] # 0
    /\ \E n \in 1 .. Cardinality(Requests) + 1 :
          /\ Follows(n, {run[p].attempt : p \in {p \in Requests : Exists(p) /\ run[p].version = v}})
          /\ Insert(q, run[v].session, v, n)
    /\ UNCHANGED <<number, deleted, revived>>

Becomes(q, state) == run' = [run EXCEPT ![q].state = state]

Claim(q) ==
    /\ Open(q) /\ run[q].state = "queued" /\ Becomes(q, "running")
    /\ UNCHANGED <<number, deleted, revived>>

Recover(q) ==
    /\ Open(q) /\ run[q].state = "running" /\ Becomes(q, "queued")
    /\ UNCHANGED <<number, deleted, revived>>

Complete(q) ==
    /\ Open(q) /\ run[q].state \in Waiting /\ Becomes(q, "completed")
    /\ UNCHANGED <<number, deleted, revived>>

(* A failure recorded, or "queued" written: also after the end             *)
Overwrite(q) ==
    /\ Open(q) /\ \E state \in {"queued", "failed"} : Becomes(q, state)
    /\ revived' = IF run[q].state \in Ended THEN revived \cup {q} ELSE revived
    /\ UNCHANGED <<number, deleted>>

(* The favorite moves: of the session's runs the one that is chosen, a     *)
(* completed one, or none                                                  *)
Mark(s, chosen) ==
    /\ s \notin deleted
    /\ run' = [q \in Requests |-> IF q \in Home(s)
                                  THEN [run[q] EXCEPT !.favorite = q \in chosen] ELSE run[q]]
    /\ UNCHANGED <<number, deleted, revived>>

Select(q) == Open(q) /\ run[q].state = "completed" /\ Mark(run[q].session, {q})
Clear(s) == Mark(s, {})

Delete(s) ==
    /\ \A q \in Home(s) : run[q].state \in Ended
    /\ deleted' = deleted \cup {s}
    /\ UNCHANGED <<run, number, revived>>

-----------------------------------------------------------------------------
Next ==
    \/ \E s \in Sessions : Clear(s) \/ Delete(s)
    \/ \E q \in Requests :
          \/ Claim(q) \/ Recover(q) \/ Complete(q) \/ Overwrite(q) \/ Select(q)
          \/ \E s \in Sessions : Create(q, s)
          \/ \E v \in Requests : Rerun(q, v)

Spec == Init /\ [][Next]_vars
=============================================================================
