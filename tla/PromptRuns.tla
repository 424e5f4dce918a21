----------------------------- MODULE PromptRuns -----------------------------
(***************************************************************************)
(* Prompt versions and their attempts, at the granularity of SQL           *)
(* statements: the transactions that create, rerun, enqueue and end runs,  *)
(* choose the favorite, delete a session or hold it, with the rows each    *)
(* statement locks, in the order of the statements.                        *)
(*                                                                         *)
(* PostgreSQL runs at READ COMMITTED: a statement that locks rows waits    *)
(* for them and then sees what was committed meanwhile; of transactions    *)
(* that wait for each other one is aborted.  Every session here has        *)
(* workflow version 2, and whether its source can be used is a choice      *)
(* (SessionSource models it).  The worker ends one run at a time           *)
(* (ExclusiveQueue); what else retention does is in Retention.             *)
(*                                                                         *)
(* Source: src/open_storyline/mvp/prompt_versions.py                       *)
(* (PromptVersionService), jobs.py (JobStore.update, enqueue),             *)
(* retention.py (delete_session, _change_audit_hold), api.py.              *)
(***************************************************************************)
EXTENDS Integers, Sequences, FiniteSets

CONSTANTS
    Sessions,    \* editing sessions
    Requests,    \* requests for a run; each names the rows it makes
    Old,         \* requests answered before, whose runs have completed
    OldHome,     \* the session of those
    Editors,     \* requests to choose a favorite, delete or hold, repeated
    Worker,      \* the worker that holds the fence
    NoOne,       \* the holder of a free lock, and what an operation lacks
    MaxActive,   \* OPENSTORYLINE_MAX_ACTIVE_JOBS
    MaxStarts    \* how many requests and edits clients start

Actors == Requests \cup Editors \cup {Worker}

ASSUME ActorsAssumption == /\ NoOne \notin Actors \cup Sessions
                           /\ Worker \notin Requests \cup Editors
                           /\ Requests \cap Editors = {}
                           /\ IsFiniteSet(Requests)
ASSUME OldAssumption    == /\ Old \subseteq Requests
                           /\ OldHome \in [Old -> Sessions]
                           /\ \A p, q \in Old : OldHome[p] = OldHome[q] => p = q
ASSUME BoundsAssumption == MaxActive \in Nat /\ MaxStarts \in Nat

VARIABLES
    run,       \* the video_jobs row each request made
    number,    \* the version_number of the prompt version it made, or 0
    deleted,   \* sessions that are deleted
    held,      \* the holder of each row lock and advisory lock
    op,        \* what each actor's transaction is doing
    answer,    \* what became of each request, and conflicts of the others
    revived,   \* ended runs that were queued again or failed afterwards
    left       \* requests and edits left to start

vars == <<run, number, deleted, held, op, answer, revived, left>>

-----------------------------------------------------------------------------
(* The number is read before the locks are taken.                          *)
Statements_NumberFirst ==
    [create   |-> <<"number", "capacity", "session">>,
     rerun    |-> <<"number", "capacity", "version", "session">>,
     enqueue  |-> <<"run">>,
     complete |-> <<"run", "session">>,
     fail     |-> <<"run", "session">>,
     select   |-> <<"session", "run", "favorites">>,
     clear    |-> <<"session", "favorites">>,
     delete   |-> <<"session", "runs">>,
     hold     |-> <<"session", "runs">>]

(* delete_session looks at the runs without locking the session first.     *)
Statements_DeleteRuns ==
    [create   |-> <<"capacity", "session", "number">>,
     rerun    |-> <<"capacity", "version", "session", "number">>,
     enqueue  |-> <<"run">>,
     complete |-> <<"run", "session">>,
     fail     |-> <<"run", "session">>,
     select   |-> <<"session", "run", "favorites">>,
     clear    |-> <<"session", "favorites">>,
     delete   |-> <<"runs">>,
     hold     |-> <<"session", "runs">>]

(* select_favorite locks the run before the session.                       *)
Statements_RunFirst ==
    [create   |-> <<"capacity", "session", "number">>,
     rerun    |-> <<"capacity", "version", "session", "number">>,
     enqueue  |-> <<"run">>,
     complete |-> <<"run", "session">>,
     fail     |-> <<"run", "session">>,
     select   |-> <<"run", "session", "favorites">>,
     clear    |-> <<"session", "favorites">>,
     delete   |-> <<"session", "runs">>,
     hold     |-> <<"session", "runs">>]

(* The statements of each transaction that lock or read, named by what     *)
(* they lock; "capacity" is the advisory lock with the count of active     *)
(* runs.  Left out are the session's advisory lock around create and rerun *)
(* (SessionSource), which only keeps requests apart that are apart in      *)
(* fewer behaviours here, and the source's row: who waits for it holds the *)
(* session's row, and who holds it waits for nothing.                      *)
Statements ==
    [create   |-> <<"capacity", "session", "number">>,
     rerun    |-> <<"capacity", "version", "session", "number">>,
     enqueue  |-> <<"run">>,
     complete |-> <<"run", "session">>,
     fail     |-> <<"run", "session">>,
     select   |-> <<"session", "run", "favorites">>,
     clear    |-> <<"session", "favorites">>,
     delete   |-> <<"session", "runs">>,
     hold     |-> <<"session", "runs">>]

Outside  == {"work", "raised"}        \* processing a run, handling an exception
Kinds    == DOMAIN Statements \cup Outside
Makers   == {"create", "rerun"}
Locks    == ({"capacity"} \X {NoOne})
            \cup ({"session"} \X Sessions)
            \cup ({"version", "run"} \X Requests)
Numbers  == 1..Cardinality(Requests) + 1
Active   == {"queued", "running"}            \* of ACTIVE_STATES
Terminal == {"completed", "failed"}          \* of TERMINAL_STATES

Runs     == [state : {"absent"} \cup Active \cup Terminal,
             session : Sessions \cup {NoOne}, version : Requests \cup {NoOne},
             attempt : {0} \cup Numbers, favorite : BOOLEAN]
Ops      == [kind : {"none"} \cup Kinds, at : 0..5,
             session : Sessions \cup {NoOne}, run : Requests \cup {NoOne},
             todo : SUBSET Locks, rows : SUBSET Requests, seen : {0} \cup Numbers]
Answers  == {"none", "made", "accepted", "error", "conflict"}

TypeOK ==
    /\ run \in [Requests -> Runs]
    /\ number \in [Requests -> {0} \cup Numbers]
    /\ deleted \subseteq Sessions
    /\ held \in [Locks -> Actors \cup {NoOne}]
    /\ op \in [Actors -> Ops]
    /\ answer \in [Actors -> Answers]
    /\ revived \subseteq Requests
    /\ left \in Nat

-----------------------------------------------------------------------------
Absent == [state |-> "absent", session |-> NoOne, version |-> NoOne,
           attempt |-> 0, favorite |-> FALSE]
Idle   == [kind |-> "none", at |-> 0, session |-> NoOne, run |-> NoOne,
           todo |-> {}, rows |-> {}, seen |-> 0]

Init ==
    /\ run = [q \in Requests |->
                 IF q \in Old THEN [state |-> "completed", session |-> OldHome[q],
                                    version |-> q, attempt |-> 1, favorite |-> FALSE]
                              ELSE Absent]
    /\ number = [q \in Requests |-> IF q \in Old THEN 1 ELSE 0]
    /\ deleted = {}
    /\ held = [x \in Locks |-> NoOne]
    /\ op = [a \in Actors |-> Idle]
    /\ answer = [a \in Actors |-> IF a \in Old THEN "accepted" ELSE "none"]
    /\ revived = {}
    /\ left = MaxStarts

Made           == {q \in Requests : run[q].state # "absent"}
RunsOf(s)      == {q \in Made : run[q].session = s}
ActiveRuns     == {q \in Made : run[q].state \in Active}
VersionsOf(s)  == {q \in Requests : number[q] # 0 /\ run[q].session = s}
FavoritesOf(s) == {q \in RunsOf(s) : run[q].favorite}

(* The numbers that max() + 1 is computed from.                            *)
Given(o) == IF o.kind = "create"
            THEN {number[q] : q \in VersionsOf(o.session)}
            ELSE {run[q].attempt : q \in {p \in Made : run[p].version = o.run}}
IsNext(n, ns) == /\ \A m \in ns : m < n
                 /\ n = 1 \/ n - 1 \in ns

-----------------------------------------------------------------------------
(* The statement an operation is at, and the rows it selects.  select and  *)
(* clear treat the favorites they found, delete and hold all runs.         *)
Statement(o) == IF o.kind \notin DOMAIN Statements THEN "none"
                ELSE IF o.at <= Len(Statements[o.kind])
                THEN Statements[o.kind][o.at] ELSE "commit"

Selected(o) ==
    CASE Statement(o) = "runs"      -> RunsOf(o.session)
      [] Statement(o) = "favorites" -> FavoritesOf(o.session) \ {o.run}
      [] Statement(o) = "run"       -> {q \in {o.run} : run[q].session = o.session}
      [] OTHER                      -> o.rows

(* The active runs are counted without the advisory lock.                  *)
Wanted_Capacity(o) ==
    CASE Statement(o) = "capacity" -> {}
      [] Statement(o) = "session"  -> {<<"session", o.session>>}
      [] Statement(o) = "version"  -> {<<"version", o.run>>}
      [] Statement(o) \in {"run", "runs", "favorites"}
                                   -> {<<"run", q>> : q \in Selected(o)}
      [] OTHER                     -> {}

Wanted(o) ==
    CASE Statement(o) = "capacity" -> {<<"capacity", NoOne>>}
      [] Statement(o) = "session"  -> {<<"session", o.session>>}
      [] Statement(o) = "version"  -> {<<"version", o.run>>}
      [] Statement(o) \in {"run", "runs", "favorites"}
                                   -> {<<"run", q>> : q \in Selected(o)}
      [] OTHER                     -> {}

(* A statement takes its snapshot when it is issued, which is when the one *)
(* before it has returned.                                                 *)
Issued(o) == [o EXCEPT !.rows = Selected(o), !.todo = Wanted(o)]
First(kind, s, q) == [Idle EXCEPT !.kind = kind, !.at = 1, !.session = s, !.run = q]
Between(kind, s, q) == [Idle EXCEPT !.kind = kind, !.session = s, !.run = q]
Begin(a, kind, s, q) == op' = [op EXCEPT ![a] = Issued(First(kind, s, q))]
Onward(o, n)  == [o EXCEPT !.at = @ + 1, !.seen = n]
Advance(a, n) == op' = [op EXCEPT ![a] = Issued(Onward(@, n))]

Released(a) == [x \in Locks |-> IF held[x] = a THEN NoOne ELSE held[x]]
Answer(a, v) == answer' = IF a \in Requests \/ v = "conflict"
                          THEN [answer EXCEPT ![a] = v] ELSE answer
Rollback(a, v) ==
    /\ held' = Released(a)
    /\ op' = [op EXCEPT ![a] = Idle]
    /\ Answer(a, v)
    /\ UNCHANGED <<run, number, deleted, revived, left>>

-----------------------------------------------------------------------------
(* A request for a new version, or for another attempt of one.             *)
Create(q, s) ==
    /\ answer[q] = "none" /\ op[q] = Idle /\ left > 0
    /\ Begin(q, "create", s, NoOne)
    /\ left' = left - 1
    /\ UNCHANGED <<run, number, deleted, held, answer, revived>>

Rerun(q, v) ==
    /\ answer[q] = "none" /\ op[q] = Idle /\ left > 0
    /\ number[v] # 0
    /\ Begin(q, "rerun", run[v].session, v)
    /\ left' = left - 1
    /\ UNCHANGED <<run, number, deleted, held, answer, revived>>

(* A web request that edits a session.  delete and hold take the cleanup   *)
(* lock and are refused while another holds it.                            *)
Edit(e, kind, s, q) ==
    /\ op[e] = Idle /\ left > 0
    /\ kind \in {"select", "clear", "delete", "hold"}
    /\ IF kind = "select" THEN q \in Made ELSE q = NoOne
    /\ kind \in {"delete", "hold"} => \A f \in Editors : op[f].kind \notin {"delete", "hold"}
    /\ Begin(e, kind, s, q)
    /\ left' = left - 1
    /\ UNCHANGED <<run, number, deleted, held, answer, revived>>

(* The worker takes a queued run, processes it and ends it.  When the      *)
(* update is aborted, or the load after its commit fails, the handler      *)
(* records a failure; when that is aborted too the row stays for the next  *)
(* recovery.  SKIP LOCKED passes over a run while its row or, the other    *)
(* side of the join, its session's is held.                                *)
Lockable(q) == /\ held[<<"run", q>>] = NoOne
               /\ held[<<"session", run[q].session>>] = NoOne
               /\ run[q].session \notin deleted

Claim(q) ==
    /\ op[Worker] = Idle
    /\ run[q].state = "queued" /\ Lockable(q)
    /\ run' = [run EXCEPT ![q].state = "running"]
    /\ op' = [op EXCEPT ![Worker] = Between("work", run[q].session, q)]
    /\ UNCHANGED <<number, deleted, held, answer, revived, left>>

Finish(kind) ==
    /\ \/ op[Worker].kind = "work" /\ kind \in {"complete", "fail"}
       \/ op[Worker].kind = "raised" /\ kind = "fail"
    /\ Begin(Worker, kind, op[Worker].session, op[Worker].run)
    /\ UNCHANGED <<run, number, deleted, held, answer, revived, left>>

Recover(q) ==
    /\ op[Worker] = Idle
    /\ run[q].state = "running" /\ Lockable(q)
    /\ run' = [run EXCEPT ![q].state = "queued"]
    /\ UNCHANGED <<number, deleted, held, op, answer, revived, left>>

-----------------------------------------------------------------------------
(* A statement that selects several rows locks them one at a time; with    *)
(* the last one it returns, and the code looks at what it found.           *)
Acquire(a) == \E x \in op[a].todo :
    /\ op[a].todo # {x} /\ held[x] = NoOne
    /\ held' = [held EXCEPT ![x] = a]
    /\ op' = [op EXCEPT ![a].todo = @ \ {x}]
    /\ UNCHANGED <<run, number, deleted, answer, revived, left>>

Returns(a) == /\ Statement(op[a]) \notin {"none", "number", "commit"}
              /\ \A x \in op[a].todo : op[a].todo = {x} /\ held[x] = NoOne

(* Any run of the session can become the favorite.                         *)
Refused_Selection(o) ==
    \/ Statement(o) = "capacity" /\ Cardinality(ActiveRuns) >= MaxActive
    \/ /\ Statement(o) = "session" /\ o.kind \in Makers \cup {"select", "clear"}
       /\ o.session \in deleted
    \/ Statement(o) = "run" /\ run[o.run].session \in deleted
    \/ /\ Statement(o) = "run" /\ o.kind = "select"
       /\ run[o.run].session # o.session
    \/ /\ Statement(o) = "runs" /\ o.kind = "delete"
       /\ \E q \in o.rows : run[q].state \in Active

(* A run is locked without a look at whether its session is deleted.       *)
Refused_Deleted(o) ==
    \/ Statement(o) = "capacity" /\ Cardinality(ActiveRuns) >= MaxActive
    \/ /\ Statement(o) = "session" /\ o.kind \in Makers \cup {"select", "clear"}
       /\ o.session \in deleted
    \/ /\ Statement(o) = "run" /\ o.kind = "select"
       /\ run[o.run].session # o.session \/ run[o.run].state # "completed"
    \/ /\ Statement(o) = "runs" /\ o.kind = "delete"
       /\ \E q \in o.rows : run[q].state \in Active

Refused(o) ==
    \/ Statement(o) = "capacity" /\ Cardinality(ActiveRuns) >= MaxActive
    \/ /\ Statement(o) = "session" /\ o.kind \in Makers \cup {"select", "clear"}
       /\ o.session \in deleted
    \/ Statement(o) = "run" /\ run[o.run].session \in deleted
    \/ /\ Statement(o) = "run" /\ o.kind = "select"
       /\ run[o.run].session # o.session \/ run[o.run].state # "completed"
    \/ /\ Statement(o) = "runs" /\ o.kind = "delete"
       /\ \E q \in o.rows : run[q].state \in Active

Refuse(a) ==
    /\ Returns(a)
    /\ Refused(op[a]) \/ (op[a].kind \in Makers /\ Statement(op[a]) = "session")
    /\ Rollback(a, "error")

Pass(a) ==
    /\ Returns(a)
    /\ ~Refused(op[a])
    /\ held' = [x \in Locks |-> IF x \in op[a].todo THEN a ELSE held[x]]
    /\ Advance(a, op[a].seen)
    /\ UNCHANGED <<run, number, deleted, answer, revived, left>>

ReadNumber(a) ==
    /\ Statement(op[a]) = "number"
    /\ \E n \in Numbers : IsNext(n, Given(op[a])) /\ Advance(a, n)
    /\ UNCHANGED <<run, number, deleted, held, answer, revived, left>>

(* The unique indexes: a number is given once, a session that is not       *)
(* deleted has one favorite.                                               *)
Collides(o) ==
    \/ o.kind \in Makers /\ o.seen \in Given(o)
    \/ o.kind = "select" /\ FavoritesOf(o.session) \ (o.rows \cup {o.run}) # {}

NewRun(o, v, n) == [state |-> "queued", session |-> o.session, version |-> v,
                    attempt |-> n, favorite |-> FALSE]

Written(a, o) ==
    CASE o.kind = "create" -> [run EXCEPT ![a] = NewRun(o, a, 1)]
      [] o.kind = "rerun"  -> [run EXCEPT ![a] = NewRun(o, o.run, o.seen)]
      [] o.kind = "enqueue"  -> [run EXCEPT ![o.run].state = "queued"]
      [] o.kind = "complete" -> [run EXCEPT ![o.run].state = "completed"]
      [] o.kind = "fail"     -> [run EXCEPT ![o.run].state = "failed"]
      [] o.kind \in {"select", "clear"} ->
            [q \in Requests |-> [run[q] EXCEPT !.favorite =
                (@ /\ q \notin o.rows) \/ (o.kind = "select" /\ q = o.run)]]
      [] OTHER -> run

Commit(a) ==
    /\ Statement(op[a]) = "commit"
    /\ run' = Written(a, op[a])
    /\ number' = IF op[a].kind = "create" THEN [number EXCEPT ![a] = op[a].seen]
                                          ELSE number
    /\ deleted' = IF op[a].kind = "delete" THEN deleted \cup {op[a].session} ELSE deleted
    /\ revived' = IF op[a].kind \in {"enqueue", "fail"} /\ run[op[a].run].state \in Terminal
                  THEN revived \cup {op[a].run} ELSE revived
    /\ held' = Released(a)
    /\ \/ op' = [op EXCEPT ![a] = Idle]
       \/ /\ op[a].kind = "complete"
          /\ op' = [op EXCEPT ![a] = Between("raised", @.session, @.run)]
    /\ Answer(a, IF op[a].kind \in Makers THEN "made" ELSE "accepted")
    /\ UNCHANGED left

(* An index that refuses a commit ends the transaction.                    *)
Conclude(a) ==
    /\ Statement(op[a]) = "commit"
    /\ IF Collides(op[a]) THEN Rollback(a, "conflict") ELSE Commit(a)

-----------------------------------------------------------------------------
(* After the commit the run is loaded and handed to enqueue(), which acts  *)
(* on the state it loads.  A failed load is reported as an error.          *)
Enqueue(q) ==
    /\ answer[q] = "made" /\ op[q] = Idle
    /\ \/ /\ run[q].session \notin deleted /\ run[q].state = "running"
          /\ Begin(q, "enqueue", run[q].session, q)
          /\ UNCHANGED answer
       \/ /\ run[q].session \notin deleted /\ run[q].state = "queued"
          /\ Answer(q, "accepted")
          /\ UNCHANGED op
       \/ /\ run[q].session \in deleted \/ run[q].state \in Terminal
          /\ Answer(q, "error")
          /\ UNCHANGED op
    /\ UNCHANGED <<run, number, deleted, held, revived, left>>

LoadFails(q) ==
    /\ answer[q] = "made" /\ op[q] = Idle
    /\ Answer(q, "error")
    /\ UNCHANGED <<run, number, deleted, held, op, revived, left>>

(* PostgreSQL's deadlock detector: a set of transactions each of which     *)
(* waits for one of the set and blocks one of it loses a member.           *)
Blocked     == {a \in Actors : op[a].todo # {} /\ \A x \in op[a].todo : held[x] # NoOne}
Waits(a, b) == a # b /\ \E x \in op[a].todo : held[x] = b
Cycles == {S \in SUBSET Blocked :
               /\ S # {}
               /\ \A a \in S : (\E b \in S : Waits(a, b)) /\ (\E b \in S : Waits(b, a))}

Abort(a) ==
    /\ \E S \in Cycles : a \in S
    /\ IF op[a].kind = "complete"
       THEN /\ held' = Released(a)
            /\ op' = [op EXCEPT ![a] = Between("raised", @.session, @.run)]
            /\ UNCHANGED <<run, number, deleted, answer, revived, left>>
       ELSE Rollback(a, "error")

-----------------------------------------------------------------------------
Step(a) == \/ Acquire(a) \/ Pass(a) \/ ReadNumber(a) \/ Refuse(a)
           \/ Conclude(a) \/ Abort(a)

(* The system may rest only when nobody is in the middle of something: a   *)
(* transaction that could not go on would be a deadlock.                   *)
Done == (\A a \in Actors : op[a] = Idle) /\ UNCHANGED vars

Next ==
    \/ \E q \in Requests : \/ \E s \in Sessions : Create(q, s)
                           \/ \E v \in Requests : Rerun(q, v)
                           \/ Enqueue(q) \/ LoadFails(q)
                           \/ Claim(q) \/ Recover(q)
    \/ \E e \in Editors, kind \in Kinds, s \in Sessions, q \in Requests \cup {NoOne} :
          Edit(e, kind, s, q)
    \/ \E kind \in Kinds : Finish(kind)
    \/ \E a \in Actors : Step(a)
    \/ Done

Spec == Init /\ [][Next]_vars

-----------------------------------------------------------------------------
(* max() + 1 under the row lock of the session gives every version and     *)
(* every attempt a number of its own, and the favorite moves under the     *)
(* same lock: the unique indexes never refuse a commit.                    *)
NeverConflict == \A a \in Actors : answer[a] # "conflict"

(* Of the runs that were not put back after they had ended, no more are    *)
(* active than the queue admits, although the count and the insert are two *)
(* statements.                                                             *)
CapacityHeld == Cardinality(ActiveRuns \ revived) <= MaxActive

(* A session that is not deleted has at most one favorite, a run that has  *)
(* completed, although the run may be ending while it is selected.  Only a *)
(* run that is queued again, or failed because the load after its last     *)
(* update failed, keeps the mark without having completed.                 *)
FavoriteCompleted ==
    \A s \in Sessions :
        /\ Cardinality(FavoritesOf(s)) <= 1
        /\ \A q \in FavoritesOf(s) \ revived : run[q].state = "completed"

(* A session is deleted only when none of its runs is active, and none     *)
(* becomes active afterwards.                                              *)
DeletedIsQuiet == \A q \in ActiveRuns : run[q].session \notin deleted

(* Transactions wait for each other only when a worker ends a run (its row *)
(* first, then the session's) while an editor of the session (the session  *)
(* first, then its runs) has it.  A request for a run is never aborted.    *)
DeadlocksNeedAnEnding ==
    \A S \in Cycles :
        /\ Worker \in S /\ op[Worker].kind \in {"complete", "fail"}
        /\ S \cap Editors # {} /\ S \cap Requests = {}

(* What the transactions read in several statements is still so when they  *)
(* commit: every one of them takes effect as if it were alone, and none    *)
(* touches a row of a deleted session.                                     *)
AR == INSTANCE AtomicRuns
Atomic == AR!Spec
=============================================================================
