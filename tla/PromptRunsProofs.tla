-------------------------- MODULE PromptRunsProofs --------------------------
(***************************************************************************)
(* Proofs about PromptRuns for any sessions, requests and editors: types,  *)
(* that no commit meets a unique index, which needs to know what a         *)
(* transaction holds and has read at each statement (IInv), and what the   *)
(* row locks then give (LInv): the capacity of the queue, quiet deleted    *)
(* sessions, one favorite that has completed, and which transactions can   *)
(* wait for each other.  With what is still true at each commit (SInv) the *)
(* transactions implement AtomicRuns.                                      *)
(***************************************************************************)
EXTENDS PromptRuns, FiniteSetTheorems, TLAPS

-----------------------------------------------------------------------------
(* Statements, spelled out.                                                *)
Doing(o) == o.kind \in DOMAIN Statements

LEMMA Table ==
    ASSUME NEW o \in Ops, Doing(o) => o.at >= 1
    PROVE  /\ o.kind = "create" =>
                Statement(o) = IF o.at = 1 THEN "capacity" ELSE
                               IF o.at = 2 THEN "session" ELSE
                               IF o.at = 3 THEN "number" ELSE "commit"
           /\ o.kind = "rerun" =>
                Statement(o) = IF o.at = 1 THEN "capacity" ELSE
                               IF o.at = 2 THEN "version" ELSE
                               IF o.at = 3 THEN "session" ELSE
                               IF o.at = 4 THEN "number" ELSE "commit"
           /\ o.kind = "enqueue" =>
                Statement(o) = IF o.at = 1 THEN "run" ELSE "commit"
           /\ o.kind \in {"complete", "fail"} =>
                Statement(o) = IF o.at = 1 THEN "run" ELSE
                               IF o.at = 2 THEN "session" ELSE "commit"
           /\ o.kind = "select" =>
                Statement(o) = IF o.at = 1 THEN "session" ELSE
                               IF o.at = 2 THEN "run" ELSE
                               IF o.at = 3 THEN "favorites" ELSE "commit"
           /\ o.kind = "clear" =>
                Statement(o) = IF o.at = 1 THEN "session" ELSE
                               IF o.at = 2 THEN "favorites" ELSE "commit"
           /\ o.kind \in {"delete", "hold"} =>
                Statement(o) = IF o.at = 1 THEN "session" ELSE
                               IF o.at = 2 THEN "runs" ELSE "commit"
           /\ ~Doing(o) => Statement(o) = "none"
           /\ o.kind \in {"none", "work", "raised", "create", "rerun", "enqueue", "complete",
                          "fail", "select", "clear", "delete", "hold"}
           /\ Doing(o) <=> o.kind \notin {"none", "work", "raised"}
  <1>0. o.at \in 0..5 /\ o.kind \in {"none"} \cup Kinds
    BY DEF Ops
  <1>1. CASE ~Doing(o)
    BY <1>0, <1>1 DEF Doing, Statement, Kinds, Outside, Statements
  <1>2. CASE o.kind = "create"
    BY <1>0, <1>2 DEF Doing, Statement, Statements
  <1>3. CASE o.kind = "rerun"
    BY <1>0, <1>3 DEF Doing, Statement, Statements
  <1>4. CASE o.kind = "enqueue"
    BY <1>0, <1>4 DEF Doing, Statement, Statements
  <1>5. CASE o.kind = "complete"
    BY <1>0, <1>5 DEF Doing, Statement, Statements
  <1>6. CASE o.kind = "fail"
    BY <1>0, <1>6 DEF Doing, Statement, Statements
  <1>7. CASE o.kind = "select"
    BY <1>0, <1>7 DEF Doing, Statement, Statements
  <1>8. CASE o.kind = "clear"
    BY <1>0, <1>8 DEF Doing, Statement, Statements
  <1>9. CASE o.kind = "delete"
    BY <1>0, <1>9 DEF Doing, Statement, Statements
  <1>10. CASE o.kind = "hold"
    BY <1>0, <1>10 DEF Doing, Statement, Statements
  <1> QED
    BY <1>0, <1>1, <1>2, <1>3, <1>4, <1>5, <1>6, <1>7, <1>8, <1>9, <1>10
       DEF Doing, Kinds, Outside, Statements

-----------------------------------------------------------------------------
(* What is known about rows between steps: a request that has not been     *)
(* answered has made none, and every run belongs to a version.             *)
RowInv(q) ==
    /\ answer[q] = "none" => run[q].state = "absent" /\ number[q] = 0
    /\ number[q] # 0 => run[q].state # "absent"
    /\ run[q].state # "absent" => run[q].session \in Sessions

(* The statements at which a transaction holds the session's row.          *)
HasSession(o) ==
    \/ o.kind \in Makers /\ Statement(o) \in {"number", "commit"}
    \/ o.kind \in {"select", "clear"} /\ o.at > 1

(* What is known about the transaction of an actor.  A maker about to      *)
(* insert has a number that is not taken, and select_favorite has found    *)
(* every favorite, as long as they hold the session's row.                 *)
OpInv(a) ==
    /\ Doing(op[a]) => op[a].at >= 1
    /\ op[a].kind # "none" => op[a].session \in Sessions
    /\ op[a].kind \in {"enqueue", "complete", "fail", "select", "work", "raised"} => op[a].run \in Made
    /\ op[a].kind = "rerun" => /\ op[a].run \in Requests
                               /\ number[op[a].run] # 0
                               /\ op[a].session = run[op[a].run].session
    /\ op[a].kind \in Makers => a \in Requests /\ answer[a] = "none"
    /\ Statement(op[a]) = "session" => op[a].todo = {<<"session", op[a].session>>}
    /\ HasSession(op[a]) => held[<<"session", op[a].session>>] = a
    /\ op[a].kind \in Makers /\ Statement(op[a]) = "commit" => op[a].seen \notin Given(op[a])
    /\ op[a].kind = "select" /\ Statement(op[a]) \in {"favorites", "commit"} =>
          /\ FavoritesOf(op[a].session) \subseteq op[a].rows \cup {op[a].run}
          /\ run[op[a].run].session = op[a].session

IInv == /\ TypeOK
        /\ \A q \in Requests : RowInv(q)
        /\ \A a \in Actors : OpInv(a)
        /\ NeverConflict

LEMMA OneIsANumber == 1 \in Numbers
  BY ActorsAssumption, FS_CardinalityType DEF Numbers

LEMMA InitIInv == Init => IInv
  <1> SUFFICES ASSUME Init PROVE IInv
    OBVIOUS
  <1> USE DEF Init
  <1>1. TypeOK
    BY OneIsANumber, OldAssumption, BoundsAssumption, ActorsAssumption
       DEF TypeOK, Runs, Ops, Answers, Absent, Idle, Actors, Active, Terminal, Kinds
  <1>2. ASSUME NEW q \in Requests PROVE RowInv(q)
    BY <1>2, OldAssumption DEF RowInv, Absent, Actors
  <1>3. ASSUME NEW a \in Actors PROVE OpInv(a)
    <2>1. op[a] = Idle /\ Idle.kind = "none" /\ Statement(op[a]) = "none" /\ ~Doing(op[a])
      BY DEF Idle, Doing, Statement, Statements
    <2> QED
      BY <2>1 DEF OpInv, HasSession, Makers
  <1>4. NeverConflict
    BY DEF NeverConflict
  <1> QED
    BY <1>1, <1>2, <1>3, <1>4 DEF IInv

-----------------------------------------------------------------------------
(* An operation at its first statement, and the worker's between two.      *)
LEMMA Records ==
    ASSUME NEW kind \in Kinds, NEW s \in Sessions, NEW q \in Requests \cup {NoOne}
    PROVE  /\ First(kind, s, q) \in Ops
           /\ First(kind, s, q).kind = kind /\ First(kind, s, q).at = 1
           /\ First(kind, s, q).session = s /\ First(kind, s, q).run = q
           /\ Between(kind, s, q) \in Ops
           /\ Between(kind, s, q).kind = kind
           /\ Between(kind, s, q).session = s /\ Between(kind, s, q).run = q
  <1> DEFINE f == First(kind, s, q)
             w == Between(kind, s, q)
  <1>1. /\ DOMAIN f = {"kind", "at", "session", "run", "todo", "rows", "seen"}
        /\ f = [x \in DOMAIN f |-> f[x]]
        /\ DOMAIN w = {"kind", "at", "session", "run", "todo", "rows", "seen"}
        /\ w = [x \in DOMAIN w |-> w[x]]
    BY DEF First, Between, Idle
  <1>2. /\ f.kind = kind /\ f.at = 1 /\ f.session = s /\ f.run = q
        /\ f.todo = {} /\ f.rows = {} /\ f.seen = 0
    BY DEF First, Idle
  <1>3. /\ w.kind = kind /\ w.at = 0 /\ w.session = s /\ w.run = q
        /\ w.todo = {} /\ w.rows = {} /\ w.seen = 0
    BY DEF Between, Idle
  <1> HIDE DEF f, w
  <1>4. f \in Ops /\ w \in Ops
    BY <1>1, <1>2, <1>3 DEF Ops
  <1> QED
    BY <1>2, <1>3, <1>4 DEF f, w

(* Issuing a statement changes what it wants and the rows it found.        *)
LEMMA IssuedFacts ==
    ASSUME TypeOK, NEW o \in Ops, o.session \in Sessions, Doing(o), o.at >= 1,
           o.kind \in {"rerun", "enqueue", "complete", "fail", "select"} => o.run \in Requests
    PROVE  /\ Issued(o) \in Ops
           /\ Issued(o).kind = o.kind /\ Issued(o).at = o.at /\ Issued(o).seen = o.seen
           /\ Issued(o).session = o.session /\ Issued(o).run = o.run
           /\ Statement(Issued(o)) = Statement(o)
           /\ HasSession(Issued(o)) <=> HasSession(o)
           /\ Given(Issued(o)) = Given(o)
           /\ Statement(o) = "session" => Issued(o).todo = {<<"session", o.session>>}
           /\ Statement(o) = "favorites" =>
                 Issued(o).rows = FavoritesOf(o.session) \ {o.run}
           /\ Statement(o) = "commit" => Issued(o).rows = o.rows
  <1>0. Statement(o) = "run" => o.run \in Requests
    BY Table
  <1>1. Selected(o) \subseteq Requests
    BY <1>0 DEF Selected, RunsOf, FavoritesOf, Made, Ops
  <1>2. Wanted(o) \subseteq Locks
    <2>1. Statement(o) = "version" => o.run \in Requests
      BY Table
    <2> QED
      BY <1>1, <2>1 DEF Wanted, Locks
  <1>3. /\ Issued(o) \in Ops
        /\ Issued(o).kind = o.kind /\ Issued(o).at = o.at /\ Issued(o).seen = o.seen
        /\ Issued(o).session = o.session /\ Issued(o).run = o.run
        /\ Issued(o).rows = Selected(o) /\ Issued(o).todo = Wanted(o)
    BY <1>1, <1>2 DEF Issued, Ops
  <1>4. Statement(Issued(o)) = Statement(o)
    BY <1>3 DEF Statement
  <1>5. HasSession(Issued(o)) <=> HasSession(o)
    BY <1>3, <1>4 DEF HasSession
  <1>6. Given(Issued(o)) = Given(o)
    BY <1>3 DEF Given
  <1> QED
    BY <1>3, <1>4, <1>5, <1>6 DEF Selected, Wanted

(* A step that keeps an actor's operation, its answer and its row lock     *)
(* keeps what is known about it, unless the rows it has read change.       *)
LEMMA Others ==
    ASSUME NEW b \in Actors, NEW o, o = op[b], o = op'[b], o \in Ops, OpInv(b),
           o.kind \in Makers => answer'[b] = answer[b],
           Made \subseteq Made',
           \A q \in Made : run'[q].session = run[q].session,
           \A q \in Requests : number[q] # 0 => number'[q] # 0 /\ q \in Made,
           HasSession(o) => held'[<<"session", o.session>>] = held[<<"session", o.session>>],
           HasSession(o) /\ o.kind \in Makers => Given(o)' \subseteq Given(o),
           HasSession(o) /\ o.kind = "select" =>
               FavoritesOf(o.session)' \subseteq FavoritesOf(o.session)
    PROVE  OpInv(b)'
  <1>1. o.kind = "select" /\ Statement(o) \in {"favorites", "commit"} => HasSession(o)
    <2>1. (Doing(o) => o.at >= 1) /\ o.at \in 0..5
      BY DEF OpInv, Ops
    <2>2. CASE o.kind = "select"
      BY <2>1, <2>2, Table DEF HasSession
    <2> QED
      BY <2>2
  <1>2. o.kind \in Makers /\ Statement(o) = "commit" => HasSession(o)
    BY DEF HasSession
  <1> QED
    BY <1>1, <1>2 DEF OpInv

(* An actor without a transaction.                                         *)
LEMMA Resting ==
    ASSUME NEW a \in Actors, op'[a] = Idle
    PROVE  OpInv(a)'
  <1>1. Idle.kind = "none" /\ Statement(Idle) = "none" /\ ~Doing(Idle)
    BY DEF Idle, Doing, Statement, Statements
  <1>2. Statement(op[a])' = "none" /\ Doing(op[a])' = FALSE
    BY <1>1 DEF Statement, Doing
  <1> QED
    BY <1>1, <1>2 DEF OpInv, HasSession, Makers

LEMMA Unchanged ==
    ASSUME NEW a \in Actors, OpInv(a), UNCHANGED vars
    PROVE  OpInv(a)'
  BY DEF vars, OpInv, HasSession, Given, VersionsOf, FavoritesOf, RunsOf, Made

(* A worker between two transactions.                                      *)
LEMMA AtWork ==
    ASSUME NEW a \in Actors, NEW o, o = op'[a], o.kind \in Outside,
           o.session \in Sessions, o.run \in Made'
    PROVE  OpInv(a)'
  <1>1. Statement(o) = "none" /\ ~Doing(o)
    BY DEF Statement, Doing, Statements, Outside
  <1> QED
    BY <1>1 DEF OpInv, HasSession, Makers, Outside

(* The rows that numbers and favorites are read from, unless a run is made *)
(* or a favorite changes.                                                  *)
LEMMA SameRows ==
    ASSUME number' = number,
           \A q \in Requests : /\ run'[q].session = run[q].session
                               /\ run'[q].version = run[q].version
                               /\ run'[q].attempt = run[q].attempt
                               /\ run'[q].favorite = run[q].favorite
                               /\ run'[q].state = "absent" <=> run[q].state = "absent"
    PROVE  /\ Made' = Made
           /\ \A o : Given(o)' = Given(o)
           /\ \A s : FavoritesOf(s)' = FavoritesOf(s)
  <1>1. Made' = Made
    BY DEF Made
  <1>2. ASSUME NEW o PROVE Given(o)' = Given(o)
    <2>1. VersionsOf(o.session)' = VersionsOf(o.session)
      BY DEF VersionsOf
    <2>2. {number'[q] : q \in VersionsOf(o.session)} = {number[q] : q \in VersionsOf(o.session)}
      BY DEF VersionsOf
    <2>3. {p \in Made : run'[p].version = o.run} = {p \in Made : run[p].version = o.run}
      BY DEF Made
    <2>4. {run'[q].attempt : q \in {p \in Made : run[p].version = o.run}}
            = {run[q].attempt : q \in {p \in Made : run[p].version = o.run}}
      BY DEF Made
    <2> QED
      BY <1>1, <2>1, <2>2, <2>3, <2>4 DEF Given
  <1>3. ASSUME NEW s PROVE FavoritesOf(s)' = FavoritesOf(s)
    BY <1>1 DEF FavoritesOf, RunsOf, Made
  <1> QED
    BY <1>1, <1>2, <1>3

(* A step of one actor that makes no run, moves no favorite and leaves the *)
(* locks of the others alone.                                              *)
Alone(a) ==
    /\ \A b \in Actors \ {a} : op'[b] = op[b] /\ answer'[b] = answer[b]
    /\ \A b \in Actors \ {a}, x \in Locks : held[x] = b => held'[x] = b
    /\ answer'[a] = "none" => answer[a] = "none"
    /\ answer'[a] # "conflict"
    /\ number' = number
    /\ \A q \in Requests : /\ run'[q].session = run[q].session
                           /\ run'[q].version = run[q].version
                           /\ run'[q].attempt = run[q].attempt
                           /\ run'[q].favorite = run[q].favorite
                           /\ run'[q].state = "absent" <=> run[q].state = "absent"

LEMMA QuietStep ==
    ASSUME IInv, TypeOK', NEW a \in Actors, Alone(a), OpInv(a)'
    PROVE  IInv'
  <1>1. Made' = Made /\ (\A o : Given(o)' = Given(o)) /\ (\A s : FavoritesOf(s)' = FavoritesOf(s))
    BY SameRows DEF Alone
  <1>2. ASSUME NEW q \in Requests PROVE RowInv(q)'
    <2>1. RowInv(q) /\ q \in Actors
      BY DEF IInv, Actors
    <2>2. answer'[q] = "none" => answer[q] = "none"
      BY <2>1 DEF Alone
    <2> QED
      BY <2>1, <2>2 DEF RowInv, Alone
  <1>3. ASSUME NEW b \in Actors \ {a} PROVE OpInv(b)'
    <2>1. op'[b] = op[b] /\ op[b] \in Ops /\ OpInv(b) /\ answer'[b] = answer[b]
      BY DEF IInv, TypeOK, Alone
    <2>2. HasSession(op[b]) => /\ held[<<"session", op[b].session>>] = b
                               /\ held'[<<"session", op[b].session>>] = b
      <3>1. HasSession(op[b]) => op[b].session \in Sessions
        BY <2>1 DEF OpInv, HasSession, Makers
      <3>2. op[b].session \in Sessions => <<"session", op[b].session>> \in Locks
        BY DEF Locks
      <3> QED
        BY <2>1, <3>1, <3>2 DEF OpInv, Alone
    <2>3. \A q \in Requests : number[q] # 0 => number'[q] # 0 /\ q \in Made
      BY DEF IInv, RowInv, Made, Alone
    <2>4. \A q \in Made : run'[q].session = run[q].session
      BY DEF Made, Alone
    <2> QED
      BY <1>1, <2>1, <2>2, <2>3, <2>4, Others
  <1>4. NeverConflict'
    BY DEF IInv, NeverConflict, Alone
  <1> QED
    BY <1>2, <1>3, <1>4 DEF IInv

(* The first statement of a transaction.                                   *)
LEMMA BeginStep ==
    ASSUME IInv, NEW a \in Actors, NEW kind \in DOMAIN Statements, NEW s \in Sessions,
           NEW q \in Requests \cup {NoOne}, Begin(a, kind, s, q),
           UNCHANGED <<run, number, deleted, held, answer, revived>>, left' \in Nat,
           kind \in {"enqueue", "complete", "fail", "select"} => q \in Made,
           kind = "rerun" => q \in Requests /\ number[q] # 0 /\ s = run[q].session,
           kind \in Makers => a \in Requests /\ answer[a] = "none"
    PROVE  IInv'
  <1> DEFINE o == First(kind, s, q)
  <1>1. /\ o \in Ops /\ Doing(o)
        /\ o.kind = kind /\ o.at = 1 /\ o.session = s /\ o.run = q
    BY Records DEF Doing, Kinds
  <1>2. q \in Made => q \in Requests
    BY DEF Made
  <1>3. o.kind \in {"rerun", "enqueue", "complete", "fail", "select"} => o.run \in Requests
    BY <1>1, <1>2
  <1>4. op' = [op EXCEPT ![a] = Issued(o)] /\ op'[a] = Issued(o)
    BY DEF Begin, IInv, TypeOK
  <1>5. TypeOK
    BY DEF IInv
  <1> HIDE DEF o
  <1>6. /\ Issued(o) \in Ops
        /\ Issued(o).kind = kind /\ Issued(o).at = 1
        /\ Issued(o).session = s /\ Issued(o).run = q
        /\ Statement(Issued(o)) = Statement(o)
        /\ HasSession(Issued(o)) <=> HasSession(o)
        /\ Statement(o) = "session" => Issued(o).todo = {<<"session", s>>}
    BY <1>1, <1>3, <1>5, IssuedFacts
  <1>7. TypeOK'
    BY <1>4, <1>5, <1>6 DEF TypeOK
  <1>8. ~HasSession(o) /\ Statement(o) \notin {"number", "favorites", "commit"}
    BY <1>1, Table DEF HasSession, Makers
  <1>9. OpInv(a)'
    <2>1. Made' = Made
      BY DEF Made
    <2> DEFINE i == op'[a]
    <2>2. /\ i \in Ops /\ i.kind = kind /\ i.at = 1 /\ i.session = s /\ i.run = q
          /\ Statement(i) = Statement(o) /\ ~HasSession(i)
          /\ Statement(i) \notin {"number", "favorites", "commit"}
          /\ Statement(i) = "session" => i.todo = {<<"session", s>>}
      BY <1>4, <1>6, <1>8
    <2>3. q \in Made => q \in Requests
      BY <1>2
    <2>4. kind \notin {"work", "raised"}
      BY DEF Statements
    <2> HIDE DEF i
    <2>5. /\ Doing(i) => i.at >= 1
          /\ i.session \in Sessions
          /\ i.kind \in {"enqueue", "complete", "fail", "select", "work", "raised"} => i.run \in Made'
          /\ i.kind = "rerun" => /\ i.run \in Requests
                                 /\ number'[i.run] # 0
                                 /\ i.session = run'[i.run].session
          /\ i.kind \in Makers => a \in Requests /\ answer'[a] = "none"
      BY <2>1, <2>2, <2>4
    <2>6. i = op'[a]
      BY DEF i
    <2> QED
      BY <2>2, <2>5, <2>6 DEF OpInv
  <1>10. Alone(a)
    BY <1>4 DEF Alone, IInv, NeverConflict
  <1> QED
    BY <1>7, <1>9, <1>10, QuietStep

(* A transaction that ends without a trace.                                *)
LEMMA RollbackStep ==
    ASSUME IInv, NEW a \in Actors, NEW v \in {"error"}, Rollback(a, v)
    PROVE  IInv'
  <1>1. op' = [op EXCEPT ![a] = Idle] /\ op'[a] = Idle /\ op[a] \in Ops
    BY DEF Rollback, IInv, TypeOK
  <1>2. /\ answer'[a] \in {answer[a], v}
        /\ \A b \in Actors \ {a} : answer'[b] = answer[b]
        /\ answer' \in [Actors -> Answers]
    BY DEF Rollback, Answer, IInv, TypeOK, Answers
  <1>3. /\ held' \in [Locks -> Actors \cup {NoOne}]
        /\ \A b \in Actors \ {a}, x \in Locks : held[x] = b => held'[x] = b
    BY DEF Rollback, Released, IInv, TypeOK
  <1>4. Idle \in Ops
    BY DEF Idle, Ops, Kinds
  <1>5. TypeOK'
    BY <1>1, <1>2, <1>3, <1>4 DEF Rollback, IInv, TypeOK
  <1>6. OpInv(a)'
    BY <1>1, Resting
  <1>7. Alone(a)
    <2>1. answer'[a] # "conflict"
      BY <1>2 DEF IInv, NeverConflict
    <2> QED
      BY <1>1, <1>2, <1>3, <2>1 DEF Alone, Rollback
  <1> QED
    BY <1>5, <1>6, <1>7, QuietStep

(* A statement that returns, and the next one.                             *)
LEMMA AdvanceStep ==
    ASSUME IInv, NEW a \in Actors, NEW n \in {0} \cup Numbers, Advance(a, n),
           NEW o, o = op[a], NEW i, i = op'[a],
           Doing(o), Statement(o) # "commit",
           UNCHANGED <<run, number, deleted, answer, revived, left>>,
           held' \in [Locks -> Actors \cup {NoOne}],
           \A b \in Actors, x \in Locks : held[x] = b => held'[x] = b,
           Statement(o) = "session" => held'[<<"session", o.session>>] = a,
           Statement(o) = "number" => n \notin Given(o),
           Statement(o) = "run" /\ o.kind = "select" =>
               run[o.run].session = o.session
    PROVE  IInv'
  <1> DEFINE p == Onward(o, n)
  <1>1. TypeOK /\ OpInv(a) /\ o \in Ops /\ o.at >= 1 /\ o.session \in Sessions
    BY DEF IInv, TypeOK, OpInv, Doing, Statements
  <1>2. o.at \in 1..4
    BY <1>1, Table DEF Ops
  <1>3. /\ p \in Ops /\ p.kind = o.kind /\ p.at = o.at + 1 /\ p.seen = n
        /\ p.session = o.session /\ p.run = o.run /\ p.rows = o.rows
    <2>1. /\ DOMAIN p = DOMAIN o
          /\ p = [f \in DOMAIN p |-> p[f]]
          /\ DOMAIN o = {"kind", "at", "session", "run", "todo", "rows", "seen"}
      BY <1>1 DEF Ops, Onward
    <2>2. /\ p.kind = o.kind /\ p.at = o.at + 1 /\ p.seen = n
          /\ p.session = o.session /\ p.run = o.run /\ p.rows = o.rows /\ p.todo = o.todo
      BY <1>1 DEF Ops, Onward
    <2>3. o.at + 1 \in 0..5
      BY <1>2
    <2> HIDE DEF p
    <2> QED
      BY <1>1, <2>1, <2>2, <2>3 DEF Ops
  <1>4. Doing(p)
    BY <1>3 DEF Doing
  <1>5. o.kind \in {"rerun", "enqueue", "complete", "fail", "select"} => o.run \in Requests
    BY <1>1 DEF OpInv, Made
  <1>6. op' = [op EXCEPT ![a] = Issued(p)] /\ i = Issued(p)
    BY <1>1 DEF Advance, TypeOK
  <1> HIDE DEF p
  <1>7. /\ i \in Ops /\ i.kind = o.kind /\ i.at = o.at + 1 /\ i.seen = n
        /\ i.session = o.session /\ i.run = o.run
        /\ Statement(i) = Statement(p)
        /\ HasSession(i) <=> HasSession(p)
        /\ Given(i) = Given(p)
        /\ Statement(p) = "session" => i.todo = {<<"session", i.session>>}
        /\ Statement(p) = "favorites" => i.rows = FavoritesOf(i.session) \ {i.run}
        /\ Statement(p) = "commit" => i.rows = o.rows
    BY <1>1, <1>2, <1>3, <1>4, <1>5, <1>6, IssuedFacts
  <1>8. TypeOK'
    BY <1>1, <1>6, <1>7 DEF TypeOK
  <1>9. Made' = Made /\ Given(i)' = Given(o) /\ FavoritesOf(i.session)' = FavoritesOf(o.session)
    <2>1. Made' = Made /\ \A z : Given(z)' = Given(z) /\ FavoritesOf(z)' = FavoritesOf(z)
      BY SameRows
    <2>2. Given(i) = Given(o)
      BY <1>7 DEF Given
    <2> QED
      BY <1>7, <2>1, <2>2
  <1>10. HasSession(i) => held'[<<"session", i.session>>] = a
    <2>1. HasSession(o) => held'[<<"session", o.session>>] = a
      BY <1>1 DEF OpInv, Locks
    <2>2. HasSession(i) => HasSession(o) \/ Statement(o) = "session"
      BY <1>1, <1>2, <1>3, <1>7, Table DEF HasSession, Makers
    <2> QED
      BY <1>7, <2>1, <2>2
  <1>11. i.kind \in Makers /\ Statement(i) = "commit" => i.seen \notin Given(i)'
    <2>1. i.kind \in Makers /\ Statement(i) = "commit" => Statement(o) = "number"
      BY <1>1, <1>2, <1>3, <1>7, Table DEF Makers
    <2> QED
      BY <1>7, <1>9, <2>1
  <1>12. i.kind = "select" /\ Statement(i) \in {"favorites", "commit"} =>
           /\ FavoritesOf(i.session)' \subseteq i.rows \cup {i.run}
           /\ run'[i.run].session = i.session
    <2>0. /\ o.kind = "select" =>
               Statement(o) = IF o.at = 1 THEN "session" ELSE
                              IF o.at = 2 THEN "run" ELSE
                              IF o.at = 3 THEN "favorites" ELSE "commit"
          /\ p.kind = "select" =>
               Statement(p) = IF p.at = 1 THEN "session" ELSE
                              IF p.at = 2 THEN "run" ELSE
                              IF p.at = 3 THEN "favorites" ELSE "commit"
      <3>1. p.at >= 1
        BY <1>2, <1>3
      <3> QED
        BY <1>1, <1>3, <3>1, Table
    <2>1. i.kind = "select" /\ Statement(i) = "favorites" => Statement(o) = "run"
      BY <1>2, <1>3, <1>7, <2>0
    <2>2. i.kind = "select" /\ Statement(i) = "commit" => Statement(o) = "favorites"
      BY <1>2, <1>3, <1>7, <2>0
    <2> QED
      BY <1>1, <1>7, <1>9, <2>1, <2>2 DEF OpInv
  <1>13. OpInv(a)'
    <2>1. /\ i.at >= 1 /\ i.session \in Sessions
          /\ i.kind \in {"enqueue", "complete", "fail", "select", "work", "raised"} => i.run \in Made'
          /\ i.kind = "rerun" => /\ i.run \in Requests
                                 /\ number'[i.run] # 0
                                 /\ i.session = run'[i.run].session
          /\ i.kind \in Makers => a \in Requests /\ answer'[a] = "none"
      BY <1>1, <1>2, <1>7, <1>9 DEF OpInv
    <2>2. Statement(i) = "session" => i.todo = {<<"session", i.session>>}
      BY <1>7
    <2> QED
      BY <1>10, <1>11, <1>12, <2>1, <2>2 DEF OpInv
  <1>14. Alone(a)
    BY <1>6, <1>8 DEF Alone, IInv, NeverConflict, TypeOK
  <1> QED
    BY <1>8, <1>13, <1>14, QuietStep

-----------------------------------------------------------------------------
(* The steps that begin a transaction.                                     *)
LEMMA CreateStep ==
    ASSUME IInv, NEW q \in Requests, NEW s \in Sessions, Create(q, s)
    PROVE  IInv'
  <1>1. q \in Actors /\ "create" \in DOMAIN Statements /\ left' \in Nat
    BY DEF Create, Actors, Statements, IInv, TypeOK
  <1> QED
    BY <1>1, BeginStep DEF Create

LEMMA RerunStep ==
    ASSUME IInv, NEW q \in Requests, NEW v \in Requests, Rerun(q, v)
    PROVE  IInv'
  <1>1. q \in Actors /\ "rerun" \in DOMAIN Statements /\ left' \in Nat
    BY DEF Rerun, Actors, Statements, IInv, TypeOK
  <1>2. number[v] # 0 /\ run[v].session \in Sessions
    BY DEF Rerun, IInv, RowInv
  <1> QED
    BY <1>1, <1>2, BeginStep DEF Rerun

LEMMA EditStep ==
    ASSUME IInv, NEW e \in Editors, NEW kind \in Kinds, NEW s \in Sessions,
           NEW q \in Requests \cup {NoOne}, Edit(e, kind, s, q)
    PROVE  IInv'
  <1>1. e \in Actors /\ kind \in DOMAIN Statements /\ left' \in Nat
    BY DEF Edit, Actors, Statements, IInv, TypeOK
  <1>2. kind \notin {"enqueue", "complete", "fail", "rerun"} \cup Makers
    BY DEF Edit, Makers
  <1> QED
    BY <1>1, <1>2, BeginStep DEF Edit

LEMMA FinishStep ==
    ASSUME IInv, NEW kind \in Kinds, Finish(kind)
    PROVE  IInv'
  <1>1. Worker \in Actors /\ kind \in {"complete", "fail"} /\ kind \in DOMAIN Statements
    BY DEF Finish, Actors, Statements
  <1>2. op[Worker].session \in Sessions /\ op[Worker].run \in Made
    BY <1>1 DEF Finish, IInv, OpInv
  <1>3. op[Worker].run \in Requests /\ kind \notin Makers /\ left' \in Nat
    BY <1>1, <1>2 DEF Made, Makers, Finish, IInv, TypeOK
  <1> QED
    BY <1>1, <1>2, <1>3, BeginStep DEF Finish

(* A request is answered.                                                  *)
LEMMA AnswerStep ==
    ASSUME IInv, NEW q \in Requests, NEW v \in {"accepted", "error"}, Answer(q, v),
           UNCHANGED <<run, number, deleted, held, op, revived, left>>, op[q] = Idle
    PROVE  IInv'
  <1>1. q \in Actors /\ answer' = [answer EXCEPT ![q] = v]
    BY DEF Actors, Answer
  <1>2. TypeOK'
    BY <1>1 DEF IInv, TypeOK, Answers
  <1>3. OpInv(q)'
    BY <1>1, Resting
  <1>4. Alone(q)
    BY <1>1, <1>2 DEF Alone, IInv, TypeOK, NeverConflict
  <1> QED
    BY <1>1, <1>2, <1>3, <1>4, QuietStep

LEMMA EnqueueStep ==
    ASSUME IInv, NEW q \in Requests, Enqueue(q)
    PROVE  IInv'
  <1>1. CASE UNCHANGED op /\ \E v \in {"accepted", "error"} : Answer(q, v)
    BY <1>1, AnswerStep DEF Enqueue
  <1>2. CASE Begin(q, "enqueue", run[q].session, q) /\ run[q].state = "running" /\ UNCHANGED answer
    <2>1. q \in Actors /\ "enqueue" \in DOMAIN Statements /\ "enqueue" \notin Makers
      BY DEF Actors, Statements, Makers
    <2>2. q \in Made /\ run[q].session \in Sessions /\ left' \in Nat
      BY <1>2 DEF Made, IInv, RowInv, TypeOK, Enqueue
    <2> QED
      BY <1>2, <2>1, <2>2, BeginStep DEF Enqueue
  <1> QED
    BY <1>1, <1>2 DEF Enqueue

(* The worker takes a run, and a recovery puts it back.                    *)
LEMMA ClaimStep ==
    ASSUME IInv, NEW q \in Requests, Claim(q)
    PROVE  IInv'
  <1> DEFINE w == Between("work", run[q].session, q)
  <1>1. Worker \in Actors /\ q \in Made /\ run[q].session \in Sessions
    BY DEF Actors, Claim, Made, IInv, RowInv
  <1>2. w \in Ops /\ w.kind \in Outside /\ w.run = q /\ w.session = run[q].session
    BY <1>1, Records DEF Made, Kinds, Outside
  <1>3. run' = [run EXCEPT ![q].state = "running"] /\ op' = [op EXCEPT ![Worker] = w]
    BY DEF Claim
  <1> HIDE DEF w
  <1>4. op'[Worker] = w /\ TypeOK'
    BY <1>1, <1>2, <1>3 DEF Claim, IInv, TypeOK, Runs, Active
  <1>5. OpInv(Worker)'
    <2>1. Made' = Made
      BY <1>1, <1>3 DEF Made, IInv, TypeOK
    <2> QED
      BY <1>1, <1>2, <1>4, <2>1, AtWork
  <1>6. Alone(Worker)
    BY <1>1, <1>3 DEF Claim, Alone, IInv, TypeOK, NeverConflict, Made, Runs
  <1> QED
    BY <1>1, <1>4, <1>5, <1>6, QuietStep

LEMMA RecoverStep ==
    ASSUME IInv, NEW q \in Requests, Recover(q)
    PROVE  IInv'
  <1>1. Worker \in Actors
    BY DEF Actors
  <1>2. TypeOK'
    BY DEF Recover, IInv, TypeOK, Runs, Active
  <1>3. OpInv(Worker)'
    BY <1>1, Resting DEF Recover
  <1>4. Alone(Worker)
    BY <1>1, <1>2 DEF Recover, Alone, IInv, TypeOK, NeverConflict
  <1> QED
    BY <1>1, <1>2, <1>3, <1>4, QuietStep

-----------------------------------------------------------------------------
(* The steps inside a transaction.                                         *)
LEMMA SameOperation ==
    ASSUME NEW a \in Actors, NEW o, NEW i, o = op[a], i = op'[a], OpInv(a),
           i.kind = o.kind, i.at = o.at, i.session = o.session, i.run = o.run,
           i.rows = o.rows, i.seen = o.seen, Statement(o) # "session",
           UNCHANGED <<run, number, answer>>,
           HasSession(o) => held'[<<"session", o.session>>] = a
    PROVE  OpInv(a)'
  <1>1. Statement(i) = Statement(o) /\ (Doing(i) <=> Doing(o))
    BY DEF Statement, Doing
  <1>2. HasSession(i) <=> HasSession(o)
    BY <1>1 DEF HasSession
  <1>3. /\ Made' = Made /\ Given(i)' = Given(o)
        /\ FavoritesOf(i.session)' = FavoritesOf(o.session)
    <2>1. Made' = Made /\ \A z : Given(z)' = Given(z) /\ FavoritesOf(z)' = FavoritesOf(z)
      BY SameRows
    <2>2. Given(i) = Given(o)
      BY DEF Given
    <2> QED
      BY <2>1, <2>2
  <1> QED
    BY <1>1, <1>2, <1>3 DEF OpInv

LEMMA AcquireStep ==
    ASSUME IInv, NEW a \in Actors, Acquire(a)
    PROVE  IInv'
  <1>0. PICK x \in op[a].todo :
            /\ op[a].todo # {x} /\ held[x] = NoOne
            /\ held' = [held EXCEPT ![x] = a]
            /\ op' = [op EXCEPT ![a].todo = @ \ {x}]
    BY DEF Acquire
  <1> DEFINE o == op[a]
             i == [o EXCEPT !.todo = @ \ {x}]
  <1>1. TypeOK /\ OpInv(a) /\ o \in Ops /\ x \in Locks
    BY <1>0 DEF IInv, TypeOK, Ops
  <1>2. op' = [op EXCEPT ![a] = i] /\ op'[a] = i
    BY <1>0, <1>1 DEF TypeOK
  <1>3. /\ i \in Ops /\ i.kind = o.kind /\ i.at = o.at /\ i.session = o.session
        /\ i.run = o.run /\ i.rows = o.rows /\ i.seen = o.seen
    BY <1>1 DEF Ops
  <1>4. TypeOK'
    BY ZenonT(40), <1>0, <1>1, <1>2, <1>3 DEF TypeOK, Acquire
  <1>5. Alone(a)
    <2>1. \A b \in Actors \ {a}, y \in Locks : held[y] = b => held'[y] = b
      BY <1>0, <1>1, ActorsAssumption DEF TypeOK
    <2> HIDE DEF i
    <2> QED
      BY <1>1, <1>2, <2>1 DEF Alone, Acquire, IInv, NeverConflict, TypeOK
  <1>6. OpInv(a)'
    <2>1. Statement(o) # "session"
      BY <1>0, <1>1 DEF OpInv
    <2>2. HasSession(o) => held'[<<"session", o.session>>] = a
      BY <1>0, <1>1, ActorsAssumption DEF OpInv, TypeOK
    <2> QED
      BY <1>1, <1>2, <1>3, <2>1, <2>2, SameOperation DEF Acquire
  <1> QED
    BY <1>4, <1>5, <1>6, QuietStep

LEMMA PassStep ==
    ASSUME IInv, NEW a \in Actors, Pass(a)
    PROVE  IInv'
  <1>1. TypeOK /\ OpInv(a) /\ op[a] \in Ops
    BY DEF IInv, TypeOK
  <1>2. /\ Doing(op[a]) /\ Statement(op[a]) \notin {"none", "number", "commit"}
        /\ op[a].seen \in {0} \cup Numbers
    BY <1>1, Table DEF Pass, Returns, Ops, OpInv
  <1>3. /\ held' \in [Locks -> Actors \cup {NoOne}]
        /\ \A b \in Actors, x \in Locks : held[x] = b => held'[x] = b
    BY <1>1, ActorsAssumption DEF Pass, Returns, TypeOK
  <1>4. Statement(op[a]) = "session" => held'[<<"session", op[a].session>>] = a
    BY <1>1 DEF Pass, OpInv, Ops
  <1>5. Statement(op[a]) = "run" /\ op[a].kind = "select" =>
            run[op[a].run].session = op[a].session
    BY DEF Pass, Refused
  <1> QED
    BY <1>2, <1>3, <1>4, <1>5, AdvanceStep DEF Pass

LEMMA ReadNumberStep ==
    ASSUME IInv, NEW a \in Actors, ReadNumber(a)
    PROVE  IInv'
  <1>1. TypeOK /\ OpInv(a) /\ op[a] \in Ops
    BY DEF IInv, TypeOK
  <1>2. Doing(op[a])
    BY <1>1, Table DEF ReadNumber, OpInv
  <1>3. PICK n \in Numbers : IsNext(n, Given(op[a])) /\ Advance(a, n)
    BY DEF ReadNumber
  <1>4. n \notin Given(op[a])
    BY <1>3, ActorsAssumption, FS_CardinalityType DEF IsNext, Numbers
  <1> QED
    BY <1>1, <1>2, <1>3, <1>4, AdvanceStep DEF ReadNumber, TypeOK

LEMMA NoCollision ==
    ASSUME IInv, NEW a \in Actors, Statement(op[a]) = "commit"
    PROVE  ~Collides(op[a])
  BY DEF IInv, OpInv, Collides

LEMMA AbortStep ==
    ASSUME IInv, NEW a \in Actors, Abort(a)
    PROVE  IInv'
  <1>1. CASE Rollback(a, "error")
    BY <1>1, RollbackStep
  <1>2. CASE op[a].kind = "complete"
    <2>1. TypeOK /\ OpInv(a) /\ op[a].session \in Sessions /\ op[a].run \in Made
      BY <1>2 DEF IInv, OpInv
    <2> DEFINE w == Between("raised", op[a].session, op[a].run)
    <2>2. w \in Ops /\ w.kind \in Outside /\ w.run = op[a].run /\ w.session = op[a].session
      <3>1. op[a].run \in Requests /\ "raised" \in Kinds /\ "raised" \in Outside
        BY <2>1 DEF Made, Kinds, Outside
      <3> QED
        BY <2>1, <3>1, Records
    <2>3. op' = [op EXCEPT ![a] = w] /\ held' = Released(a)
      BY <1>2 DEF Abort
    <2> HIDE DEF w
    <2>4. op'[a] = w /\ TypeOK'
      BY <1>2, <2>1, <2>2, <2>3 DEF Abort, TypeOK, Released
    <2>5. OpInv(a)'
      <3>1. Made' = Made
        BY <1>2 DEF Abort, Made
      <3> QED
        BY <2>1, <2>2, <2>4, <3>1, AtWork
    <2>6. Alone(a)
      BY <1>2, <2>1, <2>3 DEF Abort, Released, Alone, IInv, NeverConflict, TypeOK
    <2> QED
      BY <2>4, <2>5, <2>6, QuietStep
  <1> QED
    BY <1>1, <1>2 DEF Abort

-----------------------------------------------------------------------------
(* A run whose state changes is still a run. *)
LEMMA StateType ==
    ASSUME NEW f \in [Requests -> Runs], NEW r,
           NEW s \in {"absent"} \cup Active \cup Terminal
    PROVE  [f EXCEPT ![r].state = s] \in [Requests -> Runs]
  <1>1. \A q \in Requests : [f[q] EXCEPT !.state = s] \in Runs
    BY DEF Runs
  <1> QED
    BY <1>1

(* The step that commits.  Runs and favorites change only under the row of *)
(* their session, so other holders of such a row read the same as before.  *)
LEMMA CommitTypes ==
    ASSUME IInv, NEW a \in Actors, Commit(a)
    PROVE  TypeOK'
  <1> DEFINE o == op[a]
  <1>1. TypeOK /\ OpInv(a) /\ o \in Ops /\ NoOne \notin Actors
    BY ActorsAssumption DEF IInv, TypeOK
  <1>2. run' = Written(a, o)
    BY DEF Commit
  <1> HIDE DEF o
  <1>3. run' \in [Requests -> Runs]
    <2>1. CASE o.kind = "create"
      <3>1. a \in Requests /\ NewRun(o, a, 1) \in Runs
        BY <1>1, <2>1, OneIsANumber DEF o, OpInv, Makers, NewRun, Runs, Active, Ops
      <3> QED
        BY <1>1, <1>2, <2>1, <3>1 DEF Written, TypeOK
    <2>2. CASE o.kind = "rerun"
      <3>1. a \in Requests /\ NewRun(o, o.run, o.seen) \in Runs
        BY <1>1, <2>2 DEF o, OpInv, Makers, NewRun, Runs, Active, Ops
      <3> QED
        BY <1>1, <1>2, <2>2, <3>1 DEF Written, TypeOK
    <2>3. CASE o.kind = "enqueue"
      <3>1. run' = [run EXCEPT ![o.run].state = "queued"]
        BY <1>2, <2>3 DEF Written
      <3> QED
        BY <1>1, <3>1, StateType DEF TypeOK, Active, Terminal
    <2>4. CASE o.kind = "complete"
      <3>1. run' = [run EXCEPT ![o.run].state = "completed"]
        BY <1>2, <2>4 DEF Written
      <3> QED
        BY <1>1, <3>1, StateType DEF TypeOK, Active, Terminal
    <2>5. CASE o.kind = "fail"
      <3>1. run' = [run EXCEPT ![o.run].state = "failed"]
        BY <1>2, <2>5 DEF Written
      <3> QED
        BY <1>1, <3>1, StateType DEF TypeOK, Active, Terminal
    <2>6. CASE o.kind \in {"select", "clear"}
      <3> DEFINE chosen(q) == (run[q].favorite /\ q \notin o.rows)
                              \/ (o.kind = "select" /\ q = o.run)
      <3>1. run' = [q \in Requests |-> [run[q] EXCEPT !.favorite = chosen(q)]]
        BY <1>2, <2>6 DEF Written
      <3>2. \A q \in Requests : chosen(q) \in BOOLEAN
        OBVIOUS
      <3> HIDE DEF chosen
      <3> QED
        BY ZenonT(40), <1>1, <3>1, <3>2 DEF TypeOK, Runs
    <2>7. CASE o.kind \notin {"create", "rerun", "enqueue", "complete", "fail", "select", "clear"}
      BY <1>1, <1>2, <2>7 DEF Written, TypeOK
    <2> QED
      BY <2>1, <2>2, <2>3, <2>4, <2>5, <2>6, <2>7
  <1>4. /\ number' \in [Requests -> {0} \cup Numbers]
        /\ deleted' \subseteq Sessions
        /\ revived' \subseteq Requests
    <2>1. o.kind = "delete" => o.session \in Sessions
      BY <1>1 DEF o, OpInv
    <2>2. o.kind \in {"enqueue", "fail"} => o.run \in Requests
      BY <1>1 DEF o, OpInv, Made
    <2> QED
      BY <1>1, <2>1, <2>2 DEF o, Commit, TypeOK, Ops
  <1>5. held' \in [Locks -> Actors \cup {NoOne}]
    BY <1>1 DEF Commit, Released, TypeOK
  <1>6. op'[a] \in Ops /\ op' = [op EXCEPT ![a] = op'[a]]
    <2>1. Idle \in Ops
      BY DEF Idle, Ops, Kinds
    <2>2. o.kind = "complete" => Between("raised", o.session, o.run) \in Ops
      <3>1. o.kind = "complete" => o.session \in Sessions /\ o.run \in Requests
        BY <1>1 DEF o, OpInv, Made
      <3> QED
        BY <3>1, Records DEF Kinds, Outside
    <2> QED
      BY <1>1, <2>1, <2>2 DEF o, Commit, TypeOK
  <1>7. op' \in [Actors -> Ops] /\ answer' \in [Actors -> Answers] /\ left' \in Nat
    BY <1>1, <1>6 DEF Commit, Answer, TypeOK, Answers
  <1> QED
    BY <1>3, <1>4, <1>5, <1>7 DEF TypeOK

(* A commit that ends a run, puts one back, or deletes or holds a session. *)
LEMMA PlainRows ==
    ASSUME IInv, NEW a \in Actors, Commit(a), op[a].kind \notin Makers \cup {"select", "clear"}
    PROVE  /\ number' = number
           /\ \A q \in Requests : /\ run'[q].session = run[q].session
                                  /\ run'[q].version = run[q].version
                                  /\ run'[q].attempt = run[q].attempt
                                  /\ run'[q].favorite = run[q].favorite
                                  /\ run'[q].state = "absent" <=> run[q].state = "absent"
  <1> DEFINE o == op[a]
  <1>1. TypeOK /\ OpInv(a)
    BY DEF IInv
  <1>2. o.kind \in {"enqueue", "complete", "fail"} => o.run \in Made
    BY <1>1 DEF OpInv
  <1>3. run' = Written(a, o) /\ number' = number
    BY DEF Commit, Makers
  <1>4. \/ run' = run
        \/ /\ o.run \in Made
           /\ \E v \in {"queued", "completed", "failed"} :
                 run' = [run EXCEPT ![o.run].state = v]
    BY <1>2, <1>3 DEF Written, Makers
  <1> HIDE DEF o
  <1> QED
    BY <1>1, <1>3, <1>4 DEF TypeOK, Runs, Made

LEMMA PlainCommit ==
    ASSUME IInv, NEW a \in Actors, Commit(a), op[a].kind \notin Makers \cup {"select", "clear"}
    PROVE  IInv'
  <1>1. TypeOK /\ OpInv(a) /\ TypeOK'
    BY CommitTypes DEF IInv
  <1>3. /\ number' = number
        /\ \A q \in Requests : /\ run'[q].session = run[q].session
                               /\ run'[q].version = run[q].version
                               /\ run'[q].attempt = run[q].attempt
                               /\ run'[q].favorite = run[q].favorite
                               /\ run'[q].state = "absent" <=> run[q].state = "absent"
    BY PlainRows
  <1>4. Alone(a)
    <2>1. /\ \A b \in Actors \ {a} : op'[b] = op[b] /\ answer'[b] = answer[b]
          /\ answer'[a] = "none" => answer[a] = "none"
          /\ answer'[a] # "conflict"
      BY <1>1 DEF Commit, Answer, TypeOK, IInv, NeverConflict
    <2>2. \A b \in Actors \ {a}, x \in Locks : held[x] = b => held'[x] = b
      BY <1>1 DEF Commit, Released, TypeOK
    <2> QED
      BY <1>3, <2>1, <2>2 DEF Alone
  <1>5. OpInv(a)'
    <2>1. CASE op'[a] = Idle
      BY <2>1, Resting
    <2>2. CASE op[a].kind = "complete" /\ op'[a] = Between("raised", op[a].session, op[a].run)
      <3>1. op[a].session \in Sessions /\ op[a].run \in Made
        BY <1>1, <2>2 DEF OpInv
      <3>2. op[a].run \in Made' /\ op[a].run \in Requests
        BY <1>3, <3>1 DEF Made
      <3> DEFINE w == Between("raised", op[a].session, op[a].run)
      <3>3. w.kind \in Outside /\ w.run = op[a].run /\ w.session = op[a].session
        BY <3>1, <3>2, Records DEF Kinds, Outside
      <3> HIDE DEF w
      <3>4. op'[a] = w
        BY <2>2 DEF w
      <3> QED
        BY <3>1, <3>2, <3>3, <3>4, AtWork
    <2> QED
      BY <1>1, <2>1, <2>2 DEF Commit, TypeOK
  <1> QED
    BY <1>1, <1>4, <1>5, QuietStep

(* The row that a commit makes.                                            *)
LEMMA NewRow ==
    ASSUME IInv, NEW a \in Actors, Commit(a), NEW o, o = op[a], o.kind \in Makers
    PROVE  /\ a \in Requests /\ a \notin Made /\ number[a] = 0
           /\ \A q \in Requests \ {a} : run'[q] = run[q] /\ number'[q] = number[q]
           /\ run'[a].session = o.session /\ run'[a].state = "queued"
           /\ run'[a].favorite = FALSE /\ answer'[a] = "made"
           /\ \/ run'[a].version = a
              \/ run'[a].version = o.run /\ run[o.run].session = o.session
  <1>1. TypeOK /\ OpInv(a) /\ a \in Requests /\ RowInv(a) /\ answer[a] = "none"
    BY DEF IInv, OpInv
  <1>2. a \notin Made /\ number[a] = 0
    BY <1>1 DEF RowInv, Made
  <1>3. PICK v, n : /\ run' = [run EXCEPT ![a] = NewRun(o, v, n)]
                    /\ v = a \/ (v = o.run /\ run[o.run].session = o.session)
    <2>1. CASE o.kind = "create"
      BY <2>1 DEF Commit, Written
    <2>2. CASE o.kind = "rerun"
      BY <1>1, <2>2 DEF Commit, Written, OpInv
    <2> QED
      BY <2>1, <2>2 DEF Makers
  <1>4. number' = [number EXCEPT ![a] = o.seen] \/ number' = number
    BY DEF Commit
  <1>5. answer'[a] = "made"
    BY <1>1 DEF Commit, Answer, TypeOK
  <1> QED
    BY <1>1, <1>2, <1>3, <1>4, <1>5 DEF TypeOK, NewRun

(* The favorites that a commit moves.                                      *)
LEMMA MovedFavorite ==
    ASSUME IInv, NEW a \in Actors, Commit(a), NEW o, o = op[a], o.kind \in {"select", "clear"}
    PROVE  /\ number' = number
           /\ \A q \in Requests : /\ run'[q].session = run[q].session
                                  /\ run'[q].version = run[q].version
                                  /\ run'[q].attempt = run[q].attempt
                                  /\ run'[q].state = run[q].state
                                  /\ run'[q].favorite /\ run[q].session # o.session
                                       => run[q].favorite
  <1>1. TypeOK /\ OpInv(a) /\ Statement(o) = "commit"
    BY DEF IInv, Commit
  <1> DEFINE chosen(q) == (run[q].favorite /\ q \notin o.rows)
                          \/ (o.kind = "select" /\ q = o.run)
  <1>2. run' = [q \in Requests |-> [run[q] EXCEPT !.favorite = chosen(q)]]
    BY DEF Commit, Written
  <1>3. \A q \in Requests : chosen(q) /\ run[q].session # o.session => run[q].favorite
    BY <1>1 DEF OpInv
  <1>4. number' = number
    BY DEF Commit
  <1> HIDE DEF chosen
  <1> QED
    BY <1>1, <1>2, <1>3, <1>4 DEF TypeOK, Runs

(* What the commit of a new run or of a favorite leaves as it was: all     *)
(* that concerns other sessions.                                           *)
LEMMA ElsewhereSame ==
    ASSUME IInv, NEW a \in Actors, Commit(a), op[a].kind \in Makers \cup {"select", "clear"}
    PROVE  /\ Made \subseteq Made'
           /\ \A q \in Made : run'[q].session = run[q].session
           /\ \A q \in Requests : number[q] # 0 => number'[q] # 0 /\ q \in Made
           /\ \A s \in Sessions \ {op[a].session} :
                 /\ VersionsOf(s)' = VersionsOf(s)
                 /\ {number'[q] : q \in VersionsOf(s)} = {number[q] : q \in VersionsOf(s)}
                 /\ FavoritesOf(s)' \subseteq FavoritesOf(s)
           /\ \A v \in Requests : number[v] # 0 /\ run[v].session # op[a].session =>
                 {run'[q].attempt : q \in {p \in Made' : run'[p].version = v}}
                   = {run[q].attempt : q \in {p \in Made : run[p].version = v}}
  <1>1. CASE op[a].kind \in Makers
    <2> DEFINE o == op[a]
    <2>1. /\ a \in Requests /\ a \notin Made /\ number[a] = 0
          /\ \A q \in Requests \ {a} : run'[q] = run[q] /\ number'[q] = number[q]
          /\ run'[a].session = o.session /\ run'[a].favorite = FALSE
          /\ \/ run'[a].version = a
             \/ run'[a].version = o.run /\ run[o.run].session = o.session
      BY <1>1, NewRow
    <2> HIDE DEF o
    <2>2. Made \subseteq Made' /\ Made' \subseteq Made \cup {a}
      BY <2>1 DEF Made
    <2>3. \A q \in Requests : number[q] # 0 => number'[q] # 0 /\ q \in Made
      BY <2>1 DEF IInv, RowInv, Made
    <2>4. ASSUME NEW s \in Sessions \ {o.session}
          PROVE  /\ VersionsOf(s)' = VersionsOf(s) /\ a \notin VersionsOf(s)
                 /\ FavoritesOf(s)' \subseteq FavoritesOf(s)
      <3>1. \A q \in Requests : q \in VersionsOf(s)' <=> q \in VersionsOf(s)
        BY <2>1 DEF VersionsOf
      <3>2. \A q \in Requests : q \in FavoritesOf(s)' => q \in FavoritesOf(s)
        BY <2>1, <2>2 DEF FavoritesOf, RunsOf, Made
      <3>3. a \notin VersionsOf(s) /\ VersionsOf(s)' \subseteq Requests
            /\ FavoritesOf(s)' \subseteq Requests /\ VersionsOf(s) \subseteq Requests
        BY <2>1 DEF VersionsOf, FavoritesOf, RunsOf, Made
      <3> QED
        BY <3>1, <3>2, <3>3
    <2>5. ASSUME NEW s \in Sessions \ {o.session}
          PROVE  {number'[q] : q \in VersionsOf(s)} = {number[q] : q \in VersionsOf(s)}
      BY <2>1, <2>4 DEF VersionsOf
    <2>6. ASSUME NEW v \in Requests, number[v] # 0, run[v].session # o.session
          PROVE  {p \in Made' : run'[p].version = v} = {p \in Made : run[p].version = v}
      BY <2>1, <2>2, <2>6 DEF Made
    <2>7. ASSUME NEW v \in Requests
          PROVE  {run'[q].attempt : q \in {p \in Made : run[p].version = v}}
                   = {run[q].attempt : q \in {p \in Made : run[p].version = v}}
      BY <2>1 DEF Made
    <2>8. \A q \in Made : run'[q].session = run[q].session
      BY <2>1 DEF Made
    <2> QED
      BY <2>2, <2>3, <2>4, <2>5, <2>6, <2>7, <2>8 DEF o
  <1>2. CASE op[a].kind \in {"select", "clear"}
    <2> DEFINE o == op[a]
    <2>1. /\ number' = number
          /\ \A q \in Requests : /\ run'[q].session = run[q].session
                                 /\ run'[q].version = run[q].version
                                 /\ run'[q].attempt = run[q].attempt
                                 /\ run'[q].state = run[q].state
                                 /\ run'[q].favorite /\ run[q].session # o.session
                                      => run[q].favorite
      BY <1>2, MovedFavorite
    <2> HIDE DEF o
    <2>2. Made' = Made /\ \A s \in Sessions : VersionsOf(s)' = VersionsOf(s)
      BY <2>1 DEF Made, VersionsOf
    <2>3. \A q \in Requests : number[q] # 0 => number'[q] # 0 /\ q \in Made
      BY <2>1 DEF IInv, RowInv, Made
    <2>4. \A s \in Sessions \ {o.session} : FavoritesOf(s)' \subseteq FavoritesOf(s)
      BY <2>1, <2>2 DEF FavoritesOf, RunsOf, Made
    <2>5. ASSUME NEW v \in Requests
          PROVE  {run'[q].attempt : q \in {p \in Made' : run'[p].version = v}}
                   = {run[q].attempt : q \in {p \in Made : run[p].version = v}}
      <3>1. {p \in Made' : run'[p].version = v} = {p \in Made : run[p].version = v}
        BY <2>1, <2>2 DEF Made
      <3> QED
        BY <2>1, <3>1 DEF Made
    <2>6. \A q \in Made : run'[q].session = run[q].session
      BY <2>1 DEF Made
    <2>7. \A s \in Sessions :
             {number'[q] : q \in VersionsOf(s)} = {number[q] : q \in VersionsOf(s)}
      BY <2>1
    <2>8. Made \subseteq Made'
      BY <2>2
    <2> QED
      BY <2>2, <2>3, <2>4, <2>5, <2>6, <2>7, <2>8 DEF o
  <1> QED
    BY <1>1, <1>2

(* Another transaction reads the same as before, if what it has read       *)
(* matters to it: then it holds the row of another session.                *)
LEMMA OtherHolder ==
    ASSUME IInv, NEW a \in Actors, Commit(a), op[a].kind \in Makers \cup {"select", "clear"},
           HasSession(op[a]), NEW b \in Actors \ {a},
           op'[b] = op[b], answer'[b] = answer[b]
    PROVE  OpInv(b)'
  <1> PICK o : o = op[b]
    OBVIOUS
  <1>1. TypeOK /\ OpInv(a) /\ OpInv(b) /\ o \in Ops
    BY DEF IInv, TypeOK
  <1>2. HasSession(o) => /\ o.session \in Sessions \ {op[a].session}
                         /\ held[<<"session", o.session>>] = b
    BY <1>1 DEF OpInv, HasSession, Makers
  <1>3. HasSession(o) => held'[<<"session", o.session>>] = held[<<"session", o.session>>]
    BY <1>1, <1>2 DEF Commit, Released, Locks
  <1>4. HasSession(o) /\ o.kind \in Makers => Given(o)' \subseteq Given(o)
    <2>1. CASE HasSession(o) /\ o.kind = "create"
      <3>1. /\ VersionsOf(o.session)' = VersionsOf(o.session)
            /\ {number'[q] : q \in VersionsOf(o.session)}
                 = {number[q] : q \in VersionsOf(o.session)}
        BY <1>2, <2>1, ElsewhereSame
      <3> QED
        BY <2>1, <3>1 DEF Given
    <2>2. CASE HasSession(o) /\ o.kind = "rerun"
      <3>1. o.run \in Requests /\ number[o.run] # 0 /\ o.session = run[o.run].session
        BY <1>1, <2>2 DEF OpInv
      <3>2. {run'[q].attempt : q \in {p \in Made' : run'[p].version = o.run}}
              = {run[q].attempt : q \in {p \in Made : run[p].version = o.run}}
        BY <1>2, <2>2, <3>1, ElsewhereSame
      <3> QED
        BY <2>2, <3>2 DEF Given
    <2> QED
      BY <2>1, <2>2 DEF Makers
  <1>5. HasSession(o) /\ o.kind = "select" =>
            FavoritesOf(o.session)' \subseteq FavoritesOf(o.session)
    BY <1>2, ElsewhereSame
  <1>6. /\ Made \subseteq Made'
        /\ \A q \in Made : run'[q].session = run[q].session
        /\ \A q \in Requests : number[q] # 0 => number'[q] # 0 /\ q \in Made
    BY ElsewhereSame
  <1> QED
    BY <1>1, <1>3, <1>4, <1>5, <1>6, Others

LEMMA CommitStep ==
    ASSUME IInv, NEW a \in Actors, Commit(a)
    PROVE  IInv'
  <1>1. CASE op[a].kind \notin Makers \cup {"select", "clear"}
    BY <1>1, PlainCommit
  <1>2. CASE op[a].kind \in Makers \cup {"select", "clear"}
    <2>1. TypeOK /\ TypeOK' /\ OpInv(a)
      BY CommitTypes DEF IInv
    <2>2. OpInv(a)'
      <3>1. op[a].kind # "complete"
        BY <1>2 DEF Makers
      <3> QED
        BY <2>1, <3>1, Resting DEF Commit, TypeOK
    <2>3. /\ \A b \in Actors \ {a} : op'[b] = op[b] /\ answer'[b] = answer[b]
          /\ answer'[a] # "conflict"
          /\ answer'[a] = "none" => answer[a] = "none"
      BY <2>1 DEF Commit, Answer, TypeOK, IInv, NeverConflict
    <2>4. NeverConflict'
      BY <2>3 DEF IInv, NeverConflict
    <2>5. HasSession(op[a])
      <3>1. op[a] \in Ops /\ Statement(op[a]) = "commit" /\ (Doing(op[a]) => op[a].at >= 1)
        BY <2>1 DEF Commit, TypeOK, OpInv
      <3>2. CASE op[a].kind \in {"select", "clear"}
        <4>1. op[a].at # 1 /\ op[a].at \in 0..5 /\ op[a].at >= 1
          BY <3>1, <3>2, Table DEF Ops
        <4> QED
          BY <3>2, <4>1 DEF HasSession
      <3> QED
        BY <1>2, <3>1, <3>2 DEF HasSession
    <2>6. ASSUME NEW q \in Requests PROVE RowInv(q)'
      <3>1. CASE op[a].kind \in Makers
        <4>1. q = a => /\ answer'[q] = "made" /\ run'[q].state = "queued"
                       /\ run'[q].session \in Sessions
          <5>1. op[a].session \in Sessions
            BY <2>1, <3>1 DEF OpInv, Makers
          <5>2. /\ answer'[a] = "made" /\ run'[a].state = "queued"
                /\ run'[a].session = op[a].session
            BY <3>1, NewRow
          <5> QED
            BY <5>1, <5>2
        <4>2. q # a => run'[q] = run[q] /\ number'[q] = number[q] /\ answer'[q] = answer[q]
          BY <2>3, <3>1, NewRow DEF Actors
        <4> QED
          BY <4>1, <4>2 DEF IInv, RowInv
      <3>2. CASE op[a].kind \in {"select", "clear"}
        <4>1. /\ number' = number /\ run'[q].session = run[q].session
              /\ run'[q].state = run[q].state
          BY <3>2, MovedFavorite
        <4>2. answer'[q] = "none" => answer[q] = "none"
          BY <2>3 DEF Actors
        <4> QED
          BY <4>1, <4>2 DEF IInv, RowInv
      <3> QED
        BY <1>2, <3>1, <3>2
    <2>7. ASSUME NEW b \in Actors \ {a} PROVE OpInv(b)'
      BY <1>2, <2>1, <2>3, <2>5, OtherHolder
    <2> QED
      BY <2>1, <2>2, <2>4, <2>6, <2>7 DEF IInv
  <1> QED
    BY <1>1, <1>2

LEMMA NextIInv == IInv /\ [Next]_vars => IInv'
  <1> SUFFICES ASSUME IInv, [Next]_vars PROVE IInv'
    OBVIOUS
  <1>1. ASSUME NEW q \in Requests, NEW s \in Sessions, Create(q, s) PROVE IInv'
    BY <1>1, CreateStep
  <1>2. ASSUME NEW q \in Requests, NEW v \in Requests, Rerun(q, v) PROVE IInv'
    BY <1>2, RerunStep
  <1>3. ASSUME NEW q \in Requests, Enqueue(q) PROVE IInv'
    BY <1>3, EnqueueStep
  <1>4. ASSUME NEW q \in Requests, LoadFails(q) PROVE IInv'
    BY <1>4, AnswerStep DEF LoadFails
  <1>5. ASSUME NEW q \in Requests, Claim(q) PROVE IInv'
    BY <1>5, ClaimStep
  <1>6. ASSUME NEW q \in Requests, Recover(q) PROVE IInv'
    BY <1>6, RecoverStep
  <1>7. ASSUME NEW e \in Editors, NEW kind \in Kinds, NEW s \in Sessions,
               NEW q \in Requests \cup {NoOne}, Edit(e, kind, s, q)
        PROVE  IInv'
    BY <1>7, EditStep
  <1>8. ASSUME NEW kind \in Kinds, Finish(kind) PROVE IInv'
    BY <1>8, FinishStep
  <1>9. ASSUME NEW a \in Actors, Step(a) PROVE IInv'
    <2>1. CASE Acquire(a)
      BY <2>1, AcquireStep
    <2>2. CASE Pass(a)
      BY <2>2, PassStep
    <2>3. CASE ReadNumber(a)
      BY <2>3, ReadNumberStep
    <2>4. CASE Refuse(a)
      BY <2>4, RollbackStep DEF Refuse
    <2>5. CASE Conclude(a)
      BY <2>5, NoCollision, CommitStep DEF Conclude
    <2>6. CASE Abort(a)
      BY <2>6, AbortStep
    <2> QED
      BY <1>9, <2>1, <2>2, <2>3, <2>4, <2>5, <2>6 DEF Step
  <1>10. CASE UNCHANGED vars
    <2>1. TypeOK' /\ NeverConflict'
      BY <1>10 DEF vars, IInv, TypeOK, NeverConflict
    <2>2. ASSUME NEW q \in Requests PROVE RowInv(q)'
      BY <1>10 DEF vars, IInv, RowInv
    <2>3. ASSUME NEW b \in Actors PROVE OpInv(b)'
      BY <1>10, Unchanged DEF IInv
    <2> QED
      BY <2>1, <2>2, <2>3 DEF IInv
  <1> QED
    BY <1>1, <1>2, <1>3, <1>4, <1>5, <1>6, <1>7, <1>8, <1>9, <1>10 DEF Next, Done

-----------------------------------------------------------------------------
THEOREM Invariance == Spec => []IInv
  BY InitIInv, NextIInv, PTL DEF Spec

(* Every variable keeps its type, for any sessions, requests and editors:  *)
(* no number beyond those of the requests is given, no row or lock beyond  *)
(* those of the requests and the sessions is taken.                        *)
THEOREM PromptRunsTypeCorrect == Spec => []TypeOK
  <1>1. IInv => TypeOK
    BY DEF IInv
  <1> QED
    BY <1>1, Invariance, PTL

(* However requests, editors, deadlock victims and the worker interleave,  *)
(* no commit of create_version, rerun or select_favorite meets a unique    *)
(* index of video_jobs or prompt_versions.                                 *)
THEOREM NumbersNeverCollide == Spec => []NeverConflict
  <1>1. IInv => NeverConflict
    BY DEF IInv
  <1> QED
    BY <1>1, Invariance, PTL

-----------------------------------------------------------------------------
(* What row locks give.  Who makes which transactions, for every actor.    *)
Roles(a) ==
    /\ a \in Requests => op[a].kind \in {"none", "enqueue"} \cup Makers
    /\ a \in Editors  => op[a].kind \in {"none", "select", "clear", "delete", "hold"}
    /\ a = Worker     => op[a].kind \in {"none", "complete", "fail"} \cup Outside
    /\ op[a].kind = "enqueue" => run[op[a].run].session = op[a].session

(* What a statement waits for.                                             *)
Waiting(a) ==
    /\ Statement(op[a]) = "capacity" => op[a].todo = {<<"capacity", NoOne>>}
    /\ Statement(op[a]) = "version"  => op[a].todo = {<<"version", op[a].run>>}
    /\ Statement(op[a]) = "run"      => op[a].todo \subseteq {<<"run", op[a].run>>}
    /\ Statement(op[a]) \in {"run", "runs", "favorites"} =>
          op[a].todo \subseteq {<<"run", q>> : q \in RunsOf(op[a].session)}
    /\ Statement(op[a]) \in {"none", "number", "commit"} => op[a].todo = {}

(* What a transaction must hold, and what it can hold, at a statement.     *)
Holding(a) ==
    /\ ~Doing(op[a]) \/ op[a].at = 1 => \A x \in Locks : held[x] # a
    /\ op[a].kind \in Makers /\ op[a].at > 1 => held[<<"capacity", NoOne>>] = a
    /\ op[a].kind \in Makers /\ ~HasSession(op[a]) =>
          \A x \in Locks : held[x] = a => x[1] \in {"capacity", "version"}
    /\ op[a].kind \in {"delete", "hold"} /\ op[a].at > 1 =>
          held[<<"session", op[a].session>>] = a
    /\ a \in Editors => \A x \in Locks : held[x] = a =>
          x \in {<<"session", op[a].session>>} \cup {<<"run", q>> : q \in RunsOf(op[a].session)}
    /\ op[a].kind = "delete" /\ op[a].at > 1 => \A q \in RunsOf(op[a].session) :
          <<"run", q>> \in op[a].todo \/ held[<<"run", q>>] = a
    /\ op[a].kind = "enqueue" =>
          <<"run", op[a].run>> \in op[a].todo \/ held[<<"run", op[a].run>>] = a

(* What a transaction has found is still so when it acts on it.            *)
Found(a) ==
    /\ op[a].kind \in Makers /\ op[a].at > 1 => Cardinality(ActiveRuns \ revived) < MaxActive
    /\ op[a].kind \in Makers /\ HasSession(op[a]) => op[a].session \notin deleted
    /\ op[a].kind = "delete" /\ op[a].at > 1 => op[a].rows = RunsOf(op[a].session)
    /\ op[a].kind = "delete" /\ Statement(op[a]) = "commit" =>
          \A q \in RunsOf(op[a].session) : run[q].state \notin Active
    /\ op[a].kind = "enqueue" /\ Statement(op[a]) = "commit" => op[a].session \notin deleted
    /\ op[a].kind = "select" /\ Statement(op[a]) \in {"favorites", "commit"} =>
          run[op[a].run].state = "completed" \/ op[a].run \in revived

Locking(a) == Roles(a) /\ Waiting(a) /\ Holding(a) /\ Found(a)

(* The properties of the rows themselves.                                  *)
RowsInv ==
    /\ CapacityHeld
    /\ DeletedIsQuiet
    /\ \A s \in Sessions :
          /\ \A p, q \in FavoritesOf(s) : p = q
          /\ \A q \in FavoritesOf(s) \ revived : run[q].state = "completed"

LInv == IInv /\ RowsInv /\ \A a \in Actors : Locking(a)

(* Counting active runs.                                                   *)
LEMMA Fewer ==
    ASSUME NEW S \in SUBSET Requests, NEW T, T \subseteq S
    PROVE  /\ IsFiniteSet(S) /\ IsFiniteSet(T)
           /\ Cardinality(S) \in Nat /\ Cardinality(T) \in Nat
           /\ Cardinality(T) <= Cardinality(S)
  <1>1. IsFiniteSet(S)
    BY ActorsAssumption, FS_Subset
  <1> QED
    BY <1>1, FS_Subset, FS_CardinalityType

LEMMA InitLInv == Init => LInv
  <1> SUFFICES ASSUME Init PROVE LInv
    OBVIOUS
  <1>1. IInv
    BY InitIInv
  <1>2. ActiveRuns = {} /\ \A s \in Sessions : FavoritesOf(s) = {}
    BY DEF Init, ActiveRuns, FavoritesOf, RunsOf, Made, Active, Absent
  <1>3. RowsInv
    <2>1. Cardinality(ActiveRuns \ revived) = 0
      BY <1>2, FS_EmptySet
    <2> QED
      BY <1>2, <2>1, BoundsAssumption DEF RowsInv, CapacityHeld, DeletedIsQuiet
  <1>4. ASSUME NEW a \in Actors PROVE Locking(a)
    <2>1. /\ op[a] = Idle /\ Idle.kind = "none" /\ Statement(op[a]) = "none" /\ ~Doing(op[a])
          /\ Idle.todo = {}
      BY DEF Init, Idle, Doing, Statement, Statements
    <2>2. \A x \in Locks : held[x] # a
      BY ActorsAssumption DEF Init
    <2> QED
      BY <2>1, <2>2 DEF Locking, Roles, Waiting, Holding, Found, Makers
  <1> QED
    BY <1>1, <1>3, <1>4 DEF LInv

-----------------------------------------------------------------------------
(* An actor that a step does not move: what it has found must not change.  *)
LEMMA Bystander ==
    ASSUME NEW b \in Actors, NEW o, o = op[b], o = op'[b], o \in Ops, Locking(b), OpInv(b),
           \A x \in Locks : held'[x] = b <=> held[x] = b,
           Made \subseteq Made', \A q \in Made : run'[q].session = run[q].session,
           o.kind \in Makers /\ o.at > 1 =>
               Cardinality(ActiveRuns' \ revived') < MaxActive,
           o.kind \in Makers /\ HasSession(o) => o.session \notin deleted',
           o.kind = "delete" /\ o.at > 1 => RunsOf(o.session)' = RunsOf(o.session),
           o.kind = "delete" /\ Statement(o) = "commit" =>
               \A q \in RunsOf(o.session) : run'[q].state \notin Active,
           o.kind = "enqueue" /\ Statement(o) = "commit" => o.session \notin deleted',
           o.kind = "select" /\ Statement(o) \in {"favorites", "commit"} =>
               run'[o.run].state = "completed" \/ o.run \in revived'
    PROVE  Locking(b)'
  <1>1. RunsOf(o.session) \subseteq RunsOf(o.session)' /\ RunsOf(o.session) \subseteq Requests
    BY DEF RunsOf, Made
  <1>2. Roles(b)'
    BY DEF Locking, Roles, OpInv
  <1>3. Waiting(b)'
    BY <1>1 DEF Locking, Waiting
  <1>4. Holding(b)'
    <2> USE DEF Locking, Holding
    <2>1. ~Doing(o) \/ o.at = 1 => \A x \in Locks : held'[x] # b
      OBVIOUS
    <2>2. o.kind \in Makers /\ o.at > 1 => held'[<<"capacity", NoOne>>] = b
      BY DEF Locks
    <2>3. o.kind \in Makers /\ ~HasSession(o) =>
            \A x \in Locks : held'[x] = b => x[1] \in {"capacity", "version"}
      OBVIOUS
    <2>4. o.kind \in {"delete", "hold"} /\ o.at > 1 => held'[<<"session", o.session>>] = b
      BY DEF Locks, OpInv
    <2>5. b \in Editors => \A x \in Locks : held'[x] = b =>
            x \in {<<"session", o.session>>} \cup {<<"run", q>> : q \in RunsOf(o.session)'}
      BY <1>1
    <2>6. o.kind = "delete" /\ o.at > 1 => \A q \in RunsOf(o.session)' :
            <<"run", q>> \in o.todo \/ held'[<<"run", q>>] = b
      BY ZenonT(40), <1>1 DEF Locks
    <2>7. o.kind = "enqueue" =>
            <<"run", o.run>> \in o.todo \/ held'[<<"run", o.run>>] = b
      BY DEF Locks, OpInv, Made
    <2> QED
      BY <2>1, <2>2, <2>3, <2>4, <2>5, <2>6, <2>7
  <1>5. Found(b)'
    <2>1. /\ o.kind = "delete" /\ o.at > 1 => o.rows = RunsOf(o.session)'
          /\ o.kind = "delete" /\ Statement(o) = "commit" => o.at > 1
      <3>1. o.kind = "delete" /\ Statement(o) = "commit" => o.at > 1
        BY Table DEF OpInv, Ops
      <3> QED
        BY <3>1 DEF Locking, Found
    <2>2. o.kind = "delete" /\ Statement(o) = "commit" =>
             \A q \in RunsOf(o.session)' : run'[q].state \notin Active
      BY <2>1
    <2> QED
      BY <2>1, <2>2 DEF Found
  <1> QED
    BY <1>2, <1>3, <1>4, <1>5 DEF Locking

(* A step that changes no run and deletes no session.                      *)
LEMMA StillStep ==
    ASSUME LInv, IInv', NEW a \in Actors, Locking(a)',
           UNCHANGED <<run, deleted, revived>>,
           \A b \in Actors \ {a} : op'[b] = op[b],
           \A b \in Actors \ {a}, x \in Locks : held'[x] = b <=> held[x] = b
    PROVE  LInv'
  <1>1. /\ Made' = Made /\ ActiveRuns' = ActiveRuns
        /\ \A s \in Sessions : RunsOf(s)' = RunsOf(s) /\ FavoritesOf(s)' = FavoritesOf(s)
    BY DEF Made, ActiveRuns, RunsOf, FavoritesOf
  <1>2. RowsInv'
    BY <1>1 DEF LInv, RowsInv, CapacityHeld, DeletedIsQuiet
  <1>3. ASSUME NEW b \in Actors \ {a} PROVE Locking(b)'
    <2>1. Locking(b) /\ OpInv(b) /\ op[b] \in Ops
      BY DEF LInv, IInv, TypeOK
    <2>2. op[b].kind = "delete" => RunsOf(op[b].session)' = RunsOf(op[b].session)
      BY <1>1, <2>1 DEF OpInv
    <2>3. op[b].kind \in Makers /\ op[b].at > 1 => Cardinality(ActiveRuns' \ revived') < MaxActive
      BY <1>1, <2>1 DEF Locking, Found
    <2>4. \A x \in Locks : held'[x] = b <=> held[x] = b
      OBVIOUS
    <2> QED
      BY <1>1, <2>1, <2>2, <2>3, <2>4, Bystander DEF Locking, Found
  <1> QED
    BY <1>2, <1>3 DEF LInv

(* An actor that has no transaction any more holds nothing.                *)
LEMMA EmptyHanded ==
    ASSUME NEW a \in Actors, \A x \in Locks : held'[x] # a,
           \/ op'[a] = Idle
           \/ a = Worker /\ op'[a].kind \in Outside /\ op'[a].todo = {}
    PROVE  Locking(a)'
  <1>1. Idle.kind = "none" /\ Idle.todo = {}
    BY DEF Idle
  <1>2. op'[a].kind \in {"none"} \cup Outside /\ op'[a].todo = {}
    BY <1>1
  <1>3. Statement(op'[a]) = "none" /\ ~Doing(op'[a]) /\ op'[a].kind \notin Makers
    BY <1>2 DEF Statement, Doing, Statements, Outside, Makers
  <1>4. a = Worker => a \notin Requests \cup Editors
    BY ActorsAssumption
  <1> QED
    BY <1>1, <1>2, <1>3, <1>4
       DEF Locking, Roles, Waiting, Holding, Found, HasSession, Outside, Makers
-----------------------------------------------------------------------------
(* A statement as it is issued: the rows it found and the locks it wants.  *)
Fresh(i) ==
    /\ Statement(i) = "capacity" => i.todo = {<<"capacity", NoOne>>}
    /\ Statement(i) = "session"  => i.todo = {<<"session", i.session>>}
    /\ Statement(i) = "version"  => i.todo = {<<"version", i.run>>}
    /\ Statement(i) = "run" =>
          i.todo = {<<"run", q>> : q \in {p \in {i.run} : run[p].session = i.session}}
    /\ Statement(i) = "runs" =>
          /\ i.rows = RunsOf(i.session)
          /\ i.todo = {<<"run", q>> : q \in RunsOf(i.session)}
    /\ Statement(i) = "favorites" =>
          i.todo = {<<"run", q>> : q \in FavoritesOf(i.session) \ {i.run}}
    /\ Statement(i) \in {"none", "number", "commit"} => i.todo = {}

LEMMA IssuedIsFresh ==
    ASSUME TypeOK, NEW o \in Ops, o.session \in Sessions, Doing(o), o.at >= 1,
           o.kind \in {"rerun", "enqueue", "complete", "fail", "select"} => o.run \in Requests
    PROVE  Fresh(Issued(o))
  <1> DEFINE i == Issued(o)
  <1>1. /\ i.kind = o.kind /\ i.session = o.session /\ i.run = o.run
        /\ Statement(i) = Statement(o)
    BY IssuedFacts
  <1>2. i.rows = Selected(o) /\ i.todo = Wanted(o)
    BY DEF Issued, Ops
  <1> HIDE DEF i
  <1>3. Fresh(i)
    BY <1>1, <1>2 DEF Fresh, Selected, Wanted
  <1> QED
    BY <1>3 DEF i

(* The statement after one that has returned.                              *)
LEMMA NextStatement ==
    ASSUME IInv, NEW a \in Actors, NEW n \in {0} \cup Numbers, Advance(a, n),
           NEW o, o = op[a], NEW i, i = op'[a], Doing(o), Statement(o) # "commit"
    PROVE  /\ o \in Ops /\ i \in Ops /\ Fresh(i) /\ Doing(i)
           /\ i.kind = o.kind /\ i.session = o.session /\ i.run = o.run
           /\ o.at \in 1..4 /\ i.at = o.at + 1 /\ i.seen = n
           /\ Statement(i) = "commit" => i.rows = o.rows
           /\ Statement(i) = "favorites" => i.rows = FavoritesOf(i.session) \ {i.run}
           /\ \A b \in Actors \ {a} : op'[b] = op[b]
  <1> DEFINE p == Onward(o, n)
  <1>1. TypeOK /\ OpInv(a) /\ o \in Ops /\ o.at >= 1 /\ o.session \in Sessions
    BY DEF IInv, TypeOK, OpInv, Doing, Statements
  <1>2. o.at \in 1..4
    BY <1>1, Table DEF Ops
  <1>3. /\ p \in Ops /\ p.kind = o.kind /\ p.at = o.at + 1 /\ p.seen = n
        /\ p.session = o.session /\ p.run = o.run /\ p.rows = o.rows
    <2>1. /\ DOMAIN p = DOMAIN o
          /\ p = [f \in DOMAIN p |-> p[f]]
          /\ DOMAIN o = {"kind", "at", "session", "run", "todo", "rows", "seen"}
      BY <1>1 DEF Ops, Onward
    <2>2. /\ p.kind = o.kind /\ p.at = o.at + 1 /\ p.seen = n
          /\ p.session = o.session /\ p.run = o.run /\ p.rows = o.rows /\ p.todo = o.todo
      BY <1>1 DEF Ops, Onward
    <2>3. o.at + 1 \in 0..5
      BY <1>2
    <2> HIDE DEF p
    <2> QED
      BY <1>1, <2>1, <2>2, <2>3 DEF Ops
  <1>4. Doing(p) /\ p.at >= 1
    BY <1>2, <1>3 DEF Doing
  <1>5. o.kind \in {"rerun", "enqueue", "complete", "fail", "select"} => o.run \in Requests
    BY <1>1 DEF OpInv, Made
  <1>6. i = Issued(p) /\ \A b \in Actors \ {a} : op'[b] = op[b]
    BY <1>1 DEF Advance, TypeOK
  <1> HIDE DEF p
  <1>7. /\ i \in Ops /\ i.kind = o.kind /\ i.at = o.at + 1 /\ i.seen = n
        /\ i.session = o.session /\ i.run = o.run
        /\ Statement(i) = Statement(p)
        /\ Statement(p) = "commit" => i.rows = o.rows
        /\ Statement(p) = "favorites" => i.rows = FavoritesOf(i.session) \ {i.run}
    BY <1>1, <1>3, <1>4, <1>5, <1>6, IssuedFacts
  <1>8. Fresh(i)
    BY <1>1, <1>3, <1>4, <1>5, <1>6, IssuedIsFresh
  <1> QED
    BY <1>1, <1>2, <1>6, <1>7, <1>8 DEF Doing

(* Waiting for a fresh statement.                                          *)
LEMMA FreshWaits ==
    ASSUME NEW a \in Actors, NEW i, i = op'[a], Fresh(i), UNCHANGED run,
           Statement(i) = "run" => i.run \in Made
    PROVE  Waiting(a)'
  <1>1. Made' = Made /\ RunsOf(i.session)' = RunsOf(i.session)
    BY DEF Made, RunsOf
  <1>2. Statement(i) = "run" =>
          {p \in {i.run} : run[p].session = i.session} \subseteq RunsOf(i.session) \cap {i.run}
    BY DEF RunsOf, Made
  <1>3. FavoritesOf(i.session) \subseteq RunsOf(i.session)
    BY DEF FavoritesOf
  <1>4. Statement(i) = "run" => i.todo \subseteq {<<"run", i.run>>}
    BY <1>2 DEF Fresh
  <1>5. Statement(i) \in {"run", "runs", "favorites"} =>
          i.todo \subseteq {<<"run", q>> : q \in RunsOf(i.session)}
    BY <1>2, <1>3 DEF Fresh
  <1> QED
    BY <1>1, <1>4, <1>5 DEF Waiting, Fresh

LEMMA BeginLocks ==
    ASSUME LInv, IInv', NEW a \in Actors, NEW kind \in DOMAIN Statements, NEW s \in Sessions,
           NEW q \in Requests \cup {NoOne}, Begin(a, kind, s, q),
           UNCHANGED <<run, deleted, held, revived>>,
           op[a].kind \in {"none"} \cup Outside,
           kind \in {"enqueue", "complete", "fail", "select"} => q \in Made,
           kind = "rerun" => q \in Requests,
           a \in Requests => kind \in {"enqueue"} \cup Makers,
           a \in Editors  => kind \in {"select", "clear", "delete", "hold"},
           a = Worker     => kind \in {"complete", "fail"},
           kind = "enqueue" => run[q].session = s
    PROVE  LInv'
  <1> DEFINE o == First(kind, s, q)
  <1>1. o \in Ops /\ Doing(o) /\ o.kind = kind /\ o.at = 1 /\ o.session = s /\ o.run = q
    BY Records DEF Doing, Kinds
  <1>2. op'[a] = Issued(o) /\ \A b \in Actors \ {a} : op'[b] = op[b]
    BY DEF Begin, LInv, IInv, TypeOK
  <1> HIDE DEF o
  <1> DEFINE i == op'[a]
  <1>3. o.kind \in {"rerun", "enqueue", "complete", "fail", "select"} => o.run \in Requests
    BY <1>1 DEF Made
  <1>4. /\ i \in Ops /\ i.kind = kind /\ i.at = 1 /\ i.session = s /\ i.run = q
        /\ Statement(i) = Statement(o) /\ Doing(i)
    BY <1>1, <1>2, <1>3, IssuedFacts DEF LInv, IInv, Doing
  <1>5. Fresh(i)
    BY <1>1, <1>2, <1>3, IssuedIsFresh DEF LInv, IInv
  <1> HIDE DEF i
  <1>6. \A x \in Locks : held[x] # a
    <2>1. ~Doing(op[a])
      BY DEF Doing, Statements, Outside
    <2> QED
      BY <2>1 DEF LInv, Locking, Holding
  <1>7. Statement(i) = "run" => kind \in {"enqueue", "complete", "fail"}
    BY <1>4, Table
  <1>8. /\ Statement(i) \notin {"number", "commit", "favorites"}
        /\ kind = "enqueue" => Statement(i) = "run"
    BY <1>4, Table
  <1>9. ~HasSession(i)
    BY <1>4, <1>8 DEF HasSession, Makers
  <1>10. Roles(a)'
    BY <1>4 DEF Roles, i
  <1>11. Waiting(a)'
    BY <1>4, <1>5, <1>7, FreshWaits DEF i
  <1>12. Holding(a)'
    <2>1. kind = "enqueue" => <<"run", q>> \in i.todo
      BY <1>4, <1>5, <1>8 DEF Fresh
    <2> QED
      BY <1>4, <1>6, <2>1 DEF Holding, i
  <1>13. Found(a)'
    BY <1>4, <1>8, <1>9 DEF Found, i
  <1>14. Locking(a)'
    BY <1>10, <1>11, <1>12, <1>13 DEF Locking
  <1> QED
    BY <1>2, <1>14, StillStep
LEMMA CreateLocks ==
    ASSUME LInv, IInv', NEW q \in Requests, NEW s \in Sessions, Create(q, s)
    PROVE  LInv'
  <1>1. q \in Actors /\ "create" \in DOMAIN Statements /\ q \notin Editors /\ q # Worker
    BY ActorsAssumption DEF Actors, Statements
  <1>2. op[q].kind = "none"
    BY DEF Create, Idle
  <1> QED
    BY <1>1, <1>2, BeginLocks DEF Create, Makers

LEMMA RerunLocks ==
    ASSUME LInv, IInv', NEW q \in Requests, NEW v \in Requests, Rerun(q, v)
    PROVE  LInv'
  <1>1. q \in Actors /\ "rerun" \in DOMAIN Statements /\ q \notin Editors /\ q # Worker
    BY ActorsAssumption DEF Actors, Statements
  <1>2. op[q].kind = "none"
    BY DEF Rerun, Idle
  <1>3. run[v].session \in Sessions
    BY DEF Rerun, LInv, IInv, RowInv
  <1> QED
    BY <1>1, <1>2, <1>3, BeginLocks DEF Rerun, Makers

LEMMA EditLocks ==
    ASSUME LInv, IInv', NEW e \in Editors, NEW kind \in Kinds, NEW s \in Sessions,
           NEW q \in Requests \cup {NoOne}, Edit(e, kind, s, q)
    PROVE  LInv'
  <1>1. e \in Actors /\ kind \in DOMAIN Statements /\ e \notin Requests /\ e # Worker
    BY ActorsAssumption DEF Edit, Actors, Statements
  <1>2. op[e].kind = "none"
    BY DEF Edit, Idle
  <1>3. /\ kind \in {"select", "clear", "delete", "hold"}
        /\ kind = "select" => q \in Made
    BY DEF Edit
  <1> QED
    BY <1>1, <1>2, <1>3, BeginLocks DEF Edit

LEMMA FinishLocks ==
    ASSUME LInv, IInv', NEW kind \in Kinds, Finish(kind)
    PROVE  LInv'
  <1>1. /\ Worker \in Actors /\ kind \in DOMAIN Statements /\ kind \in {"complete", "fail"}
        /\ Worker \notin Requests \cup Editors
    BY ActorsAssumption DEF Finish, Actors, Statements
  <1>2. op[Worker].session \in Sessions /\ op[Worker].run \in Made /\ op[Worker].run \in Requests
    BY <1>1 DEF Finish, LInv, IInv, OpInv, Made
  <1>3. op[Worker].kind \in Outside
    BY DEF Finish, Outside
  <1> QED
    BY <1>1, <1>2, <1>3, BeginLocks DEF Finish

LEMMA EnqueueLocks ==
    ASSUME LInv, IInv', NEW q \in Requests, Enqueue(q)
    PROVE  LInv'
  <1>1. q \in Actors /\ "enqueue" \in DOMAIN Statements /\ q \notin Editors /\ q # Worker
    BY ActorsAssumption DEF Actors, Statements
  <1>2. op[q].kind = "none" /\ ~Doing(op[q]) /\ op[q] = Idle
    BY DEF Enqueue, Idle, Doing, Statements
  <1>3. CASE Begin(q, "enqueue", run[q].session, q) /\ run[q].state = "running"
    <2>1. q \in Made /\ run[q].session \in Sessions
      BY <1>3 DEF Made, LInv, IInv, RowInv
    <2> QED
      BY <1>1, <1>2, <1>3, <2>1, BeginLocks DEF Enqueue
  <1>4. CASE UNCHANGED op
    <2>1. \A x \in Locks : held'[x] # q
      BY <1>1, <1>2 DEF Enqueue, LInv, Locking, Holding
    <2>2. Locking(q)'
      BY <1>1, <1>2, <1>4, <2>1, EmptyHanded
    <2> QED
      BY <1>1, <1>4, <2>2, StillStep DEF Enqueue
  <1> QED
    BY <1>3, <1>4 DEF Enqueue

LEMMA LoadFailsLocks ==
    ASSUME LInv, IInv', NEW q \in Requests, LoadFails(q)
    PROVE  LInv'
  <1>1. q \in Actors /\ op[q] = Idle /\ ~Doing(op[q])
    BY DEF Actors, LoadFails, Idle, Doing, Statements
  <1>2. \A x \in Locks : held'[x] # q
    BY <1>1 DEF LoadFails, LInv, Locking, Holding
  <1>3. Locking(q)'
    BY <1>1, <1>2, EmptyHanded DEF LoadFails
  <1> QED
    BY <1>1, <1>3, StillStep DEF LoadFails

(* Who rolls back releases what it held, and nobody else loses a lock.     *)
LEMMA Releasing ==
    ASSUME TypeOK, NEW a \in Actors, held' = Released(a)
    PROVE  /\ \A x \in Locks : held'[x] # a
           /\ \A b \in Actors \ {a}, x \in Locks : held'[x] = b <=> held[x] = b
  <1>1. NoOne \notin Actors
    BY ActorsAssumption
  <1> QED
    BY <1>1 DEF Released

LEMMA RollbackLocks ==
    ASSUME LInv, IInv', NEW a \in Actors, NEW v \in {"error"}, Rollback(a, v)
    PROVE  LInv'
  <1>1. op'[a] = Idle /\ \A b \in Actors \ {a} : op'[b] = op[b]
    BY DEF Rollback, LInv, IInv, TypeOK
  <1>2. /\ \A x \in Locks : held'[x] # a
        /\ \A b \in Actors \ {a}, x \in Locks : held'[x] = b <=> held[x] = b
    BY Releasing DEF Rollback, LInv, IInv
  <1>3. Locking(a)'
    BY <1>1, <1>2, EmptyHanded
  <1> QED
    BY <1>1, <1>2, <1>3, StillStep DEF Rollback

LEMMA AbortLocks ==
    ASSUME LInv, IInv', NEW a \in Actors, Abort(a)
    PROVE  LInv'
  <1>1. CASE op[a].kind = "complete"
    <2>1. a = Worker
      BY <1>1 DEF LInv, Locking, Roles, Actors, Makers
    <2>2. /\ op'[a].kind \in Outside /\ op'[a].todo = {}
          /\ \A b \in Actors \ {a} : op'[b] = op[b]
      <3>1. /\ op'[a] = Between("raised", op[a].session, op[a].run)
            /\ \A b \in Actors \ {a} : op'[b] = op[b]
        BY <1>1 DEF Abort, LInv, IInv, TypeOK
      <3>2. /\ Between("raised", op[a].session, op[a].run).kind = "raised"
            /\ Between("raised", op[a].session, op[a].run).todo = {}
        BY DEF Between, Idle
      <3> QED
        BY <3>1, <3>2 DEF Outside
    <2>3. /\ \A x \in Locks : held'[x] # a
          /\ \A b \in Actors \ {a}, x \in Locks : held'[x] = b <=> held[x] = b
      BY <1>1, Releasing DEF Abort, LInv, IInv
    <2>4. Locking(a)'
      BY <2>1, <2>2, <2>3, EmptyHanded
    <2> QED
      BY <1>1, <2>2, <2>3, <2>4, StillStep DEF Abort
  <1> QED
    BY <1>1, RollbackLocks DEF Abort

LEMMA AcquireLocks ==
    ASSUME LInv, IInv', NEW a \in Actors, Acquire(a)
    PROVE  LInv'
  <1>0. PICK x \in op[a].todo :
            /\ op[a].todo # {x} /\ held[x] = NoOne
            /\ held' = [held EXCEPT ![x] = a]
            /\ op' = [op EXCEPT ![a].todo = @ \ {x}]
    BY DEF Acquire
  <1> DEFINE o == op[a]
             i == op'[a]
  <1>1. TypeOK /\ OpInv(a) /\ Locking(a) /\ o \in Ops /\ x \in Locks /\ NoOne \notin Actors
    BY <1>0, ActorsAssumption DEF LInv, IInv, TypeOK, Ops
  <1>2. /\ i.todo = o.todo \ {x} /\ i.kind = o.kind /\ i.at = o.at /\ i.session = o.session
        /\ i.run = o.run /\ i.rows = o.rows
        /\ \A b \in Actors \ {a} : op'[b] = op[b]
    BY <1>0, <1>1 DEF Ops, TypeOK
  <1>3. /\ held'[x] = a
        /\ \A y \in Locks \ {x} : held'[y] = held[y]
        /\ \A b \in Actors \ {a}, y \in Locks : held'[y] = b <=> held[y] = b
    BY <1>0, <1>1 DEF TypeOK
  <1> HIDE DEF i
  <1>4. /\ Statement(i) = Statement(o) /\ (Doing(i) <=> Doing(o))
        /\ HasSession(i) <=> HasSession(o)
    BY <1>2 DEF Statement, Doing, HasSession
  <1>5. Statement(o) \in {"runs", "favorites"}
    <2>1. Statement(o) \notin {"capacity", "version", "session", "none", "number", "commit"}
      BY <1>0, <1>1 DEF Locking, Waiting, OpInv
    <2>2. Statement(o) # "run"
      BY <1>0, <1>1 DEF Locking, Waiting
    <2> QED
      BY <1>1, <2>1, <2>2, Table DEF OpInv
  <1>6. o.kind \in {"select", "clear", "delete", "hold"} /\ o.at \in 2..5 /\ Doing(o)
    BY <1>1, <1>5, Table DEF OpInv, Ops
  <1>7. Made' = Made /\ RunsOf(o.session)' = RunsOf(o.session) /\ RunsOf(o.session) \subseteq Requests
    BY DEF Acquire, Made, RunsOf
  <1>8. x \in {<<"run", q>> : q \in RunsOf(o.session)}
    BY <1>0, <1>1, <1>5 DEF Locking, Waiting
  <1>9. Roles(a)'
    BY <1>1, <1>2 DEF Locking, Roles, Acquire, i
  <1>10. Waiting(a)'
    BY <1>1, <1>2, <1>4, <1>5, <1>7 DEF Locking, Waiting, i
  <1>11. Holding(a)'
    <2>1. Doing(i) /\ i.at # 1 /\ i.kind \notin Makers /\ i.kind # "enqueue"
      BY <1>2, <1>4, <1>6 DEF Makers
    <2>2. o.kind \in {"delete", "hold"} => held'[<<"session", o.session>>] = a
      BY <1>1, <1>3, <1>6 DEF Locking, Holding, Locks, OpInv
    <2>3. a \in Editors => \A y \in Locks : held'[y] = a =>
            y \in {<<"session", o.session>>} \cup {<<"run", q>> : q \in RunsOf(o.session)}
      BY <1>1, <1>3, <1>8 DEF Locking, Holding
    <2>4. o.kind = "delete" => \A q \in RunsOf(o.session) :
            <<"run", q>> \in i.todo \/ held'[<<"run", q>>] = a
      <3>1. \A q \in Requests : <<"run", q>> \in Locks
        BY DEF Locks
      <3>2. o.kind = "delete" => \A q \in RunsOf(o.session) :
               <<"run", q>> \in o.todo \/ held[<<"run", q>>] = a
        <4>1. Holding(a) /\ o.at > 1
          BY <1>1, <1>6 DEF Locking
        <4> QED
          BY <4>1 DEF Holding
      <3> QED
        BY <1>2, <1>3, <1>7, <3>1, <3>2
    <2> QED
      BY <1>2, <1>7, <2>1, <2>2, <2>3, <2>4 DEF Holding, i
  <1>12. Found(a)'
    BY <1>1, <1>2, <1>4, <1>5, <1>6, <1>7 DEF Locking, Found, i, Makers, Acquire
  <1>13. Locking(a)'
    BY <1>9, <1>10, <1>11, <1>12 DEF Locking
  <1> QED
    BY <1>2, <1>3, <1>13, StillStep DEF Acquire
(* What Statement(i) says of the statement before.                         *)
LEMMA Before ==
    ASSUME NEW o \in Ops, NEW i \in Ops, Doing(o), i.kind = o.kind,
           o.at \in 1..4, i.at = o.at + 1
    PROVE  /\ o.kind \in Makers => /\ o.at = 1 <=> Statement(o) = "capacity"
                                   /\ Statement(i) \in {"version", "session", "number", "commit"}
                                   /\ Statement(i) \in {"version", "session"} =>
                                         Statement(o) \in {"capacity", "version"}
                                   /\ Statement(i) = "number" => Statement(o) = "session"
                                   /\ Statement(i) = "commit" => Statement(o) \in {"number", "commit"}
           /\ o.kind \in {"delete", "hold"} => /\ o.at = 1 <=> Statement(o) = "session"
                                               /\ o.at = 1 <=> Statement(i) = "runs"
                                               /\ o.at = 2 <=> Statement(o) = "runs"
                                               /\ o.at > 1 <=> Statement(i) = "commit"
           /\ o.kind \in {"select", "clear"} => o.at = 1 <=> Statement(o) = "session"
           /\ o.kind = "select" =>
                 /\ Statement(i) = "favorites" => Statement(o) = "run"
                 /\ Statement(i) = "commit" => Statement(o) \in {"favorites", "commit"}
           /\ o.kind = "enqueue" => /\ Statement(i) = "commit"
                                    /\ o.at = 1 <=> Statement(o) = "run"
  <1>1. CASE o.kind \in Makers
    BY <1>1, Table DEF Makers
  <1>2. CASE o.kind \in {"delete", "hold"}
    BY <1>2, Table DEF Makers
  <1>3. CASE o.kind = "select"
    BY <1>3, Table DEF Makers
  <1>4. CASE o.kind = "clear"
    BY <1>4, Table DEF Makers
  <1>5. CASE o.kind = "enqueue"
    BY <1>5, Table DEF Makers
  <1> QED
    BY <1>1, <1>2, <1>3, <1>4, <1>5 DEF Makers

LEMMA ReadNumberLocks ==
    ASSUME LInv, IInv', NEW a \in Actors, ReadNumber(a)
    PROVE  LInv'
  <1> DEFINE o == op[a]
             i == op'[a]
  <1>1. IInv /\ TypeOK /\ OpInv(a) /\ Locking(a) /\ o \in Ops
    BY DEF LInv, IInv, TypeOK
  <1>2. Doing(o) /\ o.kind \in Makers /\ o.at >= 3
    BY <1>1, Table DEF ReadNumber, OpInv, Makers
  <1>3. /\ i \in Ops /\ Fresh(i) /\ Doing(i)
        /\ i.kind = o.kind /\ i.session = o.session /\ i.run = o.run
        /\ o.at \in 1..4 /\ i.at = o.at + 1
        /\ \A b \in Actors \ {a} : op'[b] = op[b]
    <2>1. PICK n \in {0} \cup Numbers : Advance(a, n)
      BY DEF ReadNumber
    <2>2. Statement(o) # "commit"
      BY DEF ReadNumber
    <2> HIDE DEF o
    <2> QED
      BY <1>1, <1>2, <2>1, <2>2, NextStatement DEF o
  <1> HIDE DEF i
  <1>4. Statement(i) = "commit" /\ HasSession(i) /\ HasSession(o)
    BY <1>1, <1>2, <1>3, Table DEF ReadNumber, HasSession, Makers
  <1>5. /\ Made' = Made /\ ActiveRuns' = ActiveRuns
        /\ o.kind # "enqueue" /\ o.kind # "delete" /\ o.kind # "hold" /\ o.kind # "select"
    BY <1>2 DEF ReadNumber, Made, ActiveRuns, Makers
  <1>6. Roles(a)'
    BY <1>1, <1>3, <1>5 DEF Locking, Roles, i
  <1>7. Waiting(a)'
    BY <1>3, <1>4, FreshWaits DEF ReadNumber, i
  <1>8. Holding(a)'
    <2>1. a \notin Editors
      BY <1>1, <1>2, <1>5 DEF Locking, Roles, Makers
    <2>2. held[<<"capacity", NoOne>>] = a
      BY <1>1, <1>2, <1>3 DEF Locking, Holding
    <2> QED
      BY <1>2, <1>3, <1>4, <1>5, <2>1, <2>2 DEF Holding, i, ReadNumber
  <1>9. Found(a)'
    <2>1. Cardinality(ActiveRuns \ revived) < MaxActive /\ o.session \notin deleted
      BY <1>1, <1>2, <1>3, <1>4 DEF Locking, Found
    <2> QED
      BY <1>3, <1>5, <2>1 DEF Found, i, ReadNumber
  <1>10. Locking(a)'
    BY <1>6, <1>7, <1>8, <1>9 DEF Locking
  <1> QED
    BY <1>3, <1>10, StillStep DEF ReadNumber

LEMMA PassLocks ==
    ASSUME LInv, IInv', NEW a \in Actors, Pass(a)
    PROVE  LInv'
  <1> DEFINE o == op[a]
             i == op'[a]
  <1>1. IInv /\ TypeOK /\ OpInv(a) /\ Locking(a) /\ o \in Ops /\ NoOne \notin Actors
    BY ActorsAssumption DEF LInv, IInv, TypeOK
  <1>2. /\ Doing(o) /\ Statement(o) \notin {"none", "number", "commit"}
        /\ \A x \in o.todo : held[x] = NoOne
    BY <1>1, Table DEF Pass, Returns, OpInv
  <1>3. /\ i \in Ops /\ Fresh(i) /\ Doing(i)
        /\ i.kind = o.kind /\ i.session = o.session /\ i.run = o.run
        /\ o.at \in 1..4 /\ i.at = o.at + 1
        /\ Statement(i) = "commit" => i.rows = o.rows
        /\ \A b \in Actors \ {a} : op'[b] = op[b]
    <2>1. o.seen \in {0} \cup Numbers /\ Advance(a, o.seen)
      BY <1>1 DEF Ops, Pass
    <2> QED
      BY <1>1, <1>2, <2>1, NextStatement
  <1>4. ~Refused(o) /\ held' = [x \in Locks |-> IF x \in o.todo THEN a ELSE held[x]]
    BY DEF Pass
  <1>5. /\ \A x \in Locks : held'[x] = a <=> x \in o.todo \/ held[x] = a
        /\ \A b \in Actors \ {a}, x \in Locks : held'[x] = b <=> held[x] = b
    BY <1>1, <1>2, <1>4
  <1> HIDE DEF i
  <1>6. /\ Made' = Made /\ ActiveRuns' = ActiveRuns
        /\ RunsOf(o.session)' = RunsOf(o.session) /\ RunsOf(o.session) \subseteq Requests
        /\ \A q \in Requests : <<"run", q>> \in Locks
        /\ <<"capacity", NoOne>> \in Locks
    <2>1. run' = run /\ op'[a].session = o.session
      BY <1>3 DEF Pass, i
    <2> QED
      BY <2>1 DEF Made, ActiveRuns, RunsOf, Locks
  <1>7. o.session \in Sessions /\ <<"session", o.session>> \in Locks
    BY <1>1, <1>2 DEF OpInv, Doing, Statements, Locks
  <1>8. Roles(a)'
    BY <1>1, <1>3 DEF Locking, Roles, i, Pass
  <1>9. Waiting(a)'
    <2>1. Statement(i) = "run" => i.run \in Made
      <3>1. Statement(i) = "run" => i.kind \in {"enqueue", "complete", "fail", "select"}
        BY <1>3, Table
      <3> QED
        BY <1>1, <1>3, <3>1 DEF OpInv
    <2> QED
      BY <1>3, <2>1, FreshWaits DEF Pass, i
  <1>10. Holding(a)'
    <2>1. o.kind \in Makers => held'[<<"capacity", NoOne>>] = a
      <3>1. o.kind \in Makers => o.at > 1 \/ Statement(o) = "capacity"
        BY <1>2, <1>1, <1>3, Before
      <3> QED
        BY <1>1, <1>5, <1>6, <3>1 DEF Locking, Waiting, Holding
    <2>2. o.kind \in Makers /\ ~HasSession(i) =>
            \A x \in Locks : held'[x] = a => x[1] \in {"capacity", "version"}
      <3>1. o.kind \in Makers /\ ~HasSession(i) => Statement(o) \in {"capacity", "version"}
        BY <1>1, <1>2, <1>3, Before DEF HasSession
      <3>2. o.kind \in Makers /\ ~HasSession(i) => ~HasSession(o)
        BY <3>1 DEF HasSession, Makers
      <3> QED
        BY <1>1, <1>5, <3>1, <3>2 DEF Locking, Waiting, Holding
    <2>3. o.kind \in {"delete", "hold"} => held'[<<"session", o.session>>] = a
      <3>1. o.kind \in {"delete", "hold"} => o.at > 1 \/ Statement(o) = "session"
        BY <1>2, <1>1, <1>3, Before
      <3> QED
        BY <1>1, <1>5, <1>7, <3>1 DEF Locking, OpInv, Holding
    <2>4. a \in Editors => \A x \in Locks : held'[x] = a =>
            x \in {<<"session", o.session>>} \cup {<<"run", q>> : q \in RunsOf(o.session)}
      <3>1. a \in Editors => o.todo \subseteq
              {<<"session", o.session>>} \cup {<<"run", q>> : q \in RunsOf(o.session)}
        <4>1. a \in Editors => Statement(o) \in {"session", "run", "runs", "favorites"}
          BY <1>1, <1>2, <1>3, Table DEF Locking, Roles
        <4> QED
          BY <1>1, <4>1 DEF Locking, Waiting, OpInv
      <3> QED
        BY <1>1, <1>5, <3>1 DEF Locking, Holding
    <2>5. o.kind = "delete" => \A q \in RunsOf(o.session) :
            <<"run", q>> \in i.todo \/ held'[<<"run", q>>] = a
      <3>1. CASE o.kind = "delete" /\ o.at = 1
        BY <1>1, <1>2, <1>3, <3>1, Before DEF Fresh
      <3>2. CASE o.kind = "delete" /\ o.at > 1
        BY <1>1, <1>5, <1>6, <3>2 DEF Locking, Holding
      <3>3. o.at = 1 \/ o.at > 1
        BY <1>3
      <3> QED
        BY <3>1, <3>2, <3>3
    <2>6. o.kind = "enqueue" =>
            <<"run", o.run>> \in i.todo \/ held'[<<"run", o.run>>] = a
      BY <1>1, <1>5, <1>6 DEF Locking, Holding, OpInv, Made
    <2> QED
      BY <1>3, <1>6, <2>1, <2>2, <2>3, <2>4, <2>5, <2>6 DEF Holding, i
  <1>11. Found(a)'
    <2>1. o.kind \in Makers => Cardinality(ActiveRuns \ revived) < MaxActive
      <3>1. CASE o.kind \in Makers /\ o.at > 1
        BY <1>1, <3>1 DEF Locking, Found
      <3>2. CASE o.kind \in Makers /\ o.at = 1
        <4>1. ~(Cardinality(ActiveRuns) >= MaxActive)
          BY <1>1, <1>2, <1>3, <1>4, <3>2, Before DEF Refused
        <4>2. ActiveRuns \in SUBSET Requests
          BY DEF ActiveRuns, Made
        <4> QED
          BY <4>1, <4>2, Fewer, BoundsAssumption
      <3> QED
        BY <1>3, <3>1, <3>2
    <2>2. o.kind \in Makers /\ HasSession(i) => o.session \notin deleted
      <3>1. o.kind \in Makers /\ HasSession(i) => Statement(o) = "session"
        BY <1>1, <1>2, <1>3, Before DEF HasSession, Makers
      <3> QED
        BY <1>4, <3>1 DEF Refused
    <2>3. o.kind = "delete" => i.rows = RunsOf(o.session)
      <3>1. CASE o.kind = "delete" /\ o.at = 1
        BY <1>1, <1>2, <1>3, <3>1, Before DEF Fresh
      <3>2. CASE o.kind = "delete" /\ o.at > 1
        BY <1>1, <1>2, <1>3, <3>2, Before DEF Locking, Found
      <3> QED
        BY <1>3, <3>1, <3>2
    <2>4. o.kind = "delete" /\ Statement(i) = "commit" =>
            \A q \in RunsOf(o.session) : run[q].state \notin Active
      <3>1. o.kind = "delete" /\ Statement(i) = "commit" => Statement(o) = "runs" /\ o.at > 1
        BY <1>1, <1>2, <1>3, Table
      <3>2. o.kind = "delete" /\ Statement(o) = "runs" =>
              ~\E q \in o.rows : run[q].state \in Active
        BY <1>4 DEF Refused
      <3> QED
        BY <1>1, <3>1, <3>2 DEF Locking, Found
    <2>5. o.kind = "enqueue" => o.session \notin deleted
      <3>1. o.kind = "enqueue" => Statement(o) = "run"
        BY <1>1, <1>2, <1>3, Table
      <3> QED
        BY <1>1, <1>4, <3>1 DEF Refused, Locking, Roles
    <2>6. o.kind = "select" /\ Statement(i) \in {"favorites", "commit"} =>
            run[o.run].state = "completed" \/ o.run \in revived
      <3>1. o.kind = "select" /\ Statement(i) \in {"favorites", "commit"} =>
              Statement(o) \in {"run", "favorites"}
        BY <1>1, <1>2, <1>3, Before
      <3>2. o.kind = "select" /\ Statement(o) = "run" => run[o.run].state = "completed"
        BY <1>4 DEF Refused
      <3> QED
        BY <1>1, <3>1, <3>2 DEF Locking, Found
    <2> QED
      BY <1>3, <1>6, <2>1, <2>2, <2>3, <2>4, <2>5, <2>6 DEF Found, i, Pass
  <1>12. Locking(a)'
    BY <1>8, <1>9, <1>10, <1>11 DEF Locking
  <1> QED
    BY <1>3, <1>5, <1>12, StillStep DEF Pass
(* The worker takes a run, or puts one back that was running: one that no  *)
(* transaction has, of a session that nobody has and that is not deleted.  *)
LEMMA TakingLocks ==
    ASSUME LInv, IInv', NEW q \in Requests, Lockable(q), NEW v \in Active,
           run[q].state \in Active, run' = [run EXCEPT ![q].state = v],
           UNCHANGED <<deleted, revived, held>>, Locking(Worker)',
           \A b \in Actors \ {Worker} : op'[b] = op[b]
    PROVE  LInv'
  <1>1. IInv /\ TypeOK /\ q \in Made /\ NoOne \notin Actors
    BY ActorsAssumption DEF LInv, IInv, Made, Active
  <1>2. \A p \in Requests : /\ run'[p].session = run[p].session
                            /\ run'[p].favorite = run[p].favorite
                            /\ run'[p].state = IF p = q THEN v ELSE run[p].state
    BY <1>1 DEF TypeOK, Runs
  <1>3. /\ Made' = Made /\ ActiveRuns' = ActiveRuns
        /\ \A s \in Sessions : RunsOf(s)' = RunsOf(s) /\ FavoritesOf(s)' = FavoritesOf(s)
    BY <1>1, <1>2 DEF Made, ActiveRuns, RunsOf, FavoritesOf, Active
  <1>4. RowsInv'
    <2>1. CapacityHeld'
      BY <1>3 DEF LInv, RowsInv, CapacityHeld
    <2>2. DeletedIsQuiet'
      BY <1>2, <1>3 DEF LInv, RowsInv, DeletedIsQuiet, ActiveRuns, Made
    <2>3. ASSUME NEW s \in Sessions, NEW p \in FavoritesOf(s) \ revived PROVE run'[p].state = "completed"
      <3>1. run[p].state = "completed" /\ p \in Requests
        BY DEF LInv, RowsInv, FavoritesOf, RunsOf, Made
      <3> QED
        BY <1>2, <3>1 DEF Active
    <2> QED
      BY <1>3, <2>1, <2>2, <2>3 DEF LInv, RowsInv
  <1>5. ASSUME NEW b \in Actors \ {Worker} PROVE Locking(b)'
    <2> DEFINE o == op[b]
    <2>1. Locking(b) /\ OpInv(b) /\ o \in Ops /\ o = op'[b]
      BY DEF LInv, IInv, TypeOK
    <2>2. o.kind = "delete" => o.session \in Sessions /\ RunsOf(o.session)' = RunsOf(o.session)
      BY <1>3, <2>1 DEF OpInv
    <2>3. o.kind \in Makers /\ o.at > 1 => Cardinality(ActiveRuns' \ revived') < MaxActive
      BY <1>3, <2>1 DEF Locking, Found
    <2>4. o.kind = "delete" /\ Statement(o) = "commit" =>
            \A p \in RunsOf(o.session) : run'[p].state \notin Active
      <3>1. o.kind = "delete" /\ Statement(o) = "commit" => o.at > 1
        BY <2>1, Table DEF OpInv, Ops
      <3>2. o.kind = "delete" /\ Statement(o) = "commit" => held[<<"session", o.session>>] # NoOne
        BY <1>1, <2>1, <3>1 DEF Locking, Holding
      <3>3. o.kind = "delete" /\ Statement(o) = "commit" => q \notin RunsOf(o.session)
        BY <3>2 DEF Lockable, RunsOf
      <3> QED
        BY <1>2, <2>1, <3>3 DEF Locking, Found, RunsOf, Made
    <2>5. o.kind = "select" /\ Statement(o) \in {"favorites", "commit"} =>
            run'[o.run].state = "completed" \/ o.run \in revived'
      <3>1. o.kind = "select" => o.run \in Requests
        BY <2>1 DEF OpInv, Made
      <3>2. o.run = q => run[o.run].state # "completed"
        BY DEF Active
      <3> QED
        BY <1>2, <2>1, <3>1, <3>2 DEF Locking, Found
    <2>6. \A p \in Made : run'[p].session = run[p].session
      BY <1>2 DEF Made
    <2> HIDE DEF o
    <2>7. /\ o.kind \in Makers /\ HasSession(o) => o.session \notin deleted'
          /\ o.kind = "enqueue" /\ Statement(o) = "commit" => o.session \notin deleted'
      BY <2>1 DEF Locking, Found, o
    <2>8. o = op[b]
      BY DEF o
    <2> QED
      BY <1>3, <2>1, <2>2, <2>3, <2>4, <2>5, <2>6, <2>7, <2>8, Bystander
  <1> QED
    BY <1>4, <1>5 DEF LInv

LEMMA ClaimLocks ==
    ASSUME LInv, IInv', NEW q \in Requests, Claim(q)
    PROVE  LInv'
  <1>1. Worker \in Actors /\ op[Worker] = Idle /\ ~Doing(op[Worker])
    BY DEF Actors, Claim, Idle, Doing, Statements
  <1>2. \A x \in Locks : held'[x] # Worker
    BY <1>1 DEF Claim, LInv, Locking, Holding
  <1>3. /\ op'[Worker].kind \in Outside /\ op'[Worker].todo = {}
        /\ \A b \in Actors \ {Worker} : op'[b] = op[b]
    <2>1. /\ op'[Worker] = Between("work", run[q].session, q)
          /\ \A b \in Actors \ {Worker} : op'[b] = op[b]
      BY <1>1 DEF Claim, LInv, IInv, TypeOK
    <2>2. /\ Between("work", run[q].session, q).kind = "work"
          /\ Between("work", run[q].session, q).todo = {}
      BY DEF Between, Idle
    <2> QED
      BY <2>1, <2>2 DEF Outside
  <1>4. Locking(Worker)'
    BY <1>1, <1>2, <1>3, EmptyHanded
  <1>5. "running" \in Active /\ run[q].state \in Active
    BY DEF Claim, Active
  <1> QED
    BY <1>3, <1>4, <1>5, TakingLocks DEF Claim

LEMMA RecoverLocks ==
    ASSUME LInv, IInv', NEW q \in Requests, Recover(q)
    PROVE  LInv'
  <1>1. Worker \in Actors /\ op[Worker] = Idle /\ ~Doing(op[Worker])
    BY DEF Actors, Recover, Idle, Doing, Statements
  <1>2. \A x \in Locks : held'[x] # Worker
    BY <1>1 DEF Recover, LInv, Locking, Holding
  <1>3. Locking(Worker)'
    BY <1>1, <1>2, EmptyHanded DEF Recover
  <1>4. "queued" \in Active /\ run[q].state \in Active
    BY DEF Recover, Active
  <1> QED
    BY <1>3, <1>4, TakingLocks DEF Recover
(* A commit that makes no run.                                             *)
LEMMA CommitStates ==
    ASSUME IInv, NEW a \in Actors, Commit(a), NEW o, o = op[a], o.kind \notin Makers
    PROVE  /\ Made' = Made /\ \A s : RunsOf(s)' = RunsOf(s)
           /\ \A q \in Requests : run'[q].session = run[q].session
           /\ \A q \in Requests : run'[q].state = run[q].state
                 \/ /\ q = o.run /\ o.kind \in {"enqueue", "complete", "fail"}
                    /\ o.kind = "enqueue" => run'[q].state = "queued"
                    /\ o.kind = "complete" => run'[q].state = "completed"
                    /\ o.kind = "fail" => run'[q].state = "failed"
           /\ revived \subseteq revived'
           /\ o.kind \in {"enqueue", "fail"} /\ run[o.run].state \in Terminal =>
                 o.run \in revived'
           /\ ActiveRuns' \ revived' \subseteq ActiveRuns \ revived
  <1>1. TypeOK /\ OpInv(a)
    BY DEF IInv
  <1>2. run' = Written(a, o)
    BY DEF Commit
  <1>3. o.kind \in {"enqueue", "complete", "fail"} => o.run \in Made
    BY <1>1 DEF OpInv
  <1>4. /\ \A q \in Requests : run'[q].session = run[q].session
        /\ \A q \in Requests : run'[q].state = run[q].state
              \/ /\ q = o.run /\ o.kind \in {"enqueue", "complete", "fail"}
                 /\ o.kind = "enqueue" => run'[q].state = "queued"
                 /\ o.kind = "complete" => run'[q].state = "completed"
                 /\ o.kind = "fail" => run'[q].state = "failed"
    <2>1. CASE o.kind \in {"select", "clear"}
      BY <2>1, MovedFavorite
    <2>2. CASE o.kind \notin {"enqueue", "complete", "fail", "select", "clear"}
      BY <1>2, <2>2 DEF Written, Makers
    <2>3. CASE o.kind = "enqueue"
      <3>1. run' = [run EXCEPT ![o.run].state = "queued"]
        BY <1>2, <2>3 DEF Written
      <3> QED
        BY <1>1, <2>3, <3>1 DEF TypeOK, Runs
    <2>4. CASE o.kind = "complete"
      <3>1. run' = [run EXCEPT ![o.run].state = "completed"]
        BY <1>2, <2>4 DEF Written
      <3> QED
        BY <1>1, <2>4, <3>1 DEF TypeOK, Runs
    <2>5. CASE o.kind = "fail"
      <3>1. run' = [run EXCEPT ![o.run].state = "failed"]
        BY <1>2, <2>5 DEF Written
      <3> QED
        BY <1>1, <2>5, <3>1 DEF TypeOK, Runs
    <2> QED
      BY <2>1, <2>2, <2>3, <2>4, <2>5
  <1>5. Made' = Made
    BY <1>3, <1>4 DEF Made
  <1>6. \A s : RunsOf(s)' = RunsOf(s)
    BY <1>4, <1>5 DEF RunsOf, Made
  <1>7. /\ revived \subseteq revived'
        /\ o.kind \in {"enqueue", "fail"} /\ run[o.run].state \in Terminal => o.run \in revived'
    BY DEF Commit
  <1>8. ASSUME NEW q \in ActiveRuns' \ revived' PROVE q \in ActiveRuns \ revived
    <2>1. q \in Made /\ q \in Requests /\ q \notin revived /\ run'[q].state \in Active
      BY <1>5, <1>7 DEF ActiveRuns, Made
    <2>2. run[q].state \in Active \cup Terminal
      BY <1>1, <2>1 DEF Made, TypeOK, Runs
    <2>3. run[q].state \notin Terminal
      <3>1. CASE run'[q].state = run[q].state
        BY <2>1, <3>1 DEF Active, Terminal
      <3>2. CASE q = o.run /\ o.kind \in {"enqueue", "fail"}
        BY <1>7, <3>2
      <3>3. CASE run'[q].state = "completed"
        BY <2>1, <3>3 DEF Active
      <3> QED
        BY <1>4, <2>1, <3>1, <3>2, <3>3
    <2> QED
      BY <2>1, <2>2, <2>3 DEF ActiveRuns
  <1> QED
    BY <1>4, <1>5, <1>6, <1>7, <1>8

(* Two transactions cannot both hold what a commit needs: so what another  *)
(* one has found is not changed by the commit.                             *)
LEMMA CommitSpares ==
    ASSUME LInv, NEW a \in Actors, Commit(a), NEW b \in Actors \ {a}
    PROVE  Locking(b)'
  <1> PICK o : o = op[a]
    OBVIOUS
  <1> PICK u : u = op[b]
    OBVIOUS
  <1>1. /\ IInv /\ TypeOK /\ OpInv(a) /\ OpInv(b) /\ Locking(a) /\ Locking(b)
        /\ o \in Ops /\ u \in Ops /\ Statement(o) = "commit" /\ Doing(o)
    <2>1. IInv /\ TypeOK /\ o \in Ops /\ u \in Ops /\ Statement(o) = "commit"
      BY DEF LInv, IInv, TypeOK, Commit
    <2>2. Doing(o)
      BY <2>1 DEF Statement, Doing
    <2> QED
      BY <2>1, <2>2 DEF LInv, IInv
  <1>2. o.at > 1
    BY <1>1, Table DEF OpInv, Ops
  <1>3. o.kind \in Makers => HasSession(o)
    BY <1>1 DEF HasSession
  <1>4. u.kind = "delete" /\ Statement(u) = "commit" => u.at > 1
    BY <1>1, Table DEF OpInv, Ops
  <1>5. u = op'[b] /\ \A x \in Locks : held'[x] = b <=> held[x] = b
    BY <1>1, Releasing DEF Commit, TypeOK
  <1>6. /\ Made \subseteq Made' /\ \A q \in Made : run'[q].session = run[q].session
    <2>1. CASE o.kind \in Makers
      BY <1>1, <2>1, ElsewhereSame
    <2>2. CASE o.kind \notin Makers
      BY <1>1, <2>2, CommitStates DEF Made
    <2> QED
      BY <2>1, <2>2
  <1>7. u.kind \in Makers /\ u.at > 1 => Cardinality(ActiveRuns' \ revived') < MaxActive
    <2>1. u.kind \in Makers /\ u.at > 1 => o.kind \notin Makers
      BY <1>1, <1>2 DEF Locking, Holding
    <2>2. CASE o.kind \notin Makers
      <3>1. ActiveRuns' \ revived' \subseteq ActiveRuns \ revived
        BY <1>1, <2>2, CommitStates
      <3>2. ActiveRuns \ revived \in SUBSET Requests
        BY DEF ActiveRuns, Made
      <3> QED
        BY <1>1, <3>1, <3>2, Fewer, BoundsAssumption DEF Locking, Found
    <2> QED
      BY <2>1, <2>2
  <1>8. o.kind = "delete" => held[<<"session", o.session>>] = a
    BY <1>1, <1>2 DEF Locking, Holding
  <1>9. deleted' = IF o.kind = "delete" THEN deleted \cup {o.session} ELSE deleted
    BY DEF Commit
  <1>10. u.kind \in Makers /\ HasSession(u) => u.session \notin deleted'
    <2>1. u.kind \in Makers /\ HasSession(u) =>
            u.session \notin deleted /\ held[<<"session", u.session>>] = b
      BY <1>1 DEF Locking, Found, OpInv
    <2> QED
      BY <1>8, <1>9, <2>1
  <1>11. u.kind = "delete" /\ u.at > 1 =>
           /\ RunsOf(u.session)' = RunsOf(u.session)
           /\ o.kind \in Makers => a \notin RunsOf(u.session)
    <2>1. CASE o.kind \in Makers
      <3>1. u.kind = "delete" /\ u.at > 1 => u.session # o.session
        BY <1>1, <1>3, <2>1 DEF Locking, Holding, OpInv
      <3>2. /\ a \in Requests /\ a \notin Made /\ run'[a].session = o.session
            /\ run'[a].state = "queued"
            /\ \A q \in Requests \ {a} : run'[q] = run[q]
        BY ZenonT(40), <1>1, <2>1, NewRow
      <3> QED
        BY <3>1, <3>2 DEF RunsOf, Made
    <2>2. CASE o.kind \notin Makers
      BY <1>1, <2>2, CommitStates
    <2> QED
      BY <2>1, <2>2
  <1>12. u.kind = "delete" /\ Statement(u) = "commit" =>
           \A q \in RunsOf(u.session) : run'[q].state \notin Active
    <2> SUFFICES ASSUME u.kind = "delete", Statement(u) = "commit", NEW q \in RunsOf(u.session)
                 PROVE  run'[q].state \notin Active
      OBVIOUS
    <2>1. q \in Requests /\ run[q].state \notin Active /\ u.todo = {}
      BY <1>1 DEF Locking, Found, Waiting, RunsOf, Made
    <2>2. held[<<"run", q>>] = b
      BY <1>1, <1>4, <2>1 DEF Locking, Holding
    <2>3. CASE o.kind \in Makers
      <3>1. run'[q] = run[q]
        <4>1. q # a
          BY <1>4, <1>11, <2>3
        <4>2. \A p \in Requests \ {a} : run'[p] = run[p]
          BY <1>1, <2>3, NewRow
        <4> QED
          BY <2>1, <4>1, <4>2
      <3> QED
        BY <2>1, <3>1
    <2>4. CASE o.kind \notin Makers
      <3>1. ~(o.kind = "enqueue" /\ q = o.run)
        BY <1>1, <2>2 DEF Locking, Holding, Waiting
      <3> QED
        BY <1>1, <2>1, <2>4, <3>1, CommitStates DEF Active
    <2> QED
      BY <2>3, <2>4
  <1>13. u.kind = "enqueue" /\ Statement(u) = "commit" => u.session \notin deleted'
    <2> SUFFICES ASSUME u.kind = "enqueue", Statement(u) = "commit", o.kind = "delete",
                        u.session = o.session
                 PROVE  FALSE
      BY <1>1, <1>9 DEF Locking, Found
    <2>1. u.todo = {} /\ o.todo = {}
      BY <1>1 DEF Locking, Waiting
    <2>2. u.run \in RunsOf(o.session)
      BY <1>1 DEF Locking, Roles, OpInv, RunsOf
    <2>3. held[<<"run", u.run>>] = b
      BY <1>1, <2>1 DEF Locking, Holding
    <2>4. held[<<"run", u.run>>] = a
      BY <1>1, <1>2, <2>1, <2>2 DEF Locking, Holding
    <2> QED
      BY <2>3, <2>4
  <1>14. u.kind = "select" /\ Statement(u) \in {"favorites", "commit"} =>
           run'[u.run].state = "completed" \/ u.run \in revived'
    <2> SUFFICES ASSUME u.kind = "select", Statement(u) \in {"favorites", "commit"}
                 PROVE  run'[u.run].state = "completed" \/ u.run \in revived'
      OBVIOUS
    <2>1. /\ u.run \in Made /\ u.run \in Requests
          /\ run[u.run].state = "completed" \/ u.run \in revived
      BY <1>1 DEF OpInv, Made, Locking, Found
    <2>2. CASE o.kind \in Makers
      <3>1. u.run # a /\ revived' = revived
        BY <1>1, <2>1, <2>2, NewRow DEF Commit, Makers
      <3> QED
        BY <1>1, <2>1, <2>2, <3>1, NewRow
    <2>3. CASE o.kind \notin Makers
      BY <1>1, <2>1, <2>3, CommitStates DEF Terminal
    <2> QED
      BY <2>2, <2>3
  <1> QED
    BY <1>1, <1>5, <1>6, <1>7, <1>10, <1>11, <1>12, <1>13, <1>14, Bystander

(* The rows after a commit.                                                *)
LEMMA CommitCapacity ==
    ASSUME LInv, NEW a \in Actors, Commit(a)
    PROVE  CapacityHeld'
  <1> PICK o : o = op[a]
    OBVIOUS
  <1>1. /\ IInv /\ TypeOK /\ Locking(a) /\ OpInv(a) /\ Statement(o) = "commit" /\ CapacityHeld
        /\ o \in Ops
    BY DEF LInv, RowsInv, IInv, Commit, TypeOK
  <1>2. ActiveRuns \ revived \in SUBSET Requests
    BY DEF ActiveRuns, Made
  <1>3. CASE o.kind \in Makers
    <2>1. /\ a \in Requests
          /\ \A q \in Requests \ {a} : run'[q] = run[q]
          /\ revived' = revived
      BY <1>1, <1>3, NewRow DEF Commit, Makers
    <2>2. ActiveRuns' \ revived' \subseteq (ActiveRuns \ revived) \cup {a}
      BY <2>1 DEF ActiveRuns, Made
    <2>3. o.at > 1
      BY <1>1, <1>3, Table DEF OpInv, Ops, Makers, Doing, Statements
    <2>4. Cardinality(ActiveRuns \ revived) < MaxActive
      BY <1>1, <1>3, <2>3 DEF Locking, Found
    <2>5. /\ (ActiveRuns \ revived) \cup {a} \in SUBSET Requests
          /\ IsFiniteSet(ActiveRuns \ revived)
      BY <1>2, <2>1, Fewer
    <2>6. Cardinality((ActiveRuns \ revived) \cup {a}) <= Cardinality(ActiveRuns \ revived) + 1
      BY <1>2, <2>5, FS_AddElement, Fewer
    <2>7. /\ Cardinality(ActiveRuns' \ revived') \in Nat
          /\ Cardinality(ActiveRuns' \ revived') <= Cardinality((ActiveRuns \ revived) \cup {a})
          /\ Cardinality((ActiveRuns \ revived) \cup {a}) \in Nat
          /\ Cardinality(ActiveRuns \ revived) \in Nat
      BY <1>2, <2>2, <2>5, Fewer
    <2>8. Cardinality(ActiveRuns' \ revived') <= MaxActive
      BY <2>4, <2>6, <2>7, BoundsAssumption
    <2> QED
      BY <2>8 DEF CapacityHeld
  <1>4. CASE o.kind \notin Makers
    <2>1. ActiveRuns' \ revived' \subseteq ActiveRuns \ revived
      BY <1>1, <1>4, CommitStates
    <2>2. Cardinality(ActiveRuns' \ revived') <= MaxActive
      BY <1>1, <1>2, <2>1, Fewer, BoundsAssumption DEF CapacityHeld
    <2> QED
      BY <2>2 DEF CapacityHeld
  <1> QED
    BY <1>3, <1>4

LEMMA CommitQuiet ==
    ASSUME LInv, NEW a \in Actors, Commit(a)
    PROVE  DeletedIsQuiet'
  <1> PICK o : o = op[a]
    OBVIOUS
  <1>1. /\ IInv /\ TypeOK /\ Locking(a) /\ OpInv(a) /\ Statement(o) = "commit" /\ DeletedIsQuiet
        /\ o \in Ops
    BY DEF LInv, RowsInv, IInv, Commit, TypeOK
  <1>2. deleted' = IF o.kind = "delete" THEN deleted \cup {o.session} ELSE deleted
    BY DEF Commit
  <1>3. CASE o.kind \in Makers
    <2>1. /\ a \in Requests /\ run'[a].session = o.session
          /\ \A q \in Requests \ {a} : run'[q] = run[q]
      BY <1>1, <1>3, NewRow
    <2>2. deleted' = deleted
      BY <1>2, <1>3 DEF Makers
    <2>3. o.session \notin deleted
      BY <1>1, <1>3 DEF Locking, Found, HasSession
    <2> QED
      BY <1>1, <2>1, <2>2, <2>3 DEF DeletedIsQuiet, ActiveRuns, Made
  <1>4. CASE o.kind \notin Makers
    <2> SUFFICES ASSUME NEW q \in ActiveRuns' PROVE run'[q].session \notin deleted'
      BY DEF DeletedIsQuiet
    <2>1. /\ Made' = Made /\ q \in Requests /\ q \in Made /\ run'[q].state \in Active
          /\ run'[q].session = run[q].session
      BY <1>1, <1>4, CommitStates DEF ActiveRuns, Made
    <2>2. CASE o.kind = "delete"
      <3>1. run'[q].state = run[q].state
        BY <1>1, <1>4, <2>1, <2>2, CommitStates
      <3>2. q \notin RunsOf(o.session)
        BY <1>1, <2>1, <2>2, <3>1 DEF Locking, Found
      <3> QED
        BY <1>1, <1>2, <2>1, <2>2, <3>1, <3>2 DEF DeletedIsQuiet, ActiveRuns, RunsOf
    <2>3. CASE o.kind = "enqueue" /\ q = o.run
      BY <1>1, <1>2, <2>1, <2>3 DEF Locking, Found, Roles
    <2>4. CASE o.kind # "delete" /\ ~(o.kind = "enqueue" /\ q = o.run)
      <3>1. run'[q].state = run[q].state
        BY <1>1, <1>4, <2>1, <2>4, CommitStates DEF Active
      <3> QED
        BY <1>1, <1>2, <2>1, <2>4, <3>1 DEF DeletedIsQuiet, ActiveRuns
    <2> QED
      BY <2>2, <2>3, <2>4
  <1> QED
    BY <1>3, <1>4

LEMMA CommitFavorites ==
    ASSUME LInv, NEW a \in Actors, Commit(a), NEW s \in Sessions
    PROVE  /\ \A p, q \in FavoritesOf(s)' : p = q
           /\ \A q \in FavoritesOf(s)' \ revived' : run'[q].state = "completed"
  <1> PICK o : o = op[a]
    OBVIOUS
  <1>1. /\ IInv /\ TypeOK /\ Locking(a) /\ OpInv(a) /\ Statement(o) = "commit"
        /\ \A p, q \in FavoritesOf(s) : p = q
        /\ \A q \in FavoritesOf(s) \ revived : run[q].state = "completed"
    BY DEF LInv, RowsInv, IInv, Commit
  <1>2. CASE o.kind \in Makers
    <2>1. /\ a \in Requests /\ run'[a].favorite = FALSE
          /\ \A q \in Requests \ {a} : run'[q] = run[q]
          /\ revived' = revived
      BY <1>1, <1>2, NewRow DEF Commit, Makers
    <2>2. \A q \in FavoritesOf(s)' : q \in FavoritesOf(s) /\ run'[q] = run[q]
      BY <2>1 DEF FavoritesOf, RunsOf, Made
    <2> QED
      BY <1>1, <2>1, <2>2
  <1>3. CASE o.kind \notin Makers /\ o.kind # "select"
    <2>1. /\ \A q \in Requests : run'[q].session = run[q].session
          /\ \A q \in Requests : run'[q].favorite => run[q].favorite
      <3>1. CASE o.kind = "clear"
        <4> DEFINE kept(q) == (run[q].favorite /\ q \notin o.rows)
                              \/ (o.kind = "select" /\ q = o.run)
        <4>1. run' = [q \in Requests |-> [run[q] EXCEPT !.favorite = kept(q)]]
          BY <3>1 DEF Commit, Written
        <4>2. \A q \in Requests : kept(q) => run[q].favorite
          BY <3>1
        <4> HIDE DEF kept
        <4> QED
          BY <1>1, <4>1, <4>2 DEF TypeOK, Runs
      <3>2. CASE o.kind # "clear"
        <4>1. \/ run' = run
              \/ \E v \in {"queued", "completed", "failed"} :
                    run' = [run EXCEPT ![o.run].state = v]
          BY <1>3, <3>2 DEF Commit, Written, Makers
        <4> QED
          BY <1>1, <4>1 DEF TypeOK, Runs
      <3> QED
        BY <3>1, <3>2
    <2>2. /\ Made' = Made /\ revived \subseteq revived'
          /\ o.kind \in {"enqueue", "fail"} /\ run[o.run].state \in Terminal => o.run \in revived'
          /\ \A q \in Requests : run'[q].state = run[q].state
                \/ /\ q = o.run /\ o.kind \in {"enqueue", "complete", "fail"}
                   /\ o.kind = "complete" => run'[q].state = "completed"
      BY <1>1, <1>3, CommitStates
    <2>3. \A q \in FavoritesOf(s)' : q \in FavoritesOf(s) /\ q \in Requests
      BY <2>1, <2>2 DEF FavoritesOf, RunsOf, Made
    <2>4. ASSUME NEW q \in FavoritesOf(s)' \ revived' PROVE run'[q].state = "completed"
      <3>1. run[q].state = "completed" /\ q \in Requests
        BY <1>1, <2>2, <2>3
      <3>2. ~(q = o.run /\ o.kind \in {"enqueue", "fail"})
        BY <2>2, <3>1 DEF Terminal
      <3> QED
        BY <2>2, <3>1, <3>2
    <2> QED
      BY <1>1, <2>3, <2>4
  <1>4. CASE o.kind = "select"
    <2> DEFINE chosen(q) == (run[q].favorite /\ q \notin o.rows)
                            \/ (o.kind = "select" /\ q = o.run)
    <2>1. run' = [q \in Requests |-> [run[q] EXCEPT !.favorite = chosen(q)]]
      BY <1>4 DEF Commit, Written
    <2>2. \A q \in Requests : chosen(q) => q = o.run \/ (run[q].favorite /\ q \notin o.rows)
      OBVIOUS
    <2> HIDE DEF chosen
    <2>3. \A q \in Requests : /\ run'[q].session = run[q].session
                              /\ run'[q].state = run[q].state
                              /\ run'[q].favorite => chosen(q)
      BY <1>1, <2>1 DEF TypeOK, Runs
    <2>4. /\ FavoritesOf(o.session) \subseteq o.rows \cup {o.run}
          /\ run[o.run].session = o.session
          /\ run[o.run].state = "completed" \/ o.run \in revived
      BY <1>1, <1>4 DEF OpInv, Locking, Found
    <2>5. revived' = revived /\ Made' = Made
      BY <1>4, <2>3 DEF Commit, Made
    <2>6. \A q \in FavoritesOf(s)' :
             q \in Requests /\ (q = o.run \/ (q \in FavoritesOf(s) /\ q \notin o.rows))
      BY <2>2, <2>3, <2>5 DEF FavoritesOf, RunsOf, Made
    <2>7. o.run \in FavoritesOf(s)' => s = o.session
      BY <2>3, <2>4 DEF FavoritesOf, RunsOf, Made
    <2> QED
      BY <1>1, <2>3, <2>4, <2>5, <2>6, <2>7
  <1> QED
    BY <1>2, <1>3, <1>4

LEMMA CommitLocks ==
    ASSUME LInv, IInv', NEW a \in Actors, Commit(a)
    PROVE  LInv'
  <1>1. IInv /\ TypeOK /\ Locking(a) /\ OpInv(a)
    BY DEF LInv, IInv
  <1>2. Locking(a)'
    <2>1. \A x \in Locks : held'[x] # a
      BY <1>1, Releasing DEF Commit
    <2>2. op[a].kind = "complete" => a = Worker
      BY <1>1 DEF Locking, Roles, Actors, Makers
    <2>3. \/ op'[a] = Idle
          \/ op[a].kind = "complete" /\ op'[a] = Between("raised", op[a].session, op[a].run)
      BY <1>1 DEF Commit, TypeOK
    <2>4. /\ Between("raised", op[a].session, op[a].run).kind \in Outside
          /\ Between("raised", op[a].session, op[a].run).todo = {}
      BY DEF Between, Idle, Outside
    <2> QED
      BY <2>1, <2>2, <2>3, <2>4, EmptyHanded
  <1>3. RowsInv'
    BY CommitCapacity, CommitQuiet, CommitFavorites DEF RowsInv
  <1> QED
    BY <1>2, <1>3, CommitSpares DEF LInv

LEMMA NextLInv == LInv /\ [Next]_vars => LInv'
  <1> SUFFICES ASSUME LInv, [Next]_vars PROVE LInv'
    OBVIOUS
  <1>0. IInv'
    BY NextIInv DEF LInv
  <1>1. ASSUME NEW q \in Requests, NEW s \in Sessions, Create(q, s) PROVE LInv'
    BY <1>0, <1>1, CreateLocks
  <1>2. ASSUME NEW q \in Requests, NEW v \in Requests, Rerun(q, v) PROVE LInv'
    BY <1>0, <1>2, RerunLocks
  <1>3. ASSUME NEW q \in Requests, Enqueue(q) PROVE LInv'
    BY <1>0, <1>3, EnqueueLocks
  <1>4. ASSUME NEW q \in Requests, LoadFails(q) PROVE LInv'
    BY <1>0, <1>4, LoadFailsLocks
  <1>5. ASSUME NEW q \in Requests, Claim(q) PROVE LInv'
    BY <1>0, <1>5, ClaimLocks
  <1>6. ASSUME NEW q \in Requests, Recover(q) PROVE LInv'
    BY <1>0, <1>6, RecoverLocks
  <1>7. ASSUME NEW e \in Editors, NEW kind \in Kinds, NEW s \in Sessions,
               NEW q \in Requests \cup {NoOne}, Edit(e, kind, s, q)
        PROVE  LInv'
    BY <1>0, <1>7, EditLocks
  <1>8. ASSUME NEW kind \in Kinds, Finish(kind) PROVE LInv'
    BY <1>0, <1>8, FinishLocks
  <1>9. ASSUME NEW a \in Actors, Step(a) PROVE LInv'
    <2>1. CASE Acquire(a)
      BY <1>0, <2>1, AcquireLocks
    <2>2. CASE Pass(a)
      BY <1>0, <2>2, PassLocks
    <2>3. CASE ReadNumber(a)
      BY <1>0, <2>3, ReadNumberLocks
    <2>4. CASE Refuse(a)
      BY <1>0, <2>4, RollbackLocks DEF Refuse
    <2>5. CASE Conclude(a)
      BY <1>0, <2>5, NoCollision, CommitLocks DEF Conclude, LInv
    <2>6. CASE Abort(a)
      BY <1>0, <2>6, AbortLocks
    <2> QED
      BY <1>9, <2>1, <2>2, <2>3, <2>4, <2>5, <2>6 DEF Step
  <1>10. CASE UNCHANGED vars
    <2>1. /\ RowsInv' /\ Made' = Made /\ ActiveRuns' = ActiveRuns
          /\ \A s : RunsOf(s)' = RunsOf(s)
      BY <1>10 DEF vars, LInv, RowsInv, CapacityHeld, DeletedIsQuiet, FavoritesOf, RunsOf, Made,
                   ActiveRuns
    <2>2. ASSUME NEW b \in Actors PROVE Locking(b)'
      BY <1>10, <2>1 DEF vars, LInv, Locking, Roles, Waiting, Holding, Found
    <2> QED
      BY <1>0, <2>1, <2>2 DEF LInv
  <1> QED
    BY <1>1, <1>2, <1>3, <1>4, <1>5, <1>6, <1>7, <1>8, <1>9, <1>10 DEF Next, Done

-----------------------------------------------------------------------------
(* Statements past the first one.                                          *)
LEMMA PastFirst ==
    ASSUME NEW o \in Ops, Doing(o), o.at > 1
    PROVE  /\ Statement(o) \in {"session", "version", "number", "run", "runs", "favorites", "commit"}
           /\ o.kind = "enqueue" => Statement(o) = "commit"
           /\ Statement(o) = "version" => o.kind \in Makers
           /\ o.kind \in {"select", "clear", "delete", "hold"} =>
                 Statement(o) \in {"run", "runs", "favorites", "commit"}
  <1>1. o.at \in 2..5
    BY DEF Ops
  <1>2. o.kind \in {"create", "rerun", "enqueue", "complete", "fail", "select", "clear",
                   "delete", "hold"}
    BY DEF Doing, Statements
  <1> QED
    BY <1>1, <1>2, Table DEF Makers

(* Transactions that wait for each other.  Each of them is past its first  *)
(* statement, since another one waits for a row it has.                    *)
LEMMA Waiters ==
    ASSUME LInv, NEW S \in Cycles, NEW a \in S
    PROVE  /\ a \in Actors /\ op[a] \in Ops /\ Doing(op[a]) /\ op[a].at > 1
           /\ Statement(op[a]) \notin {"none", "number", "commit", "capacity"}
           /\ OpInv(a) /\ Locking(a)
           /\ \E b \in S : Waits(a, b)
           /\ \E b \in S : Waits(b, a)
  <1>1. /\ a \in Actors /\ op[a] \in Ops /\ op[a].todo # {} /\ OpInv(a) /\ Locking(a)
        /\ \E b \in S : Waits(a, b)
    BY DEF Cycles, Blocked, LInv, IInv, TypeOK
  <1>2. PICK b \in S : Waits(b, a)
    BY DEF Cycles
  <1>3. Statement(op[a]) \notin {"none", "number", "commit"}
    BY <1>1 DEF Locking, Waiting
  <1>4. Doing(op[a])
    BY <1>1, <1>3, Table DEF OpInv
  <1>5. PICK x \in op[b].todo : held[x] = a
    BY <1>2 DEF Waits
  <1>6. x \in Locks
    BY <1>5 DEF Cycles, Blocked, LInv, IInv, TypeOK, Ops
  <1>7. op[a].at > 1
    BY <1>1, <1>4, <1>5, <1>6 DEF Locking, Holding, OpInv, Ops
  <1>8. Statement(op[a]) # "capacity"
    BY <1>1, <1>4, <1>7, PastFirst
  <1> QED
    BY <1>1, <1>2, <1>3, <1>4, <1>7, <1>8

LEMMA NoRequestWaits ==
    ASSUME LInv, NEW S \in Cycles
    PROVE  S \cap Requests = {}
  <1> SUFFICES ASSUME NEW r \in S, r \in Requests PROVE FALSE
    OBVIOUS
  <1>1. /\ Doing(op[r]) /\ op[r].at > 1 /\ op[r] \in Ops /\ OpInv(r) /\ Locking(r)
        /\ Statement(op[r]) \notin {"none", "number", "commit", "capacity"}
    BY Waiters
  <1>2. op[r].kind \in Makers
    <2>1. op[r].kind = "enqueue" => Statement(op[r]) = "commit"
      BY <1>1, PastFirst
    <2>2. op[r].kind # "none"
      BY <1>1 DEF Doing, Statements
    <2> QED
      BY <1>1, <2>1, <2>2 DEF Locking, Roles
  <1>3. ~HasSession(op[r]) /\ held[<<"capacity", NoOne>>] = r
    BY <1>1, <1>2 DEF HasSession, Makers, Locking, Holding
  <1>4. PICK b \in S : Waits(b, r)
    BY Waiters
  <1>5. PICK x \in op[b].todo : held[x] = r
    BY <1>4 DEF Waits
  <1>6. /\ Doing(op[b]) /\ op[b].at > 1 /\ op[b] \in Ops /\ OpInv(b) /\ Locking(b) /\ b # r
        /\ Statement(op[b]) \notin {"none", "number", "commit", "capacity"}
    BY <1>4, Waiters DEF Waits
  <1>7. x[1] \in {"capacity", "version"}
    BY <1>1, <1>2, <1>3, <1>5, <1>6 DEF Locking, Holding, Ops
  <1>8. Statement(op[b]) = "version"
    <2>1. Statement(op[b]) # "session"
      BY <1>5, <1>6, <1>7 DEF OpInv
    <2>2. Statement(op[b]) \notin {"run", "runs", "favorites"}
      BY <1>5, <1>6, <1>7 DEF Locking, Waiting
    <2> QED
      BY <1>6, <2>1, <2>2, PastFirst
  <1>9. op[b].kind \in Makers
    BY <1>6, <1>8, PastFirst
  <1> QED
    BY <1>3, <1>6, <1>9 DEF Locking, Holding

(* An editor that waits has its session, and waits for a run of it.        *)
LEMMA WaitingEditor ==
    ASSUME LInv, NEW S \in Cycles, NEW e \in S, e \in Editors
    PROVE  /\ held[<<"session", op[e].session>>] = e
           /\ op[e].todo \subseteq {<<"run", q>> : q \in RunsOf(op[e].session)}
  <1>1. /\ Doing(op[e]) /\ op[e].at > 1 /\ op[e] \in Ops /\ OpInv(e) /\ Locking(e)
        /\ Statement(op[e]) \notin {"none", "number", "commit", "capacity"}
    BY Waiters
  <1>2. op[e].kind \in {"select", "clear", "delete", "hold"}
    BY <1>1 DEF Locking, Roles, Doing, Statements
  <1>3. Statement(op[e]) \in {"run", "runs", "favorites"}
    BY <1>1, <1>2, PastFirst
  <1> QED
    BY <1>1, <1>2, <1>3 DEF Locking, Holding, Waiting, OpInv, HasSession

LEMMA CyclesHaveTheWorker ==
    ASSUME LInv, NEW S \in Cycles
    PROVE  Worker \in S
  <1> SUFFICES ASSUME Worker \notin S PROVE FALSE
    OBVIOUS
  <1>1. S \subseteq Editors /\ S # {}
    BY NoRequestWaits DEF Cycles, Blocked, Actors
  <1>2. PICK a \in S : TRUE
    BY <1>1
  <1>3. PICK b \in S : Waits(a, b)
    BY Waiters
  <1>4. PICK x \in op[a].todo : held[x] = b
    BY <1>3 DEF Waits
  <1>5. PICK q \in RunsOf(op[a].session) : x = <<"run", q>>
    BY ZenonT(40), <1>1, <1>4, WaitingEditor
  <1>6. x \in Locks
    BY <1>5 DEF Locks, RunsOf, Made
  <1>7. q \in RunsOf(op[b].session)
    <2>1. Holding(b) /\ b \in Editors
      BY <1>1, Waiters DEF Locking
    <2>2. x \in {<<"session", op[b].session>>} \cup {<<"run", p>> : p \in RunsOf(op[b].session)}
      BY <1>4, <1>6, <2>1 DEF Holding
    <2> QED
      BY <1>5, <2>2
  <1>8. op[a].session = op[b].session
    BY <1>5, <1>7 DEF RunsOf
  <1> QED
    BY <1>1, <1>3, <1>8, WaitingEditor DEF Waits

-----------------------------------------------------------------------------
THEOREM LockInvariance == Spec => []LInv
  BY InitLInv, NextLInv, PTL DEF Spec

(* The queue never holds more active runs than it admits, those apart that *)
(* were put back after they had ended, although create and rerun count in  *)
(* one statement and insert in another.                                    *)
THEOREM QueueKeepsToCapacity == Spec => []CapacityHeld
  <1>1. LInv => CapacityHeld
    BY DEF LInv, RowsInv
  <1> QED
    BY <1>1, LockInvariance, PTL

(* No run of a deleted session is queued or running: not one made while    *)
(* the deletion looked, put back, claimed or recovered.                    *)
THEOREM DeletedSessionsAreQuiet == Spec => []DeletedIsQuiet
  <1>1. LInv => DeletedIsQuiet
    BY DEF LInv, RowsInv
  <1> QED
    BY <1>1, LockInvariance, PTL

(* Every session has at most one favorite, and it has completed unless it  *)
(* was put back or failed after its end.                                   *)
THEOREM OneCompletedFavorite == Spec => []FavoriteCompleted
  <1>1. LInv => FavoriteCompleted
    <2> SUFFICES ASSUME LInv, NEW s \in Sessions
                 PROVE  /\ Cardinality(FavoritesOf(s)) <= 1
                        /\ \A q \in FavoritesOf(s) \ revived : run[q].state = "completed"
      BY DEF FavoriteCompleted
    <2>1. /\ \A p, q \in FavoritesOf(s) : p = q
          /\ \A q \in FavoritesOf(s) \ revived : run[q].state = "completed"
      BY DEF LInv, RowsInv
    <2>2. CASE FavoritesOf(s) = {}
      BY <2>1, <2>2, FS_EmptySet
    <2>3. CASE FavoritesOf(s) # {}
      <3>1. PICK q : FavoritesOf(s) = {q}
        BY <2>1, <2>3
      <3>2. Cardinality({q}) = 1
        BY FS_Singleton
      <3> QED
        BY <2>1, <3>1, <3>2
    <2> QED
      BY <2>2, <2>3
  <1> QED
    BY <1>1, LockInvariance, PTL

(* A deadlock always has the worker that ends a run in it and an editor of *)
(* a session, and never a request for a run.                               *)
THEOREM DeadlocksAreEndings == Spec => []DeadlocksNeedAnEnding
  <1>1. LInv => DeadlocksNeedAnEnding
    <2> SUFFICES ASSUME LInv, NEW S \in Cycles
                 PROVE  /\ Worker \in S /\ op[Worker].kind \in {"complete", "fail"}
                        /\ S \cap Editors # {} /\ S \cap Requests = {}
      BY DEF DeadlocksNeedAnEnding
    <2>1. Worker \in S /\ S \cap Requests = {}
      BY CyclesHaveTheWorker, NoRequestWaits
    <2>2. op[Worker].kind \in {"complete", "fail"}
      <3>1. Doing(op[Worker]) /\ Locking(Worker)
        BY <2>1, Waiters
      <3> QED
        BY <3>1 DEF Locking, Roles, Doing, Statements, Outside
    <2>3. PICK b \in S : Waits(Worker, b)
      BY <2>1, Waiters
    <2>4. b \in Editors
      BY <2>1, <2>3, Waiters DEF Waits, Actors
    <2> QED
      BY <2>1, <2>2, <2>4
  <1> QED
    BY <1>1, LockInvariance, PTL

-----------------------------------------------------------------------------
(* What makes the transactions atomic: at its commit each still finds the  *)
(* rows as it has read them.  First the statements past which one has the  *)
(* row of its run.                                                         *)
HasRun(o) == \/ o.kind \in {"enqueue", "complete", "fail"} /\ o.at > 1
             \/ o.kind = "select" /\ Statement(o) \in {"favorites", "commit"}

Keeps(a) ==
    /\ op[a].kind \in Makers /\ Statement(op[a]) = "commit" =>
          op[a].seen \in Numbers /\ IsNext(op[a].seen, Given(op[a]))
    /\ op[a].kind \in {"enqueue", "complete", "fail"} \cup Outside =>
          run[op[a].run].session = op[a].session
    /\ op[a].kind = "clear" => op[a].run = NoOne
    /\ op[a].kind \in {"work", "complete"} => run[op[a].run].state \in Active
    /\ Statement(op[a]) = "run" /\ run[op[a].run].session = op[a].session =>
          <<"run", op[a].run>> \in op[a].todo \/ held[<<"run", op[a].run>>] = a
    /\ HasRun(op[a]) => held[<<"run", op[a].run>>] = a
    /\ op[a].kind \in {"enqueue", "complete", "fail", "select", "clear"} /\ op[a].at > 1 =>
          op[a].session \notin deleted
    /\ op[a].kind \in {"select", "clear"} /\ Statement(op[a]) \in {"favorites", "commit"} =>
          op[a].rows = FavoritesOf(op[a].session) \ {op[a].run}
    /\ op[a].kind = "select" /\ Statement(op[a]) \in {"favorites", "commit"} =>
          run[op[a].run].state = "completed"

SInv == LInv /\ \A a \in Actors : Keeps(a)

(* An actor that has no transaction.                                       *)
LEMMA IdleKeeps ==
    ASSUME NEW a \in Actors, op'[a] = Idle
    PROVE  Keeps(a)'
  <1>1. Idle.kind = "none" /\ Statement(Idle) = "none"
    BY DEF Idle, Statement, Statements
  <1>2. Statement(op'[a]) = "none" /\ op'[a].kind = "none"
    BY <1>1
  <1>3. op'[a].kind \notin Makers \cup Outside
    BY <1>2 DEF Makers, Outside
  <1> QED
    BY <1>2, <1>3 DEF Keeps, HasRun

LEMMA OutsideKeeps ==
    ASSUME NEW a \in Actors, NEW w, w = op'[a], w.kind \in Outside,
           run'[w.run].session = w.session,
           w.kind = "work" => run'[w.run].state \in Active
    PROVE  Keeps(a)'
  <1>1. Statement(w) = "none" /\ w.kind \in {"work", "raised"} /\ w.kind \notin Makers
    BY DEF Statement, Statements, Outside, Makers
  <1> QED
    BY <1>1 DEF Keeps, HasRun

(* An actor that a step does not move.                                     *)
LEMMA BystanderKeeps ==
    ASSUME NEW b \in Actors, NEW u, u = op[b], u = op'[b], u \in Ops, OpInv(b), Keeps(b),
           \A x \in Locks : held[x] = b => held'[x] = b,
           \A q \in Made : run'[q].session = run[q].session,
           u.kind \in Makers /\ HasSession(u) => Given(u)' = Given(u),
           u.kind \in {"work", "complete"} => run'[u.run].state \in Active,
           u.kind \in {"enqueue", "complete", "fail", "select", "clear"} /\ u.at > 1 =>
               u.session \notin deleted',
           u.kind \in {"select", "clear"} /\ HasSession(u) =>
               FavoritesOf(u.session)' = FavoritesOf(u.session),
           u.kind = "select" /\ Statement(u) \in {"favorites", "commit"} =>
               run'[u.run].state = "completed"
    PROVE  Keeps(b)'
  <1>0. Doing(u) => u.at >= 1
    BY DEF OpInv
  <1>1. Statement(u) = "run" \/ HasRun(u) => u.kind \in {"enqueue", "complete", "fail", "select"}
    BY <1>0, Table DEF HasRun
  <1>2. u.kind \in {"enqueue", "complete", "fail", "select"} \cup Outside => u.run \in Made
    BY DEF OpInv, Outside
  <1>3. u.run \in Made => /\ <<"run", u.run>> \in Locks
                          /\ run'[u.run].session = run[u.run].session
    BY DEF Made, Locks
  <1>4. u.kind \in {"select", "clear"} /\ Statement(u) \in {"favorites", "commit"} => HasSession(u)
    <2>1. u.kind \in {"select", "clear"} /\ Statement(u) \in {"favorites", "commit"} => u.at > 1
      BY <1>0, Table DEF Ops
    <2> QED
      BY <2>1 DEF HasSession
  <1>5. u.kind \in Makers /\ Statement(u) = "commit" => HasSession(u)
    BY DEF HasSession
  <1>6. /\ u.kind \in Makers /\ Statement(u) = "commit" =>
             u.seen \in Numbers /\ IsNext(u.seen, Given(u)')
        /\ u.kind \in {"select", "clear"} /\ Statement(u) \in {"favorites", "commit"} =>
             u.rows = FavoritesOf(u.session)' \ {u.run}
    BY <1>4, <1>5 DEF Keeps
  <1>7. /\ u.kind \in {"enqueue", "complete", "fail"} \cup Outside =>
             run'[u.run].session = u.session
        /\ Statement(u) = "run" /\ run'[u.run].session = u.session =>
             <<"run", u.run>> \in u.todo \/ held'[<<"run", u.run>>] = b
        /\ HasRun(u) => held'[<<"run", u.run>>] = b
    BY <1>1, <1>2, <1>3 DEF Keeps
  <1> QED
    BY <1>6, <1>7 DEF Keeps

(* A step that writes no row.                                              *)
LEMMA StillKeeps ==
    ASSUME SInv, LInv', NEW a \in Actors, Keeps(a)', UNCHANGED <<run, number, deleted>>,
           \A b \in Actors \ {a} : op'[b] = op[b],
           \A b \in Actors \ {a}, x \in Locks : held[x] = b => held'[x] = b
    PROVE  SInv'
  <1>1. /\ \A o : Given(o)' = Given(o)
        /\ \A s : FavoritesOf(s)' = FavoritesOf(s)
    BY SameRows
  <1>2. ASSUME NEW b \in Actors \ {a} PROVE Keeps(b)'
    <2>1. op[b] \in Ops /\ OpInv(b) /\ Keeps(b) /\ op'[b] = op[b]
      BY DEF SInv, LInv, IInv, TypeOK
    <2> QED
      BY <1>1, <2>1, BystanderKeeps DEF Keeps
  <1> QED
    BY <1>2 DEF SInv

(* The first statement of a transaction.                                   *)
LEMMA BeginKeeps ==
    ASSUME SInv, LInv', NEW a \in Actors, NEW kind \in DOMAIN Statements, NEW s \in Sessions,
           NEW q \in Requests \cup {NoOne}, Begin(a, kind, s, q),
           UNCHANGED <<run, number, deleted, held>>,
           kind \in {"enqueue", "complete", "fail", "select"} => q \in Made,
           kind = "rerun" => q \in Requests, kind = "clear" => q = NoOne,
           kind \in {"enqueue", "complete", "fail"} => run[q].session = s,
           kind = "complete" => run[q].state \in Active
    PROVE  SInv'
  <1> DEFINE o == First(kind, s, q)
  <1> PICK i : i = op'[a]
    OBVIOUS
  <1>1. o \in Ops /\ Doing(o) /\ o.kind = kind /\ o.at = 1 /\ o.session = s /\ o.run = q
    BY Records DEF Doing, Kinds
  <1>2. op'[a] = Issued(o) /\ \A b \in Actors \ {a} : op'[b] = op[b]
    BY DEF Begin, SInv, LInv, IInv, TypeOK
  <1> HIDE DEF o
  <1>3. o.kind \in {"rerun", "enqueue", "complete", "fail", "select"} => o.run \in Requests
    BY <1>1 DEF Made
  <1>4. /\ i \in Ops /\ i.kind = kind /\ i.at = 1 /\ i.session = s /\ i.run = q
        /\ Doing(i)
    BY <1>1, <1>2, <1>3, IssuedFacts DEF SInv, LInv, IInv, Doing
  <1>5. Fresh(i)
    BY <1>1, <1>2, <1>3, IssuedIsFresh DEF SInv, LInv, IInv
  <1>6. /\ Statement(i) \notin {"commit", "favorites"} /\ ~HasRun(i)
        /\ i.kind \notin Outside
    BY <1>4, Table DEF HasRun, Outside
  <1>7. Statement(i) = "run" /\ run[q].session = s => <<"run", q>> \in i.todo
    BY <1>4, <1>5 DEF Fresh
  <1>8. Keeps(a)'
    BY <1>4, <1>6, <1>7 DEF Keeps, Outside
  <1> QED
    BY <1>2, <1>8, StillKeeps

LEMMA CreateKeeps ==
    ASSUME SInv, LInv', NEW q \in Requests, NEW s \in Sessions, Create(q, s)
    PROVE  SInv'
  <1>1. q \in Actors /\ "create" \in DOMAIN Statements
    BY DEF Actors, Statements
  <1> QED
    BY <1>1, BeginKeeps DEF Create

LEMMA RerunKeeps ==
    ASSUME SInv, LInv', NEW q \in Requests, NEW v \in Requests, Rerun(q, v)
    PROVE  SInv'
  <1>1. q \in Actors /\ "rerun" \in DOMAIN Statements
    BY DEF Actors, Statements
  <1>2. run[v].session \in Sessions
    BY DEF Rerun, SInv, LInv, IInv, RowInv
  <1> QED
    BY <1>1, <1>2, BeginKeeps DEF Rerun

LEMMA EditKeeps ==
    ASSUME SInv, LInv', NEW e \in Editors, NEW kind \in Kinds, NEW s \in Sessions,
           NEW q \in Requests \cup {NoOne}, Edit(e, kind, s, q)
    PROVE  SInv'
  <1>1. e \in Actors /\ kind \in DOMAIN Statements /\ kind \in {"select", "clear", "delete", "hold"}
    BY DEF Edit, Actors, Statements
  <1>2. (kind = "select" => q \in Made) /\ (kind = "clear" => q = NoOne)
    BY DEF Edit
  <1> QED
    BY <1>1, <1>2, BeginKeeps DEF Edit

LEMMA FinishKeeps ==
    ASSUME SInv, LInv', NEW kind \in Kinds, Finish(kind)
    PROVE  SInv'
  <1>1. Worker \in Actors /\ kind \in DOMAIN Statements /\ kind \in {"complete", "fail"}
    BY DEF Finish, Actors, Statements
  <1>2. op[Worker].kind \in Outside /\ (kind = "complete" => op[Worker].kind = "work")
    BY DEF Finish, Outside
  <1>3. op[Worker].session \in Sessions /\ op[Worker].run \in Made /\ op[Worker].run \in Requests
    BY <1>1, <1>2 DEF SInv, LInv, IInv, OpInv, Made, Outside
  <1>4. /\ run[op[Worker].run].session = op[Worker].session
        /\ kind = "complete" => run[op[Worker].run].state \in Active
    BY <1>1, <1>2 DEF SInv, Keeps
  <1> QED
    BY <1>1, <1>3, <1>4, BeginKeeps DEF Finish

LEMMA EnqueueKeeps ==
    ASSUME SInv, LInv', NEW q \in Requests, Enqueue(q)
    PROVE  SInv'
  <1>1. q \in Actors /\ "enqueue" \in DOMAIN Statements
    BY DEF Actors, Statements
  <1>2. CASE Begin(q, "enqueue", run[q].session, q) /\ run[q].state = "running"
    <2>1. q \in Made /\ run[q].session \in Sessions
      BY <1>2 DEF Made, SInv, LInv, IInv, RowInv
    <2> QED
      BY <1>1, <1>2, <2>1, BeginKeeps DEF Enqueue
  <1>3. CASE UNCHANGED op
    <2>1. Keeps(q)'
      BY <1>1, <1>3, IdleKeeps DEF Enqueue
    <2> QED
      BY <1>1, <1>3, <2>1, StillKeeps DEF Enqueue
  <1> QED
    BY <1>2, <1>3 DEF Enqueue

LEMMA LoadFailsKeeps ==
    ASSUME SInv, LInv', NEW q \in Requests, LoadFails(q)
    PROVE  SInv'
  <1>1. q \in Actors /\ Keeps(q)'
    BY IdleKeeps DEF LoadFails, Actors
  <1> QED
    BY <1>1, StillKeeps DEF LoadFails

LEMMA RollbackKeeps ==
    ASSUME SInv, LInv', NEW a \in Actors, NEW v \in {"error"}, Rollback(a, v)
    PROVE  SInv'
  <1>1. op'[a] = Idle /\ \A b \in Actors \ {a} : op'[b] = op[b]
    BY DEF Rollback, SInv, LInv, IInv, TypeOK
  <1>2. Keeps(a)'
    BY <1>1, IdleKeeps
  <1>3. \A b \in Actors \ {a}, x \in Locks : held'[x] = b <=> held[x] = b
    BY Releasing DEF Rollback, SInv, LInv, IInv
  <1> QED
    BY <1>1, <1>2, <1>3, StillKeeps DEF Rollback

LEMMA AbortKeeps ==
    ASSUME SInv, LInv', NEW a \in Actors, Abort(a)
    PROVE  SInv'
  <1>1. CASE op[a].kind = "complete"
    <2> DEFINE w == Between("raised", op[a].session, op[a].run)
    <2>1. op'[a] = w /\ \A b \in Actors \ {a} : op'[b] = op[b]
      BY <1>1 DEF Abort, SInv, LInv, IInv, TypeOK
    <2>2. w.kind = "raised" /\ w.session = op[a].session /\ w.run = op[a].run
      BY DEF Between, Idle
    <2> HIDE DEF w
    <2>3. run'[w.run].session = w.session /\ UNCHANGED <<run, number, deleted>>
      BY <1>1, <2>2 DEF Abort, SInv, Keeps
    <2>4. Keeps(a)'
      BY <2>1, <2>2, <2>3, OutsideKeeps DEF Outside
    <2>5. \A b \in Actors \ {a}, x \in Locks : held'[x] = b <=> held[x] = b
      BY <1>1, Releasing DEF Abort, SInv, LInv, IInv
    <2> QED
      BY <2>1, <2>3, <2>4, <2>5, StillKeeps
  <1> QED
    BY <1>1, RollbackKeeps DEF Abort

LEMMA AcquireKeeps ==
    ASSUME SInv, LInv', NEW a \in Actors, Acquire(a)
    PROVE  SInv'
  <1>0. PICK x \in op[a].todo :
            /\ op[a].todo # {x} /\ held[x] = NoOne
            /\ held' = [held EXCEPT ![x] = a]
            /\ op' = [op EXCEPT ![a].todo = @ \ {x}]
    BY DEF Acquire
  <1> DEFINE o == op[a]
  <1> PICK i : i = op'[a]
    OBVIOUS
  <1>1. TypeOK /\ OpInv(a) /\ Keeps(a) /\ o \in Ops /\ x \in Locks /\ NoOne \notin Actors
    BY <1>0, ActorsAssumption DEF SInv, LInv, IInv, TypeOK, Ops
  <1>2. /\ i.todo = o.todo \ {x} /\ i.kind = o.kind /\ i.at = o.at /\ i.session = o.session
        /\ i.run = o.run /\ i.rows = o.rows /\ i.seen = o.seen
        /\ \A b \in Actors \ {a} : op'[b] = op[b]
    BY <1>0, <1>1 DEF Ops, TypeOK
  <1>3. /\ held'[x] = a
        /\ \A y \in Locks \ {x} : held'[y] = held[y]
        /\ \A b \in Actors \ {a}, y \in Locks : held[y] = b => held'[y] = b
    BY <1>0, <1>1 DEF TypeOK
  <1>4. Statement(i) = Statement(o) /\ (HasRun(i) <=> HasRun(o))
    BY <1>2 DEF Statement, HasRun
  <1>5. Given(i)' = Given(o) /\ FavoritesOf(i.session)' = FavoritesOf(o.session)
    <2>1. \A z : Given(z)' = Given(z) /\ FavoritesOf(z)' = FavoritesOf(z)
      BY SameRows DEF Acquire
    <2>2. Given(i) = Given(o)
      BY <1>2 DEF Given
    <2> QED
      BY <1>2, <2>1, <2>2
  <1>6. \A y \in Locks : held[y] = a => held'[y] = a
    BY <1>3
  <1>7. Statement(o) = "run" \/ HasRun(o) => <<"run", o.run>> \in Locks
    <2>1. Statement(o) = "run" \/ HasRun(o) => o.kind \in {"enqueue", "complete", "fail", "select"}
      BY <1>1, Table DEF HasRun, OpInv
    <2> QED
      BY <1>1, <2>1 DEF OpInv, Made, Locks
  <1>8. UNCHANGED <<run, number, deleted>>
    BY DEF Acquire
  <1>9. /\ Statement(o) = "run" /\ run[o.run].session = o.session =>
             <<"run", o.run>> \in i.todo \/ held'[<<"run", o.run>>] = a
        /\ HasRun(o) => held'[<<"run", o.run>>] = a
    BY <1>1, <1>2, <1>3, <1>6, <1>7 DEF Keeps
  <1>10. Keeps(a)'
    BY <1>1, <1>2, <1>4, <1>5, <1>8, <1>9 DEF Keeps
  <1> QED
    BY <1>2, <1>3, <1>8, <1>10, StillKeeps

LEMMA PassKeeps ==
    ASSUME SInv, LInv', NEW a \in Actors, Pass(a)
    PROVE  SInv'
  <1> DEFINE o == op[a]
  <1> PICK i : i = op'[a]
    OBVIOUS
  <1>1. /\ IInv /\ TypeOK /\ OpInv(a) /\ Locking(a) /\ Keeps(a) /\ o \in Ops
        /\ NoOne \notin Actors
    BY ActorsAssumption DEF SInv, LInv, IInv, TypeOK
  <1>2. /\ Doing(o) /\ Statement(o) \notin {"none", "number", "commit"}
        /\ \A x \in o.todo : held[x] = NoOne
    BY <1>1, Table DEF Pass, Returns, OpInv
  <1>3. /\ i \in Ops /\ Fresh(i) /\ Doing(i)
        /\ i.kind = o.kind /\ i.session = o.session /\ i.run = o.run
        /\ o.at \in 1..4 /\ i.at = o.at + 1
        /\ Statement(i) = "commit" => i.rows = o.rows
        /\ Statement(i) = "favorites" => i.rows = FavoritesOf(i.session) \ {i.run}
        /\ \A b \in Actors \ {a} : op'[b] = op[b]
    <2>1. o.seen \in {0} \cup Numbers /\ Advance(a, o.seen) /\ Statement(o) # "commit"
      BY <1>1, <1>2 DEF Ops, Pass
    <2>2. PICK n \in {0} \cup Numbers : Advance(a, n)
      BY <2>1
    <2> HIDE DEF o
    <2> QED
      BY <1>1, <1>2, <2>1, <2>2, NextStatement DEF o
  <1>4. /\ ~Refused(o) /\ held' = [x \in Locks |-> IF x \in o.todo THEN a ELSE held[x]]
        /\ UNCHANGED <<run, number, deleted>>
    BY DEF Pass
  <1>5. /\ \A x \in Locks : x \in o.todo \/ held[x] = a => held'[x] = a
        /\ \A b \in Actors \ {a}, x \in Locks : held[x] = b => held'[x] = b
    BY <1>1, <1>2, <1>4
  <1>6. \A s : FavoritesOf(s)' = FavoritesOf(s)
    BY <1>4, SameRows
  <1>7. o.kind \in {"enqueue", "complete", "fail", "select"} =>
           o.run \in Made /\ <<"run", o.run>> \in Locks
    BY <1>1 DEF OpInv, Made, Locks
  <1>8. Statement(o) = "run" => /\ run[o.run].session \notin deleted
                                /\ o.kind = "select" => /\ run[o.run].session = o.session
                                                        /\ run[o.run].state = "completed"
    BY <1>4 DEF Refused
  <1>9. HasRun(i) => held'[<<"run", i.run>>] = a
    <2>1. CASE o.kind \in {"enqueue", "complete", "fail"}
      <3>1. o.at = 1 => Statement(o) = "run"
        BY <1>1, <1>2, <2>1, Table DEF OpInv
      <3>2. run[o.run].session = o.session
        BY <1>1, <2>1 DEF Keeps
      <3>3. o.at > 1 => held[<<"run", o.run>>] = a
        BY <1>1, <2>1 DEF Keeps, HasRun
      <3>4. <<"run", o.run>> \in o.todo \/ held[<<"run", o.run>>] = a
        BY <1>1, <1>3, <3>1, <3>2, <3>3 DEF Keeps
      <3> QED
        BY <1>3, <1>5, <1>7, <2>1, <3>4
    <2>2. CASE o.kind = "select" /\ Statement(i) \in {"favorites", "commit"}
      <3>1. Statement(o) \in {"run", "favorites"}
        BY <1>1, <1>2, <1>3, <2>2, Before
      <3>2. <<"run", o.run>> \in o.todo \/ held[<<"run", o.run>>] = a
        BY <1>1, <1>8, <2>2, <3>1 DEF Keeps, HasRun
      <3> QED
        BY <1>3, <1>5, <1>7, <2>2, <3>2
    <2> QED
      BY <1>3, <2>1, <2>2 DEF HasRun
  <1>10. o.kind \in {"enqueue", "complete", "fail", "select", "clear"} => o.session \notin deleted
    <2>1. CASE o.at > 1
      BY <1>1, <2>1 DEF Keeps
    <2>2. CASE o.kind \in {"enqueue", "complete", "fail"} /\ o.at = 1
      <3>1. Statement(o) = "run"
        BY <1>1, <1>2, <2>2, Table DEF OpInv
      <3> QED
        BY <1>1, <1>8, <2>2, <3>1 DEF Keeps
    <2>3. CASE o.kind \in {"select", "clear"} /\ o.at = 1
      <3>1. Statement(o) = "session"
        BY <1>1, <1>2, <2>3, Table DEF OpInv
      <3> QED
        BY <1>4, <2>3, <3>1 DEF Refused
    <2> QED
      BY <1>3, <2>1, <2>2, <2>3
  <1>11. o.kind \in {"select", "clear"} /\ Statement(i) \in {"favorites", "commit"} =>
           i.rows = FavoritesOf(i.session)' \ {i.run}
    <2>1. o.kind \in {"select", "clear"} /\ Statement(i) = "commit" => Statement(o) = "favorites"
      BY <1>1, <1>2, <1>3, Table
    <2>2. o.kind \in {"select", "clear"} /\ Statement(i) = "commit" =>
             i.rows = FavoritesOf(i.session) \ {i.run}
      BY <1>1, <1>3, <2>1 DEF Keeps
    <2> QED
      BY <1>3, <1>6, <2>2
  <1>12. o.kind = "select" /\ Statement(i) \in {"favorites", "commit"} =>
           run[o.run].state = "completed"
    <2>1. o.kind = "select" /\ Statement(i) \in {"favorites", "commit"} =>
             Statement(o) \in {"run", "favorites"}
      BY <1>1, <1>2, <1>3, Before
    <2> QED
      BY <1>1, <1>8, <2>1 DEF Keeps
  <1>13. ~(o.kind \in Makers /\ Statement(i) = "commit")
    BY <1>1, <1>2, <1>3, Before
  <1>14. Statement(i) = "run" /\ run[i.run].session = i.session => <<"run", i.run>> \in i.todo
    BY <1>3 DEF Fresh
  <1>15. /\ o.kind \in {"enqueue", "complete", "fail"} \cup Outside => run[o.run].session = o.session
         /\ o.kind \in {"work", "complete"} => run[o.run].state \in Active
         /\ o.kind = "clear" => o.run = NoOne
    BY <1>1 DEF Keeps
  <1>16. Keeps(a)'
    BY <1>3, <1>4, <1>9, <1>10, <1>11, <1>12, <1>13, <1>14, <1>15 DEF Keeps
  <1> QED
    BY <1>3, <1>4, <1>5, <1>16, StillKeeps

LEMMA ReadNumberKeeps ==
    ASSUME SInv, LInv', NEW a \in Actors, ReadNumber(a)
    PROVE  SInv'
  <1> DEFINE o == op[a]
  <1> PICK i : i = op'[a]
    OBVIOUS
  <1>1. IInv /\ TypeOK /\ OpInv(a) /\ o \in Ops
    BY DEF SInv, LInv, IInv, TypeOK
  <1>2. Doing(o) /\ o.kind \in Makers
    BY <1>1, Table DEF ReadNumber, OpInv, Makers
  <1>3. PICK n \in Numbers : IsNext(n, Given(o)) /\ Advance(a, n)
    BY DEF ReadNumber
  <1>4. /\ i \in Ops /\ i.seen = n /\ Doing(i)
        /\ i.kind = o.kind /\ i.session = o.session /\ i.run = o.run
        /\ o.at \in 1..4 /\ i.at = o.at + 1
        /\ \A b \in Actors \ {a} : op'[b] = op[b]
    <2>1. Statement(o) # "commit" /\ n \in {0} \cup Numbers
      BY DEF ReadNumber
    <2> HIDE DEF o
    <2> QED
      BY <1>1, <1>2, <1>3, <2>1, NextStatement DEF o
  <1>5. Given(i)' = Given(o) /\ UNCHANGED <<run, number, deleted, held>>
    <2>1. \A z : Given(z)' = Given(z)
      BY SameRows DEF ReadNumber
    <2>2. Given(i) = Given(o)
      BY <1>4 DEF Given
    <2> QED
      BY <2>1, <2>2 DEF ReadNumber
  <1>6. /\ i.kind \notin {"enqueue", "complete", "fail", "work", "select", "clear"} \cup Outside
        /\ Statement(i) # "run"
    BY <1>2, <1>4, Table DEF Makers, Outside
  <1>7. Keeps(a)'
    BY <1>3, <1>4, <1>5, <1>6 DEF Keeps, HasRun
  <1> QED
    BY <1>4, <1>5, <1>7, StillKeeps

(* The worker takes a run, or puts one back: one that nobody has.          *)
LEMMA TakingKeeps ==
    ASSUME SInv, LInv', NEW q \in Requests, Lockable(q), NEW v \in Active,
           run[q].state \in Active, run' = [run EXCEPT ![q].state = v],
           UNCHANGED <<number, deleted, held>>, Keeps(Worker)',
           \A b \in Actors \ {Worker} : op'[b] = op[b]
    PROVE  SInv'
  <1>1. TypeOK /\ NoOne \notin Actors
    BY ActorsAssumption DEF SInv, LInv, IInv
  <1>2. \A p \in Requests : /\ run'[p].session = run[p].session
                            /\ run'[p].version = run[p].version
                            /\ run'[p].attempt = run[p].attempt
                            /\ run'[p].favorite = run[p].favorite
                            /\ run'[p].state = IF p = q THEN v ELSE run[p].state
    BY <1>1 DEF TypeOK, Runs
  <1>3. /\ \A z : Given(z)' = Given(z)
        /\ \A s : FavoritesOf(s)' = FavoritesOf(s)
    <2>1. \A p \in Requests : run'[p].state = "absent" <=> run[p].state = "absent"
      BY <1>2 DEF Active
    <2> QED
      BY <1>2, <2>1, SameRows
  <1>4. ASSUME NEW b \in Actors \ {Worker} PROVE Keeps(b)'
    <2> PICK u : u = op[b]
      OBVIOUS
    <2>1. /\ u \in Ops /\ u = op'[b] /\ OpInv(b) /\ Keeps(b) /\ Locking(b)
      BY DEF SInv, LInv, IInv, TypeOK
    <2>2. u.kind \notin {"work", "complete"}
      BY <2>1 DEF Locking, Roles, Actors, Makers
    <2>3. u.kind = "select" /\ Statement(u) \in {"favorites", "commit"} =>
             run'[u.run].state = "completed"
      <3>1. u.kind = "select" => u.run \in Requests
        BY <2>1 DEF OpInv, Made
      <3>2. u.kind = "select" /\ Statement(u) \in {"favorites", "commit"} =>
               run[u.run].state = "completed" /\ u.run # q
        BY <1>1, <2>1 DEF Keeps, HasRun, Lockable
      <3> QED
        BY <1>2, <3>1, <3>2
    <2>4. \A p \in Made : run'[p].session = run[p].session
      BY <1>2 DEF Made
    <2>5. u.kind \in {"enqueue", "complete", "fail", "select", "clear"} /\ u.at > 1 =>
             u.session \notin deleted'
      BY <2>1 DEF Keeps
    <2> QED
      BY <1>3, <2>1, <2>2, <2>3, <2>4, <2>5, BystanderKeeps
  <1> QED
    BY <1>4 DEF SInv

LEMMA ClaimKeeps ==
    ASSUME SInv, LInv', NEW q \in Requests, Claim(q)
    PROVE  SInv'
  <1> DEFINE w == Between("work", run[q].session, q)
  <1>1. /\ Worker \in Actors /\ op'[Worker] = w
        /\ \A b \in Actors \ {Worker} : op'[b] = op[b]
    BY DEF Actors, Claim, SInv, LInv, IInv, TypeOK
  <1>2. w.kind = "work" /\ w.session = run[q].session /\ w.run = q
    BY DEF Between, Idle
  <1> HIDE DEF w
  <1>3. run'[q].session = run[q].session /\ run'[q].state = "running"
    BY DEF Claim, SInv, LInv, IInv, TypeOK, Runs
  <1>4. Keeps(Worker)'
    BY <1>1, <1>2, <1>3, OutsideKeeps DEF Outside, Active
  <1>5. "running" \in Active /\ run[q].state \in Active
    BY DEF Claim, Active
  <1> QED
    BY <1>1, <1>4, <1>5, TakingKeeps DEF Claim

LEMMA RecoverKeeps ==
    ASSUME SInv, LInv', NEW q \in Requests, Recover(q)
    PROVE  SInv'
  <1>1. Worker \in Actors /\ op'[Worker] = Idle
    BY DEF Actors, Recover
  <1>2. Keeps(Worker)'
    BY <1>1, IdleKeeps
  <1>3. "queued" \in Active /\ run[q].state \in Active
    BY DEF Recover, Active
  <1> QED
    BY <1>2, <1>3, TakingKeeps DEF Recover

(* A commit of select_favorite or clear_favorite marks the run that is     *)
(* chosen, of the session's runs no other, and leaves the other rows.      *)
LEMMA MarkedRows ==
    ASSUME SInv, NEW a \in Actors, Commit(a), NEW o, o = op[a], o.kind \in {"select", "clear"}
    PROVE  /\ UNCHANGED <<number, deleted, revived>>
           /\ run' = [q \in Requests |->
                         IF q \in RunsOf(o.session)
                         THEN [run[q] EXCEPT !.favorite = (o.kind = "select" /\ q = o.run)]
                         ELSE run[q]]
           /\ \A s \in Sessions \ {o.session} : FavoritesOf(s)' = FavoritesOf(s)
  <1>1. TypeOK /\ OpInv(a) /\ Keeps(a) /\ Statement(o) = "commit"
    BY DEF SInv, LInv, IInv, Commit
  <1>2. o.rows = FavoritesOf(o.session) \ {o.run}
    BY <1>1 DEF Keeps
  <1>3. o.kind = "select" => o.run \in RunsOf(o.session)
    BY <1>1 DEF OpInv, RunsOf
  <1>4. o.kind = "clear" => o.run \notin Requests
    BY <1>1, ActorsAssumption DEF Keeps, Actors
  <1> DEFINE chosen(q) == (run[q].favorite /\ q \notin o.rows)
                          \/ (o.kind = "select" /\ q = o.run)
             marked(q) == o.kind = "select" /\ q = o.run
  <1>5. /\ run' = [q \in Requests |-> [run[q] EXCEPT !.favorite = chosen(q)]]
        /\ UNCHANGED <<number, deleted, revived>>
    BY DEF Commit, Written
  <1>6. ASSUME NEW q \in Requests
        PROVE  [run[q] EXCEPT !.favorite = chosen(q)] =
                  IF q \in RunsOf(o.session) THEN [run[q] EXCEPT !.favorite = marked(q)] ELSE run[q]
    <2>1. run[q] \in Runs /\ run[q].favorite \in BOOLEAN
      BY <1>1 DEF TypeOK, Runs
    <2>2. CASE q \in RunsOf(o.session)
      <3>1. q \in o.rows <=> run[q].favorite /\ q # o.run
        BY <1>2, <2>2 DEF FavoritesOf
      <3>2. chosen(q) <=> marked(q)
        BY <1>4, <3>1
      <3>3. chosen(q) = marked(q)
        BY <3>2
      <3> HIDE DEF chosen, marked
      <3> QED
        BY <2>2, <3>3
    <2>3. CASE q \notin RunsOf(o.session)
      <3>1. q \notin o.rows /\ ~marked(q)
        BY <1>2, <1>3, <2>3 DEF FavoritesOf
      <3>2. chosen(q) = run[q].favorite
        BY <2>1, <3>1
      <3> HIDE DEF chosen, marked
      <3> QED
        BY <2>1, <2>3, <3>2 DEF Runs
    <2> QED
      BY <2>2, <2>3
  <1>7. run' = [q \in Requests |->
                   IF q \in RunsOf(o.session) THEN [run[q] EXCEPT !.favorite = marked(q)] ELSE run[q]]
    <2> HIDE DEF chosen, marked
    <2> QED
      BY <1>5, <1>6
  <1>8. ASSUME NEW s \in Sessions \ {o.session} PROVE FavoritesOf(s)' = FavoritesOf(s)
    <2> HIDE DEF chosen, marked
    <2>1. \A q \in Requests : /\ run'[q].session = run[q].session
                              /\ run'[q].state = run[q].state
                              /\ run[q].session = s => run'[q] = run[q]
      BY <1>1, <1>7 DEF TypeOK, Runs, RunsOf
    <2> QED
      BY <2>1 DEF FavoritesOf, RunsOf, Made
  <1> QED
    BY <1>5, <1>7, <1>8

(* A commit of any other kind moves no favorite.                           *)
LEMMA SameFavorites ==
    ASSUME IInv, NEW a \in Actors, Commit(a), op[a].kind \notin {"select", "clear"}, NEW s
    PROVE  FavoritesOf(s)' = FavoritesOf(s)
  <1>1. CASE op[a].kind \in Makers
    <2>1. /\ a \in Requests /\ a \notin Made /\ run'[a].favorite = FALSE
          /\ \A q \in Requests \ {a} : run'[q] = run[q]
      BY <1>1, NewRow
    <2> QED
      BY <2>1 DEF FavoritesOf, RunsOf, Made
  <1>2. CASE op[a].kind \notin Makers
    BY <1>2, PlainRows, SameRows DEF Commit, Makers
  <1> QED
    BY <1>1, <1>2

(* What another transaction has read is not changed by the commit of one.  *)
LEMMA CommitKeeps ==
    ASSUME SInv, NEW a \in Actors, Commit(a), NEW b \in Actors \ {a}
    PROVE  Keeps(b)'
  <1> PICK o : o = op[a]
    OBVIOUS
  <1> PICK u : u = op[b]
    OBVIOUS
  <1>1. /\ IInv /\ TypeOK /\ OpInv(a) /\ OpInv(b) /\ Locking(a) /\ Locking(b)
        /\ Keeps(a) /\ Keeps(b)
        /\ o \in Ops /\ u \in Ops /\ Statement(o) = "commit"
    BY DEF SInv, LInv, IInv, TypeOK, Commit
  <1>2. o.at > 1 /\ o.todo = {} /\ (o.kind \in Makers \cup {"select", "clear"} => HasSession(o))
    <2>1. Doing(o)
      BY <1>1 DEF Statement, Doing
    <2>2. o.at > 1
      BY <1>1, <2>1, Table DEF OpInv, Ops
    <2> QED
      BY <1>1, <2>2 DEF Locking, Waiting, HasSession
  <1>3. u = op'[b] /\ \A x \in Locks : held[x] = b => held'[x] = b
    BY <1>1, Releasing DEF Commit, TypeOK
  <1>4. /\ \A q \in Made : run'[q].session = run[q].session
        /\ \A q \in Made : run'[q].state = run[q].state
              \/ /\ q = o.run /\ o.kind \in {"enqueue", "complete", "fail"}
                 /\ o.kind = "enqueue" => run'[q].state = "queued"
    <2>1. CASE o.kind \in Makers
      <3>1. a \notin Made /\ \A q \in Requests \ {a} : run'[q] = run[q]
        BY <1>1, <2>1, NewRow
      <3> QED
        BY <3>1 DEF Made
    <2>2. CASE o.kind \notin Makers
      BY <1>1, <2>2, CommitStates DEF Made
    <2> QED
      BY <2>1, <2>2
  <1>5. HasSession(u) => /\ u.session \in Sessions /\ held[<<"session", u.session>>] = b
                         /\ HasSession(o) => u.session \in Sessions \ {o.session}
    BY <1>1 DEF OpInv, HasSession, Makers
  <1>6. u.kind \in Makers /\ HasSession(u) => Given(u)' = Given(u)
    <2>1. CASE o.kind \notin Makers \cup {"select", "clear"}
      BY <2>1, <1>1, PlainRows, SameRows DEF Commit
    <2>2. CASE o.kind \in Makers \cup {"select", "clear"} /\ u.kind = "create"
      <3>1. HasSession(u) => /\ VersionsOf(u.session)' = VersionsOf(u.session)
                             /\ {number'[q] : q \in VersionsOf(u.session)}
                                  = {number[q] : q \in VersionsOf(u.session)}
        BY <1>1, <1>2, <1>5, <2>2, ElsewhereSame
      <3> QED
        BY <2>2, <3>1 DEF Given
    <2>3. CASE o.kind \in Makers \cup {"select", "clear"} /\ u.kind = "rerun"
      <3>1. u.run \in Requests /\ number[u.run] # 0 /\ u.session = run[u.run].session
        BY <1>1, <2>3 DEF OpInv
      <3>2. HasSession(u) => {run'[q].attempt : q \in {p \in Made' : run'[p].version = u.run}}
                               = {run[q].attempt : q \in {p \in Made : run[p].version = u.run}}
        BY <1>1, <1>2, <1>5, <2>3, <3>1, ElsewhereSame
      <3> QED
        BY <2>3, <3>2 DEF Given
    <2> QED
      BY <2>1, <2>2, <2>3 DEF Makers
  <1>7. u.kind \in {"work", "complete"} => run'[u.run].state \in Active
    <2> SUFFICES ASSUME u.kind \in {"work", "complete"} PROVE run'[u.run].state \in Active
      OBVIOUS
    <2>1. b = Worker /\ u.run \in Made /\ run[u.run].state \in Active
      BY <1>1 DEF Locking, Roles, Actors, Makers, OpInv, Keeps
    <2>2. o.kind \notin {"complete", "fail"}
      BY <1>1, <2>1 DEF Locking, Roles, Actors, Makers
    <2> QED
      BY <1>4, <2>1, <2>2 DEF Active
  <1>8. HasRun(u) /\ u.kind # "select" => u.run \in Made /\ run[u.run].session = u.session
    BY <1>1 DEF HasRun, OpInv, Keeps
  <1>9. u.kind \in {"enqueue", "complete", "fail", "select", "clear"} /\ u.at > 1 =>
           u.session \notin deleted'
    <2> SUFFICES ASSUME u.kind \in {"enqueue", "complete", "fail", "select", "clear"}, u.at > 1,
                        o.kind = "delete", u.session = o.session
                 PROVE  FALSE
      BY <1>1 DEF Keeps, Commit
    <2>1. CASE u.kind \in {"select", "clear"}
      BY <1>1, <1>2, <1>5, <2>1 DEF HasSession, Locking, Holding
    <2>2. CASE u.kind \in {"enqueue", "complete", "fail"}
      <3>1. HasRun(u) /\ u.run \in RunsOf(o.session)
        BY <1>8, <2>2 DEF HasRun, RunsOf
      <3>2. held[<<"run", u.run>>] = b /\ held[<<"run", u.run>>] = a
        BY <1>1, <1>2, <3>1 DEF Locking, Holding, Keeps
      <3> QED
        BY <3>2
    <2> QED
      BY <2>1, <2>2
  <1>10. u.kind \in {"select", "clear"} /\ HasSession(u) =>
            FavoritesOf(u.session)' = FavoritesOf(u.session)
    <2>1. CASE o.kind \in {"select", "clear"}
      BY <1>2, <1>5, <2>1, MarkedRows
    <2>2. CASE o.kind \notin {"select", "clear"}
      BY <1>1, <2>2, SameFavorites
    <2> QED
      BY <2>1, <2>2
  <1>11. u.kind = "select" /\ Statement(u) \in {"favorites", "commit"} =>
            run'[u.run].state = "completed"
    <2> SUFFICES ASSUME u.kind = "select", Statement(u) \in {"favorites", "commit"}
                 PROVE  run'[u.run].state = "completed"
      OBVIOUS
    <2>1. u.run \in Made /\ run[u.run].state = "completed" /\ held[<<"run", u.run>>] = b
      BY <1>1 DEF OpInv, Keeps, HasRun
    <2>2. o.kind \in {"enqueue", "complete", "fail"} => held[<<"run", o.run>>] = a
      BY <1>1, <1>2 DEF Keeps, HasRun
    <2> QED
      BY <1>4, <2>1, <2>2
  <1> QED
    BY <1>1, <1>3, <1>4, <1>6, <1>7, <1>9, <1>10, <1>11, BystanderKeeps

LEMMA CommitAllKeeps ==
    ASSUME SInv, LInv', NEW a \in Actors, Commit(a)
    PROVE  SInv'
  <1>1. CASE op'[a] = Idle
    BY <1>1, IdleKeeps, CommitKeeps DEF SInv
  <1>2. CASE op[a].kind = "complete" /\ op'[a] = Between("raised", op[a].session, op[a].run)
    <2> DEFINE w == Between("raised", op[a].session, op[a].run)
    <2>1. w.kind = "raised" /\ w.session = op[a].session /\ w.run = op[a].run
      BY DEF Between, Idle
    <2> HIDE DEF w
    <2>2. run'[op[a].run].session = op[a].session
      <3>1. op[a].run \in Requests /\ run[op[a].run].session = op[a].session
        BY <1>2 DEF SInv, LInv, IInv, OpInv, Made, Keeps
      <3> QED
        BY <1>2, <3>1, CommitStates DEF SInv, LInv, Makers
    <2>3. Keeps(a)'
      BY <1>2, <2>1, <2>2, OutsideKeeps DEF Outside, w
    <2> QED
      BY <2>3, CommitKeeps DEF SInv
  <1> QED
    BY <1>1, <1>2 DEF Commit, SInv, LInv, IInv, TypeOK

LEMMA NextSInv == SInv /\ [Next]_vars => SInv'
  <1> SUFFICES ASSUME SInv, [Next]_vars PROVE SInv'
    OBVIOUS
  <1>0. LInv'
    BY NextLInv DEF SInv
  <1>1. ASSUME NEW q \in Requests, NEW s \in Sessions, Create(q, s) PROVE SInv'
    BY <1>0, <1>1, CreateKeeps
  <1>2. ASSUME NEW q \in Requests, NEW v \in Requests, Rerun(q, v) PROVE SInv'
    BY <1>0, <1>2, RerunKeeps
  <1>3. ASSUME NEW q \in Requests, Enqueue(q) PROVE SInv'
    BY <1>0, <1>3, EnqueueKeeps
  <1>4. ASSUME NEW q \in Requests, LoadFails(q) PROVE SInv'
    BY <1>0, <1>4, LoadFailsKeeps
  <1>5. ASSUME NEW q \in Requests, Claim(q) PROVE SInv'
    BY <1>0, <1>5, ClaimKeeps
  <1>6. ASSUME NEW q \in Requests, Recover(q) PROVE SInv'
    BY <1>0, <1>6, RecoverKeeps
  <1>7. ASSUME NEW e \in Editors, NEW kind \in Kinds, NEW s \in Sessions,
               NEW q \in Requests \cup {NoOne}, Edit(e, kind, s, q)
        PROVE  SInv'
    BY <1>0, <1>7, EditKeeps
  <1>8. ASSUME NEW kind \in Kinds, Finish(kind) PROVE SInv'
    BY <1>0, <1>8, FinishKeeps
  <1>9. ASSUME NEW a \in Actors, Step(a) PROVE SInv'
    <2>1. CASE Acquire(a)
      BY <1>0, <2>1, AcquireKeeps
    <2>2. CASE Pass(a)
      BY <1>0, <2>2, PassKeeps
    <2>3. CASE ReadNumber(a)
      BY <1>0, <2>3, ReadNumberKeeps
    <2>4. CASE Refuse(a)
      BY <1>0, <2>4, RollbackKeeps DEF Refuse
    <2>5. CASE Conclude(a)
      BY <1>0, <2>5, NoCollision, CommitAllKeeps DEF Conclude, SInv, LInv
    <2>6. CASE Abort(a)
      BY <1>0, <2>6, AbortKeeps
    <2> QED
      BY <1>9, <2>1, <2>2, <2>3, <2>4, <2>5, <2>6 DEF Step
  <1>10. CASE UNCHANGED vars
    <2>1. /\ \A o : Given(o)' = Given(o)
          /\ \A s : FavoritesOf(s)' = FavoritesOf(s)
      BY <1>10, SameRows DEF vars
    <2>2. ASSUME NEW b \in Actors PROVE Keeps(b)'
      BY <1>10, <2>1 DEF vars, SInv, Keeps
    <2> QED
      BY <1>0, <2>2 DEF SInv
  <1> QED
    BY <1>1, <1>2, <1>3, <1>4, <1>5, <1>6, <1>7, <1>8, <1>9, <1>10 DEF Next, Done

(* The steps that begin, lock, read or give up are none of AtomicRuns.     *)
LEMMA InvisibleStep ==
    ASSUME UNCHANGED <<run, number, deleted, revived>>
    PROVE  [AR!Next]_(AR!vars)
  BY DEF AR!vars

LEMMA ClaimIsAtomic ==
    ASSUME SInv, NEW q \in Requests, Claim(q)
    PROVE  AR!Claim(q)
  BY DEF Claim, Lockable, AR!Claim, AR!Open, AR!Exists, AR!Becomes

LEMMA RecoverIsAtomic ==
    ASSUME SInv, NEW q \in Requests, Recover(q)
    PROVE  AR!Recover(q)
  BY DEF Recover, Lockable, AR!Recover, AR!Open, AR!Exists, AR!Becomes

LEMMA SameCardinality == \A S : AR!Cardinality(S) = Cardinality(S)
  BY DEF AR!Cardinality, Cardinality

LEMMA RoomIsCapacity ==
    Cardinality(ActiveRuns \ revived) < MaxActive => AR!HasRoom
  <1> DEFINE open == {q \in Requests : run[q].state \in AR!Waiting}
  <1>1. ActiveRuns = open
    BY DEF ActiveRuns, Made, Active, AR!Waiting
  <1>2. AR!HasRoom <=> Cardinality(open \ revived) < MaxActive
    BY SameCardinality DEF AR!HasRoom
  <1> HIDE DEF open
  <1> QED
    BY <1>1, <1>2

(* A new run takes the number after those that are given when it is        *)
(* committed.                                                              *)
LEMMA MakingIsAtomic ==
    ASSUME SInv, NEW a \in Actors, Commit(a), NEW o, o = op[a], o.kind \in Makers
    PROVE  [AR!Next]_(AR!vars)
  <1>1. /\ IInv /\ OpInv(a) /\ Locking(a) /\ Keeps(a) /\ Statement(o) = "commit"
        /\ o \in Ops
    BY DEF SInv, LInv, IInv, TypeOK, Commit
  <1>2. /\ a \in Requests /\ a \notin Made /\ o.session \in Sessions
        /\ UNCHANGED <<deleted, revived>>
    BY <1>1, NewRow DEF OpInv, Makers, Commit
  <1>3. AR!HasRoom
    <2>1. o.at > 1
      BY <1>1, Table DEF OpInv, Ops, Makers, Doing, Statements
    <2> QED
      BY <1>1, <2>1, RoomIsCapacity DEF Locking, Found
  <1>4. o.session \notin deleted
    BY <1>1 DEF Locking, Found, HasSession
  <1>5. o.seen \in Numbers /\ AR!Follows(o.seen, Given(o))
    BY <1>1 DEF Keeps, IsNext, AR!Follows
  <1>6. CASE o.kind = "create"
    <2>1. AR!Insert(a, o.session, a, 1)
      BY <1>2, <1>3, <1>4, <1>6 DEF AR!Insert, Commit, Written, NewRun, Made
    <2>2. Given(o) = {number[p] : p \in {p \in Requests : number[p] # 0 /\ run[p].session = o.session}}
      BY <1>6 DEF Given, VersionsOf
    <2>3. number' = [number EXCEPT ![a] = o.seen]
      BY <1>6 DEF Commit
    <2>4. \E n \in 1 .. Cardinality(Requests) + 1 :
             /\ AR!Follows(n, {number[p] : p \in
                      {p \in Requests : number[p] # 0 /\ run[p].session = o.session}})
             /\ number' = [number EXCEPT ![a] = n]
      <3> o.seen \in 1 .. Cardinality(Requests) + 1
        BY <1>5 DEF Numbers
      <3> WITNESS o.seen \in 1 .. Cardinality(Requests) + 1
      <3> QED
        BY <1>5, <2>2, <2>3
    <2>5. AR!Create(a, o.session)
      BY <1>2, <2>1, <2>4, SameCardinality DEF AR!Create
    <2> QED
      BY <1>1, <1>2, <2>5 DEF AR!Next
  <1>7. CASE o.kind = "rerun"
    <2>1. o.run \in Requests /\ number[o.run] # 0 /\ o.session = run[o.run].session
      BY <1>1, <1>7 DEF OpInv
    <2>2. AR!Insert(a, run[o.run].session, o.run, o.seen)
      BY <1>2, <1>3, <1>4, <1>7, <2>1 DEF AR!Insert, Commit, Written, NewRun, Made
    <2>3. Given(o) = {run[p].attempt : p \in {p \in Requests : AR!Exists(p) /\ run[p].version = o.run}}
      BY <1>7 DEF Given, Made, AR!Exists
    <2>4. number' = number
      BY <1>7 DEF Commit
    <2>5. \E n \in 1 .. Cardinality(Requests) + 1 :
             /\ AR!Follows(n, {run[p].attempt : p \in
                      {p \in Requests : AR!Exists(p) /\ run[p].version = o.run}})
             /\ AR!Insert(a, run[o.run].session, o.run, n)
      <3> o.seen \in 1 .. Cardinality(Requests) + 1
        BY <1>5 DEF Numbers
      <3> WITNESS o.seen \in 1 .. Cardinality(Requests) + 1
      <3> QED
        BY <1>5, <2>2, <2>3
    <2>6. AR!Rerun(a, o.run)
      BY <1>2, <2>1, <2>4, <2>5, SameCardinality DEF AR!Rerun
    <2> QED
      BY <1>2, <2>1, <2>6 DEF AR!Next
  <1> QED
    BY <1>6, <1>7 DEF Makers

(* A run that is put back or ends is still one of a session that is not    *)
(* deleted, and one that completes was running.                            *)
LEMMA EndingIsAtomic ==
    ASSUME SInv, NEW a \in Actors, Commit(a), NEW o, o = op[a],
           o.kind \in {"enqueue", "complete", "fail"}
    PROVE  [AR!Next]_(AR!vars)
  <1>1. /\ TypeOK /\ OpInv(a) /\ Keeps(a) /\ Statement(o) = "commit" /\ o \in Ops
    BY DEF SInv, LInv, IInv, TypeOK, Commit
  <1>2. o.at > 1
    BY <1>1, Table DEF OpInv, Doing, Statements, Ops
  <1>3. /\ o.run \in Requests /\ AR!Open(o.run)
        /\ o.kind = "complete" => run[o.run].state \in AR!Waiting
    BY <1>1, <1>2 DEF OpInv, Made, Keeps, AR!Open, AR!Exists, AR!Waiting, Active
  <1>4. UNCHANGED <<number, deleted>>
    BY DEF Commit
  <1>5. revived' = IF o.kind # "complete" /\ run[o.run].state \in AR!Ended
                   THEN revived \cup {o.run} ELSE revived
    BY DEF Commit, AR!Ended, Terminal
  <1>6. CASE o.kind = "complete"
    <2>1. AR!Becomes(o.run, "completed")
      BY <1>6 DEF Commit, Written, AR!Becomes
    <2>2. AR!Complete(o.run)
      BY <1>3, <1>4, <1>5, <1>6, <2>1 DEF AR!Complete
    <2> QED
      BY <1>3, <2>2 DEF AR!Next
  <1>7. CASE o.kind # "complete"
    <2>1. \E state \in {"queued", "failed"} : AR!Becomes(o.run, state)
      BY <1>7 DEF Commit, Written, AR!Becomes
    <2>2. AR!Overwrite(o.run)
      BY <1>3, <1>4, <1>5, <1>7, <2>1 DEF AR!Overwrite
    <2> QED
      BY <1>3, <2>2 DEF AR!Next
  <1> QED
    BY <1>6, <1>7

LEMMA MarkingIsAtomic ==
    ASSUME SInv, NEW a \in Actors, Commit(a), NEW o, o = op[a], o.kind \in {"select", "clear"}
    PROVE  [AR!Next]_(AR!vars)
  <1>1. /\ OpInv(a) /\ Keeps(a) /\ Statement(o) = "commit" /\ o \in Ops /\ o.session \in Sessions
    BY DEF SInv, LInv, IInv, TypeOK, Commit, OpInv
  <1>2. o.session \notin deleted
    <2>1. o.at > 1
      BY <1>1, Table DEF OpInv, Doing, Statements, Ops
    <2> QED
      BY <1>1, <2>1 DEF Keeps
  <1>3. AR!Home(o.session) = RunsOf(o.session)
    BY DEF AR!Home, AR!Exists, RunsOf, Made
  <1>4. /\ UNCHANGED <<number, deleted, revived>>
        /\ run' = [q \in Requests |->
                      IF q \in RunsOf(o.session)
                      THEN [run[q] EXCEPT !.favorite = (o.kind = "select" /\ q = o.run)]
                      ELSE run[q]]
    BY MarkedRows
  <1>5. CASE o.kind = "select"
    <2>1. /\ o.run \in Requests /\ AR!Open(o.run) /\ run[o.run].state = "completed"
          /\ run[o.run].session = o.session
      BY <1>1, <1>2, <1>5 DEF OpInv, Made, Keeps, AR!Open, AR!Exists
    <2>2. \A q : (o.kind = "select" /\ q = o.run) = (q \in {o.run})
      BY <1>5
    <2>3. AR!Mark(o.session, {o.run})
      BY <1>2, <1>3, <1>4, <2>2 DEF AR!Mark
    <2>4. AR!Select(o.run)
      BY <2>1, <2>3 DEF AR!Select
    <2> QED
      BY <2>1, <2>4 DEF AR!Next
  <1>6. CASE o.kind = "clear"
    <2>1. \A q : (o.kind = "select" /\ q = o.run) = (q \in {})
      BY <1>6
    <2>2. AR!Clear(o.session)
      BY <1>2, <1>3, <1>4, <2>1 DEF AR!Mark, AR!Clear
    <2> QED
      BY <1>1, <2>2 DEF AR!Next
  <1> QED
    BY <1>5, <1>6

LEMMA DeletingIsAtomic ==
    ASSUME SInv, NEW a \in Actors, Commit(a), NEW o, o = op[a], o.kind = "delete"
    PROVE  [AR!Next]_(AR!vars)
  <1>1. /\ TypeOK /\ OpInv(a) /\ Locking(a) /\ Statement(o) = "commit" /\ o.session \in Sessions
    BY DEF SInv, LInv, IInv, Commit, OpInv
  <1>2. \A q \in AR!Home(o.session) : run[q].state \in AR!Ended
    <2>1. \A q \in RunsOf(o.session) : run[q].state \notin Active
      BY <1>1 DEF Locking, Found
    <2> QED
      BY <1>1, <2>1 DEF AR!Home, AR!Exists, AR!Ended, RunsOf, Made, TypeOK, Runs, Active, Terminal
  <1>3. deleted' = deleted \cup {o.session} /\ UNCHANGED <<run, number, revived>>
    BY DEF Commit, Written
  <1>4. AR!Delete(o.session)
    BY <1>2, <1>3 DEF AR!Delete
  <1> QED
    BY <1>1, <1>4 DEF AR!Next

LEMMA NextIsAtomic == SInv /\ [Next]_vars => [AR!Next]_(AR!vars)
  <1> SUFFICES ASSUME SInv, [Next]_vars PROVE [AR!Next]_(AR!vars)
    OBVIOUS
  <1>1. CASE UNCHANGED <<run, number, deleted, revived>>
    BY <1>1, InvisibleStep
  <1>2. ASSUME NEW q \in Requests, Claim(q) PROVE [AR!Next]_(AR!vars)
    BY <1>2, ClaimIsAtomic DEF AR!Next
  <1>3. ASSUME NEW q \in Requests, Recover(q) PROVE [AR!Next]_(AR!vars)
    BY <1>3, RecoverIsAtomic DEF AR!Next
  <1>4. ASSUME NEW a \in Actors, Commit(a) PROVE [AR!Next]_(AR!vars)
    <2>1. CASE op[a].kind \notin Makers \cup {"enqueue", "complete", "fail", "select", "clear", "delete"}
      BY <1>1, <1>4, <2>1 DEF Commit, Written, Makers
    <2> QED
      BY <1>4, <2>1, MakingIsAtomic, EndingIsAtomic, MarkingIsAtomic, DeletingIsAtomic
  <1>5. ASSUME NEW a \in Actors, Step(a) PROVE [AR!Next]_(AR!vars)
    <2>1. CASE Conclude(a)
      BY <1>1, <1>4, <2>1 DEF Conclude, Rollback
    <2>2. CASE ~Conclude(a)
      BY <1>1, <1>5, <2>2 DEF Step, Acquire, Pass, ReadNumber, Refuse, Abort, Rollback
    <2> QED
      BY <2>1, <2>2
  <1> QED
    BY <1>1, <1>2, <1>3, <1>5
       DEF Next, Create, Rerun, Enqueue, LoadFails, Edit, Finish, Done, vars

-----------------------------------------------------------------------------
THEOREM AtomicInvariance == Spec => []SInv
  <1>1. Init => SInv
    <2> SUFFICES ASSUME Init PROVE SInv
      OBVIOUS
    <2>1. ASSUME NEW a \in Actors PROVE Keeps(a)
      <3>1. op[a] = Idle /\ Idle.kind = "none" /\ Statement(op[a]) = "none"
        BY DEF Init, Idle, Statement, Statements
      <3> QED
        BY <3>1 DEF Keeps, HasRun, Makers, Outside
    <2> QED
      BY <2>1, InitLInv DEF SInv
  <1> QED
    BY <1>1, NextSInv, PTL DEF Spec

(* The transactions of requests, editors and the worker, interleaved       *)
(* statement by statement, implement AtomicRuns: create_version, rerun,    *)
(* update, enqueue, select_favorite, clear_favorite and delete_session     *)
(* each take effect at their commit, on rows that meet their conditions    *)
(* then, and none writes to a run of a deleted session.                    *)
THEOREM TransactionsAreAtomic == Spec => Atomic
  <1>1. Init => AR!Init
    BY DEF Init, Absent, AR!Init, AR!NoRun
  <1> QED
    BY <1>1, NextIsAtomic, AtomicInvariance, PTL DEF Spec, Atomic, AR!Spec
=============================================================================
