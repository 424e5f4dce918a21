---------------------- MODULE EffectsAndActivityProofs ----------------------
(***************************************************************************)
(* Proofs about the two components in which one side follows what another  *)
(* one does and may miss its answer: the pipeline that waits for the       *)
(* sidecar's file (FinishingEffects), and the page that follows a run      *)
(* (ActivityStream).                                                       *)
(*                                                                         *)
(* FinishingEffects: for any number of destinations, calls, attempts and   *)
(* restarts and every size of the queue and the history.                   *)
(* ActivityStream: for any number of events, replays, failures and retries *)
(* and every size of a page.  What was shown is a prefix of the feed, and  *)
(* whatever is on its way to the page, in a reply or on the wire of the    *)
(* stream, is a piece of the feed that begins no later than behind it.     *)
(***************************************************************************)
EXTENDS FinishingEffects, ActivityStream, FiniteSetTheorems, SequenceTheorems, TLAPS

(***************************************************************************)
(* FinishingEffects                                                        *)
(***************************************************************************)
(* The worker thread holds a call exactly when it is not waiting for one   *)
Busy == step = "idle" <=> work = 0

(* Calls are answered, worked on and queued in the order of their numbers; *)
(* one that is being submitted is the newest and known to nobody.          *)
Ordered ==
    /\ queue \cup answered \subseteq 1 .. calls /\ work <= calls
    /\ history \cup good \subseteq answered
    /\ \A a \in answered : (work # 0 => a < work) /\ \A m \in queue : a < m
    /\ work # 0 => \A m \in queue : work < m
    /\ phase # "idle" => calls # 0
    /\ phase = "post" => calls \notin queue \cup answered \cup {work}

(* What the call that the pipeline waits for has produced so far           *)
Own ==
    phase = "poll" =>
        /\ work = calls /\ step \in {"partial", "done"} => source = attempt
        /\ (work = calls /\ step = "done") \/ calls \in good =>
              file[to[calls]] = [call |-> calls, source |-> attempt]

(* A destination is asked for once in an attempt                           *)
Asked == phase # "idle" => to[calls] \in tried

(* Nobody is left who would write a file that has been delivered           *)
Kept ==
    \A d \in Dest : delivered[d] # 0 =>
        /\ d \in tried
        /\ file[d] = [call |-> delivered[d], source |-> attempt]
        /\ \A n \in queue : to[n] # d
        /\ work # 0 => to[work] # d
        /\ phase # "idle" => to[calls] # d

OrderInv == TypeOK /\ Busy /\ Ordered
FileInv == OrderInv /\ Asked /\ Own /\ Kept
AnswerInv == OrderInv /\ NotForgotten

-----------------------------------------------------------------------------
LEMMA Numbers ==
    /\ QueueSize \in Nat /\ HistorySize \in Nat /\ 1 <= HistorySize
    /\ MaxCalls \in Nat /\ MaxAttempts \in Nat /\ MaxRestarts \in Nat
    /\ 1 <= MaxAttempts /\ NoFile \in File
BY EffectsAssumption DEF NoFile, File

(* The newest of several records is not the oldest one                     *)
LEMMA NewestStays ==
    ASSUME NEW S \in SUBSET Nat, NEW n \in S, \A m \in S : m <= n
    PROVE  n \in Bounded(S)
<1>1. CASE Cardinality(S) > HistorySize
  <2>1. S # {n}
    BY <1>1, FS_Singleton, Numbers
  <2>2. PICK m \in S : m # n
    BY <2>1
  <2>3. ~ (n <= m)
    BY <2>2
  <2> QED
    BY <1>1, <2>2, <2>3 DEF Bounded, ButOldest, Oldest
<1> QED
  BY <1>1 DEF Bounded

LEMMA FewerRecords == \A S : Bounded(S) \subseteq S
BY DEF Bounded, ButOldest

-----------------------------------------------------------------------------
LEMMA InitOrder == Init => OrderInv
BY Numbers DEF Init, OrderInv, TypeOK, Busy, Ordered, Calls, File, NoFile

LEMMA NextOrder == OrderInv /\ [Next]_vars => OrderInv'
<1> SUFFICES ASSUME OrderInv, [Next]_vars
             PROVE  OrderInv'
  OBVIOUS
<1> USE Numbers DEF OrderInv
<1>1. CASE Repeat
  BY <1>1 DEF Repeat, sidecar, TypeOK, Busy, Ordered
<1>2. ASSUME NEW d \in Dest, Apply(d)
      PROVE  OrderInv'
  <2>1. calls' = calls + 1 /\ calls' \in Calls
    BY <1>2 DEF Apply, TypeOK, Calls
  <2>2. file' \in [Dest -> File] /\ to' \in [Calls -> Dest]
    BY <1>2, <2>1 DEF Apply, TypeOK
  <2>3. tried' \subseteq Dest /\ calls' \in 0 .. MaxCalls
    BY <1>2, <2>1 DEF Apply, TypeOK, Calls
  <2>4. TypeOK'
    BY <1>2, <2>2, <2>3 DEF Apply, sidecar, TypeOK
  <2>5. Ordered'
    BY <1>2, <2>1 DEF Apply, sidecar, TypeOK, Ordered, Calls
  <2> QED
    BY <1>2, <2>4, <2>5 DEF Apply, sidecar, Busy
<1>3. ASSUME Native, UNCHANGED sidecar
      PROVE  OrderInv'
  BY <1>3 DEF Native, sidecar, TypeOK, Busy, Ordered, File
<1>4. ASSUME Accepted, phase' \in {"poll", "idle"}, UNCHANGED calls
      PROVE  Busy' /\ Ordered' /\ queue' \subseteq Calls
  <2>1. calls \in Calls
    BY <1>4 DEF Accepted, TypeOK, Ordered, Calls
  <2>2. \A a \in answered : a < calls
    BY <1>4 DEF Accepted, TypeOK, Ordered, Calls
  <2>3. work # 0 => work < calls
    BY <1>4 DEF Accepted, TypeOK, Ordered
  <2> QED
    BY <1>4, <2>1, <2>2, <2>3 DEF Accepted, TypeOK, Ordered, Busy, Calls
<1>5. CASE Submit
  BY <1>4, <1>5 DEF Submit, Accepted, TypeOK
<1>6. CASE SubmitReplyLost
  <2>1. Busy' /\ Ordered' /\ queue' \subseteq Calls
    BY <1>4, <1>6 DEF SubmitReplyLost, Native
  <2>2. file' \in [Dest -> File]
    BY <1>6 DEF SubmitReplyLost, Native, TypeOK
  <2> QED
    BY <1>6, <2>1, <2>2 DEF SubmitReplyLost, Accepted, Native, TypeOK
<1>7. CASE SubmitFails
  BY <1>3, <1>7 DEF SubmitFails
<1>8. CASE Answer
  <2>1. CASE Native /\ UNCHANGED sidecar
    BY <1>3, <2>1
  <2>2. CASE /\ phase' = "idle" /\ delivered' = [delivered EXCEPT ![to[calls]] = calls]
             /\ UNCHANGED <<attempt, calls, to, tried, file, sidecar>>
    <3>1. calls \in 0 .. MaxCalls
      BY DEF TypeOK
    <3> QED
      BY <2>2, <3>1 DEF sidecar, TypeOK, Busy, Ordered
  <2> QED
    BY <1>8, <2>1, <2>2 DEF Answer
<1>9. CASE GiveUp
  BY <1>3, <1>9 DEF GiveUp
<1>10. CASE Take
  <2>1. PICK n \in queue : /\ Oldest(n, queue) /\ work' = n /\ queue' = queue \ {n}
    BY <1>10 DEF Take
  <2>2. n \in Calls /\ n <= calls /\ \A m \in queue' : n < m
    BY <2>1 DEF Oldest, TypeOK, Ordered, Calls
  <2>3. Ordered'
    BY <1>10, <2>1, <2>2 DEF Take, pipeline, TypeOK, Ordered, Calls
  <2>4. /\ work' = n /\ step' = "render" /\ n # 0 /\ n \in 0 .. MaxCalls
        /\ queue' \subseteq Calls
    BY <1>10, <2>1, <2>2 DEF Take, TypeOK, Calls
  <2>5. UNCHANGED <<attempt, calls, to, phase, tried, file, delivered, source, history, good,
                    answered, lost, restarts>>
    BY <1>10 DEF Take, pipeline
  <2>6. TypeOK'
    BY <2>4, <2>5 DEF TypeOK
  <2> QED
    BY <2>3, <2>4, <2>6 DEF Busy
<1>11. CASE Render \/ Break
  BY <1>11 DEF Render, Break, pipeline, TypeOK, Busy, Ordered
<1>12. CASE Replace
  <2>1. work \in Calls
    BY <1>12 DEF Replace, TypeOK, Busy, Calls
  <2>2. file' \in [Dest -> File]
    BY <1>12, <2>1 DEF Replace, TypeOK, File, Calls
  <2> QED
    BY <1>12, <2>2 DEF Replace, pipeline, TypeOK, Busy, Ordered
<1>13. CASE Record
  <2>1. work \in Calls /\ work' = 0
    BY <1>13 DEF Record, Idle, TypeOK, Busy, Calls
  <2>2. history' \subseteq history \cup {work}
    BY <1>13, FewerRecords DEF Record
  <2>3. good' \subseteq good \cup {work} /\ answered' = answered \cup {work}
    BY <1>13 DEF Record
  <2>4. {history, good, answered, lost}' \subseteq SUBSET Calls
    BY ZenonT(40), <1>13, <2>1, <2>2, <2>3 DEF Record, TypeOK
  <2>5. step' = "idle" /\ source' = 0 /\ work' = 0
    BY <1>13 DEF Record, Idle
  <2>6. work' \in 0 .. MaxCalls /\ source' \in 0 .. MaxAttempts
    BY <2>5
  <2>7. UNCHANGED <<attempt, calls, to, phase, tried, file, delivered, queue, restarts>>
    BY <1>13 DEF Record, pipeline
  <2>8. TypeOK'
    BY <2>4, <2>5, <2>6, <2>7 DEF TypeOK
  <2>9. UNCHANGED <<queue, calls, phase>>
    BY <1>13 DEF Record, pipeline
  <2>10. history' \cup good' \subseteq answered'
    BY <2>2, <2>3 DEF Ordered
  <2>11. queue' \cup answered' \subseteq 1 .. calls /\ calls \in Nat
    BY <2>1, <2>3, <2>9 DEF Ordered, TypeOK, Calls
  <2>12. \A a \in answered' : \A m \in queue : a < m
    BY <2>1, <2>3 DEF Ordered, Calls
  <2>13. phase = "post" => calls \notin queue \cup answered' \cup {0}
    BY <2>1, <2>3 DEF Ordered, Calls, TypeOK
  <2>14. Ordered'
    BY <2>5, <2>9, <2>10, <2>11, <2>12, <2>13 DEF Ordered
  <2> QED
    BY <1>13, <2>8, <2>14 DEF Record, Idle, Busy
<1>14. CASE Restart
  BY <1>14 DEF Restart, Idle, pipeline, TypeOK, Busy, Ordered, Calls
<1>15. CASE UNCHANGED vars
  BY <1>15 DEF vars, TypeOK, Busy, Ordered
<1> QED
  BY <1>1, <1>2, <1>5, <1>6, <1>7, <1>8, <1>9, <1>10, <1>11, <1>12, <1>13, <1>14, <1>15
     DEF Next, Worker

(***************************************************************************)
(* The state of the pipeline, of the sidecar and of the files keeps its    *)
(* type (apply() and the worker thread).                                   *)
(***************************************************************************)
THEOREM EffectsTypeCorrect == Spec => []TypeOK
<1>1. OrderInv => TypeOK
  BY DEF OrderInv
<1> QED
  BY <1>1, InitOrder, NextOrder, PTL DEF Spec

-----------------------------------------------------------------------------
LEMMA NextOwn == FileInv /\ [Next]_vars => Own'
<1> SUFFICES ASSUME FileInv, [Next]_vars
             PROVE  Own'
  OBVIOUS
<1> USE DEF FileInv, OrderInv
<1>1. CASE Repeat \/ SubmitReplyLost \/ SubmitFails \/ Answer \/ GiveUp
  <2>1. phase' = "idle"
    BY <1>1 DEF Repeat, SubmitReplyLost, SubmitFails, Answer, GiveUp, Native
  <2> QED
    BY <2>1 DEF Own
<1>2. CASE \E d \in Dest : Apply(d)
  BY <1>2 DEF Apply, Own
<1>3. CASE Submit
  BY <1>3 DEF Submit, Accepted, Ordered, Own
<1>4. CASE Take
  <2>1. step' = "render" /\ UNCHANGED <<phase, good, file, to, calls, attempt>>
    BY <1>4 DEF Take, pipeline
  <2> QED
    BY <2>1 DEF Own
<1>5. CASE Render
  BY <1>5, Numbers DEF Render, pipeline, Own, Ordered, TypeOK, Busy
<1>6. CASE Break
  BY <1>6 DEF Break, pipeline, Own
<1>7. CASE Replace
  <2>1. work \in Calls /\ to[work] \in Dest
    BY <1>7, Numbers DEF Replace, Busy, TypeOK, Calls
  <2>2. phase = "poll" => calls \notin good
    BY <2>1, Numbers DEF Ordered, TypeOK, Calls
  <2>3. phase = "poll" /\ work = calls => file'[to[calls]] = [call |-> calls, source |-> attempt]
    BY <1>7, <2>1 DEF Replace, Own, TypeOK
  <2> QED
    BY <1>7, <2>2, <2>3 DEF Replace, pipeline, Own
<1>8. CASE Record
  BY <1>8 DEF Record, Idle, pipeline, Own
<1>9. CASE Restart
  BY <1>9 DEF Restart, Idle, pipeline, Own
<1>10. CASE UNCHANGED vars
  BY <1>10 DEF vars, Own
<1> QED
  BY <1>1, <1>2, <1>3, <1>4, <1>5, <1>6, <1>7, <1>8, <1>9, <1>10 DEF Next, Worker

LEMMA NextKept == FileInv /\ [Next]_vars => Kept'
<1> SUFFICES ASSUME FileInv, [Next]_vars
             PROVE  Kept'
  OBVIOUS
<1> USE DEF FileInv, OrderInv
<1>1. CASE Repeat
  BY <1>1 DEF Repeat, Kept
<1>2. ASSUME NEW e \in Dest, Apply(e)
      PROVE  Kept'
  <2>1. calls + 1 \in Calls /\ to' = [to EXCEPT ![calls + 1] = e] /\ calls' = calls + 1
    BY <1>2, Numbers DEF Apply, TypeOK, Calls
  <2>2. to'[calls'] = e
    BY <2>1 DEF TypeOK
  <2>3. \A n \in Calls : n <= calls => to'[n] = to[n]
    BY <2>1, Numbers DEF TypeOK, Calls
  <2>4. delivered[e] = 0
    BY <1>2 DEF Apply, Kept
  <2>5. \A n \in queue : n \in Calls /\ n <= calls
    BY Numbers DEF Ordered, TypeOK, Calls
  <2>6. work # 0 => work \in Calls /\ work <= calls
    BY Numbers DEF Ordered, TypeOK, Calls
  <2>7. \A d \in Dest : delivered[d] # 0 => file'[d] = file[d]
    BY <1>2, <2>4 DEF Apply, TypeOK
  <2>8. UNCHANGED <<queue, work, delivered, attempt>> /\ tried \subseteq tried'
    BY <1>2 DEF Apply, sidecar
  <2> QED
    BY <2>2, <2>3, <2>4, <2>5, <2>6, <2>7, <2>8 DEF Kept
<1>3. ASSUME Native, phase # "idle"
      PROVE  \A d \in Dest : delivered[d] # 0 => file'[d] = file[d]
  BY <1>3 DEF Native, Kept, TypeOK
<1>4. CASE SubmitFails \/ GiveUp \/ (Answer /\ Native)
  <2>1. /\ phase # "idle" /\ phase' = "idle" /\ Native
        /\ UNCHANGED <<queue, work, delivered, attempt, tried, to, calls>>
    BY <1>4 DEF SubmitFails, GiveUp, Answer, Native, sidecar
  <2> QED
    BY <1>3, <2>1 DEF Kept
<1>5. CASE Answer /\ ~ Native
  <2>1. /\ calls \in good /\ phase = "poll" /\ phase' = "idle"
        /\ delivered' = [delivered EXCEPT ![to[calls]] = calls]
        /\ UNCHANGED <<attempt, calls, to, tried, file, sidecar>>
    BY <1>5 DEF Answer
  <2>2. calls \in Calls /\ to[calls] \in Dest
    BY <2>1, Numbers DEF Ordered, TypeOK, Calls
  <2>3. queue = {} /\ work = 0
    BY <2>1, Numbers DEF Ordered, TypeOK, Calls
  <2>4. file[to[calls]] = [call |-> calls, source |-> attempt]
    BY <2>1 DEF Own
  <2>5. to[calls] \in tried
    BY <2>1 DEF Asked
  <2> QED
    BY <2>1, <2>2, <2>3, <2>4, <2>5 DEF Kept, sidecar, TypeOK
<1>6. CASE Submit \/ SubmitReplyLost
  <2>1. /\ phase # "idle" /\ queue' = queue \cup {calls}
        /\ UNCHANGED <<work, delivered, attempt, tried, to, calls>>
    BY <1>6 DEF Submit, SubmitReplyLost, Accepted, Native
  <2>2. \A d \in Dest : delivered[d] # 0 => file'[d] = file[d] /\ to[calls] # d
    BY <1>3, <1>6, <2>1 DEF Submit, SubmitReplyLost, Kept
  <2> QED
    BY <2>1, <2>2 DEF Kept
<1>7. CASE Take
  <2>1. PICK n \in queue : work' = n /\ queue' = queue \ {n}
    BY <1>7 DEF Take
  <2>2. UNCHANGED <<file, delivered, attempt, tried, to, calls, phase>>
    BY <1>7 DEF Take, pipeline
  <2> QED
    BY <2>1, <2>2 DEF Kept
<1>8. CASE Render \/ Break \/ Record \/ Restart \/ UNCHANGED vars
  <2>1. /\ UNCHANGED <<file, delivered, attempt, tried, to, calls, phase>>
        /\ queue' \subseteq queue /\ work' \in {0, work}
    BY <1>8 DEF Render, Break, Record, Restart, Idle, pipeline, vars
  <2> QED
    BY <2>1 DEF Kept
<1>9. CASE Replace
  <2>1. work # 0
    BY <1>9 DEF Replace, Busy
  <2>2. \A d \in Dest : delivered[d] # 0 => file'[d] = file[d]
    BY <1>9, <2>1 DEF Replace, Kept, TypeOK
  <2>3. UNCHANGED <<queue, work, delivered, attempt, tried, to, calls, phase>>
    BY <1>9 DEF Replace, pipeline
  <2> QED
    BY <2>2, <2>3 DEF Kept
<1> QED
  BY <1>1, <1>2, <1>4, <1>5, <1>6, <1>7, <1>8, <1>9 DEF Next, Worker, Answer

LEMMA NextAsked == FileInv /\ [Next]_vars => Asked'
<1> SUFFICES ASSUME FileInv, [Next]_vars
             PROVE  Asked'
  OBVIOUS
<1> USE DEF FileInv, OrderInv
<1>1. ASSUME NEW d \in Dest, Apply(d)
      PROVE  Asked'
  <2>1. calls + 1 \in Calls /\ to' = [to EXCEPT ![calls + 1] = d] /\ calls' = calls + 1
    BY <1>1, Numbers DEF Apply, TypeOK, Calls
  <2>2. to'[calls'] = d
    BY <2>1 DEF TypeOK
  <2> QED
    BY <1>1, <2>2 DEF Apply, Asked
<1>2. CASE Repeat \/ SubmitReplyLost \/ SubmitFails \/ Answer \/ GiveUp
  <2>1. phase' = "idle"
    BY <1>2 DEF Repeat, SubmitReplyLost, SubmitFails, Answer, GiveUp, Native
  <2> QED
    BY <2>1 DEF Asked
<1>3. CASE Submit \/ Worker \/ Restart \/ UNCHANGED vars
  <2>1. /\ UNCHANGED <<to, calls, tried>>
        /\ phase # "idle" \/ phase' = phase
    BY <1>3 DEF Submit, Accepted, Worker, Take, Render, Replace, Break, Record, Restart,
                pipeline, vars
  <2> QED
    BY <2>1 DEF Asked
<1> QED
  BY <1>1, <1>2, <1>3 DEF Next

(***************************************************************************)
(* The file an attempt goes on with is its own call's, rendered from its   *)
(* own source, and stays so (apply(), the FIFO queue, one worker).         *)
(***************************************************************************)
THEOREM DeliveredFilesAreOwn == Spec => []DeliveredIsOwn
<1>1. Init => FileInv
  BY InitOrder DEF Init, FileInv, Asked, Own, Kept
<1>2. FileInv /\ [Next]_vars => FileInv'
  BY NextOrder, NextAsked, NextOwn, NextKept DEF FileInv
<1>3. FileInv => DeliveredIsOwn
  BY DEF FileInv, Kept, DeliveredIsOwn
<1> QED
  BY <1>1, <1>2, <1>3, PTL DEF Spec

-----------------------------------------------------------------------------
LEMMA NextAnswer == AnswerInv /\ [Next]_vars => NotForgotten'
<1> SUFFICES ASSUME AnswerInv, [Next]_vars
             PROVE  NotForgotten'
  OBVIOUS
<1> USE DEF AnswerInv, OrderInv
<1>1. CASE Repeat \/ SubmitReplyLost \/ SubmitFails \/ Answer \/ GiveUp \/ \E d \in Dest : Apply(d)
  <2>1. phase' # "poll"
    BY <1>1 DEF Repeat, SubmitReplyLost, SubmitFails, Answer, GiveUp, Native, Apply
  <2> QED
    BY <2>1 DEF NotForgotten
<1>2. CASE Submit
  <2>1. calls \notin answered /\ UNCHANGED <<calls, answered>>
    BY <1>2 DEF Submit, Accepted, Ordered
  <2> QED
    BY <2>1 DEF NotForgotten
<1>3. CASE Take \/ Render \/ Replace \/ Break \/ UNCHANGED vars
  BY <1>3 DEF Take, Render, Replace, Break, pipeline, vars, NotForgotten
<1>4. CASE Record
  <2>1. /\ work \in Calls /\ work <= calls /\ \A a \in answered : a < work
        /\ calls \in Nat
    BY <1>4, Numbers DEF Record, Busy, Ordered, TypeOK, Calls
  <2>2. CASE work = calls
    <3>1. history \cup {work} \in SUBSET Nat
      BY <2>1 DEF TypeOK, Calls
    <3>2. \A m \in history \cup {work} : m <= work
      BY <2>1 DEF Ordered, TypeOK, Calls
    <3>3. work \in Bounded(history \cup {work})
      BY <3>1, <3>2, NewestStays
    <3> QED
      BY <1>4, <2>2, <3>3 DEF Record, pipeline, NotForgotten
  <2>3. CASE work # calls
    <3>1. calls \notin answered \cup {work}
      BY <2>1, <2>3 DEF TypeOK, Calls
    <3> QED
      BY <1>4, <3>1 DEF Record, pipeline, NotForgotten
  <2> QED
    BY <2>2, <2>3
<1>5. CASE Restart
  BY <1>5 DEF Restart, pipeline, NotForgotten
<1> QED
  BY <1>1, <1>2, <1>3, <1>4, <1>5 DEF Next, Worker

(***************************************************************************)
(* The bounded history keeps the answer the pipeline is waiting for, since *)
(* it is the newest record (_record).                                      *)
(***************************************************************************)
THEOREM AnswersAreKept == Spec => []NotForgotten
<1>1. Init => AnswerInv
  BY InitOrder DEF Init, AnswerInv, NotForgotten
<1>2. AnswerInv /\ [Next]_vars => AnswerInv'
  BY NextOrder, NextAnswer DEF AnswerInv
<1>3. AnswerInv => NotForgotten
  BY DEF AnswerInv
<1> QED
  BY <1>1, <1>2, <1>3, PTL DEF Spec

-----------------------------------------------------------------------------
(***************************************************************************)
(* ActivityStream                                                          *)
(***************************************************************************)
(* The public feed is numbered upwards                                     *)
Numbered(f) ==
    /\ f \in Seq(Nat)
    /\ \A i \in 1 .. Len(f) : 1 <= f[i]
    /\ \A i, j \in 1 .. Len(f) : i < j => f[i] < f[j]

(* The cursor c is that of a reader who has had the first k events         *)
Reads(f, c, k) == k \in 0 .. Len(f) /\ c = IF k = 0 THEN 0 ELSE f[k]

(* The list s holds the events of the feed from the a-th to the b-th       *)
Piece(f, s, a, b) ==
    /\ a \in 1 .. b + 1 /\ b \in 0 .. Len(f)
    /\ s \in Seq(Nat) /\ Len(s) = b + 1 - a
    /\ \A i \in 1 .. Len(s) : s[i] = f[a + i - 1]

(* What is on its way to the page joins what it has shown                  *)
Joins(f, s, n) == \E a \in 1 .. n + 1, b \in 0 .. Len(f) : Piece(f, s, a, b)

ShownInv == Piece(feed, shown, 1, Len(shown)) /\ Reads(feed, last, Len(shown))

ReplayInv ==
    \A r \in Replay :
        /\ \E k \in 0 .. Len(shown) : Reads(feed, replays[r].cursor, k)
        /\ Joins(feed, replays[r].items, Len(shown))

(* The stream goes on where the wire ends                                  *)
StreamInv ==
    \E a \in 1 .. Len(shown) + 1, b \in 0 .. Len(feed) :
        Piece(feed, stream.wire, a, b) /\ Reads(feed, stream.cursor, b)

(* The notice of the end, the rows that say it and the replies that carry  *)
(* it are later than the end                                               *)
EndInv ==
    /\ ends # {} \/ notice \/ finished => Ended
    /\ \A r \in Replay : replays[r].ended => Ended

(* The events that a run in each of its states may still get               *)
CountInv ==
    /\ ~ Ended => count <= MaxEvents
    /\ notice => Ended /\ count <= MaxEvents + 1
    /\ \A i \in 1 .. Len(feed) : feed[i] <= count

FeedInv == FeedTypeOK /\ CountInv /\ Numbered(feed)
PageInv == FeedInv /\ ShownInv /\ ReplayInv /\ StreamInv

-----------------------------------------------------------------------------
LEMMA FeedBounds ==
    /\ PageLimit \in Nat /\ 1 <= PageLimit /\ Reconnects \in Nat
    /\ MaxEvents \in Nat /\ MaxFaults \in Nat /\ MaxAsks \in Nat
BY ActivityAssumption

LEMMA UpToIs ==
    ASSUME NEW s \in Seq(Nat), NEW n, NEW k \in 0 .. Len(s),
           \A i \in 1 .. Len(s) : s[i] <= n <=> i <= k
    PROVE  UpTo(s, n) = k
<1>1. PICK m \in 0 .. Len(s) :
          /\ m = UpTo(s, n)
          /\ \A i \in 1 .. Len(s) : s[i] <= n <=> i <= m
  BY DEF UpTo
<1>2. ~ (m < k)
  <2> SUFFICES ASSUME m < k
               PROVE  FALSE
    OBVIOUS
  <2>1. k \in 1 .. Len(s)
    OBVIOUS
  <2> QED
    BY <1>1, <2>1
<1>3. ~ (k < m)
  <2> SUFFICES ASSUME k < m
               PROVE  FALSE
    OBVIOUS
  <2>1. m \in 1 .. Len(s)
    OBVIOUS
  <2> QED
    BY <1>1, <2>1
<1> QED
  BY <1>1, <1>2, <1>3

(* A reader's cursor tells how many events it has had                      *)
LEMMA CursorTells ==
    ASSUME NEW f, Numbered(f), NEW c, NEW k, Reads(f, c, k)
    PROVE  UpTo(f, c) = k
<1>1. \A i \in 1 .. Len(f) : f[i] <= c <=> i <= k
  <2>1. CASE k = 0
    BY <2>1 DEF Numbered, Reads
  <2>2. CASE k # 0
    <3>1. k \in 1 .. Len(f) /\ c = f[k]
      BY <2>2 DEF Reads
    <3> QED
      BY <3>1 DEF Numbered
  <2> QED
    BY <2>1, <2>2
<1> QED
  BY <1>1, UpToIs DEF Numbered, Reads

(* A piece of a sequence, as SubSeq takes it                               *)
LEMMA Cut ==
    ASSUME NEW f \in Seq(Nat), NEW a, NEW b \in 0 .. Len(f), a \in 1 .. b + 1
    PROVE  Piece(f, SubSeq(f, a, b), a, b)
<1>1. SubSeq(f, a, b) \in Seq(Nat)
  OBVIOUS
<1>2. Len(SubSeq(f, a, b)) = b + 1 - a
  OBVIOUS
<1>3. \A i \in 1 .. b + 1 - a : SubSeq(f, a, b)[i] = f[a + i - 1]
  OBVIOUS
<1> QED
  BY <1>1, <1>2, <1>3 DEF Piece

(* Two lists that hold the same piece are the same                         *)
LEMMA SamePiece ==
    ASSUME NEW f, NEW s, NEW t, NEW a, NEW b, Piece(f, s, a, b), Piece(f, t, a, b)
    PROVE  s = t
<1>1. s \in Seq(Nat) /\ t \in Seq(Nat) /\ Len(s) = Len(t)
  BY DEF Piece
<1>2. \A i \in 1 .. Len(s) : s[i] = t[i]
  BY <1>1 DEF Piece
<1> QED
  BY <1>1, <1>2

LEMMA Joined ==
    ASSUME NEW f \in Seq(Nat), NEW s, NEW t, NEW a, NEW b, NEW c,
           Piece(f, s, a, b), Piece(f, t, b + 1, c)
    PROVE  Piece(f, s \o t, a, c)
<1>1. /\ s \in Seq(Nat) /\ Len(s) = b + 1 - a /\ b \in 0 .. Len(f) /\ a \in 1 .. b + 1
      /\ t \in Seq(Nat) /\ Len(t) = c - b /\ c \in 0 .. Len(f) /\ b <= c
  BY DEF Piece
<1>2. s \o t \in Seq(Nat) /\ Len(s \o t) = Len(s) + Len(t)
  BY <1>1, ConcatProperties
<1>3. \A i \in 1 .. Len(s) + Len(t) : (s \o t)[i] = f[a + i - 1]
  <2> SUFFICES ASSUME NEW i \in 1 .. Len(s) + Len(t)
               PROVE  (s \o t)[i] = f[a + i - 1]
    OBVIOUS
  <2>1. CASE i <= Len(s)
    <3>1. (s \o t)[i] = s[i] /\ i \in 1 .. Len(s)
      BY <1>1, <2>1
    <3> QED
      BY <3>1 DEF Piece
  <2>2. CASE ~ (i <= Len(s))
    <3>1. (s \o t)[i] = t[i - Len(s)]
      BY <1>1, <2>2, ConcatProperties
    <3>. i - Len(s) \in 1 .. Len(t)
      BY <1>1, <2>2
    <3>2. t[i - Len(s)] = f[b + 1 + (i - Len(s)) - 1]
      BY <3>1 DEF Piece
    <3>3. b + 1 + (i - Len(s)) - 1 = a + i - 1
      BY <1>1
    <3> QED
      BY <3>1, <3>2, <3>3
  <2> QED
    BY <2>1, <2>2
<1>4. c \in 0 .. Len(f) /\ a \in 1 .. c + 1 /\ Len(s) + Len(t) = c + 1 - a
  BY <1>1
<1> QED
  BY <1>2, <1>3, <1>4 DEF Piece

(* A page begins behind the cursor                                         *)
LEMMA PageBegins ==
    ASSUME NEW c, NEW k, Numbered(feed), Reads(feed, c, k)
    PROVE  \E b \in 0 .. Len(feed) : Piece(feed, Page(c), k + 1, b)
<1> DEFINE b == IF Len(feed) < k + PageLimit THEN Len(feed) ELSE k + PageLimit
<1>1. UpTo(feed, c) = k
  BY CursorTells
<1>2. Page(c) = SubSeq(feed, k + 1, b)
  BY <1>1 DEF Page
<1>3. b \in 0 .. Len(feed) /\ k + 1 \in 1 .. b + 1
  BY FeedBounds DEF Reads, Numbered
<1>4. Piece(feed, SubSeq(feed, k + 1, b), k + 1, b)
  BY <1>3, Cut DEF Numbered
<1> QED
  BY <1>2, <1>3, <1>4

(* Who has had a piece that is not empty has the cursor of its last event  *)
LEMMA LastReads ==
    ASSUME NEW f, NEW s, NEW a, NEW b, Piece(f, s, a, b), s # <<>>
    PROVE  Reads(f, Last(s), b)
<1>1. Len(s) # 0 /\ Len(s) \in Nat
  BY DEF Piece
<1>2. Last(s) = s[Len(s)] /\ Len(s) \in 1 .. Len(s)
  BY <1>1 DEF Last
<1>3. Last(s) = f[b] /\ b # 0
  BY <1>1, <1>2 DEF Piece
<1> QED
  BY <1>3 DEF Reads, Piece

(* What a stream hands over next, and what it keeps                        *)
LEMMA HeadIsPiece ==
    ASSUME NEW f, NEW s, NEW a, NEW b, Piece(f, s, a, b), s # <<>>
    PROVE  Piece(f, <<Head(s)>>, a, a) /\ Piece(f, Tail(s), a + 1, b)
<1>1. /\ s \in Seq(Nat) /\ Len(s) = b + 1 - a /\ Len(s) \in Nat \ {0}
      /\ b \in 0 .. Len(f) /\ a \in 1 .. b + 1 /\ Len(f) \in Nat
  BY LenProperties DEF Piece
<1>2. a \in 1 .. b /\ a \in 0 .. Len(f)
  BY <1>1
<1>3. Head(s) = s[1] /\ s[1] \in Nat /\ s[1] = f[a + 1 - 1]
  BY <1>1 DEF Piece
<1>4. Piece(f, <<Head(s)>>, a, a)
  BY <1>1, <1>2, <1>3 DEF Piece
<1>5. /\ Tail(s) \in Seq(Nat) /\ Len(Tail(s)) = Len(s) - 1
      /\ \A i \in 1 .. Len(s) - 1 : Tail(s)[i] = s[i + 1]
  BY <1>1
<1>6. \A i \in 1 .. Len(s) - 1 : Tail(s)[i] = f[a + 1 + i - 1]
  <2> SUFFICES ASSUME NEW i \in 1 .. Len(s) - 1
               PROVE  Tail(s)[i] = f[a + 1 + i - 1]
    OBVIOUS
  <2>1. Tail(s)[i] = s[i + 1] /\ i + 1 \in 1 .. Len(s)
    BY <1>1, <1>5
  <2>2. s[i + 1] = f[a + (i + 1) - 1] /\ a + (i + 1) - 1 = a + 1 + i - 1
    BY <1>1, <2>1 DEF Piece
  <2> QED
    BY <2>1, <2>2
<1>7. a + 1 \in 1 .. b + 1 /\ Len(s) - 1 = b + 1 - (a + 1)
  BY <1>1, <1>2
<1>8. Piece(f, Tail(s), a + 1, b)
  BY <1>1, <1>5, <1>6, <1>7 DEF Piece
<1> QED
  BY <1>4, <1>8

(* What a reader with the cursor of n events keeps of a piece              *)
LEMMA AfterPiece ==
    ASSUME NEW f, Numbered(f), NEW s, NEW a, NEW b, Piece(f, s, a, b),
           NEW c, NEW n, Reads(f, c, n), a <= n + 1
    PROVE  /\ b <= n => After(s, c) = <<>>
           /\ n < b => Piece(f, After(s, c), n + 1, b)
<1> DEFINE k == IF b <= n THEN Len(s) ELSE n + 1 - a
<1>1. /\ a \in 1 .. b + 1 /\ b \in 0 .. Len(f) /\ n \in 0 .. Len(f) /\ Len(s) = b + 1 - a
      /\ s \in Seq(Nat) /\ f \in Seq(Nat)
  BY DEF Piece, Reads, Numbered
<1>2. k \in 0 .. Len(s)
  BY <1>1
<1>3. \A i \in 1 .. Len(s) : s[i] <= c <=> i <= k
  <2> SUFFICES ASSUME NEW i \in 1 .. Len(s)
               PROVE  s[i] <= c <=> i <= k
    OBVIOUS
  <2>1. s[i] = f[a + i - 1] /\ a + i - 1 \in 1 .. b
    BY <1>1 DEF Piece
  <2>2. f[a + i - 1] <= c <=> a + i - 1 <= n
    <3>1. CASE n = 0
      <4>1. c = 0
        BY <3>1 DEF Reads
      <4>2. a + i - 1 \in 1 .. Len(f)
        BY <1>1, <2>1
      <4>3. f[a + i - 1] \in Nat /\ 1 <= f[a + i - 1]
        <5>1. PICK j \in 1 .. Len(f) : j = a + i - 1
          BY <4>2
        <5>2. f[j] \in Nat /\ 1 <= f[j]
          BY <1>1 DEF Numbered
        <5> QED
          BY <5>1, <5>2
      <4> QED
        BY <2>1, <3>1, <4>1, <4>3
    <3>2. CASE n # 0
      <4>1. c = f[n] /\ n \in 1 .. Len(f) /\ a + i - 1 \in 1 .. Len(f)
        BY <1>1, <2>1, <3>2 DEF Reads
      <4> QED
        BY <4>1 DEF Numbered
    <3> QED
      BY <3>1, <3>2
  <2>3. a + i - 1 <= n <=> i <= k
    <3>1. CASE b <= n
      BY <1>1, <3>1
    <3>2. CASE ~ (b <= n)
      BY <1>1, <3>2
    <3> QED
      BY <3>1, <3>2
  <2> QED
    BY <2>1, <2>2, <2>3
<1>4. UpTo(s, c) = k
  BY <1>1, <1>2, <1>3, UpToIs
<1>5. After(s, c) = SubSeq(s, k + 1, Len(s))
  BY <1>4 DEF After
<1>6. ASSUME b <= n
      PROVE  After(s, c) = <<>>
  <2>1. After(s, c) = SubSeq(s, Len(s) + 1, Len(s))
    BY <1>5, <1>6
  <2> QED
    BY <1>1, <2>1
<1>7. ASSUME n < b
      PROVE  Piece(f, After(s, c), n + 1, b)
  <2>1. k = n + 1 - a
    BY <1>1, <1>7
  <2>2. Piece(s, SubSeq(s, k + 1, Len(s)), k + 1, Len(s))
    <3>1. Len(s) \in 0 .. Len(s) /\ k + 1 \in 1 .. Len(s) + 1
      BY <1>1, <1>2
    <3> HIDE DEF k
    <3> QED
      BY <1>1, <3>1, Cut
  <2>3. \A i \in 1 .. Len(s) - k : s[k + 1 + i - 1] = f[n + 1 + i - 1]
    <3> SUFFICES ASSUME NEW i \in 1 .. Len(s) - k
                 PROVE  s[k + 1 + i - 1] = f[n + 1 + i - 1]
      OBVIOUS
    <3>1. k + i \in 1 .. Len(s) /\ k + 1 + i - 1 = k + i
      BY <1>1, <1>2
    <3>2. s[k + i] = f[a + (k + i) - 1]
      BY <3>1 DEF Piece
    <3>3. a + (k + i) - 1 = n + 1 + i - 1
      BY <1>1, <2>1
    <3> QED
      BY <3>1, <3>2, <3>3
  <2>4. Len(s) + 1 - (k + 1) = b + 1 - (n + 1) /\ Len(s) - k = b - n
    BY <1>1, <2>1
  <2>5. After(s, c) \in Seq(Nat) /\ Len(After(s, c)) = b + 1 - (n + 1)
    BY <1>5, <2>2, <2>4 DEF Piece
  <2>6. \A i \in 1 .. b - n : After(s, c)[i] = f[n + 1 + i - 1]
    <3>1. \A i \in 1 .. Len(s) - k : SubSeq(s, k + 1, Len(s))[i] = s[k + 1 + i - 1]
      BY <2>2, <1>1, <1>2 DEF Piece
    <3> QED
      BY <1>5, <2>3, <2>4, <3>1
  <2>7. n + 1 \in 1 .. b + 1 /\ b + 1 - (n + 1) = b - n
    BY <1>1, <1>7
  <2> QED
    BY <1>1, <2>5, <2>6, <2>7 DEF Piece
<1> QED
  BY <1>6, <1>7

(* New events leave what is known of the feed as it is                     *)
LEMMA FeedGrows ==
    ASSUME NEW f \in Seq(Nat), NEW x \in Nat
    PROVE  /\ \A s, a, b : Piece(f, s, a, b) => Piece(Append(f, x), s, a, b)
           /\ \A c, k : Reads(f, c, k) => Reads(Append(f, x), c, k)
<1>1. /\ Len(Append(f, x)) = Len(f) + 1 /\ Len(f) \in Nat
      /\ \A i \in 1 .. Len(f) : Append(f, x)[i] = f[i]
  OBVIOUS
<1>2. ASSUME NEW s, NEW a, NEW b, Piece(f, s, a, b)
      PROVE  Piece(Append(f, x), s, a, b)
  <2>1. \A i \in 1 .. Len(s) : a + i - 1 \in 1 .. Len(f)
    BY <1>1, <1>2 DEF Piece
  <2>2. b \in 0 .. Len(Append(f, x))
    BY <1>1, <1>2 DEF Piece
  <2> QED
    BY <1>1, <1>2, <2>1, <2>2 DEF Piece
<1>3. ASSUME NEW c, NEW k, Reads(f, c, k)
      PROVE  Reads(Append(f, x), c, k)
  BY <1>1, <1>3 DEF Reads
<1> QED
  BY <1>2, <1>3

LEMMA PieceType ==
    ASSUME NEW f \in Seq(Sequence), NEW s, NEW a, NEW b, Piece(f, s, a, b)
    PROVE  s \in Seq(Sequence)
<1>1. s \in Seq(Nat) /\ \A i \in 1 .. Len(s) : s[i] \in Sequence
  BY DEF Piece
<1> QED
  BY <1>1, IsASeq, LenProperties

LEMMA ReadsType ==
    ASSUME NEW f \in Seq(Sequence), NEW c, NEW k, Reads(f, c, k)
    PROVE  c \in Sequence
BY FeedBounds DEF Reads, Sequence

-----------------------------------------------------------------------------
(* The events of a reply that begin no later than behind what was shown    *)
LEMMA AcceptShows ==
    ASSUME Numbered(feed), ShownInv, feed' = feed,
           NEW s, NEW a, NEW b, Piece(feed, s, a, b), a <= Len(shown) + 1, Accept(s)
    PROVE  ShownInv' /\ Len(shown) <= Len(shown') /\ b <= Len(shown')
<1> DEFINE n == Len(shown)
<1>1. /\ n \in 0 .. Len(feed) /\ b \in 0 .. Len(feed) /\ Len(feed) \in Nat
      /\ Piece(feed, shown, 1, n) /\ Reads(feed, last, n)
  BY DEF ShownInv, Piece, Reads, Numbered
<1>2. /\ shown' = shown \o After(s, last)
      /\ last' = IF After(s, last) = <<>> THEN last ELSE Last(After(s, last))
  BY DEF Accept
<1>3. CASE b <= n
  <2>1. After(s, last) = <<>>
    BY <1>1, <1>3, AfterPiece
  <2>2. shown' = shown /\ last' = last
    BY <1>1, <1>2, <2>1, ConcatEmptySeq DEF Piece
  <2> QED
    BY <1>1, <1>3, <2>2 DEF ShownInv
<1>4. CASE n < b
  <2>1. Piece(feed, After(s, last), n + 1, b)
    BY <1>1, <1>4, AfterPiece
  <2>2. After(s, last) # <<>>
    BY <1>1, <1>4, <2>1 DEF Piece
  <2>3. Reads(feed, last', b)
    BY <1>2, <2>1, <2>2, LastReads
  <2>4. Piece(feed, shown', 1, b)
    BY <1>1, <1>2, <2>1, Joined DEF Numbered
  <2>5. Len(shown') = b
    BY <1>1, <2>4 DEF Piece
  <2> QED
    BY <1>1, <1>4, <2>3, <2>4, <2>5 DEF ShownInv
<1> QED
  BY <1>1, <1>3, <1>4

(* The writers lengthen the feed, the page leaves it as it is              *)
LEMMA Appended ==
    ASSUME FeedInv, NEW kind, AppendEvent(kind)
    PROVE  /\ Numbered(feed') /\ \A i \in 1 .. Len(feed') : feed'[i] <= count'
           /\ feed' = feed \/ feed' = Append(feed, count + 1)
<1>1. /\ count \in Nat /\ count' = count + 1 /\ Len(feed) \in Nat
      /\ feed \in Seq(Nat)
      /\ \A i \in 1 .. Len(feed) : feed[i] \in Nat /\ feed[i] <= count
  <2>1. count \in Nat /\ count' = count + 1
    BY FeedBounds DEF FeedInv, FeedTypeOK, AppendEvent, Sequence
  <2>2. feed \in Seq(Nat) /\ Len(feed) \in Nat
    BY DEF FeedInv, Numbered
  <2>3. \A i \in 1 .. Len(feed) : feed[i] \in Nat /\ feed[i] <= count
    BY <2>2 DEF FeedInv, CountInv
  <2> QED
    BY <2>1, <2>2, <2>3
<1>2. CASE feed' = feed
  BY <1>1, <1>2 DEF FeedInv
<1>3. CASE feed' = Append(feed, count + 1)
  <2>1. /\ feed' \in Seq(Nat) /\ Len(feed') = Len(feed) + 1
        /\ \A i \in 1 .. Len(feed) : feed'[i] = feed[i]
        /\ feed'[Len(feed) + 1] = count + 1
    BY <1>1, <1>3
  <2>2. \A i \in 1 .. Len(feed') : 1 <= feed'[i] /\ feed'[i] <= count'
    <3> SUFFICES ASSUME NEW i \in 1 .. Len(feed')
                 PROVE  1 <= feed'[i] /\ feed'[i] <= count'
      OBVIOUS
    <3>1. i \in 1 .. Len(feed) \/ i = Len(feed) + 1
      BY <1>1, <2>1
    <3> QED
      BY <1>1, <2>1, <3>1 DEF FeedInv, Numbered
  <2>3. \A i, j \in 1 .. Len(feed') : i < j => feed'[i] < feed'[j]
    <3> SUFFICES ASSUME NEW i \in 1 .. Len(feed'), NEW j \in 1 .. Len(feed'), i < j
                 PROVE  feed'[i] < feed'[j]
      OBVIOUS
    <3>1. i \in 1 .. Len(feed) /\ (j \in 1 .. Len(feed) \/ j = Len(feed) + 1)
      BY <1>1, <2>1
    <3>2. CASE j \in 1 .. Len(feed)
      <4>1. feed[i] < feed[j]
        BY <3>1, <3>2 DEF FeedInv, Numbered
      <4> QED
        BY <2>1, <3>1, <3>2, <4>1
    <3>3. CASE j = Len(feed) + 1
      <4>1. feed'[i] = feed[i] /\ feed'[j] = count + 1
        BY <2>1, <3>1, <3>3
      <4>2. feed[i] \in Nat /\ feed[i] <= count /\ count \in Nat
        BY <1>1, <3>1
      <4> QED
        BY <4>1, <4>2
    <3> QED
      BY <3>1, <3>2, <3>3
  <2> QED
    BY <1>3, <2>1, <2>2, <2>3 DEF Numbered
<1> QED
  BY <1>2, <1>3 DEF AppendEvent

LEMMA WriterAppends ==
    ASSUME WriterStep
    PROVE  /\ UNCHANGED page
           /\ \/ \E kind \in {"internal", "news", "end"} : AppendEvent(kind)
              \/ UNCHANGED <<count, feed, ends>>
BY DEF WriterStep, Note, News, End, Emit, Refuse, page

LEMMA PageWritesNothing ==
    ASSUME PageStep
    PROVE  UNCHANGED writer
BY DEF PageStep, Start, RetryNow, ReplayStep, TimerStep, ReplayFails, StreamStep, StreamBreaks,
       Leave, ReadPage, AcceptPage, ReadJob, AcceptJob, ReconnectTimer, PollTimer, StreamState,
       StreamEvents, StreamMessage, StreamOver, writer

LEMMA NextKnown ==
    ASSUME FeedInv, [FeedNext]_feedVars
    PROVE  /\ Numbered(feed') /\ \A i \in 1 .. Len(feed') : feed'[i] <= count'
           /\ \A s, a, b : Piece(feed, s, a, b) => Piece(feed', s, a, b)
           /\ \A c, k : Reads(feed, c, k) => Reads(feed', c, k)
<1>1. CASE UNCHANGED <<count, feed>>
  BY <1>1 DEF FeedInv, CountInv
<1>2. ASSUME NEW kind, AppendEvent(kind)
      PROVE  /\ Numbered(feed') /\ \A i \in 1 .. Len(feed') : feed'[i] <= count'
             /\ \A s, a, b : Piece(feed, s, a, b) => Piece(feed', s, a, b)
             /\ \A c, k : Reads(feed, c, k) => Reads(feed', c, k)
  <2>1. feed \in Seq(Nat) /\ count + 1 \in Nat
    BY DEF FeedInv, FeedTypeOK, Numbered, Sequence
  <2>2. Numbered(feed') /\ \A i \in 1 .. Len(feed') : feed'[i] <= count'
    BY <1>2, Appended
  <2>3. CASE feed' = feed
    BY <2>2, <2>3
  <2>4. CASE feed' = Append(feed, count + 1)
    BY <2>1, <2>2, <2>4, FeedGrows
  <2> QED
    BY <1>2, <2>3, <2>4, Appended
<1>3. UNCHANGED <<count, feed>> \/ \E kind : AppendEvent(kind)
  BY WriterAppends, PageWritesNothing DEF FeedNext, feedVars, writer
<1> QED
  BY <1>1, <1>2, <1>3

-----------------------------------------------------------------------------
LEMMA NextShown ==
    ASSUME PageInv, [FeedNext]_feedVars
    PROVE  ShownInv' /\ Len(shown) \in Nat /\ Len(shown') \in Nat /\ Len(shown) <= Len(shown')
<1>1. Len(shown) \in Nat
  BY DEF PageInv, ShownInv, Piece
<1>2. CASE UNCHANGED <<last, shown>>
  BY <1>1, <1>2, NextKnown DEF PageInv, ShownInv
<1>3. ASSUME NEW r \in Replay, AcceptPage(r)
      PROVE  ShownInv' /\ Len(shown) <= Len(shown')
  <2>1. feed' = feed /\ Accept(replays[r].items)
    BY <1>3 DEF AcceptPage, writer
  <2>2. PICK a \in 1 .. Len(shown) + 1, b \in 0 .. Len(feed) : Piece(feed, replays[r].items, a, b)
    BY DEF PageInv, ReplayInv, Joins
  <2>3. a <= Len(shown) + 1
    BY <1>1, <2>2
  <2> QED
    BY <2>1, <2>2, <2>3, AcceptShows DEF PageInv, FeedInv
<1>4. CASE StreamMessage
  <2>1. feed' = feed /\ Accept(<<Head(stream.wire)>>) /\ stream.wire # <<>>
    BY <1>4 DEF StreamMessage, writer
  <2>2. PICK a \in 1 .. Len(shown) + 1, b \in 0 .. Len(feed) : Piece(feed, stream.wire, a, b)
    BY DEF PageInv, StreamInv
  <2>3. Piece(feed, <<Head(stream.wire)>>, a, a)
    BY <2>1, <2>2, HeadIsPiece
  <2>4. a <= Len(shown) + 1
    BY <1>1, <2>2
  <2> QED
    BY <2>1, <2>3, <2>4, AcceptShows DEF PageInv, FeedInv
<1>5. UNCHANGED <<last, shown>> \/ StreamMessage \/ \E r \in Replay : AcceptPage(r)
  BY DEF FeedNext, WriterStep, Note, News, End, Emit, Refuse, page, PageStep,
         Start, RetryNow, ReplayStep, TimerStep, ReplayFails, StreamStep, StreamBreaks, Leave,
         ReadPage, ReadJob, AcceptJob, ReconnectTimer, PollTimer,
         StreamState, StreamEvents, StreamOver, feedVars
<1>6. ShownInv' => Len(shown') \in Nat
  BY DEF ShownInv, Piece
<1> QED
  BY <1>1, <1>2, <1>3, <1>4, <1>5, <1>6

LEMMA StillJoins ==
    ASSUME NEW s, NEW n \in Nat, NEW m \in Nat, n <= m, Joins(feed, s, n),
           \A t, a, b : Piece(feed, t, a, b) => Piece(feed', t, a, b)
    PROVE  Joins(feed', s, m)
<1>1. PICK a \in 1 .. n + 1, b \in 0 .. Len(feed) : Piece(feed, s, a, b)
  BY DEF Joins
<1>2. Piece(feed', s, a, b)
  BY <1>1
<1>3. a \in 1 .. m + 1 /\ b \in 0 .. Len(feed')
  BY <1>1, <1>2 DEF Piece
<1> QED
  BY <1>2, <1>3 DEF Joins

LEMMA NothingJoins ==
    ASSUME NEW f \in Seq(Nat), NEW n \in Nat
    PROVE  Joins(f, <<>>, n) /\ Reads(f, 0, 0) /\ Piece(f, <<>>, 1, 0)
<1>1. Piece(f, <<>>, 1, 0)
  BY DEF Piece
<1>2. 1 \in 1 .. n + 1 /\ 0 \in 0 .. Len(f)
  OBVIOUS
<1> QED
  BY <1>1, <1>2 DEF Joins, Reads

(* What may happen to a replay: it asks where the page is, is answered     *)
(* behind its cursor, hands over what it got, or is over                   *)
LEMMA ReplayMoves ==
    ASSUME FeedTypeOK, [FeedNext]_feedVars, NEW r \in Replay
    PROVE  /\ replays'[r].cursor \in {replays[r].cursor, 0, last}
           /\ replays'[r].items \in {replays[r].items, <<>>, Page(replays[r].cursor)}
           /\ replays'[r].ended => replays[r].ended \/ Ended
<1> DEFINE Moves ==
        /\ replays'[r].cursor \in {replays[r].cursor, 0, last}
        /\ replays'[r].items \in {replays[r].items, <<>>, Page(replays[r].cursor)}
        /\ replays'[r].ended => replays[r].ended \/ Ended
<1>1. CASE UNCHANGED replays
  BY <1>1
<1>2. ASSUME NEW q \in Replay, NEW why, Ask(q, why)
      PROVE  Moves
  BY <1>2 DEF Ask, FeedTypeOK
<1>3. ASSUME NEW q \in Replay, ReadPage(q) \/ AcceptPage(q) \/ ReadJob(q)
      PROVE  Moves
  <2>1. CASE q # r
    <3>1. replays'[r] = replays[r]
      BY <1>3, <2>1 DEF ReadPage, AcceptPage, ReadJob, FeedTypeOK
    <3> QED
      BY <3>1
  <2>2. CASE q = r /\ ReadPage(q)
    BY <2>2 DEF ReadPage, FeedTypeOK
  <2>3. CASE q = r /\ AcceptPage(q)
    <3>1. replays'[r] = [replays[r] EXCEPT !.at = "job", !.items = <<>>]
      BY <2>3 DEF AcceptPage, FeedTypeOK
    <3> QED
      BY <3>1 DEF FeedTypeOK
  <2>4. CASE q = r /\ ReadJob(q)
    <3>1. replays'[r] = [replays[r] EXCEPT !.at = "reply", !.ended = Ended]
      BY <2>4 DEF ReadJob, FeedTypeOK
    <3> QED
      BY <3>1 DEF FeedTypeOK
  <2> QED
    BY <1>3, <2>1, <2>2, <2>3, <2>4
<1>4. ASSUME NEW q \in Replay, replays' = [replays EXCEPT ![q] = NoReplay]
      PROVE  Moves
  BY <1>4 DEF NoReplay, FeedTypeOK
<1>5. ASSUME PageStep
      PROVE  \/ UNCHANGED replays
             \/ \E q \in Replay :
                    \/ \E why : Ask(q, why)
                    \/ ReadPage(q) \/ AcceptPage(q) \/ ReadJob(q)
                    \/ replays' = [replays EXCEPT ![q] = NoReplay]
  BY <1>5 DEF PageStep, Start, RetryNow, ReplayStep, TimerStep, ReplayFails, StreamStep,
              StreamBreaks, Leave, AcceptJob, ReconnectTimer, PollTimer, StreamState,
              StreamEvents, StreamMessage, StreamOver
<1>6. WriterStep \/ UNCHANGED feedVars => UNCHANGED replays
  BY WriterAppends DEF page, feedVars
<1> QED
  BY <1>1, <1>2, <1>3, <1>4, <1>5, <1>6 DEF FeedNext

LEMMA NextReplay ==
    ASSUME PageInv, [FeedNext]_feedVars
    PROVE  ReplayInv'
<1> DEFINE n == Len(shown)
<1>1. PICK m : m = Len(shown')
  OBVIOUS
<1>2. n \in Nat /\ m \in Nat /\ n <= m
  BY <1>1, NextShown
<1>3. /\ Numbered(feed) /\ Numbered(feed') /\ feed' \in Seq(Nat)
      /\ \A s, a, b : Piece(feed, s, a, b) => Piece(feed', s, a, b)
      /\ \A c, k : Reads(feed, c, k) => Reads(feed', c, k)
  BY NextKnown DEF PageInv, FeedInv, Numbered
<1> SUFFICES ASSUME NEW r \in Replay
             PROVE  /\ \E k \in 0 .. m : Reads(feed', replays'[r].cursor, k)
                    /\ Joins(feed', replays'[r].items, m)
  BY <1>1 DEF ReplayInv
<1>4. PICK k \in 0 .. n : Reads(feed, replays[r].cursor, k)
  BY DEF PageInv, ReplayInv
<1>5. Joins(feed, replays[r].items, n)
  BY DEF PageInv, ReplayInv
<1>6. \E j \in 0 .. m : Reads(feed', replays'[r].cursor, j)
  <2>1. Reads(feed', replays[r].cursor, k) /\ Reads(feed', 0, 0) /\ Reads(feed', last, n)
    BY <1>2, <1>3, <1>4, NothingJoins DEF PageInv, ShownInv
  <2>2. k \in 0 .. m /\ 0 \in 0 .. m /\ n \in 0 .. m
    BY <1>2, <1>4
  <2>3. replays'[r].cursor \in {replays[r].cursor, 0, last}
    BY ReplayMoves DEF PageInv, FeedInv
  <2> HIDE DEF n
  <2> QED
    BY <2>1, <2>2, <2>3
<1>7. Joins(feed', replays'[r].items, m)
  <2>1. CASE replays'[r].items = replays[r].items
    BY <1>2, <1>3, <1>5, <2>1, StillJoins
  <2>2. CASE replays'[r].items = <<>>
    BY <1>2, <1>3, <2>2, NothingJoins
  <2>3. CASE replays'[r].items = Page(replays[r].cursor)
    <3>1. PICK b \in 0 .. Len(feed) : Piece(feed, Page(replays[r].cursor), k + 1, b)
      BY <1>3, <1>4, PageBegins
    <3>2. k + 1 \in 1 .. n + 1
      BY <1>2, <1>4
    <3>3. Joins(feed, Page(replays[r].cursor), n)
      BY <3>1, <3>2 DEF Joins
    <3> QED
      BY <1>2, <1>3, <2>3, <3>3, StillJoins
  <2> QED
    BY <2>1, <2>2, <2>3, ReplayMoves DEF PageInv, FeedInv
<1> QED
  BY <1>6, <1>7

-----------------------------------------------------------------------------
(* The stream goes on, is opened where the page is, or is closed           *)
LEMMA StreamMoves ==
    ASSUME FeedTypeOK, [FeedNext]_feedVars, ~ StreamEvents, ~ StreamMessage
    PROVE  \/ stream' = NoStream \/ OpenStream
           \/ stream'.cursor = stream.cursor /\ stream'.wire = stream.wire
<1>1. WriterStep \/ UNCHANGED feedVars => UNCHANGED stream
  BY WriterAppends DEF page, feedVars
<1>2. CASE StreamState
  BY <1>2 DEF StreamState, FeedTypeOK
<1>3. ASSUME PageStep, ~ StreamState
      PROVE  stream' = NoStream \/ OpenStream \/ UNCHANGED stream
  BY <1>3 DEF PageStep, Start, RetryNow, ReplayStep, TimerStep, ReplayFails, StreamStep,
              StreamBreaks, Leave, ReadPage, AcceptPage, ReadJob, AcceptJob, ReconnectTimer,
              PollTimer, StreamOver, Halt, Finish, StartPolling, ScheduleReconnect
<1> QED
  BY <1>1, <1>2, <1>3 DEF FeedNext

LEMMA NextStream ==
    ASSUME PageInv, [FeedNext]_feedVars
    PROVE  StreamInv'
<1> DEFINE n == Len(shown)
<1>1. PICK m : m = Len(shown')
  OBVIOUS
<1>2. n \in Nat /\ m \in Nat /\ n <= m /\ Reads(feed', last', m)
  BY <1>1, NextShown DEF ShownInv
<1>3. /\ Numbered(feed) /\ Numbered(feed') /\ feed \in Seq(Nat) /\ feed' \in Seq(Nat)
      /\ \A s, a, b : Piece(feed, s, a, b) => Piece(feed', s, a, b)
      /\ \A c, k : Reads(feed, c, k) => Reads(feed', c, k)
  BY NextKnown DEF PageInv, FeedInv, Numbered
<1>4. PICK a \in 1 .. n + 1, b \in 0 .. Len(feed) :
          Piece(feed, stream.wire, a, b) /\ Reads(feed, stream.cursor, b)
  BY DEF PageInv, StreamInv
<1>5. ASSUME NEW i \in 1 .. m + 1, NEW j,
             Piece(feed', stream'.wire, i, j), Reads(feed', stream'.cursor, j)
      PROVE  StreamInv'
  <2>1. j \in 0 .. Len(feed')
    BY <1>5 DEF Piece
  <2> QED
    BY <1>1, <1>5, <2>1 DEF StreamInv
<1>6. a \in 1 .. m + 1 /\ b \in Nat
  BY <1>2, <1>3, <1>4
<1>7. CASE stream' = NoStream
  <2>1. Piece(feed', stream'.wire, 1, 0) /\ Reads(feed', stream'.cursor, 0)
    BY <1>2, <1>3, <1>7, NothingJoins DEF NoStream
  <2> QED
    BY <1>2, <1>5, <2>1
<1>8. CASE OpenStream
  <2>1. stream'.wire = <<>> /\ Reads(feed', stream'.cursor, m)
    BY <1>2, <1>8 DEF OpenStream
  <2>2. m \in 0 .. Len(feed')
    BY <1>2 DEF Reads
  <2>3. Piece(feed', stream'.wire, m + 1, m)
    BY <1>2, <1>3, <2>1, <2>2 DEF Piece
  <2>4. m + 1 \in 1 .. m + 1
    BY <1>2
  <2> QED
    BY <1>5, <2>1, <2>3, <2>4
<1>9. CASE stream'.cursor = stream.cursor /\ stream'.wire = stream.wire
  BY <1>3, <1>4, <1>5, <1>6, <1>9
<1>10. CASE StreamEvents
  <2>1. PICK items : items = Page(stream.cursor)
    OBVIOUS
  <2>2. /\ stream'.cursor = IF items = <<>> THEN stream.cursor ELSE Last(items)
        /\ stream'.wire = stream.wire \o items /\ feed' = feed
    BY <1>10, <2>1 DEF StreamEvents, writer
  <2>3. PICK e \in 0 .. Len(feed) : Piece(feed, items, b + 1, e)
    BY <1>3, <1>4, <2>1, PageBegins
  <2>4. Piece(feed, stream'.wire, a, e)
    BY <1>3, <1>4, <2>2, <2>3, Joined
  <2>5. Reads(feed, stream'.cursor, e)
    <3>1. CASE items = <<>>
      <4>1. e = b
        BY <1>6, <2>3, <3>1 DEF Piece
      <4> QED
        BY <1>4, <2>2, <3>1, <4>1
    <3>2. CASE items # <<>>
      BY <2>2, <2>3, <3>2, LastReads
    <3> QED
      BY <3>1, <3>2
  <2> QED
    BY <1>5, <1>6, <2>2, <2>4, <2>5
<1>11. CASE StreamMessage
  <2>1. CASE stream' = NoStream
    BY <1>7, <2>1
  <2>2. CASE stream' # NoStream
    <3>1. /\ stream' = [stream EXCEPT !.wire = Tail(@)] /\ feed' = feed
          /\ stream.wire # <<>> /\ Accept(<<Head(stream.wire)>>)
      BY <1>11, <2>2 DEF StreamMessage, Finish, Halt, writer
    <3>2. stream'.cursor = stream.cursor /\ stream'.wire = Tail(stream.wire)
      BY <3>1 DEF PageInv, FeedInv, FeedTypeOK
    <3>3. Piece(feed, <<Head(stream.wire)>>, a, a) /\ Piece(feed, Tail(stream.wire), a + 1, b)
      BY <1>4, <3>1, HeadIsPiece
    <3>4. a <= n + 1
      BY <1>2, <1>4
    <3>5. a <= m
      BY <1>1, <3>1, <3>3, <3>4, AcceptShows DEF PageInv, FeedInv
    <3>6. a + 1 \in 1 .. m + 1
      BY <1>2, <1>6, <3>5
    <3> QED
      BY <1>4, <1>5, <3>1, <3>2, <3>3, <3>6
  <2> QED
    BY <2>1, <2>2
<1> QED
  BY <1>7, <1>8, <1>9, <1>10, <1>11, StreamMoves DEF PageInv, FeedInv

-----------------------------------------------------------------------------
LEMMA NextCount ==
    ASSUME FeedInv, [FeedNext]_feedVars
    PROVE  /\ CountInv' /\ Numbered(feed')
           /\ state' \in {"active", "terminal"} /\ notice' \in BOOLEAN
           /\ count' \in Sequence /\ feed' \in Seq(Sequence) /\ ends' \subseteq Sequence
<1> USE FeedBounds
<1>1. /\ state \in {"active", "terminal"} /\ notice \in BOOLEAN
      /\ count \in Nat /\ count <= MaxEvents + 2 /\ feed \in Seq(Sequence)
      /\ ends \subseteq Sequence
  BY DEF FeedInv, FeedTypeOK, Sequence
<1>2. (state = "active" => count <= MaxEvents) /\ (notice => Ended /\ count <= MaxEvents + 1)
  BY DEF FeedInv, CountInv, Ended
<1>3. CASE UNCHANGED writer
  <2>1. UNCHANGED <<state, count, feed, ends, notice>>
    BY <1>3 DEF writer
  <2> QED
    BY <2>1 DEF FeedInv, FeedTypeOK, CountInv, Ended
<1>4. CASE WriterStep
  <2>1. /\ state' \in {"active", "terminal"} /\ notice' \in BOOLEAN
        /\ count' \in Nat /\ count' <= MaxEvents + 2
        /\ state' = "active" => count' <= MaxEvents
        /\ notice' => state' = "terminal" /\ count' <= MaxEvents + 1
    <3>1. CASE Note \/ News
      BY <1>1, <1>2, <3>1 DEF Note, News, AppendEvent, Ended
    <3>2. CASE End
      BY <1>1, <1>2, <3>2 DEF End, AppendEvent, Ended
    <3>3. CASE Emit
      <4>1. state' = state /\ notice' = FALSE /\ count' = count + 1 /\ notice
        BY <3>3 DEF Emit, AppendEvent
      <4>2. state = "terminal" /\ count <= MaxEvents + 1
        BY <1>2, <4>1 DEF Ended
      <4>3. count' \in Nat /\ count' <= MaxEvents + 2 /\ state' = "terminal"
        BY <1>1, <4>1, <4>2
      <4> QED
        BY <4>1, <4>3
    <3>4. CASE Refuse
      BY <1>1, <1>2, <3>4 DEF Refuse, Ended
    <3> QED
      BY <1>4, <3>1, <3>2, <3>3, <3>4 DEF WriterStep
  <2>2. /\ feed' = feed \/ feed' = Append(feed, count')
        /\ ends' \subseteq ends \cup {count'}
    BY <1>4 DEF WriterStep, Note, News, End, Emit, Refuse, AppendEvent
  <2>3. count' \in Sequence
    BY <2>1 DEF Sequence
  <2>4. feed' \in Seq(Sequence) /\ ends' \subseteq Sequence
    BY <1>1, <2>2, <2>3
  <2>5. Numbered(feed') /\ \A i \in 1 .. Len(feed') : feed'[i] <= count'
    BY NextKnown
  <2> QED
    BY <2>1, <2>3, <2>4, <2>5 DEF CountInv, Ended
<1> QED
  BY <1>3, <1>4, PageWritesNothing DEF FeedNext, feedVars, writer

(* The switches and counters of the page                                   *)
SwitchesOK ==
    /\ {stopped, finished, reconnect} \subseteq BOOLEAN
    /\ attempts \in 0 .. Reconnects + 1
    /\ polls \in [known : BOOLEAN, stray : BOOLEAN]
    /\ faults \in 0 .. MaxFaults /\ asks \in 0 .. MaxAsks + 1

LEMMA NextSwitches ==
    ASSUME FeedTypeOK, [FeedNext]_feedVars
    PROVE  SwitchesOK'
<1> USE FeedBounds
<1>1. SwitchesOK
  BY DEF FeedTypeOK, SwitchesOK
<1>2. CASE WriterStep \/ UNCHANGED feedVars
  BY <1>1, <1>2, WriterAppends DEF page, feedVars, SwitchesOK
<1>3. ASSUME Halt
      PROVE  {stopped, reconnect}' \subseteq BOOLEAN /\ polls' \in [known : BOOLEAN,
      stray : BOOLEAN]
  BY <1>1, <1>3 DEF Halt, SwitchesOK
<1>4. ASSUME NEW r \in Replay, Start(r) \/ RetryNow(r) \/ ReadPage(r) \/ AcceptPage(r) \/ ReadJob(r)
      PROVE  SwitchesOK'
  <2>1. CASE Start(r)
    <3>1. stopped' = FALSE /\ asks' = 1
      BY <2>1 DEF Start
    <3>2. UNCHANGED <<finished, reconnect, attempts, polls, faults>>
      BY <2>1 DEF Start
    <3>3. 1 \in 0 .. MaxAsks + 1
      OBVIOUS
    <3> QED
      BY <1>1, <3>1, <3>2, <3>3 DEF SwitchesOK
  <2>2. CASE RetryNow(r)
    <3>1. asks' \in 0 .. MaxAsks + 1 /\ attempts' \in 0 .. Reconnects + 1 /\ reconnect' = FALSE
      BY <2>2 DEF RetryNow
    <3>2. polls' \in [known : BOOLEAN, stray : BOOLEAN]
      BY <1>1, <2>2 DEF RetryNow, SwitchesOK
    <3>3. UNCHANGED <<stopped, finished, faults>>
      BY <2>2 DEF RetryNow
    <3> QED
      BY <1>1, <3>1, <3>2, <3>3 DEF SwitchesOK
  <2>3. CASE ReadPage(r) \/ AcceptPage(r) \/ ReadJob(r)
    BY <1>1, <2>3 DEF ReadPage, AcceptPage, ReadJob, SwitchesOK
  <2> QED
    BY <1>4, <2>1, <2>2, <2>3
<1>5. ASSUME ScheduleReconnect \/ StartPolling \/ (PollAgain /\ UNCHANGED <<attempts, reconnect>>)
      PROVE  /\ attempts' \in 0 .. Reconnects + 1 /\ reconnect' \in BOOLEAN
             /\ polls' \in [known : BOOLEAN, stray : BOOLEAN]
  <2>1. CASE ScheduleReconnect
    <3>1. attempts' \in 0 .. Reconnects + 1 /\ reconnect' \in BOOLEAN
      <4>1. attempts \in 0 .. Reconnects + 1 /\ reconnect \in BOOLEAN /\ Reconnects \in Nat
        BY <1>1 DEF SwitchesOK
      <4>2. \/ attempts < Reconnects /\ attempts' = attempts + 1 /\ reconnect' = TRUE
            \/ attempts' = Reconnects + 1 /\ reconnect' = reconnect
        BY <2>1 DEF ScheduleReconnect
      <4>3. attempts' \in 0 .. Reconnects + 1
        BY <4>1, <4>2
      <4>4. reconnect' \in BOOLEAN
        BY <4>1, <4>2
      <4> QED
        BY <4>3, <4>4
    <3>2. polls' = polls \/ polls' = [polls EXCEPT !.known = TRUE]
      BY <2>1 DEF ScheduleReconnect
    <3> QED
      BY <1>1, <3>1, <3>2 DEF SwitchesOK
  <2>2. CASE StartPolling
    BY <1>1, <2>2 DEF StartPolling, SwitchesOK
  <2>3. CASE PollAgain /\ UNCHANGED <<attempts, reconnect>>
    BY <1>1, <2>3 DEF PollAgain, SwitchesOK
  <2> QED
    BY <1>5, <2>1, <2>2, <2>3
<1>6. ASSUME NEW r \in Replay, AcceptJob(r)
      PROVE  SwitchesOK'
  <2>1. UNCHANGED <<attempts, faults, asks>>
    BY <1>6 DEF AcceptJob
  <2>2. CASE UNCHANGED <<stopped, finished, reconnect, polls>>
    BY <1>1, <2>1, <2>2 DEF SwitchesOK
  <2>3. CASE Finish
    BY <1>1, <1>3, <2>1, <2>3 DEF Finish, SwitchesOK
  <2>4. CASE PollAgain /\ UNCHANGED <<stopped, finished, stream, reconnect>>
    BY <1>1, <1>5, <2>1, <2>4 DEF SwitchesOK
  <2> QED
    BY <1>6, <2>2, <2>3, <2>4 DEF AcceptJob
<1>7. ASSUME NEW r \in Replay, ReconnectTimer(r) \/ PollTimer(r)
      PROVE  SwitchesOK'
  BY <1>1, <1>7 DEF ReconnectTimer, PollTimer, SwitchesOK
<1>8. ASSUME NEW r \in Replay, ReplayFails(r)
      PROVE  SwitchesOK'
  <2>1. faults' \in 0 .. MaxFaults /\ UNCHANGED <<stopped, finished, asks>>
    BY <1>1, <1>8 DEF ReplayFails, SwitchesOK
  <2>2. CASE UNCHANGED <<attempts, stream, reconnect, polls>>
    BY <1>1, <2>1, <2>2 DEF SwitchesOK
  <2>3. CASE ScheduleReconnect \/ StartPolling \/ (PollAgain /\ UNCHANGED <<attempts, reconnect>>)
    BY <1>1, <1>5, <2>1, <2>3 DEF SwitchesOK
  <2>4. UNCHANGED <<attempts, stream, reconnect>> => UNCHANGED <<attempts, reconnect>>
    OBVIOUS
  <2> QED
    BY <1>8, <2>2, <2>3, <2>4 DEF ReplayFails
<1>9. CASE StreamState \/ StreamEvents
  BY <1>1, <1>9 DEF StreamState, StreamEvents, SwitchesOK
<1>10. CASE StreamMessage
  <2>1. attempts' \in 0 .. Reconnects + 1 /\ UNCHANGED <<faults, asks>>
    BY <1>10 DEF StreamMessage
  <2>2. Finish \/ UNCHANGED <<stopped, finished, reconnect, polls>>
    BY <1>10 DEF StreamMessage
  <2> QED
    BY <1>1, <1>3, <2>1, <2>2 DEF Finish, SwitchesOK
<1>11. CASE StreamOver \/ StreamBreaks
  <2>1. ScheduleReconnect /\ UNCHANGED <<stopped, finished, asks>>
    BY <1>11 DEF StreamOver, StreamBreaks
  <2>2. faults' \in 0 .. MaxFaults
    BY <1>1, <1>11 DEF StreamOver, StreamBreaks, SwitchesOK
  <2>3. /\ attempts' \in 0 .. Reconnects + 1 /\ reconnect' \in BOOLEAN
        /\ polls' \in [known : BOOLEAN, stray : BOOLEAN]
    BY <1>5, <2>1
  <2>4. stopped' = stopped /\ finished' = finished /\ asks' = asks
    BY <2>1
  <2> QED
    BY <1>1, <2>2, <2>3, <2>4 DEF SwitchesOK
<1>12. CASE Leave
  BY <1>1, <1>3, <1>12 DEF Leave, SwitchesOK
<1> QED
  BY <1>2, <1>4, <1>6, <1>7, <1>8, <1>9, <1>10, <1>11, <1>12
     DEF FeedNext, PageStep, ReplayStep, TimerStep, StreamStep

LEMMA PageType ==
    ASSUME PageInv, NEW c, NEW k, Reads(feed, c, k)
    PROVE  Page(c) \in Seq(Sequence)
<1>1. Numbered(feed) /\ feed \in Seq(Sequence)
  BY DEF PageInv, FeedInv, FeedTypeOK
<1>2. PICK b \in 0 .. Len(feed) : Piece(feed, Page(c), k + 1, b)
  BY <1>1, PageBegins
<1> QED
  BY <1>1, <1>2, PieceType

(* What a replay and the stream look like                                  *)
ReplayShape == [why : Reasons \cup {"none"}, at : {"none", "page", "accept", "job", "reply"},
                cursor : Sequence, items : Seq(Sequence), ended : BOOLEAN]
StreamShape == [at : {"closed", "state", "events", "over"}, cursor : Sequence,
                ended : BOOLEAN, wire : Seq(Sequence)]

LEMMA NextReplays ==
    ASSUME PageInv, [FeedNext]_feedVars
    PROVE  replays' \in [Replay -> ReplayShape]
<1> USE FeedBounds
<1>1. replays \in [Replay -> ReplayShape] /\ last \in Sequence /\ 0 \in Sequence
  BY DEF PageInv, FeedInv, FeedTypeOK, ReplayShape, Sequence
<1>2. ASSUME NEW r \in Replay, NEW x \in ReplayShape, replays' = [replays EXCEPT ![r] = x]
      PROVE  replays' \in [Replay -> ReplayShape]
  BY <1>1, <1>2
<1>3. NoReplay \in ReplayShape
  BY <1>1 DEF NoReplay, ReplayShape
<1>4. ASSUME NEW r \in Replay, NEW why \in Reasons, Ask(r, why)
      PROVE  replays' \in [Replay -> ReplayShape]
  <2>1. [why |-> why, at |-> "page", cursor |-> last, items |-> <<>>, ended |-> FALSE]
        \in ReplayShape
    BY <1>1 DEF ReplayShape
  <2> QED
    BY <1>2, <1>4, <2>1 DEF Ask
<1>5. ASSUME NEW r \in Replay, ReadPage(r)
      PROVE  replays' \in [Replay -> ReplayShape]
  <2>1. PICK x : x = [why |-> replays[r].why, at |-> "accept", cursor |-> 0,
                      items |-> Page(replays[r].cursor), ended |-> FALSE]
    OBVIOUS
  <2>2. replays' = [replays EXCEPT ![r] = x]
    BY <1>1, <1>5, <2>1 DEF ReadPage
  <2>3. Page(replays[r].cursor) \in Seq(Sequence)
    BY PageType DEF PageInv, ReplayInv
  <2>4. x \in ReplayShape
    BY <1>1, <2>1, <2>3 DEF ReplayShape
  <2> QED
    BY <1>2, <2>2, <2>4
<1>6. ASSUME NEW r \in Replay, AcceptPage(r)
      PROVE  replays' \in [Replay -> ReplayShape]
  <2>1. PICK x : x = [replays[r] EXCEPT !.at = "job", !.items = <<>>]
    OBVIOUS
  <2>2. replays' = [replays EXCEPT ![r] = x]
    BY <1>1, <1>6, <2>1 DEF AcceptPage
  <2>3. x \in ReplayShape
    <3>1. replays[r] \in ReplayShape /\ <<>> \in Seq(Sequence)
      BY <1>1
    <3> QED
      BY <2>1, <3>1 DEF ReplayShape
  <2> QED
    BY <1>2, <2>2, <2>3
<1>7. ASSUME NEW r \in Replay, ReadJob(r)
      PROVE  replays' \in [Replay -> ReplayShape]
  <2>1. PICK x : x = [replays[r] EXCEPT !.at = "reply", !.ended = Ended]
    OBVIOUS
  <2>2. replays' = [replays EXCEPT ![r] = x]
    BY <1>1, <1>7, <2>1 DEF ReadJob
  <2>3. x \in ReplayShape
    BY <1>1, <2>1 DEF ReplayShape, Ended
  <2> QED
    BY <1>2, <2>2, <2>3
<1>8. ASSUME PageStep
      PROVE  \/ UNCHANGED replays
             \/ \E r \in Replay :
                    \/ \E why \in Reasons : Ask(r, why)
                    \/ ReadPage(r) \/ AcceptPage(r) \/ ReadJob(r)
                    \/ replays' = [replays EXCEPT ![r] = NoReplay]
  BY <1>8 DEF PageStep, Start, RetryNow, ReplayStep, TimerStep, ReplayFails, StreamStep,
              StreamBreaks, Leave, AcceptJob, ReconnectTimer, PollTimer, StreamState,
              StreamEvents, StreamMessage, StreamOver, Reasons
<1>9. WriterStep \/ UNCHANGED feedVars => UNCHANGED replays
  BY WriterAppends DEF page, feedVars
<1> QED
  BY <1>1, <1>2, <1>3, <1>4, <1>5, <1>6, <1>7, <1>8, <1>9 DEF FeedNext

LEMMA NextStreams ==
    ASSUME PageInv, [FeedNext]_feedVars, last' \in Sequence
    PROVE  stream' \in StreamShape
<1> USE FeedBounds
<1>1. stream \in StreamShape /\ 0 \in Sequence
  BY DEF PageInv, FeedInv, FeedTypeOK, StreamShape, Sequence
<1>2. CASE UNCHANGED stream
  BY <1>1, <1>2
<1>3. CASE stream' = NoStream
  BY <1>1, <1>3 DEF NoStream, StreamShape
<1>4. CASE OpenStream
  BY <1>1, <1>4 DEF OpenStream, StreamShape
<1>5. CASE StreamState
  BY <1>1, <1>5 DEF StreamState, StreamShape, Ended
<1>6. CASE StreamEvents
  <2>1. PICK items : items = Page(stream.cursor)
    OBVIOUS
  <2>2. items \in Seq(Sequence)
    BY <2>1, PageType DEF PageInv, StreamInv
  <2>3. stream.wire \o items \in Seq(Sequence)
    BY <1>1, <2>2, ConcatProperties DEF StreamShape
  <2>4. items # <<>> => Last(items) \in Sequence
    BY <2>2 DEF Last
  <2>5. stream' = [at     |-> IF stream.ended /\ items = <<>> THEN "over" ELSE "state",
                   cursor |-> IF items = <<>> THEN stream.cursor ELSE Last(items),
                   ended  |-> FALSE,
                   wire   |-> stream.wire \o items]
    BY <1>6, <2>1 DEF StreamEvents
  <2> QED
    BY <1>1, <2>3, <2>4, <2>5 DEF StreamShape
<1>7. CASE stream' = [stream EXCEPT !.wire = Tail(@)] /\ stream.wire # <<>>
  <2>1. Tail(stream.wire) \in Seq(Sequence)
    BY <1>1, <1>7 DEF StreamShape
  <2> QED
    BY <1>1, <1>7, <2>1 DEF StreamShape
<1>8. ASSUME PageStep, ~ StreamState, ~ StreamEvents
      PROVE  \/ UNCHANGED stream \/ stream' = NoStream \/ OpenStream
             \/ stream' = [stream EXCEPT !.wire = Tail(@)] /\ stream.wire # <<>>
  BY <1>8 DEF PageStep, Start, RetryNow, ReplayStep, TimerStep, ReplayFails, StreamStep,
              StreamBreaks, Leave, ReadPage, AcceptPage, ReadJob, AcceptJob, ReconnectTimer,
              PollTimer, StreamOver, StreamMessage, Halt, Finish, StartPolling, ScheduleReconnect
<1>9. WriterStep \/ UNCHANGED feedVars => UNCHANGED stream
  BY WriterAppends DEF page, feedVars
<1> QED
  BY <1>2, <1>3, <1>4, <1>5, <1>6, <1>7, <1>8, <1>9 DEF FeedNext

LEMMA NextPage == PageInv /\ [FeedNext]_feedVars => PageInv'
<1> SUFFICES ASSUME PageInv, [FeedNext]_feedVars
             PROVE  PageInv'
  OBVIOUS
<1>1. ShownInv' /\ ReplayInv' /\ StreamInv'
  BY NextShown, NextReplay, NextStream
<1>2. /\ CountInv' /\ Numbered(feed')
      /\ state' \in {"active", "terminal"} /\ notice' \in BOOLEAN
      /\ count' \in Sequence /\ feed' \in Seq(Sequence) /\ ends' \subseteq Sequence
  BY NextCount DEF PageInv
<1>3. SwitchesOK'
  BY NextSwitches DEF PageInv, FeedInv
<1>4. last' \in Sequence /\ shown' \in Seq(Sequence)
  BY <1>1, <1>2, PieceType, ReadsType DEF ShownInv
<1>5. replays' \in [Replay -> ReplayShape] /\ stream' \in StreamShape
  BY <1>4, NextReplays, NextStreams
<1>6. FeedTypeOK'
  BY <1>2, <1>3, <1>4, <1>5 DEF FeedTypeOK, SwitchesOK, ReplayShape, StreamShape
<1> QED
  BY <1>1, <1>2, <1>6 DEF PageInv, FeedInv

LEMMA InitPage == FeedInit => PageInv
<1> SUFFICES ASSUME FeedInit
             PROVE  PageInv
  OBVIOUS
<1> USE FeedBounds
<1>1. feed = <<>> /\ shown = <<>> /\ last = 0 /\ feed \in Seq(Nat) /\ Len(shown) = 0
  BY DEF FeedInit
<1>2. Joins(feed, <<>>, 0) /\ Reads(feed, 0, 0) /\ Piece(feed, <<>>, 1, 0)
  BY <1>1, NothingJoins
<1>3. Numbered(feed)
  BY <1>1 DEF Numbered
<1>4. ShownInv
  BY <1>1, <1>2 DEF ShownInv
<1>5. ReplayInv
  <2>1. 0 \in 0 .. Len(shown)
    BY <1>1
  <2> QED
    BY <1>1, <1>2, <2>1 DEF FeedInit, NoReplay, ReplayInv
<1>6. StreamInv
  <2>1. 1 \in 1 .. Len(shown) + 1 /\ 0 \in 0 .. Len(feed)
    BY <1>1
  <2>2. stream.wire = <<>> /\ stream.cursor = 0
    BY DEF FeedInit, NoStream
  <2> QED
    BY <1>2, <2>1, <2>2 DEF StreamInv
<1>7. CountInv
  BY <1>1 DEF FeedInit, CountInv, Ended
<1>8. SwitchesOK
  <2>1. /\ stopped = TRUE /\ finished = FALSE /\ reconnect = FALSE /\ attempts = 0 /\ faults = 0
        /\ polls = [known |-> FALSE, stray |-> FALSE] /\ asks = 0
    BY DEF FeedInit
  <2>2. 0 \in 0 .. Reconnects + 1 /\ 0 \in 0 .. MaxFaults /\ 0 \in 0 .. MaxAsks + 1
    OBVIOUS
  <2> QED
    BY <2>1, <2>2 DEF SwitchesOK
<1>9. 0 \in Sequence /\ NoReplay \in ReplayShape /\ NoStream \in StreamShape
  BY DEF NoReplay, NoStream, ReplayShape, StreamShape, Sequence
<1>10. replays \in [Replay -> ReplayShape] /\ stream \in StreamShape
  BY <1>9 DEF FeedInit
<1>11. FeedTypeOK
  <2>1. state = "active" /\ count = 0 /\ ends = {} /\ notice = FALSE
    BY DEF FeedInit
  <2>2. <<>> \in Seq(Sequence)
    OBVIOUS
  <2> QED
    BY <1>1, <1>8, <1>9, <1>10, <2>1, <2>2 DEF FeedTypeOK, SwitchesOK, ReplayShape, StreamShape
<1> QED
  BY <1>3, <1>4, <1>5, <1>6, <1>7, <1>11 DEF PageInv, FeedInv

(***************************************************************************)
(* The log, the page, its replays and its stream keep their types, and the *)
(* counters stay below their bounds, for any number of replays and events  *)
(* and every size of a page (jobs.py's event log, ActivityFeed).           *)
(***************************************************************************)
THEOREM ActivityTypeCorrect == FeedSpec => []FeedTypeOK
<1>1. PageInv => FeedTypeOK
  BY DEF PageInv, FeedInv
<1> QED
  BY <1>1, InitPage, NextPage, PTL DEF FeedSpec

(***************************************************************************)
(* Whatever replays, polls and streams overlap, and in whatever order      *)
(* their replies arrive, a page shows the public feed up to the newest     *)
(* event it has: none twice, none out of order, none left out (#accept     *)
(* over the pages of public_events and the stream's own cursor).           *)
(***************************************************************************)
THEOREM PagesShowTheFeed == FeedSpec => []ShownIsTheFeed
<1>1. PageInv => ShownIsTheFeed
  <2> SUFFICES ASSUME PageInv
               PROVE  ShownIsTheFeed
    OBVIOUS
  <2>1. Numbered(feed) /\ feed \in Seq(Nat)
    BY DEF PageInv, FeedInv, Numbered
  <2>2. Piece(feed, shown, 1, Len(shown)) /\ Reads(feed, last, Len(shown))
    BY DEF PageInv, ShownInv
  <2>3. UpTo(feed, last) = Len(shown)
    BY <2>1, <2>2, CursorTells
  <2>4. Piece(feed, SubSeq(feed, 1, Len(shown)), 1, Len(shown))
    BY <2>1, <2>2, Cut DEF Piece
  <2> QED
    BY <2>2, <2>3, <2>4, SamePiece DEF ShownIsTheFeed
<1> QED
  BY <1>1, InitPage, NextPage, PTL DEF FeedSpec

-----------------------------------------------------------------------------
ToldInv == PageInv /\ EndInv

LEMMA NextEnd == ToldInv /\ [FeedNext]_feedVars => EndInv'
<1> SUFFICES ASSUME ToldInv, [FeedNext]_feedVars
             PROVE  EndInv'
  OBVIOUS
<1>1. EndInv /\ FeedTypeOK
  BY DEF ToldInv, PageInv, FeedInv
<1>2. Ended => Ended'
  <2>1. WriterStep => (Ended => Ended')
    BY DEF WriterStep, Note, News, End, Emit, Refuse, Ended
  <2>2. UNCHANGED writer => (Ended => Ended')
    BY DEF writer, Ended
  <2> QED
    BY <2>1, <2>2, PageWritesNothing DEF FeedNext, feedVars, writer
<1>3. \A r \in Replay : replays'[r].ended => Ended'
  BY <1>1, <1>2, ReplayMoves DEF EndInv
<1>4. ends' # {} \/ notice' => Ended'
  <2>1. CASE WriterStep
    BY <1>1, <2>1 DEF WriterStep, Note, News, End, Emit, Refuse, AppendEvent, Ended, EndInv
  <2>2. CASE UNCHANGED writer
    BY <1>1, <1>2, <2>2 DEF writer, EndInv
  <2> QED
    BY <2>1, <2>2, PageWritesNothing DEF FeedNext, feedVars, writer
<1>5. finished' => Ended'
  <2>1. CASE UNCHANGED finished
    BY <1>1, <1>2, <2>1 DEF EndInv
  <2>2. CASE \E r \in Replay : AcceptJob(r) /\ replays[r].ended
    BY <1>1, <1>2, <2>2 DEF EndInv
  <2>3. CASE StreamMessage /\ Head(stream.wire) \in ends
    BY <1>1, <1>2, <2>3 DEF EndInv
  <2>4. WriterStep \/ UNCHANGED feedVars => UNCHANGED finished
    BY WriterAppends DEF page, feedVars
  <2>5. ASSUME PageStep
        PROVE  \/ UNCHANGED finished
               \/ \E r \in Replay : AcceptJob(r) /\ replays[r].ended
               \/ StreamMessage /\ Head(stream.wire) \in ends
    <3>1. ASSUME NEW r \in Replay, AcceptJob(r)
          PROVE  UNCHANGED finished \/ (AcceptJob(r) /\ replays[r].ended)
      <4>1. UNCHANGED finished \/ replays[r].ended
        BY <3>1 DEF AcceptJob
      <4> QED
        BY <3>1, <4>1
    <3>2. StreamMessage => UNCHANGED finished \/ (StreamMessage /\ Head(stream.wire) \in ends)
      <4>1. StreamMessage => UNCHANGED finished \/ Head(stream.wire) \in ends
        BY DEF StreamMessage
      <4> QED
        BY <4>1
    <3> QED
      BY <2>5, <3>1, <3>2
         DEF PageStep, Start, RetryNow, ReplayStep, TimerStep, ReplayFails, StreamStep,
             StreamBreaks, Leave, ReadPage, AcceptPage, ReadJob, ReconnectTimer, PollTimer,
             StreamState, StreamEvents, StreamOver
  <2> QED
    BY <2>1, <2>2, <2>3, <2>4, <2>5 DEF FeedNext
<1> QED
  BY <1>3, <1>4, <1>5 DEF EndInv

(***************************************************************************)
(* A page says that the run has ended only when it has: the notice, the    *)
(* rows that carry it and the replies about the run all come after the     *)
(* commit that ends it (_process, stream(), #finish).                      *)
(***************************************************************************)
THEOREM EndsAreTrue == FeedSpec => []EndIsTrue
<1>1. FeedInit => ToldInv
  BY InitPage DEF FeedInit, NoReplay, ToldInv, EndInv
<1>2. ToldInv /\ [FeedNext]_feedVars => ToldInv'
  BY NextPage, NextEnd DEF ToldInv
<1>3. ToldInv => EndIsTrue
  BY DEF ToldInv, EndInv, EndIsTrue
<1> QED
  BY <1>1, <1>2, <1>3, PTL DEF FeedSpec
=============================================================================
