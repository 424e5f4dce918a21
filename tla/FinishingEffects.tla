-------------------------- MODULE FinishingEffects --------------------------
(***************************************************************************)
(* The finishing effects of a run's clips: the pipeline hands one clip     *)
(* after the other to the FFmpeg sidecar and waits for the file            *)
(* (ffmpega.py, ffmpega_service.py, the two callers in pipeline.py).       *)
(*                                                                         *)
(* The sidecar keeps a bounded queue, one worker thread and a bounded      *)
(* history, all in memory; the file is what the two sides share.  The      *)
(* client gives up after a timeout or a failed request and goes on with    *)
(* the native render, and a crashed attempt is repeated with the same file *)
(* names, but what was queued is rendered all the same.                    *)
(*                                                                         *)
(* Calls of apply() are numbered in the order they are made.  The order of *)
(* the FIFO queue and of the history is the order of these numbers, since  *)
(* one attempt of one run is processed at a time (JobQueue).               *)
(***************************************************************************)
EXTENDS Naturals, FiniteSets

CONSTANTS
    Dest,          \* files with effects: one per clip, one per candidate clip
    QueueSize,     \* FFMPEGA_QUEUE_SIZE
    HistorySize,   \* MAX_HISTORY_ITEMS: 100 in the code
    MaxCalls,      \* bound on the calls of apply()
    MaxAttempts,   \* bound on the attempts of the run
    MaxRestarts    \* bound on the restarts of the sidecar

ASSUME EffectsAssumption ==
    /\ QueueSize \in Nat \ {0} /\ HistorySize \in Nat \ {0}
    /\ MaxCalls \in Nat \ {0} /\ MaxAttempts \in Nat \ {0} /\ MaxRestarts \in Nat

VARIABLES
    attempt,     \* the attempt of the run, whose renders the sources are
    calls,       \* calls of apply() so far; the last one may be under way
    to,          \* the destination of each call
    phase,       \* what the pipeline does with the last call
    tried,       \* destinations this attempt has asked for
    file,        \* the destination files: who rendered them from which source
    delivered,   \* the call whose file the attempt goes on with, 0 for none
    queue,       \* calls in the sidecar's queue
    work,        \* the call the worker thread is at, 0 for none
    step,        \* how far the worker thread is
    source,      \* the source that the worker's partial file was made from
    history,     \* calls whose record the sidecar still has
    good,        \* calls that were recorded as a success
    answered,    \* calls that were recorded
    lost,        \* calls the sidecar knew at a restart
    restarts

pipeline == <<attempt, calls, to, phase, tried, delivered>>
sidecar == <<queue, work, step, source, history, good, answered, lost, restarts>>
vars == <<attempt, calls, to, phase, tried, file, delivered,
          queue, work, step, source, history, good, answered, lost, restarts>>

Calls == 1 .. MaxCalls
NoFile == [call |-> 0, source |-> 0]
File == [call : 0 .. MaxCalls, source : 0 .. MaxAttempts]

Oldest(n, S) == \A m \in S : n <= m
ButOldest(S) == {n \in S : ~ Oldest(n, S)}

Init ==
    /\ attempt = 1 /\ calls = 0 /\ to \in {[n \in Calls |-> d] : d \in Dest}
    /\ phase = "idle" /\ tried = {}
    /\ file = [d \in Dest |-> NoFile] /\ delivered = [d \in Dest |-> 0]
    /\ queue = {} /\ work = 0 /\ step = "idle" /\ source = 0 /\ history = {}
    /\ good = {} /\ answered = {} /\ lost = {} /\ restarts = 0

-----------------------------------------------------------------------------
(* The pipeline                                                            *)

(* A crash or the loss of the worker: the run is claimed again, its clips  *)
(* are rendered again and nothing is delivered yet                         *)
Repeat ==
    /\ attempt < MaxAttempts
    /\ attempt' = attempt + 1
    /\ phase' = "idle" /\ tried' = {}
    /\ delivered' = [d \in Dest |-> 0]
    /\ UNCHANGED <<calls, to, file, sidecar>>

(* apply() removes the destination before it asks                          *)
Apply(d) ==
    /\ phase = "idle" /\ d \notin tried /\ calls < MaxCalls
    /\ calls' = calls + 1
    /\ to' = [to EXCEPT ![calls + 1] = d]
    /\ phase' = "post" /\ tried' = tried \cup {d}
    /\ file' = [file EXCEPT ![d] = NoFile]
    /\ UNCHANGED <<attempt, delivered, sidecar>>

(* FFMPEGAError: the caller removes the file and goes on with the native   *)
(* render, or discards the candidate directory                             *)
Native ==
    /\ phase' = "idle"
    /\ file' = [file EXCEPT ![to[calls]] = NoFile]
    /\ UNCHANGED <<attempt, calls, to, tried, delivered>>

(* POST /prompt                                                            *)
Accepted ==
    /\ phase = "post" /\ Cardinality(queue) < QueueSize
    /\ queue' = queue \cup {calls}
    /\ UNCHANGED <<work, step, source, history, good, answered, lost, restarts>>

Submit ==
    /\ Accepted /\ phase' = "poll"
    /\ UNCHANGED <<attempt, calls, to, tried, file, delivered>>

SubmitReplyLost == Accepted /\ Native

(* The queue is full, the request is refused or the sidecar unreachable    *)
SubmitFails == phase = "post" /\ Native /\ UNCHANGED sidecar

(* GET /history: a success counts when the file is there                   *)
Answer ==
    /\ phase = "poll" /\ calls \in history
    /\ \/ /\ calls \in good /\ file[to[calls]] # NoFile
          /\ delivered' = [delivered EXCEPT ![to[calls]] = calls]
          /\ phase' = "idle"
          /\ UNCHANGED <<attempt, calls, to, tried, file>>
       \/ /\ calls \notin good \/ file[to[calls]] = NoFile
          /\ Native
    /\ UNCHANGED sidecar

(* The deadline has passed, or a request for the history fails             *)
GiveUp == phase = "poll" /\ Native /\ UNCHANGED sidecar

-----------------------------------------------------------------------------
(* The sidecar                                                             *)

(* Mutant of Take: the newest call first                                   *)
Take_Newest ==
    /\ work = 0 /\ step' = "render"
    /\ \E n \in queue :
          /\ \A m \in queue : m <= n
          /\ work' = n /\ queue' = queue \ {n}
    /\ UNCHANGED <<source, history, good, answered, lost, restarts, file, pipeline>>

Take ==
    /\ work = 0 /\ step' = "render"
    /\ \E n \in queue :
          /\ Oldest(n, queue)
          /\ work' = n /\ queue' = queue \ {n}
    /\ UNCHANGED <<source, history, good, answered, lost, restarts, file, pipeline>>

(* render_with_upstream: into a partial file, which then replaces the      *)
(* destination in one step.  A source that is being written again meanwhile *)
(* belongs to a call that has been abandoned.                              *)
Render ==
    /\ step = "render"
    /\ step' = "partial" /\ source' = attempt
    /\ UNCHANGED <<queue, work, history, good, answered, lost, restarts, file, pipeline>>

Replace ==
    /\ step = "partial"
    /\ step' = "done"
    /\ file' = [file EXCEPT ![to[work]] = [call |-> work, source |-> source]]
    /\ UNCHANGED <<queue, work, source, history, good, answered, lost, restarts, pipeline>>

Break ==
    /\ step \in {"render", "partial"}
    /\ step' = "failed"
    /\ UNCHANGED <<queue, work, source, history, good, answered, lost, restarts, file, pipeline>>

Idle == work' = 0 /\ step' = "idle" /\ source' = 0

(* Mutant of Bounded: the record just made is the one that has to go       *)
Bounded_Newest(records) ==
    IF Cardinality(records) > HistorySize THEN records \ {work} ELSE records

(* _record: the oldest record makes room                                   *)
Bounded(records) ==
    IF Cardinality(records) > HistorySize THEN ButOldest(records) ELSE records

(* Mutant of Record: only a success is recorded                            *)
Record_Success ==
    /\ step \in {"done", "failed"}
    /\ history' = IF step = "done" THEN Bounded(history \cup {work}) ELSE history
    /\ good' = IF step = "done" THEN good \cup {work} ELSE good
    /\ answered' = IF step = "done" THEN answered \cup {work} ELSE answered
    /\ Idle
    /\ UNCHANGED <<queue, lost, restarts, file, pipeline>>

Record ==
    /\ step \in {"done", "failed"}
    /\ history' = Bounded(history \cup {work})
    /\ good' = IF step = "done" THEN good \cup {work} ELSE good
    /\ answered' = answered \cup {work}
    /\ Idle
    /\ UNCHANGED <<queue, lost, restarts, file, pipeline>>

(* The container restarts: queue, worker and history are gone              *)
Restart ==
    /\ restarts < MaxRestarts
    /\ restarts' = restarts + 1
    /\ lost' = lost \cup queue \cup history \cup ({work} \ {0})
    /\ queue' = {} /\ history' = {} /\ Idle
    /\ UNCHANGED <<good, answered, file, pipeline>>

-----------------------------------------------------------------------------
Worker == Take \/ Render \/ Replace \/ Break \/ Record

Next ==
    \/ Repeat
    \/ \E d \in Dest : Apply(d)
    \/ Submit \/ SubmitReplyLost \/ SubmitFails \/ Answer \/ GiveUp
    \/ Worker \/ Restart

(* The worker thread runs as long as its process does                      *)
Spec == Init /\ [][Next]_vars /\ WF_vars(Worker)

-----------------------------------------------------------------------------
TypeOK ==
    /\ attempt \in 1 .. MaxAttempts /\ calls \in 0 .. MaxCalls
    /\ to \in [Calls -> Dest]
    /\ phase \in {"idle", "post", "poll"} /\ tried \subseteq Dest
    /\ file \in [Dest -> File] /\ delivered \in [Dest -> 0 .. MaxCalls]
    /\ queue \subseteq Calls /\ work \in 0 .. MaxCalls
    /\ step \in {"idle", "render", "partial", "done", "failed"}
    /\ source \in 0 .. MaxAttempts
    /\ {history, good, answered, lost} \subseteq SUBSET Calls
    /\ restarts \in Nat

(***************************************************************************)
(* The file with effects that an attempt goes on with is the one its own   *)
(* call rendered, from this attempt's render, and no abandoned call of the *)
(* same file name replaces it afterwards (apply(), the FIFO queue with one *)
(* worker, and the record that follows the file).                          *)
(***************************************************************************)
DeliveredIsOwn ==
    \A d \in Dest : delivered[d] # 0 =>
        file[d] = [call |-> delivered[d], source |-> attempt]

(***************************************************************************)
(* The bounded history has not forgotten the answer to the call that the   *)
(* pipeline is still waiting for, whatever else the sidecar worked on      *)
(* (_record's order of eviction).                                          *)
(***************************************************************************)
NotForgotten ==
    phase = "poll" /\ calls \in answered \ lost => calls \in history

(***************************************************************************)
(* Every call that was accepted is recorded, or lost with the sidecar's    *)
(* process: a broken render does not stop the only worker thread.          *)
(***************************************************************************)
EveryCallIsAnswered ==
    \A n \in Calls : (n \in queue \/ n = work) ~> n \in answered \cup lost
=============================================================================
