--------------------------- MODULE ActivityStream ---------------------------
(***************************************************************************)
(* The public activity of one run, from its log to the page that shows it  *)
(* (activity.py, the event part of jobs.py, activity.js).                  *)
(*                                                                         *)
(* Writers append to the run's numbered event log under the run's row      *)
(* lock; some events are public.  The page replays the feed from its       *)
(* cursor, follows a stream, reconnects with a bounded number of attempts, *)
(* falls back to polling, and stops when it learns that the run has ended. *)
(* Requests may fail, replies arrive late, several replays overlap, a      *)
(* stream breaks or ends, and the notice of the end may never be recorded. *)
(* The progress an event carries is left out: that a notice is refused     *)
(* because it would lower the progress of the feed is a choice (Refuse).   *)
(***************************************************************************)
EXTENDS Naturals, Sequences, FiniteSets, SequencesExt

CONSTANTS
    PageLimit,     \* events in one page: 100 in the code
    Reconnects,    \* attempts before polling: 3 in the code
    Replay,        \* names for the replays that may be under way together
    MaxEvents,     \* bound on the events recorded while the run is active
    MaxFaults,     \* bound on failed requests and broken streams
    MaxAsks        \* bound on the user's "retry now"

ASSUME ActivityAssumption ==
    /\ PageLimit \in Nat \ {0} /\ Reconnects \in Nat
    /\ IsFiniteSet(Replay)
    /\ {MaxEvents, MaxFaults, MaxAsks} \subseteq Nat

VARIABLES
    state,       \* VideoJob.state: "terminal" for completed, failed, cancelled
    count,       \* JobEvent rows of the run: the newest sequence
    feed,        \* the sequences of its public events, in order
    ends,        \* those of them that say that the run has ended
    notice,      \* the worker has yet to emit the end of the run
    last,        \* ActivityFeed.lastSequence
    shown,       \* the sequences handed to onEvent, in order
    stopped,     \* ActivityFeed.stopped
    finished,    \* onTerminal has been called
    attempts,    \* ActivityFeed.reconnectAttempts
    stream,      \* the EventSource and the generator that serves it
    reconnect,   \* a reconnect timer is armed
    polls,       \* poll timers: the one stop() can clear, and a stray one
    replays,     \* calls of #replay under way
    faults,      \* network failures so far
    asks         \* start() and the user's retries so far

writer == <<state, count, feed, ends, notice>>
page == <<last, shown, stopped, finished, attempts, stream, reconnect, polls,
          replays, faults, asks>>
feedVars == <<state, count, feed, ends, notice, last, shown, stopped, finished,
              attempts, stream, reconnect, polls, replays, faults, asks>>

(* Why a page is asked for: who called #replay                             *)
Reasons == {"start", "reconnect", "retry", "poll"}

(* How many numbers of an ascending list are at most n, and those behind   *)
UpTo(list, n) ==
    CHOOSE k \in 0 .. Len(list) : \A i \in 1 .. Len(list) : list[i] <= n <=> i <= k
After(list, n) == SubSeq(list, UpTo(list, n) + 1, Len(list))

(* public_events: the first page after the cursor, by sequence             *)
Page(cursor) ==
    LET from == UpTo(feed, cursor)
    IN  SubSeq(feed, from + 1,
               IF Len(feed) < from + PageLimit THEN Len(feed) ELSE from + PageLimit)

Ended == state = "terminal"
NoReplay == [why |-> "none", at |-> "none", cursor |-> 0, items |-> <<>>, ended |-> FALSE]
NoStream == [at |-> "closed", cursor |-> 0, ended |-> FALSE, wire |-> <<>>]

FeedInit ==
    /\ state = "active" /\ count = 0 /\ feed = <<>> /\ ends = {} /\ notice = FALSE
    /\ last = 0 /\ shown = <<>> /\ stopped = TRUE /\ finished = FALSE
    /\ attempts = 0 /\ stream = NoStream /\ reconnect = FALSE
    /\ polls = [known |-> FALSE, stray |-> FALSE]
    /\ replays = [r \in Replay |-> NoReplay] /\ faults = 0 /\ asks = 0

-----------------------------------------------------------------------------
(* The writers                                                             *)

(* _append_event, under the row's lock: the next sequence of the run, for  *)
(* the audience "internal" or for the user's, of which an "end" is the key *)
(* activity.system.completed or activity.system.failed                     *)
AppendEvent(kind) ==
    /\ count' = count + 1
    /\ feed' = IF kind = "internal" THEN feed ELSE Append(feed, count + 1)
    /\ ends' = IF kind = "end" THEN ends \cup {count + 1} ELSE ends

(* update() and record_event(): internal events                            *)
Note ==
    /\ ~ Ended /\ count < MaxEvents
    /\ AppendEvent("internal")
    /\ UNCHANGED <<state, notice, page>>

(* stage(), the pipeline's notices, the renderer's callback and the queue. *)
(* One that would lower the progress of the feed, also with the progress   *)
(* of the row, is not recorded: it does not happen here.                   *)
News ==
    /\ ~ Ended /\ count < MaxEvents
    /\ AppendEvent("news")
    /\ UNCHANGED <<state, notice, page>>

(* _process: the run ends in one transaction, the notice follows           *)
End ==
    /\ ~ Ended
    /\ state' = "terminal"
    /\ AppendEvent("internal")
    /\ notice' = TRUE
    /\ UNCHANGED page

(* Mutant of Emit: the notice of the end does not wait for the commit       *)
Emit_Early ==
    /\ notice \/ (~ Ended /\ count < MaxEvents)
    /\ notice' = FALSE
    /\ AppendEvent("end")
    /\ UNCHANGED <<state, page>>

Emit ==
    /\ notice /\ notice' = FALSE
    /\ AppendEvent("end")
    /\ UNCHANGED <<state, page>>

(* A notice that lowers the progress of the feed, and does so again with   *)
(* the row's progress, is given up by emit_safely; so is one the storage   *)
(* refuses, and a crash of the worker loses it                             *)
Refuse ==
    /\ notice /\ notice' = FALSE
    /\ UNCHANGED <<state, count, feed, ends, page>>

-----------------------------------------------------------------------------
(* The page.  Each helper describes what one method of ActivityFeed leaves *)
(* behind; the actions put them together.                                  *)

(* Mutant of Accept: a replay hands over what another one has shown        *)
Accept_Again(items) ==
    /\ shown' = shown \o items
    /\ last' = IF items = <<>> \/ Last(items) < last THEN last ELSE Last(items)

(* #accept, for the events of a reply one after the other                  *)
Accept(items) ==
    LET new == After(items, last)
    IN  /\ shown' = shown \o new
        /\ last' = IF new = <<>> THEN last ELSE Last(new)

OpenStream == stream' = [at |-> "state", cursor |-> last', ended |-> FALSE, wire |-> <<>>]

(* stop(): the timers it knows and the stream; replies are not cancelled   *)
Halt ==
    /\ stopped' = TRUE /\ stream' = NoStream /\ reconnect' = FALSE
    /\ polls' = [polls EXCEPT !.known = FALSE]

Finish == Halt /\ finished' = TRUE

StartPolling ==
    /\ stream' = NoStream
    /\ polls' = [polls EXCEPT !.known = TRUE]
    /\ UNCHANGED <<attempts, reconnect>>

ScheduleReconnect ==
    /\ stream' = NoStream
    /\ IF attempts < Reconnects
         THEN attempts' = attempts + 1 /\ reconnect' = TRUE /\ UNCHANGED polls
         ELSE /\ attempts' = Reconnects + 1 /\ UNCHANGED reconnect
              /\ polls' = [polls EXCEPT !.known = TRUE]

(* The poll loop arms its timer again over one it may not know of          *)
PollAgain == polls' = [known |-> TRUE, stray |-> polls.stray \/ polls.known]

Ask(r, why) ==
    /\ replays[r] = NoReplay
    /\ replays' = [replays EXCEPT ![r] =
          [why |-> why, at |-> "page", cursor |-> last, items |-> <<>>, ended |-> FALSE]]

(* start(): one feed is made for each run the user selects                 *)
Start(r) ==
    /\ stopped /\ ~ finished /\ last = 0 /\ asks = 0
    /\ \A q \in Replay : replays[q] = NoReplay
    /\ stopped' = FALSE /\ asks' = 1
    /\ Ask(r, "start")
    /\ UNCHANGED <<last, shown, finished, attempts, stream, reconnect, polls, faults, writer>>

RetryNow(r) ==
    /\ ~ stopped /\ asks \in 1 .. MaxAsks
    /\ asks' = asks + 1 /\ attempts' = 0
    /\ stream' = NoStream /\ reconnect' = FALSE
    /\ polls' = [polls EXCEPT !.known = FALSE]
    /\ Ask(r, "retry")
    /\ UNCHANGED <<last, shown, stopped, finished, faults, writer>>

(* The user selects another run                                            *)
Leave ==
    /\ ~ stopped
    /\ Halt
    /\ UNCHANGED <<last, shown, finished, attempts, replays, faults, asks, writer>>

ReconnectTimer(r) ==
    /\ reconnect
    /\ reconnect' = FALSE
    /\ Ask(r, "reconnect")
    /\ UNCHANGED <<last, shown, stopped, finished, attempts, stream, polls, faults, asks, writer>>

PollTimer(r) ==
    /\ \/ polls.known /\ polls' = [polls EXCEPT !.known = FALSE]
       \/ polls.stray /\ polls' = [polls EXCEPT !.stray = FALSE]
    /\ IF stopped THEN UNCHANGED replays ELSE Ask(r, "poll")
    /\ UNCHANGED <<last, shown, stopped, finished, attempts, stream, reconnect, faults, asks, writer>>

(* #replay: first a page of events, then the run                           *)
ReadPage(r) ==
    /\ replays[r].at = "page"
    /\ replays' = [replays EXCEPT ![r] =
          [why |-> @.why, at |-> "accept", cursor |-> 0, items |-> Page(@.cursor),
           ended |-> FALSE]]
    /\ UNCHANGED <<last, shown, stopped, finished, attempts, stream, reconnect,
                   polls, faults, asks, writer>>

AcceptPage(r) ==
    /\ replays[r].at = "accept"
    /\ Accept(replays[r].items)
    /\ replays' = [replays EXCEPT ![r].at = "job", ![r].items = <<>>]
    /\ UNCHANGED <<stopped, finished, attempts, stream, reconnect, polls, faults, asks, writer>>

ReadJob(r) ==
    /\ replays[r].at = "job"
    /\ replays' = [replays EXCEPT ![r].at = "reply", ![r].ended = Ended]
    /\ UNCHANGED <<last, shown, stopped, finished, attempts, stream, reconnect,
                   polls, faults, asks, writer>>

AcceptJob(r) ==
    /\ replays[r].at = "reply"
    /\ replays' = [replays EXCEPT ![r] = NoReplay]
    /\ UNCHANGED <<last, shown, attempts, faults, asks, writer>>
    /\ \/ /\ stopped
          /\ UNCHANGED <<stopped, finished, stream, reconnect, polls>>
       \/ ~ stopped /\ replays[r].ended /\ Finish
       \/ /\ ~ stopped /\ ~ replays[r].ended /\ replays[r].why # "poll"
          /\ OpenStream
          /\ UNCHANGED <<stopped, finished, reconnect, polls>>
       \/ /\ ~ stopped /\ ~ replays[r].ended /\ replays[r].why = "poll"
          /\ PollAgain
          /\ UNCHANGED <<stopped, finished, stream, reconnect>>

(* One of the two requests fails                                           *)
ReplayFails(r) ==
    /\ replays[r].at # "none" /\ faults < MaxFaults
    /\ faults' = faults + 1
    /\ replays' = [replays EXCEPT ![r] = NoReplay]
    /\ UNCHANGED <<last, shown, stopped, finished, asks, writer>>
    /\ \/ stopped /\ UNCHANGED <<attempts, stream, reconnect, polls>>
       \/ ~ stopped /\ replays[r].why \in {"start", "retry"} /\ StartPolling
       \/ ~ stopped /\ replays[r].why = "reconnect" /\ ScheduleReconnect
       \/ ~ stopped /\ replays[r].why = "poll" /\ PollAgain /\ UNCHANGED <<attempts, stream, reconnect>>

-----------------------------------------------------------------------------
(* The stream                                                              *)

Streaming(at) == stream.at = at

(* stream() looks at the state first and at the events after it            *)
StreamState ==
    /\ Streaming("state")
    /\ stream' = [stream EXCEPT !.at = "events", !.ended = Ended]
    /\ UNCHANGED <<last, shown, stopped, finished, attempts, reconnect, polls,
                   replays, faults, asks, writer>>

StreamEvents ==
    /\ Streaming("events")
    /\ LET items == Page(stream.cursor)
       IN  stream' = [at     |-> IF stream.ended /\ items = <<>> THEN "over" ELSE "state",
                      cursor |-> IF items = <<>> THEN stream.cursor ELSE Last(items),
                      ended  |-> FALSE,
                      wire   |-> stream.wire \o items]
    /\ UNCHANGED <<last, shown, stopped, finished, attempts, reconnect, polls,
                   replays, faults, asks, writer>>

(* The "activity" listener: an event that says the run has ended finishes  *)
StreamMessage ==
    /\ stream.wire # <<>>
    /\ Accept(<<Head(stream.wire)>>)
    /\ attempts' = 0
    /\ \/ /\ Head(stream.wire) \in ends /\ Finish
       \/ /\ Head(stream.wire) \notin ends
          /\ stream' = [stream EXCEPT !.wire = Tail(@)]
          /\ UNCHANGED <<stopped, finished, reconnect, polls>>
    /\ UNCHANGED <<replays, faults, asks, writer>>

(* Mutant of StreamOver: a stream that ends in order is not an error       *)
StreamOver_Quiet ==
    /\ Streaming("over") /\ stream.wire = <<>>
    /\ stream' = NoStream
    /\ UNCHANGED <<last, shown, stopped, finished, attempts, reconnect, polls,
                   replays, faults, asks, writer>>

(* The server ends the stream: the browser reports an error                *)
StreamOver ==
    /\ Streaming("over") /\ stream.wire = <<>>
    /\ ScheduleReconnect
    /\ UNCHANGED <<last, shown, stopped, finished, replays, faults, asks, writer>>

(* The connection breaks or a stream_error arrives: what was on the wire   *)
(* is lost                                                                 *)
StreamBreaks ==
    /\ stream # NoStream /\ faults < MaxFaults
    /\ faults' = faults + 1
    /\ ScheduleReconnect
    /\ UNCHANGED <<last, shown, stopped, finished, replays, asks, writer>>

-----------------------------------------------------------------------------
WriterStep == Note \/ News \/ End \/ Emit \/ Refuse

ReplayStep(r) ==
    ReadPage(r) \/ AcceptPage(r) \/ ReadJob(r) \/ AcceptJob(r)
TimerStep(r) == ReconnectTimer(r) \/ PollTimer(r)
StreamStep == StreamState \/ StreamEvents \/ StreamMessage \/ StreamOver

PageStep ==
    \/ \E r \in Replay : Start(r) \/ RetryNow(r) \/ ReplayStep(r) \/ TimerStep(r)
                         \/ ReplayFails(r)
    \/ StreamStep \/ StreamBreaks \/ Leave

FeedNext == WriterStep \/ PageStep

(***************************************************************************)
(* Requests are answered or fail, timers fire, the generator keeps its     *)
(* half second loop, and the browser hands over what has arrived.          *)
(***************************************************************************)
FeedFairness ==
    /\ \A r \in Replay : WF_feedVars(ReplayStep(r))
    /\ WF_feedVars(\E r \in Replay : TimerStep(r))
    /\ WF_feedVars(StreamStep)

FeedSpec == FeedInit /\ [][FeedNext]_feedVars /\ FeedFairness

-----------------------------------------------------------------------------
Sequence == 0 .. MaxEvents + 2

FeedTypeOK ==
    /\ state \in {"active", "terminal"}
    /\ count \in Sequence /\ feed \in Seq(Sequence) /\ ends \subseteq Sequence
    /\ notice \in BOOLEAN
    /\ last \in Sequence /\ shown \in Seq(Sequence)
    /\ {stopped, finished, reconnect} \subseteq BOOLEAN
    /\ attempts \in 0 .. Reconnects + 1
    /\ stream \in [at : {"closed", "state", "events", "over"}, cursor : Sequence,
                   ended : BOOLEAN, wire : Seq(Sequence)]
    /\ polls \in [known : BOOLEAN, stray : BOOLEAN]
    /\ replays \in [Replay -> [why : Reasons \cup {"none"},
                               at : {"none", "page", "accept", "job", "reply"},
                               cursor : Sequence, items : Seq(Sequence),
                               ended : BOOLEAN]]
    /\ faults \in 0 .. MaxFaults /\ asks \in 0 .. MaxAsks + 1

(***************************************************************************)
(* What a page shows is the beginning of the run's public feed: no event   *)
(* twice, none out of order and none left out up to the newest one shown,  *)
(* whatever replays, polls and streams overlap (#accept over pages asked   *)
(* with different cursors, and the stream's own cursor).                   *)
(***************************************************************************)
ShownIsTheFeed == shown = SubSeq(feed, 1, UpTo(feed, last))

(***************************************************************************)
(* A page tells its user that the run has ended only when it has, through  *)
(* an event of the stream as well as through the row (_process commits     *)
(* before it emits; #finish).                                              *)
(***************************************************************************)
EndIsTrue == finished => Ended

(***************************************************************************)
(* A page that follows a run learns that it has ended, also when the       *)
(* notice of the end was refused, lost or missed by the stream, unless the *)
(* user leaves (the stream that ends, #scheduleReconnect, #startPolling).  *)
(***************************************************************************)
EventuallyTold == (Ended /\ ~ stopped) ~> stopped
=============================================================================
