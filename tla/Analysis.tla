------------------------------- MODULE Analysis -------------------------------
(***************************************************************************)
(* From the claim of a run to the edit plan that repair takes over: the    *)
(* transcript, the scenes, a look at the whole video, the choice of clips, *)
(* a closer look at each clip, the edit plan and the coverage of its crops *)
(* with one more look at the clips it finds wanting.  What the stages find *)
(* is kept in checkpoints of the session or of the job, found again by the *)
(* fingerprint of what it was made from.                                   *)
(*                                                                         *)
(* One session with one source; one worker works on its runs in order.  A  *)
(* crash makes it start a run over.  A deployment may change the settings  *)
(* in between.  What a stage finds is a record of what it was made from    *)
(* and of the attempt that made it; answers are valid or one of a few      *)
(* invalid ones.  Checkpoints are enabled.                                 *)
(*                                                                         *)
(* Source: src/open_storyline/mvp/pipeline.py (MVPJobProcessor.__call__),  *)
(* checkpoints.py, visual_understanding.py, edit_plan.py, shorts.py.       *)
(***************************************************************************)
EXTENDS Naturals, FiniteSets

CONSTANTS
    Runs,        \* runs of the session, numbered in the order of their claims
    Clips,       \* clips of a plan, numbered from 1
    Cuts,        \* where the clips of a plan may begin and end
    Versions,    \* prompt versions
    Histories,   \* what the runs may ask for: version and prior attempt of each
    NoRun,       \* the prior attempt of a run that has none
    NoAnswer,    \* nothing there
    Invalid,     \* responses that the validator refuses
    MaxInvalid,  \* bound: such responses
    MaxFaults    \* bound: crashes, changes of the settings and checkpoints that are not
                 \* saved, not read or spoilt, together

ASSUME RunsAssumption == Runs \subseteq Nat /\ Clips \subseteq Nat \ {0} /\ 1 \in Clips
ASSUME NoneAssumption == NoRun \notin Runs /\ NoAnswer \notin Cuts \cup Invalid
ASSUME HistoryAssumption ==
    /\ Histories \subseteq [Runs -> [version : Versions, prior : Runs \cup {NoRun}]]
    /\ \A h \in Histories, r \in Runs : h[r].prior # NoRun =>
          h[r].prior < r /\ h[h[r].prior].version = h[r].version
ASSUME BoundsAssumption == {MaxInvalid, MaxFaults} \subseteq Nat

VARIABLES
    mode,      \* repair_mode
    history,   \* what each run asks for
    settings,  \* of the deployment: which of those for speech, scenes and vision are new
    pc,        \* where the worker stands
    state,     \* of each run
    run,       \* the run being worked on
    attempt,   \* how often each run was claimed
    mem,       \* what the attempt has in hand
    todo,      \* clips still to look at, 0 for the whole video
    after,     \* where the looks lead to
    refused,   \* the response that the validator refused
    used,      \* visual_repair_attempts_used_by_clip: clips
    save,      \* the checkpoint being written, and what follows
    files,     \* checkpoint files: key and content
    rows,      \* available checkpoint rows: key and digest of the content
    disk,      \* visual_understanding.json and shorts_plan.json of the run being worked on
    bought,    \* what was paid for or computed: key and attempt
    gone,      \* what of it was lost
    faults     \* how many there were, per kind

config == <<mode, history>>
store  == <<files, rows, bought, gone>>
task   == <<state, run, attempt>>
sights == <<todo, after, refused, used>>
vars   == <<config, settings, pc, task, mem, sights, save, store, disk, faults>>

-----------------------------------------------------------------------------
Stages == {"transcript", "scenes", "global"}
Steps  == {"idle", "gate", "look", "mend", "select", "clips", "merge", "artifacts", "plan", "cover",
           "again", "replan", "recover", "handed", "fail", "file", "row"} \cup Stages
Looks  == Clips \cup {0}
Stamp  == [run : Runs, attempt : Nat]
Now    == [run |-> run, attempt |-> attempt[run]]
Flips  == {"speech", "scenes", "vision"}

Fault(kind) ==
    /\ IF kind = "invalid" THEN faults.invalid < MaxInvalid
                           ELSE faults.crash + faults.lapse + faults.deploy < MaxFaults
    /\ faults' = [faults EXCEPT ![kind] = @ + 1]

(* Mutant: the clips' fingerprint without where they begin and end.        *)
ClipsKey_NoCut(r) ==
    [stage |-> "clips", run |-> r, global |-> [stage |-> "global", version |-> history[run].version,
                                               settings |-> settings]]

(* The fingerprints, and the rows they are part of.                        *)
TranscriptKey == [stage |-> "transcript", new |-> settings \cap {"speech"}]
ScenesKey     == [stage |-> "scenes", new |-> settings \cap {"scenes"}]
GlobalKey     == [stage |-> "global", version |-> history[run].version, settings |-> settings]
ClipsKey(r)   == [stage |-> "clips", run |-> r, global |-> GlobalKey, cut |-> mem.cut]
RepairKey(i)  == [stage |-> "repair", run |-> run, look |-> i, answer |-> refused]

(* What the stages make, and of what.                                      *)
Made      == [settings |-> settings, version |-> history[run].version, by |-> Now]
View      == [made |-> Made, cut |-> mem.cut, round |-> mem.round]
Nothing   == [transcript |-> NoAnswer, scenes |-> NoAnswer, global |-> NoAnswer, cut |-> NoAnswer,
              views |-> [c \in Clips |-> NoAnswer], round |-> 1, edit |-> NoAnswer,
              coverage |-> NoAnswer]
NoSave    == [key |-> NoAnswer, value |-> NoAnswer, next |-> "idle"]
Blank     == [visual |-> NoAnswer, shorts |-> NoAnswer]

Init ==
    /\ mode \in {"off", "report", "enforce"}
    /\ history \in Histories
    /\ settings = {}
    /\ pc = "idle"
    /\ state = [r \in Runs |-> "queued"]
    /\ run = NoRun
    /\ attempt = [r \in Runs |-> 0]
    /\ mem = Nothing
    /\ todo = {} /\ after = "idle" /\ refused = NoAnswer /\ used = {}
    /\ save = NoSave
    /\ files = {} /\ rows = {} /\ bought = {} /\ gone = {}
    /\ disk = Blank
    /\ faults = [invalid |-> 0, crash |-> 0, lapse |-> 0, deploy |-> 0]

-----------------------------------------------------------------------------
(* Checkpoints.  A row stands for its file if the digests agree; otherwise *)
(* the load takes the row out of use.                                      *)

Without(S, k)  == {e \in S : e.key # k}
Put(S, k, v)   == Without(S, k) \cup {[key |-> k, value |-> v]}
Hits(k)        == {e \in files \cap rows : e.key = k}
Of(k)          == {p \in bought : p.key = k}
Quarantined(k) == IF Hits(k) = {} THEN Without(rows, k) ELSE rows

(* A load that hits, one that does not, and one the database refuses.      *)
Load(k, v) ==
    /\ [key |-> k, value |-> v] \in Hits(k)
    /\ UNCHANGED <<rows, gone, faults>>
Miss(k) ==
    \/ /\ Hits(k) = {}
       /\ rows' = Quarantined(k)
       /\ UNCHANGED <<gone, faults>>
    \/ /\ Fault("lapse")
       /\ gone' = gone \cup Of(k)
       /\ UNCHANGED rows

Buy(k)              == bought' = bought \cup {[key |-> k, by |-> Now]}
SaveThen(k, v, nxt) == /\ save' = [key |-> k, value |-> v, next |-> nxt]
                       /\ pc' = "file"
Unsaved             == {p \in bought : ~ \E e \in Hits(p.key) : e.value.made.by = p.by}

(* The file replaces an earlier one of the same fingerprint.               *)
WriteFile ==
    /\ pc = "file"
    /\ \/ /\ files' = Put(files, save.key, save.value)
          /\ pc' = "row"
          /\ UNCHANGED <<gone, faults>>
       \/ /\ Fault("lapse")
          /\ gone' = gone \cup Of(save.key)
          /\ pc' = save.next
          /\ UNCHANGED files
    /\ UNCHANGED <<config, settings, task, mem, sights, save, rows, bought, disk>>

(* When the row cannot be written the file is removed.                     *)
WriteRow ==
    /\ pc = "row"
    /\ pc' = save.next /\ save' = NoSave
    /\ \/ /\ rows' = Put(rows, save.key, save.value)
          /\ UNCHANGED <<files, gone, faults>>
       \/ /\ Fault("lapse")
          /\ files' = Without(files, save.key)
          /\ gone' = gone \cup Of(save.key)
          /\ UNCHANGED rows
    /\ UNCHANGED <<config, settings, task, mem, sights, bought, disk>>

(* A file is lost, or its content is no longer what the row says.          *)
Spoil ==
    /\ Fault("lapse")
    /\ \E e \in files \cap rows :
          /\ files' = files \ {e}
          /\ gone' = gone \cup Of(e.key)
    /\ UNCHANGED <<config, settings, pc, task, mem, sights, save, rows, bought, disk>>

-----------------------------------------------------------------------------
(* The attempt.                                                            *)

Claim ==
    /\ pc = "idle"
    /\ \E r \in Runs :
          /\ state[r] \in {"queued", "running"}
          /\ \A q \in Runs : q < r => state[q] \in {"handed", "failed"}
          /\ run' = r
          /\ state' = [state EXCEPT ![r] = "running"]
          /\ attempt' = [attempt EXCEPT ![r] = @ + 1]
    /\ pc' = "gate"
    /\ UNCHANGED <<config, settings, mem, sights, save, store, disk, faults>>

(* The server may have agentic editing off, lack a capability that the run *)
(* requires and be without baseline fallbacks, or get a source it cannot   *)
(* use.                                                                    *)
Gate ==
    /\ pc = "gate"
    /\ pc' \in {"transcript", "fail"}
    /\ UNCHANGED <<config, settings, task, mem, sights, save, store, disk, faults>>

Transcript ==
    /\ pc = "transcript"
    /\ \/ \E e \in Hits(TranscriptKey) :
             /\ Load(TranscriptKey, e.value)
             /\ mem' = [mem EXCEPT !.transcript = e.value]
             /\ pc' = "scenes"
             /\ UNCHANGED <<save, bought>>
       \/ /\ Miss(TranscriptKey)
          /\ Buy(TranscriptKey)
          /\ mem' = [mem EXCEPT !.transcript = [made |-> Made]]
          /\ SaveThen(TranscriptKey, [made |-> Made], "scenes")
       \/ /\ Miss(TranscriptKey)                       \* the provider gives up
          /\ pc' = "fail"
          /\ UNCHANGED <<mem, save, bought>>
    /\ UNCHANGED <<config, settings, task, sights, files, disk>>

Scenes ==
    /\ pc = "scenes"
    /\ \/ \E e \in Hits(ScenesKey) :
             /\ Load(ScenesKey, e.value)
             /\ mem' = [mem EXCEPT !.scenes = e.value]
             /\ pc' = "global"
             /\ UNCHANGED <<save, bought>>
       \/ /\ Miss(ScenesKey)
          /\ Buy(ScenesKey)
          /\ mem' = [mem EXCEPT !.scenes = [made |-> Made]]
          /\ SaveThen(ScenesKey, [made |-> Made], "global")
    /\ UNCHANGED <<config, settings, task, sights, files, disk>>

(* The checkpoint of the global analysis holds the choice of clips too.    *)
Global ==
    /\ pc = "global"
    /\ \/ \E e \in Hits(GlobalKey) :
             /\ Load(GlobalKey, e.value)
             /\ mem' = [mem EXCEPT !.global = [made |-> e.value.made], !.cut = e.value.cut]
             /\ pc' = "clips"
             /\ UNCHANGED <<todo, after, bought>>
       \/ /\ Miss(GlobalKey)
          /\ Buy(GlobalKey)
          /\ todo' = {0} /\ after' = "select"
          /\ pc' = "look"
          /\ UNCHANGED mem
    /\ UNCHANGED <<config, settings, task, refused, used, save, files, disk>>

(* Mutant: the look and the choice are not saved.                          *)
Select_Unsaved ==
    /\ pc = "select"
    /\ \E c \in Cuts : mem' = [mem EXCEPT !.cut = c]
    /\ pc' = "clips"
    /\ UNCHANGED <<config, settings, task, sights, save, store, disk, faults>>

(* The clips are chosen; only now is the look at the whole video saved.    *)
Select ==
    /\ pc = "select"
    /\ \/ \E c \in Cuts :
             /\ mem' = [mem EXCEPT !.cut = c]
             /\ SaveThen(GlobalKey, [made |-> mem.global.made, cut |-> c], "clips")
       \/ /\ pc' = "fail"                                  \* no valid clip
          /\ UNCHANGED <<mem, save>>
    /\ UNCHANGED <<config, settings, task, sights, store, disk, faults>>

-----------------------------------------------------------------------------
(* Looks: one call for the whole video or a clip.  An invalid response may *)
(* be mended.  With the repair off the call is made once more; otherwise   *)
(* the handler asks for a repair once for each clip, where the look at the *)
(* whole video counts as the first clip.                                   *)

Slot(i) == IF i = 0 THEN 1 ELSE i
First   == {i \in todo : \A k \in todo : i <= k}

Seen(i) ==
    /\ mem' = IF i = 0 THEN [mem EXCEPT !.global = [made |-> Made]]
                       ELSE [mem EXCEPT !.views[i] = View]
    /\ todo' = todo \ {i}

Look ==
    /\ pc = "look"
    /\ \/ /\ todo = {}
          /\ pc' = after
          /\ UNCHANGED <<mem, todo, refused, faults>>
       \/ \E i \in First : Seen(i) /\ UNCHANGED <<pc, refused, faults>>
       \/ /\ todo # {} /\ Fault("invalid")
          /\ refused' \in Invalid
          /\ pc' = "mend"
          /\ UNCHANGED <<mem, todo>>
       \/ /\ todo # {} /\ pc' = "fail"                    \* the provider gives up
          /\ UNCHANGED <<mem, todo, refused, faults>>
    /\ UNCHANGED <<config, settings, task, after, used, save, store, disk>>

(* The one more call of the time before the registry.                      *)
LegacyMend ==
    /\ pc = "mend" /\ mode = "off"
    /\ \/ \E i \in First : Seen(i) /\ pc' = "look"
       \/ pc' = "fail" /\ UNCHANGED <<mem, todo>>
    /\ UNCHANGED <<config, settings, task, after, refused, used, save, store, disk, faults>>

Exhausted ==
    /\ pc = "mend" /\ mode # "off"
    /\ \E i \in First : Slot(i) \in used
    /\ pc' = "fail"
    /\ UNCHANGED <<config, settings, task, mem, sights, save, store, disk, faults>>

(* The same response was repaired, or was not, before a crash.             *)
Remembered ==
    /\ pc = "mend" /\ mode # "off"
    /\ \E i \in First :
          /\ Slot(i) \notin used
          /\ used' = used \cup {Slot(i)}
          /\ \E e \in Hits(RepairKey(i)) :
                IF e.value.repaired
                THEN Seen(i) /\ pc' = "look"
                ELSE pc' = "fail" /\ UNCHANGED <<mem, todo>>
    /\ UNCHANGED <<config, settings, task, after, refused, save, store, disk, faults>>

Mend ==
    /\ pc = "mend" /\ mode # "off"
    /\ \E i \in First :
          /\ Slot(i) \notin used
          /\ used' = used \cup {Slot(i)}
          /\ Miss(RepairKey(i))
          /\ IF mode = "report" THEN UNCHANGED bought ELSE Buy(RepairKey(i))
          /\ \/ /\ mode = "enforce"
                /\ Seen(i)
                /\ SaveThen(RepairKey(i), [made |-> Made, repaired |-> TRUE], "look")
             \/ /\ SaveThen(RepairKey(i), [made |-> Made, repaired |-> FALSE], "fail")
                /\ UNCHANGED <<mem, todo>>
    /\ UNCHANGED <<config, settings, task, after, refused, files, disk>>

-----------------------------------------------------------------------------
(* The clips, the edit plan and its coverage.                              *)

(* Only the prior attempt's analysis is looked up.  It is saved again as   *)
(* this run's own.                                                         *)
LoadClips ==
    /\ pc = "clips"
    /\ LET prior == history[run].prior IN
          \/ /\ prior # NoRun
             /\ \E e \in Hits(ClipsKey(prior)) :
                   /\ Load(ClipsKey(prior), e.value)
                   /\ mem' = [mem EXCEPT !.views = e.value.views]
                   /\ SaveThen(ClipsKey(run), [views |-> e.value.views], "artifacts")
             /\ UNCHANGED <<todo, after>>
          \/ /\ IF prior = NoRun THEN UNCHANGED <<rows, gone, faults>> ELSE Miss(ClipsKey(prior))
             /\ todo' = Clips /\ after' = "merge"
             /\ pc' = "look"
             /\ UNCHANGED <<mem, save>>
    /\ UNCHANGED <<config, settings, task, refused, used, files, bought, disk>>

Merge ==
    /\ pc = "merge"
    /\ SaveThen(ClipsKey(run), [views |-> mem.views], "artifacts")
    /\ UNCHANGED <<config, settings, task, mem, sights, store, disk, faults>>

Written == disk' = [visual |-> mem.views, shorts |-> mem.views]

Artifacts ==
    /\ pc = "artifacts"
    /\ Written
    /\ pc' = "plan"
    /\ UNCHANGED <<config, settings, task, mem, sights, save, store, faults>>

(* The editor is asked for each clip.  What the validators refuse is       *)
(* deferred to plan repair, over a template, or without plan repair asked  *)
(* for once more; then only a shadow run goes on with the template.        *)
Plan ==
    /\ pc \in {"plan", "replan"}
    /\ \/ /\ pc' = IF pc = "plan" THEN "cover" ELSE "recover"
          /\ mem' = [mem EXCEPT !.edit = [of |-> mem.views]]
       \/ pc' = "fail" /\ UNCHANGED mem         \* that, or the provider gives up
    /\ UNCHANGED <<config, settings, task, sights, save, store, disk, faults>>

Covered == mem' = [mem EXCEPT !.coverage = [of |-> mem.views], !.round = 2]

(* Mutant: the second look has repairs of its own.                         *)
Cover_Refill ==
    /\ pc = "cover"
    /\ Covered
    /\ \E blocked \in SUBSET Clips :
          /\ todo' = blocked
          /\ IF blocked = {} THEN pc' = "handed" /\ UNCHANGED after
                             ELSE pc' = "look" /\ after' = "again"
    /\ used' = {}
    /\ UNCHANGED <<config, settings, task, refused, save, store, disk, faults>>

Cover ==
    /\ pc = "cover"
    /\ Covered
    /\ \E blocked \in SUBSET Clips :
          /\ todo' = blocked
          /\ IF blocked = {} THEN pc' = "handed" /\ UNCHANGED after
                             ELSE pc' = "look" /\ after' = "again"
    /\ UNCHANGED <<config, settings, task, refused, used, save, store, disk, faults>>

(* Mutant: the files of the first look stay.                               *)
Again_Unwritten ==
    /\ pc = "again"
    /\ pc' = IF mode = "off" THEN "replan" ELSE "recover"
    /\ UNCHANGED <<config, settings, task, mem, sights, save, store, disk, faults>>

(* After the second look; plan repair plans anew unless it is off.         *)
Again ==
    /\ pc = "again"
    /\ Written
    /\ pc' = IF mode = "off" THEN "replan" ELSE "recover"
    /\ UNCHANGED <<config, settings, task, mem, sights, save, store, faults>>

Recover ==
    /\ pc = "recover"
    /\ Covered
    /\ SaveThen(ClipsKey(run), [views |-> mem.views], "handed")
    /\ UNCHANGED <<config, settings, task, sights, store, disk, faults>>

-----------------------------------------------------------------------------
(* The worker forgets what it had in hand.                                 *)
Forget ==
    /\ mem' = Nothing /\ save' = NoSave /\ disk' = Blank
    /\ todo' = {} /\ after' = "idle" /\ refused' = NoAnswer /\ used' = {}

(* The run ends, here or after what follows, and the worker's sweep takes  *)
(* the checkpoint files of the run, unless it is skipped.                  *)
End ==
    /\ pc \in {"handed", "fail"}
    /\ state' = [state EXCEPT ![run] = IF pc = "handed" THEN "handed" ELSE "failed"]
    /\ files' \in {files, {e \in files : e.key.stage \in Stages \/ e.key.run # run}}
    /\ gone' = IF pc = "fail" THEN gone \cup Unsaved ELSE gone
    /\ pc' = "idle"
    /\ Forget
    /\ UNCHANGED <<config, settings, run, attempt, rows, bought, faults>>

Crash ==
    /\ pc # "idle"
    /\ Fault("crash")
    /\ gone' = gone \cup Unsaved
    /\ pc' = "idle"
    /\ Forget
    /\ UNCHANGED <<config, settings, task, files, rows, bought>>

(* A deployment starts the worker with other settings.                     *)
Deploy ==
    /\ pc = "idle"
    /\ Fault("deploy")
    /\ \E f \in Flips : settings' = (settings \cup {f}) \ (settings \cap {f})
    /\ UNCHANGED <<config, pc, task, mem, sights, save, store, disk>>

Stage == Transcript \/ Scenes \/ Global \/ Select
Watch == Look \/ LegacyMend \/ Exhausted \/ Remembered \/ Mend
Edit  == LoadClips \/ Merge \/ Artifacts \/ Plan \/ Cover \/ Again \/ Recover

Next ==
    \/ Claim \/ Gate \/ Stage \/ Watch \/ Edit \/ End
    \/ WriteFile \/ WriteRow \/ Spoil \/ Crash \/ Deploy

Spec == Init /\ [][Next]_vars
-----------------------------------------------------------------------------
(* Properties.                                                             *)

Origins  == [settings : SUBSET Flips, version : Versions, by : Stamp]
Viewed   == [Clips -> [made : Origins, cut : Cuts, round : {1, 2}] \cup {NoAnswer}]
Contents ==
    [made : Origins] \cup [made : Origins, cut : Cuts] \cup [made : Origins, repaired : BOOLEAN]
        \cup [views : Viewed]

(* Everything has its type, also what the checkpoints hold.                *)
TypeOK ==
    /\ pc \in Steps
    /\ state \in [Runs -> {"queued", "running", "handed", "failed"}]
    /\ run \in Runs \cup {NoRun} /\ attempt \in [Runs -> Nat]
    /\ settings \subseteq Flips
    /\ mem.cut \in Cuts \cup {NoAnswer} /\ mem.views \in Viewed /\ mem.round \in {1, 2}
    /\ \A f \in {"transcript", "scenes", "global"} : mem[f] \in [made : Origins] \cup {NoAnswer}
    /\ todo \subseteq Looks /\ after \in Steps /\ used \subseteq Clips
    /\ refused \in Invalid \cup {NoAnswer}
    /\ \A e \in files \cup rows : e.value \in Contents
    /\ \A p \in bought : p.by \in Stamp
    /\ gone \subseteq bought
    /\ \A e1, e2 \in files : e1.key = e2.key => e1 = e2

Changed(m) == (settings \ m.made.settings) \cup (m.made.settings \ settings)

(* Whatever an attempt takes out of a checkpoint, of this run or another,  *)
(* was made under the settings, the version and the clips that hold now:   *)
(* the fingerprints contain all that a stage depends on.                   *)
Fits ==
    pc # "idle" =>
        /\ mem.transcript # NoAnswer => Changed(mem.transcript) \cap {"speech"} = {}
        /\ mem.scenes # NoAnswer => Changed(mem.scenes) \cap {"scenes"} = {}
        /\ \A m \in {mem.global} \cup {mem.views[c] : c \in Clips} :
              m # NoAnswer => /\ Changed(m) = {}
                              /\ m.made.version = history[run].version
        /\ \A c \in Clips : mem.views[c] # NoAnswer => mem.views[c].cut = mem.cut

(* What was paid for is not paid for again, by any run of the session and  *)
(* across restarts, unless its checkpoint was lost.                        *)
PaidOnce ==
    \A p, q \in bought \ gone : p.key = q.key => p = q

(* When the plan is handed on, the visual file, the shorts plan, the       *)
(* coverage and the clip checkpoint hold the same looks, and without plan  *)
(* repair the edit plan was made from them.  Only a failed save leaves the *)
(* looks of the first round in the checkpoint.                             *)
Aligned ==
    pc = "handed" =>
        /\ disk = [visual |-> mem.views, shorts |-> mem.views]
        /\ mem.coverage.of = mem.views
        /\ mode = "off" => mem.edit.of = mem.views
        /\ faults.lapse = 0 =>
              \A e \in Hits(ClipsKey(run)) : e.value.views = mem.views

(* An attempt asks for at most one repair of the looks at a clip, in both  *)
(* rounds together; the look at the whole video is one of the first clip's.*)
OneRepairEach ==
    \A p, q \in bought :
        /\ p.by = q.by
        /\ {p.key.stage, q.key.stage} = {"repair"}
        /\ p.key.look = q.key.look \/ {p.key.look, q.key.look} = {0, 1}
        => p = q
=============================================================================
