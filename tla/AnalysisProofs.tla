--------------------------- MODULE AnalysisProofs ---------------------------
(***************************************************************************)
(* Theorems about Analysis, for every set of runs, clips, cuts, versions   *)
(* and histories, and every number of refused responses and faults.        *)
(***************************************************************************)
EXTENDS Analysis, TLAPS

(* A checkpoint is being written; where the worker goes once it is.        *)
Saving == pc \in {"file", "row"}
Aim    == IF Saving THEN save.next ELSE pc

(* Looking at the whole video or at the clips, for what comes after.       *)
Looking(ends) == Aim \in {"look", "mend"} /\ after \in ends

(* Before the clips are chosen, and from then to the end.                  *)
Choosing == \/ Aim \in {"gate", "transcript", "scenes", "global", "select"}
            \/ Looking({"select"})
Chosen   == \/ Aim \in {"clips", "merge", "artifacts", "plan", "cover", "again", "replan",
                        "recover", "handed"}
            \/ Looking({"merge", "again"})

MadeOf(S) == [made : S] \cup {NoAnswer}
OfViews   == [of : Viewed] \cup {NoAnswer}
Hands     == [transcript : MadeOf(Origins), scenes : MadeOf(Origins), global : MadeOf(Origins),
              cut : Cuts \cup {NoAnswer}, views : Viewed, round : {1, 2},
              edit : OfViews, coverage : OfViews]
Counts    == [invalid : Nat, crash : Nat, lapse : Nat, deploy : Nat]

(* The variables' types, what an idle worker has in hand, and the run a    *)
(* busy one works on.                                                      *)
Types ==
    /\ pc \in Steps /\ after \in Steps
    /\ state \in [Runs -> {"queued", "running", "handed", "failed"}]
    /\ run \in Runs \cup {NoRun} /\ attempt \in [Runs -> Nat]
    /\ settings \subseteq Flips /\ history \in Histories
    /\ mem \in Hands /\ todo \subseteq Looks /\ used \subseteq Clips
    /\ refused \in Invalid \cup {NoAnswer}
    /\ faults \in Counts
    /\ Saving => save.next \in {"scenes", "global", "clips", "look", "fail", "artifacts", "handed"}
    /\ pc = "idle" => mem = Nothing /\ used = {}
    /\ pc # "idle" => run \in Runs /\ state[run] = "running"

(* Made under the settings and the version that hold now.                  *)
Current(m) == m.made.settings = settings /\ m.made.version = history[run].version

(* The look at the whole video comes before the choice, those at the clips *)
(* after it.                                                               *)
Watched ==
    /\ Aim \in {"look", "mend"} => after \in {"select", "merge", "again"}
    /\ Looking({"select"}) =>
          /\ todo \subseteq {0}
          /\ 0 \in todo \/ (mem.global \in [made : Origins] /\ Current(mem.global))
    /\ Looking({"merge", "again"}) => todo \subseteq Clips
    /\ pc = "select" => mem.global \in [made : Origins] /\ Current(mem.global)
    /\ Choosing => mem.views = [c \in Clips |-> NoAnswer]
    /\ Chosen => mem.cut \in Cuts

(* A content is of the kind that its fingerprint names and was made from   *)
(* what the fingerprint says.                                              *)
Faithful(k, v) ==
    /\ k.stage \in Stages \cup {"clips", "repair"}
    /\ k.stage = "transcript" => v \in [made : Origins] /\ v.made.settings \cap {"speech"} = k.new
    /\ k.stage = "scenes" => v \in [made : Origins] /\ v.made.settings \cap {"scenes"} = k.new
    /\ k.stage = "global" => /\ v \in [made : Origins, cut : Cuts]
                             /\ v.made.settings = k.settings /\ v.made.version = k.version
    /\ k.stage = "clips" => /\ v \in [views : Viewed]
                            /\ \A c \in Clips : v.views[c] # NoAnswer =>
                                  /\ v.views[c].made.settings = k.global.settings
                                  /\ v.views[c].made.version = k.global.version
                                  /\ v.views[c].cut = k.cut
    /\ k.stage = "repair" => v \in [made : Origins, repaired : BOOLEAN]

Kept ==
    /\ \A e \in files \cup rows : Faithful(e.key, e.value)
    /\ Saving => Faithful(save.key, save.value)
    /\ \A e1, e2 \in files : e1.key = e2.key => e1 = e2

(* What the attempt has in hand was made from what holds now.              *)
Fresh ==
    /\ mem.transcript # NoAnswer =>
          mem.transcript.made.settings \cap {"speech"} = settings \cap {"speech"}
    /\ mem.scenes # NoAnswer => mem.scenes.made.settings \cap {"scenes"} = settings \cap {"scenes"}
    /\ mem.global # NoAnswer => Current(mem.global)
    /\ \A c \in Clips : mem.views[c] # NoAnswer =>
          Current(mem.views[c]) /\ mem.views[c].cut = mem.cut

Paid == (\A p \in bought : p.by \in Stamp) /\ gone \subseteq bought

(* What was bought and not lost is in a checkpoint, or on its way to one,  *)
(* or was a repair of a run that is over.                                  *)
InHand(p) ==
    \/ Aim = "fail"
    \/ Saving /\ save.key = p.key
    \/ p.key = GlobalKey /\ (pc = "select" \/ Looking({"select"}))
Over(p)   == p.key.stage \notin Stages /\ state[p.key.run] \in {"handed", "failed"}
Accounted ==
    /\ \A p \in bought \ gone : Hits(p.key) # {} \/ InHand(p) \/ Over(p)
    /\ pc = "row" => \/ [key |-> save.key, value |-> save.value] \in files
                    \/ Of(save.key) \subseteq gone

(* Whoever asked for a repair in this attempt has used it up.              *)
Asked ==
    \A p \in bought :
        /\ p.by.attempt <= attempt[p.by.run]
        /\ pc # "idle" /\ p.key.stage = "repair" /\ p.by = Now => Slot(p.key.look) \in used

(* What was written, planned and saved is of the views in hand.            *)
InStep ==
    /\ Aim \in {"plan", "cover", "replan", "recover", "handed"} =>
          disk = [visual |-> mem.views, shorts |-> mem.views]
    /\ mode = "off" /\ Aim \in {"cover", "recover", "handed"} => mem.edit.of = mem.views
    /\ Aim = "handed" => mem.coverage.of = mem.views
    /\ Saving /\ Aim \in {"artifacts", "handed"} =>
          save.key = ClipsKey(run) /\ save.value.views = mem.views
    /\ /\ faults.lapse = 0
       /\ \/ pc \in {"artifacts", "plan", "cover", "handed"}
          \/ pc = "row" /\ Aim \in {"artifacts", "handed"}
       => \A e \in files : e.key = ClipsKey(run) => e.value.views = mem.views

(* The inductive invariant: what is in hand and in the checkpoints is      *)
(* sound, what was bought is accounted for, and the repairs are used up.   *)
Sound == Types /\ Watched /\ Kept /\ Fresh
IInv  == /\ Sound /\ Paid /\ PaidOnce /\ Accounted
         /\ Asked /\ OneRepairEach /\ InStep

-----------------------------------------------------------------------------
(* What the operators of the model do.                                     *)

LEMMA FaultCounts ==
    ASSUME faults \in Counts, NEW kind \in {"invalid", "crash", "lapse", "deploy"}, Fault(kind)
    PROVE  /\ faults' \in Counts
           /\ kind = "lapse" => faults'.lapse # 0
           /\ faults'.lapse = 0 => faults.lapse = 0
  BY DEF Counts, Fault

LEMMA Missed ==
    ASSUME faults \in Counts, NEW k, Miss(k)
    PROVE  /\ faults' \in Counts
           /\ faults'.lapse = 0 => faults.lapse = 0
           /\ rows' \subseteq rows
           /\ gone \subseteq gone' /\ gone' \subseteq gone \cup bought
  BY FaultCounts DEF Miss, Quarantined, Without, Of

(* A miss leaves every checkpoint that stands.                             *)
LEMMA StillThere ==
    ASSUME NEW k, Miss(k)
    PROVE  /\ gone \subseteq gone'
           /\ \A e \in files \cap rows : e \in rows'
  BY DEF Miss, Quarantined, Without, Hits

(* A hit is what its fingerprint says.                                     *)
LEMMA Loaded ==
    ASSUME Kept, NEW k, NEW e \in Hits(k)
    PROVE  Faithful(k, e.value)
  BY DEF Kept, Hits

(* What is made now.                                                       *)
LEMMA MadeNow ==
    ASSUME Types, pc # "idle"
    PROVE  /\ Made \in Origins /\ Current([made |-> Made])
           /\ history[run].version \in Versions
           /\ Now \in Stamp
  BY HistoryAssumption DEF Types, Made, Now, Origins, Stamp, Current

-----------------------------------------------------------------------------
(* The types and the run being worked on.                                  *)

LEMMA TranscriptTypes ==
    ASSUME Sound, Transcript
    PROVE  Types'
<1>1. faults' \in Counts
  BY Missed DEF Sound, Types, Transcript, Load
<1>2. \A e \in Hits(TranscriptKey) : e.value \in [made : Origins]
  BY Loaded DEF Sound, Faithful, TranscriptKey
<1>3. mem' \in Hands
  BY <1>2, MadeNow DEF Sound, Types, Transcript, Hands, MadeOf, task
<1>4. pc' \in {"scenes", "file", "fail"} /\ (pc' = "file" => save'.next = "scenes")
  BY DEF Transcript, SaveThen
<1> QED
  BY <1>1, <1>3, <1>4 DEF Sound, Types, Transcript, config, sights, store, task, Steps, Stages,
     Saving

LEMMA ScenesTypes ==
    ASSUME Sound, Scenes
    PROVE  Types'
<1>1. faults' \in Counts
  BY Missed DEF Sound, Types, Scenes, Load
<1>2. \A e \in Hits(ScenesKey) : e.value \in [made : Origins]
  BY Loaded DEF Sound, Faithful, ScenesKey
<1>3. mem' \in Hands
  BY <1>2, MadeNow DEF Sound, Types, Scenes, Hands, MadeOf, task
<1>4. pc' \in {"global", "file", "fail"} /\ (pc' = "file" => save'.next = "global")
  BY DEF Scenes, SaveThen
<1> QED
  BY <1>1, <1>3, <1>4 DEF Sound, Types, Scenes, config, sights, store, task, Steps, Stages,
     Saving

LEMMA GlobalTypes ==
    ASSUME Sound, Global
    PROVE  Types'
<1>1. faults' \in Counts
  BY Missed DEF Sound, Types, Global, Load
<1>2. \A e \in Hits(GlobalKey) : e.value \in [made : Origins, cut : Cuts]
  BY Loaded DEF Sound, Faithful, GlobalKey
<1>3. mem' \in Hands
  <2>1. CASE UNCHANGED mem
    BY <2>1 DEF Sound, Types
  <2>2. ASSUME NEW e \in Hits(GlobalKey),
               mem' = [mem EXCEPT !.global = [made |-> e.value.made], !.cut = e.value.cut]
        PROVE  mem' \in Hands
    <3>1. [made |-> e.value.made] \in [made : Origins] /\ e.value.cut \in Cuts
      BY <1>2
    <3> QED
      BY <2>2, <3>1 DEF Sound, Types, Hands, MadeOf
  <2> QED
    BY <2>1, <2>2 DEF Global
<1>4. pc' \in {"clips", "look"} /\ todo' \subseteq Looks /\ after' \in Steps
  BY DEF Sound, Types, Global, Looks, Steps
<1> QED
  BY <1>1, <1>3, <1>4 DEF Sound, Types, Global, config, sights, store, task, Steps, Stages,
     Saving

LEMMA LoadClipsTypes ==
    ASSUME Sound, LoadClips
    PROVE  Types'
<1>1. faults' \in Counts
  BY Missed DEF Sound, Types, LoadClips, Load
<1>2. \A r, e : e \in Hits(ClipsKey(r)) => e.value \in [views : Viewed]
  BY Loaded DEF Sound, Faithful, ClipsKey
<1>3. mem' \in Hands
  <2>1. CASE UNCHANGED mem
    BY <2>1 DEF Sound, Types
  <2>2. ASSUME NEW r, NEW e \in Hits(ClipsKey(r)), mem' = [mem EXCEPT !.views = e.value.views]
        PROVE  mem' \in Hands
    <3>1. e.value.views \in Viewed
      BY <1>2
    <3> QED
      BY <2>2, <3>1 DEF Sound, Types, Hands
  <2> QED
    BY <2>1, <2>2 DEF LoadClips
<1>4. /\ pc' \in {"file", "look"} /\ (pc' = "file" => save'.next = "artifacts")
      /\ todo' \subseteq Looks /\ after' \in Steps
  BY DEF Sound, Types, LoadClips, Looks, Steps, SaveThen
<1> QED
  BY <1>1, <1>3, <1>4 DEF Sound, Types, LoadClips, config, sights, store, task, Steps, Stages,
     Saving

LEMMA TypesNext ==
    ASSUME Sound, Next
    PROVE  Types'
<1>1. ASSUME Transcript PROVE Types'
  BY <1>1, TranscriptTypes
<1>2. ASSUME Scenes PROVE Types'
  BY <1>2, ScenesTypes
<1>3. ASSUME Global PROVE Types'
  BY <1>3, GlobalTypes
<1>4. ASSUME LoadClips PROVE Types'
  BY <1>4, LoadClipsTypes
<1> USE DEF Sound, Types, config, sights, store, Steps, Saving
<1>5. ASSUME Claim PROVE Types'
  BY <1>5 DEF Claim
<1>6. ASSUME Gate PROVE Types'
  BY <1>6 DEF Gate, task, Stages
<1>7. ASSUME Select PROVE Types'
  BY <1>7 DEF Select, task, Stages, SaveThen, Hands
<1>8. ASSUME Look PROVE Types'
  BY <1>8, MadeNow, FaultCounts DEF Look, task, Stages, Hands, Seen, First, View, Viewed,
     MadeOf, Watched, Looking, Aim, Looks, Chosen
<1>9. ASSUME LegacyMend PROVE Types'
  BY <1>9, MadeNow, FaultCounts DEF LegacyMend, task, Stages, Hands, Seen, First, View, Viewed,
     MadeOf, Watched, Looking, Aim, Looks, Chosen
<1>10. ASSUME Exhausted PROVE Types'
  BY <1>10 DEF Exhausted, task, Stages
<1>11. ASSUME Remembered PROVE Types'
  BY <1>11, MadeNow, RunsAssumption DEF Remembered, task, Stages, Hands, Seen, First, View,
     Viewed, MadeOf, Watched, Looking, Aim, Looks, Chosen, Slot
<1>12. ASSUME Mend PROVE Types'
  BY <1>12, MadeNow, Missed, RunsAssumption DEF Mend, task, Stages, Hands, Seen, First, View,
     Viewed, MadeOf, Watched, Looking, Aim, Looks, Chosen, Slot, SaveThen
<1>13. ASSUME Merge PROVE Types'
  BY <1>13 DEF Merge, task, Stages, SaveThen
<1>14. ASSUME Artifacts PROVE Types'
  BY <1>14 DEF Artifacts, task, Stages
<1>15. ASSUME Plan PROVE Types'
  BY <1>15 DEF Plan, task, Stages, Hands, OfViews
<1>16. ASSUME Cover PROVE Types'
  BY ZenonT(40), <1>16 DEF Cover, task, Stages, Hands, OfViews, Covered, Looks
<1>17. ASSUME Again PROVE Types'
  BY <1>17 DEF Again, task, Stages
<1>18. ASSUME Recover PROVE Types'
  BY <1>18 DEF Recover, task, Stages, Hands, OfViews, Covered, SaveThen
<1>19. ASSUME End PROVE Types'
  BY <1>19 DEF End, Forget, task, Stages, Hands, OfViews, MadeOf, Nothing, Viewed
<1>20. ASSUME Crash PROVE Types'
  BY <1>20, FaultCounts DEF Crash, Forget, task, Stages, Hands, OfViews, MadeOf, Nothing, Viewed
<1>21. ASSUME Deploy PROVE Types'
  BY <1>21, FaultCounts DEF Deploy, task, Stages, Flips
<1>22. ASSUME WriteFile PROVE Types'
  BY <1>22, FaultCounts DEF WriteFile, task, Stages
<1>23. ASSUME WriteRow PROVE Types'
  BY <1>23, FaultCounts DEF WriteRow, task, Stages
<1>24. ASSUME Spoil PROVE Types'
  BY <1>24, FaultCounts DEF Spoil, task, Stages
<1> QED
  BY <1>1, <1>2, <1>3, <1>4, <1>5, <1>6, <1>7, <1>8, <1>9, <1>10, <1>11, <1>12, <1>13, <1>14,
     <1>15, <1>16, <1>17, <1>18, <1>19, <1>20, <1>21, <1>22, <1>23, <1>24 DEF Next, Stage,
     Watch, Edit

-----------------------------------------------------------------------------
(* The looks, and when there are views.                                    *)

LEMMA TranscriptWatched ==
    ASSUME Sound, Transcript
    PROVE  Watched'
<1>1. pc' \in {"scenes", "file", "fail"} /\ (pc' = "file" => save'.next = "scenes")
  BY DEF Transcript, SaveThen
<1>2. mem'.views = mem.views
  BY DEF Transcript, Sound, Types, Hands
<1>3. Choosing
  BY DEF Transcript, Choosing, Aim, Saving
<1> QED
  BY <1>1, <1>2, <1>3 DEF Sound, Watched, Looking, Aim, Saving, Choosing, Chosen

LEMMA ScenesWatched ==
    ASSUME Sound, Scenes
    PROVE  Watched'
<1>1. pc' \in {"global", "file", "fail"} /\ (pc' = "file" => save'.next = "global")
  BY DEF Scenes, SaveThen
<1>2. mem'.views = mem.views
  BY DEF Scenes, Sound, Types, Hands
<1>3. Choosing
  BY DEF Scenes, Choosing, Aim, Saving
<1> QED
  BY <1>1, <1>2, <1>3 DEF Sound, Watched, Looking, Aim, Saving, Choosing, Chosen

LEMMA GlobalWatched ==
    ASSUME Sound, Global
    PROVE  Watched'
<1>1. pc' \in {"clips", "look"} /\ ~Saving'
  BY DEF Global, Saving
<1>2. CASE pc' = "look"
  <2>1. todo' = {0} /\ after' = "select" /\ mem' = mem
    BY <1>2 DEF Global
  <2>2. Choosing
    BY DEF Global, Choosing, Aim, Saving
  <2>3. mem'.views = [c \in Clips |-> NoAnswer]
    BY <2>1, <2>2 DEF Sound, Watched
  <2> QED
    BY <1>1, <1>2, <2>1, <2>3 DEF Watched, Looking, Aim, Saving, Choosing, Chosen
<1>3. CASE pc' = "clips"
  <2>1. PICK e \in Hits(GlobalKey) :
           mem' = [mem EXCEPT !.global = [made |-> e.value.made], !.cut = e.value.cut]
    BY <1>3 DEF Global
  <2>2. e.value.cut \in Cuts
    BY Loaded DEF Sound, Faithful, GlobalKey
  <2>3. mem'.cut \in Cuts
    BY <2>1, <2>2 DEF Sound, Types, Hands
  <2> QED
    BY <1>1, <1>3, <2>3 DEF Watched, Looking, Aim, Saving, Choosing, Chosen
<1> QED
  BY <1>1, <1>2, <1>3

LEMMA LoadClipsWatched ==
    ASSUME Sound, LoadClips
    PROVE  Watched'
<1>1. /\ pc' \in {"file", "look"} /\ (pc' = "file" => save'.next = "artifacts")
      /\ pc' = "look" => todo' = Clips /\ after' = "merge"
  BY DEF LoadClips, SaveThen
<1>2. mem'.cut = mem.cut
  BY DEF LoadClips, Sound, Types, Hands
<1>3. mem.cut \in Cuts
  BY DEF LoadClips, Sound, Watched, Chosen, Aim, Saving
<1> QED
  BY <1>1, <1>2, <1>3 DEF Watched, Looking, Aim, Saving, Choosing, Chosen

LEMMA WatchedNext ==
    ASSUME Sound, Next
    PROVE  Watched'
<1>1. ASSUME Transcript PROVE Watched'
  BY <1>1, TranscriptWatched
<1>2. ASSUME Scenes PROVE Watched'
  BY <1>2, ScenesWatched
<1>3. ASSUME Global PROVE Watched'
  BY <1>3, GlobalWatched
<1>4. ASSUME LoadClips PROVE Watched'
  BY <1>4, LoadClipsWatched
<1> USE DEF Sound, Types, Watched, Looking, Aim, Saving, Choosing, Chosen, Current, Hands,
   Nothing, config, sights, store, task
<1>5. ASSUME Claim PROVE Watched'
  BY <1>5, MadeNow DEF Claim
<1>6. ASSUME Gate PROVE Watched'
  BY <1>6, MadeNow DEF Gate
<1>7. ASSUME Select PROVE Watched'
  BY <1>7, MadeNow DEF Select, SaveThen
<1>8. ASSUME Look PROVE Watched'
  BY <1>8, MadeNow DEF Look, Seen, First, View
<1>9. ASSUME LegacyMend PROVE Watched'
  BY <1>9, MadeNow DEF LegacyMend, Seen, First, View
<1>10. ASSUME Exhausted PROVE Watched'
  BY <1>10, MadeNow DEF Exhausted
<1>11. ASSUME Remembered PROVE Watched'
  BY <1>11, MadeNow DEF Remembered, Seen, First, View, Slot
<1>12. ASSUME Mend PROVE Watched'
  BY <1>12, MadeNow DEF Mend, Seen, First, View, Slot, Miss, SaveThen
<1>13. ASSUME Merge PROVE Watched'
  BY <1>13, MadeNow DEF Merge, SaveThen
<1>14. ASSUME Artifacts PROVE Watched'
  BY <1>14, MadeNow DEF Artifacts, Written
<1>15. ASSUME Plan PROVE Watched'
  BY <1>15, MadeNow DEF Plan
<1>16. ASSUME Cover PROVE Watched'
  BY <1>16, MadeNow DEF Cover, Covered
<1>17. ASSUME Again PROVE Watched'
  BY <1>17, MadeNow DEF Again, Written
<1>18. ASSUME Recover PROVE Watched'
  BY <1>18, MadeNow DEF Recover, Covered, SaveThen
<1>19. ASSUME End PROVE Watched'
  BY <1>19, MadeNow DEF End, Forget
<1>20. ASSUME Crash PROVE Watched'
  BY <1>20, MadeNow DEF Crash, Forget
<1>21. ASSUME Deploy PROVE Watched'
  BY <1>21, MadeNow DEF Deploy
<1>22. ASSUME WriteFile PROVE Watched'
  BY <1>22, MadeNow DEF WriteFile
<1>23. ASSUME WriteRow PROVE Watched'
  BY <1>23, MadeNow DEF WriteRow
<1>24. ASSUME Spoil PROVE Watched'
  BY <1>24, MadeNow DEF Spoil
<1> QED
  BY <1>1, <1>2, <1>3, <1>4, <1>5, <1>6, <1>7, <1>8, <1>9, <1>10, <1>11, <1>12, <1>13, <1>14,
     <1>15, <1>16, <1>17, <1>18, <1>19, <1>20, <1>21, <1>22, <1>23, <1>24 DEF Next, Stage,
     Watch, Edit

-----------------------------------------------------------------------------
(* The checkpoints hold what their fingerprints say.                       *)

(* What is saved, and what it is saved under.                              *)
LEMMA Truthful ==
    ASSUME Sound, pc # "idle"
    PROVE  /\ Faithful(TranscriptKey, [made |-> Made])
           /\ Faithful(ScenesKey, [made |-> Made])
           /\ \A i : \A b \in BOOLEAN : Faithful(RepairKey(i), [made |-> Made, repaired |-> b])
           /\ \A r : Faithful(ClipsKey(r), [views |-> mem.views])
<1>1. Made \in Origins /\ Made.settings = settings
  BY MadeNow DEF Made, Sound
<1>2. Faithful(TranscriptKey, [made |-> Made]) /\ Faithful(ScenesKey, [made |-> Made])
  BY <1>1 DEF Faithful, TranscriptKey, ScenesKey, Stages
<1>3. \A i : \A b \in BOOLEAN : Faithful(RepairKey(i), [made |-> Made, repaired |-> b])
  BY <1>1 DEF Faithful, RepairKey, Stages
<1>4. ASSUME NEW r PROVE Faithful(ClipsKey(r), [views |-> mem.views])
  <2>1. mem.views \in Viewed
    BY DEF Sound, Types, Hands
  <2>2. \A c \in Clips : mem.views[c] # NoAnswer =>
           /\ mem.views[c].made.settings = settings
           /\ mem.views[c].made.version = history[run].version
           /\ mem.views[c].cut = mem.cut
    BY DEF Sound, Fresh, Current
  <2> QED
    BY <2>1, <2>2 DEF Faithful, ClipsKey, GlobalKey, Stages
<1> QED
  BY <1>2, <1>3, <1>4

LEMMA Chose ==
    ASSUME Sound, pc = "select", NEW c \in Cuts
    PROVE  Faithful(GlobalKey, [made |-> mem.global.made, cut |-> c])
<1>1. mem.global \in [made : Origins] /\ Current(mem.global)
  BY DEF Sound, Watched
<1>2. [made |-> mem.global.made, cut |-> c] \in [made : Origins, cut : Cuts]
  BY <1>1
<1> QED
  BY <1>1, <1>2 DEF Faithful, GlobalKey, Stages, Current

LEMMA KeptFewer ==
    ASSUME Kept, files' \subseteq files, rows' \subseteq rows,
           Saving' => Faithful(save'.key, save'.value)
    PROVE  Kept'
  BY DEF Kept

LEMMA TranscriptKept ==
    ASSUME Sound, Transcript
    PROVE  Kept'
<1>1. faults \in Counts /\ pc # "idle"
  BY DEF Sound, Types, Transcript
<1>2. files' = files /\ rows' \subseteq rows
  BY <1>1, Missed DEF Transcript, Load
<1>3. Saving' => save'.key = TranscriptKey /\ save'.value = [made |-> Made]
  BY DEF Transcript, SaveThen, Saving
<1> QED
  BY <1>1, <1>2, <1>3, Truthful, KeptFewer DEF Sound

LEMMA ScenesKept ==
    ASSUME Sound, Scenes
    PROVE  Kept'
<1>1. faults \in Counts /\ pc # "idle"
  BY DEF Sound, Types, Scenes
<1>2. files' = files /\ rows' \subseteq rows
  BY <1>1, Missed DEF Scenes, Load
<1>3. Saving' => save'.key = ScenesKey /\ save'.value = [made |-> Made]
  BY DEF Scenes, SaveThen, Saving
<1> QED
  BY <1>1, <1>2, <1>3, Truthful, KeptFewer DEF Sound

LEMMA SelectKept ==
    ASSUME Sound, Select
    PROVE  Kept'
<1>1. Saving' => \E c \in Cuts : /\ save'.key = GlobalKey
                                 /\ save'.value = [made |-> mem.global.made, cut |-> c]
  BY DEF Select, SaveThen, Saving
<1>2. pc = "select" /\ files' = files /\ rows' = rows
  BY DEF Select, store
<1> QED
  BY <1>1, <1>2, Chose, KeptFewer DEF Sound

LEMMA LookKept ==
    ASSUME Sound, Look
    PROVE  Kept'
<1>1. Saving' = FALSE /\ files' = files /\ rows' = rows
  BY DEF Look, store, Saving, Sound, Types, Watched, Looking, Aim
<1> QED
  BY <1>1, KeptFewer DEF Sound

LEMMA MendKept ==
    ASSUME Sound, Mend
    PROVE  Kept'
<1>1. faults \in Counts /\ pc # "idle"
  BY DEF Sound, Types, Mend
<1>2. files' = files /\ rows' \subseteq rows
  BY <1>1, Missed DEF Mend
<1>3. Faithful(save'.key, save'.value)
  <2>1. PICK i \in First :
           \/ SaveThen(RepairKey(i), [made |-> Made, repaired |-> TRUE], "look")
           \/ SaveThen(RepairKey(i), [made |-> Made, repaired |-> FALSE], "fail")
    BY DEF Mend
  <2>2. /\ Faithful(RepairKey(i), [made |-> Made, repaired |-> TRUE])
        /\ Faithful(RepairKey(i), [made |-> Made, repaired |-> FALSE])
    BY <1>1, Truthful
  <2>3. CASE SaveThen(RepairKey(i), [made |-> Made, repaired |-> TRUE], "look")
    BY <2>2, <2>3 DEF SaveThen
  <2>4. CASE SaveThen(RepairKey(i), [made |-> Made, repaired |-> FALSE], "fail")
    BY <2>2, <2>4 DEF SaveThen
  <2> QED
    BY <2>1, <2>3, <2>4
<1> QED
  BY <1>2, <1>3, KeptFewer DEF Sound

LEMMA LoadClipsKept ==
    ASSUME Sound, LoadClips
    PROVE  Kept'
<1>1. faults \in Counts /\ pc # "idle"
  BY DEF Sound, Types, LoadClips
<1>2. files' = files /\ rows' \subseteq rows
  BY <1>1, Missed DEF LoadClips, Load
<1>3. ASSUME Saving' PROVE Faithful(save'.key, save'.value)
  <2>1. PICK e \in Hits(ClipsKey(history[run].prior)) :
           save' = [key |-> ClipsKey(run), value |-> [views |-> e.value.views],
                    next |-> "artifacts"]
    BY <1>3 DEF LoadClips, SaveThen, Saving
  <2>2. Faithful(ClipsKey(history[run].prior), e.value)
    BY Loaded DEF Sound
  <2>3. Faithful(ClipsKey(run), [views |-> e.value.views])
    BY <2>2 DEF Faithful, ClipsKey, GlobalKey, Stages
  <2> QED
    BY <2>1, <2>3
<1> QED
  BY <1>2, <1>3, KeptFewer DEF Sound

LEMMA MergeKept ==
    ASSUME Sound, Merge
    PROVE  Kept'
<1>1. pc # "idle" /\ files' = files /\ rows' = rows
  BY DEF Merge, store
<1>2. save'.key = ClipsKey(run) /\ save'.value = [views |-> mem.views]
  BY DEF Merge, SaveThen
<1> QED
  BY <1>1, <1>2, Truthful, KeptFewer DEF Sound

LEMMA RecoverKept ==
    ASSUME Sound, Recover
    PROVE  Kept'
<1>1. pc # "idle" /\ files' = files /\ rows' = rows
  BY DEF Recover, store
<1>2. save'.key = ClipsKey(run) /\ save'.value = [views |-> mem.views]
  BY DEF Recover, SaveThen
<1> QED
  BY <1>1, <1>2, Truthful, KeptFewer DEF Sound

LEMMA WriteRowKept ==
    ASSUME Sound, WriteRow
    PROVE  Kept'
<1>1. ~Saving'
  BY DEF WriteRow, Sound, Types, Saving
<1>2. files' \subseteq files
  BY DEF WriteRow, Without
<1>3. \A e \in rows' : e \in rows \/ e = [key |-> save.key, value |-> save.value]
  BY DEF WriteRow, Put, Without
<1>4. Faithful(save.key, save.value)
  BY DEF WriteRow, Sound, Kept, Saving
<1> QED
  BY <1>1, <1>2, <1>3, <1>4 DEF Sound, Kept

LEMMA KeptNext ==
    ASSUME Sound, Next
    PROVE  Kept'
<1>1. ASSUME Transcript PROVE Kept'
  BY <1>1, TranscriptKept
<1>2. ASSUME Scenes PROVE Kept'
  BY <1>2, ScenesKept
<1>3. ASSUME Select PROVE Kept'
  BY <1>3, SelectKept
<1>4. ASSUME Look PROVE Kept'
  BY <1>4, LookKept
<1>5. ASSUME Mend PROVE Kept'
  BY <1>5, MendKept
<1>6. ASSUME LoadClips PROVE Kept'
  BY <1>6, LoadClipsKept
<1>7. ASSUME Merge PROVE Kept'
  BY <1>7, MergeKept
<1>8. ASSUME Recover PROVE Kept'
  BY <1>8, RecoverKept
<1>9. ASSUME WriteRow PROVE Kept'
  BY <1>9, WriteRowKept
<1> USE DEF Sound, Kept, Saving, config, sights, store, task
<1>10. ASSUME Claim PROVE Kept'
  BY <1>10 DEF Claim
<1>11. ASSUME Gate PROVE Kept'
  BY <1>11 DEF Gate
<1>12. ASSUME Global PROVE Kept'
  BY <1>12 DEF Global, Load, Miss, Quarantined, Without
<1>13. ASSUME LegacyMend PROVE Kept'
  BY <1>13 DEF LegacyMend, Seen, First, View
<1>14. ASSUME Exhausted PROVE Kept'
  BY <1>14 DEF Exhausted
<1>15. ASSUME Remembered PROVE Kept'
  BY <1>15 DEF Remembered, Seen, First, View, Slot
<1>16. ASSUME Artifacts PROVE Kept'
  BY <1>16 DEF Artifacts, Written
<1>17. ASSUME Plan PROVE Kept'
  BY <1>17 DEF Plan
<1>18. ASSUME Cover PROVE Kept'
  BY <1>18 DEF Cover, Covered
<1>19. ASSUME Again PROVE Kept'
  BY <1>19 DEF Again, Written
<1>20. ASSUME End PROVE Kept'
  BY <1>20 DEF End, Forget
<1>21. ASSUME Crash PROVE Kept'
  BY <1>21 DEF Crash, Forget
<1>22. ASSUME Deploy PROVE Kept'
  BY <1>22 DEF Deploy
<1>23. ASSUME WriteFile PROVE Kept'
  BY <1>23 DEF WriteFile, Put, Without
<1>24. ASSUME Spoil PROVE Kept'
  BY <1>24 DEF Spoil
<1> QED
  BY <1>1, <1>2, <1>3, <1>4, <1>5, <1>6, <1>7, <1>8, <1>9, <1>10, <1>11, <1>12, <1>13, <1>14,
     <1>15, <1>16, <1>17, <1>18, <1>19, <1>20, <1>21, <1>22, <1>23, <1>24 DEF Next, Stage,
     Watch, Edit

-----------------------------------------------------------------------------
(* What is in hand is of the settings, the version and the cut that hold.  *)

LEMMA SeenFresh ==
    ASSUME Sound, pc # "idle", NEW i \in todo, Seen(i), UNCHANGED <<history, settings, run>>
    PROVE  Fresh'
<1>1. Made.settings = settings /\ Made.version = history[run].version
  BY DEF Made
<1>2. CASE i = 0
  <2>1. mem' = [mem EXCEPT !.global = [made |-> Made]]
    BY <1>2 DEF Seen
  <2> QED
    BY <1>1, <2>1 DEF Sound, Types, Hands, Fresh, Current
<1>3. CASE i # 0
  <2>1. mem' = [mem EXCEPT !.views[i] = View]
    BY <1>3 DEF Seen
  <2>2. i \in Clips /\ mem.views \in Viewed
    BY <1>3 DEF Sound, Types, Looks, Hands
  <2>3. /\ mem'.transcript = mem.transcript /\ mem'.scenes = mem.scenes
        /\ mem'.global = mem.global /\ mem'.cut = mem.cut
        /\ mem'.views = [mem.views EXCEPT ![i] = View]
    BY <2>1 DEF Sound, Types, Hands
  <2>4. mem'.views[i] = View /\ \A c \in Clips : c # i => mem'.views[c] = mem.views[c]
    BY <2>2, <2>3 DEF Viewed
  <2>5. View.made = Made /\ View.cut = mem.cut
    BY DEF View
  <2> QED
    BY <1>1, <2>3, <2>4, <2>5 DEF Sound, Fresh, Current
<1> QED
  BY <1>2, <1>3

LEMMA TranscriptFresh ==
    ASSUME Sound, Transcript
    PROVE  Fresh'
<1>1. history' = history /\ settings' = settings /\ run' = run
  BY DEF Transcript, config, task
<1>2. CASE mem' = mem
  BY <1>1, <1>2 DEF Sound, Fresh, Current
<1>3. ASSUME NEW m, mem' = [mem EXCEPT !.transcript = m], Faithful(TranscriptKey, m)
      PROVE  Fresh'
  BY <1>1, <1>3 DEF Sound, Types, Hands, Fresh, Current, Faithful, TranscriptKey
<1>4. Faithful(TranscriptKey, [made |-> Made])
  BY Truthful DEF Transcript
<1>5. \A e \in Hits(TranscriptKey) : Faithful(TranscriptKey, e.value)
  BY Loaded DEF Sound
<1> QED
  BY <1>2, <1>3, <1>4, <1>5 DEF Transcript

LEMMA ScenesFresh ==
    ASSUME Sound, Scenes
    PROVE  Fresh'
<1>1. history' = history /\ settings' = settings /\ run' = run
  BY DEF Scenes, config, task
<1>2. CASE mem' = mem
  BY <1>1, <1>2 DEF Sound, Fresh, Current
<1>3. ASSUME NEW m, mem' = [mem EXCEPT !.scenes = m], Faithful(ScenesKey, m)
      PROVE  Fresh'
  BY <1>1, <1>3 DEF Sound, Types, Hands, Fresh, Current, Faithful, ScenesKey
<1>4. Faithful(ScenesKey, [made |-> Made])
  BY Truthful DEF Scenes
<1>5. \A e \in Hits(ScenesKey) : Faithful(ScenesKey, e.value)
  BY Loaded DEF Sound
<1> QED
  BY <1>2, <1>3, <1>4, <1>5 DEF Scenes

LEMMA GlobalFresh ==
    ASSUME Sound, Global
    PROVE  Fresh'
<1>1. history' = history /\ settings' = settings /\ run' = run
  BY DEF Global, config, task
<1>2. CASE mem' = mem
  BY <1>1, <1>2 DEF Sound, Fresh, Current
<1>3. ASSUME NEW e \in Hits(GlobalKey),
             mem' = [mem EXCEPT !.global = [made |-> e.value.made], !.cut = e.value.cut]
      PROVE  Fresh'
  <2>1. mem.views = [c \in Clips |-> NoAnswer]
    BY DEF Global, Sound, Watched, Choosing, Aim, Saving
  <2>2. Faithful(GlobalKey, e.value)
    BY Loaded DEF Sound
  <2>3. e.value.made.settings = settings /\ e.value.made.version = history[run].version
    BY <2>2 DEF Faithful, GlobalKey
  <2> QED
    BY <1>1, <1>3, <2>1, <2>3 DEF Sound, Types, Hands, Fresh, Current
<1> QED
  BY <1>2, <1>3 DEF Global

LEMMA SelectFresh ==
    ASSUME Sound, Select
    PROVE  Fresh'
<1>1. history' = history /\ settings' = settings /\ run' = run
  BY DEF Select, config, task
<1>2. mem.views = [c \in Clips |-> NoAnswer]
  BY DEF Select, Sound, Watched, Choosing, Aim, Saving
<1>3. /\ mem'.transcript = mem.transcript /\ mem'.scenes = mem.scenes
      /\ mem'.global = mem.global /\ mem'.views = mem.views
  BY DEF Select, Sound, Types, Hands
<1> QED
  BY <1>1, <1>2, <1>3 DEF Sound, Fresh, Current

LEMMA LookFresh ==
    ASSUME Sound, Look
    PROVE  Fresh'
<1>1. history' = history /\ settings' = settings /\ run' = run /\ pc # "idle"
  BY DEF Look, config, task
<1>2. CASE mem' = mem
  BY <1>1, <1>2 DEF Sound, Fresh, Current
<1>3. mem' = mem \/ \E i \in todo : Seen(i)
  BY DEF Look, First
<1> QED
  BY <1>1, <1>2, <1>3, SeenFresh

LEMMA LegacyMendFresh ==
    ASSUME Sound, LegacyMend
    PROVE  Fresh'
<1>1. history' = history /\ settings' = settings /\ run' = run /\ pc # "idle"
  BY DEF LegacyMend, config, task
<1>2. CASE mem' = mem
  BY <1>1, <1>2 DEF Sound, Fresh, Current
<1>3. mem' = mem \/ \E i \in todo : Seen(i)
  BY DEF LegacyMend, First
<1> QED
  BY <1>1, <1>2, <1>3, SeenFresh

LEMMA RememberedFresh ==
    ASSUME Sound, Remembered
    PROVE  Fresh'
<1>1. history' = history /\ settings' = settings /\ run' = run /\ pc # "idle"
  BY DEF Remembered, config, task
<1>2. CASE mem' = mem
  BY <1>1, <1>2 DEF Sound, Fresh, Current
<1>3. mem' = mem \/ \E i \in todo : Seen(i)
  BY DEF Remembered, First
<1> QED
  BY <1>1, <1>2, <1>3, SeenFresh

LEMMA MendFresh ==
    ASSUME Sound, Mend
    PROVE  Fresh'
<1>1. history' = history /\ settings' = settings /\ run' = run /\ pc # "idle"
  BY DEF Mend, config, task
<1>2. CASE mem' = mem
  BY <1>1, <1>2 DEF Sound, Fresh, Current
<1>3. mem' = mem \/ \E i \in todo : Seen(i)
  BY DEF Mend, First
<1> QED
  BY <1>1, <1>2, <1>3, SeenFresh

LEMMA LoadClipsFresh ==
    ASSUME Sound, LoadClips
    PROVE  Fresh'
<1>1. history' = history /\ settings' = settings /\ run' = run
  BY DEF LoadClips, config, task
<1>2. CASE mem' = mem
  BY <1>1, <1>2 DEF Sound, Fresh, Current
<1>3. ASSUME NEW e \in Hits(ClipsKey(history[run].prior)),
             mem' = [mem EXCEPT !.views = e.value.views]
      PROVE  Fresh'
  <2>1. Faithful(ClipsKey(history[run].prior), e.value)
    BY Loaded DEF Sound
  <2>2. \A c \in Clips : e.value.views[c] # NoAnswer =>
           /\ e.value.views[c].made.settings = settings
           /\ e.value.views[c].made.version = history[run].version
           /\ e.value.views[c].cut = mem.cut
    BY <2>1 DEF Faithful, ClipsKey, GlobalKey
  <2>3. /\ mem'.transcript = mem.transcript /\ mem'.scenes = mem.scenes
        /\ mem'.global = mem.global /\ mem'.cut = mem.cut /\ mem'.views = e.value.views
    BY <1>3 DEF Sound, Types, Hands
  <2> QED
    BY <1>1, <2>2, <2>3 DEF Sound, Fresh, Current
<1> QED
  BY <1>2, <1>3 DEF LoadClips

LEMMA FreshNext ==
    ASSUME Sound, Next
    PROVE  Fresh'
<1>1. ASSUME Transcript PROVE Fresh'
  BY <1>1, TranscriptFresh
<1>2. ASSUME Scenes PROVE Fresh'
  BY <1>2, ScenesFresh
<1>3. ASSUME Global PROVE Fresh'
  BY <1>3, GlobalFresh
<1>4. ASSUME Select PROVE Fresh'
  BY <1>4, SelectFresh
<1>5. ASSUME Look PROVE Fresh'
  BY <1>5, LookFresh
<1>6. ASSUME LegacyMend PROVE Fresh'
  BY <1>6, LegacyMendFresh
<1>7. ASSUME Remembered PROVE Fresh'
  BY <1>7, RememberedFresh
<1>8. ASSUME Mend PROVE Fresh'
  BY <1>8, MendFresh
<1>9. ASSUME LoadClips PROVE Fresh'
  BY <1>9, LoadClipsFresh
<1> USE DEF Sound, Types, Fresh, Current, Hands, Nothing, config, sights, store, task
<1>10. ASSUME Claim PROVE Fresh'
  BY <1>10 DEF Claim
<1>11. ASSUME Gate PROVE Fresh'
  BY <1>11 DEF Gate
<1>12. ASSUME Exhausted PROVE Fresh'
  BY <1>12 DEF Exhausted
<1>13. ASSUME Merge PROVE Fresh'
  BY <1>13 DEF Merge, SaveThen
<1>14. ASSUME Artifacts PROVE Fresh'
  BY <1>14 DEF Artifacts, Written
<1>15. ASSUME Plan PROVE Fresh'
  BY <1>15 DEF Plan
<1>16. ASSUME Cover PROVE Fresh'
  BY <1>16 DEF Cover, Covered
<1>17. ASSUME Again PROVE Fresh'
  BY <1>17 DEF Again, Written
<1>18. ASSUME Recover PROVE Fresh'
  BY <1>18 DEF Recover, Covered, SaveThen
<1>19. ASSUME End PROVE Fresh'
  BY <1>19 DEF End, Forget
<1>20. ASSUME Crash PROVE Fresh'
  BY <1>20 DEF Crash, Forget
<1>21. ASSUME Deploy PROVE Fresh'
  BY <1>21 DEF Deploy
<1>22. ASSUME WriteFile PROVE Fresh'
  BY <1>22 DEF WriteFile
<1>23. ASSUME WriteRow PROVE Fresh'
  BY <1>23 DEF WriteRow
<1>24. ASSUME Spoil PROVE Fresh'
  BY <1>24 DEF Spoil
<1> QED
  BY <1>1, <1>2, <1>3, <1>4, <1>5, <1>6, <1>7, <1>8, <1>9, <1>10, <1>11, <1>12, <1>13, <1>14,
     <1>15, <1>16, <1>17, <1>18, <1>19, <1>20, <1>21, <1>22, <1>23, <1>24 DEF Next, Stage,
     Watch, Edit

-----------------------------------------------------------------------------
(* What was bought, and by whom.                                           *)

LEMMA BoughtNow ==
    ASSUME Sound, Paid, pc # "idle", NEW k, bought' \subseteq bought \cup {[key |-> k, by |-> Now]},
           bought \subseteq bought', gone' \subseteq gone \cup bought
    PROVE  Paid'
  BY MadeNow DEF Sound, Paid

LEMMA TranscriptPaid ==
    ASSUME Sound, Paid, Transcript
    PROVE  Paid'
<1>1. faults \in Counts /\ pc # "idle"
  BY DEF Sound, Types, Transcript
<1>2. gone' \subseteq gone \cup bought
  BY <1>1, Missed DEF Transcript, Load, Sound, Paid
<1>3. /\ bought \subseteq bought'
      /\ bought' \subseteq bought \cup {[key |-> TranscriptKey, by |-> Now]}
  BY DEF Transcript, Buy
<1> QED
  BY <1>1, <1>2, <1>3, BoughtNow

LEMMA ScenesPaid ==
    ASSUME Sound, Paid, Scenes
    PROVE  Paid'
<1>1. faults \in Counts /\ pc # "idle"
  BY DEF Sound, Types, Scenes
<1>2. gone' \subseteq gone \cup bought
  BY <1>1, Missed DEF Scenes, Load, Sound, Paid
<1>3. /\ bought \subseteq bought'
      /\ bought' \subseteq bought \cup {[key |-> ScenesKey, by |-> Now]}
  BY DEF Scenes, Buy
<1> QED
  BY <1>1, <1>2, <1>3, BoughtNow

LEMMA GlobalPaid ==
    ASSUME Sound, Paid, Global
    PROVE  Paid'
<1>1. faults \in Counts /\ pc # "idle"
  BY DEF Sound, Types, Global
<1>2. gone' \subseteq gone \cup bought
  BY <1>1, Missed DEF Global, Load, Sound, Paid
<1>3. /\ bought \subseteq bought'
      /\ bought' \subseteq bought \cup {[key |-> GlobalKey, by |-> Now]}
  BY DEF Global, Buy
<1> QED
  BY <1>1, <1>2, <1>3, BoughtNow

LEMMA PaidNext ==
    ASSUME Sound, Paid, Next
    PROVE  Paid'
<1>1. ASSUME Transcript PROVE Paid'
  BY <1>1, TranscriptPaid
<1>2. ASSUME Scenes PROVE Paid'
  BY <1>2, ScenesPaid
<1>3. ASSUME Global PROVE Paid'
  BY <1>3, GlobalPaid
<1> USE DEF Sound, Paid, config, sights, store, task
<1>4. ASSUME Claim PROVE Paid'
  BY <1>4, MadeNow DEF Claim
<1>5. ASSUME Gate PROVE Paid'
  BY <1>5, MadeNow DEF Gate
<1>6. ASSUME Select PROVE Paid'
  BY <1>6, MadeNow DEF Select, SaveThen
<1>7. ASSUME Look PROVE Paid'
  BY <1>7, MadeNow DEF Look, Seen, First, View
<1>8. ASSUME LegacyMend PROVE Paid'
  BY <1>8, MadeNow DEF LegacyMend, Seen, First, View
<1>9. ASSUME Exhausted PROVE Paid'
  BY <1>9, MadeNow DEF Exhausted
<1>10. ASSUME Remembered PROVE Paid'
  BY <1>10, MadeNow DEF Remembered, Seen, First, View, Slot
<1>11. ASSUME Mend PROVE Paid'
  BY <1>11, MadeNow DEF Mend, Seen, First, View, Slot, Miss, SaveThen, Of, Buy, Now
<1>12. ASSUME LoadClips PROVE Paid'
  BY <1>12, MadeNow DEF LoadClips, Load, Miss, SaveThen, Of
<1>13. ASSUME Merge PROVE Paid'
  BY <1>13, MadeNow DEF Merge, SaveThen
<1>14. ASSUME Artifacts PROVE Paid'
  BY <1>14, MadeNow DEF Artifacts, Written
<1>15. ASSUME Plan PROVE Paid'
  BY <1>15, MadeNow DEF Plan
<1>16. ASSUME Cover PROVE Paid'
  BY <1>16, MadeNow DEF Cover, Covered
<1>17. ASSUME Again PROVE Paid'
  BY <1>17, MadeNow DEF Again, Written
<1>18. ASSUME Recover PROVE Paid'
  BY <1>18, MadeNow DEF Recover, Covered, SaveThen
<1>19. ASSUME End PROVE Paid'
  BY <1>19, MadeNow DEF End, Forget, Unsaved
<1>20. ASSUME Crash PROVE Paid'
  BY <1>20, MadeNow DEF Crash, Forget, Unsaved
<1>21. ASSUME Deploy PROVE Paid'
  BY <1>21, MadeNow DEF Deploy
<1>22. ASSUME WriteFile PROVE Paid'
  BY <1>22, MadeNow DEF WriteFile, Of
<1>23. ASSUME WriteRow PROVE Paid'
  BY <1>23, MadeNow DEF WriteRow, Of
<1>24. ASSUME Spoil PROVE Paid'
  BY <1>24, MadeNow DEF Spoil, Of
<1> QED
  BY <1>1, <1>2, <1>3, <1>4, <1>5, <1>6, <1>7, <1>8, <1>9, <1>10, <1>11, <1>12, <1>13, <1>14,
     <1>15, <1>16, <1>17, <1>18, <1>19, <1>20, <1>21, <1>22, <1>23, <1>24 DEF Next, Stage,
     Watch, Edit

-----------------------------------------------------------------------------
(* It is in a checkpoint, on its way, lost, or of a run that is over.      *)

(* What may be bought after a miss was lost if it had been bought before.  *)
LEMMA BoughtOnce ==
    ASSUME Sound, Paid, PaidOnce, Accounted, pc # "idle", NEW k, Miss(k),
           bought \subseteq bought', bought' \subseteq bought \cup {[key |-> k, by |-> Now]},
           UNCHANGED <<files, state>>, pc' # "row", k.stage \in Stages \/ k.run = run,
           \A p \in bought : InHand(p) => InHand(p)' /\ p.key # k,
           bought' # bought => \A p : p.key = k => InHand(p)'
    PROVE  Accounted' /\ PaidOnce'
<1>1. Of(k) \subseteq gone'
  <2>1. CASE Hits(k) = {}
    <3> SUFFICES ASSUME NEW p \in bought \ gone, p.key = k PROVE FALSE
      BY StillThere DEF Of
    <3>1. Over(p)
      BY <2>1 DEF Accounted
    <3> QED
      BY <3>1 DEF Over, Sound, Types
  <2> QED
    BY <2>1 DEF Miss
<1>2. \A p \in bought' \ gone' :
         p \in bought \ gone \/ (p = [key |-> k, by |-> Now] /\ bought' # bought)
  BY StillThere
<1>3. PaidOnce'
  BY <1>1, <1>2 DEF PaidOnce, Of
<1>4. ASSUME NEW p \in bought \ gone
      PROVE  Hits(p.key)' # {} \/ InHand(p)' \/ Over(p)'
  <2>1. CASE Hits(p.key) # {}
    BY <2>1, StillThere DEF Hits
  <2>2. CASE InHand(p)
    BY <2>2
  <2>3. CASE Over(p)
    BY <2>3 DEF Over
  <2> QED
    BY <2>1, <2>2, <2>3 DEF Accounted
<1>5. Accounted'
  BY <1>2, <1>4 DEF Accounted
<1> QED
  BY <1>3, <1>5

LEMMA TranscriptAccounted ==
    ASSUME Sound, Paid, PaidOnce, Accounted, Transcript
    PROVE  Accounted' /\ PaidOnce'
<1>1. pc # "idle" /\ (\A p : ~InHand(p)) /\ UNCHANGED <<files, state>>
  BY DEF Transcript, InHand, Aim, Saving, Looking, task
<1>2. CASE Miss(TranscriptKey)
  <2>1. /\ bought \subseteq bought'
        /\ bought' \subseteq bought \cup {[key |-> TranscriptKey, by |-> Now]}
    BY DEF Transcript, Buy
  <2>2. pc' # "row" /\ TranscriptKey.stage \in Stages
    BY DEF Transcript, SaveThen, TranscriptKey, Stages
  <2>3. bought' # bought => Saving' /\ save'.key = TranscriptKey
    BY DEF Transcript, SaveThen, Saving
  <2>4. bought' # bought => \A p : p.key = TranscriptKey => InHand(p)'
    BY <2>3 DEF InHand
  <2> QED
    BY <1>1, <1>2, <2>1, <2>2, <2>4, BoughtOnce
<1>3. CASE ~Miss(TranscriptKey)
  <2>1. UNCHANGED <<rows, gone, bought>> /\ pc' = "scenes"
    BY <1>3 DEF Transcript, Load
  <2> QED
    BY <1>1, <2>1 DEF Accounted, PaidOnce, Hits, Over
<1> QED
  BY <1>2, <1>3

LEMMA ScenesAccounted ==
    ASSUME Sound, Paid, PaidOnce, Accounted, Scenes
    PROVE  Accounted' /\ PaidOnce'
<1>1. pc # "idle" /\ (\A p : ~InHand(p)) /\ UNCHANGED <<files, state>>
  BY DEF Scenes, InHand, Aim, Saving, Looking, task
<1>2. CASE Miss(ScenesKey)
  <2>1. /\ bought \subseteq bought'
        /\ bought' \subseteq bought \cup {[key |-> ScenesKey, by |-> Now]}
    BY DEF Scenes, Buy
  <2>2. pc' # "row" /\ ScenesKey.stage \in Stages
    BY DEF Scenes, SaveThen, ScenesKey, Stages
  <2>3. bought' # bought => Saving' /\ save'.key = ScenesKey
    BY DEF Scenes, SaveThen, Saving
  <2>4. bought' # bought => \A p : p.key = ScenesKey => InHand(p)'
    BY <2>3 DEF InHand
  <2> QED
    BY <1>1, <1>2, <2>1, <2>2, <2>4, BoughtOnce
<1>3. CASE ~Miss(ScenesKey)
  <2>1. UNCHANGED <<rows, gone, bought>> /\ pc' = "global"
    BY <1>3 DEF Scenes, Load
  <2> QED
    BY <1>1, <2>1 DEF Accounted, PaidOnce, Hits, Over
<1> QED
  BY <1>2, <1>3

LEMMA GlobalAccounted ==
    ASSUME Sound, Paid, PaidOnce, Accounted, Global
    PROVE  Accounted' /\ PaidOnce'
<1>1. pc # "idle" /\ (\A p : ~InHand(p)) /\ UNCHANGED <<files, state>>
  BY DEF Global, InHand, Aim, Saving, Looking, task
<1>2. CASE Miss(GlobalKey) /\ pc' = "look"
  <2>1. /\ bought \subseteq bought'
        /\ bought' \subseteq bought \cup {[key |-> GlobalKey, by |-> Now]}
    BY DEF Global, Buy
  <2>2. pc' # "row" /\ GlobalKey.stage \in Stages
    BY <1>2 DEF GlobalKey, Stages
  <2>3. Looking({"select"})' /\ GlobalKey' = GlobalKey
    BY <1>2 DEF Global, Looking, Aim, Saving, GlobalKey, config, task
  <2>4. \A p : p.key = GlobalKey => InHand(p)'
    BY <2>3 DEF InHand
  <2> QED
    BY <1>1, <1>2, <2>1, <2>2, <2>4, BoughtOnce
<1>3. CASE ~(Miss(GlobalKey) /\ pc' = "look")
  <2>1. UNCHANGED <<rows, gone, bought>> /\ pc' = "clips"
    BY <1>3 DEF Global, Load
  <2> QED
    BY <1>1, <2>1 DEF Accounted, PaidOnce, Hits, Over
<1> QED
  BY <1>2, <1>3

LEMMA LookAccounted ==
    ASSUME Sound, Paid, PaidOnce, Accounted, Look
    PROVE  Accounted' /\ PaidOnce'
<1>1. UNCHANGED <<files, rows, bought, gone, state>> /\ GlobalKey' = GlobalKey
  BY DEF Look, store, task, GlobalKey, config
<1>2. pc = "look" /\ pc' \in {"look", "mend", "fail", after} /\ after' = after
  BY DEF Look
<1>3. after \in {"select", "merge", "again"}
  BY <1>2 DEF Sound, Watched, Aim, Saving
<1>4. ~Saving /\ ~Saving' /\ Aim = "look" /\ Aim' = pc'
  BY <1>2, <1>3 DEF Saving, Aim
<1>5. ASSUME NEW p, InHand(p) PROVE InHand(p)'
  BY <1>1, <1>2, <1>3, <1>4, <1>5 DEF InHand, Looking, Look
<1> QED
  BY <1>1, <1>4, <1>5 DEF Accounted, PaidOnce, Hits, Over, Saving

LEMMA MendAccounted ==
    ASSUME Sound, Paid, PaidOnce, Accounted, Mend
    PROVE  Accounted' /\ PaidOnce'
<1>1. PICK i \in First :
         /\ Miss(RepairKey(i))
         /\ bought' = bought \/ Buy(RepairKey(i))
         /\ save'.key = RepairKey(i) /\ save'.next \in {"look", "fail"} /\ pc' = "file"
  <2>1. PICK i \in First :
           /\ Miss(RepairKey(i))
           /\ bought' = bought \/ Buy(RepairKey(i))
           /\ \/ SaveThen(RepairKey(i), [made |-> Made, repaired |-> TRUE], "look")
              \/ SaveThen(RepairKey(i), [made |-> Made, repaired |-> FALSE], "fail")
    BY DEF Mend
  <2> QED
    BY <2>1 DEF SaveThen
<1>2. /\ pc = "mend" /\ UNCHANGED <<files, state, after>> /\ GlobalKey' = GlobalKey
  BY DEF Mend, task, config, GlobalKey
<1>3. /\ bought \subseteq bought'
      /\ bought' \subseteq bought \cup {[key |-> RepairKey(i), by |-> Now]}
  BY <1>1 DEF Buy
<1>4. RepairKey(i).run = run /\ RepairKey(i) # GlobalKey
  BY DEF RepairKey, GlobalKey
<1>5. ~Saving /\ Saving' /\ Aim = "mend" /\ Aim' \in {"look", "fail"}
  BY <1>1, <1>2 DEF Saving, Aim
<1>6. ASSUME NEW p, InHand(p) PROVE InHand(p)' /\ p.key # RepairKey(i)
  BY <1>2, <1>4, <1>5, <1>6 DEF InHand, Looking
<1>7. \A p : p.key = RepairKey(i) => InHand(p)'
  BY <1>1, <1>5 DEF InHand
<1> QED
  BY <1>1, <1>2, <1>3, <1>4, <1>6, <1>7, BoughtOnce

LEMMA LoadClipsAccounted ==
    ASSUME Sound, Paid, PaidOnce, Accounted, LoadClips
    PROVE  Accounted' /\ PaidOnce'
<1>1. (\A p : ~InHand(p)) /\ UNCHANGED <<files, state, bought>>
  BY DEF LoadClips, InHand, Aim, Saving, Looking, task
<1>2. gone \subseteq gone' /\ \A e \in files \cap rows : e \in rows'
  BY StillThere DEF LoadClips, Load
<1>3. pc' # "row"
  BY DEF LoadClips, SaveThen
<1> QED
  BY <1>1, <1>2, <1>3 DEF Accounted, PaidOnce, Hits, Over

LEMMA AccountedNext ==
    ASSUME Sound, Paid, PaidOnce, Accounted, Next
    PROVE  (Accounted /\ PaidOnce)'
<1>1. ASSUME Transcript PROVE (Accounted /\ PaidOnce)'
  BY <1>1, TranscriptAccounted
<1>2. ASSUME Scenes PROVE (Accounted /\ PaidOnce)'
  BY <1>2, ScenesAccounted
<1>3. ASSUME Global PROVE (Accounted /\ PaidOnce)'
  BY <1>3, GlobalAccounted
<1>4. ASSUME Look PROVE (Accounted /\ PaidOnce)'
  BY <1>4, LookAccounted
<1>5. ASSUME Mend PROVE (Accounted /\ PaidOnce)'
  BY <1>5, MendAccounted
<1>6. ASSUME LoadClips PROVE (Accounted /\ PaidOnce)'
  BY <1>6, LoadClipsAccounted
<1> USE DEF Sound, Types, Paid, PaidOnce, Accounted, InHand, Over, Looking, Aim, Saving, Hits,
   GlobalKey, config, sights, store, task
<1>7. ASSUME Claim PROVE (Accounted /\ PaidOnce)'
  BY <1>7 DEF Claim
<1>8. ASSUME Gate PROVE (Accounted /\ PaidOnce)'
  BY <1>8 DEF Gate
<1>9. ASSUME Select PROVE (Accounted /\ PaidOnce)'
  BY <1>9 DEF Select, SaveThen
<1>10. ASSUME LegacyMend PROVE (Accounted /\ PaidOnce)'
  BY <1>10 DEF LegacyMend, Seen, First, View
<1>11. ASSUME Exhausted PROVE (Accounted /\ PaidOnce)'
  BY <1>11 DEF Exhausted
<1>12. ASSUME Remembered PROVE (Accounted /\ PaidOnce)'
  BY <1>12 DEF Remembered, Seen, First, View, Slot
<1>13. ASSUME Merge PROVE (Accounted /\ PaidOnce)'
  BY <1>13 DEF Merge, SaveThen
<1>14. ASSUME Artifacts PROVE (Accounted /\ PaidOnce)'
  BY <1>14 DEF Artifacts, Written
<1>15. ASSUME Plan PROVE (Accounted /\ PaidOnce)'
  BY <1>15 DEF Plan
<1>16. ASSUME Cover PROVE (Accounted /\ PaidOnce)'
  BY <1>16 DEF Cover, Covered
<1>17. ASSUME Again PROVE (Accounted /\ PaidOnce)'
  BY <1>17 DEF Again, Written
<1>18. ASSUME Recover PROVE (Accounted /\ PaidOnce)'
  BY <1>18 DEF Recover, Covered, SaveThen
<1>19. ASSUME End PROVE (Accounted /\ PaidOnce)'
  BY <1>19 DEF End, Forget, Unsaved
<1>20. ASSUME Crash PROVE (Accounted /\ PaidOnce)'
  BY <1>20 DEF Crash, Forget, Unsaved
<1>21. ASSUME Deploy PROVE (Accounted /\ PaidOnce)'
  BY <1>21 DEF Deploy
<1>22. ASSUME WriteFile PROVE (Accounted /\ PaidOnce)'
  BY <1>22 DEF WriteFile, Put, Without, Of
<1>23. ASSUME WriteRow PROVE (Accounted /\ PaidOnce)'
  BY <1>23 DEF WriteRow, Put, Without, Of, NoSave
<1>24. ASSUME Spoil PROVE (Accounted /\ PaidOnce)'
  BY <1>24 DEF Spoil, Of
<1> QED
  BY <1>1, <1>2, <1>3, <1>4, <1>5, <1>6, <1>7, <1>8, <1>9, <1>10, <1>11, <1>12, <1>13, <1>14,
     <1>15, <1>16, <1>17, <1>18, <1>19, <1>20, <1>21, <1>22, <1>23, <1>24 DEF Next, Stage,
     Watch, Edit

-----------------------------------------------------------------------------
(* The repairs of an attempt are used up.                                  *)

LEMMA AskedOther ==
    ASSUME Sound, Asked, pc # "idle", NEW k, k.stage # "repair",
           bought' \subseteq bought \cup {[key |-> k, by |-> Now]},
           UNCHANGED <<run, attempt, used>>
    PROVE  Asked'
<1>1. attempt[run] \in Nat
  BY DEF Sound, Types
<1> QED
  BY <1>1 DEF Asked, Now

LEMMA TranscriptAsked ==
    ASSUME Sound, Paid, Asked, Transcript
    PROVE  Asked'
<1>1. faults \in Counts /\ pc # "idle"
  BY DEF Sound, Types, Transcript
<1>2. gone' \subseteq gone \cup bought
  BY <1>1, Missed DEF Transcript, Load, Sound, Paid
<1>3. /\ bought \subseteq bought'
      /\ bought' \subseteq bought \cup {[key |-> TranscriptKey, by |-> Now]}
  BY DEF Transcript, Buy
<1>4. TranscriptKey.stage # "repair" /\ UNCHANGED <<run, attempt, used>>
  BY DEF Transcript, TranscriptKey, task, sights
<1> QED
  BY <1>1, <1>3, <1>4, AskedOther

LEMMA ScenesAsked ==
    ASSUME Sound, Paid, Asked, Scenes
    PROVE  Asked'
<1>1. faults \in Counts /\ pc # "idle"
  BY DEF Sound, Types, Scenes
<1>2. gone' \subseteq gone \cup bought
  BY <1>1, Missed DEF Scenes, Load, Sound, Paid
<1>3. /\ bought \subseteq bought'
      /\ bought' \subseteq bought \cup {[key |-> ScenesKey, by |-> Now]}
  BY DEF Scenes, Buy
<1>4. ScenesKey.stage # "repair" /\ UNCHANGED <<run, attempt, used>>
  BY DEF Scenes, ScenesKey, task, sights
<1> QED
  BY <1>1, <1>3, <1>4, AskedOther

LEMMA GlobalAsked ==
    ASSUME Sound, Paid, Asked, Global
    PROVE  Asked'
<1>1. faults \in Counts /\ pc # "idle"
  BY DEF Sound, Types, Global
<1>2. gone' \subseteq gone \cup bought
  BY <1>1, Missed DEF Global, Load, Sound, Paid
<1>3. /\ bought \subseteq bought'
      /\ bought' \subseteq bought \cup {[key |-> GlobalKey, by |-> Now]}
  BY DEF Global, Buy
<1>4. GlobalKey.stage # "repair" /\ UNCHANGED <<run, attempt, used>>
  BY DEF Global, GlobalKey, task, sights
<1> QED
  BY <1>1, <1>3, <1>4, AskedOther

LEMMA AskedNext ==
    ASSUME Sound, Paid, Asked, Next
    PROVE  Asked'
<1>1. ASSUME Transcript PROVE Asked'
  BY <1>1, TranscriptAsked
<1>2. ASSUME Scenes PROVE Asked'
  BY <1>2, ScenesAsked
<1>3. ASSUME Global PROVE Asked'
  BY <1>3, GlobalAsked
<1> USE DEF Sound, Types, Paid, Asked, Stamp, Now, config, sights, store, task
<1>4. ASSUME Claim PROVE Asked'
  BY <1>4 DEF Claim
<1>5. ASSUME Gate PROVE Asked'
  BY <1>5 DEF Gate
<1>6. ASSUME Select PROVE Asked'
  BY <1>6 DEF Select, SaveThen
<1>7. ASSUME Look PROVE Asked'
  BY <1>7 DEF Look, Seen, First, View
<1>8. ASSUME LegacyMend PROVE Asked'
  BY <1>8 DEF LegacyMend, Seen, First, View
<1>9. ASSUME Exhausted PROVE Asked'
  BY <1>9 DEF Exhausted
<1>10. ASSUME Remembered PROVE Asked'
  BY <1>10 DEF Remembered, Seen, First, View, Slot
<1>11. ASSUME Mend PROVE Asked'
  BY <1>11 DEF Mend, Seen, First, View, Slot, Miss, SaveThen, Buy, RepairKey
<1>12. ASSUME LoadClips PROVE Asked'
  BY <1>12 DEF LoadClips, Load, Miss, SaveThen
<1>13. ASSUME Merge PROVE Asked'
  BY <1>13 DEF Merge, SaveThen
<1>14. ASSUME Artifacts PROVE Asked'
  BY <1>14 DEF Artifacts, Written
<1>15. ASSUME Plan PROVE Asked'
  BY <1>15 DEF Plan
<1>16. ASSUME Cover PROVE Asked'
  BY <1>16 DEF Cover, Covered
<1>17. ASSUME Again PROVE Asked'
  BY <1>17 DEF Again, Written
<1>18. ASSUME Recover PROVE Asked'
  BY <1>18 DEF Recover, Covered, SaveThen
<1>19. ASSUME End PROVE Asked'
  BY <1>19 DEF End, Forget
<1>20. ASSUME Crash PROVE Asked'
  BY <1>20 DEF Crash, Forget
<1>21. ASSUME Deploy PROVE Asked'
  BY <1>21 DEF Deploy
<1>22. ASSUME WriteFile PROVE Asked'
  BY <1>22 DEF WriteFile
<1>23. ASSUME WriteRow PROVE Asked'
  BY <1>23 DEF WriteRow
<1>24. ASSUME Spoil PROVE Asked'
  BY <1>24 DEF Spoil
<1> QED
  BY <1>1, <1>2, <1>3, <1>4, <1>5, <1>6, <1>7, <1>8, <1>9, <1>10, <1>11, <1>12, <1>13, <1>14,
     <1>15, <1>16, <1>17, <1>18, <1>19, <1>20, <1>21, <1>22, <1>23, <1>24 DEF Next, Stage,
     Watch, Edit

LEMMA OneOther ==
    ASSUME OneRepairEach, NEW k, k.stage # "repair",
           bought' \subseteq bought \cup {[key |-> k, by |-> Now]}
    PROVE  OneRepairEach'
<1>1. \A p \in bought' : p.key.stage = "repair" => p \in bought
  OBVIOUS
<1>2. \A p, q : {p.key.stage, q.key.stage} = {"repair"}
                   => p.key.stage = "repair" /\ q.key.stage = "repair"
  OBVIOUS
<1> QED
  BY <1>1, <1>2 DEF OneRepairEach

LEMMA TranscriptOne ==
    ASSUME Sound, Paid, Asked, OneRepairEach, Transcript
    PROVE  OneRepairEach'
<1>1. bought' \subseteq bought \cup {[key |-> TranscriptKey, by |-> Now]}
  BY DEF Transcript, Buy
<1>2. TranscriptKey.stage # "repair"
  BY DEF TranscriptKey
<1> QED
  BY <1>1, <1>2, OneOther

LEMMA ScenesOne ==
    ASSUME Sound, Paid, Asked, OneRepairEach, Scenes
    PROVE  OneRepairEach'
<1>1. bought' \subseteq bought \cup {[key |-> ScenesKey, by |-> Now]}
  BY DEF Scenes, Buy
<1>2. ScenesKey.stage # "repair"
  BY DEF ScenesKey
<1> QED
  BY <1>1, <1>2, OneOther

LEMMA GlobalOne ==
    ASSUME Sound, Paid, Asked, OneRepairEach, Global
    PROVE  OneRepairEach'
<1>1. bought' \subseteq bought \cup {[key |-> GlobalKey, by |-> Now]}
  BY DEF Global, Buy
<1>2. GlobalKey.stage # "repair"
  BY DEF GlobalKey
<1> QED
  BY <1>1, <1>2, OneOther

LEMMA MendOne ==
    ASSUME Sound, Paid, Asked, OneRepairEach, Mend
    PROVE  OneRepairEach'
<1>1. PICK i \in First : /\ Slot(i) \notin used
                        /\ bought' \subseteq bought \cup {[key |-> RepairKey(i), by |-> Now]}
  BY DEF Mend, Buy
<1>2. DEFINE new == [key |-> RepairKey(i), by |-> Now]
<1>3. ASSUME NEW q \in bought, q.by = Now, q.key.stage = "repair",
             q.key.look = i \/ {q.key.look, i} = {0, 1}
      PROVE  FALSE
  <2>1. Slot(q.key.look) = Slot(i)
    BY <1>3 DEF Slot
  <2> QED
    BY <1>1, <1>3, <2>1 DEF Asked, Mend
<1>4. new.by = Now /\ new.key.stage = "repair" /\ new.key.look = i
  BY DEF RepairKey
<1>5. \A p \in bought' : p \in bought \/ p = new
  BY <1>1
<1> HIDE DEF new
<1> QED
  BY ZenonT(40), <1>3, <1>4, <1>5 DEF OneRepairEach

LEMMA OneRepairNext ==
    ASSUME Sound, Paid, Asked, OneRepairEach, Next
    PROVE  OneRepairEach'
<1>1. ASSUME Transcript PROVE OneRepairEach'
  BY <1>1, TranscriptOne
<1>2. ASSUME Scenes PROVE OneRepairEach'
  BY <1>2, ScenesOne
<1>3. ASSUME Global PROVE OneRepairEach'
  BY <1>3, GlobalOne
<1>4. ASSUME Mend PROVE OneRepairEach'
  BY <1>4, MendOne
<1> USE DEF Asked, OneRepairEach, Now, Slot, config, sights, store, task
<1>5. ASSUME Claim PROVE OneRepairEach'
  BY <1>5 DEF Claim
<1>6. ASSUME Gate PROVE OneRepairEach'
  BY <1>6 DEF Gate
<1>7. ASSUME Select PROVE OneRepairEach'
  BY <1>7 DEF Select, SaveThen
<1>8. ASSUME Look PROVE OneRepairEach'
  BY <1>8 DEF Look, Seen, First, View
<1>9. ASSUME LegacyMend PROVE OneRepairEach'
  BY <1>9 DEF LegacyMend, Seen, First, View
<1>10. ASSUME Exhausted PROVE OneRepairEach'
  BY <1>10 DEF Exhausted
<1>11. ASSUME Remembered PROVE OneRepairEach'
  BY <1>11 DEF Remembered, Seen, First, View
<1>12. ASSUME LoadClips PROVE OneRepairEach'
  BY <1>12 DEF LoadClips, Load, Miss, SaveThen
<1>13. ASSUME Merge PROVE OneRepairEach'
  BY <1>13 DEF Merge, SaveThen
<1>14. ASSUME Artifacts PROVE OneRepairEach'
  BY <1>14 DEF Artifacts, Written
<1>15. ASSUME Plan PROVE OneRepairEach'
  BY <1>15 DEF Plan
<1>16. ASSUME Cover PROVE OneRepairEach'
  BY <1>16 DEF Cover, Covered
<1>17. ASSUME Again PROVE OneRepairEach'
  BY <1>17 DEF Again, Written
<1>18. ASSUME Recover PROVE OneRepairEach'
  BY <1>18 DEF Recover, Covered, SaveThen
<1>19. ASSUME End PROVE OneRepairEach'
  BY <1>19 DEF End, Forget
<1>20. ASSUME Crash PROVE OneRepairEach'
  BY <1>20 DEF Crash, Forget
<1>21. ASSUME Deploy PROVE OneRepairEach'
  BY <1>21 DEF Deploy
<1>22. ASSUME WriteFile PROVE OneRepairEach'
  BY <1>22 DEF WriteFile
<1>23. ASSUME WriteRow PROVE OneRepairEach'
  BY <1>23 DEF WriteRow
<1>24. ASSUME Spoil PROVE OneRepairEach'
  BY <1>24 DEF Spoil
<1> QED
  BY <1>1, <1>2, <1>3, <1>4, <1>5, <1>6, <1>7, <1>8, <1>9, <1>10, <1>11, <1>12, <1>13, <1>14,
     <1>15, <1>16, <1>17, <1>18, <1>19, <1>20, <1>21, <1>22, <1>23, <1>24 DEF Next, Stage,
     Watch, Edit

-----------------------------------------------------------------------------
(* Files, edit plan, coverage and checkpoint follow the views.             *)

LEMMA TranscriptInStep ==
    ASSUME Sound, InStep, Transcript
    PROVE  InStep'
<1>1. pc' \in {"scenes", "file", "fail"} /\ (pc' = "file" => save'.next = "scenes")
  BY DEF Transcript, SaveThen
<1> QED
  BY <1>1 DEF InStep, Aim, Saving

LEMMA ScenesInStep ==
    ASSUME Sound, InStep, Scenes
    PROVE  InStep'
<1>1. pc' \in {"global", "file", "fail"} /\ (pc' = "file" => save'.next = "global")
  BY DEF Scenes, SaveThen
<1> QED
  BY <1>1 DEF InStep, Aim, Saving

LEMMA LookInStep ==
    ASSUME Sound, InStep, Look
    PROVE  InStep'
<1>1. pc' \in {"look", "mend", "fail", after}
  BY DEF Look
<1>2. after \in {"select", "merge", "again"}
  BY DEF Look, Sound, Watched, Aim, Saving
<1> QED
  BY <1>1, <1>2 DEF InStep, Aim, Saving

LEMMA LoadClipsInStep ==
    ASSUME Sound, InStep, LoadClips
    PROVE  InStep'
<1>1. pc' \in {"file", "look"}
  BY DEF LoadClips, SaveThen
<1>2. CASE pc' = "look"
  BY <1>2 DEF InStep, Aim, Saving
<1>3. CASE pc' = "file"
  <2>1. PICK v :
           /\ mem' = [mem EXCEPT !.views = v]
           /\ save' = [key |-> ClipsKey(run), value |-> [views |-> v], next |-> "artifacts"]
    BY <1>3 DEF LoadClips, SaveThen
  <2>2. mem'.views = v /\ mem'.cut = mem.cut
    BY <2>1 DEF Sound, Types, Hands
  <2>3. ClipsKey(run)' = ClipsKey(run)
    BY <2>2 DEF LoadClips, ClipsKey, GlobalKey, config, task
  <2> QED
    BY <1>3, <2>1, <2>2, <2>3 DEF InStep, Aim, Saving
<1> QED
  BY <1>1, <1>2, <1>3

LEMMA InStepNext ==
    ASSUME Sound, InStep, Next
    PROVE  InStep'
<1>1. ASSUME Transcript PROVE InStep'
  BY <1>1, TranscriptInStep
<1>2. ASSUME Scenes PROVE InStep'
  BY <1>2, ScenesInStep
<1>3. ASSUME Look PROVE InStep'
  BY <1>3, LookInStep
<1>4. ASSUME LoadClips PROVE InStep'
  BY <1>4, LoadClipsInStep
<1> USE DEF Sound, Types, InStep, Hands, Viewed, Aim, Saving, ClipsKey, GlobalKey, config,
   sights, store, task
<1>5. ASSUME Claim PROVE InStep'
  BY <1>5, FaultCounts, Missed DEF Claim
<1>6. ASSUME Gate PROVE InStep'
  BY <1>6, FaultCounts, Missed DEF Gate
<1>7. ASSUME Global PROVE InStep'
  BY <1>7, FaultCounts, Missed DEF Global, Load, Miss
<1>8. ASSUME Select PROVE InStep'
  BY <1>8, FaultCounts, Missed DEF Select, SaveThen
<1>9. ASSUME LegacyMend PROVE InStep'
  BY <1>9, FaultCounts, Missed DEF LegacyMend, Seen, First, View
<1>10. ASSUME Exhausted PROVE InStep'
  BY <1>10, FaultCounts, Missed DEF Exhausted
<1>11. ASSUME Remembered PROVE InStep'
  BY <1>11, FaultCounts, Missed DEF Remembered, Seen, First, View, Slot
<1>12. ASSUME Mend PROVE InStep'
  BY <1>12, FaultCounts, Missed DEF Mend, Seen, First, View, Slot, Miss, SaveThen
<1>13. ASSUME Merge PROVE InStep'
  BY <1>13, FaultCounts, Missed DEF Merge, SaveThen
<1>14. ASSUME Artifacts PROVE InStep'
  BY <1>14, FaultCounts, Missed DEF Artifacts, Written
<1>15. ASSUME Plan PROVE InStep'
  BY <1>15, FaultCounts, Missed DEF Plan
<1>16. ASSUME Cover PROVE InStep'
  BY <1>16, FaultCounts, Missed DEF Cover, Covered
<1>17. ASSUME Again PROVE InStep'
  BY <1>17, FaultCounts, Missed DEF Again, Written
<1>18. ASSUME Recover PROVE InStep'
  BY <1>18, FaultCounts, Missed DEF Recover, Covered, SaveThen
<1>19. ASSUME End PROVE InStep'
  BY <1>19, FaultCounts, Missed DEF End, Forget
<1>20. ASSUME Crash PROVE InStep'
  BY <1>20, FaultCounts, Missed DEF Crash, Forget
<1>21. ASSUME Deploy PROVE InStep'
  BY <1>21, FaultCounts, Missed DEF Deploy
<1>22. ASSUME WriteFile PROVE InStep'
  BY <1>22, FaultCounts, Missed DEF WriteFile, Put, Without
<1>23. ASSUME WriteRow PROVE InStep'
  BY <1>23, FaultCounts, Missed DEF WriteRow, Put, Without
<1>24. ASSUME Spoil PROVE InStep'
  BY <1>24, FaultCounts, Missed DEF Spoil
<1> QED
  BY <1>1, <1>2, <1>3, <1>4, <1>5, <1>6, <1>7, <1>8, <1>9, <1>10, <1>11, <1>12, <1>13, <1>14,
     <1>15, <1>16, <1>17, <1>18, <1>19, <1>20, <1>21, <1>22, <1>23, <1>24 DEF Next, Stage,
     Watch, Edit

-----------------------------------------------------------------------------
(* The invariant and what follows from it.                                 *)

LEMMA InvInit == Init => IInv
<1> SUFFICES ASSUME Init PROVE IInv
  OBVIOUS
<1>1. Types
  BY BoundsAssumption
     DEF Init, Types, Steps, Flips, Hands, MadeOf, OfViews, Nothing, Viewed, Counts, Saving
<1>2. Watched /\ Kept /\ Fresh
  BY DEF Init, Watched, Looking, Choosing, Chosen, Aim, Saving, Kept, Fresh, Nothing
<1>3. Paid /\ PaidOnce /\ Accounted /\ Asked /\ OneRepairEach
  BY DEF Init, Paid, PaidOnce, Accounted, Asked, OneRepairEach
<1>4. InStep
  BY DEF Init, InStep, Aim, Saving
<1> QED
  BY <1>1, <1>2, <1>3, <1>4 DEF IInv, Sound

LEMMA InvNext == IInv /\ [Next]_vars => IInv'
<1> SUFFICES ASSUME IInv, [Next]_vars PROVE IInv'
  OBVIOUS
<1>1. CASE Next
  <2>1. Sound /\ Paid /\ PaidOnce /\ Accounted /\ Asked /\ OneRepairEach /\ InStep
    BY DEF IInv
  <2>2. Sound'
    BY <1>1, <2>1, TypesNext, WatchedNext, KeptNext, FreshNext DEF Sound
  <2>3. Paid' /\ Asked' /\ OneRepairEach' /\ InStep'
    BY <1>1, <2>1, PaidNext, AskedNext, OneRepairNext, InStepNext
  <2>4. (Accounted /\ PaidOnce)'
    BY <1>1, <2>1, AccountedNext
  <2> QED
    BY <2>2, <2>3, <2>4 DEF IInv
<1>2. CASE UNCHANGED vars
  <2>1. Sound'
    BY <1>2 DEF vars, config, task, sights, store, IInv, Sound, Types, Watched, Kept, Fresh,
                Looking, Choosing, Chosen, Aim, Saving, Current
  <2>2. Paid' /\ PaidOnce' /\ Asked' /\ OneRepairEach'
    BY <1>2 DEF vars, config, task, sights, store, IInv, Paid, PaidOnce, Asked, OneRepairEach, Now
  <2>3. Accounted'
    BY <1>2 DEF vars, config, task, sights, store, IInv, Accounted, InHand, Over, Looking, Aim,
                Saving, Hits, Of, GlobalKey
  <2>4. InStep'
    BY <1>2 DEF vars, config, task, sights, store, IInv, InStep, Aim, Saving, ClipsKey, GlobalKey
  <2> QED
    BY <2>1, <2>2, <2>3, <2>4 DEF IInv
<1> QED
  BY <1>1, <1>2

LEMMA Invariance == Spec => []IInv
  BY InvInit, InvNext, PTL DEF Spec

LEMMA FaithfulContents ==
    ASSUME NEW k, NEW v, Faithful(k, v)
    PROVE  v \in Contents
  BY DEF Faithful, Stages, Contents

(* Everything keeps its type, whatever the answers, crashes, deployments   *)
(* and lost or spoilt checkpoints: also what earlier runs have left in     *)
(* them, which the next one takes up unseen (CheckpointStore._read_row).   *)
THEOREM AnalysisTypeCorrect == Spec => []TypeOK
<1>1. IInv => TypeOK
  <2> SUFFICES ASSUME IInv PROVE TypeOK
    OBVIOUS
  <2>1. \A e \in files \cup rows : e.value \in Contents
    BY FaithfulContents DEF IInv, Sound, Kept
  <2>2. /\ mem.cut \in Cuts \cup {NoAnswer} /\ mem.views \in Viewed /\ mem.round \in {1, 2}
        /\ \A f \in {"transcript", "scenes", "global"} : mem[f] \in [made : Origins] \cup {NoAnswer}
    BY DEF IInv, Sound, Types, Hands, MadeOf
  <2> QED
    BY <2>1, <2>2 DEF IInv, Sound, Types, Kept, Paid, TypeOK
<1> QED
  BY <1>1, Invariance, PTL

(* What an attempt has in hand was made under the settings, the version    *)
(* and for the clips that hold now, for every set of runs, any number of   *)
(* deployments and whichever checkpoints of whichever runs it has found:   *)
(* the fingerprints contain all that a stage depends on                    *)
(* (MVPJobProcessor.__call__, stage_fingerprint).                          *)
THEOREM ReuseFits == Spec => []Fits
<1>1. IInv => Fits
  <2> SUFFICES ASSUME IInv PROVE Fits
    OBVIOUS
  <2>1. Fresh
    BY DEF IInv, Sound
  <2> QED
    BY <2>1 DEF Fits, Fresh, Current, Changed
<1> QED
  BY <1>1, Invariance, PTL

(* Nothing is paid for twice under one fingerprint, by any run or attempt  *)
(* of the session, unless its checkpoint was lost (load_session, load_job, *)
(* save_session, save_job).                                                *)
THEOREM NothingIsPaidTwice == Spec => []PaidOnce
<1>1. IInv => PaidOnce
  BY DEF IInv
<1> QED
  BY <1>1, Invariance, PTL

(* No attempt asks for two repairs of the looks at one clip, for any       *)
(* number of clips, in both rounds together                                *)
(* (visual_repair_attempts_used_by_clip).                                  *)
THEOREM OneRepairPerClip == Spec => []OneRepairEach
<1>1. IInv => OneRepairEach
  BY DEF IInv
<1> QED
  BY <1>1, Invariance, PTL

(* What is handed on to plan repair is of one piece: visual file, shorts   *)
(* plan and coverage of the same looks, and the checkpoint too unless a    *)
(* save has failed, for any number of clips and whichever of them the      *)
(* coverage sends back (MVPJobProcessor.__call__).                         *)
THEOREM HandedOnInStep == Spec => []Aligned
<1>1. IInv => Aligned
  BY DEF IInv, InStep, Aligned, Aim, Saving, Hits
<1> QED
  BY <1>1, Invariance, PTL
=============================================================================
