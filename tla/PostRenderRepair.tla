--------------------------- MODULE PostRenderRepair ---------------------------
(***************************************************************************)
(* What follows the rendering of an agentic run when post-render review    *)
(* and render promotion both enforce: deterministic checks and evidence of *)
(* the rendered clips, the critic's review of that evidence, a primary and *)
(* perhaps a contingency repair that replaces the plan of some clips or    *)
(* the finishing effects, the render, checks and review of the repaired    *)
(* clips, an accepted candidate moved over the original one, and the       *)
(* promotion gate that publishes or withholds the run.                     *)
(*                                                                         *)
(* The pipeline is sequential; it may stop anywhere (the worker dies or    *)
(* loses its lease) and the recovered job runs it again from the start     *)
(* with what its checkpoints kept.  Rendering the same plan gives the same *)
(* files again.  Plans, effects and videos are named by the number of the  *)
(* provider's answer that made them, 0 being the original.                 *)
(*                                                                         *)
(* Source: src/open_storyline/mvp/pipeline.py (MVPJobProcessor.__call__),  *)
(* creative_qa.py, render_evidence.py, render_critic.py, promotion.py,     *)
(* post_render_repair.py, checkpoints.py (CheckpointStore).                *)
(***************************************************************************)
EXTENDS Naturals, Sequences, FiniteSets, FiniteSetsExt

CONSTANTS
    Clips,        \* the clips of the run
    Codes,        \* blocker codes of deterministic verification
    Technical,    \* those that no delivery policy lets through
    Caption,      \* those read from the caption footprint beside each video
    Inspected,    \* those that only the creative QA reports
    Unavailable,  \* the code of QA reports that could not be made
    Strict,       \* delivery policy qa_enforced, not technical_pass_guaranteed
    MaxBlockers,  \* bound: blocker codes of the videos of one answer
    MaxScore,     \* bound: weight of the critic's findings on one clip
    MaxFindings,  \* bound: findings the repair may take up at first
    MaxAnswers,   \* bound: answers of the repair provider
    MaxRestarts,  \* bound: times the job is recovered
    MaxLapses     \* bound: checks that fail, checkpoints not saved or spoilt

ASSUME ClipsAssumption  == IsFiniteSet(Clips) /\ Clips # {}
ASSUME CodesAssumption  ==
    /\ Technical \subseteq Codes \cup {Unavailable} /\ Caption \cup Inspected \subseteq Codes
    /\ Unavailable \in Technical \ Codes
ASSUME StrictAssumption == Strict \in BOOLEAN
ASSUME BoundsAssumption ==
    /\ {MaxBlockers, MaxFindings, MaxAnswers, MaxRestarts, MaxLapses} \subseteq Nat
    /\ MaxScore \in Nat \ {0}

VARIABLES
    pc,       \* where the pipeline stands
    first,    \* the blocker codes of each original video
    critic,   \* render_critic_report: what the critic found in each clip
    seen,     \* the checkpoint of a report made beside QA reports
    round,    \* the repair round that was authorized last
    base,     \* the rendition the round repairs
    found,    \* the findings the round asks to resolve
    prop,     \* the answer the round works with
    cand,     \* the candidate rendition
    answers,  \* every answer of the repair provider
    kept,     \* the answers with a usable checkpoint
    status,   \* repair_manifest["status"]
    judged,   \* the rendition whose reports the promotion gate reads
    shown,    \* the plan and effects on record, and the videos in the output
    restarts, \* recoveries left
    lapses,   \* checks that may still fail and checkpoints that may get lost
    checked,  \* the QA reports that the gate reads could be made
    examined, \* those of the candidate could
    shots,    \* a checkpoint of the evidence of the original was made
    frames    \* the images of the evidence are at hand

vars == <<pc, first, critic, seen, round, base, found, prop, cand, answers,
          kept, status, judged, shown, restarts, lapses, checked, examined,
          shots, frames>>

inspection == <<checked, examined, shots, frames>>

-----------------------------------------------------------------------------
Steps      == {"inspect", "gather", "review", "load", "ask", "save", "candidate",
               "verdict", "move", "promote", "published", "withheld", "failed"}
Ended      == {"published", "withheld", "failed"}
Rounds     == {"none", "primary", "contingency"}
Statuses   == {"not_needed", "attempted", "no_change", "unavailable",
               "rejected", "accepted"}
Targets    == {"clip_plan", "effect_plan"}
Blockers   == {b \in [Clips -> SUBSET Codes] :
                  Cardinality({p \in Clips \X Codes : p[2] \in b[p[1]]}) <= MaxBlockers}
Findings   == [clip : Clips, target : Targets, score : 1..MaxScore]
Versions   == 0..MaxAnswers
Renditions == [plan : [Clips -> Versions], fx : Versions, video : [Clips -> Versions]]
Requests   == [round : Rounds, base : Renditions, found : SUBSET Findings]
Answers    == [request : Requests, status : {"repair", "no_change", "unavailable"},
               clips : SUBSET Clips, changed : SUBSET Clips, fx : BOOLEAN,
               blockers : [Clips -> SUBSET Codes]]

(* A report of the critic: the weight of its repairable findings in each   *)
(* clip, and which of them the repair may take up.                         *)
Silent  == [c \in Clips |-> 0]
Records == [status : {"none", "unavailable", "reviewed"},
            score : [Clips -> 0..MaxScore], eligible : SUBSET Findings]
Reports ==
    {r \in Records :
        /\ \A f \in r.eligible : r.score[f.clip] = f.score
        /\ r.status # "reviewed" => r.score = Silent
        /\ Cardinality(r.eligible) <= MaxFindings}
Nothing == [status |-> "none", score |-> Silent, eligible |-> {}]
Missing == [status |-> "unavailable", score |-> Silent, eligible |-> {}]

Original == [plan |-> [c \in Clips |-> 0], fx |-> 0, video |-> [c \in Clips |-> 0]]

TypeOK ==
    /\ pc \in Steps
    /\ first \in [Clips -> SUBSET Codes]
    /\ critic \in Records
    /\ seen \in Reports
    /\ round \in Rounds
    /\ base \in Renditions /\ cand \in Renditions
    /\ judged \in Renditions /\ shown \in Renditions
    /\ found \subseteq Findings
    /\ prop \in Versions
    /\ answers \in Seq(Answers)
    /\ kept \subseteq 1..Len(answers)
    /\ status \in Statuses
    /\ restarts \in Nat /\ lapses \in Nat
    /\ checked \in BOOLEAN /\ examined \in BOOLEAN
    /\ shots \in BOOLEAN /\ frames \in BOOLEAN

-----------------------------------------------------------------------------
Init ==
    /\ pc = "inspect"
    /\ first \in Blockers
    /\ critic = Nothing /\ seen = Nothing
    /\ round = "none" /\ found = {} /\ prop = 0
    /\ base = Original /\ cand = Original
    /\ judged = Original /\ shown = Original
    /\ answers = <<>> /\ kept = {}
    /\ status = "not_needed"
    /\ restarts = MaxRestarts /\ lapses = MaxLapses
    /\ checked = TRUE /\ examined = TRUE
    /\ shots = FALSE /\ frames = FALSE

(* The blocker codes of a video, and of the videos of a rendition.         *)
Codes_Of(c, v) == IF v = 0 THEN first[c] ELSE answers[v].blockers[c]
Blocked(video) == UNION {Codes_Of(c, video[c]) : c \in Clips}

(* Missing reports count as reports without findings.                      *)
Reported_Silent(codes, made) == IF made THEN codes ELSE codes \ Inspected

(* What the checks report of these codes: without the QA's reports, what   *)
(* the others find, and that the reports are missing.                      *)
Reported(codes, made) == IF made THEN codes ELSE (codes \ Inspected) \cup {Unavailable}

(* build_render_promotion_report when it enforces: do these codes and      *)
(* creative limitations withhold the candidate?                            *)
Withholds(codes, limits) == \/ codes \cap Technical # {}
                            \/ Strict /\ (codes # {} \/ limits # {})

Weight(score, S) == MapThenSumSet(LAMBDA c : score[c], S)
CriticFindings   == \E c \in Clips : critic.score[c] > 0

(* The clips an answer has delivered anew: all of them with new effects.   *)
Delivery(a) == IF a.fx THEN Clips ELSE a.changed

(* The rendition of the v-th answer: its clips rendered and finished, the  *)
(* others as they are in the rendition it repairs.                         *)
Repaired(v) ==
    LET a == answers[v]
    IN  [plan  |-> [c \in Clips |-> IF c \in a.changed THEN v ELSE base.plan[c]],
         fx    |-> IF a.fx THEN v ELSE base.fx,
         video |-> [c \in Clips |-> IF c \in Delivery(a) THEN v ELSE base.video[c]]]

-----------------------------------------------------------------------------
(* A check fails; a checkpoint is not saved, which the pipeline only notes, *)
(* or its file no longer has its hash when it is looked up.                *)
Lapse == lapses > 0 /\ lapses' = lapses - 1

(* The QA of the rendered clips is made, or fails, which ends nothing.     *)
Inspect ==
    /\ pc = "inspect" /\ pc' = "gather"
    /\ \/ checked' = TRUE /\ UNCHANGED lapses
       \/ checked' = FALSE /\ Lapse
    /\ UNCHANGED <<first, critic, seen, round, base, found, prop, cand, answers, kept,
                   status, judged, shown, restarts, examined, shots, frames>>

(* The evidence for the review is read from its checkpoint, without the    *)
(* images, or made; without it the critic does not answer.  Whether the    *)
(* checkpoint is still usable is left open.                                *)
Gather ==
    /\ pc = "gather"
    /\ \/ /\ pc' = "review" /\ shots' = TRUE
          /\ frames' \in {TRUE, ~shots}
          /\ UNCHANGED <<critic, status>>
       \/ /\ critic' = Missing /\ status' = "unavailable"
          /\ pc' = "promote" /\ UNCHANGED <<shots, frames>>
    /\ UNCHANGED <<first, seen, round, base, found, prop, cand, answers, kept,
                   judged, shown, restarts, lapses, checked, examined>>

-----------------------------------------------------------------------------
(* With the critic's report, repair begins if something is eligible for it.*)
Begin(r) ==
    /\ critic' = r
    /\ IF r.status = "unavailable"
       THEN /\ status' = "unavailable" /\ pc' = "promote"
            /\ UNCHANGED <<round, found>>
       ELSE IF r.eligible = {}
       THEN /\ pc' = "promote"
            /\ UNCHANGED <<round, found, status>>
       ELSE /\ status' = "attempted" /\ pc' = "load"
            /\ round' = "primary" /\ found' = r.eligible
    /\ UNCHANGED <<first, base, prop, cand, answers, kept, judged, shown>>

(* The critic reviews the evidence and its report is saved, unless that    *)
(* fails or the review raised.  The checkpoint is named by the context of  *)
(* the review, which holds figures of the QA reports; without these any    *)
(* report is possible, be it read or made.  A report that cannot be        *)
(* written as an artifact counts as missing.                               *)
Review ==
    /\ pc = "review" /\ (seen = Nothing \/ ~checked)
    /\ \E r \in {s \in Reports : s.status # "none"} :
          /\ Begin(r) \/ Begin(Missing)
          /\ \/ checked /\ seen' = r /\ UNCHANGED lapses
             \/ checked /\ Lapse /\ UNCHANGED seen
             \/ /\ ~checked \/ r.status = "unavailable"
                /\ UNCHANGED <<seen, lapses>>
    /\ frames' \in {TRUE, checked \/ frames}
    /\ UNCHANGED <<restarts, checked, examined, shots>>

(* The report of the same context is read from its checkpoint.             *)
ReviewAgain ==
    /\ pc = "review" /\ seen # Nothing /\ checked
    /\ Begin(seen) \/ Begin(Missing)
    /\ UNCHANGED <<seen, restarts, lapses>> /\ UNCHANGED inspection

-----------------------------------------------------------------------------
Request == [round |-> round, base |-> base, found |-> found]

(* What the provider may answer: for every finding no change, a new plan   *)
(* for its clip, or, for a finding about effects, a new effect plan.       *)
Decisions == {d \in [found -> {"none"} \cup Targets] :
                 \A f \in found : d[f] = "effect_plan" => f.target = "effect_plan"}

Replaced(d) == {f.clip : f \in {g \in found : d[g] = "clip_plan"}}

RepairsBy(d) ==
    [request : {Request}, status : {"repair"}, clips : {Replaced(d)},
     changed : IF Replaced(d) = {} THEN {{}} ELSE SUBSET Replaced(d) \ {{}},
     fx : {\E f \in found : d[f] = "effect_plan"}, blockers : Blockers]

Repairs == UNION {RepairsBy(d) : d \in {e \in Decisions : \E f \in found : e[f] # "none"}}

(* Of the blockers only those of clips that are delivered matter.          *)
Proposals ==
    {a \in Repairs : \A c \in Clips :
        c \notin Delivery(a) \/ a.changed # a.clips => a.blockers[c] = {}}
    \cup [request : {Request}, status : {"no_change", "unavailable"}, clips : {{}},
          changed : {{}}, fx : {FALSE}, blockers : {[c \in Clips |-> {}]}]

(* What the round does with a proposal.                                    *)
Follow(a) ==
    IF a.status # "repair"
    THEN pc' = "promote" /\ status' = a.status
    ELSE IF a.changed # a.clips
    THEN pc' = "promote" /\ status' = "rejected"
    ELSE pc' = "candidate" /\ UNCHANGED status

(* The checkpoint is never looked up.                                      *)
Hits_None == {}

(* The checkpoints whose fingerprint is that of the request.               *)
Hits == {v \in kept : answers[v].request = Request}

(* A checkpoint of the same request is worked with instead of asking; one  *)
(* of a repair without a plan cannot be read back and ends the run.        *)
Resume ==
    /\ pc = "load" /\ Hits # {}
    /\ \E v \in Hits :
          /\ prop' = v
          /\ IF answers[v].status = "repair" /\ answers[v].clips = {}
             THEN pc' = "failed" /\ UNCHANGED status
             ELSE Follow(answers[v])
    /\ UNCHANGED <<first, critic, seen, round, base, found, cand, answers, kept,
                   judged, shown, restarts, lapses>> /\ UNCHANGED inspection

(* The provider is asked, once, with the images of the evidence.           *)
Ask ==
    /\ pc = "load" /\ Hits = {}
    /\ Len(answers) < MaxAnswers
    /\ \E a \in Proposals : answers' = Append(answers, a)
    /\ prop' = Len(answers) + 1
    /\ pc' = "save" /\ frames' = TRUE
    /\ UNCHANGED <<first, critic, seen, round, base, found, cand, kept, status, judged,
                   shown, restarts, lapses, checked, examined, shots>>

(* Images that were not at hand cannot be made: the exception ends the run.*)
Unseen ==
    /\ pc = "load" /\ Hits = {} /\ ~frames
    /\ pc' = "failed"
    /\ UNCHANGED <<first, critic, seen, round, base, found, prop, cand, answers, kept,
                   status, judged, shown, restarts, lapses>> /\ UNCHANGED inspection

(* The answer is saved under the fingerprint of its request; a save that   *)
(* fails is recorded and changes nothing else.                             *)
Save ==
    /\ pc = "save"
    /\ \/ kept' = kept \cup {prop} /\ UNCHANGED lapses
       \/ Lapse /\ UNCHANGED kept
    /\ Follow(answers[prop])
    /\ UNCHANGED <<first, critic, seen, round, base, found, prop, cand, answers,
                   judged, shown, restarts>> /\ UNCHANGED inspection

(* The candidate is rendered, finished and verified ...                    *)
Render ==
    /\ pc = "candidate"
    /\ cand' = Repaired(prop)
    /\ pc' = "verdict"
    /\ \/ examined' = TRUE /\ UNCHANGED lapses
       \/ examined' = FALSE /\ Lapse
    /\ UNCHANGED <<first, critic, seen, round, base, found, prop, answers, kept, status,
                   judged, shown, restarts, checked, shots, frames>>

(* An exception while the candidate is made is not caught.                 *)
CandidateFails_Raises ==
    /\ pc \in {"candidate", "verdict"}
    /\ status' = "unavailable" /\ pc' = "failed"
    /\ UNCHANGED <<first, critic, seen, round, base, found, prop, cand, answers,
                   kept, judged, shown, restarts, lapses>> /\ UNCHANGED inspection

(* ... or some step of that, its review or its comparison fails.           *)
CandidateFails ==
    /\ pc \in {"candidate", "verdict"}
    /\ status' = "unavailable" /\ pc' = "promote"
    /\ UNCHANGED <<first, critic, seen, round, base, found, prop, cand, answers,
                   kept, judged, shown, restarts, lapses>> /\ UNCHANGED inspection

-----------------------------------------------------------------------------
(* compare_critic_improvement over the delivered clips.                    *)
Improves(score, delivery) ==
    Weight(score, delivery) < Weight(critic.score, delivery)

(* What the checks of the original candidate and of the repaired one report.*)
Before == Reported(Blocked(Original.video), checked)
After  == Reported(Blocked(cand.video), examined)

(* Only technical codes are compared.                                      *)
NewCodes_Technical == (After \cap Technical) \ Before

(* Codes the original candidate did not have.                              *)
NewCodes == After \ Before

(* The critic demonstrates an improvement, unless a weighty new finding or *)
(* its unavailability speaks against it, and where neither candidate is    *)
(* withheld a comparison may still prefer the original.                    *)
Demonstrated(score, delivery, calm) == Improves(score, delivery) /\ calm
Comparable == ~Withholds(Before, {"RENDER_CRITIC_FINDING"}) /\ ~Withholds(After, {})

Acceptable(score, delivery, calm, preferred) ==
    /\ NewCodes = {}
    /\ ~Withholds(After, {})
    /\ Demonstrated(score, delivery, calm)
    /\ Comparable => preferred

(* The findings of a contingency: each new code, in each delivered clip.   *)
Objective(delivery) ==
    [clip : delivery, target : {"clip_plan"}, score : {MaxScore}]

Accept(score, delivery) ==
    /\ status' = "accepted" /\ pc' = "move"
    /\ critic' = [critic EXCEPT !.score = [c \in Clips |->
                      IF c \in delivery THEN score[c] ELSE critic.score[c]]]
    /\ UNCHANGED <<round, base, found>>

Contingency(delivery) ==
    /\ round' = "contingency" /\ base' = cand /\ found' = Objective(delivery)
    /\ pc' = "load"
    /\ UNCHANGED <<critic, status>>

Reject ==
    /\ status' = "rejected" /\ pc' = "promote"
    /\ UNCHANGED <<critic, round, base, found>>

(* The delivered clips are reviewed and the candidate is accepted, given a *)
(* contingency round for new blockers, or rejected.                        *)
Verdict ==
    /\ pc = "verdict"
    /\ LET delivery == Delivery(answers[prop])
       IN  \E score \in [Clips -> 0..MaxScore], calm, preferred \in BOOLEAN :
              IF Acceptable(score, delivery, calm, preferred)
              THEN Accept(score, delivery)
              ELSE IF round = "primary" /\ NewCodes # {}
              THEN Contingency(delivery)
              ELSE Reject
    /\ frames' = (frames \/ pc' = "load")
    /\ UNCHANGED <<first, seen, prop, cand, answers, kept, judged, shown, restarts, lapses,
                   checked, examined, shots>>

-----------------------------------------------------------------------------
(* Only clips with a new plan are moved, not those with new effects.       *)
Moved_PlanOnly(delivery) ==
    [c \in Clips |-> IF c \in answers[prop].changed THEN cand.video[c] ELSE 0]

(* _move_repaired_rendered_to_output: the files of the clips that the last *)
(* round delivered replace the original ones; plan, effects and reports on *)
(* record become those of the accepted candidate.                          *)
Moved(delivery) == [c \in Clips |-> IF c \in delivery THEN cand.video[c] ELSE 0]

Move ==
    /\ pc = "move"
    /\ judged' = cand /\ checked' = examined
    /\ shown' = [cand EXCEPT !.video = Moved(Delivery(answers[prop]))]
    /\ pc' = "promote"
    /\ UNCHANGED <<first, critic, seen, round, base, found, prop, cand, answers,
                   kept, status, restarts, lapses, examined, shots, frames>>

(* A file is missing or cannot be replaced: the exception ends the run.    *)
MoveFails ==
    /\ pc = "move"
    /\ pc' = "failed"
    /\ UNCHANGED <<first, critic, seen, round, base, found, prop, cand, answers,
                   kept, status, judged, shown, restarts, lapses>> /\ UNCHANGED inspection

(* What the promotion gate reads: the codes of the judged videos, those of *)
(* the caption footprints beside the videos shown, and creative            *)
(* limitations of the review and the repair.                               *)
GateCodes == (Reported(Blocked(judged.video), checked) \ Caption)
                 \cup (Blocked(shown.video) \cap Caption)
Limits    ==
    {l \in {"RENDER_CRITIC_UNAVAILABLE", "RENDER_CRITIC_FINDING",
            "POST_RENDER_REPAIR_UNAVAILABLE"} :
        CASE l = "RENDER_CRITIC_UNAVAILABLE" -> critic.status = "unavailable"
          [] l = "RENDER_CRITIC_FINDING"     -> CriticFindings
          [] OTHER                           -> status \in {"unavailable", "rejected"}}

(* The critic may also have found what no repair can take up.              *)
Promote ==
    /\ pc = "promote"
    /\ \E others \in SUBSET (IF critic.status = "reviewed" THEN {"RENDER_CRITIC_FINDING"} ELSE {}) :
          pc' = IF Withholds(GateCodes, Limits \cup others) THEN "withheld" ELSE "published"
    /\ UNCHANGED <<first, critic, seen, round, base, found, prop, cand, answers,
                   kept, status, judged, shown, restarts, lapses>> /\ UNCHANGED inspection

-----------------------------------------------------------------------------
(* The pipeline stops; the recovered job starts it over.                   *)
Crash ==
    /\ pc \notin Ended /\ restarts > 0 /\ restarts' = restarts - 1
    /\ pc' = "inspect" /\ critic' = Nothing
    /\ round' = "none" /\ base' = Original /\ found' = {} /\ prop' = 0
    /\ cand' = Original /\ judged' = Original /\ shown' = Original
    /\ status' = "not_needed"
    /\ checked' = TRUE /\ examined' = TRUE /\ frames' = FALSE
    /\ UNCHANGED <<first, seen, answers, kept, lapses, shots>>

(* A checkpoint that would be read is spoilt.                              *)
Spoil ==
    /\ Lapse
    /\ \/ pc = "load" /\ \E v \in Hits : kept' = kept \ {v} /\ UNCHANGED seen
       \/ pc = "review" /\ checked /\ seen # Nothing /\ seen' = Nothing /\ UNCHANGED kept
    /\ UNCHANGED <<pc, first, critic, round, base, found, prop, cand, answers, status,
                   judged, shown, restarts>> /\ UNCHANGED inspection

Next == \/ Inspect \/ Gather \/ Review \/ ReviewAgain
        \/ Resume \/ Ask \/ Unseen \/ Save
        \/ Render \/ CandidateFails \/ Verdict
        \/ Move \/ MoveFails \/ Promote
        \/ Crash \/ Spoil

Spec == Init /\ [][Next]_vars

-----------------------------------------------------------------------------
(* The provider is not asked for what a usable checkpoint holds: of two    *)
(* answers to the same request the earlier one was never saved, or was     *)
(* lost (load_checkpoint before request_post_render_repair, after crashes  *)
(* and over both rounds).                                                  *)
AskedOnce ==
    \A v, w \in 1..Len(answers) :
        v < w /\ answers[v].request = answers[w].request => v \notin kept

(* A repair never costs the viewer: no video of a published run has a      *)
(* blocker code that no original video had, whichever rounds the videos    *)
(* come from (new_blocker_codes, across the candidate and its parts).      *)
NoRegression ==
    pc = "published" => Blocked(shown.video) \subseteq Blocked(Original.video)

(* The last round delivers again every clip that the candidate took over   *)
(* from an earlier round.                                                  *)
Covers == \A c \in Clips : cand.video[c] = 0 \/ c \in Delivery(answers[prop])

(* The videos of a published run are those its reports were made of and    *)
(* its plan on record describes, as long as the last round delivers all    *)
(* repaired clips (the accepted candidate, written beside the moved files).*)
ShownAsJudged ==
    pc = "published" /\ (status = "accepted" => Covers) => shown = judged

(* No delivery policy publishes a technical blocker, under the same        *)
(* proviso: the gate reads the reports, viewers see the videos, and checks *)
(* that could not be made are not taken for checks that found nothing.     *)
PublishedIsSound ==
    pc = "published" /\ (status = "accepted" => Covers)
        => Blocked(shown.video) \cap Technical = {}

(* Checks, review and repair degrade to the original candidate: what ends  *)
(* a run that was rendered is a file that cannot be moved or, after a      *)
(* restart, the checkpoint of a repair of the effects alone or the images  *)
(* of evidence whose checkpoint was read.                                  *)
FailsForCause ==
    pc = "failed" =>
        \/ status = "accepted" /\ shown = Original
        \/ /\ prop \in kept /\ answers[prop].clips = {} /\ answers[prop].fx
           /\ restarts < MaxRestarts
        \/ status = "attempted" /\ ~frames /\ restarts < MaxRestarts

=============================================================================
