------------------------------ MODULE PlanRepair ------------------------------
(***************************************************************************)
(* From the edit plan to the rendering of an agentic run: the plan the     *)
(* editor proposes is examined, a primary and perhaps a contingency repair *)
(* asks the model for a better one, what stays unresolved is replaced by   *)
(* deterministic fallbacks, and the plan that is left passes the           *)
(* preflights, is written down and rendered.                               *)
(*                                                                         *)
(* A defect stands for a code at one clip and operation.  A plan is known  *)
(* by the answer it comes from and by what the compiler has changed in it. *)
(* A run may stop anywhere; the recovered job plans anew, with what the    *)
(* repair checkpoints kept.  The evidence about the pictures is collected  *)
(* anew as well, so that the same plan may be found to be otherwise.       *)
(*                                                                         *)
(* Source: src/open_storyline/mvp/pipeline.py (MVPJobProcessor.__call__),  *)
(* repair.py, fallbacks.py, preflight.py, visual_coverage.py, defects.py.  *)
(***************************************************************************)
EXTENDS Naturals, Sequences, FiniteSets

CONSTANTS
    Defects,      \* what may be wrong with a plan
    Kind,         \* which check finds it: "preflight", "coverage", "predicted", "intent"
    Repairable,   \* those whose strategy is to ask the model
    Cured,        \* those that the compiler removes when it is told to
    Unasked,      \* those that it removes in any case
    Composition,  \* those that no plan may keep after the contingency
    Exposes,      \* what the compiler's change for a defect brings along
    Rank,         \* the order in which findings are taken up
    MaxCodes,     \* findings of a round
    MaxFlaws,     \* bound: defects of a plan
    MaxAnswers,   \* bound: plans of the editor and of the repair provider
    MaxCalls,     \* bound: calls of the repair provider
    MaxRestarts,  \* bound: times the job is recovered
    MaxLapses     \* bound: checkpoints that are not saved or are spoilt

ASSUME DefectsAssumption ==
    /\ IsFiniteSet(Defects)
    /\ Kind \in [Defects -> {"preflight", "coverage", "predicted", "intent"}]
    /\ Cured \subseteq Repairable /\ Unasked \subseteq Repairable
    /\ Repairable \subseteq Defects /\ Composition \subseteq Defects
    /\ Defects \cap {"intent", "assets", "minimal", "effects"} = {}
    /\ Exposes \in [Defects -> SUBSET {d \in Defects : Kind[d] # "coverage"}]
ASSUME RankAssumption ==
    /\ Rank \in [Defects -> Nat]
    /\ \A d, e \in Defects : Rank[d] = Rank[e] => d = e
ASSUME BoundsAssumption ==
    {MaxCodes, MaxFlaws, MaxAnswers, MaxCalls, MaxRestarts, MaxLapses} \subseteq Nat

VARIABLES
    mode,      \* repair_mode
    server,    \* server_mode: the plan is rendered, or only shown beside
    fallbacks, \* fallback_enabled
    pc,        \* where the pipeline stands
    flaws,     \* what the checks find in the plan of each answer
    named,     \* answers so far
    first,     \* the answer of the editor that this run works with
    plan,      \* edit_plan
    batch,     \* the findings of the round
    over,      \* overflow_findings: those that did not fit
    left,      \* unresolved_repair_findings
    rounds,    \* rounds recorded
    attempts,  \* recorded attempts that went out: plan and defect
    calls,     \* every call of the repair provider
    call,      \* the call, or checkpoint, that the round works with
    kept,      \* the calls with a usable checkpoint
    ledger,    \* fallback_entries
    disk,      \* the plan and the ledger on disk
    cause,     \* the error that ended the run
    restarts,  \* recoveries left
    lapses     \* checkpoints that may still get lost

config == <<mode, server, fallbacks>>
vars   == <<config, pc, flaws, named, first, plan, batch, over, left, rounds,
            attempts, calls, call, kept, ledger, disk, cause, restarts, lapses>>

-----------------------------------------------------------------------------
Steps   == {"plan", "primary", "save", "baseline", "contingency", "settle",
            "check", "assets", "preflight", "render", "effects", "done", "failed"}
Ended   == {"done", "failed"}
Tokens  == {"intent", "assets", "minimal", "effects"}
Entries == Defects \cup Tokens
Causes  == {"none", "unattempted", "third round", "round too large", "unsafe baseline",
            "intent", "coverage", "preflight", "dry run", "assets", "render"}
Names   == 0..MaxAnswers
Plans   == [ans : Names, cut : SUBSET Defects, bad : SUBSET Defects,
            bare : BOOLEAN, minimal : BOOLEAN]
Keys    == [stage : {"primary", "contingency"}, round : 0..1, plan : Plans,
            batch : SUBSET Defects]
Calls   == [key : Keys, status : {"repaired", "rejected", "failed", "report_only"},
            out : BOOLEAN, made : Plans]
Asked   == [plan : Plans, defect : Defects]

(* The plan of an answer, which may keep some of the compiler's changes.   *)
Answer(n, keep) == [ans |-> n, cut |-> keep, bad |-> {}, bare |-> FALSE, minimal |-> FALSE]
NoPlan  == Answer(0, {})
Blank   == [plan |-> NoPlan, ledger |-> {}]

TypeOK ==
    /\ mode \in {"off", "report", "enforce"}
    /\ server \in {"render", "shadow"} /\ fallbacks \in BOOLEAN
    /\ pc \in Steps
    /\ flaws \in [Names -> SUBSET Defects]
    /\ named \in Names /\ first \in Names
    /\ plan \in Plans
    /\ batch \subseteq Defects /\ over \subseteq Defects /\ left \subseteq Defects
    /\ rounds \in 0..2
    /\ attempts \subseteq Asked
    /\ calls \in Seq(Calls) /\ call \in 0..Len(calls)
    /\ kept \subseteq 1..Len(calls)
    /\ ledger \subseteq Entries
    /\ disk \in [plan : Plans, ledger : SUBSET Entries]
    /\ cause \in Causes
    /\ restarts \in Nat /\ lapses \in Nat

-----------------------------------------------------------------------------
Init ==
    /\ mode \in {"off", "report", "enforce"}
    /\ server \in {"render", "shadow"} /\ fallbacks \in BOOLEAN
    /\ pc = "plan"
    /\ flaws = [n \in Names |-> {}] /\ named = 0 /\ first = 0
    /\ plan = NoPlan
    /\ batch = {} /\ over = {} /\ left = {}
    /\ rounds = 0 /\ attempts = {}
    /\ calls = <<>> /\ call = 0 /\ kept = {}
    /\ ledger = {} /\ disk = Blank
    /\ cause = "none"
    /\ restarts = MaxRestarts /\ lapses = MaxLapses

Enforced   == mode = "enforce"
Guaranteed == server = "render" /\ fallbacks

(* plan_objective_findings: what the preflight, the crop coverage, the     *)
(* predictions and the creative intent object to.  The preflight repeats   *)
(* what the coverage found; either blocks the plan.                        *)
Present(p)   == (flaws[p.ans] \cup p.bad) \ p.cut
Preflight(p) == {d \in Present(p) : Kind[d] \in {"preflight", "coverage"}}
Uncovered(p) == {d \in Present(p) : Kind[d] = "coverage"}
Predicted(p) == {d \in Present(p) : Kind[d] = "predicted"}
Unmet(p)     == {d \in Present(p) : Kind[d] = "intent"}
Findings(p)  == Preflight(p) \cup Uncovered(p) \cup Predicted(p) \cup Unmet(p)

(* bounded_repair_findings: those the model may be asked about come first. *)
Before(d, e) == \/ d \in Repairable /\ e \notin Repairable
                \/ (d \in Repairable <=> e \in Repairable) /\ Rank[d] < Rank[e]
Selected(F)  == {d \in F : Cardinality({e \in F : Before(e, d)}) < MaxCodes}

(* repair_disposition, over the findings of a batch.                       *)
Eligible(B)  == B \cap Repairable

(* has_semantic_attempt and fallback_evidence.                             *)
Attempted(d)    == \E a \in attempts : a.defect = d
Evidenced(d, p) == [plan |-> p, defect |-> d] \in attempts

(* The repair report: what it says of the calls, and which of the fallbacks*)
(* entered it marks as authorized by one of them.                          *)
AttemptLedger     == {a.defect : a \in attempts}
Attested(entries) == entries \cap AttemptLedger
Report(entries)   == [attempt_ledger |-> AttemptLedger, authorized |-> Attested(entries)]

Fail(why) == pc' = "failed" /\ cause' = why

(* build_repair_batch: what a round is about, unless there is too much of  *)
(* it: findings, evidence, or text of the clips.                           *)
Request(B, round) ==
    /\ batch' = B
    /\ \/ Cardinality(B) <= MaxCodes /\ pc' = round /\ UNCHANGED cause
       \/ Fail("round too large")

-----------------------------------------------------------------------------
(* The editor proposes a plan, after a restart perhaps the same as before, *)
(* some clips only as a baseline with the proposal's errors deferred to    *)
(* the repair; the findings of the first round are selected.               *)
FirstRound(F) ==
    /\ over' = F \ Selected(F)
    /\ IF Eligible(Selected(F)) # {}
       THEN Request(Selected(F), "primary") /\ left' = {}
       ELSE /\ batch' = Selected(F) /\ left' = over'
            /\ pc' = "baseline" /\ UNCHANGED cause

Propose(n, seen) ==
    /\ plan' = Answer(n, {})
    /\ first' = n
    /\ flaws' = [flaws EXCEPT ![n] = seen]

(* The evidence about the pictures is another one, all else is the same.   *)
Sights       == {F \in SUBSET Defects : Cardinality(F) <= MaxFlaws}
Visual       == {d \in Defects : Kind[d] \in {"preflight", "coverage"}} \ Unasked
Reseen(n)    == {F \in Sights : F \ Visual = flaws[n] \ Visual}
Proposals    == {<<named + 1, F>> : F \in Sights}
Repetitions  == {p \in (1..named) \X Sights : p[2] \in Reseen(p[1])}
Deferrals(F) == {{}} \cup {{d} : d \in {e \in Repairable \ F : Kind[e] = "preflight"}}

Plan ==
    /\ pc = "plan"
    /\ \E p \in Proposals \cup Repetitions :
          /\ p[1] <= MaxAnswers
          /\ Propose(p[1], p[2])
          /\ named' = IF p[1] > named THEN p[1] ELSE named
          /\ \E deferred \in Deferrals(p[2]) :
                IF mode = "off"
                THEN pc' = "baseline" /\ UNCHANGED <<batch, over, left, cause>>
                ELSE FirstRound(p[2] \cup deferred)
    /\ UNCHANGED <<config, rounds, attempts, calls, call, kept, ledger, disk,
                   restarts, lapses>>

-----------------------------------------------------------------------------
(* A round ends: it is recorded, with what was asked if a call went out,   *)
(* and its plan is taken over or its findings stay unresolved.             *)
Record(out) ==
    /\ rounds' = rounds + 1
    /\ attempts' = attempts \cup
           IF out THEN {[plan |-> plan, defect |-> d] : d \in batch} ELSE {}

Resolved(stage, made, seen) ==
    /\ plan' = made
    /\ flaws' = [flaws EXCEPT ![made.ans] = seen]
    /\ IF stage = "primary"
       THEN pc' = "baseline" /\ left' = ((seen \cup made.bad) \ made.cut) \cup over
       ELSE pc' = "settle" /\ left' = {}

Unresolved(stage) ==
    /\ IF stage = "primary"
       THEN pc' = "baseline" /\ left' = batch \cup over
       ELSE pc' = "settle" /\ left' = batch
    /\ UNCHANGED <<plan, flaws>>

(* The fingerprint of a repair request, and the checkpoints that have it.  *)
Key  == [stage |-> pc, round |-> rounds, plan |-> plan, batch |-> batch]
Hits == {n \in kept : calls[n].key = Key}

(* A checkpoint without a call that went out counts for nothing when the   *)
(* repair is enforced; a repaired plan is validated again, in the          *)
(* contingency against the findings as well, and may not pass.             *)
Usable(n)       == Enforced => calls[n].out
Doubtful(n)     == calls[n].status = "repaired"
Flawless(made, seen)  == (seen \cup made.bad) \ made.cut = {}
StillGood(made, seen) == pc = "primary" \/ Flawless(made, seen)

TakeUp ==
    /\ pc \in {"primary", "contingency"}
    /\ \E n \in Hits :
          /\ Usable(n)
          /\ call' = n
          /\ Record(calls[n].out)
          /\ IF calls[n].status = "repaired"
             THEN \E seen \in Reseen(calls[n].made.ans) :
                     StillGood(calls[n].made, seen) /\ Resolved(pc, calls[n].made, seen)
             ELSE Unresolved(pc)
    /\ UNCHANGED <<config, named, first, batch, over, calls, kept, ledger, disk,
                   cause, restarts, lapses>>

Missed == \A n \in Hits : Usable(n) => Doubtful(n)

Called(status, out, made) ==
    /\ calls' = Append(calls, [key |-> Key, status |-> status, out |-> out, made |-> made])
    /\ call' = Len(calls) + 1
    /\ pc' = "save"

(* The clips of an answer take the place of those of the plan.             *)
Merged(keep) == Answer(named + 1, keep)

(* The provider is asked; its candidate passes the quality floor, which    *)
(* asks for a plan without findings, or does not, or there is none.        *)
AskRepaired ==
    /\ pc \in {"primary", "contingency"} /\ Enforced /\ Missed
    /\ Len(calls) < MaxCalls /\ named < MaxAnswers
    /\ \E keep \in SUBSET plan.cut :
          Called("repaired", TRUE, Merged(keep))
    /\ named' = named + 1
    /\ UNCHANGED <<config, flaws, first, plan, batch, over, left, rounds, attempts,
                   kept, ledger, disk, cause, restarts, lapses>>

AskInVain ==
    /\ pc \in {"primary", "contingency"} /\ Enforced /\ Missed
    /\ Len(calls) < MaxCalls
    /\ \/ Called("rejected", TRUE, NoPlan)
       \/ \E out \in BOOLEAN : Called("failed", out, NoPlan)
    /\ UNCHANGED <<config, flaws, named, first, plan, batch, over, left, rounds,
                   attempts, kept, ledger, disk, cause, restarts, lapses>>

(* In report mode the request is only written down.                        *)
ReportOnly ==
    /\ pc = "primary" /\ mode = "report" /\ Missed
    /\ Len(calls) < MaxCalls
    /\ Called("report_only", FALSE, NoPlan)
    /\ UNCHANGED <<config, flaws, named, first, plan, batch, over, left, rounds,
                   attempts, kept, ledger, disk, cause, restarts, lapses>>

Lapse == lapses > 0 /\ lapses' = lapses - 1

(* The call is recorded and its checkpoint saved, over an earlier one of   *)
(* the same fingerprint, or the save fails, which is only noted.           *)
Save ==
    /\ pc = "save"
    /\ LET c == calls[call]
       IN  /\ Record(c.out)
           /\ IF c.status = "repaired"
              THEN Resolved(c.key.stage, c.made, {})
              ELSE Unresolved(c.key.stage)
           /\ \/ /\ kept' = {n \in kept : calls[n].key # c.key} \cup {call}
                 /\ UNCHANGED lapses
              \/ Lapse /\ UNCHANGED kept
    /\ UNCHANGED <<config, named, first, batch, over, calls, call, ledger, disk,
                   cause, restarts>>

-----------------------------------------------------------------------------
(* The compiler overlooks crops without evidence.                          *)
Acted_NoCoverage(p, told) == ({d \in told \cap Cured : Kind[d] # "coverage"})
                             \cup (Present(p) \cap Unasked)

(* compile_baseline_plan: what it changes in the plan, and what it enters  *)
(* in the ledger for that and for the defects it was told about.           *)
Acted(p, told) == (told \cap Cured) \cup (Present(p) \cap Unasked)
                  \cup IF Enforced THEN {} ELSE Uncovered(p)
Exposed(S)     == UNION {Exposes[d] : d \in S}

Compiled(p, told) == [ans |-> p.ans, cut |-> p.cut \cup Acted(p, told),
                      bad |-> p.bad \cup Exposed(Acted(p, told)),
                      bare |-> p.bare, minimal |-> p.minimal]
Explained(p, told) == Acted(p, told) \cup (told \cap Repairable)

(* The plan that the primary round was about.                              *)
Primary == Answer(first, {})

(* Only what blocks the plan is worth a call.                              *)
Late_Blocking(p) == {d \in Preflight(p) \cap Repairable : ~Attempted(d)}

(* The repairable findings that no call of this run was about.             *)
Late(p) == {d \in Findings(p) \cap Repairable : ~Attempted(d)}

(* That a round was recorded is enough.                                    *)
Authorized_Recorded(S, p) == rounds > 0 \/ S = {}

(* require_fallback_evidence.                                              *)
Authorized(S, p) == \A d \in S : Evidenced(d, p)

(* The second round is about what no call was about.                       *)
Contingency(p) == Request(Late(p), "contingency")

(* What is unresolved is replaced, which takes evidence that it was asked  *)
(* about when the repair is enforced; what is new then may be asked about. *)
Baseline ==
    /\ pc = "baseline"
    /\ LET told == IF Enforced THEN left ELSE {}
           next == Compiled(plan, told)
       IN  IF ~Guaranteed
           THEN pc' = "check" /\ UNCHANGED <<plan, ledger, batch, cause>>
           ELSE IF Enforced /\ ~Authorized(left, Primary)
           THEN Fail("unattempted") /\ UNCHANGED <<plan, ledger, batch>>
           ELSE /\ plan' = next
                /\ ledger' = ledger \cup Explained(plan, told)
                /\ IF ~Enforced \/ Late(next) = {}
                   THEN pc' = "check" /\ UNCHANGED <<batch, cause>>
                   ELSE Contingency(next)
    /\ UNCHANGED <<config, flaws, named, first, over, left, rounds, attempts, calls,
                   call, kept, disk, restarts, lapses>>

(* The contingency's findings are settled the same way.  A finding without *)
(* an attempt would need a third round; with only one recorded, what the   *)
(* last fallback brings along is let pass.                                 *)
Settle ==
    /\ pc = "settle"
    /\ LET next == IF left = {} THEN plan ELSE Compiled(plan, left)
       IN  IF ~Authorized(left, plan)
           THEN Fail("unattempted") /\ UNCHANGED <<plan, ledger>>
           ELSE /\ plan' = next
                /\ ledger' = IF left = {} THEN ledger
                             ELSE ledger \cup Explained(plan, left)
                /\ IF Late(next) # {} /\ rounds = 2
                   THEN Fail("third round")
                   ELSE IF Findings(next) \cap Composition # {}
                   THEN Fail("unsafe baseline")
                   ELSE pc' = "check" /\ UNCHANGED cause
    /\ UNCHANGED <<config, flaws, named, first, batch, over, left, rounds, attempts,
                   calls, call, kept, disk, restarts, lapses>>

-----------------------------------------------------------------------------
(* The plan that is left: an intent it does not meet is let through with   *)
(* an entry where a baseline is guaranteed; crops without evidence, what   *)
(* the preflight blocks (in the shadow only if so configured) and a        *)
(* failing dry run of its composition end the run.                         *)
Check ==
    /\ pc = "check"
    /\ \/ /\ Unmet(plan) # {} /\ ~Guaranteed
          /\ Fail("intent") /\ UNCHANGED ledger
       \/ /\ Unmet(plan) # {} => Guaranteed
          /\ ledger' = IF Unmet(plan) # {} THEN ledger \cup {"intent"} ELSE ledger
          /\ \/ Uncovered(plan) # {} /\ server = "render" /\ Fail("coverage")
             \/ /\ Uncovered(plan) = {} \/ server = "shadow"
                /\ \/ Preflight(plan) # {} /\ Fail("preflight")
                   \/ Preflight(plan) = {} /\ server = "render" /\ Fail("dry run")
                   \/ /\ Preflight(plan) = {} \/ server = "shadow"
                      /\ pc' = "assets" /\ UNCHANGED cause
    /\ UNCHANGED <<config, flaws, named, first, plan, batch, over, left, rounds,
                   attempts, calls, call, kept, disk, restarts, lapses>>

Write(p, entries) == disk' = [plan |-> p, ledger |-> entries]

(* The external assets are fetched, or what shows them is left out; plan,  *)
(* ledger and preflight are written down unless an asset is still missing. *)
Assets ==
    /\ pc = "assets"
    /\ \/ UNCHANGED <<plan, ledger>>
       \/ /\ Guaranteed
          /\ plan' = [plan EXCEPT !.bare = TRUE] /\ ledger' = ledger \cup {"assets"}
    /\ Write(plan', ledger')
    /\ pc' = IF Guaranteed THEN "preflight" ELSE "render"
    /\ UNCHANGED <<config, flaws, named, first, batch, over, left, rounds, attempts,
                   calls, call, kept, cause, restarts, lapses>>

AssetsFail ==
    /\ pc = "assets" /\ server = "render"
    /\ \/ ~fallbacks /\ Fail("assets")
       \/ Fail("preflight")
    /\ UNCHANGED <<config, flaws, named, first, plan, batch, over, left, rounds,
                   attempts, calls, call, kept, ledger, disk, restarts, lapses>>

(* The ledger is not rewritten with the plan.                              *)
Minimal_LedgerLater ==
    /\ pc = "preflight"
    /\ plan' = [plan EXCEPT !.minimal = TRUE]
    /\ ledger' = ledger \cup {"minimal"}
    /\ \/ \E why \in {"preflight", "dry run", "render"} : Fail(why) /\ UNCHANGED disk
       \/ Write(plan', ledger) /\ pc' = "render" /\ UNCHANGED cause
    /\ UNCHANGED <<config, flaws, named, first, batch, over, left, rounds, attempts,
                   calls, call, kept, restarts, lapses>>

(* FFmpeg takes the filters of the plan, or the plan is reduced to its     *)
(* clips in full frame and written down again, if that passes.             *)
FFmpegAccepts ==
    /\ pc = "preflight"
    /\ pc' = "render"
    /\ UNCHANGED <<config, flaws, named, first, plan, batch, over, left, rounds,
                   attempts, calls, call, kept, ledger, disk, cause, restarts, lapses>>

Minimal ==
    /\ pc = "preflight"
    /\ plan' = [plan EXCEPT !.minimal = TRUE]
    /\ ledger' = ledger \cup {"minimal"}
    /\ \/ \E why \in {"preflight", "dry run", "render"} : Fail(why) /\ UNCHANGED disk
       \/ Write(plan', ledger') /\ pc' = "render" /\ UNCHANGED cause
    /\ UNCHANGED <<config, flaws, named, first, batch, over, left, rounds, attempts,
                   calls, call, kept, restarts, lapses>>

Render ==
    /\ pc = "render"
    /\ \/ pc' = "effects" /\ UNCHANGED cause
       \/ Fail("render")
    /\ UNCHANGED <<config, flaws, named, first, plan, batch, over, left, rounds,
                   attempts, calls, call, kept, ledger, disk, restarts, lapses>>

(* Finishing effects that cannot be planned or applied are left out; the   *)
(* ledger of a run that is published is written a last time.               *)
Effects ==
    /\ pc = "effects"
    /\ \/ UNCHANGED ledger
       \/ ledger' = ledger \cup {"effects"}
    /\ disk' = [disk EXCEPT !.ledger = ledger']
    /\ pc' = "done"
    /\ UNCHANGED <<config, flaws, named, first, plan, batch, over, left, rounds,
                   attempts, calls, call, kept, cause, restarts, lapses>>

-----------------------------------------------------------------------------
(* The worker dies or loses its lease; the recovered job starts over.      *)
Crash ==
    /\ pc \notin Ended /\ restarts > 0 /\ restarts' = restarts - 1
    /\ pc' = "plan" /\ plan' = NoPlan /\ first' = 0
    /\ batch' = {} /\ over' = {} /\ left' = {}
    /\ rounds' = 0 /\ attempts' = {} /\ call' = 0 /\ ledger' = {}
    /\ UNCHANGED <<config, flaws, named, calls, kept, disk, cause, lapses>>

(* A checkpoint that would be read is spoilt.                              *)
Spoil ==
    /\ pc \in {"primary", "contingency"} /\ Lapse
    /\ \E n \in Hits : kept' = kept \ {n}
    /\ UNCHANGED <<config, pc, flaws, named, first, plan, batch, over, left, rounds,
                   attempts, calls, call, ledger, disk, cause, restarts>>

Next == \/ Plan
        \/ TakeUp \/ AskRepaired \/ AskInVain \/ ReportOnly \/ Save
        \/ Baseline \/ Settle \/ Check
        \/ Assets \/ AssetsFail \/ FFmpegAccepts \/ Minimal
        \/ Render \/ Effects
        \/ Crash \/ Spoil

Spec == Init /\ [][Next]_vars

-----------------------------------------------------------------------------
Rendering == pc \in {"render", "effects", "done"}

(* When repair is enforced, no deterministic fallback stands in the plan   *)
(* or the ledger for a defect that the model could repair, unless a call   *)
(* about that defect went out for this job, and the report of this run can *)
(* attest to it: also when the round was taken from a checkpoint, in       *)
(* either round and after restarts (require_fallback_evidence,             *)
(* compile_baseline_plan, _authorize_fallbacks).                           *)
FallbackWasAsked ==
    Enforced => \A d \in (ledger \cup plan.cut) \cap Repairable :
                   /\ d \in Report(ledger \cup plan.cut).authorized
                   /\ \E n \in 1..Len(calls) : calls[n].out /\ d \in calls[n].key.batch

(* What a repair was asked about is all that is wrong with a plan that is  *)
(* rendered: what a fallback or a cached repair brings along does not slip *)
(* past the rounds, but for what the fallback after the only round brings  *)
(* (late_findings, unattempted_final, next_round).                         *)
LastFallback == rounds < 2 /\ call > 0 /\ calls[call].key.stage = "contingency"

RenderedWasAsked ==
    Rendering /\ Enforced /\ Guaranteed =>
        \A d \in Findings(plan) \cap Repairable : Attempted(d) \/ LastFallback

(* The plan that is rendered is the one on disk, and the ledger beside it  *)
(* names every change that was made to it and the intent it fails to meet, *)
(* whichever of the fallbacks came last; a run that is done has all        *)
(* entries on record.                                                      *)
LedgerExplains ==
    Rendering =>
        /\ disk.plan = plan
        /\ plan.cut \subseteq disk.ledger
        /\ plan.bare => "assets" \in disk.ledger
        /\ plan.minimal => "minimal" \in disk.ledger
        /\ Unmet(plan) # {} => "intent" \in disk.ledger
        /\ pc = "done" => disk.ledger = ledger

(* With enforced repair and a guaranteed baseline a run is not given up    *)
(* while the compiler can help: findings without an attempt end it only if *)
(* there were too many for a round, a call did not go out, or a restart    *)
(* has seen the plan otherwise; crops without evidence and compositions    *)
(* that cannot be made only if the compiler does not remove them or they   *)
(* came with its own last change.                                          *)
BaselineHolds ==
    Enforced /\ Guaranteed =>
        /\ cause = "unattempted" =>
              \/ over # {} \/ restarts < MaxRestarts
              \/ \E n \in 1..Len(calls) : ~calls[n].out
        /\ cause = "coverage" => ~(Uncovered(plan) \subseteq Cured)
        /\ cause # "intent"
=============================================================================
