--------------------------- MODULE PlanRepairProofs ---------------------------
(***************************************************************************)
(* Proofs about PlanRepair, for every set of defects, whatever the         *)
(* compiler and the model can do about them, and every bound.              *)
(***************************************************************************)
EXTENDS PlanRepair, TLAPS

(* Rounds are counted along the steps; what is about to be saved is the    *)
(* call of this round, about the plan and the findings at hand.            *)
Counted ==
    /\ pc \in {"plan", "primary"} => rounds = 0
    /\ pc \in {"baseline", "contingency", "save"} => rounds \in 0..1
    /\ pc = "save" /\ calls[call].key.stage = "primary" => rounds = 0

Saving ==
    pc = "save" =>
        /\ call \in 1..Len(calls)
        /\ calls[call].key.plan = plan
        /\ calls[call].key.batch = batch

Settling ==
    pc = "settle" => call \in 1..Len(calls) /\ calls[call].key.stage = "contingency"

TypeInv == TypeOK /\ Counted /\ Saving /\ Settling

-----------------------------------------------------------------------------
LEMMA AnswerType ==
    ASSUME NEW n \in Names, NEW keep \in SUBSET Defects
    PROVE  Answer(n, keep) \in Plans
BY DEF Answer, Plans

LEMMA NoPlanType == NoPlan \in Plans /\ 0 \in Names
<1>1. 0 \in Names
  BY BoundsAssumption DEF Names
<1> QED
  BY <1>1, AnswerType DEF NoPlan

LEMMA PresentType ==
    ASSUME TypeOK, NEW p \in Plans
    PROVE  Present(p) \subseteq Defects
BY DEF TypeOK, Present, Plans

LEMMA FindingsType ==
    ASSUME TypeOK, NEW p \in Plans
    PROVE  /\ Findings(p) = Present(p)
           /\ Findings(p) \subseteq Defects
           /\ Uncovered(p) \subseteq Defects
<1>1. \A d \in Defects : Kind[d] \in {"preflight", "coverage", "predicted", "intent"}
  BY DefectsAssumption
<1> QED
  BY <1>1, PresentType DEF Findings, Preflight, Uncovered, Predicted, Unmet

LEMMA ActedType ==
    ASSUME TypeOK, NEW p \in Plans, NEW told \in SUBSET Defects
    PROVE  Acted(p, told) \subseteq Defects /\ Explained(p, told) \subseteq Defects
BY PresentType, FindingsType DEF Acted, Explained

LEMMA CompiledType ==
    ASSUME TypeOK, NEW p \in Plans, NEW told \in SUBSET Defects
    PROVE  Compiled(p, told) \in Plans
<1>1. Acted(p, told) \subseteq Defects
  BY ActedType
<1>2. Exposed(Acted(p, told)) \subseteq Defects
  BY <1>1, DefectsAssumption DEF Exposed
<1> QED
  BY <1>1, <1>2 DEF Compiled, Plans

LEMMA SelectedType == ASSUME NEW F \in SUBSET Defects PROVE Selected(F) \subseteq Defects
BY DEF Selected

LEMMA LateType ==
    ASSUME TypeOK, NEW p \in Plans
    PROVE  Late(p) \subseteq Defects
BY FindingsType DEF Late

LEMMA TypeInit == Init => TypeInv
<1> SUFFICES ASSUME Init PROVE TypeInv
  OBVIOUS
<1>1. NoPlan \in Plans /\ named \in Names /\ first \in Names
  BY NoPlanType DEF Init
<1>2. restarts \in Nat /\ lapses \in Nat
  BY BoundsAssumption DEF Init
<1>3. disk \in [plan : Plans, ledger : SUBSET Entries]
  BY <1>1 DEF Init, Blank
<1>4. calls \in Seq(Calls) /\ call \in 0..Len(calls) /\ kept \subseteq 1..Len(calls)
  BY DEF Init
<1>5. TypeOK
  BY <1>1, <1>2, <1>3, <1>4 DEF Init, TypeOK, Steps, Causes
<1> QED
  BY <1>5 DEF Init, TypeInv, Counted, Saving, Settling

LEMMA PlanType == ASSUME TypeInv, Plan PROVE TypeInv'
<1>1. PICK p \in Proposals \cup Repetitions :
          /\ p[1] <= MaxAnswers
          /\ Propose(p[1], p[2])
          /\ named' = IF p[1] > named THEN p[1] ELSE named
          /\ \E deferred \in Deferrals(p[2]) :
                IF mode = "off"
                THEN pc' = "baseline" /\ UNCHANGED <<batch, over, left, cause>>
                ELSE FirstRound(p[2] \cup deferred)
  BY DEF Plan
<1>2. named \in Names /\ MaxAnswers \in Nat /\ flaws \in [Names -> SUBSET Defects]
  BY BoundsAssumption DEF TypeInv, TypeOK
<1>3. p[1] \in Names /\ p[2] \subseteq Defects
  BY <1>1, <1>2 DEF Proposals, Repetitions, Sights, Names
<1>4. plan' \in Plans /\ first' \in Names /\ flaws' \in [Names -> SUBSET Defects]
  BY <1>1, <1>2, <1>3, AnswerType DEF Propose
<1>5. named' \in Names
  BY <1>1, <1>2, <1>3
<1>6. PICK deferred \in Deferrals(p[2]) :
                IF mode = "off"
                THEN pc' = "baseline" /\ UNCHANGED <<batch, over, left, cause>>
                ELSE FirstRound(p[2] \cup deferred)
  BY <1>1
<1>7. p[2] \cup deferred \in SUBSET Defects
  BY <1>3, DefectsAssumption DEF Deferrals
<1>8. /\ pc' \in {"primary", "baseline", "failed"} /\ cause' \in Causes
      /\ batch' \subseteq Defects /\ over' \subseteq Defects /\ left' \subseteq Defects
  BY <1>6, <1>7, SelectedType DEF FirstRound, Request, Fail, Causes, TypeInv, TypeOK
<1>9. pc = "plan" /\ rounds = 0
  BY DEF Plan, TypeInv, Counted
<1>10. TypeOK'
  BY <1>4, <1>5, <1>8 DEF Plan, TypeInv, TypeOK, config, Steps
<1> QED
  BY <1>8, <1>9, <1>10 DEF Plan, TypeInv, Counted, Saving, Settling

(* A round that is recorded, and what becomes of its findings.             *)
LEMMA RecordType ==
    ASSUME TypeOK, rounds \in 0..1, NEW out, Record(out)
    PROVE  rounds' \in 0..2 /\ rounds' = rounds + 1 /\ attempts' \subseteq Asked
BY DEF Record, TypeOK, Asked

LEMMA ResolvedType ==
    ASSUME TypeOK, NEW made \in Plans, NEW seen \in SUBSET Defects,
           NEW stage, Resolved(stage, made, seen)
    PROVE  /\ plan' \in Plans /\ flaws' \in [Names -> SUBSET Defects]
           /\ left' \subseteq Defects
           /\ pc' = IF stage = "primary" THEN "baseline" ELSE "settle"
BY DEF TypeOK, Resolved, Plans

LEMMA UnresolvedType ==
    ASSUME TypeOK, NEW stage, Unresolved(stage)
    PROVE  /\ plan' = plan /\ flaws' = flaws
           /\ left' \subseteq Defects
           /\ pc' = IF stage = "primary" THEN "baseline" ELSE "settle"
BY DEF TypeOK, Unresolved

LEMMA TakeUpType == ASSUME TypeInv, TakeUp PROVE TypeInv'
<1>1. pc \in {"primary", "contingency"} /\ rounds \in 0..1 /\ (pc = "primary" => rounds = 0)
  BY DEF TakeUp, TypeInv, Counted
<1>2. PICK n \in Hits :
          /\ call' = n
          /\ Record(calls[n].out)
          /\ IF calls[n].status = "repaired"
             THEN \E seen \in Reseen(calls[n].made.ans) :
                     StillGood(calls[n].made, seen) /\ Resolved(pc, calls[n].made, seen)
             ELSE Unresolved(pc)
  BY DEF TakeUp
<1>3. n \in 1..Len(calls) /\ calls[n] \in Calls /\ calls[n].key.stage = pc
  BY <1>2 DEF Hits, Key, TypeInv, TypeOK
<1>4. rounds' \in 0..2 /\ rounds' = rounds + 1 /\ attempts' \subseteq Asked
  BY <1>1, <1>2, RecordType DEF TypeInv
<1>5. /\ plan' \in Plans /\ flaws' \in [Names -> SUBSET Defects]
      /\ left' \subseteq Defects
      /\ pc' = IF pc = "primary" THEN "baseline" ELSE "settle"
  <2>1. CASE calls[n].status = "repaired"
    <3>1. PICK seen \in Reseen(calls[n].made.ans) : Resolved(pc, calls[n].made, seen)
      BY <1>2, <2>1
    <3>2. calls[n].made \in Plans /\ seen \in SUBSET Defects
      BY <1>3 DEF Calls, Reseen, Sights
    <3> QED
      BY <3>1, <3>2, ResolvedType DEF TypeInv
  <2>2. CASE calls[n].status # "repaired"
    BY <1>2, <2>2, UnresolvedType DEF TypeInv, TypeOK
  <2> QED
    BY <2>1, <2>2
<1>6. TypeOK'
  BY <1>1, <1>3, <1>4, <1>5, <1>2 DEF TakeUp, TypeInv, TypeOK, config, Steps
<1>7. Counted'
  BY <1>1, <1>4, <1>5 DEF Counted
<1>8. Settling' /\ Saving'
  BY <1>1, <1>2, <1>3, <1>5 DEF TakeUp, Settling, Saving
<1> QED
  BY <1>6, <1>7, <1>8 DEF TypeInv

(* A call goes out, or does not: its record is the last.                   *)
LEMMA CalledType ==
    ASSUME TypeInv, pc \in {"primary", "contingency"},
           NEW status \in {"repaired", "rejected", "failed", "report_only"},
           NEW out \in BOOLEAN, NEW made \in Plans, Called(status, out, made)
    PROVE  /\ calls' \in Seq(Calls) /\ Len(calls') = Len(calls) + 1
           /\ call' = Len(calls') /\ pc' = "save"
           /\ \A n \in 1..Len(calls) : calls'[n] = calls[n]
           /\ calls'[call'] = [key |-> Key, status |-> status, out |-> out, made |-> made]
<1>1. Key \in Keys
  BY DEF Key, Keys, TypeInv, TypeOK, Counted
<1>2. [key |-> Key, status |-> status, out |-> out, made |-> made] \in Calls
  BY <1>1 DEF Calls
<1> QED
  BY <1>2 DEF Called, TypeInv, TypeOK

LEMMA CalledInv ==
    ASSUME TypeInv, pc \in {"primary", "contingency"},
           NEW status \in {"repaired", "rejected", "failed", "report_only"},
           NEW out \in BOOLEAN, NEW made \in Plans, Called(status, out, made),
           named' \in Names,
           UNCHANGED <<config, flaws, first, plan, batch, over, left, rounds, attempts,
                       kept, ledger, disk, cause, restarts, lapses>>
    PROVE  TypeInv'
<1>1. /\ calls' \in Seq(Calls) /\ Len(calls') = Len(calls) + 1
      /\ call' = Len(calls') /\ pc' = "save"
      /\ calls'[call'] = [key |-> Key, status |-> status, out |-> out, made |-> made]
  BY CalledType
<1>2. Len(calls) \in Nat /\ Len(calls') \in Nat
  BY <1>1 DEF TypeInv, TypeOK
<1>3. kept' \subseteq 1..Len(calls') /\ call' \in 1..Len(calls')
  BY <1>1, <1>2 DEF TypeInv, TypeOK
<1>4. call' \in 0..Len(calls')
  BY <1>2, <1>3
<1>5. TypeOK'
  BY <1>1, <1>3, <1>4 DEF TypeInv, TypeOK, config, Steps
<1>6. calls'[call'].key.stage = pc /\ calls'[call'].key.plan = plan /\ calls'[call'].key.batch = batch
  BY <1>1 DEF Key
<1>7. Counted'
  BY <1>1, <1>6 DEF TypeInv, Counted
<1>8. Saving' /\ Settling'
  BY <1>1, <1>3, <1>6 DEF Saving, Settling
<1> QED
  BY <1>5, <1>7, <1>8 DEF TypeInv

LEMMA AskType == ASSUME TypeInv, AskRepaired \/ AskInVain \/ ReportOnly PROVE TypeInv'
<1>1. named \in Names /\ named + 1 \in Nat /\ MaxAnswers \in Nat
  BY BoundsAssumption DEF TypeInv, TypeOK, Names
<1>2. CASE AskRepaired
  <2>1. PICK keep \in SUBSET plan.cut : Called("repaired", TRUE, Answer(named + 1, keep))
    BY <1>2 DEF AskRepaired, Merged
  <2>2. named + 1 \in Names /\ keep \in SUBSET Defects
    BY <1>1, <1>2 DEF AskRepaired, Names, TypeInv, TypeOK, Plans
  <2> QED
    BY <1>2, <2>1, <2>2, AnswerType, CalledInv DEF AskRepaired
<1>3. CASE AskInVain
  <2>1. PICK status \in {"rejected", "failed"}, out \in BOOLEAN : Called(status, out, NoPlan)
    BY <1>3 DEF AskInVain
  <2> QED
    BY <1>1, <1>3, <2>1, NoPlanType, CalledInv DEF AskInVain
<1>4. CASE ReportOnly
  BY <1>1, <1>4, NoPlanType, CalledInv DEF ReportOnly
<1> QED
  BY <1>2, <1>3, <1>4

LEMMA SaveType == ASSUME TypeInv, Save PROVE TypeInv'
<1> DEFINE c == calls[call]
<1>1. /\ pc = "save" /\ rounds \in 0..1 /\ call \in 1..Len(calls) /\ c \in Calls
      /\ c.key.stage = "primary" => rounds = 0
  BY DEF Save, TypeInv, Counted, Saving, TypeOK
<1>2. /\ Record(c.out)
      /\ IF c.status = "repaired" THEN Resolved(c.key.stage, c.made, {}) ELSE Unresolved(c.key.stage)
      /\ \/ kept' = {n \in kept : calls[n].key # c.key} \cup {call} /\ UNCHANGED lapses
         \/ Lapse /\ UNCHANGED kept
  BY DEF Save
<1>3. rounds' \in 0..2 /\ rounds' = rounds + 1 /\ attempts' \subseteq Asked
  BY <1>1, <1>2, RecordType DEF TypeInv
<1>4. /\ plan' \in Plans /\ flaws' \in [Names -> SUBSET Defects]
      /\ left' \subseteq Defects
      /\ pc' = IF c.key.stage = "primary" THEN "baseline" ELSE "settle"
  <2>1. CASE c.status = "repaired"
    <3>1. c.made \in Plans /\ {} \in SUBSET Defects
      BY <1>1 DEF Calls
    <3> QED
      BY <1>2, <2>1, <3>1, ResolvedType DEF TypeInv
  <2>2. CASE c.status # "repaired"
    BY <1>2, <2>2, UnresolvedType DEF TypeInv, TypeOK
  <2> QED
    BY <2>1, <2>2
<1>5. kept' \subseteq 1..Len(calls) /\ lapses' \in Nat
  BY <1>1, <1>2 DEF TypeInv, TypeOK, Lapse
<1>6. TypeOK'
  BY <1>3, <1>4, <1>5 DEF Save, TypeInv, TypeOK, config, Steps
<1>7. c.key.stage \in {"primary", "contingency"}
  BY <1>1 DEF Calls, Keys
<1>8. Counted'
  BY <1>1, <1>3, <1>4 DEF Counted
<1>9. Saving' /\ Settling'
  BY <1>1, <1>4, <1>7 DEF Save, Saving, Settling
<1> QED
  BY <1>6, <1>8, <1>9 DEF TypeInv

LEMMA BaselineType == ASSUME TypeInv, Baseline PROVE TypeInv'
<1> DEFINE told == IF Enforced THEN left ELSE {}
<1> DEFINE next == Compiled(plan, told)
<1>1. told \in SUBSET Defects /\ plan \in Plans /\ rounds \in 0..1
  BY DEF Baseline, TypeInv, TypeOK, Counted
<1>2. next \in Plans /\ Explained(plan, told) \subseteq Defects
  BY <1>1, CompiledType, ActedType DEF TypeInv
<1>3. Late(next) \subseteq Defects
  BY <1>2, LateType DEF TypeInv
<1> HIDE DEF told, next
<1>4. /\ plan' \in Plans /\ ledger' \subseteq Entries /\ batch' \subseteq Defects
      /\ pc' \in {"check", "failed", "contingency"} /\ cause' \in Causes
  <2>1. CASE ~Guaranteed
    BY <1>1, <2>1 DEF Baseline, TypeInv, TypeOK
  <2>2. CASE Guaranteed /\ Enforced /\ ~Authorized(left, Primary)
    BY <1>1, <2>2 DEF Baseline, Fail, Causes, TypeInv, TypeOK
  <2>3. CASE Guaranteed /\ ~(Enforced /\ ~Authorized(left, Primary))
    <3>1. /\ plan' = next /\ ledger' = ledger \cup Explained(plan, told)
          /\ \/ pc' = "check" /\ UNCHANGED <<batch, cause>>
             \/ Fail("round too large") /\ batch' = Late(next)
             \/ batch' = Late(next) /\ pc' = "contingency" /\ UNCHANGED cause
      BY <2>3 DEF Baseline, Contingency, Request, told, next
    <3> QED
      BY <1>2, <1>3, <3>1 DEF Fail, Causes, Entries, TypeInv, TypeOK
  <2> QED
    BY <2>1, <2>2, <2>3
<1>5. TypeOK'
  BY <1>4 DEF Baseline, TypeInv, TypeOK, config, Steps
<1> QED
  BY <1>1, <1>4, <1>5 DEF Baseline, TypeInv, Counted, Saving, Settling

LEMMA SettleType == ASSUME TypeInv, Settle PROVE TypeInv'
<1> DEFINE next == IF left = {} THEN plan ELSE Compiled(plan, left)
<1>1. left \in SUBSET Defects /\ plan \in Plans
  BY DEF TypeInv, TypeOK
<1>2. next \in Plans /\ Explained(plan, left) \subseteq Defects
  BY <1>1, CompiledType, ActedType DEF TypeInv
<1> HIDE DEF next
<1>3. /\ plan' \in Plans /\ ledger' \subseteq Entries
      /\ pc' \in {"check", "failed"} /\ cause' \in Causes
  <2>1. CASE ~Authorized(left, plan)
    BY <1>1, <2>1 DEF Settle, Fail, Causes, TypeInv, TypeOK
  <2>2. CASE Authorized(left, plan)
    <3>1. /\ plan' = next /\ ledger' \in {ledger, ledger \cup Explained(plan, left)}
          /\ \/ Fail("third round") \/ Fail("unsafe baseline")
             \/ pc' = "check" /\ UNCHANGED cause
      BY <2>2 DEF Settle, next
    <3> QED
      BY <1>2, <3>1 DEF Fail, Causes, Entries, TypeInv, TypeOK
  <2> QED
    BY <2>1, <2>2
<1>4. TypeOK'
  BY <1>3 DEF Settle, TypeInv, TypeOK, config, Steps
<1> QED
  BY <1>3, <1>4 DEF TypeInv, Counted, Saving, Settling

(* From the check on nothing is counted or saved any more.                 *)
Behind == {"check", "assets", "preflight", "render", "effects", "done", "failed"}

LEMMA BehindType == ASSUME TypeOK', pc' \in Behind PROVE TypeInv'
BY DEF Behind, TypeInv, Counted, Saving, Settling

LEMMA CheckType == ASSUME TypeInv, Check PROVE TypeInv'
<1>1. /\ pc' \in {"assets", "failed"} /\ cause' \in Causes
      /\ ledger' \in {ledger, ledger \cup {"intent"}}
  BY DEF Check, Fail, Causes, TypeInv, TypeOK
<1>2. ledger' \subseteq Entries
  BY <1>1 DEF TypeInv, TypeOK, Entries, Tokens
<1>3. TypeOK'
  BY <1>1, <1>2 DEF Check, TypeInv, TypeOK, config, Steps
<1> QED
  BY <1>1, <1>3, BehindType DEF Behind

LEMMA AssetsType == ASSUME TypeInv, Assets PROVE TypeInv'
<1>1. /\ plan' = plan \/ plan' = [plan EXCEPT !.bare = TRUE]
      /\ ledger' \in {ledger, ledger \cup {"assets"}}
      /\ disk' = [plan |-> plan', ledger |-> ledger'] /\ pc' \in {"preflight", "render"}
  BY DEF Assets, Write
<1>2. plan' \in Plans /\ ledger' \subseteq Entries
  BY <1>1 DEF TypeInv, TypeOK, Plans, Entries, Tokens
<1>3. disk' \in [plan : Plans, ledger : SUBSET Entries]
  BY <1>1, <1>2
<1>4. TypeOK'
  BY <1>1, <1>2, <1>3 DEF Assets, TypeInv, TypeOK, config, Steps
<1> QED
  BY <1>1, <1>4, BehindType DEF Behind

LEMMA MinimalType == ASSUME TypeInv, Minimal PROVE TypeInv'
<1>1. /\ plan' = [plan EXCEPT !.minimal = TRUE] /\ ledger' = ledger \cup {"minimal"}
      /\ disk' = disk \/ disk' = [plan |-> plan', ledger |-> ledger']
      /\ pc' \in {"render", "failed"} /\ cause' \in Causes
  BY DEF Minimal, Write, Fail, Causes, TypeInv, TypeOK
<1>2. plan' \in Plans /\ ledger' \subseteq Entries
  BY <1>1 DEF TypeInv, TypeOK, Plans, Entries, Tokens
<1>3. disk' \in [plan : Plans, ledger : SUBSET Entries]
  <2>1. disk \in [plan : Plans, ledger : SUBSET Entries]
    BY DEF TypeInv, TypeOK
  <2>2. [plan |-> plan', ledger |-> ledger'] \in [plan : Plans, ledger : SUBSET Entries]
    BY <1>2
  <2> QED
    BY <1>1, <2>1, <2>2
<1>4. TypeOK'
  BY <1>1, <1>2, <1>3 DEF Minimal, TypeInv, TypeOK, config, Steps
<1> QED
  BY <1>1, <1>4, BehindType DEF Behind

LEMMA EffectsType == ASSUME TypeInv, Effects PROVE TypeInv'
<1>1. ledger' \in {ledger, ledger \cup {"effects"}} /\ pc' = "done"
      /\ disk' = [disk EXCEPT !.ledger = ledger']
  BY DEF Effects
<1>2. ledger' \subseteq Entries
  BY <1>1 DEF TypeInv, TypeOK, Entries, Tokens
<1>3. disk' \in [plan : Plans, ledger : SUBSET Entries]
  BY <1>1, <1>2 DEF TypeInv, TypeOK
<1>4. TypeOK'
  BY <1>1, <1>2, <1>3 DEF Effects, TypeInv, TypeOK, config, Steps
<1> QED
  BY <1>1, <1>4, BehindType DEF Behind

LEMMA PlainType ==
    ASSUME TypeInv, AssetsFail \/ FFmpegAccepts \/ Render
    PROVE  TypeInv'
<1>1. pc' \in Behind /\ cause' \in Causes
  BY DEF AssetsFail, FFmpegAccepts, Render, Fail, Causes, Behind, TypeInv, TypeOK
<1>2. UNCHANGED <<config, flaws, named, first, plan, batch, over, left, rounds,
                  attempts, calls, call, kept, ledger, disk, restarts, lapses>>
  BY DEF AssetsFail, FFmpegAccepts, Render
<1>3. TypeOK'
  BY <1>1, <1>2 DEF TypeInv, TypeOK, config, Steps, Behind
<1> QED
  BY <1>1, <1>3, BehindType

LEMMA CrashType == ASSUME TypeInv, Crash PROVE TypeInv'
<1>1. plan' \in Plans /\ first' \in Names
  BY NoPlanType DEF Crash
<1>2. restarts' \in Nat /\ call' \in 0..Len(calls)
  BY DEF Crash, TypeInv, TypeOK
<1>3. TypeOK'
  BY <1>1, <1>2 DEF Crash, TypeInv, TypeOK, config, Steps
<1> QED
  BY <1>3 DEF Crash, TypeInv, Counted, Saving, Settling

LEMMA SpoilType == ASSUME TypeInv, Spoil PROVE TypeInv'
<1>1. kept' \subseteq 1..Len(calls) /\ lapses' \in Nat
  <2>1. PICK n \in Hits : kept' = kept \ {n}
    BY DEF Spoil
  <2>2. kept' \subseteq 1..Len(calls)
    BY <2>1 DEF TypeInv, TypeOK
  <2>3. lapses' \in Nat
    BY DEF Spoil, Lapse, TypeInv, TypeOK
  <2> QED
    BY <2>2, <2>3
<1>2. TypeOK'
  BY <1>1 DEF Spoil, TypeInv, TypeOK, config
<1> QED
  BY <1>2 DEF Spoil, TypeInv, Counted, Saving, Settling

LEMMA TypeNext == ASSUME TypeInv, [Next]_vars PROVE TypeInv'
<1>1. CASE Next
  BY <1>1, PlanType, TakeUpType, AskType, SaveType, BaselineType, SettleType, CheckType,
     AssetsType, MinimalType, EffectsType, PlainType, CrashType, SpoilType DEF Next
<1>2. CASE UNCHANGED vars
  BY <1>2 DEF vars, config, TypeInv, TypeOK, Counted, Saving, Settling
<1> QED
  BY <1>1, <1>2

(* The plan, its findings, the calls and the ledger keep their types for   *)
(* every set of defects and every bound.                                   *)
THEOREM PlanRepairTypeCorrect == Spec => []TypeOK
<1>1. Spec => []TypeInv
  BY TypeInit, TypeNext, PTL DEF Spec
<1>2. TypeInv => TypeOK
  BY DEF TypeInv
<1> QED
  BY <1>1, <1>2, PTL

-----------------------------------------------------------------------------
(* A repaired plan keeps no change of the compiler that was not there when *)
(* the model was asked.                                                    *)
Candidates ==
    \A n \in 1..Len(calls) :
        /\ calls[n].made.cut \subseteq calls[n].key.plan.cut
        /\ ~calls[n].made.bare /\ ~calls[n].made.minimal

(* Behind every recorded attempt stands a call that went out.              *)
Backed ==
    \A a \in attempts : \E n \in 1..Len(calls) :
        calls[n].out /\ a.defect \in calls[n].key.batch

(* What is wrong with the plan is in the round or in its overflow, in the  *)
(* contingency unless it was asked about before; when a round is over, it  *)
(* is unresolved or was asked about.                                       *)
At(stage)     == \/ pc = stage
                 \/ pc = "save" /\ calls[call].key.stage = stage
InPrimary     == At("primary")
InContingency == At("contingency")

Accounted ==
    Enforced =>
        /\ (InPrimary => Present(plan) \subseteq batch \cup over)
        /\ pc = "baseline" =>
              \A d \in Present(plan) \cap Repairable : d \in left \/ Attempted(d)
        /\ InContingency =>
              \A d \in Present(plan) \cap Repairable : d \in batch \/ Attempted(d)
        /\ pc = "settle" /\ left # {} =>
              \A d \in Present(plan) \cap Repairable : d \in left \/ Attempted(d)

(* Every change stands in the ledger, and for every repairable defect in   *)
(* the ledger an attempt is on record.                                     *)
Entered  == plan.cut \subseteq ledger
Asking   == Enforced => \A d \in ledger \cap Repairable : Attempted(d)
Starting == pc = "plan" => plan = NoPlan /\ ledger = {}

AskInv == TypeInv /\ Candidates /\ Backed /\ Accounted /\ Entered /\ Asking /\ Starting

LEMMA AskInit == Init => AskInv
BY TypeInit DEF Init, AskInv, Candidates, Backed, Accounted, At, InPrimary, InContingency,
   Entered, Asking, Attempted, Starting, NoPlan, Answer

(* Nothing is replaced but what was asked about, if that holds of what the *)
(* compiler is told and of what else is wrong with the plan.               *)
LEMMA OnlyAsked ==
    ASSUME TypeInv, Enforced, NEW p \in Plans, NEW told \in SUBSET Defects,
           \A d \in told : Attempted(d),
           \A d \in Present(p) \cap Repairable : d \in told \/ Attempted(d)
    PROVE  \A d \in Explained(p, told) \cap Repairable : Attempted(d)
BY DEF Explained, Acted

LEMMA AuthorizedAttempted ==
    ASSUME NEW S, NEW p, Authorized(S, p)
    PROVE  \A d \in S : Attempted(d)
BY DEF Authorized, Evidenced, Attempted

LEMMA PlanAsk == ASSUME AskInv, Plan PROVE AskInv'
<1>1. TypeInv'
  BY PlanType DEF AskInv
<1>2. PICK p \in Proposals \cup Repetitions :
          /\ p[1] <= MaxAnswers
          /\ Propose(p[1], p[2])
          /\ \E deferred \in Deferrals(p[2]) :
                IF mode = "off"
                THEN pc' = "baseline" /\ UNCHANGED <<batch, over, left, cause>>
                ELSE FirstRound(p[2] \cup deferred)
  BY DEF Plan
<1>3. PICK deferred \in Deferrals(p[2]) :
                IF mode = "off"
                THEN pc' = "baseline" /\ UNCHANGED <<batch, over, left, cause>>
                ELSE FirstRound(p[2] \cup deferred)
  BY <1>2
<1>4. named \in Nat /\ MaxAnswers \in Nat /\ flaws \in [Names -> SUBSET Defects]
  BY BoundsAssumption DEF AskInv, TypeInv, TypeOK, Names
<1>5. p[1] \in Names
  BY <1>2, <1>4 DEF Proposals, Repetitions, Names
<1>6. plan' = Answer(p[1], {}) /\ flaws'[p[1]] = p[2]
  BY <1>2, <1>4, <1>5 DEF Propose
<1>7. Present(plan)' = p[2]
  BY <1>6 DEF Present, Answer
<1>8. pc = "plan" /\ ledger = {} /\ UNCHANGED <<config, calls, attempts, ledger>>
  BY DEF Plan, AskInv, Starting
<1>9. pc' \in {"primary", "baseline", "failed"}
  BY <1>3 DEF FirstRound, Request, Fail
<1>10. Accounted'
  <2> SUFFICES ASSUME Enforced PROVE Accounted'
    BY <1>8 DEF Accounted, Enforced, config
  <2>1. FirstRound(p[2] \cup deferred)
    BY <1>3 DEF Enforced
  <2>2. pc' = "primary" => Present(plan)' \subseteq batch' \cup over'
    BY <1>7, <2>1 DEF FirstRound, Request
  <2>3. pc' = "baseline" => \A d \in Present(plan)' \cap Repairable : d \in left'
    BY <1>7, <2>1 DEF FirstRound, Eligible, Request, Fail
  <2> QED
    BY <1>9, <2>2, <2>3 DEF Accounted, InPrimary, InContingency, At
<1>11. Entered' /\ Asking' /\ Starting'
  BY <1>6, <1>8, <1>9 DEF Entered, Asking, Starting, Answer
<1>12. Candidates' /\ Backed'
  BY <1>8 DEF AskInv, Candidates, Backed
<1> QED
  BY <1>1, <1>10, <1>11, <1>12 DEF AskInv

(* A round that ends leaves attempts for all that was in it, if its call   *)
(* went out, and its plan keeps no change that was not there.              *)
LEMMA RoundAsk ==
    ASSUME AskInv, TypeInv',
           NEW n \in 1..Len(calls), NEW stage \in {"primary", "contingency"},
           At(stage), calls[n].key.plan = plan, calls[n].key.batch = batch,
           Record(calls[n].out),
           \/ \E seen \in SUBSET Defects : Resolved(stage, calls[n].made, seen)
           \/ Unresolved(stage),
           UNCHANGED <<config, over, batch, calls, ledger>>
    PROVE  AskInv'
<1>1. plan \in Plans /\ calls[n] \in Calls /\ flaws \in [Names -> SUBSET Defects]
  BY DEF AskInv, TypeInv, TypeOK
<1>2. calls[n].made \in Plans /\ calls[n].made.ans \in Names
  BY <1>1 DEF Calls, Plans
<1>3. attempts \subseteq attempts'
  BY DEF Record
<1>4. \A d : Attempted(d) => Attempted(d)'
  BY <1>3 DEF Attempted
<1>5. Backed'
  BY DEF Record, AskInv, Backed
<1>6. Candidates'
  BY DEF AskInv, Candidates
<1>7. plan'.cut \subseteq plan.cut
  BY DEF Resolved, Unresolved, AskInv, Candidates
<1>8. Entered' /\ Asking'
  BY <1>4, <1>7 DEF AskInv, Entered, Asking, Enforced, config
<1>9. pc' = IF stage = "primary" THEN "baseline" ELSE "settle"
  BY DEF Resolved, Unresolved
<1>10. Accounted'
  <2> SUFFICES ASSUME Enforced PROVE Accounted'
    BY DEF Accounted, Enforced, config
  <2>1. stage = "primary" => \A d \in Present(plan)' \cap Repairable : d \in left'
    <3> SUFFICES ASSUME stage = "primary" PROVE Present(plan)' \subseteq left'
      OBVIOUS
    <3>1. CASE Unresolved(stage)
      BY <3>1 DEF Unresolved, Present, AskInv, Accounted, InPrimary
    <3>2. CASE \E seen \in SUBSET Defects : Resolved(stage, calls[n].made, seen)
      BY <1>1, <1>2, <3>2 DEF Resolved, Present
    <3> QED
      BY <3>1, <3>2
  <2>2. stage = "contingency" /\ left' # {} =>
            \A d \in Present(plan)' \cap Repairable : d \in left' \/ Attempted(d)'
    BY <1>4 DEF Resolved, Unresolved, Present, AskInv, Accounted, InContingency
  <2> QED
    BY <1>9, <2>1, <2>2 DEF Accounted, InPrimary, InContingency, At
<1>11. Starting'
  BY <1>9 DEF Starting
<1> QED
  BY <1>5, <1>6, <1>8, <1>10, <1>11 DEF AskInv

LEMMA TakeUpAsk == ASSUME AskInv, TakeUp PROVE AskInv'
<1>1. TypeInv'
  BY TakeUpType DEF AskInv
<1>2. PICK n \in Hits :
          /\ Record(calls[n].out)
          /\ IF calls[n].status = "repaired"
             THEN \E seen \in Reseen(calls[n].made.ans) :
                     StillGood(calls[n].made, seen) /\ Resolved(pc, calls[n].made, seen)
             ELSE Unresolved(pc)
  BY DEF TakeUp
<1>3. n \in 1..Len(calls) /\ calls[n].key.plan = plan /\ calls[n].key.batch = batch
  BY <1>2 DEF Hits, Key, AskInv, TypeInv, TypeOK
<1>4. pc \in {"primary", "contingency"} /\ At(pc)
  BY DEF TakeUp, At
<1>5. \/ \E seen \in SUBSET Defects : Resolved(pc, calls[n].made, seen)
      \/ Unresolved(pc)
  BY <1>2 DEF Reseen, Sights
<1> QED
  BY <1>1, <1>2, <1>3, <1>4, <1>5, RoundAsk DEF TakeUp

LEMMA SaveAsk == ASSUME AskInv, Save PROVE AskInv'
<1>1. TypeInv'
  BY SaveType DEF AskInv
<1>2. call \in 1..Len(calls) /\ calls[call].key.plan = plan /\ calls[call].key.batch = batch
  BY DEF Save, AskInv, TypeInv, Saving
<1>3. calls[call] \in Calls
  BY <1>2 DEF AskInv, TypeInv, TypeOK
<1>4. calls[call].key.stage \in {"primary", "contingency"} /\ At(calls[call].key.stage)
  BY <1>3 DEF Calls, Keys, Save, At
<1>5. /\ Record(calls[call].out)
      /\ \/ \E seen \in SUBSET Defects : Resolved(calls[call].key.stage, calls[call].made, seen)
         \/ Unresolved(calls[call].key.stage)
  BY DEF Save
<1> QED
  BY <1>1, <1>2, <1>4, <1>5, RoundAsk DEF Save

(* A call that goes out is about the plan and the findings at hand.        *)
LEMMA CalledAsk ==
    ASSUME AskInv, TypeInv', pc \in {"primary", "contingency"},
           NEW status \in {"repaired", "rejected", "failed", "report_only"},
           NEW out \in BOOLEAN, NEW made \in Plans, Called(status, out, made),
           made.cut \subseteq plan.cut, ~made.bare, ~made.minimal,
           UNCHANGED <<config, flaws, plan, batch, over, left, attempts, ledger>>
    PROVE  AskInv'
<1>1. /\ Len(calls') = Len(calls) + 1 /\ call' = Len(calls') /\ pc' = "save"
      /\ \A n \in 1..Len(calls) : calls'[n] = calls[n]
      /\ calls'[call'] = [key |-> Key, status |-> status, out |-> out, made |-> made]
  BY CalledType DEF AskInv
<1>2. Len(calls) \in Nat
  BY DEF AskInv, TypeInv, TypeOK
<1>3. calls'[call'].key.stage = pc /\ calls'[call'].key.plan = plan /\ calls'[call'].made = made
  BY <1>1 DEF Key
<1>4. \A n \in 1..Len(calls') : n \in 1..Len(calls) \/ n = call'
  BY <1>1, <1>2
<1>5. Candidates'
  BY <1>1, <1>3, <1>4 DEF AskInv, Candidates
<1>6. Backed'
  BY <1>1, <1>2 DEF AskInv, Backed
<1>7. Accounted'
  BY <1>1, <1>3 DEF AskInv, Accounted, InPrimary, InContingency, At, Present, Attempted,
                    Enforced, config
<1>8. Entered' /\ Asking' /\ Starting'
  BY <1>1 DEF AskInv, Entered, Asking, Starting, Attempted, Enforced, config
<1> QED
  BY <1>5, <1>6, <1>7, <1>8 DEF AskInv

LEMMA AskAsk == ASSUME AskInv, AskRepaired \/ AskInVain \/ ReportOnly PROVE AskInv'
<1>1. TypeInv'
  BY AskType DEF AskInv
<1>2. NoPlan \in Plans /\ NoPlan.cut = {} /\ ~NoPlan.bare /\ ~NoPlan.minimal
  BY NoPlanType DEF NoPlan, Answer
<1>3. CASE AskRepaired
  <2>1. PICK keep \in SUBSET plan.cut : Called("repaired", TRUE, Answer(named + 1, keep))
    BY <1>3 DEF AskRepaired, Merged
  <2>2. named + 1 \in Names /\ keep \in SUBSET Defects
    BY <1>3, BoundsAssumption DEF AskRepaired, Names, AskInv, TypeInv, TypeOK, Plans
  <2>3. Answer(named + 1, keep) \in Plans
    BY <2>2, AnswerType
  <2>4. LET made == Answer(named + 1, keep)
        IN  made.cut \subseteq plan.cut /\ ~made.bare /\ ~made.minimal
    BY DEF Answer
  <2> QED
    BY <1>1, <1>3, <2>1, <2>3, <2>4, CalledAsk DEF AskRepaired
<1>4. CASE AskInVain
  <2>1. PICK status \in {"rejected", "failed"}, out \in BOOLEAN : Called(status, out, NoPlan)
    BY <1>4 DEF AskInVain
  <2> QED
    BY <1>1, <1>2, <1>4, <2>1, CalledAsk DEF AskInVain
<1>5. CASE ReportOnly
  BY <1>1, <1>2, <1>5, CalledAsk DEF ReportOnly
<1> QED
  BY <1>3, <1>4, <1>5

LEMMA BaselineAsk == ASSUME AskInv, Baseline PROVE AskInv'
<1> DEFINE told == IF Enforced THEN left ELSE {}
<1> DEFINE next == Compiled(plan, told)
<1>1. TypeInv'
  BY BaselineType DEF AskInv
<1>2. plan \in Plans /\ told \in SUBSET Defects
  BY DEF AskInv, TypeInv, TypeOK
<1>3. /\ next.cut = plan.cut \cup Acted(plan, told) /\ next \in Plans
      /\ Acted(plan, told) \subseteq Explained(plan, told)
  <2>1. TypeOK
    BY DEF AskInv, TypeInv
  <2>2. next \in Plans
    BY <1>2, <2>1, CompiledType
  <2> QED
    BY <2>2 DEF Compiled, Explained
<1>4. pc = "baseline" /\ UNCHANGED <<config, flaws, calls, attempts>>
  BY DEF Baseline
<1>5. CASE pc' \in {"check", "failed"} /\ UNCHANGED <<plan, ledger>>
  BY <1>1, <1>4, <1>5 DEF AskInv, Candidates, Backed, Accounted, InPrimary, InContingency, At,
       Entered, Asking, Attempted, Enforced, config, Starting
<1>6. CASE /\ plan' = next /\ ledger' = ledger \cup Explained(plan, told)
           /\ Enforced => Authorized(left, Primary)
           /\ \/ pc' \in {"check", "failed"}
              \/ batch' = Late(next) /\ pc' = "contingency"
  <2>1. Candidates' /\ Backed'
    BY <1>4 DEF AskInv, Candidates, Backed
  <2>2. Entered'
    BY <1>3, <1>6 DEF AskInv, Entered
  <2>3. Asking'
    <3> SUFFICES ASSUME Enforced PROVE Asking'
      BY <1>4 DEF Asking, Enforced, config
    <3>1. \A d \in told : Attempted(d)
      BY <1>6, AuthorizedAttempted
    <3>2. \A d \in Present(plan) \cap Repairable : d \in told \/ Attempted(d)
      BY <1>4 DEF AskInv, Accounted
    <3>3. \A d \in Explained(plan, told) \cap Repairable : Attempted(d)
      BY <1>2, <3>1, <3>2, OnlyAsked DEF AskInv
    <3> QED
      BY <1>4, <1>6, <3>3 DEF AskInv, Asking, Attempted
  <2>4. pc' = "contingency" => \A d \in Present(plan)' \cap Repairable : d \in batch' \/ Attempted(d)'
    <3> SUFFICES ASSUME pc' = "contingency"
                 PROVE  \A d \in Present(plan)' \cap Repairable : d \in batch' \/ Attempted(d)'
      OBVIOUS
    <3>1. batch' = Late(next)
      BY <1>6
    <3>2. Present(plan)' = Present(next)
      BY <1>4, <1>6 DEF Present
    <3>3. \A d \in Present(next) \cap Repairable : d \in Late(next) \/ Attempted(d)
      BY <1>3, FindingsType DEF Late, AskInv, TypeInv
    <3> QED
      BY <1>4, <3>1, <3>2, <3>3 DEF Attempted
  <2>5. Accounted' /\ Starting'
    BY <1>6, <2>4 DEF Accounted, InPrimary, InContingency, At, Starting
  <2> QED
    BY <1>1, <2>1, <2>2, <2>3, <2>5 DEF AskInv
<1> QED
  BY <1>5, <1>6 DEF Baseline, Contingency, Request, Fail

LEMMA SettleAsk == ASSUME AskInv, Settle PROVE AskInv'
<1>1. TypeInv'
  BY SettleType DEF AskInv
<1>2. plan \in Plans /\ left \in SUBSET Defects
  BY DEF AskInv, TypeInv, TypeOK
<1>3. /\ Compiled(plan, left).cut = plan.cut \cup Acted(plan, left)
      /\ Acted(plan, left) \subseteq Explained(plan, left)
  BY DEF Compiled, Explained
<1>4. pc = "settle" /\ pc' \in {"check", "failed"} /\ UNCHANGED <<config, flaws, calls, attempts>>
  BY DEF Settle, Fail
<1>5. CASE UNCHANGED <<plan, ledger>>
  BY <1>1, <1>4, <1>5 DEF AskInv, Candidates, Backed, Accounted, InPrimary, InContingency, At,
       Entered, Asking, Attempted, Enforced, config, Starting
<1>6. CASE /\ plan' = Compiled(plan, left) /\ ledger' = ledger \cup Explained(plan, left)
           /\ left # {} /\ Authorized(left, plan)
  <2>1. Candidates' /\ Backed' /\ Starting' /\ Accounted'
    BY <1>4 DEF AskInv, Candidates, Backed, Starting, Accounted, InPrimary, InContingency, At
  <2>2. Entered'
    BY <1>3, <1>6 DEF AskInv, Entered
  <2>3. Asking'
    <3> SUFFICES ASSUME Enforced PROVE Asking'
      BY <1>4 DEF Asking, Enforced, config
    <3>1. \A d \in left : Attempted(d)
      BY <1>6, AuthorizedAttempted
    <3>2. \A d \in Present(plan) \cap Repairable : d \in left \/ Attempted(d)
      BY <1>4, <1>6 DEF AskInv, Accounted
    <3>3. \A d \in Explained(plan, left) \cap Repairable : Attempted(d)
      BY <1>2, <3>1, <3>2, OnlyAsked DEF AskInv
    <3> QED
      BY <1>4, <1>6, <3>3 DEF AskInv, Asking, Attempted
  <2> QED
    BY <1>1, <2>1, <2>2, <2>3 DEF AskInv
<1> QED
  BY <1>5, <1>6 DEF Settle

(* From the check on only entries that are no defects are added.           *)
LEMMA BehindAsk ==
    ASSUME AskInv, TypeInv', pc' \in Behind,
           plan'.cut = plan.cut, ledger \subseteq ledger', ledger' \subseteq ledger \cup Tokens,
           UNCHANGED <<config, flaws, calls, attempts>>
    PROVE  AskInv'
<1>1. Repairable \cap Tokens = {}
  BY DefectsAssumption DEF Tokens
<1>2. Candidates' /\ Backed'
  BY DEF AskInv, Candidates, Backed
<1>3. Entered' /\ Asking'
  BY <1>1 DEF AskInv, Entered, Asking, Attempted, Enforced, config
<1>4. Accounted' /\ Starting'
  BY DEF Behind, Accounted, InPrimary, InContingency, At, Starting
<1> QED
  BY <1>2, <1>3, <1>4 DEF AskInv

LEMMA LateAsk ==
    ASSUME AskInv, Check \/ Assets \/ AssetsFail \/ FFmpegAccepts \/ Minimal \/ Render \/ Effects
    PROVE  AskInv'
<1>1. TypeInv'
  BY CheckType, AssetsType, PlainType, MinimalType, EffectsType DEF AskInv
<1>2. pc' \in Behind /\ UNCHANGED <<config, flaws, calls, attempts>>
  BY DEF Check, Assets, AssetsFail, FFmpegAccepts, Minimal, Render, Effects, Fail, Behind
<1>3. plan'.cut = plan.cut
  BY DEF Check, Assets, AssetsFail, FFmpegAccepts, Minimal, Render, Effects, AskInv, TypeInv,
         TypeOK, Plans
<1>4. ledger \subseteq ledger' /\ ledger' \subseteq ledger \cup Tokens
  BY DEF Check, Assets, AssetsFail, FFmpegAccepts, Minimal, Render, Effects, Tokens
<1> QED
  BY <1>1, <1>2, <1>3, <1>4, BehindAsk

LEMMA CrashAsk == ASSUME AskInv, Crash PROVE AskInv'
<1>1. TypeInv'
  BY CrashType DEF AskInv
<1> QED
  BY <1>1 DEF Crash, AskInv, Candidates, Backed, Accounted, InPrimary, InContingency, At,
              Entered, Asking, Starting, NoPlan, Answer

LEMMA SpoilAsk == ASSUME AskInv, Spoil PROVE AskInv'
<1>1. TypeInv'
  BY SpoilType DEF AskInv
<1> QED
  BY <1>1 DEF Spoil, AskInv, Candidates, Backed, Accounted, InPrimary, InContingency, At, Present,
              Entered, Asking, Attempted, Starting, Enforced, config

LEMMA AskNext == ASSUME AskInv, [Next]_vars PROVE AskInv'
<1>1. CASE Next
  BY <1>1, PlanAsk, TakeUpAsk, AskAsk, SaveAsk, BaselineAsk, SettleAsk, LateAsk, CrashAsk,
     SpoilAsk DEF Next
<1>2. CASE UNCHANGED vars
  <2>1. TypeInv'
    BY <1>2, TypeNext DEF AskInv
  <2> QED
    BY <1>2, <2>1 DEF vars, config, AskInv, Candidates, Backed, Accounted, InPrimary,
         InContingency, At, Present, Entered, Asking, Attempted, Starting, Enforced
<1> QED
  BY <1>1, <1>2

(* No deterministic fallback stands for a repairable defect that no call   *)
(* of this job was about: for every set of defects, every answer of the    *)
(* provider, every restart and every checkpoint that is kept, lost or      *)
(* spoilt.                                                                 *)
THEOREM FallbacksWereAsked == Spec => []FallbackWasAsked
<1>1. Spec => []AskInv
  BY AskInit, AskNext, PTL DEF Spec
<1>2. AskInv => FallbackWasAsked
  <2> SUFFICES ASSUME AskInv, Enforced, NEW d \in (ledger \cup plan.cut) \cap Repairable
               PROVE  /\ d \in Report(ledger \cup plan.cut).authorized
                      /\ \E n \in 1..Len(calls) : calls[n].out /\ d \in calls[n].key.batch
    BY DEF FallbackWasAsked
  <2>1. d \in Defects
    BY DefectsAssumption
  <2>2. Attempted(d)
    BY DEF AskInv, Asking, Entered
  <2> QED
    BY <2>1, <2>2 DEF Report, Attested, AttemptLedger, Attempted, AskInv, Backed
<1> QED
  BY <1>1, <1>2, PTL

-----------------------------------------------------------------------------
(* What was changed in the plan is entered at once, and files and state    *)
(* agree from their first writing on.                                      *)
Written == {"preflight", "render", "effects", "done"}

Listed ==
    /\ plan.bare => "assets" \in ledger
    /\ plan.minimal => "minimal" \in ledger
    /\ pc \in Written \cup {"assets"} /\ Unmet(plan) # {} => "intent" \in ledger
    /\ pc \in Written => disk = [plan |-> plan, ledger |-> ledger]

(* What passed the rounds was asked about, but for the last fallback.      *)
Looked ==
    pc \in Written \cup {"check", "assets"} /\ Enforced /\ Guaranteed =>
        \A d \in Findings(plan) \cap Repairable : Attempted(d) \/ LastFallback

FileInv == AskInv /\ Listed /\ Looked

LEMMA FileInit == Init => FileInv
BY AskInit DEF Init, FileInv, Listed, Looked, Written, NoPlan, Answer

(* Before the check only the flags of the plan matter.                     *)
LEMMA EarlyFile ==
    ASSUME FileInv, AskInv', pc' \notin Written \cup {"check", "assets"},
           plan'.bare => plan.bare, plan'.minimal => plan.minimal, ledger \subseteq ledger'
    PROVE  FileInv'
BY DEF FileInv, Listed, Looked

LEMMA PlanFile == ASSUME FileInv, Plan PROVE FileInv'
<1>1. AskInv'
  BY PlanAsk DEF FileInv
<1>2. /\ ~plan'.bare /\ ~plan'.minimal
      /\ pc' \in {"primary", "baseline", "failed"} /\ ledger' = ledger
  <2>1. ~plan'.bare /\ ~plan'.minimal /\ ledger' = ledger
    BY DEF Plan, Propose, Answer
  <2>2. pc' = "baseline" \/ \E F : FirstRound(F)
    BY DEF Plan
  <2>3. pc' \in {"primary", "baseline", "failed"}
    BY <2>2 DEF FirstRound, Request, Fail
  <2> QED
    BY <2>1, <2>3
<1> QED
  BY <1>1, <1>2, EarlyFile DEF Written

LEMMA RoundFile == ASSUME FileInv, TakeUp \/ Save PROVE FileInv'
<1>1. AskInv'
  BY TakeUpAsk, SaveAsk DEF FileInv
<1>2. PICK n \in 1..Len(calls), stage \in {"primary", "contingency"} :
          \/ \E seen : Resolved(stage, calls[n].made, seen)
          \/ Unresolved(stage)
  <2>1. CASE TakeUp
    BY <2>1 DEF TakeUp, Hits, FileInv, AskInv, TypeInv, TypeOK
  <2>2. CASE Save
    <3>1. call \in 1..Len(calls)
      BY <2>2 DEF Save, FileInv, AskInv, TypeInv, Saving
    <3>2. calls[call] \in Calls
      BY <3>1 DEF FileInv, AskInv, TypeInv, TypeOK
    <3>3. calls[call].key.stage \in {"primary", "contingency"}
      BY <3>2 DEF Calls, Keys
    <3> QED
      BY <2>2, <3>1, <3>3 DEF Save
  <2> QED
    BY <2>1, <2>2
<1>3. /\ plan'.bare => plan.bare
      /\ plan'.minimal => plan.minimal
      /\ pc' \in {"baseline", "settle"} /\ ledger' = ledger
  BY <1>2 DEF Resolved, Unresolved, FileInv, AskInv, Candidates, TakeUp, Save
<1> QED
  BY <1>1, <1>3, EarlyFile DEF Written

LEMMA CallFile == ASSUME FileInv, AskRepaired \/ AskInVain \/ ReportOnly PROVE FileInv'
<1>1. AskInv'
  BY AskAsk DEF FileInv
<1>2. pc' = "save" /\ plan' = plan /\ ledger' = ledger
  BY DEF AskRepaired, AskInVain, ReportOnly, Called
<1> QED
  BY <1>1, <1>2, EarlyFile DEF Written

LEMMA BaselineFile == ASSUME FileInv, Baseline PROVE FileInv'
<1> DEFINE told == IF Enforced THEN left ELSE {}
<1> DEFINE next == Compiled(plan, told)
<1>1. AskInv'
  BY BaselineAsk DEF FileInv
<1>2. plan'.bare = plan.bare /\ plan'.minimal = plan.minimal /\ ledger \subseteq ledger'
  <2>1. plan' \in {plan, next}
    BY DEF Baseline, Contingency, Request
  <2>2. ledger' \in {ledger, ledger \cup Explained(plan, told)}
    BY DEF Baseline, Contingency, Request
  <2> HIDE DEF told
  <2> QED
    BY <2>1, <2>2 DEF Compiled
<1>3. pc' \in {"check", "failed", "contingency"}
  BY DEF Baseline, Contingency, Request, Fail
<1>4. Listed'
  BY <1>2, <1>3 DEF FileInv, Listed, Written
<1>5. Looked'
  <2> SUFFICES ASSUME pc' = "check", Enforced, Guaranteed
               PROVE  \A d \in Findings(plan)' \cap Repairable : Attempted(d)'
    BY <1>3 DEF Looked, Written, Enforced, Guaranteed, Baseline, config
  <2>1. plan' = next /\ Late(next) = {} /\ attempts' = attempts /\ flaws' = flaws
    BY DEF Baseline, Contingency, Request, Fail
  <2>2. Findings(plan)' = Findings(next)
    BY <2>1 DEF Findings, Preflight, Uncovered, Predicted, Unmet, Present
  <2> QED
    BY <2>1, <2>2 DEF Late, Attempted
<1> QED
  BY <1>1, <1>4, <1>5 DEF FileInv

LEMMA SettleFile == ASSUME FileInv, Settle PROVE FileInv'
<1> DEFINE next == IF left = {} THEN plan ELSE Compiled(plan, left)
<1>1. AskInv'
  BY SettleAsk DEF FileInv
<1>2. plan'.bare = plan.bare /\ plan'.minimal = plan.minimal /\ ledger \subseteq ledger'
  <2>1. plan' \in {plan, Compiled(plan, left)}
    BY DEF Settle
  <2>2. ledger' \in {ledger, ledger \cup Explained(plan, left)}
    BY DEF Settle
  <2> QED
    BY <2>1, <2>2 DEF Compiled
<1>3. pc' \in {"check", "failed"}
  BY DEF Settle, Fail
<1>4. Listed'
  BY <1>2, <1>3 DEF FileInv, Listed, Written
<1>5. Looked'
  <2> SUFFICES ASSUME pc' = "check"
               PROVE  \A d \in Findings(plan)' \cap Repairable : Attempted(d)' \/ LastFallback'
    BY <1>3 DEF Looked, Written
  <2>1. /\ plan' = next /\ (Late(next) = {} \/ rounds # 2)
        /\ UNCHANGED <<attempts, flaws, rounds, call, calls>>
    BY DEF Settle, Fail
  <2>2. Findings(plan)' = Findings(next)
    BY <2>1 DEF Findings, Preflight, Uncovered, Predicted, Unmet, Present
  <2>3. CASE Late(next) = {}
    BY <2>1, <2>2, <2>3 DEF Late, Attempted
  <2>4. CASE rounds # 2
    <3>1. rounds \in 0..2 /\ call \in 1..Len(calls) /\ calls[call].key.stage = "contingency"
      BY DEF Settle, FileInv, AskInv, TypeInv, TypeOK, Settling
    <3> QED
      BY <2>1, <2>4, <3>1 DEF LastFallback
  <2> QED
    BY <2>1, <2>3, <2>4
<1> QED
  BY <1>1, <1>4, <1>5 DEF FileInv

(* The flags and the files change nothing that a check would find.         *)
LEMMA SameFindings ==
    ASSUME TypeOK, plan'.ans = plan.ans, plan'.cut = plan.cut, plan'.bad = plan.bad, flaws' = flaws
    PROVE  Findings(plan)' = Findings(plan) /\ Unmet(plan)' = Unmet(plan)
BY DEF Findings, Preflight, Uncovered, Predicted, Unmet, Present

LEMMA LateFile ==
    ASSUME FileInv, Check \/ Assets \/ AssetsFail \/ FFmpegAccepts \/ Minimal \/ Render \/ Effects
    PROVE  FileInv'
<1>1. AskInv'
  BY LateAsk DEF FileInv
<1>2. plan \in Plans /\ disk \in [plan : Plans, ledger : SUBSET Entries]
  BY DEF FileInv, AskInv, TypeInv, TypeOK
<1>3. /\ plan'.ans = plan.ans /\ plan'.cut = plan.cut /\ plan'.bad = plan.bad
      /\ UNCHANGED <<config, flaws, attempts, rounds, call, calls>>
  BY <1>2 DEF Check, Assets, AssetsFail, FFmpegAccepts, Minimal, Render, Effects, Plans
<1>4. Findings(plan)' = Findings(plan) /\ Unmet(plan)' = Unmet(plan)
  BY <1>3, SameFindings DEF FileInv, AskInv, TypeInv
<1>5. pc \in Written \cup {"check", "assets"}
  BY DEF Check, Assets, AssetsFail, FFmpegAccepts, Minimal, Render, Effects, Written
<1>6. Looked'
  BY <1>3, <1>4, <1>5 DEF FileInv, Looked, Attempted, LastFallback, Enforced, Guaranteed, config
<1>7. Listed'
  <2>1. CASE Check
    BY <1>4, <2>1 DEF Check, Fail, FileInv, Listed, Written
  <2>2. CASE Assets
    BY <1>2, <1>4, <2>2 DEF Assets, Write, FileInv, Listed, Written, Plans
  <2>3. CASE AssetsFail \/ FFmpegAccepts \/ Render
    BY <1>4, <2>3 DEF AssetsFail, FFmpegAccepts, Render, Fail, FileInv, Listed, Written
  <2>4. CASE Minimal
    BY <1>2, <1>4, <2>4 DEF Minimal, Write, Fail, FileInv, Listed, Written, Plans
  <2>5. CASE Effects
    BY <1>2, <1>4, <2>5 DEF Effects, FileInv, Listed, Written
  <2> QED
    BY <2>1, <2>2, <2>3, <2>4, <2>5
<1> QED
  BY <1>1, <1>6, <1>7 DEF FileInv

LEMMA BreakFile == ASSUME FileInv, Crash \/ Spoil PROVE FileInv'
<1>1. AskInv'
  BY CrashAsk, SpoilAsk DEF FileInv
<1>2. CASE Crash
  BY <1>1, <1>2 DEF Crash, FileInv, Listed, Looked, Written, NoPlan, Answer
<1>3. CASE Spoil
  BY <1>1, <1>3, EarlyFile DEF Spoil, Written
<1> QED
  BY <1>2, <1>3

LEMMA FileNext == ASSUME FileInv, [Next]_vars PROVE FileInv'
<1>1. CASE Next
  BY <1>1, PlanFile, RoundFile, CallFile, BaselineFile, SettleFile, LateFile, BreakFile DEF Next
<1>2. CASE UNCHANGED vars
  <2>1. AskInv'
    BY <1>2, AskNext DEF FileInv
  <2>2. Findings(plan)' = Findings(plan) /\ Unmet(plan)' = Unmet(plan)
    BY <1>2 DEF vars, Findings, Preflight, Uncovered, Predicted, Unmet, Present
  <2> QED
    BY <1>2, <2>1, <2>2 DEF vars, config, FileInv, Listed, Looked, Attempted, LastFallback,
                             Enforced, Guaranteed
<1> QED
  BY <1>1, <1>2

(* The ledger on disk names every change of the plan that is rendered,     *)
(* which is the plan on disk, for every sequence of fallbacks.             *)
THEOREM LedgersExplain == Spec => []LedgerExplains
<1>1. Spec => []FileInv
  BY FileInit, FileNext, PTL DEF Spec
<1>2. FileInv => LedgerExplains
  BY DEF FileInv, Listed, Written, AskInv, Entered, LedgerExplains, Rendering
<1> QED
  BY <1>1, <1>2, PTL

(* Nothing is rendered that no round was about, but for what the fallback  *)
(* after the only round brings along.                                      *)
THEOREM NothingSlipsPast == Spec => []RenderedWasAsked
<1>1. Spec => []FileInv
  BY FileInit, FileNext, PTL DEF Spec
<1>2. FileInv => RenderedWasAsked
  BY DEF FileInv, Looked, Written, RenderedWasAsked, Rendering
<1> QED
  BY <1>1, <1>2, PTL

-----------------------------------------------------------------------------
(* Why a guaranteed baseline holds. Without a restart there is no call yet *)
(* that the primary round could take up, which is about the plan as the    *)
(* editor proposed it; candidates come without changes of their own.       *)
Undisturbed == /\ over = {} /\ restarts = MaxRestarts
               /\ \A n \in 1..Len(calls) : calls[n].out
Unused   == /\ restarts <= MaxRestarts
            /\ (restarts = MaxRestarts /\ pc \in {"plan", "primary"}) => calls = <<>>
Proposed == (Enforced /\ InPrimary) => plan = Primary
Whole    == \A n \in 1..Len(calls) : calls[n].made.bad = {}

(* Crops without evidence that the compiler removes are in the round, and  *)
(* gone once it has been told.                                             *)
Mended(p) == Uncovered(p) \cap Cured = {}
Covered ==
    Enforced =>
        /\ pc = "baseline" => (Uncovered(plan) \cap Cured) \subseteq left
        /\ (Guaranteed /\ (InContingency \/ pc \in {"settle", "check"})) => Mended(plan)

(* What is unresolved was asked about, undisturbed.                        *)
Supported ==
    (Enforced /\ Undisturbed) =>
        /\ pc = "baseline" => Authorized(left, Primary)
        /\ pc = "settle" => Authorized(left, plan)

Stopped == cause # "none" => pc = "failed"

HoldInv == AskInv /\ Unused /\ Proposed /\ Whole /\ Covered /\ Supported
           /\ Stopped /\ BaselineHolds

LEMMA HoldInit == Init => HoldInv
<1> SUFFICES ASSUME Init PROVE HoldInv
  OBVIOUS
<1>1. AskInv /\ restarts = MaxRestarts /\ MaxRestarts \in Nat
  BY AskInit, BoundsAssumption DEF Init
<1>2. Unused /\ Proposed /\ Whole /\ Covered /\ Supported /\ Stopped
  BY <1>1 DEF Init, Unused, Proposed, Whole, Covered, Supported, Stopped, InPrimary,
              InContingency, At
<1>3. BaselineHolds
  BY DEF Init, BaselineHolds
<1> QED
  BY <1>1, <1>2, <1>3 DEF HoldInv

(* The compiler's changes bring no crop without evidence along.            *)
LEMMA CompiledUncovered ==
    ASSUME TypeInv, NEW p \in Plans, NEW told \in SUBSET Defects
    PROVE  Uncovered(Compiled(p, told)) \subseteq Uncovered(p) \ Acted(p, told)
<1> SUFFICES ASSUME NEW d \in Uncovered(Compiled(p, told))
             PROVE  d \in Uncovered(p) /\ d \notin Acted(p, told)
  OBVIOUS
<1>1. /\ d \in flaws[p.ans] \cup p.bad \cup Exposed(Acted(p, told))
      /\ d \notin p.cut /\ d \notin Acted(p, told) /\ Kind[d] = "coverage"
  BY DEF Uncovered, Present, Compiled
<1>2. Acted(p, told) \subseteq Defects
  BY ActedType DEF TypeInv
<1>3. d \notin Exposed(Acted(p, told))
  BY <1>1, <1>2, DefectsAssumption DEF Exposed
<1> QED
  BY <1>1, <1>3 DEF Uncovered, Present

(* The steps that leave the causes, and what excuses them, alone.          *)
LEMMA Excused ==
    ASSUME BaselineHolds, cause' = cause, plan' = plan,
           UNCHANGED <<config, flaws, over, restarts>>,
           \A n \in 1..Len(calls) : n \in 1..Len(calls') /\ calls'[n] = calls[n]
    PROVE  BaselineHolds'
BY DEF BaselineHolds, Enforced, Guaranteed, config, Uncovered, Present

LEMMA NoCause ==
    ASSUME cause' = "none" PROVE BaselineHolds' /\ Stopped'
BY DEF BaselineHolds, Stopped

LEMMA OtherCause ==
    ASSUME cause' \notin {"unattempted", "coverage", "intent"} PROVE BaselineHolds'
BY DEF BaselineHolds

LEMMA Running ==
    ASSUME HoldInv, pc # "failed" PROVE cause = "none"
BY DEF HoldInv, Stopped

LEMMA PlanHold == ASSUME HoldInv, Plan PROVE HoldInv'
<1>1. AskInv'
  BY PlanAsk DEF HoldInv
<1>2. PICK p \in Proposals \cup Repetitions :
          /\ p[1] <= MaxAnswers
          /\ Propose(p[1], p[2])
          /\ \E deferred \in Deferrals(p[2]) :
                IF mode = "off"
                THEN pc' = "baseline" /\ UNCHANGED <<batch, over, left, cause>>
                ELSE FirstRound(p[2] \cup deferred)
  BY DEF Plan
<1>3. PICK deferred \in Deferrals(p[2]) :
                IF mode = "off"
                THEN pc' = "baseline" /\ UNCHANGED <<batch, over, left, cause>>
                ELSE FirstRound(p[2] \cup deferred)
  BY <1>2
<1>4. named \in Nat /\ MaxAnswers \in Nat /\ flaws \in [Names -> SUBSET Defects]
  BY BoundsAssumption DEF HoldInv, AskInv, TypeInv, TypeOK, Names
<1>5. p[1] \in Names
  BY <1>2, <1>4 DEF Proposals, Repetitions, Names
<1>6. plan' = Answer(p[1], {}) /\ first' = p[1] /\ flaws'[p[1]] = p[2]
  BY <1>2, <1>4, <1>5 DEF Propose
<1>7. Present(plan)' = p[2] /\ plan' = Primary'
  BY <1>6 DEF Present, Answer, Primary
<1>8. pc = "plan" /\ UNCHANGED <<config, calls, restarts>>
  BY DEF Plan
<1>9. /\ pc' \in {"primary", "baseline", "failed"}
      /\ \/ cause' = cause
         \/ cause' = "round too large" /\ pc' = "failed"
  BY <1>3 DEF FirstRound, Request, Fail
<1>10. Unused' /\ Proposed' /\ Whole'
  BY <1>7, <1>8 DEF HoldInv, Unused, Proposed, Whole
<1>11. BaselineHolds' /\ Stopped'
  BY <1>8, <1>9, Running, NoCause, OtherCause DEF Stopped
<1>12. ASSUME Enforced, pc' = "baseline"
       PROVE  left' = over' /\ (Uncovered(plan)' \cap Cured) \subseteq left'
  <2>1. FirstRound(p[2] \cup deferred)
    BY <1>3, <1>12 DEF Enforced
  <2>2. /\ left' = over' /\ over' = (p[2] \cup deferred) \ Selected(p[2] \cup deferred)
        /\ Eligible(Selected(p[2] \cup deferred)) = {}
    BY <1>12, <2>1 DEF FirstRound, Request, Fail
  <2>3. Uncovered(plan)' \subseteq p[2]
    BY <1>7 DEF Uncovered
  <2> QED
    BY <2>2, <2>3, DefectsAssumption DEF Eligible
<1>13. Covered' /\ Supported'
  BY <1>8, <1>9, <1>12 DEF Covered, Supported, Undisturbed, Authorized, InContingency, At,
                           Enforced, config
<1> QED
  BY <1>1, <1>10, <1>11, <1>13 DEF HoldInv

(* A round that ends: its findings were asked about if its call went out.  *)
LEMMA RoundHold ==
    ASSUME HoldInv, AskInv', NEW n \in 1..Len(calls), NEW stage \in {"primary", "contingency"},
           At(stage), Record(calls[n].out),
           \/ /\ Unresolved(stage)
              /\ (Enforced /\ Undisturbed /\ stage = "primary") => batch \cup over = batch
           \/ \E seen \in SUBSET Defects :
                 /\ Resolved(stage, calls[n].made, seen)
                 /\ stage = "contingency" => Flawless(calls[n].made, seen)
                 /\ (Enforced /\ Undisturbed /\ stage = "primary") => seen = {},
           UNCHANGED <<config, first, over, batch, calls, cause, restarts>>
    PROVE  HoldInv'
<1>1. /\ plan \in Plans /\ calls[n] \in Calls /\ flaws \in [Names -> SUBSET Defects]
      /\ pc \in {"primary", "contingency", "save"}
  BY DEF HoldInv, AskInv, TypeInv, TypeOK, At
<1>2. calls[n].made \in Plans /\ calls[n].made.ans \in Names /\ calls[n].made.bad = {}
  BY <1>1 DEF Calls, Plans, HoldInv, Whole
<1>3. pc' = IF stage = "primary" THEN "baseline" ELSE "settle"
  BY DEF Resolved, Unresolved
<1>4. BaselineHolds' /\ Stopped'
  BY <1>1, Running, NoCause
<1>5. Unused' /\ Proposed' /\ Whole'
  BY <1>3 DEF HoldInv, Unused, Proposed, Whole, InPrimary, At
<1>6. Undisturbed' <=> Undisturbed
  BY DEF Undisturbed
<1>7. CASE Unresolved(stage)
  <2>1. plan' = plan /\ flaws' = flaws
    BY <1>7 DEF Unresolved
  <2>2. Covered'
    <3>1. stage = "primary" /\ Enforced => (Uncovered(plan)' \cap Cured) \subseteq left'
      BY <1>7, <2>1 DEF Unresolved, Uncovered, Present, HoldInv, AskInv, Accounted, InPrimary
    <3>2. stage = "contingency" /\ Enforced /\ Guaranteed => Mended(plan)'
      BY <2>1 DEF HoldInv, Covered, InContingency, Mended, Uncovered, Present
    <3> QED
      BY <1>3, <3>1, <3>2 DEF Covered, InContingency, At, Enforced, Guaranteed, config
  <2>3. Supported'
    <3>1. ASSUME Enforced, Undisturbed
          PROVE  \A d \in left' : [plan |-> plan, defect |-> d] \in attempts'
      <4>1. calls[n].out /\ left' = batch
        BY <1>7, <3>1 DEF Undisturbed, Unresolved
      <4> QED
        BY <4>1 DEF Record
    <3>2. stage = "primary" /\ Enforced => plan = Primary /\ Primary' = Primary
      BY DEF HoldInv, Proposed, InPrimary, Primary
    <3> QED
      BY <1>3, <1>6, <2>1, <3>1, <3>2
         DEF Supported, Authorized, Evidenced, Enforced, config
  <2> QED
    BY <1>4, <1>5, <2>2, <2>3 DEF HoldInv
<1>8. ASSUME NEW seen \in SUBSET Defects, Resolved(stage, calls[n].made, seen),
             stage = "contingency" => Flawless(calls[n].made, seen),
             (Enforced /\ Undisturbed /\ stage = "primary") => seen = {}
      PROVE  HoldInv'
  <2>1. /\ plan' = calls[n].made /\ flaws'[plan'.ans] = seen
        /\ left' = IF stage = "primary"
                   THEN ((seen \cup calls[n].made.bad) \ calls[n].made.cut) \cup over
                   ELSE {}
    BY <1>1, <1>2, <1>8 DEF Resolved
  <2>2. Present(plan)' = (seen \cup calls[n].made.bad) \ calls[n].made.cut
    BY <2>1 DEF Present
  <2>3. Covered'
    <3>1. stage = "primary" => Uncovered(plan)' \subseteq left'
      BY <2>1, <2>2 DEF Uncovered
    <3>2. stage = "contingency" => Mended(plan)'
      BY <1>8, <2>2 DEF Flawless, Mended, Uncovered
    <3> QED
      BY <1>3, <3>1, <3>2 DEF Covered, InContingency, At
  <2>4. Supported'
    <3>1. (Enforced /\ Undisturbed) => left' = {}
      BY <1>2, <1>8, <2>1 DEF Undisturbed
    <3> QED
      BY <1>6, <3>1 DEF Supported, Authorized, Enforced, config
  <2> QED
    BY <1>4, <1>5, <2>3, <2>4 DEF HoldInv
<1> QED
  BY <1>7, <1>8

LEMMA TakeUpHold == ASSUME HoldInv, TakeUp PROVE HoldInv'
<1>1. AskInv'
  BY TakeUpAsk DEF HoldInv
<1>2. PICK n \in Hits :
          /\ Record(calls[n].out)
          /\ IF calls[n].status = "repaired"
             THEN \E seen \in Reseen(calls[n].made.ans) :
                     StillGood(calls[n].made, seen) /\ Resolved(pc, calls[n].made, seen)
             ELSE Unresolved(pc)
  BY DEF TakeUp
<1>3. n \in 1..Len(calls)
  BY <1>2 DEF Hits, HoldInv, AskInv, TypeInv, TypeOK
<1>4. pc \in {"primary", "contingency"} /\ At(pc)
  BY DEF TakeUp, At
<1>5. pc = "primary" => ~Undisturbed
  BY <1>3 DEF Undisturbed, HoldInv, Unused
<1>6. \/ Unresolved(pc)
      \/ \E seen \in SUBSET Defects :
            /\ Resolved(pc, calls[n].made, seen)
            /\ pc = "contingency" => Flawless(calls[n].made, seen)
  BY <1>2, <1>4 DEF Reseen, Sights, StillGood
<1> QED
  BY <1>1, <1>2, <1>3, <1>4, <1>5, <1>6, RoundHold DEF TakeUp

LEMMA SaveHold == ASSUME HoldInv, Save PROVE HoldInv'
<1>1. AskInv'
  BY SaveAsk DEF HoldInv
<1>2. call \in 1..Len(calls)
  BY DEF Save, HoldInv, AskInv, TypeInv, Saving
<1>3. calls[call] \in Calls
  BY <1>2 DEF HoldInv, AskInv, TypeInv, TypeOK
<1>4. calls[call].key.stage \in {"primary", "contingency"} /\ At(calls[call].key.stage)
  BY <1>3 DEF Calls, Keys, Save, At
<1>5. Flawless(calls[call].made, {})
  BY <1>2 DEF HoldInv, Whole, Flawless
<1>6. /\ Record(calls[call].out)
      /\ \/ Resolved(calls[call].key.stage, calls[call].made, {})
         \/ Unresolved(calls[call].key.stage)
  BY DEF Save
<1>7. Undisturbed => batch \cup over = batch
  BY DEF Undisturbed
<1>8. UNCHANGED <<config, first, over, batch, calls, cause, restarts>>
  BY DEF Save
<1>9. CASE Unresolved(calls[call].key.stage)
  BY <1>1, <1>2, <1>4, <1>6, <1>7, <1>8, <1>9, RoundHold
<1>10. CASE Resolved(calls[call].key.stage, calls[call].made, {})
  <2>1. \E seen \in SUBSET Defects :
           /\ Resolved(calls[call].key.stage, calls[call].made, seen)
           /\ Flawless(calls[call].made, seen) /\ seen = {}
    BY <1>5, <1>10
  <2> QED
    BY <1>1, <1>2, <1>4, <1>6, <1>8, <2>1, RoundHold
<1> QED
  BY <1>6, <1>9, <1>10

LEMMA CallHold == ASSUME HoldInv, AskRepaired \/ AskInVain \/ ReportOnly PROVE HoldInv'
<1>1. AskInv'
  BY AskAsk DEF HoldInv
<1>2. /\ pc \in {"primary", "contingency"} /\ pc' = "save"
      /\ UNCHANGED <<config, first, plan, flaws, batch, over, left, attempts, cause, restarts>>
  BY DEF AskRepaired, AskInVain, ReportOnly, Called
<1>3. PICK status \in {"repaired", "rejected", "failed", "report_only"}, out \in BOOLEAN,
           made \in Plans : Called(status, out, made) /\ made.bad = {}
  <2>1. CASE AskRepaired
    <3>1. PICK keep \in SUBSET plan.cut : Called("repaired", TRUE, Answer(named + 1, keep))
      BY <2>1 DEF AskRepaired, Merged
    <3>2. named + 1 \in Names /\ keep \in SUBSET Defects
      BY <2>1, BoundsAssumption DEF AskRepaired, Names, HoldInv, AskInv, TypeInv, TypeOK, Plans
    <3>3. Answer(named + 1, keep) \in Plans /\ Answer(named + 1, keep).bad = {}
      BY <3>2, AnswerType DEF Answer
    <3> QED
      BY <3>1, <3>3
  <2>2. CASE AskInVain
    BY <2>2, NoPlanType DEF AskInVain, NoPlan, Answer
  <2>3. CASE ReportOnly
    BY <2>3, NoPlanType DEF ReportOnly, NoPlan, Answer
  <2> QED
    BY <2>1, <2>2, <2>3
<1>4. /\ Len(calls') = Len(calls) + 1 /\ call' = Len(calls')
      /\ \A n \in 1..Len(calls) : calls'[n] = calls[n]
      /\ calls'[call'] = [key |-> Key, status |-> status, out |-> out, made |-> made]
  BY <1>2, <1>3, CalledType DEF HoldInv, AskInv
<1>5. Len(calls) \in Nat
  BY DEF HoldInv, AskInv, TypeInv, TypeOK
<1>6. \A n \in 1..Len(calls') : n \in 1..Len(calls) \/ n = call'
  BY <1>4, <1>5
<1>7. calls'[call'].key.stage = pc /\ calls'[call'].made = made
  BY <1>4 DEF Key
<1>8. Whole'
  BY <1>3, <1>4, <1>6, <1>7 DEF HoldInv, Whole
<1>9. Unused' /\ Proposed'
  BY <1>2, <1>7 DEF HoldInv, Unused, Proposed, InPrimary, At, Primary, Enforced, config
<1>10. Covered' /\ Supported'
  BY <1>2, <1>7 DEF HoldInv, Covered, Supported, InContingency, At, Mended, Uncovered, Present,
                    Enforced, Guaranteed, config
<1>11. BaselineHolds' /\ Stopped'
  BY <1>2, Running, NoCause
<1> QED
  BY <1>1, <1>8, <1>9, <1>10, <1>11 DEF HoldInv

LEMMA BaselineHold == ASSUME HoldInv, Baseline PROVE HoldInv'
<1> DEFINE told == IF Enforced THEN left ELSE {}
<1> DEFINE next == Compiled(plan, told)
<1>1. AskInv'
  BY BaselineAsk DEF HoldInv
<1>2. plan \in Plans /\ told \in SUBSET Defects /\ TypeInv
  BY DEF HoldInv, AskInv, TypeInv, TypeOK
<1>3. /\ pc = "baseline" /\ cause = "none"
      /\ UNCHANGED <<config, flaws, first, over, calls, attempts, restarts>>
  BY Running DEF Baseline
<1>4. pc' \in {"check", "failed", "contingency"}
  BY DEF Baseline, Contingency, Request, Fail
<1>5. Unused' /\ Proposed' /\ Whole' /\ Supported'
  BY <1>3, <1>4 DEF HoldInv, Unused, Proposed, Whole, Supported, InPrimary, At
<1>6. Covered'
  <2> SUFFICES ASSUME Enforced, Guaranteed, pc' # "failed" PROVE Mended(plan)'
    BY <1>3, <1>4 DEF Covered, InContingency, At, Enforced, Guaranteed, config
  <2>1. plan' = next
    BY DEF Baseline, Fail
  <2>2. Uncovered(plan)' = Uncovered(next)
    BY <1>3, <2>1 DEF Uncovered, Present
  <2>3. Uncovered(next) \subseteq Uncovered(plan) \ Acted(plan, told)
    BY <1>2, CompiledUncovered
  <2>4. left \cap Cured \subseteq Acted(plan, told)
    BY DEF Acted
  <2>5. (Uncovered(plan) \cap Cured) \subseteq left
    BY <1>3 DEF HoldInv, Covered
  <2> QED
    BY <2>2, <2>3, <2>4, <2>5 DEF Mended
<1>7. BaselineHolds' /\ Stopped'
  <2>1. CASE cause' = "none"
    BY <2>1, NoCause
  <2>2. CASE cause' # "none"
    <3>1. /\ pc' = "failed"
          /\ \/ cause' = "round too large"
             \/ cause' = "unattempted" /\ Enforced /\ ~Authorized(left, Primary)
      BY <1>3, <2>2 DEF Baseline, Contingency, Request, Fail
    <3>2. CASE cause' = "round too large"
      BY <3>1, <3>2, OtherCause DEF Stopped
    <3>3. CASE cause' = "unattempted" /\ Enforced /\ ~Authorized(left, Primary)
      <4>1. ~Undisturbed
        BY <1>3, <3>3 DEF HoldInv, Supported
      <4>2. over # {} \/ restarts < MaxRestarts \/ \E n \in 1..Len(calls) : ~calls[n].out
        BY <4>1, BoundsAssumption DEF Undisturbed, HoldInv, Unused, AskInv, TypeInv, TypeOK
      <4> QED
        BY <1>3, <3>1, <3>3, <4>2 DEF BaselineHolds, Stopped
    <3> QED
      BY <3>1, <3>2, <3>3
  <2> QED
    BY <2>1, <2>2
<1> QED
  BY <1>1, <1>5, <1>6, <1>7 DEF HoldInv

LEMMA SettleHold == ASSUME HoldInv, Settle PROVE HoldInv'
<1> DEFINE next == IF left = {} THEN plan ELSE Compiled(plan, left)
<1>1. AskInv'
  BY SettleAsk DEF HoldInv
<1>2. plan \in Plans /\ left \in SUBSET Defects /\ TypeInv
  BY DEF HoldInv, AskInv, TypeInv, TypeOK
<1>3. /\ pc = "settle" /\ cause = "none"
      /\ UNCHANGED <<config, flaws, first, over, calls, attempts, restarts>>
  BY Running DEF Settle
<1>4. pc' \in {"check", "failed"}
  BY DEF Settle, Fail
<1>5. Unused' /\ Proposed' /\ Whole' /\ Supported'
  BY <1>3, <1>4 DEF HoldInv, Unused, Proposed, Whole, Supported, InPrimary, At
<1>6. Covered'
  <2> SUFFICES ASSUME Enforced, Guaranteed, pc' = "check" PROVE Mended(plan)'
    BY <1>3, <1>4 DEF Covered, InContingency, At, Enforced, Guaranteed, config
  <2>1. plan' = next
    BY DEF Settle, Fail
  <2>2. Uncovered(plan)' = Uncovered(next)
    BY <1>3, <2>1 DEF Uncovered, Present
  <2>3. Uncovered(next) \subseteq Uncovered(plan)
    BY <1>2, CompiledUncovered
  <2>4. Mended(plan)
    BY <1>3 DEF HoldInv, Covered
  <2> QED
    BY <2>2, <2>3, <2>4 DEF Mended
<1>7. BaselineHolds' /\ Stopped'
  <2>1. CASE cause' = "none"
    BY <2>1, NoCause
  <2>2. CASE cause' # "none"
    <3>1. /\ pc' = "failed"
          /\ \/ cause' \in {"third round", "unsafe baseline"}
             \/ cause' = "unattempted" /\ ~Authorized(left, plan)
      BY <1>3, <2>2 DEF Settle, Fail
    <3>2. CASE cause' \in {"third round", "unsafe baseline"}
      BY <3>1, <3>2, OtherCause DEF Stopped
    <3>3. CASE cause' = "unattempted" /\ ~Authorized(left, plan)
      <4>1. Enforced => ~Undisturbed
        BY <1>3, <3>3 DEF HoldInv, Supported
      <4>2. Enforced => \/ over # {} \/ restarts < MaxRestarts
                        \/ \E n \in 1..Len(calls) : ~calls[n].out
        BY <4>1, BoundsAssumption DEF Undisturbed, HoldInv, Unused, AskInv, TypeInv, TypeOK
      <4> QED
        BY <1>3, <3>1, <3>3, <4>2 DEF BaselineHolds, Stopped, Enforced, config
    <3> QED
      BY <3>1, <3>2, <3>3
  <2> QED
    BY <2>1, <2>2
<1> QED
  BY <1>1, <1>5, <1>6, <1>7 DEF HoldInv

LEMMA LateHold ==
    ASSUME HoldInv,
           Check \/ Assets \/ AssetsFail \/ FFmpegAccepts \/ Minimal \/ Render \/ Effects
    PROVE  HoldInv'
<1>1. AskInv'
  BY LateAsk DEF HoldInv
<1>2. /\ pc' \in Behind \ {"check"} /\ cause = "none"
      /\ UNCHANGED <<config, flaws, over, calls, restarts>>
  BY Running DEF Check, Assets, AssetsFail, FFmpegAccepts, Minimal, Render, Effects, Fail, Behind
<1>3. Unused' /\ Proposed' /\ Whole' /\ Covered' /\ Supported'
  BY <1>2 DEF HoldInv, Unused, Proposed, Whole, Covered, Supported, InPrimary, InContingency, At,
              Behind
<1>4. BaselineHolds' /\ Stopped'
  <2>1. CASE Check
    <3>1. /\ pc = "check" /\ plan' = plan
          /\ \/ cause' = cause
             \/ pc' = "failed" /\ cause' \in {"preflight", "dry run"}
             \/ pc' = "failed" /\ cause' = "intent" /\ ~Guaranteed
             \/ pc' = "failed" /\ cause' = "coverage" /\ Uncovered(plan) # {}
      BY <2>1 DEF Check, Fail
    <3>2. CASE \/ cause' = cause
               \/ pc' = "failed" /\ cause' \in {"preflight", "dry run"}
      BY <1>2, <3>2, NoCause, OtherCause DEF Stopped
    <3>3. CASE pc' = "failed" /\ cause' = "intent" /\ ~Guaranteed
      BY <1>2, <3>3 DEF BaselineHolds, Stopped, Guaranteed, config
    <3>4. CASE pc' = "failed" /\ cause' = "coverage" /\ Uncovered(plan) # {}
      <4>1. Enforced /\ Guaranteed => Mended(plan)
        BY <3>1 DEF HoldInv, Covered
      <4>2. Enforced /\ Guaranteed => ~(Uncovered(plan) \subseteq Cured)
        BY <3>4, <4>1 DEF Mended
      <4>3. Uncovered(plan)' = Uncovered(plan)
        BY <1>2, <3>1 DEF Uncovered, Present
      <4> QED
        BY <1>2, <3>4, <4>2, <4>3 DEF BaselineHolds, Stopped, Enforced, Guaranteed, config
    <3> QED
      BY <3>1, <3>2, <3>3, <3>4
  <2>2. CASE Assets \/ AssetsFail \/ FFmpegAccepts \/ Minimal \/ Render \/ Effects
    <3>1. \/ cause' = "none"
          \/ pc' = "failed" /\ cause' \in {"preflight", "dry run", "render", "assets"}
      BY <1>2, <2>2 DEF Assets, AssetsFail, FFmpegAccepts, Minimal, Render, Effects, Fail
    <3> QED
      BY <3>1, NoCause, OtherCause DEF Stopped
  <2> QED
    BY <2>1, <2>2
<1> QED
  BY <1>1, <1>3, <1>4 DEF HoldInv

LEMMA BreakHold == ASSUME HoldInv, Crash \/ Spoil PROVE HoldInv'
<1>1. AskInv'
  BY CrashAsk, SpoilAsk DEF HoldInv
<1>2. CASE Crash
  <2>1. /\ restarts' <= MaxRestarts /\ restarts' # MaxRestarts
        /\ pc' = "plan" /\ UNCHANGED <<config, calls, cause>>
    BY <1>2, BoundsAssumption DEF Crash, HoldInv, Unused, AskInv, TypeInv, TypeOK
  <2>2. cause' = "none"
    BY <1>2, <2>1, Running DEF Crash, Ended
  <2>3. Unused' /\ Proposed' /\ Whole' /\ Covered' /\ Supported'
    BY <2>1 DEF HoldInv, Unused, Proposed, Whole, Covered, Supported, InPrimary,
                InContingency, At
  <2> QED
    BY <1>1, <2>2, <2>3, NoCause DEF HoldInv
<1>3. CASE Spoil
  <2>1. /\ UNCHANGED <<config, pc, flaws, first, plan, batch, over, left, attempts, calls, call>>
        /\ cause' = "none" /\ restarts' = restarts
    BY <1>3, Running DEF Spoil
  <2>2. Unused' /\ Proposed' /\ Whole'
    BY <2>1 DEF HoldInv, Unused, Proposed, Whole, InPrimary, At, Primary, Enforced, config
  <2>3. Covered' /\ Supported'
    BY <2>1 DEF HoldInv, Covered, Supported, InContingency, At, Mended, Uncovered, Present,
                Authorized, Evidenced, Undisturbed, Primary, Enforced, Guaranteed, config
  <2> QED
    BY <1>1, <2>1, <2>2, <2>3, NoCause DEF HoldInv
<1> QED
  BY <1>2, <1>3

LEMMA HoldNext == ASSUME HoldInv, [Next]_vars PROVE HoldInv'
<1>1. CASE Next
  BY <1>1, PlanHold, TakeUpHold, SaveHold, CallHold, BaselineHold, SettleHold, LateHold,
     BreakHold DEF Next
<1>2. CASE UNCHANGED vars
  <2>1. AskInv'
    BY <1>2, AskNext DEF HoldInv
  <2>2. Unused' /\ Proposed' /\ Whole' /\ Stopped'
    BY <1>2 DEF vars, HoldInv, Unused, Proposed, Whole, Stopped, InPrimary, At, Primary,
                Enforced, config
  <2>3. Covered' /\ Supported'
    BY <1>2 DEF vars, HoldInv, Covered, Supported, InContingency, At, Mended, Uncovered, Present,
                Authorized, Evidenced, Undisturbed, Primary, Enforced, Guaranteed, config
  <2>4. BaselineHolds'
    BY <1>2, Excused DEF vars, HoldInv
  <2> QED
    BY <2>1, <2>2, <2>3, <2>4 DEF HoldInv
<1> QED
  BY <1>1, <1>2

(* With enforced repair and a guaranteed baseline, for every set of        *)
(* defects and whatever the compiler does about them: a run ends for want  *)
(* of an attempt only after too many findings, a restart or a call that    *)
(* did not go out, and for crops without evidence only if one of them is   *)
(* out of the compiler's reach (require_fallback_evidence,                 *)
(* compile_baseline_plan).                                                 *)
THEOREM BaselinesHold == Spec => []BaselineHolds
<1>1. Spec => []HoldInv
  BY HoldInit, HoldNext, PTL DEF Spec
<1>2. HoldInv => BaselineHolds
  BY DEF HoldInv
<1> QED
  BY <1>1, <1>2, PTL
=============================================================================
