----------------------- MODULE PostRenderRepairProofs -----------------------
(***************************************************************************)
(* Theorems about PostRenderRepair, for every set of clips and codes, both *)
(* delivery policies and every bound.                                      *)
(***************************************************************************)
EXTENDS PostRenderRepair, FiniteSetTheorems, TLAPS

USE DEF inspection

-----------------------------------------------------------------------------
(* Types.  A step that works with an answer has one, and the answer to be  *)
(* saved is the last.                                                      *)
AtAnswer  == pc \in {"save", "candidate", "verdict", "move"}
PropKnown == AtAnswer => prop \in 1..Len(answers)
SavesLast == pc = "save" => prop = Len(answers)

FewAnswers == Len(answers) <= MaxAnswers

TypeInv == TypeOK /\ PropKnown /\ SavesLast /\ FewAnswers

LEMMA LapseType == ASSUME TypeOK, Lapse PROVE lapses' \in Nat
  BY DEF TypeOK, Lapse

LEMMA AnswerType ==
    ASSUME TypeInv, AtAnswer
    PROVE  answers[prop] \in Answers
  BY DEF TypeInv, TypeOK, PropKnown

LEMMA OriginalType == Original \in Renditions
<1>1. MaxAnswers \in Nat
  BY BoundsAssumption
<1>2. 0 \in Versions
  BY <1>1 DEF Versions
<1>3. [c \in Clips |-> 0] \in [Clips -> Versions]
  BY <1>2
<1> QED
  BY <1>2, <1>3 DEF Original, Renditions

LEMMA NothingType == Nothing \in Reports /\ Missing \in Reports
<1>1. MaxScore \in Nat /\ MaxFindings \in Nat
  BY BoundsAssumption
<1>2. Silent \in [Clips -> 0..MaxScore]
  BY <1>1 DEF Silent
<1>3. Nothing \in Records /\ Missing \in Records
  BY <1>2 DEF Nothing, Missing, Records
<1>4. Cardinality(Nothing.eligible) <= MaxFindings /\ Cardinality(Missing.eligible) <= MaxFindings
  BY <1>1, FS_EmptySet DEF Nothing, Missing
<1> QED
  BY <1>3, <1>4 DEF Reports, Nothing, Missing

LEMMA TypeInit == Init => TypeInv
<1> SUFFICES ASSUME Init PROVE TypeInv
  OBVIOUS
<1>1. critic \in Records /\ seen \in Reports
  BY NothingType DEF Init, Reports
<1>2. /\ base \in Renditions /\ cand \in Renditions
      /\ judged \in Renditions /\ shown \in Renditions
  BY OriginalType DEF Init
<1>3. restarts \in Nat /\ lapses \in Nat /\ MaxAnswers \in Nat
  BY BoundsAssumption DEF Init
<1>4. first \in [Clips -> SUBSET Codes]
  BY DEF Init, Blockers
<1>5. answers \in Seq(Answers) /\ kept \subseteq 1..Len(answers)
  BY DEF Init
<1>6. prop \in Versions
  BY <1>3 DEF Init, Versions
<1>7. pc \in Steps /\ round \in Rounds /\ found \subseteq Findings /\ status \in Statuses
  BY DEF Init, Steps, Rounds, Statuses
<1>8. checked \in BOOLEAN /\ examined \in BOOLEAN /\ shots \in BOOLEAN /\ frames \in BOOLEAN
  BY DEF Init
<1>9. TypeOK
  BY <1>1, <1>2, <1>3, <1>4, <1>5, <1>6, <1>7, <1>8 DEF TypeOK
<1> QED
  BY <1>3, <1>9 DEF TypeInv, PropKnown, SavesLast, FewAnswers, AtAnswer, Init

-----------------------------------------------------------------------------
LEMMA InspectType == ASSUME TypeInv, Inspect PROVE TypeInv'
<1>1. checked' \in BOOLEAN /\ lapses' \in Nat
  BY LapseType DEF Inspect, TypeInv, TypeOK
<1>2. TypeOK'
  BY <1>1 DEF Inspect, TypeInv, TypeOK, Steps
<1> QED
  BY <1>2 DEF Inspect, TypeInv, PropKnown, SavesLast, FewAnswers, AtAnswer

LEMMA GatherType == ASSUME TypeInv, Gather PROVE TypeInv'
<1>1. /\ pc' \in {"review", "promote"} /\ critic' \in Records /\ status' \in Statuses
      /\ shots' \in BOOLEAN /\ frames' \in BOOLEAN
  BY NothingType DEF Gather, TypeInv, TypeOK, Reports, Statuses
<1>2. TypeOK'
  BY <1>1 DEF Gather, TypeInv, TypeOK, Steps
<1> QED
  BY <1>1, <1>2 DEF Gather, TypeInv, PropKnown, SavesLast, FewAnswers, AtAnswer

LEMMA BeginType ==
    ASSUME TypeInv, NEW r \in Reports, Begin(r),
           seen' \in Reports, restarts' \in Nat, lapses' \in Nat, frames' \in BOOLEAN,
           UNCHANGED <<checked, examined, shots>>
    PROVE  TypeInv'
<1>1. r \in Records /\ r.eligible \subseteq Findings
  BY DEF Reports, Records
<1>2. /\ pc' \in {"promote", "load"} /\ round' \in Rounds /\ status' \in Statuses
      /\ found' \subseteq Findings /\ critic' \in Records
  BY <1>1 DEF Begin, TypeInv, TypeOK, Rounds, Statuses
<1>3. TypeOK'
  BY <1>2 DEF Begin, TypeInv, TypeOK, Steps
<1> QED
  BY <1>2, <1>3 DEF Begin, TypeInv, PropKnown, SavesLast, FewAnswers, AtAnswer

LEMMA ReviewType == ASSUME TypeInv, Review PROVE TypeInv'
<1>1. PICK r \in {s \in Reports : s.status # "none"} :
          /\ Begin(r) \/ Begin(Missing)
          /\ \/ checked /\ seen' = r /\ UNCHANGED lapses
             \/ checked /\ Lapse /\ UNCHANGED seen
             \/ /\ ~checked \/ r.status = "unavailable"
                /\ UNCHANGED <<seen, lapses>>
  BY DEF Review
<1>2. seen' \in Reports /\ lapses' \in Nat
  BY <1>1, LapseType DEF TypeInv, TypeOK
<1>3. frames' \in BOOLEAN /\ restarts' \in Nat /\ UNCHANGED <<checked, examined, shots>>
  BY DEF Review, TypeInv, TypeOK
<1> QED
  BY <1>1, <1>2, <1>3, BeginType, NothingType

LEMMA ReviewAgainType == ASSUME TypeInv, ReviewAgain PROVE TypeInv'
<1>1. /\ seen \in Reports /\ seen' \in Reports /\ restarts' \in Nat /\ lapses' \in Nat
      /\ frames' \in BOOLEAN /\ UNCHANGED <<checked, examined, shots>>
  BY DEF ReviewAgain, TypeInv, TypeOK
<1> QED
  BY <1>1, BeginType, NothingType DEF ReviewAgain

(* The number of an answer is a version.                                   *)
LEMMA NumberType ==
    ASSUME TypeInv, NEW v \in 1..Len(answers)
    PROVE  v \in Versions /\ answers[v] \in Answers
<1>1. Len(answers) \in Nat /\ MaxAnswers \in Nat /\ Len(answers) <= MaxAnswers
  BY BoundsAssumption DEF TypeInv, TypeOK, FewAnswers
<1> QED
  BY <1>1 DEF Versions, TypeInv, TypeOK

LEMMA FollowType ==
    ASSUME NEW a \in Answers, status \in Statuses, Follow(a)
    PROVE  /\ pc' \in {"promote", "candidate"}
           /\ status' \in Statuses
  BY DEF Follow, Answers, Statuses

LEMMA ResumeType == ASSUME TypeInv, Resume PROVE TypeInv'
<1>1. PICK v \in Hits :
          /\ prop' = v
          /\ IF answers[v].status = "repair" /\ answers[v].clips = {}
             THEN pc' = "failed" /\ UNCHANGED status
             ELSE Follow(answers[v])
  BY DEF Resume
<1>2. v \in 1..Len(answers)
  BY <1>1 DEF Hits, TypeInv, TypeOK
<1>3. v \in Versions /\ answers[v] \in Answers
  BY <1>2, NumberType
<1>4. pc' \in {"failed", "promote", "candidate"} /\ status' \in Statuses
  BY <1>1, <1>3, FollowType DEF TypeInv, TypeOK
<1>5. TypeOK'
  BY <1>1, <1>3, <1>4 DEF Resume, TypeInv, TypeOK, Steps
<1> QED
  BY <1>1, <1>2, <1>4, <1>5 DEF Resume, TypeInv, PropKnown, SavesLast, FewAnswers, AtAnswer

LEMMA RequestType == ASSUME TypeInv PROVE Request \in Requests
  BY DEF Request, Requests, TypeInv, TypeOK

LEMMA ProposalType == ASSUME TypeInv PROVE Proposals \subseteq Answers
<1> SUFFICES ASSUME NEW a \in Proposals PROVE a \in Answers
  OBVIOUS
<1>1. Request \in Requests
  BY RequestType
<1>2. CASE a \in Repairs
  <2>1. PICK d \in Decisions : a \in RepairsBy(d)
    BY <1>2 DEF Repairs
  <2>2. Replaced(d) \subseteq Clips
    BY DEF Replaced, TypeInv, TypeOK, Findings
  <2>3. Blockers \subseteq [Clips -> SUBSET Codes]
    BY DEF Blockers
  <2> QED
    BY <1>1, <2>1, <2>2, <2>3 DEF RepairsBy, Answers
<1>3. CASE a \in [request : {Request}, status : {"no_change", "unavailable"}, clips : {{}},
                  changed : {{}}, fx : {FALSE}, blockers : {[c \in Clips |-> {}]}]
  <2>1. [c \in Clips |-> {}] \in [Clips -> SUBSET Codes]
    OBVIOUS
  <2> QED
    BY <1>1, <1>3, <2>1 DEF Answers
<1> QED
  BY <1>2, <1>3 DEF Proposals

LEMMA ProposalRequest ==
    ASSUME NEW a \in Proposals
    PROVE  a.request = Request
<1>1. CASE a \in Repairs
  <2>1. PICK d : a \in RepairsBy(d)
    BY <1>1 DEF Repairs
  <2> QED
    BY <2>1 DEF RepairsBy
<1>2. CASE a \in [request : {Request}, status : {"no_change", "unavailable"}, clips : {{}},
                  changed : {{}}, fx : {FALSE}, blockers : {[c \in Clips |-> {}]}]
  BY <1>2
<1> QED
  BY <1>1, <1>2 DEF Proposals

LEMMA AskType == ASSUME TypeInv, Ask PROVE TypeInv'
<1>1. PICK a \in Proposals : answers' = Append(answers, a)
  BY DEF Ask
<1>2. a \in Answers /\ answers \in Seq(Answers)
  BY ProposalType DEF TypeInv, TypeOK
<1>3. Len(answers) \in Nat /\ MaxAnswers \in Nat
  BY <1>2, BoundsAssumption
<1>4. answers' \in Seq(Answers) /\ Len(answers') = Len(answers) + 1
  BY <1>1, <1>2
<1>5. prop' = Len(answers) + 1 /\ prop' \in Versions /\ prop' \in 1..Len(answers')
  BY <1>3, <1>4 DEF Ask, Versions
<1>6. kept' \subseteq 1..Len(answers')
  BY <1>3, <1>4 DEF Ask, TypeInv, TypeOK
<1>7. Len(answers') <= MaxAnswers
  BY <1>3, <1>4 DEF Ask
<1>8. TypeOK'
  BY <1>4, <1>5, <1>6 DEF Ask, TypeInv, TypeOK, Steps
<1> QED
  BY <1>4, <1>5, <1>7, <1>8 DEF TypeInv, PropKnown, SavesLast, FewAnswers, AtAnswer

LEMMA UnseenType == ASSUME TypeInv, Unseen PROVE TypeInv'
  BY DEF Unseen, TypeInv, TypeOK, PropKnown, SavesLast, FewAnswers, AtAnswer, Steps

LEMMA SaveType == ASSUME TypeInv, Save PROVE TypeInv'
<1>1. prop \in 1..Len(answers) /\ answers[prop] \in Answers
  BY AnswerType DEF Save, TypeInv, PropKnown, AtAnswer
<1>2. pc' \in {"promote", "candidate"} /\ status' \in Statuses
  BY <1>1, FollowType DEF Save, TypeInv, TypeOK
<1>3. kept' \subseteq 1..Len(answers) /\ lapses' \in Nat
  BY <1>1, LapseType DEF Save, TypeInv, TypeOK
<1>4. TypeOK'
  BY <1>2, <1>3 DEF Save, TypeInv, TypeOK, Steps
<1> QED
  BY <1>1, <1>2, <1>4 DEF Save, TypeInv, PropKnown, SavesLast, FewAnswers, AtAnswer

LEMMA RepairedType ==
    ASSUME TypeInv, AtAnswer
    PROVE  Repaired(prop) \in Renditions
<1>1. prop \in Versions /\ base \in Renditions
  BY DEF TypeInv, TypeOK
<1>2. /\ base.plan \in [Clips -> Versions] /\ base.fx \in Versions
      /\ base.video \in [Clips -> Versions]
  BY <1>1 DEF Renditions
<1>3. [c \in Clips |-> IF c \in answers[prop].changed THEN prop ELSE base.plan[c]]
         \in [Clips -> Versions]
  BY <1>1, <1>2
<1>4. [c \in Clips |-> IF c \in Delivery(answers[prop]) THEN prop ELSE base.video[c]]
         \in [Clips -> Versions]
  BY <1>1, <1>2
<1>5. (IF answers[prop].fx THEN prop ELSE base.fx) \in Versions
  BY <1>1, <1>2
<1> QED
  BY <1>3, <1>4, <1>5 DEF Repaired, Renditions

LEMMA RenderType == ASSUME TypeInv, Render PROVE TypeInv'
<1>1. Repaired(prop) \in Renditions /\ examined' \in BOOLEAN /\ lapses' \in Nat
  BY RepairedType, LapseType DEF Render, AtAnswer, TypeInv, TypeOK
<1>2. TypeOK'
  BY <1>1 DEF Render, TypeInv, TypeOK, Steps
<1> QED
  BY <1>2 DEF Render, TypeInv, PropKnown, SavesLast, FewAnswers, AtAnswer

LEMMA CandidateFailsType == ASSUME TypeInv, CandidateFails PROVE TypeInv'
  BY DEF CandidateFails, TypeInv, TypeOK, PropKnown, SavesLast, FewAnswers, AtAnswer,
         Steps, Statuses

-----------------------------------------------------------------------------
LEMMA DeliveryType ==
    ASSUME TypeInv, AtAnswer
    PROVE  Delivery(answers[prop]) \subseteq Clips
  BY AnswerType DEF Delivery, Answers

LEMMA VerdictType == ASSUME TypeInv, Verdict PROVE TypeInv'
<1> DEFINE delivery == Delivery(answers[prop])
<1>1. delivery \subseteq Clips
  BY DeliveryType DEF Verdict, AtAnswer
<1>2. PICK score \in [Clips -> 0..MaxScore] :
          \/ Accept(score, delivery) \/ Contingency(delivery) \/ Reject
  BY DEF Verdict
<1> HIDE DEF delivery
<1>3. MaxScore \in Nat \ {0}
  BY BoundsAssumption
<1>4. CASE Accept(score, delivery)
  <2>1. critic.score \in [Clips -> 0..MaxScore] /\ critic \in Records
    BY DEF TypeInv, TypeOK, Records
  <2>2. [c \in Clips |-> IF c \in delivery THEN score[c] ELSE critic.score[c]]
           \in [Clips -> 0..MaxScore]
    BY <2>1
  <2>3. critic' \in Records
    BY <1>4, <2>1, <2>2 DEF Accept, Records
  <2>4. TypeOK'
    BY <1>4, <2>3 DEF Accept, Verdict, TypeInv, TypeOK, Steps, Statuses
  <2> QED
    BY <1>4, <2>4 DEF Accept, Verdict, TypeInv, PropKnown, SavesLast, FewAnswers, AtAnswer
<1>5. CASE Contingency(delivery)
  <2>1. Objective(delivery) \subseteq Findings
    BY <1>1, <1>3 DEF Objective, Findings, Targets
  <2>2. TypeOK'
    BY <1>5, <2>1 DEF Contingency, Verdict, TypeInv, TypeOK, Steps, Rounds
  <2> QED
    BY <1>5, <2>2 DEF Contingency, Verdict, TypeInv, PropKnown, SavesLast, FewAnswers, AtAnswer
<1>6. CASE Reject
  BY <1>6 DEF Reject, Verdict, TypeInv, TypeOK, PropKnown, SavesLast, FewAnswers, AtAnswer,
              Steps, Statuses
<1> QED
  BY <1>2, <1>4, <1>5, <1>6

LEMMA MoveType == ASSUME TypeInv, Move PROVE TypeInv'
<1>1. cand \in Renditions /\ cand.video \in [Clips -> Versions] /\ 0 \in Versions
  BY BoundsAssumption DEF TypeInv, TypeOK, Renditions, Versions
<1>2. Moved(Delivery(answers[prop])) \in [Clips -> Versions]
  BY <1>1 DEF Moved
<1>3. judged' \in Renditions /\ shown' \in Renditions
  BY <1>1, <1>2 DEF Move, Renditions
<1>4. TypeOK'
  BY <1>3 DEF Move, TypeInv, TypeOK, Steps
<1> QED
  BY <1>4 DEF Move, TypeInv, PropKnown, SavesLast, FewAnswers, AtAnswer

LEMMA EndType == ASSUME TypeInv, MoveFails \/ Promote PROVE TypeInv'
<1>1. pc' \in {"failed", "withheld", "published"}
  BY DEF MoveFails, Promote
<1>2. TypeOK'
  BY <1>1 DEF MoveFails, Promote, TypeInv, TypeOK, Steps
<1> QED
  BY <1>1, <1>2 DEF MoveFails, Promote, TypeInv, PropKnown, SavesLast, FewAnswers, AtAnswer

LEMMA CrashType == ASSUME TypeInv, Crash PROVE TypeInv'
<1>1. Original \in Renditions /\ Nothing \in Records
  BY OriginalType, NothingType DEF Reports
<1>2. 0 \in Versions
  BY BoundsAssumption DEF Versions
<1>3. /\ pc' \in Steps /\ round' \in Rounds /\ status' \in Statuses /\ prop' \in Versions
      /\ found' \subseteq Findings /\ critic' \in Records
  BY <1>1, <1>2 DEF Crash, Steps, Rounds, Statuses
<1>6. checked' \in BOOLEAN /\ examined' \in BOOLEAN /\ frames' \in BOOLEAN
  BY DEF Crash
<1>7. restarts' \in Nat
  BY DEF Crash, TypeInv, TypeOK
<1>4. base' \in Renditions /\ cand' \in Renditions /\ judged' \in Renditions
      /\ shown' \in Renditions
  BY <1>1 DEF Crash
<1>5. TypeOK'
  BY <1>3, <1>4, <1>6, <1>7 DEF Crash, TypeInv, TypeOK
<1> QED
  BY <1>5 DEF Crash, TypeInv, PropKnown, SavesLast, FewAnswers, AtAnswer

LEMMA SpoilType == ASSUME TypeInv, Spoil PROVE TypeInv'
<1>1. seen' \in Reports /\ kept' \subseteq kept /\ lapses' \in Nat
  BY NothingType, LapseType DEF Spoil, TypeInv, TypeOK
<1>2. TypeOK'
  BY <1>1 DEF Spoil, TypeInv, TypeOK
<1> QED
  BY <1>2 DEF Spoil, TypeInv, PropKnown, SavesLast, FewAnswers, AtAnswer

LEMMA TypeStep == ASSUME TypeInv, [Next]_vars PROVE TypeInv'
<1>1. CASE UNCHANGED vars
  BY <1>1 DEF vars, TypeInv, TypeOK, PropKnown, SavesLast, FewAnswers, AtAnswer
<1>2. CASE Next
  BY <1>2, InspectType, GatherType, ReviewType, ReviewAgainType, ResumeType, AskType,
     UnseenType, SaveType, RenderType, CandidateFailsType, VerdictType, MoveType, EndType, CrashType, SpoilType DEF Next
<1> QED
  BY <1>1, <1>2

LEMMA TypeInvariant == Spec => []TypeInv
  BY TypeInit, TypeStep, PTL DEF Spec

(* The repair's records, renditions, answers and checkpoints keep their    *)
(* types, over crashes and both rounds.                                    *)
THEOREM PostRenderTypeCorrect == Spec => []TypeOK
  BY TypeInvariant, PTL DEF TypeInv

-----------------------------------------------------------------------------
(* What is shown.  Until an accepted candidate has been moved, the output  *)
(* and the reports are the original's; then the reports are the            *)
(* candidate's, and so are plan, effects and the clips of its last round.  *)
AtOriginal  == /\ shown = Original /\ judged = Original
               /\ status = "accepted" => pc \in {"move", "failed"}
               /\ pc = "move" => status = "accepted"
AtCandidate == /\ status = "accepted" /\ pc \in {"promote", "published", "withheld"}
               /\ judged = cand
               /\ shown = [cand EXCEPT !.video = Moved(Delivery(answers[prop]))]

(* An accepted candidate has no blocker that the original did not have.    *)
AcceptedClean ==
    status = "accepted" => Blocked(cand.video) \subseteq Blocked(Original.video)

ShownInv == (AtOriginal \/ AtCandidate) /\ AcceptedClean

LEMMA ShownInit == Init => ShownInv
  BY DEF Init, ShownInv, AtOriginal, AcceptedClean

(* Steps before the verdict leave the original candidate in place.         *)
LEMMA BeforeVerdict ==
    ASSUME ShownInv, pc \in {"inspect", "gather", "review", "load", "save", "candidate", "verdict"},
           UNCHANGED <<judged, shown>>, status' # "accepted", pc' # "move"
    PROVE  ShownInv'
  BY DEF ShownInv, AtOriginal, AtCandidate, AcceptedClean

LEMMA FollowStatus ==
    ASSUME NEW a \in Answers, status # "accepted", Follow(a)
    PROVE  status' # "accepted" /\ pc' # "move"
  BY DEF Follow, Answers

(* A candidate without new codes that no technical code withholds was      *)
(* examined, and has none that the original did not have.                  *)
LEMMA Examined ==
    ASSUME NewCodes = {}, ~Withholds(After, {})
    PROVE  Blocked(cand.video) \subseteq Blocked(Original.video)
<1>1. After \cap Technical = {} /\ Unavailable \in Technical
  BY CodesAssumption DEF Withholds
<1>2. Blocked(cand.video) = After
  BY <1>1 DEF After, Reported
<1>3. After \subseteq Before
  BY DEF NewCodes
<1>4. Before \subseteq Blocked(Original.video) \cup {Unavailable}
  BY DEF Before, Reported
<1> QED
  BY <1>1, <1>2, <1>3, <1>4

LEMMA ShownStep ==
    ASSUME TypeInv, ShownInv, [Next]_vars
    PROVE  ShownInv'
<1> DEFINE Early == {"inspect", "gather", "review", "load", "save", "candidate", "verdict"}
<1>1. pc \in Early => status # "accepted"
  BY DEF ShownInv, AtOriginal, AtCandidate
<1>2. CASE UNCHANGED vars
  BY <1>2 DEF vars, ShownInv, AtOriginal, AtCandidate, AcceptedClean, Blocked, Codes_Of,
              Moved, Delivery
<1>3. ASSUME NEW r, Begin(r), pc = "review"
      PROVE  ShownInv'
  <2>1. status' # "accepted" /\ pc' # "move"
    BY <1>1, <1>3 DEF Begin
  <2> QED
    BY <1>3, <2>1, BeforeVerdict DEF Begin
<1>4. CASE Inspect \/ Gather \/ Unseen
  <2>1. status' # "accepted" /\ pc' # "move"
    BY <1>1, <1>4 DEF Inspect, Gather, Unseen
  <2> QED
    BY <1>4, <2>1, BeforeVerdict DEF Inspect, Gather, Unseen
<1>17. CASE Review
  BY <1>3, <1>17 DEF Review
<1>5. CASE ReviewAgain
  BY <1>3, <1>5 DEF ReviewAgain
<1>6. CASE Resume
  <2>1. PICK v \in Hits :
            IF answers[v].status = "repair" /\ answers[v].clips = {}
            THEN pc' = "failed" /\ UNCHANGED status
            ELSE Follow(answers[v])
    BY <1>6 DEF Resume
  <2>2. answers[v] \in Answers
    BY NumberType DEF Hits, TypeInv, TypeOK
  <2>3. status' # "accepted" /\ pc' # "move"
    BY <1>1, <1>6, <2>1, <2>2, FollowStatus DEF Resume
  <2> QED
    BY <1>6, <2>3, BeforeVerdict DEF Resume
<1>7. CASE Ask
  <2>1. status' # "accepted" /\ pc' # "move"
    BY <1>1, <1>7 DEF Ask
  <2> QED
    BY <1>7, <2>1, BeforeVerdict DEF Ask
<1>8. CASE Save
  <2>1. answers[prop] \in Answers
    BY <1>8, AnswerType DEF Save, AtAnswer
  <2>2. status' # "accepted" /\ pc' # "move"
    BY <1>1, <1>8, <2>1, FollowStatus DEF Save
  <2> QED
    BY <1>8, <2>2, BeforeVerdict DEF Save
<1>9. CASE Render
  <2>1. status' # "accepted" /\ pc' # "move"
    BY <1>1, <1>9 DEF Render
  <2> QED
    BY <1>9, <2>1, BeforeVerdict DEF Render
<1>10. CASE CandidateFails
  BY <1>10, BeforeVerdict DEF CandidateFails
<1>11. CASE Verdict
  <2> DEFINE delivery == Delivery(answers[prop])
  <2>1. PICK score \in [Clips -> 0..MaxScore], calm \in BOOLEAN, preferred \in BOOLEAN :
           IF Acceptable(score, delivery, calm, preferred)
           THEN Accept(score, delivery)
           ELSE IF round = "primary" /\ NewCodes # {}
           THEN Contingency(delivery)
           ELSE Reject
    BY <1>11 DEF Verdict
  <2> HIDE DEF delivery
  <2>2. CASE /\ Acceptable(score, delivery, calm, preferred)
             /\ Accept(score, delivery)
    <3>1. Blocked(cand.video) \subseteq Blocked(Original.video)
      BY <2>1, <2>2, Examined DEF Acceptable
    <3>2. /\ Blocked(cand.video)' = Blocked(cand.video)
          /\ Blocked(Original.video)' = Blocked(Original.video)
      BY <1>11 DEF Verdict, Blocked, Codes_Of, Original
    <3>3. shown' = Original /\ judged' = Original
      BY <1>11 DEF Verdict, ShownInv, AtOriginal, AtCandidate
    <3> QED
      BY <2>2, <3>1, <3>2, <3>3 DEF Accept, ShownInv, AtOriginal, AcceptedClean
  <2>3. CASE Contingency(delivery) \/ Reject
    <3>1. status' # "accepted" /\ pc' # "move"
      BY <1>1, <1>11, <2>3 DEF Verdict, Contingency, Reject
    <3> QED
      BY <1>11, <3>1, BeforeVerdict DEF Verdict
  <2> QED
    BY <2>1, <2>2, <2>3
<1>12. CASE Move
  <2>1. AcceptedClean'
    BY <1>12 DEF Move, ShownInv, AcceptedClean, Blocked, Codes_Of
  <2>2. CASE status = "accepted"
    <3>1. Moved(Delivery(answers[prop]))' = Moved(Delivery(answers[prop]))
      BY <1>12 DEF Move, Moved, Delivery
    <3>2. AtCandidate'
      BY <1>12, <2>2, <3>1 DEF Move, AtCandidate
    <3> QED
      BY <2>1, <3>2 DEF ShownInv
  <2> QED
    BY <1>12, <2>2 DEF Move, ShownInv, AtOriginal, AtCandidate
<1>13. CASE MoveFails
  BY <1>13 DEF MoveFails, ShownInv, AtOriginal, AtCandidate, AcceptedClean, Blocked, Codes_Of
<1>14. CASE Promote
  <2>1. pc' \in {"published", "withheld"}
    BY <1>14 DEF Promote
  <2>2. AcceptedClean'
    BY <1>14 DEF Promote, ShownInv, AcceptedClean, Blocked, Codes_Of
  <2>3. Moved(Delivery(answers[prop]))' = Moved(Delivery(answers[prop]))
    BY <1>14 DEF Promote, Moved, Delivery
  <2> QED
    BY <1>14, <2>1, <2>2, <2>3 DEF Promote, ShownInv, AtOriginal, AtCandidate
<1>15. CASE Crash
  BY <1>15 DEF Crash, ShownInv, AtOriginal, AcceptedClean
<1>16. CASE Spoil
  <2>1. status' # "accepted" /\ pc' # "move"
    BY <1>1, <1>16 DEF Spoil
  <2> QED
    BY <1>16, <2>1, BeforeVerdict DEF Spoil
<1> QED
  BY <1>2, <1>4, <1>5, <1>6, <1>7, <1>8, <1>9, <1>10, <1>11, <1>12, <1>13, <1>14,
     <1>15, <1>16, <1>17 DEF Next

LEMMA ShownInvariant == Spec => [](TypeInv /\ ShownInv)
<1>1. Init => TypeInv /\ ShownInv
  BY TypeInit, ShownInit
<1>2. TypeInv /\ ShownInv /\ [Next]_vars => TypeInv' /\ ShownInv'
  BY TypeStep, ShownStep
<1> QED
  BY <1>1, <1>2, PTL DEF Spec

LEMMA NoRegressionHolds == ASSUME TypeInv, ShownInv PROVE NoRegression
<1> SUFFICES ASSUME pc = "published", NEW c \in Clips
             PROVE  Codes_Of(c, shown.video[c]) \subseteq Blocked(Original.video)
  BY DEF NoRegression, Blocked
<1>1. Codes_Of(c, 0) \subseteq Blocked(Original.video)
  BY DEF Blocked, Original
<1>2. CASE AtOriginal
  BY <1>1, <1>2 DEF AtOriginal, Original
<1>3. CASE AtCandidate
  <2>1. Codes_Of(c, cand.video[c]) \subseteq Blocked(Original.video)
    BY <1>3 DEF AtCandidate, ShownInv, AcceptedClean, Blocked
  <2>2. shown.video = Moved(Delivery(answers[prop]))
    BY <1>3 DEF AtCandidate, TypeInv, TypeOK, Renditions
  <2>3. shown.video[c] \in {0, cand.video[c]}
    BY <2>2 DEF Moved
  <2> QED
    BY <1>1, <2>1, <2>3
<1> QED
  BY <1>2, <1>3 DEF ShownInv

(* Whatever the provider, the critic and the gate answer, over any number  *)
(* of crashes and lost checkpoints, and although clips of different rounds *)
(* may be shown side by side: repair never adds a blocker to what is       *)
(* published.                                                              *)
THEOREM RepairNeverRegresses == Spec => []NoRegression
  BY ShownInvariant, NoRegressionHolds, PTL

LEMMA ShownAsJudgedHolds ==
    ASSUME TypeInv, ShownInv, pc \notin {"move", "failed"}, status = "accepted" => Covers
    PROVE  shown = judged
<1>1. CASE AtOriginal
  BY <1>1 DEF AtOriginal
<1>2. CASE AtCandidate
  <2>1. cand \in Renditions /\ shown \in Renditions
    BY DEF TypeInv, TypeOK
  <2>2. cand.video \in [Clips -> Versions]
    BY <2>1 DEF Renditions
  <2>3. Moved(Delivery(answers[prop])) = cand.video
    BY <1>2, <2>2 DEF AtCandidate, Covers, Moved
  <2>4. shown = [cand EXCEPT !.video = cand.video]
    BY <1>2, <2>3 DEF AtCandidate
  <2>5. shown = cand
    BY <2>1, <2>4 DEF Renditions
  <2> QED
    BY <1>2, <2>5 DEF AtCandidate
<1> QED
  BY <1>1, <1>2 DEF ShownInv

(* If the last round delivers every repaired clip, a published run shows   *)
(* the very rendition that its plan and reports are about.                 *)
THEOREM ReportsMatchOutput == Spec => []ShownAsJudged
<1>1. TypeInv /\ ShownInv => ShownAsJudged
  BY ShownAsJudgedHolds DEF ShownAsJudged
<1> QED
  BY <1>1, ShownInvariant, PTL

-----------------------------------------------------------------------------
(* What the gate lets through.                                             *)
LEMMA SoundStep ==
    ASSUME TypeInv, ShownInv, PublishedIsSound, [Next]_vars
    PROVE  PublishedIsSound'
<1>1. CASE Promote
  <2> SUFFICES ASSUME pc' = "published", status = "accepted" => Covers
               PROVE  Blocked(shown.video) \cap Technical = {}
    <3>1. Blocked(shown.video)' = Blocked(shown.video) /\ Covers' = Covers
      BY <1>1 DEF Promote, Blocked, Codes_Of, Covers, Delivery
    <3> QED
      BY <1>1, <3>1 DEF Promote, PublishedIsSound
  <2>1. shown = judged
    BY <1>1, ShownAsJudgedHolds DEF Promote
  <2>2. PICK limits : ~Withholds(GateCodes, limits)
    BY <1>1 DEF Promote
  <2>3. GateCodes \cap Technical = {} /\ Unavailable \in Technical /\ Unavailable \notin Caption
    BY <2>2, CodesAssumption DEF Withholds
  <2>4. checked
    BY <2>3 DEF GateCodes, Reported
  <2> QED
    BY <2>1, <2>3, <2>4 DEF GateCodes, Reported
<1>2. CASE UNCHANGED vars
  BY <1>2 DEF vars, PublishedIsSound, Blocked, Codes_Of, Covers, Delivery
<1>3. CASE Next /\ ~Promote
  <2>1. CASE Inspect \/ Gather \/ Review \/ ReviewAgain \/ Unseen
    BY <2>1 DEF Inspect, Gather, Review, ReviewAgain, Unseen, Begin, PublishedIsSound
  <2>2. CASE Resume \/ Save
    BY <2>2 DEF Resume, Save, Follow, PublishedIsSound
  <2>3. CASE Ask \/ Render \/ CandidateFails \/ Move \/ MoveFails \/ Crash
    BY <2>3 DEF Ask, Render, CandidateFails, Move, MoveFails, Crash, PublishedIsSound
  <2>4. CASE Verdict
    BY <2>4 DEF Verdict, Accept, Contingency, Reject, PublishedIsSound
  <2>5. CASE Spoil
    BY <2>5 DEF Spoil, PublishedIsSound
  <2> QED
    BY <1>3, <2>1, <2>2, <2>3, <2>4, <2>5 DEF Next
<1> QED
  BY <1>1, <1>2, <1>3

(* Under the same proviso no delivery policy publishes a video with a      *)
(* technical blocker: the gate's mixture of stored reports and fresh       *)
(* caption footprints is then the judgement of what is shown.              *)
THEOREM PublishedRunsAreSound == Spec => []PublishedIsSound
<1>1. Init => PublishedIsSound
  BY DEF Init, PublishedIsSound
<1>2. TypeInv /\ ShownInv /\ PublishedIsSound /\ [Next]_vars => PublishedIsSound'
  BY SoundStep
<1> QED
  BY <1>1, <1>2, ShownInvariant, PTL DEF Spec

-----------------------------------------------------------------------------
(* The provider is asked only where no checkpoint answers, and only the    *)
(* last answer is saved.                                                   *)
LEMMA AskedOnceStep ==
    ASSUME TypeInv, AskedOnce, [Next]_vars
    PROVE  AskedOnce'
<1>1. ASSUME answers' = answers, kept' \subseteq kept
      PROVE  AskedOnce'
  BY <1>1 DEF AskedOnce
<1>2. CASE Ask
  <2>1. PICK a \in Proposals : answers' = Append(answers, a)
    BY <1>2 DEF Ask
  <2>2. a.request = Request
    BY <2>1, ProposalRequest
  <2>3. a \in Answers /\ answers \in Seq(Answers) /\ Len(answers) \in Nat
    BY <2>1, ProposalType DEF TypeInv, TypeOK
  <2>4. /\ Len(answers') = Len(answers) + 1
        /\ \A v \in 1..Len(answers) : answers'[v] = answers[v]
        /\ answers'[Len(answers) + 1] = a
    BY <2>1, <2>3
  <2>5. \A v \in 1..Len(answers) : answers[v].request = Request => v \notin kept
    BY <1>2 DEF Ask, Hits
  <2> SUFFICES ASSUME NEW v \in 1..Len(answers'), NEW w \in 1..Len(answers'), v < w,
                      answers'[v].request = answers'[w].request
               PROVE  v \notin kept
    BY <1>2 DEF Ask, AskedOnce
  <2>6. v \in 1..Len(answers)
    BY <2>3, <2>4
  <2>7. CASE w \in 1..Len(answers)
    BY <2>4, <2>6, <2>7 DEF AskedOnce
  <2>8. CASE w = Len(answers) + 1
    BY <2>2, <2>4, <2>5, <2>6, <2>8
  <2> QED
    BY <2>3, <2>4, <2>7, <2>8
<1>3. CASE Save
  <2>1. kept' \subseteq kept \cup {Len(answers)} /\ answers' = answers
    BY <1>3 DEF Save, TypeInv, SavesLast
  <2>2. Len(answers) \in Nat
    BY DEF TypeInv, TypeOK
  <2> QED
    BY <2>1, <2>2 DEF AskedOnce
<1>4. CASE UNCHANGED vars
  BY <1>1, <1>4 DEF vars
<1>5. CASE Next /\ ~Ask /\ ~Save
  <2>1. CASE Inspect \/ Gather \/ Review \/ ReviewAgain \/ Unseen
    BY <1>1, <2>1 DEF Inspect, Gather, Review, ReviewAgain, Unseen, Begin
  <2>2. CASE Resume \/ Render \/ CandidateFails \/ Verdict
    BY <1>1, <2>2 DEF Resume, Render, CandidateFails, Verdict
  <2>3. CASE Move \/ MoveFails \/ Promote \/ Crash
    BY <1>1, <2>3 DEF Move, MoveFails, Promote, Crash
  <2>4. CASE Spoil
    BY <1>1, <2>4 DEF Spoil
  <2> QED
    BY <1>5, <2>1, <2>2, <2>3, <2>4 DEF Next
<1> QED
  BY <1>2, <1>3, <1>4, <1>5

(* A restarted job never pays again for an answer that it still has on     *)
(* disk, in either round.                                                  *)
THEOREM NothingAskedTwice == Spec => []AskedOnce
<1>1. Init => AskedOnce
  BY DEF Init, AskedOnce
<1>2. TypeInv /\ AskedOnce /\ [Next]_vars => AskedOnce'
  BY AskedOnceStep
<1> QED
  BY <1>1, <1>2, TypeInvariant, PTL DEF Spec

-----------------------------------------------------------------------------
(* Why a run fails.  Before the first restart the evidence is not read     *)
(* from a checkpoint and no answer has been given in the round that is     *)
(* about to ask, so nothing can be resumed; and an answer that repairs     *)
(* without replacing a clip replaces the effects.                          *)
NothingToResume ==
    restarts = MaxRestarts =>
        /\ pc \in {"inspect", "gather"} => ~shots
        /\ pc \in {"review", "load", "save", "candidate", "verdict"} => frames
        /\ pc \in {"inspect", "gather", "review"} => answers = <<>>
        /\ pc = "load" => \A v \in 1..Len(answers) : answers[v].request.round # round
        /\ round = "primary" =>
              \A v \in 1..Len(answers) : answers[v].request.round = "primary"

RepairsSomething ==
    \A v \in 1..Len(answers) :
        answers[v].status = "repair" /\ answers[v].clips = {} => answers[v].fx

Trying == pc \in {"load", "save", "candidate", "verdict"} => status = "attempted"

CauseInv ==
    restarts <= MaxRestarts /\ Trying /\ NothingToResume /\ RepairsSomething /\ FailsForCause

LEMMA CauseInit == Init => CauseInv
<1>1. Init => restarts <= MaxRestarts
  BY BoundsAssumption DEF Init
<1> QED
  BY <1>1 DEF Init, CauseInv, Trying, NothingToResume, RepairsSomething, FailsForCause

LEMMA ProposalRepairs ==
    ASSUME NEW a \in Proposals, a.status = "repair", a.clips = {}
    PROVE  a.fx
<1>1. a \in Repairs
  BY DEF Proposals
<1>2. PICK d \in Decisions : a \in RepairsBy(d) /\ \E f \in found : d[f] # "none"
  BY <1>1 DEF Repairs
<1>3. PICK f \in found : d[f] # "none"
  BY <1>2
<1>4. d[f] \in {"clip_plan", "effect_plan"}
  BY <1>2, <1>3 DEF Decisions, Targets
<1>5. Replaced(d) = {} /\ a.fx = \E g \in found : d[g] = "effect_plan"
  BY <1>2 DEF RepairsBy
<1>6. d[f] # "clip_plan"
  BY <1>5 DEF Replaced
<1> QED
  BY <1>4, <1>5, <1>6

(* Steps that neither ask, restart nor fail.                               *)
LEMMA CauseKept ==
    ASSUME CauseInv, UNCHANGED <<answers, restarts, round>>,
           pc' \notin {"inspect", "gather", "review", "load", "failed"},
           pc' \in {"candidate", "verdict"} =>
               pc \in {"load", "save", "candidate"} /\ UNCHANGED <<frames, status>>,
           pc' # "save"
    PROVE  CauseInv'
  BY DEF CauseInv, Trying, NothingToResume, RepairsSomething, FailsForCause

LEMMA CauseStep ==
    ASSUME TypeInv, ShownInv, CauseInv, [Next]_vars
    PROVE  CauseInv'
<1>1. CASE UNCHANGED vars
  BY <1>1 DEF vars, CauseInv, Trying, NothingToResume, RepairsSomething, FailsForCause
<1>2. ASSUME NEW r, Begin(r), pc = "review", UNCHANGED restarts, frames => frames'
      PROVE  CauseInv'
  BY <1>2 DEF Begin, CauseInv, Trying, NothingToResume, RepairsSomething, FailsForCause
<1>3. CASE Review \/ ReviewAgain
  BY <1>2, <1>3 DEF Review, ReviewAgain, TypeInv, TypeOK
<1>13. CASE Inspect
  BY <1>13 DEF Inspect, CauseInv, Trying, NothingToResume, RepairsSomething, FailsForCause
<1>14. CASE Gather
  BY <1>14 DEF Gather, TypeInv, TypeOK, CauseInv, Trying, NothingToResume, RepairsSomething,
              FailsForCause
<1>15. CASE Unseen
  <2>1. status = "attempted"
    BY <1>15 DEF Unseen, CauseInv, Trying
  <2>2. restarts # MaxRestarts /\ restarts <= MaxRestarts
    BY <1>15 DEF Unseen, CauseInv, NothingToResume
  <2>3. restarts < MaxRestarts
    BY <2>2, BoundsAssumption DEF TypeInv, TypeOK
  <2>4. FailsForCause'
    BY <1>15, <2>1, <2>3 DEF Unseen, FailsForCause
  <2> QED
    BY <1>15, <2>2, <2>4 DEF Unseen, CauseInv, Trying, NothingToResume, RepairsSomething
<1>4. CASE Resume
  <2>1. PICK v \in Hits :
            /\ prop' = v
            /\ IF answers[v].status = "repair" /\ answers[v].clips = {}
               THEN pc' = "failed" /\ UNCHANGED status
               ELSE Follow(answers[v])
    BY <1>4 DEF Resume
  <2>2. v \in 1..Len(answers) /\ v \in kept /\ answers[v].request.round = round
    BY <2>1 DEF Hits, Request, TypeInv, TypeOK
  <2>3. restarts < MaxRestarts
    BY <1>4, <2>2, BoundsAssumption DEF Resume, CauseInv, Trying, NothingToResume, TypeInv, TypeOK
  <2>4. CASE answers[v].status = "repair" /\ answers[v].clips = {}
    <3>1. answers[v].fx
      BY <2>2, <2>4 DEF CauseInv, RepairsSomething
    <3> QED
      BY <1>4, <2>1, <2>2, <2>3, <2>4, <3>1
         DEF Resume, CauseInv, Trying, NothingToResume, RepairsSomething, FailsForCause
  <2>5. CASE ~(answers[v].status = "repair" /\ answers[v].clips = {})
    BY <1>4, <2>1, <2>5, CauseKept DEF Resume, Follow
  <2> QED
    BY <2>4, <2>5
<1>5. CASE Ask
  <2>1. PICK a \in Proposals : answers' = Append(answers, a)
    BY <1>5 DEF Ask
  <2>2. a.request.round = round
    BY <2>1, ProposalRequest DEF Request
  <2>3. answers \in Seq(Answers) /\ a \in Answers /\ Len(answers) \in Nat
    BY <2>1, ProposalType DEF TypeInv, TypeOK
  <2>4. \A v \in 1..Len(answers') :
           \/ v \in 1..Len(answers) /\ answers'[v] = answers[v]
           \/ answers'[v] = a
    BY <2>1, <2>3
  <2>5. RepairsSomething'
    BY <2>1, <2>4, ProposalRepairs DEF CauseInv, RepairsSomething
  <2>6. NothingToResume'
    BY <1>5, <2>2, <2>4 DEF Ask, CauseInv, Trying, NothingToResume
  <2> QED
    BY <1>5, <2>5, <2>6 DEF Ask, CauseInv, Trying, FailsForCause
<1>6. CASE Save
  BY <1>6, CauseKept DEF Save, Follow
<1>7. CASE Render \/ CandidateFails \/ Move
  BY <1>7, CauseKept DEF Render, CandidateFails, Move
<1>8. CASE Verdict
  <2>1. PICK score, delivery :
           \/ Accept(score, delivery)
           \/ round = "primary" /\ Contingency(delivery)
           \/ Reject
    BY <1>8 DEF Verdict
  <2>2. CASE Accept(score, delivery) \/ Reject
    BY <1>8, <2>2, CauseKept DEF Verdict, Accept, Reject
  <2>3. CASE round = "primary" /\ Contingency(delivery)
    BY <1>8, <2>3 DEF Verdict, Contingency, CauseInv, Trying, NothingToResume, RepairsSomething,
                     FailsForCause
  <2> QED
    BY <2>1, <2>2, <2>3
<1>9. CASE MoveFails
  <2>1. status = "accepted" /\ shown = Original
    BY <1>9 DEF MoveFails, ShownInv, AtOriginal, AtCandidate
  <2> QED
    BY <1>9, <2>1 DEF MoveFails, CauseInv, Trying, NothingToResume, RepairsSomething, FailsForCause
<1>10. CASE Promote
  BY <1>10, CauseKept DEF Promote
<1>11. CASE Crash
  <2>1. restarts' < MaxRestarts /\ restarts' # MaxRestarts
    BY <1>11, BoundsAssumption DEF Crash, CauseInv, TypeInv, TypeOK
  <2> QED
    BY <1>11, <2>1, BoundsAssumption
       DEF Crash, CauseInv, Trying, NothingToResume, RepairsSomething, FailsForCause, TypeInv, TypeOK
<1>12. CASE Spoil
  BY <1>12 DEF Spoil, CauseInv, Trying, NothingToResume, RepairsSomething, FailsForCause
<1> QED
  BY <1>1, <1>3, <1>4, <1>5, <1>6, <1>7, <1>8, <1>9, <1>10, <1>11, <1>12,
     <1>13, <1>14, <1>15 DEF Next

(* A failing repair leaves the original candidate to be promoted: a        *)
(* rendered run fails only because an accepted candidate could not be      *)
(* moved or, after a restart, because of the checkpoint of a repair of the *)
(* effects alone.                                                          *)
THEOREM RepairDegrades == Spec => []FailsForCause
<1>1. TypeInv /\ ShownInv /\ CauseInv /\ [Next]_vars => CauseInv'
  BY CauseStep
<1>2. CauseInv => FailsForCause
  BY DEF CauseInv
<1> QED
  BY <1>1, <1>2, CauseInit, ShownInvariant, PTL DEF Spec

=============================================================================
