---------------------------- MODULE ReviewRules ----------------------------
(***************************************************************************)
(* From the critic's answer to the verdict on a draft:                     *)
(* normalize_review_payload and is_review_passed                           *)
(* (backend/services/review_rules.py) and what the pipeline does with      *)
(* them.  The pipeline normalises the answer, and is_review_passed         *)
(* normalises the result once more.  Scores are in tenths; the three       *)
(* dimensions without a gate stand as one.                                 *)
(***************************************************************************)
EXTENDS Integers, Sequences, FiniteSets, FiniteSetsExt, SequencesExt

CONSTANTS
  RawScores,              \* bound: numbers a critic writes
  OverallThreshold,       \* the review thresholds of the runtime settings
  OutlineThreshold,
  InstructionThreshold

ASSUME ReviewAssumption ==
  /\ RawScores \subseteq Int
  /\ {OverallThreshold, OutlineThreshold, InstructionThreshold} \subseteq 0..100

VARIABLE review

NoScore == -1000        \* null, a boolean, an empty or unreadable text
NotANumber == 1000      \* NaN, which JSON answers may hold
Gated == {"outline_adherence", "instruction_adherence"}
DimensionKeys == Gated \cup {"others"}
Weight(key) == IF key = "others" THEN 3 ELSE 1
GateOf(key) == IF key = "outline_adherence" THEN OutlineThreshold ELSE InstructionThreshold
Given == {NoScore, NotANumber, OverallThreshold} \cup RawScores

\* how a dimension is written: a number of its own, or an object with a score
Dimension == [form : {"plain", "object"}, score : Given]

\* _coerce_score: max(0.0, min(10.0, x)); min keeps its first argument when x is NaN
CoerceScore(x) == IF x = NoScore THEN NoScore
                  ELSE IF x > 100 THEN 100 ELSE IF x < 0 THEN 0 ELSE x

\* _extract_dimension_score: in an object, a score that is 0 counts as none
DimensionScore(d, fallback) ==
  LET s == CoerceScore(d.score)
  IN  IF s = NoScore \/ (d.form = "object" /\ d.score = 0) THEN fallback ELSE s

Average(scores) ==
  FoldSet(LAMBDA key, sum : sum + Weight(key) * scores[key], 0, DimensionKeys) \div 5

\* normalize_review_payload; passed is a set of at most one verdict
Normalized(p, gates) ==
  LET given == CoerceScore(p.overall)
      fallback == IF given # NoScore THEN given
                  ELSE IF p.passed = {TRUE} THEN OverallThreshold ELSE 0
      scores == [key \in DimensionKeys |-> DimensionScore(p.dimensions[key], fallback)]
      overall == IF given # NoScore THEN given ELSE Average(scores)
      blocking == \/ p.blocking
                  \/ gates /\ scores["outline_adherence"] < OutlineThreshold /\ p.comments
      verdict == /\ overall >= OverallThreshold
                 /\ gates => ~ blocking /\ \A key \in Gated : scores[key] >= GateOf(key)
  IN  [overall |-> overall, blocking |-> blocking, comments |-> p.comments,
       passed |-> IF p.passed = {} THEN {verdict} ELSE p.passed,
       dimensions |-> [key \in DimensionKeys |-> [form |-> "object", score |-> scores[key]]]]

(* Mutant: a verdict the critic states itself is final. *)
CriticDecides(p, gates) == Normalized(p, gates).passed = {TRUE}

\* is_review_passed
IsReviewPassed(p, gates) ==
  LET n == Normalized(p, gates)
  IN  /\ n.passed = {TRUE}
      /\ gates => /\ n.overall >= OverallThreshold /\ ~ n.blocking
                  /\ \A key \in Gated : n.dimensions[key].score >= GateOf(key)

\* what the answer may say; passed holds its verdict, if it has one
Answer == [overall : Given, passed : (SUBSET BOOLEAN) \ {BOOLEAN}, blocking : BOOLEAN,
           comments : BOOLEAN, dimensions : [DimensionKeys -> Dimension]]

ReviewInit ==
  \E overall \in Given, passed \in (SUBSET BOOLEAN) \ {BOOLEAN} :
  \E blocking, comments, gates \in BOOLEAN, outline, instruction \in Dimension :
  \E others \in [form : {"plain"}, score : {NoScore, OverallThreshold}] :
    review = [phase |-> "answered", gates |-> gates, saved |-> <<>>, verdict |-> "none",
              answer |-> [overall |-> overall, passed |-> passed, blocking |-> blocking,
                          comments |-> comments,
                          dimensions |-> [outline_adherence |-> outline,
                                          instruction_adherence |-> instruction,
                                          others |-> others]]]

\* the review is saved and committed
SaveReview ==
  /\ review.phase = "answered"
  /\ LET n == Normalized(review.answer, review.gates)
     IN  review' = [review EXCEPT !.phase = "saved",
                      !.saved = <<[n EXCEPT !.passed = {IsReviewPassed(n, review.gates)}]>>]

\* auto_accept_critic_failed, and auto_accept_on_max_retries at the last retry
Decide ==
  /\ review.phase = "saved"
  /\ \E autoAccept \in BOOLEAN :
       review' = [review EXCEPT !.phase = "decided",
                    !.verdict = IF review.saved[1].passed = {TRUE} THEN "passed"
                                ELSE IF autoAccept THEN "autoAccepted" ELSE "rejected"]

ReviewNext == SaveReview \/ Decide
ReviewSpec == ReviewInit /\ [][ReviewNext]_review

(****************************** properties ********************************)

ReviewTypeOK ==
  /\ review.phase \in {"answered", "saved", "decided"} /\ review.answer \in Answer
  /\ Len(review.saved) = (IF review.phase = "answered" THEN 0 ELSE 1)

\* A draft passes the gates on what the critic wrote: no verdict of its own, no missing
\* score and no second normalisation lets through a draft of which it put one of the three
\* gated scores below the threshold of that score, or with a blocking issue, or against its
\* own "passed": false.  An outline or instruction score that is not positive is excepted
\* (a 0 in an object is read as missing), and so is one that is not a number (read as 10).
GateHolds ==
  review.verdict = "passed" =>
    LET a == review.answer
    IN  /\ a.passed # {FALSE}
        /\ review.gates =>
             /\ ~ a.blocking /\ (a.overall # NoScore => CoerceScore(a.overall) >= OverallThreshold)
             /\ \A key \in Gated :
                  LET s == a.dimensions[key].score
                  IN  s \in RawScores => s <= 0 \/ CoerceScore(s) >= GateOf(key)
=============================================================================
