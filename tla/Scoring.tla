--------------------------------- MODULE Scoring ---------------------------------
(***************************************************************************)
(* From the language model's reply to the evaluation that is stored:       *)
(* EvaluationService.normalise, and what takes its place when nobody spoke *)
(* or no model is configured.                                              *)
(*                                                                         *)
(* Scores of the reply are in tenths; texts are kept only as far as their  *)
(* absence refuses the reply.                                              *)
(***************************************************************************)
EXTENDS Sums, Sequences, SequencesExt

CONSTANTS
    Malformed,   \* a score or a recommendation that is missing or of the wrong type
    Failed       \* the exception that makes the job retry

ASSUME MalformedAssumption == Malformed \notin Int

SCORE_DIMENSIONS ==
    {"knowledge", "communication", "relevance", "jobFit", "problemSolving", "confidence"}
QUESTION_DIMENSIONS == {"knowledge", "communication", "relevance"}
Recommendations == {"strong_hire", "hire", "no_hire", "strong_no_hire"}

Bounded(n) == Max({0, Min({100, n})})
(* Math.round of a number in tenths *)
clampScore(tenths) == Bounded((tenths + 5) \div 10)
(* The rounded mean of the values of a function, 0 without values. *)
average(f) ==
    LET n == Cardinality(DOMAIN f)
    IN  IF n = 0 THEN 0 ELSE Bounded((2 * Total(f) + n) \div (2 * n))

isScore(v) == v # Malformed /\ v >= 0 /\ v <= 1000

(* A question is [questionId, hasSpeech].  The last entry of the reply for a    *)
(* question is the one that counts.                                            *)
Entries(reply, id) == {k \in DOMAIN reply.perQuestion : reply.perQuestion[k].questionId = id}
EntryFor(reply, id) == reply.perQuestion[Max(Entries(reply, id))]

Usable(entry) == entry.feedback /\ \A d \in QUESTION_DIMENSIONS : isScore(entry.marks[d])

Acceptable(reply, questions) ==
    /\ reply.recommendation \in Recommendations
    /\ reply.texts
    /\ \A d \in SCORE_DIMENSIONS : isScore(reply.scores[d])
    /\ \A q \in questions : q.hasSpeech =>
          /\ Entries(reply, q.questionId) # {}
          /\ Usable(EntryFor(reply, q.questionId))

(* What may be stored of an interview with these questions. *)
Analyses == [score : 0..100, dimensionScores : [QUESTION_DIMENSIONS -> 0..100]]
Evaluations(ids) ==
    [overallScore : 0..100, recommendation : Recommendations,
     scores : [SCORE_DIMENSIONS -> 0..100],
     perQuestion : SUBSET [questionId : ids, analysis : Analyses]]

noAnswer == [score |-> 0, dimensionScores |-> [d \in QUESTION_DIMENSIONS |-> 0]]

Analysis(entry) ==
    LET marks == [d \in QUESTION_DIMENSIONS |-> clampScore(entry.marks[d])]
    IN  [score |-> average(marks), dimensionScores |-> marks]

normalise_TrustsReply(reply, questions) ==
    LET scores == [d \in SCORE_DIMENSIONS |-> clampScore(reply.scores[d])]
        answered(q) == Entries(reply, q.questionId) # {} /\ Usable(EntryFor(reply, q.questionId))
    IN  IF ~Acceptable(reply, questions) THEN Failed
        ELSE [overallScore |-> average(scores),
              recommendation |-> reply.recommendation,
              scores |-> scores,
              perQuestion |-> {[questionId |-> q.questionId, analysis |->
                  IF answered(q) THEN Analysis(EntryFor(reply, q.questionId)) ELSE noAnswer] :
                  q \in questions}]

normalise(reply, questions) ==
    LET scores == [d \in SCORE_DIMENSIONS |-> clampScore(reply.scores[d])]
    IN  IF ~Acceptable(reply, questions) THEN Failed
        ELSE [overallScore |-> average(scores),
              recommendation |-> reply.recommendation,
              scores |-> scores,
              perQuestion |-> {[questionId |-> q.questionId, analysis |->
                  IF q.hasSpeech THEN Analysis(EntryFor(reply, q.questionId)) ELSE noAnswer] :
                  q \in questions}]

noSpeechEvaluation(questions) ==
    [overallScore |-> 0,
     recommendation |-> "strong_no_hire",
     scores |-> [d \in SCORE_DIMENSIONS |-> 0],
     perQuestion |-> {[questionId |-> q.questionId, analysis |-> noAnswer] : q \in questions}]

(* The reply of LLM_PROVIDER=mock, for questions in the order of ids. *)
mockResult(ids) ==
    [recommendation |-> "hire",
     texts |-> TRUE,
     scores |-> [knowledge |-> 760, communication |-> 820, relevance |-> 850,
                 jobFit |-> 720, problemSolving |-> 700, confidence |-> 780],
     perQuestion |-> [i \in DOMAIN ids |->
        [questionId |-> ids[i], feedback |-> TRUE,
         marks |-> [knowledge |-> 700 + 50 * ((i - 1) % 3), communication |-> 800,
                    relevance |-> 850 - 100 * ((i - 1) % 2)]]]]

================================================================================
