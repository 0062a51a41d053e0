--------------------------------- MODULE Figures ---------------------------------
(***************************************************************************)
(* The figures a recruiter reads, each computed in one go from rows and a  *)
(* reply of the language model: the delivery and the scores of one         *)
(* interview, and the overview of the organization.  A step computes one   *)
(* of them for some input, and the next step forgets it.                   *)
(***************************************************************************)
EXTENDS SpeechMetrics, Scoring

CONSTANTS
    Interviews,   \* an interview and the reply of the model each
    Overviews,    \* an organization, a period and a moment each
    OpenJobsShown, RecentShown

Dashboard == INSTANCE Dashboard

VARIABLE figure   \* the figure computed last, with its input

vars == <<figure>>

(* An interview has per question the words of its text in the transcript and   *)
(* in the answer's row, and the answer's segments and length.                  *)
Text(answer) == IF answer.assembled # None THEN answer.assembled ELSE answer.stored

MetricsInput(answers) ==
    [q \in DOMAIN answers |->
        [words |-> Text(answers[q]), segments |-> answers[q].segments,
         recording |-> answers[q].recording]]

PromptQuestions(answers) ==
    {[questionId |-> q, hasSpeech |-> countWords(Text(answers[q])) > 0] : q \in DOMAIN answers}

Evaluation(answers, reply) ==
    LET questions == PromptQuestions(answers)
    IN  IF \A q \in questions : ~q.hasSpeech THEN noSpeechEvaluation(questions)
        ELSE normalise(reply, questions)

--------------------------------------------------------------------------------
(* What the figures are computed from, as far as the code relies on it.        *)

AnswerInput ==
    [assembled : Nat \cup {None}, stored : Nat \cup {None},
     segments : Seq([start : Int, end : Int]), recording : Nat \cup {None}]

(* A parsed reply: whatever is no number is Malformed. *)
IsReply(reply) ==
    /\ reply.scores \in [SCORE_DIMENSIONS -> Int \cup {Malformed}]
    /\ DOMAIN reply.perQuestion = 1..Len(reply.perQuestion) /\ Len(reply.perQuestion) \in Nat
    /\ \A k \in DOMAIN reply.perQuestion :
          reply.perQuestion[k].marks \in [QUESTION_DIMENSIONS -> Int \cup {Malformed}]

(* An interview that has a transcript has a question. *)
ASSUME InterviewsAssumption ==
    \A i \in Interviews :
        /\ DOMAIN i.answers # {} /\ IsFiniteSet(DOMAIN i.answers)
        /\ \A q \in DOMAIN i.answers : i.answers[q] \in AnswerInput
        /\ IsReply(i.reply)
        /\ Failed \notin Evaluations(DOMAIN i.answers)

(* Rows carry their moments; whatever made an interview completed has stored   *)
(* its summary (the transaction of EvaluationService.evaluate).                *)
IsTable(table) ==
    IsFiniteSet(DOMAIN table) /\ \A r \in DOMAIN table : table[r].created \in Int

IsOrganization(org) ==
    /\ IsTable(org.jobs) /\ IsTable(org.candidates)
    /\ IsTable(org.interviews) /\ IsTable(org.summaries)
    /\ \A i \in DOMAIN org.interviews :
          org.interviews[i].status = "completed" => i \in DOMAIN org.summaries

ASSUME OverviewsAssumption ==
    \A o \in Overviews :
        /\ IsOrganization(o.org)
        /\ o.now \in Int /\ o.date \in 1..31 /\ o.days \in Int \cup {None}

ASSUME ShownAssumption == OpenJobsShown \in Nat /\ RecentShown \in Nat

--------------------------------------------------------------------------------

Init == figure = [kind |-> "none"]

evaluate ==
    /\ figure.kind = "none"
    /\ \E i \in Interviews :
          figure' = [kind |-> "evaluation", answers |-> i.answers, reply |-> i.reply,
                     metrics |-> computeSpeechMetrics(MetricsInput(i.answers)),
                     evaluation |-> Evaluation(i.answers, i.reply)]

overview ==
    /\ figure.kind = "none"
    /\ \E o \in Overviews :
          figure' = [kind |-> "overview", org |-> o.org, now |-> o.now,
                     days |-> Dashboard!period(o.days),
                     overview |-> Dashboard!getOverview(
                                      o.org, Dashboard!period(o.days), o.now, o.date),
                     jobs |-> Dashboard!withApplicantInfo(o.org)]

Forget == figure.kind # "none" /\ figure' = [kind |-> "none"]

Next == evaluate \/ overview \/ Forget
Spec == Init /\ [][Next]_vars

--------------------------------------------------------------------------------
(* Delivery.                                                                   *)

Between(v, S) == Min(S) - 1 <= v /\ v <= Max(S) + 1

AnswerMeasured(answer, m) ==
    /\ m.longPauses >= Cardinality(Silences(answer.segments))
    /\ OneSpeaker(answer.segments) =>
          /\ m.longPauses = Cardinality(Silences(answer.segments))
          /\ m.responseDelay # None =>
                m.responseDelay + m.speaking + LONG_PAUSE * m.longPauses
                    <= Max({s.end : s \in Heard(answer.segments)}) + 10
    /\ m.talkRatio # None => m.talkRatio \in 0..100

(* The delivery shown beside the scores (speech-metrics.ts:6) is what was      *)
(* heard, in whatever order its segments came: of one speaker exactly the      *)
(* silences are pauses, and delay, speech and pauses fit in the recording;     *)
(* the pace and the talk ratio of the interview lie between those of its       *)
(* answers, rounding aside, when all of them have one.                         *)
MetricsAreMeasured ==
    figure.kind = "evaluation" =>
        LET m == figure.metrics.perQuestion
            all == DOMAIN m
        IN  /\ \A q \in all : AnswerMeasured(figure.answers[q], m[q])
            /\ (\A q \in all : m[q].wordsPerMinute # None) =>
                  Between(figure.metrics.overall.wordsPerMinute, {m[q].wordsPerMinute : q \in all})
            /\ (\A q \in all : m[q].talkRatio # None) =>
                  Between(figure.metrics.overall.talkRatio, {m[q].talkRatio : q \in all})

--------------------------------------------------------------------------------
(* Scores.                                                                     *)

Spoke(answer) == Text(answer) \notin {None, 0}

IsSound(answers, e) ==
    LET scores == {e.scores[d] : d \in SCORE_DIMENSIONS}
        marks(a) == {a.dimensionScores[d] : d \in QUESTION_DIMENSIONS}
    IN  /\ scores \subseteq 0..100
        /\ e.overallScore \in Min(scores)..Max(scores)
        /\ \A q \in DOMAIN answers :
              /\ Cardinality({p \in e.perQuestion : p.questionId = q}) = 1
              /\ \A p \in e.perQuestion : p.questionId = q =>
                    /\ marks(p.analysis) \subseteq 0..100
                    /\ p.analysis.score \in Min(marks(p.analysis))..Max(marks(p.analysis))
                    /\ ~Spoke(answers[q]) => marks(p.analysis) = {0}
        /\ (\A q \in DOMAIN answers : ~Spoke(answers[q])) =>
              e.overallScore = 0 /\ e.recommendation = "strong_no_hire"

(* An evaluation that is stored is whole and agrees with itself and with what  *)
(* was said (evaluation.service.ts:348): every question is analysed once, one  *)
(* without speech at zero whatever the model said, the overall score and each  *)
(* question's lie within their parts, all between 0 and 100, and without any   *)
(* speech the recommendation is strong_no_hire.  The development provider's    *)
(* reply is never refused.                                                     *)
EvaluationIsSound ==
    figure.kind = "evaluation" =>
        /\ figure.evaluation # Failed => IsSound(figure.answers, figure.evaluation)
        /\ normalise(mockResult(SetToSeq(DOMAIN figure.answers)),
                     PromptQuestions(figure.answers)) # Failed

--------------------------------------------------------------------------------
(* Overview.                                                                   *)

(* The rows of a table that fall on the days from first to last. *)
OnDays(times, first, last) ==
    Cardinality({r \in DOMAIN times : times[r] \div 2 \in first..last})

(* A delta compares whole days: those of the period with as many before. *)
TrendIsOfItsDays(trend, times, days, now) ==
    LET n == days \div 2
        today == now \div 2
    IN  /\ Len(trend.sparkline) = n
        /\ \A i \in 1..n : trend.sparkline[i] = OnDays(times, today - n + i, today - n + i)
        /\ trend.delta = OnDays(times, today - n + 1, today) - OnDays(times, today - 2 * n + 1, today - n)

CountsAgree(org, o) ==
    /\ o.candidates.value =
          Total(o.candidatesByStage)
    /\ o.aiSummary.candidatesReadyToAdvance <=
          Cardinality({c \in DOMAIN org.candidates : org.candidates[c].stage = "interview"})
    /\ Total([k \in DOMAIN o.openJobs |-> o.openJobs[k].screening]) <= o.inScreening.value
    /\ o.interviewsCompleted.value + o.interviewsPending.value
          >= Total([k \in DOMAIN o.openJobs |-> o.openJobs[k].interviews])
             - Cardinality({i \in DOMAIN org.interviews : org.interviews[i].status = "cancelled"})

JobsAgree(org, o, jobs) ==
    /\ \A k \in DOMAIN o.openJobs :
          LET info == jobs[o.openJobs[k].job]
          IN  /\ info.applicantsCount = o.openJobs[k].applicants
              /\ Len(info.recentApplicants) = Min({RecentShown, info.applicantsCount})
    /\ LET best == o.aiSummary.strongestOpenReq
       IN  best # None =>
             /\ org.jobs[best].status = "open"
             /\ \A j \in DOMAIN org.jobs :
                   org.jobs[j].status = "open" =>
                       jobs[j].applicantsCount <= jobs[best].applicantsCount

(* The figures that are computed apart from each other, by fourteen queries    *)
(* and more, are of one organization (dashboard.service.ts:13): the trends of  *)
(* whole days count the rows of exactly their days, the stages add up to the   *)
(* candidates, a candidate recommended twice is ready once, completed and      *)
(* pending interviews account for those of the jobs but the cancelled, and the *)
(* overview and the jobs list count the same applicants.                       *)
OverviewAgrees ==
    figure.kind = "overview" =>
        LET o == figure.overview
            org == figure.org
            created(table) == [r \in DOMAIN table |-> table[r].created]
        IN  /\ figure.days % 2 = 0 =>
                  /\ TrendIsOfItsDays(o.candidates.trend, created(org.candidates), figure.days, figure.now)
                  /\ TrendIsOfItsDays(o.interviewsCompleted.trend, created(org.summaries),
                                      figure.days, figure.now)
            /\ CountsAgree(org, o)
            /\ JobsAgree(org, o, figure.jobs)

================================================================================
