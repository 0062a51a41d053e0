-------------------------------- MODULE MCFigures --------------------------------
(* Small inputs of Figures for TLC. *)
EXTENDS Figures, TLC

--------------------------------------------------------------------------------
(* Interviews: utterances in any order, overlapping, touching or malformed.    *)

Moments == {0, 150, 355, 700}
Segments == [start : Moments, end : Moments]

Answer(words, segments, recording) ==
    [assembled |-> words, stored |-> None, segments |-> segments, recording |-> recording]

OneAnswer ==
    {("q1" :> Answer(words, s, 700)) : words \in {0, 8}, s \in [1..3 -> Segments]}

(* Two answers: a text only in the answer's row, or an empty one in the        *)
(* transcript; lengths that are missing or shorter than the speech.            *)
SomeAnswers ==
    [assembled : {None, 0, 7}, stored : {None, 12},
     segments : {<<>>, <<[start |-> 0, end |-> 355]>>,
                 <<[start |-> 355, end |-> 700], [start |-> 0, end |-> 150]>>},
     recording : {None, 300, 705}]
TwoAnswers == {("q1" :> a) @@ ("q2" :> b) : a, b \in SomeAnswers}

(* Replies: one mark of each kind out of line, at the edges of the range. *)
Marks == {Malformed, -1, 0, 4, 995, 1000, 1001}
OneOff(dimensions) ==
    {[d \in dimensions |-> IF d = e THEN v ELSE w] : e \in dimensions, v \in Marks, w \in {5, 744}}
Good == [d \in SCORE_DIMENSIONS |-> 700]
Entry(id, marks, feedback) == [questionId |-> id, marks |-> marks, feedback |-> feedback]
EntryLists ==
    LET some == {Entry(id, m, TRUE) : id \in {"q1", "q2"}, m \in OneOff(QUESTION_DIMENSIONS)}
                \cup {Entry("q3", [d \in QUESTION_DIMENSIONS |-> 5], FALSE)}
    IN  {<<e>> : e \in some} \cup {<<e, f>> : e \in some, f \in some}

Reply(recommendation, scores, entries) ==
    [recommendation |-> recommendation, texts |-> TRUE, scores |-> scores, perQuestion |-> entries]
PlainEntries == <<Entry("q1", [d \in QUESTION_DIMENSIONS |-> 800], TRUE),
                  Entry("q2", [d \in QUESTION_DIMENSIONS |-> 5], TRUE)>>
PlainReply == Reply("no_hire", Good, PlainEntries)
Replies ==
    {Reply("hire", Good, e) : e \in EntryLists}
    \cup {Reply(r, s, PlainEntries) : r \in {"hire", Malformed}, s \in OneOff(SCORE_DIMENSIONS)}
    \cup {[PlainReply EXCEPT !.texts = FALSE]}

Spoken == Answer(8, <<[start |-> 0, end |-> 355]>>, 700)
Silent == Answer(0, <<>>, 700)
ScoredAnswers == {("q1" :> a) @@ ("q2" :> b) : a, b \in {Spoken, Silent}}

MCInterviews ==
    {[answers |-> a, reply |-> PlainReply] : a \in OneAnswer \cup TwoAnswers}
    \cup {[answers |-> a, reply |-> r] : a \in ScoredAnswers, r \in Replies}

--------------------------------------------------------------------------------
(* Organizations, at noon of the tenth day.                                    *)

Now == 21
Times == {12, 15, 16, 19, 21}

Jobs == ("j1" :> [status |-> "open", created |-> 12])
        @@ ("j2" :> [status |-> "closed", created |-> 16])
        @@ ("j3" :> [status |-> "open", created |-> 15])

Candidate == {c \in [job : {"j1", "j2", None}, stage : {"screening", "interview", "hired"},
                     created : Times, updated : Times] : c.updated >= c.created}
NoInterviews == <<>>
Nobody == <<>>

(* When the candidates came and were last touched. *)
Arrivals ==
    {[jobs |-> Jobs, candidates |-> ("c1" :> c) @@ ("c2" :> d),
      interviews |-> NoInterviews, summaries |-> <<>>] :
        c \in Candidate, d \in {x \in Candidate : x.job = "j1" /\ x.updated = 21}}
    \cup {[jobs |-> Nobody, candidates |-> Nobody, interviews |-> Nobody, summaries |-> Nobody]}

(* Two interviews of one candidate and one of another; a summary has made its  *)
(* interview completed, and may outlive it.                                    *)
Interview == [candidate : {"c1"}, job : {"j1", "j2"}, created : {16}, scheduled : {None, 20, 23},
              status : {"scheduled", "completed", "cancelled"}]
Summary == [recommendation : {"hire", "no_hire"}, created : {18, 19, 21}]
Reviews ==
    {o \in [jobs : {Jobs},
            candidates : [{"c1", "c2"} -> {[job |-> "j1", stage |-> s, created |-> 12, updated |-> 16] :
                                              s \in {"interview", "hired"}}],
            interviews : UNION {[I -> Interview] : I \in SUBSET {"i1", "i2"}},
            summaries : UNION {[I -> Summary] : I \in SUBSET {"i1", "i2"}}] :
        \A i \in DOMAIN o.interviews :
            (o.interviews[i].status = "completed") <=> i \in DOMAIN o.summaries}

Periods == {None, 0, 2, 4, 5, 181}
MCOverviews ==
    [org : Arrivals, days : Periods, now : {Now}, date : {1, 10}]
    \cup [org : Reviews, days : {4}, now : {Now}, date : {10}]

================================================================================
