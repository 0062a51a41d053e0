------------------------------ MODULE SpeechMetrics ------------------------------
(***************************************************************************)
(* What is measured on an answer: how long the candidate spoke, how fast,  *)
(* with which pauses, and the same over the whole interview.               *)
(*                                                                         *)
(* Times are in hundredths of a second, ratios in hundredths.  A segment   *)
(* whose times are no numbers is dropped like one that ends before it      *)
(* starts, and is not told from it.                                        *)
(***************************************************************************)
EXTENDS Sums, Sequences, SequencesExt

CONSTANT None   \* no transcript, no recording length, nothing measured

ASSUME NoneAssumption == None \notin Int

LONG_PAUSE == 200
(* Below this much speech there is no pace. *)
ENOUGH == 300

(* Math.round(n / m) for n >= 0 *)
Rounded(n, m) == (2 * n + m) \div (2 * m)
round1(t) == 10 * Rounded(t, 10)

(* A text is abstracted to its number of words. *)
countWords(text) == IF text = None THEN 0 ELSE text

wordsPerMinute(words, speaking) ==
    IF speaking >= ENOUGH /\ words > 0 THEN Rounded(6000 * words, speaking) ELSE None

talkRatio(speaking, recording) ==
    IF recording \in {None, 0} THEN None
    ELSE Min({100, Rounded(100 * speaking, recording)})

Length(s) == s.end - s.start

Ordered_AsReceived(segments) == SelectSeq(segments, LAMBDA s : s.end >= s.start)

(* The segments in the order in which they start, by a stable sort. *)
Ordered(segments) ==
    LET kept == {i \in DOMAIN segments : segments[i].end >= segments[i].start}
        before(i, j) == \/ segments[i].start < segments[j].start
                        \/ segments[i].start = segments[j].start /\ i < j
        order == CHOOSE o \in [1..Cardinality(kept) -> kept] :
                     \A k, l \in DOMAIN o : k < l => before(o[k], o[l])
    IN  [k \in DOMAIN order |-> segments[order[k]]]

(* The input is [words, segments, recording]; a row without segments has <<>>. *)
computeAnswerSpeechMetrics(input) ==
    LET segments == Ordered(input.segments)
        words == countWords(input.words)
        speaking == round1(Total([i \in DOMAIN segments |-> Length(segments[i])]))
    IN  [wordCount |-> words,
         speaking |-> speaking,
         recording |-> input.recording,
         wordsPerMinute |-> wordsPerMinute(words, speaking),
         talkRatio |-> talkRatio(speaking, input.recording),
         longPauses |-> Quantify(DOMAIN segments \ {1}, LAMBDA i :
                            segments[i].start - segments[i - 1].end >= LONG_PAUSE),
         responseDelay |-> IF segments = <<>> THEN None ELSE round1(segments[1].start)]

(* The metrics of the whole interview from those of its questions. *)
Aggregate(perQuestion) ==
    LET all == DOMAIN perQuestion
        words == Total([q \in all |-> perQuestion[q].wordCount])
        speaking == round1(Total([q \in all |-> perQuestion[q].speaking]))
        withLength == {q \in all : perQuestion[q].recording \notin {None, 0}}
        recording == IF withLength = {} THEN None
                     ELSE Total([q \in withLength |-> perQuestion[q].recording])
        delayed == {q \in all : perQuestion[q].wordCount > 0
                                /\ perQuestion[q].responseDelay # None}
    IN  [wordCount |-> words,
         speaking |-> speaking,
         recording |-> recording,
         wordsPerMinute |-> wordsPerMinute(words, speaking),
         talkRatio |-> talkRatio(speaking, recording),
         longPauses |-> Total([q \in all |-> perQuestion[q].longPauses]),
         responseDelay |->
            IF delayed = {} THEN None
            ELSE 10 * Rounded(Total([q \in delayed |-> perQuestion[q].responseDelay]),
                              10 * Cardinality(delayed))]

computeSpeechMetrics(inputs) ==
    LET perQuestion == [q \in DOMAIN inputs |-> computeAnswerSpeechMetrics(inputs[q])]
    IN  [perQuestion |-> perQuestion, overall |-> Aggregate(perQuestion)]

--------------------------------------------------------------------------------
(* What the metrics are to measure, said of the moments of the recording.      *)

Heard(segments) == {s \in ToSet(segments) : s.end >= s.start}
(* The moments at which an utterance ends and nothing is heard for LONG_PAUSE, *)
(* but something later.                                                        *)
Silences(segments) ==
    {s.end : s \in {u \in Heard(segments) :
        /\ \E next \in Heard(segments) : next.start >= u.end + LONG_PAUSE
        /\ \A o \in Heard(segments) : o.start >= u.end + LONG_PAUSE \/ o.end <= u.end}}

(* One speaker: no two utterances overlap, and none is empty. *)
OneSpeaker(segments) ==
    \A i, j \in {k \in DOMAIN segments : segments[k].end >= segments[k].start} :
        IF i = j THEN segments[i].start < segments[i].end
        ELSE segments[i].end <= segments[j].start \/ segments[j].end <= segments[i].start

================================================================================
