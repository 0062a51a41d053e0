---------------------------- MODULE SerialSessionProofs ----------------------------
(***************************************************************************)
(* What InterviewSession promises if requests and webhooks are served one  *)
(* at a time, for any number of questions and recordings: its rows change  *)
(* as Round allows, and nothing that is settled is lost.  The end of an    *)
(* egress, the clock, the evaluation and crashes still come at any time.   *)
(***************************************************************************)
EXTENDS SessionRefinesRound, InterviewSessionProofs

Recording == AnswersThatAre("recording")
Processing == AnswersThatAre("processing")

--------------------------------------------------------------------------------
(* The invariant of one handler.                                             *)

(* What holds of the rows between any two steps. *)
World ==
    /\ OneAnswerRecording
    /\ UploadedHasItsFile
    /\ Recording # {} => status \in {"in_progress", "cancelled"}
    /\ pipeline # "idle" =>
         /\ Recording = {} /\ Processing = {}
         /\ status \in {"pending_evaluation", "completed", "cancelled"}
    /\ status = "completed" => pipeline = "evaluated"
    /\ status \in {"scheduled", "invitation_sent"} => startedAt = NotStarted

(* What the handler has read is still so, since nobody else writes the rows. *)
KnowsAt(c) ==
    /\ c.pc \in RecordingSteps \cup {"findRecording", "stopAll", "markAll", "markSubmitted"} =>
         status = "in_progress"
    /\ c.pc = "beginRound" => status \in {"scheduled", "invitation_sent"}
    /\ c.pc = "mail" \/ (c.pc = "issueToken" /\ c.op = "sendInvitation") => status = "scheduled"
    /\ c.pc \in {"interrupt", "markInterrupted", "stopAll", "markAll"} =>
         c.todo = RowsWithStatus("recording")
    /\ c.pc \in {"stopOne", "markStopped"} => c.todo \subseteq RowsWithStatus("recording")
    /\ c.pc \in {"startEgress", "lookup", "overwrite", "insert"} => Recording \subseteq {c.q}
    /\ c.pc \in {"lookup", "overwrite", "insert"} => \A q \in Questions : answer[q].egress # c.e
    /\ c.pc = "markSubmitted" => Recording = {}
    /\ c.pc = "applyResult" =>
         answer[c.q].egress = c.e /\ answer[c.q].status \in {"recording", "processing"}
    /\ c.pc \in {"countPending", "handOver"} /\ pipeline = "idle" => status = "pending_evaluation"
    /\ c.pc = "handOver" => Recording = {} /\ Processing = {}

SInv(h) == World /\ KnowsAt(call[h])

--------------------------------------------------------------------------------
(* What a step may do.                                                       *)

RoundStep == [AbstractRound!Next]_(AbstractRound!vars)

Keeps ==
    /\ startedAt # NotStarted => startedAt' = startedAt
    /\ pipeline # "idle" => answer' = answer
    /\ status = "cancelled" => status' \in {"cancelled", "completed"}
    /\ \A q \in Questions :
         answer[q].status \in {"uploaded", "failed"} /\ answer'[q].egress = answer[q].egress
           => answer'[q].status = answer[q].status

Good(h) == SInv(h)' /\ RoundStep /\ Keeps

(* An egress that was completed stays so. *)
FilesStay == \A e \in Egresses : egress[e].state = "complete" => egress'[e].state = "complete"

(* A step that writes none of the rows the round is made of. *)
LEMMA Unwritten ==
    ASSUME IInv, World, FilesStay, UNCHANGED <<status, startedAt, answer, pipeline>>
    PROVE  World' /\ RoundStep /\ Keeps
  <1>1. UploadedHasItsFile'
    BY DEF FilesStay, World, UploadedHasItsFile, IInv, RowsOK, EgressOfItsQuestion
  <1>2. World'
    BY <1>1 DEF World, OneAnswerRecording, Recording, Processing, AnswersThatAre
  <1>3. UNCHANGED AbstractRound!vars
    BY DEF AbstractRound!vars, Phase, Handed, AnswersThatAre
  <1> QED BY <1>2, <1>3 DEF RoundStep, Keeps

LEMMA KnowsStable ==
    ASSUME UNCHANGED <<status, answer, pipeline>>, NEW c, KnowsAt(c)
    PROVE  KnowsAt(c)'
  BY DEF KnowsAt, Recording, Processing, AnswersThatAre, RowsWithStatus

(* The handler reads, and goes on with what it has read. *)
LEMMA Reads ==
    ASSUME IInv, World, FilesStay, UNCHANGED <<status, startedAt, answer, pipeline>>,
           NEW h, NEW c, call'[h] = c, KnowsAt(c)
    PROVE  Good(h)
  <1>1. KnowsAt(c)'
    BY KnowsStable
  <1> QED BY <1>1, Unwritten DEF Good, SInv, KnowsAt

(* One row is written; which rows may be written how. *)
LEMMA Written ==
    ASSUME IInv, World, UNCHANGED <<status, startedAt, egress, pipeline>>, pipeline = "idle",
           NEW q \in Questions, NEW r \in Answer, answer' = [answer EXCEPT ![q] = r],
           \/ /\ r.status = "recording" /\ status = "in_progress" /\ Recording \subseteq {q}
              /\ answer[q].egress # r.egress
           \/ /\ r.status = "processing" /\ q \in Recording
              /\ r.egress = answer[q].egress
           \/ /\ r.status \in {"uploaded", "failed"} /\ q \in Recording \cup Processing
              /\ r.egress = answer[q].egress
              /\ r.status = "uploaded" => egress[r.egress].state = "complete"
    PROVE  /\ World' /\ RoundStep /\ Keeps
           /\ Recording' = IF r.status = "recording" THEN {q} ELSE Recording \ {q}
  <1>1. answer \in [Questions -> Answer] /\ status \in InterviewStatus
    BY DEF IInv, TypeOK
  <1>2. \A p \in Questions : answer'[p] = IF p = q THEN r ELSE answer[p]
    BY <1>1
  <1>3. Recording' = IF r.status = "recording" THEN {q} ELSE Recording \ {q}
    BY <1>2 DEF Recording, AnswersThatAre
  <1>4. Processing' = IF r.status = "processing" THEN Processing \cup {q} ELSE Processing \ {q}
    BY <1>2 DEF Processing, AnswersThatAre
  <1>5. AnswersThatAre("uploaded")' = IF r.status = "uploaded"
                                      THEN AnswersThatAre("uploaded") \cup {q}
                                      ELSE AnswersThatAre("uploaded") \ {q}
    BY <1>2 DEF AnswersThatAre
  <1>6. World'
    <2>1. OneAnswerRecording'
      BY <1>2, <1>3 DEF World, OneAnswerRecording, Recording, AnswersThatAre
    <2>2. UploadedHasItsFile'
      BY <1>2 DEF World, UploadedHasItsFile
    <2>3. Recording' # {} => status' \in {"in_progress", "cancelled"}
      BY <1>3 DEF World
    <2> QED BY <2>1, <2>2, <2>3 DEF World
  <1>7. Keeps
    BY <1>2 DEF Keeps, Recording, Processing, AnswersThatAre
  <1>8. RoundStep
    <2>1. UNCHANGED <<Phase, Handed>>
      BY DEF Phase, Handed
    <2>2. CASE r.status = "recording"
      <3>1. AbstractRound!Record(q)
        BY <1>3, <1>4, <1>5, <2>1, <2>2 DEF AbstractRound!Record, Phase, Recording, Processing
      <3> QED BY <3>1 DEF RoundStep, AbstractRound!Next
    <2>3. CASE r.status = "processing"
      <3>1. q \notin AnswersThatAre("uploaded")
        BY <2>3 DEF Recording, AnswersThatAre
      <3>2. AbstractRound!Stop(q)
        BY <1>3, <1>4, <1>5, <2>1, <2>3, <3>1 DEF AbstractRound!Stop, Recording, Processing
      <3> QED BY <3>2 DEF RoundStep, AbstractRound!Next
    <2>4. CASE r.status \in {"uploaded", "failed"}
      <3>1. q \notin AnswersThatAre("uploaded")
        BY <2>4 DEF Recording, Processing, AnswersThatAre
      <3>2. AbstractRound!Settle(q)
        BY <1>3, <1>4, <1>5, <2>1, <2>4, <3>1 DEF AbstractRound!Settle, Recording, Processing
      <3> QED BY <3>2 DEF RoundStep, AbstractRound!Next
    <2> QED BY <2>2, <2>3, <2>4
  <1> QED BY <1>3, <1>6, <1>7, <1>8

--------------------------------------------------------------------------------
(* Steps that only read.                                                     *)

(* The awaits at which a handler relies on nothing it has read. *)
CarefreeSteps ==
    {"idle", "load", "reload", "findAnswer", "useTokens", "removeParticipant", "readStatus",
     "findByEgress", "readAnswers", "reconcile", "markCancelled", "revoke", "setDuration"}

LEMMA Carefree ==
    ASSUME NEW c, c.pc \in CarefreeSteps
    PROVE  KnowsAt(c)
  BY DEF CarefreeSteps, KnowsAt, RecordingSteps

LEMMA IdleIsCarefree == Idle.pc \in CarefreeSteps
  BY DEF Idle, CarefreeSteps

(* A handler that goes to such an await, having written none of the rows. *)
LEMMA GoesCarefree ==
    ASSUME IInv, World, FilesStay, UNCHANGED <<status, startedAt, answer, pipeline>>,
           NEW h, call'[h].pc \in CarefreeSteps
    PROVE  Good(h)
  <1>1. PICK c : call'[h] = c
    OBVIOUS
  <1>2. KnowsAt(c)
    BY <1>1, Carefree
  <1> QED BY <1>1, <1>2, Reads

LEMMA NothingElse ==
    ASSUME UNCHANGED <<rowVars, now, egress, pipeline>>
    PROVE  FilesStay /\ UNCHANGED <<status, startedAt, answer, pipeline>>
  BY DEF FilesStay, rowVars

LEMMA BeginGood ==
    ASSUME IInv, NEW h \in Handlers, SInv(h), NEW op, NEW q, NEW e,
           NEW step \in {"load", "readAnswers", "findByEgress"}, Begin(h, op, step, q, e)
    PROVE  Good(h)
  <1>1. call'[h] = [Idle EXCEPT !.op = op, !.pc = step, !.q = q, !.e = e]
    BY DEF Begin, IInv, TypeOK
  <1>2. call'[h].pc \in CarefreeSteps
    BY <1>1 DEF CarefreeSteps, Idle
  <1> QED BY <1>2, NothingElse, GoesCarefree DEF SInv, Begin

LEMMA ArrivalGood ==
    ASSUME IInv, NEW h \in Handlers, SInv(h),
           \/ CandidateCall(h) \/ RecruiterCall(h) \/ RoomWebhook(h)
           \/ \E e \in Egresses : EgressWebhook(h, e)
    PROVE  Good(h)
  <1>1. CASE CandidateCall(h)
    BY <1>1, BeginGood DEF CandidateCall
  <1>2. CASE RecruiterCall(h)
    BY <1>2, BeginGood DEF RecruiterCall
  <1>3. CASE RoomWebhook(h)
    BY <1>3, BeginGood DEF RoomWebhook
  <1>4. CASE \E e \in Egresses : EgressWebhook(h, e)
    BY <1>4, BeginGood DEF EgressWebhook
  <1> QED BY <1>1, <1>2, <1>3, <1>4

(* Going on from where the rows were read to what they called for. *)
LEMMA ProceedGood ==
    ASSUME IInv, NEW h \in Handlers, SInv(h), UNCHANGED <<rowVars, now, egress, pipeline>>,
           NEW b \in BOOLEAN,
           call' = [call EXCEPT ![h] =
                      [call[h] EXCEPT !.pc = Proceed(call[h].op, status), !.auto = b]]
    PROVE  Good(h)
  <1>1. PICK c : call'[h] = c
    OBVIOUS
  <1>2. /\ c.op = call[h].op
        /\ c.pc = Proceed(call[h].op, status)
    BY <1>1 DEF IInv, TypeOK, Call
  <1>3. KnowsAt(c)
    BY <1>2 DEF KnowsAt, Proceed, StartsClock, Active, Terminal, RecordingSteps
  <1> QED BY <1>1, <1>3, NothingElse, Reads DEF SInv

LEMMA LoadGood ==
    ASSUME IInv, NEW h \in Handlers, SInv(h), Load(h)
    PROVE  Good(h)
  <1>1. UNCHANGED <<rowVars, now, egress, pipeline>> /\ call[h] \in Call
    BY DEF Load, IInv, TypeOK
  <1>2. CASE DeadlinePassed /\ call[h].op \in CandidateOp \cup WebhookOp
    <2>1. PICK c : call'[h] = c
      OBVIOUS
    <2>2. c.pc = "findRecording" /\ status = "in_progress"
      BY <1>1, <1>2, <2>1 DEF Load, DeadlinePassed, IInv, TypeOK, Call
    <2>3. KnowsAt(c)
      BY <2>2 DEF KnowsAt, RecordingSteps
    <2> QED BY <1>1, <2>1, <2>3, NothingElse, Reads DEF SInv
  <1>3. CASE ~(DeadlinePassed /\ call[h].op \in CandidateOp \cup WebhookOp)
    <2>1. CASE Proceed(call[h].op, status) = "idle"
      <3>1. call'[h] = Idle
        BY <1>3, <2>1 DEF Load, GotoOrReturn, Return, IInv, TypeOK
      <3> QED BY <1>1, <3>1, IdleIsCarefree, NothingElse, GoesCarefree DEF SInv
    <2>2. CASE Proceed(call[h].op, status) # "idle"
      <3>1. call' = [call EXCEPT ![h] =
              [call[h] EXCEPT !.pc = Proceed(call[h].op, status), !.auto = call[h].auto]]
        BY <1>1, <1>3, <2>2 DEF Load, GotoOrReturn, Goto, Call
      <3>2. call[h].auto \in BOOLEAN
        BY <1>1 DEF Call
      <3> QED BY <1>1, <3>1, <3>2, ProceedGood
    <2> QED BY <2>1, <2>2
  <1> QED BY <1>2, <1>3

LEMMA ReloadGood ==
    ASSUME IInv, NEW h \in Handlers, SInv(h), Reload(h)
    PROVE  Good(h)
  <1>1. UNCHANGED <<rowVars, now, egress, pipeline>>
    BY DEF Reload
  <1>2. CASE Proceed(call[h].op, status) = "idle"
    <2>1. call'[h] = Idle
      BY <1>2 DEF Reload, Return, IInv, TypeOK
    <2> QED BY <1>1, <2>1, IdleIsCarefree, NothingElse, GoesCarefree DEF SInv
  <1>3. CASE Proceed(call[h].op, status) # "idle"
    <2>1. call' = [call EXCEPT ![h] =
            [call[h] EXCEPT !.pc = Proceed(call[h].op, status), !.auto = FALSE]]
      BY <1>3 DEF Reload, IInv, TypeOK
    <2> QED BY <1>1, <2>1, ProceedGood
  <1> QED BY <1>2, <1>3

(* A handler that goes on, or back to its caller, relying on nothing. *)
LEMMA GoesOnGood ==
    ASSUME IInv, NEW h \in Handlers, SInv(h),
           FilesStay, UNCHANGED <<status, startedAt, answer, pipeline>>,
           NEW step \in CarefreeSteps, GotoOrReturn(h, step)
    PROVE  Good(h)
  <1>1. CASE step = "idle"
    <2>1. call'[h] = Idle
      BY <1>1 DEF GotoOrReturn, Return, IInv, TypeOK
    <2> QED BY <2>1, IdleIsCarefree, GoesCarefree DEF SInv
  <1>2. CASE step # "idle"
    <2>1. call'[h].pc = step
      BY <1>2 DEF GotoOrReturn, Goto, IInv, TypeOK, Call
    <2> QED BY <2>1, GoesCarefree DEF SInv
  <1> QED BY <1>1, <1>2

LEMMA ResumeIsCarefree ==
    ASSUME NEW h PROVE Resume(h) \in CarefreeSteps
  BY ResumeFacts DEF CarefreeSteps

LEMMA FindRecordingGood ==
    ASSUME IInv, NEW h \in Handlers, SInv(h), FindRecording(h)
    PROVE  Good(h)
  <1>1. UNCHANGED <<rowVars, now, egress, pipeline>>
    BY DEF FindRecording
  <1>2. PICK c : call'[h] = c
    OBVIOUS
  <1>3. /\ c.todo = RowsWithStatus("recording")
        /\ c.pc = IF RowsWithStatus("recording") = {} THEN "markSubmitted" ELSE "stopAll"
    BY <1>2 DEF FindRecording, IInv, TypeOK, Call
  <1>4. status = "in_progress"
    BY DEF FindRecording, At, SInv, KnowsAt
  <1>5. RowsWithStatus("recording") = {} => Recording = {}
    BY DEF RowsWithStatus, Recording, AnswersThatAre
  <1>6. KnowsAt(c)
    BY <1>3, <1>4, <1>5 DEF KnowsAt, RecordingSteps
  <1> QED BY <1>1, <1>2, <1>6, NothingElse, Reads DEF SInv

LEMMA FindInterruptedGood ==
    ASSUME IInv, NEW h \in Handlers, SInv(h), FindInterrupted(h)
    PROVE  Good(h)
  <1>1. UNCHANGED <<rowVars, now, egress, pipeline>>
    BY DEF FindInterrupted
  <1>2. PICK c : call'[h] = c
    OBVIOUS
  <1>3. /\ c.todo = RowsWithStatus("recording")
        /\ c.pc = IF RowsWithStatus("recording") = {} THEN "startEgress" ELSE "interrupt"
    BY <1>2 DEF FindInterrupted, IInv, TypeOK, Call
  <1>4. status = "in_progress"
    BY DEF FindInterrupted, At, SInv, KnowsAt, RecordingSteps
  <1>5. RowsWithStatus("recording") = {} => Recording = {}
    BY DEF RowsWithStatus, Recording, AnswersThatAre
  <1>6. KnowsAt(c)
    BY <1>3, <1>4, <1>5 DEF KnowsAt, RecordingSteps
  <1> QED BY <1>1, <1>2, <1>6, NothingElse, Reads DEF SInv

LEMMA FindAnswerGood ==
    ASSUME IInv, NEW h \in Handlers, SInv(h), FindAnswer(h)
    PROVE  Good(h)
  <1> DEFINE rows == {t \in RowsWithStatus("recording") : t[1] = call[h].q}
  <1>1. UNCHANGED <<rowVars, now, egress, pipeline>>
    BY DEF FindAnswer
  <1>2. CASE rows = {}
    <2>1. GotoOrReturn(h, "idle")
      BY <1>2 DEF FindAnswer, GotoOrReturn
    <2> QED BY <1>1, <2>1, NothingElse, GoesOnGood DEF CarefreeSteps
  <1>3. CASE rows # {}
    <2>1. PICK c : call'[h] = c
      OBVIOUS
    <2>2. call' = [call EXCEPT ![h].pc = "stopOne", ![h].todo = rows]
      BY <1>3 DEF FindAnswer
    <2>3. rows \subseteq RowsWithStatus("recording")
      OBVIOUS
    <2> HIDE DEF rows
    <2>4. c.pc = "stopOne" /\ c.todo = rows
      BY <2>1, <2>2 DEF IInv, TypeOK, Call
    <2>5. KnowsAt(c)
      BY <2>3, <2>4 DEF KnowsAt, RecordingSteps
    <2> QED BY <1>1, <2>1, <2>5, NothingElse, Reads DEF SInv
  <1> QED BY <1>2, <1>3

LEMMA ReadStatusGood ==
    ASSUME IInv, NEW h \in Handlers, SInv(h), ReadStatus(h)
    PROVE  Good(h)
  <1>1. UNCHANGED <<rowVars, now, egress, pipeline>>
    BY DEF ReadStatus
  <1>2. CASE status = "pending_evaluation"
    <2>1. PICK c : call'[h] = c
      OBVIOUS
    <2>2. c.pc = "countPending"
      BY <1>2, <2>1 DEF ReadStatus, Goto, IInv, TypeOK, Call
    <2>3. KnowsAt(c)
      BY <1>2, <2>2 DEF KnowsAt, RecordingSteps
    <2> QED BY <1>1, <2>1, <2>3, NothingElse, Reads DEF SInv
  <1>3. CASE status # "pending_evaluation"
    BY <1>1, <1>3, ResumeIsCarefree, NothingElse, GoesOnGood DEF ReadStatus
  <1> QED BY <1>2, <1>3

LEMMA CountPendingGood ==
    ASSUME IInv, NEW h \in Handlers, SInv(h), CountPending(h)
    PROVE  Good(h)
  <1>1. UNCHANGED <<rowVars, now, egress, pipeline>>
    BY DEF CountPending
  <1>2. CASE \E q \in Questions : answer[q].status \in PendingStatus
    BY <1>1, <1>2, ResumeIsCarefree, NothingElse, GoesOnGood DEF CountPending
  <1>3. CASE ~(\E q \in Questions : answer[q].status \in PendingStatus)
    <2>1. PICK c : call'[h] = c
      OBVIOUS
    <2>2. c.pc = "handOver"
      BY <1>3, <2>1 DEF CountPending, Goto, IInv, TypeOK, Call
    <2>3. Recording = {} /\ Processing = {}
      BY <1>3 DEF PendingStatus, Recording, Processing, AnswersThatAre
    <2>4. pipeline = "idle" => status = "pending_evaluation"
      BY DEF CountPending, At, SInv, KnowsAt
    <2>5. KnowsAt(c)
      BY <2>2, <2>3, <2>4 DEF KnowsAt, RecordingSteps
    <2> QED BY <1>1, <2>1, <2>5, NothingElse, Reads DEF SInv
  <1> QED BY <1>2, <1>3

LEMMA LookupGood ==
    ASSUME IInv, NEW h \in Handlers, SInv(h), Lookup(h)
    PROVE  Good(h)
  <1>1. UNCHANGED <<rowVars, now, egress, pipeline>>
    BY DEF Lookup
  <1>2. PICK c : call'[h] = c
    OBVIOUS
  <1>3. /\ c.pc \in {"insert", "overwrite"}
        /\ c.q = call[h].q /\ c.e = call[h].e
    BY <1>2 DEF Lookup, Goto, IInv, TypeOK, Call
  <1>4. KnowsAt(c)
    BY <1>3 DEF Lookup, At, SInv, KnowsAt, RecordingSteps
  <1> QED BY <1>1, <1>2, <1>4, NothingElse, Reads DEF SInv

LEMMA FindByEgressGood ==
    ASSUME IInv, NEW h \in Handlers, SInv(h), FindByEgress(h)
    PROVE  Good(h)
  <1>1. UNCHANGED <<rowVars, now, egress, pipeline>>
    BY DEF FindByEgress
  <1>2. CASE RowsAwaiting(call[h].e) = {} \/ ~Conclusive(call[h].e)
    BY <1>1, <1>2, ResumeIsCarefree, NothingElse, GoesOnGood DEF FindByEgress
  <1>3. CASE ~(RowsAwaiting(call[h].e) = {} \/ ~Conclusive(call[h].e))
    <2>1. PICK q \in RowsAwaiting(call[h].e) :
            call' = [call EXCEPT ![h].pc = "applyResult", ![h].q = q]
      BY <1>3 DEF FindByEgress
    <2>2. PICK c : call'[h] = c
      OBVIOUS
    <2>3. c.pc = "applyResult" /\ c.q = q /\ c.e = call[h].e
      BY <2>1, <2>2 DEF IInv, TypeOK, Call
    <2>4. /\ answer[q].egress = call[h].e
          /\ answer[q].status \in {"recording", "processing"}
      <3>1. call[h].e \in Egresses
        BY DEF FindByEgress, At, IInv, LocalsOK, LocalOK
      <3> QED
        BY <2>1, <3>1, NoEgressAssumption
        DEF RowsAwaiting, RowsOfEgress, FinalStatus, IInv, TypeOK, RowsOK, Answer, AnswerStatus
    <2>5. KnowsAt(c)
      BY <2>3, <2>4 DEF KnowsAt, RecordingSteps
    <2> QED BY <1>1, <2>2, <2>5, NothingElse, Reads DEF SInv
  <1> QED BY <1>2, <1>3

LEMMA ReadAnswersGood ==
    ASSUME IInv, NEW h \in Handlers, SInv(h), ReadAnswers(h)
    PROVE  Good(h)
  <1>1. UNCHANGED <<rowVars, now, egress, pipeline>>
    BY DEF ReadAnswers
  <1>2. PICK stale : IF stale = {} THEN Return(h)
                     ELSE call' = [call EXCEPT ![h].pc = "reconcile", ![h].todo = stale]
    BY DEF ReadAnswers
  <1>3. call'[h].pc \in {"idle", "reconcile"}
    BY <1>2 DEF Return, Idle, IInv, TypeOK, Call
  <1> QED BY <1>1, <1>3, NothingElse, GoesCarefree DEF SInv, CarefreeSteps

LEMMA ReconcileGood ==
    ASSUME IInv, NEW h \in Handlers, SInv(h), Reconcile(h)
    PROVE  Good(h)
  <1>1. UNCHANGED <<rowVars, now, egress, pipeline>> /\ call[h].pc = "reconcile"
    BY DEF Reconcile, At
  <1>2. PICK t :
          \/ call' = [call EXCEPT ![h].pc = "findByEgress", ![h].todo = call[h].todo \ {t},
                                  ![h].e = t[2]]
          \/ call' = [call EXCEPT ![h] = Idle]
          \/ call' = [call EXCEPT ![h].todo = call[h].todo \ {t}]
    BY DEF Reconcile
  <1>3. call'[h].pc \in {"idle", "reconcile", "findByEgress"}
    BY <1>1, <1>2 DEF Idle, IInv, TypeOK, Call
  <1> QED BY <1>1, <1>3, NothingElse, GoesCarefree DEF SInv, CarefreeSteps

LEMMA IssueTokenGood ==
    ASSUME IInv, NEW h \in Handlers, SInv(h), IssueToken(h)
    PROVE  Good(h)
  <1>1. FilesStay /\ UNCHANGED <<status, startedAt, answer, pipeline>>
    BY DEF IssueToken, FilesStay
  <1>2. CASE call[h].op = "sendInvitation"
    <2>1. PICK c : call'[h] = c
      OBVIOUS
    <2>2. c.pc = "mail"
      BY <1>2, <2>1 DEF IssueToken, Goto, IInv, TypeOK, Call
    <2>3. status = "scheduled"
      BY <1>2 DEF IssueToken, At, SInv, KnowsAt
    <2>4. KnowsAt(c)
      BY <2>2, <2>3 DEF KnowsAt, RecordingSteps
    <2> QED BY <1>1, <2>1, <2>4, Reads DEF SInv
  <1>3. CASE call[h].op # "sendInvitation"
    <2>1. GotoOrReturn(h, "idle")
      BY <1>3 DEF IssueToken, GotoOrReturn
    <2> QED BY <1>1, <2>1, GoesOnGood DEF CarefreeSteps
  <1> QED BY <1>2, <1>3

(* The steps that write only the tokens or the length of the round, or nothing. *)
LEMMA OtherColumnsGood ==
    ASSUME IInv, NEW h \in Handlers, SInv(h),
           UseTokens(h) \/ Revoke(h) \/ SetDuration(h) \/ Crash(h)
    PROVE  Good(h)
  <1>1. FilesStay /\ UNCHANGED <<status, startedAt, answer, pipeline>>
    BY DEF UseTokens, Revoke, SetDuration, Crash, rowVars, FilesStay
  <1>2. CASE UseTokens(h)
    <2>1. GotoOrReturn(h, "removeParticipant")
      BY <1>2 DEF UseTokens, GotoOrReturn
    <2> QED BY <1>1, <2>1, GoesOnGood DEF CarefreeSteps
  <1>3. CASE Revoke(h) \/ SetDuration(h) \/ Crash(h)
    <2>1. GotoOrReturn(h, "idle")
      BY <1>3 DEF Revoke, SetDuration, Crash, GotoOrReturn
    <2> QED BY <1>1, <2>1, GoesOnGood DEF CarefreeSteps
  <1> QED BY <1>2, <1>3

--------------------------------------------------------------------------------
(* Steps that call LiveKit.                                                  *)

LEMMA StopAskedKeepsFiles ==
    ASSUME IInv, NEW es, AskToStop(es)
    PROVE  FilesStay
  BY DEF AskToStop, FilesStay, IInv, TypeOK, Egress

LEMMA RemoveParticipantGood ==
    ASSUME IInv, NEW h \in Handlers, SInv(h), RemoveParticipant(h)
    PROVE  Good(h)
  <1>1. FilesStay /\ UNCHANGED <<status, startedAt, answer, pipeline>>
    BY StopAskedKeepsFiles DEF RemoveParticipant, rowVars
  <1>2. GotoOrReturn(h, "readStatus")
    BY DEF RemoveParticipant, GotoOrReturn
  <1> QED BY <1>1, <1>2, GoesOnGood DEF CarefreeSteps

LEMMA StopNextGood ==
    ASSUME IInv, NEW h \in Handlers, SInv(h), NEW from, NEW to,
           \/ from = "stopAll" /\ to = "markAll"
           \/ from = "interrupt" /\ to = "markInterrupted"
           \/ from = "stopOne" /\ to = "markStopped",
           StopNext(h, from, to)
    PROVE  Good(h)
  <1>1. PICK t \in call[h].todo :
          /\ AskToStop({t[2]})
          /\ call' = [call EXCEPT ![h].pc = to, ![h].e = t[2]]
    BY DEF StopNext
  <1>2. FilesStay /\ UNCHANGED <<status, startedAt, answer, pipeline>>
    BY <1>1, StopAskedKeepsFiles DEF StopNext, rowVars
  <1>3. PICK c : call'[h] = c
    OBVIOUS
  <1>4. c.pc = to /\ c.todo = call[h].todo
    BY <1>1, <1>3 DEF IInv, TypeOK, Call
  <1>5. KnowsAt(c)
    BY <1>4 DEF StopNext, At, SInv, KnowsAt, RecordingSteps
  <1> QED BY <1>2, <1>3, <1>5, Reads DEF SInv

(* A fresh egress is named by no answer yet. *)
LEMMA StartEgressGood ==
    ASSUME IInv, NEW h \in Handlers, SInv(h), StartEgress(h)
    PROVE  Good(h)
  <1>1. UNCHANGED <<status, startedAt, answer, pipeline>>
    BY DEF StartEgress, rowVars
  <1>2. CASE \E e \in Egresses :
               /\ egress[e].state = "unused"
               /\ egress' = [egress EXCEPT ![e] = [state |-> "active", question |-> call[h].q]]
               /\ call' = [call EXCEPT ![h].pc = "lookup", ![h].e = e]
    <2>1. PICK e \in Egresses :
               /\ egress[e].state = "unused"
               /\ egress' = [egress EXCEPT ![e] = [state |-> "active", question |-> call[h].q]]
               /\ call' = [call EXCEPT ![h].pc = "lookup", ![h].e = e]
      BY <1>2
    <2>2. FilesStay
      BY <2>1 DEF FilesStay, IInv, TypeOK
    <2>3. \A q \in Questions : answer[q].egress # e
      BY <2>1, NoEgressAssumption DEF IInv, RowsOK, EgressOfItsQuestion
    <2>4. PICK c : call'[h] = c
      OBVIOUS
    <2>5. c.pc = "lookup" /\ c.q = call[h].q /\ c.e = e
      BY <2>1, <2>4 DEF IInv, TypeOK, Call
    <2>6. KnowsAt(c)
      BY <2>3, <2>5 DEF StartEgress, At, SInv, KnowsAt, RecordingSteps
    <2> QED BY <1>1, <2>2, <2>4, <2>6, Reads DEF SInv
  <1>3. CASE Return(h) /\ UNCHANGED egress
    <2>1. GotoOrReturn(h, "idle") /\ FilesStay
      BY <1>3 DEF GotoOrReturn, FilesStay
    <2> QED BY <1>1, <2>1, GoesOnGood DEF CarefreeSteps
  <1> QED BY <1>2, <1>3 DEF StartEgress

--------------------------------------------------------------------------------
(* Steps that write an answer.                                               *)

(* A pass over what is being recorded has one row. *)
LEMMA OneRow ==
    ASSUME IInv, World, NEW t \in RowsWithStatus("recording")
    PROVE  /\ t[1] \in Recording /\ t[1] \in Questions /\ t[2] = answer[t[1]].egress
           /\ Recording = {t[1]}
           /\ RowsWithStatus("recording") = {t}
           /\ pipeline = "idle"
  <1>1. PICK q \in Questions : answer[q].status = "recording" /\ t = <<q, answer[q].egress>>
    BY DEF RowsWithStatus
  <1>2. q \in Recording
    BY <1>1 DEF Recording, AnswersThatAre
  <1>3. \A p \in Questions : answer[p].status = "recording" => p = q
    BY <1>1 DEF World, OneAnswerRecording
  <1>4. Recording = {q}
    BY <1>2, <1>3 DEF Recording, AnswersThatAre
  <1>5. RowsWithStatus("recording") = {t}
    BY <1>1, <1>3 DEF RowsWithStatus
  <1>6. pipeline = "idle"
    BY <1>2 DEF World
  <1> QED BY <1>1, <1>4, <1>5, <1>6

(* The status of one row is written. *)
LEMMA StatusSet ==
    ASSUME IInv, World, UNCHANGED <<status, startedAt, egress, pipeline>>,
           NEW q \in Questions, NEW s \in {"processing", "uploaded", "failed"}, SetStatus(q, s),
           q \in IF s = "processing" THEN Recording ELSE Recording \cup Processing,
           s = "uploaded" => egress[answer[q].egress].state = "complete"
    PROVE  World' /\ RoundStep /\ Keeps /\ Recording' = Recording \ {q}
  <1>1. answer[q] \in Answer
    BY DEF IInv, TypeOK
  <1>2. PICK r \in Answer : r = [answer[q] EXCEPT !.status = s]
    BY <1>1 DEF Answer, AnswerStatus
  <1>3. r.status = s /\ r.egress = answer[q].egress
    BY <1>1, <1>2 DEF Answer
  <1>4. answer' = [answer EXCEPT ![q] = r]
    BY <1>2 DEF SetStatus
  <1>5. pipeline = "idle"
    BY DEF World
  <1> QED BY <1>3, <1>4, <1>5, Written

LEMMA MarkAllGood ==
    ASSUME IInv, NEW h \in Handlers, SInv(h), MarkAll(h)
    PROVE  Good(h)
  <1>1. PICK t \in call[h].todo :
          SetStatus(t[1], "processing") /\ PassOn(h, t, "stopAll", "markSubmitted")
    BY DEF MarkAll
  <1>2. /\ UNCHANGED <<status, startedAt, egress, pipeline>>
        /\ status = "in_progress" /\ World
        /\ call[h].todo = RowsWithStatus("recording")
    BY DEF MarkAll, At, SInv, KnowsAt
  <1>3. World' /\ RoundStep /\ Keeps /\ Recording' = Recording \ {t[1]}
    BY <1>1, <1>2, OneRow, StatusSet
  <1>4. Recording' = {}
    BY <1>1, <1>2, <1>3, OneRow
  <1>5. call[h].todo \ {t} = {}
    BY <1>1, <1>2, OneRow
  <1>6. PICK c : call'[h] = c
    OBVIOUS
  <1>7. c.pc = "markSubmitted"
    BY <1>1, <1>5, <1>6 DEF PassOn, IInv, TypeOK, Call
  <1>8. KnowsAt(c)'
    BY <1>2, <1>4, <1>7 DEF KnowsAt, RecordingSteps
  <1> QED BY <1>3, <1>6, <1>8 DEF Good, SInv, KnowsAt

LEMMA MarkInterruptedGood ==
    ASSUME IInv, NEW h \in Handlers, SInv(h), MarkInterrupted(h)
    PROVE  Good(h)
  <1>1. PICK t \in call[h].todo :
          /\ IF t[1] = call[h].q THEN UNCHANGED answer ELSE SetStatus(t[1], "failed")
          /\ PassOn(h, t, "interrupt", "startEgress")
    BY DEF MarkInterrupted
  <1>2. /\ UNCHANGED <<status, startedAt, egress, pipeline>>
        /\ status = "in_progress" /\ World
        /\ call[h].todo = RowsWithStatus("recording")
    BY DEF MarkInterrupted, At, SInv, KnowsAt, RecordingSteps
  <1>3. t[1] \in Questions /\ Recording = {t[1]} /\ call[h].todo \ {t} = {}
    BY <1>1, <1>2, OneRow
  <1>4. PICK c : call'[h] = c
    OBVIOUS
  <1>5. c.pc = "startEgress" /\ c.q = call[h].q
    BY <1>1, <1>3, <1>4 DEF PassOn, IInv, TypeOK, Call
  <1>6. CASE t[1] = call[h].q
    <2>1. UNCHANGED answer /\ FilesStay
      BY <1>1, <1>2, <1>6 DEF FilesStay
    <2>2. KnowsAt(c)
      BY <1>2, <1>3, <1>5, <1>6 DEF KnowsAt, RecordingSteps
    <2> QED BY <1>2, <1>4, <2>1, <2>2, Reads
  <1>7. CASE t[1] # call[h].q
    <2>1. World' /\ RoundStep /\ Keeps /\ Recording' = Recording \ {t[1]}
      BY <1>1, <1>2, <1>3, <1>7, StatusSet
    <2>2. Recording' = {}
      BY <1>3, <2>1
    <2>3. KnowsAt(c)'
      BY <1>2, <1>5, <2>2 DEF KnowsAt, RecordingSteps
    <2> QED BY <1>4, <2>1, <2>3 DEF Good, SInv, KnowsAt
  <1> QED BY <1>6, <1>7

LEMMA MarkStoppedGood ==
    ASSUME IInv, NEW h \in Handlers, SInv(h), MarkStopped(h)
    PROVE  Good(h)
  <1>1. PICK t \in call[h].todo : SetStatus(t[1], "processing")
    BY DEF MarkStopped
  <1>2. /\ UNCHANGED <<status, startedAt, egress, pipeline>> /\ World
        /\ call[h].todo \subseteq RowsWithStatus("recording")
    BY DEF MarkStopped, At, SInv, KnowsAt
  <1>3. t[1] \in Questions /\ t[1] \in Recording
    BY <1>1, <1>2, OneRow
  <1>4. World' /\ RoundStep /\ Keeps
    BY <1>1, <1>2, <1>3, StatusSet
  <1>5. PICK c : call'[h] = c
    OBVIOUS
  <1>6. c.pc = "idle"
    BY <1>5 DEF MarkStopped, Return, Idle, IInv, TypeOK
  <1>7. KnowsAt(c)'
    BY <1>6 DEF KnowsAt, RecordingSteps
  <1> QED BY <1>4, <1>5, <1>7 DEF Good, SInv, KnowsAt

LEMMA ApplyResultGood ==
    ASSUME IInv, NEW h \in Handlers, SInv(h), ApplyResult(h)
    PROVE  Good(h)
  <1>1. /\ UNCHANGED <<status, startedAt, egress, pipeline>> /\ World
        /\ SetStatus(call[h].q, Outcome(call[h].e))
        /\ answer[call[h].q].egress = call[h].e
        /\ answer[call[h].q].status \in {"recording", "processing"}
    BY DEF ApplyResult, At, SInv, KnowsAt
  <1>2. PICK q \in Questions : q = call[h].q
    BY DEF ApplyResult, At, IInv, LocalsOK, LocalOK
  <1>3. PICK s \in {"uploaded", "failed"} :
          s = Outcome(call[h].e) /\ (s = "uploaded" => egress[call[h].e].state = "complete")
    BY DEF Outcome
  <1>4. q \in Recording \cup Processing
    BY <1>1, <1>2 DEF Recording, Processing, AnswersThatAre
  <1>5. World' /\ RoundStep /\ Keeps
    BY <1>1, <1>2, <1>3, <1>4, StatusSet
  <1>6. PICK c : call'[h] = c
    OBVIOUS
  <1>7. c.pc = "readStatus"
    BY <1>6 DEF ApplyResult, Goto, IInv, TypeOK, Call
  <1>8. KnowsAt(c)'
    BY <1>7 DEF KnowsAt, RecordingSteps
  <1> QED BY <1>5, <1>6, <1>8 DEF Good, SInv, KnowsAt

(* A recording that was just started takes over its question's row. *)
LEMMA RowTaken ==
    ASSUME IInv, NEW h \in Handlers, SInv(h), call[h].pc \in {"overwrite", "insert"},
           UNCHANGED <<status, startedAt, egress, pipeline>>, Return(h),
           answer' = [answer EXCEPT ![call[h].q] = RecordingRow(h)]
    PROVE  Good(h)
  <1>1. /\ World /\ status = "in_progress" /\ Recording \subseteq {call[h].q}
        /\ \A q \in Questions : answer[q].egress # call[h].e
    BY DEF SInv, KnowsAt, RecordingSteps
  <1>2. call[h].q \in Questions /\ call[h].e \in Egresses
    BY DEF IInv, LocalsOK, LocalOK, RecordingSteps
  <1>3. PICK q \in Questions : q = call[h].q
    BY <1>2
  <1>4. PICK r \in Answer : r = RecordingRow(h)
    BY <1>2 DEF RecordingRow, Answer, AnswerStatus
  <1>5. r.status = "recording" /\ r.egress = call[h].e
    BY <1>4 DEF RecordingRow
  <1>6. pipeline = "idle"
    BY <1>1 DEF World
  <1>7. World' /\ RoundStep /\ Keeps
    BY <1>1, <1>3, <1>4, <1>5, <1>6, Written
  <1>8. PICK c : call'[h] = c
    OBVIOUS
  <1>9. c.pc = "idle"
    BY <1>8 DEF Return, Idle, IInv, TypeOK
  <1>10. KnowsAt(c)'
    BY <1>9 DEF KnowsAt, RecordingSteps
  <1> QED BY <1>7, <1>8, <1>10 DEF Good, SInv, KnowsAt

LEMMA OverwriteGood ==
    ASSUME IInv, NEW h \in Handlers, SInv(h), Overwrite(h)
    PROVE  Good(h)
  <1>1. answer' = [answer EXCEPT ![call[h].q] = RecordingRow(h)]
    BY DEF Overwrite, RowsOfQuestion
  <1> QED BY <1>1, RowTaken DEF Overwrite, At

LEMMA InsertGood ==
    ASSUME IInv, NEW h \in Handlers, SInv(h), Insert(h)
    PROVE  Good(h)
  <1>1. CASE RowsOfQuestion(call[h].q) = {}
    <2>1. answer' = [answer EXCEPT ![call[h].q] = RecordingRow(h)]
      BY <1>1 DEF Insert
    <2> QED BY <2>1, RowTaken DEF Insert, At
  <1>2. CASE RowsOfQuestion(call[h].q) # {}
    <2>1. FilesStay /\ UNCHANGED <<status, startedAt, answer, pipeline>>
      BY <1>2 DEF Insert, FilesStay
    <2>2. GotoOrReturn(h, "idle")
      BY DEF Insert, GotoOrReturn
    <2> QED BY <2>1, <2>2, GoesOnGood DEF CarefreeSteps
  <1> QED BY <1>1, <1>2

--------------------------------------------------------------------------------
(* Steps that write the status of the round, or hand it over.                *)

LEMMA MarkSubmittedGood ==
    ASSUME IInv, NEW h \in Handlers, SInv(h), MarkSubmitted(h)
    PROVE  Good(h)
  <1>1. /\ World /\ status = "in_progress" /\ Recording = {}
        /\ status' = "pending_evaluation" /\ UNCHANGED <<startedAt, answer, egress, pipeline>>
    BY DEF MarkSubmitted, At, SInv, KnowsAt
  <1>2. /\ \A s \in AnswerStatus : AnswersThatAre(s)' = AnswersThatAre(s)
        /\ Recording' = Recording /\ Processing' = Processing /\ Handed' = Handed
    BY <1>1 DEF AnswersThatAre, Recording, Processing, Handed
  <1>3. World'
    BY <1>1, <1>2 DEF World, OneAnswerRecording, UploadedHasItsFile
  <1>4. Phase = "running" /\ Phase' = "submitted"
    BY <1>1 DEF Phase
  <1>5. AbstractRound!Submit
    BY <1>1, <1>2, <1>4 DEF AbstractRound!Submit, AbstractRound!answers, Recording, AnswerStatus
  <1>6. call'[h].pc = "useTokens"
    BY DEF MarkSubmitted, Goto, IInv, TypeOK, Call
  <1>7. KnowsAt(call[h])'
    BY <1>6 DEF KnowsAt, RecordingSteps
  <1> QED BY <1>1, <1>3, <1>5, <1>7 DEF Good, SInv, RoundStep, AbstractRound!Next, Keeps

LEMMA HandOverGood ==
    ASSUME IInv, NEW h \in Handlers, SInv(h), HandOver(h)
    PROVE  Good(h)
  <1>1. /\ World /\ Recording = {} /\ Processing = {}
        /\ pipeline = "idle" => status = "pending_evaluation"
        /\ UNCHANGED <<status, startedAt, answer, egress>>
        /\ GotoOrReturn(h, Resume(h))
    BY DEF HandOver, At, SInv, KnowsAt, rowVars
  <1>2. CASE UNCHANGED pipeline
    BY <1>1, <1>2, ResumeIsCarefree, GoesOnGood DEF FilesStay
  <1>3. CASE pipeline' # pipeline
    <2>1. /\ pipeline = "idle" /\ pipeline' = "handedOver"
          /\ \E q \in Questions : answer[q].status = "uploaded"
      BY <1>3 DEF HandOver
    <2>2. /\ \A s \in AnswerStatus : AnswersThatAre(s)' = AnswersThatAre(s)
          /\ Recording' = Recording /\ Processing' = Processing /\ Phase' = Phase
      BY <1>1 DEF AnswersThatAre, Recording, Processing, Phase
    <2>3. World'
      BY <1>1, <2>1, <2>2 DEF World, OneAnswerRecording, UploadedHasItsFile
    <2>4. Phase = "submitted" /\ Handed = "no" /\ Handed' = "yes"
      BY <1>1, <2>1 DEF Phase, Handed
    <2>5. AnswersThatAre("uploaded") # {}
      BY <2>1 DEF AnswersThatAre
    <2>6. AbstractRound!HandOver
      BY <1>1, <2>2, <2>4, <2>5
      DEF AbstractRound!HandOver, AbstractRound!answers, Recording, Processing, AnswerStatus
    <2>7. call'[h].pc \in {"idle", "reload", "reconcile"}
      BY <1>1, ResumeFacts DEF GotoOrReturn, Return, Goto, Idle, IInv, TypeOK, Call
    <2>8. KnowsAt(call[h])'
      BY <2>7 DEF KnowsAt, RecordingSteps
    <2> QED BY <1>1, <2>1, <2>3, <2>6, <2>8 DEF Good, SInv, RoundStep, AbstractRound!Next, Keeps
  <1> QED BY <1>2, <1>3

(* A handler that returns from a write knows nothing. *)
LEMMA ReturnedKnows ==
    ASSUME IInv, NEW h \in Handlers, Return(h)
    PROVE  KnowsAt(call[h])'
  <1>1. call'[h].pc = "idle"
    BY DEF Return, Idle, IInv, TypeOK
  <1> QED BY <1>1 DEF KnowsAt, RecordingSteps

LEMMA BeginRoundGood ==
    ASSUME IInv, NEW h \in Handlers, SInv(h), BeginRound(h)
    PROVE  Good(h)
  <1>1. /\ World /\ status \in {"scheduled", "invitation_sent"} /\ startedAt = NotStarted
        /\ UNCHANGED <<answer, egress, pipeline>> /\ Return(h)
    BY DEF BeginRound, At, SInv, KnowsAt, World
  <1>2. CASE status' = "in_progress"
    <2>1. /\ \A s \in AnswerStatus : AnswersThatAre(s)' = AnswersThatAre(s)
          /\ Recording' = Recording /\ Processing' = Processing /\ Handed' = Handed
      BY <1>1 DEF AnswersThatAre, Recording, Processing, Handed
    <2>2. World'
      BY <1>1, <1>2, <2>1 DEF World, OneAnswerRecording, UploadedHasItsFile
    <2>3. Phase = "open" /\ Phase' = "running"
      BY <1>1, <1>2 DEF Phase
    <2>4. AbstractRound!Start
      BY <2>1, <2>3 DEF AbstractRound!Start, AbstractRound!answers, AnswerStatus
    <2>5. Keeps
      BY <1>1, <1>2 DEF Keeps
    <2> QED BY <1>1, <2>2, <2>4, <2>5, ReturnedKnows DEF Good, SInv, RoundStep, AbstractRound!Next
  <1>3. CASE UNCHANGED <<status, startedAt>>
    <2>1. GotoOrReturn(h, "idle") /\ FilesStay
      BY <1>1 DEF GotoOrReturn, FilesStay
    <2> QED BY <1>1, <1>3, <2>1, GoesOnGood DEF CarefreeSteps
  <1> QED BY <1>2, <1>3 DEF BeginRound

LEMMA MarkInvitedGood ==
    ASSUME IInv, NEW h \in Handlers, SInv(h), MarkInvited(h)
    PROVE  Good(h)
  <1>1. /\ World /\ status = "scheduled" /\ status' \in {"scheduled", "invitation_sent"}
        /\ UNCHANGED <<startedAt, answer, egress, pipeline>> /\ Return(h)
    BY DEF MarkInvited, At, SInv, KnowsAt
  <1>2. /\ \A s \in AnswerStatus : AnswersThatAre(s)' = AnswersThatAre(s)
        /\ Recording' = Recording /\ Processing' = Processing /\ Handed' = Handed
    BY <1>1 DEF AnswersThatAre, Recording, Processing, Handed
  <1>3. World'
    BY <1>1, <1>2 DEF World, OneAnswerRecording, UploadedHasItsFile
  <1>4. UNCHANGED AbstractRound!vars
    BY <1>1, <1>2 DEF AbstractRound!vars, Phase, AnswerStatus
  <1> QED BY <1>1, <1>3, <1>4, ReturnedKnows DEF Good, SInv, RoundStep, Keeps

LEMMA MarkCancelledGood ==
    ASSUME IInv, NEW h \in Handlers, SInv(h), MarkCancelled(h)
    PROVE  Good(h)
  <1>1. /\ World /\ status' = "cancelled" /\ UNCHANGED <<startedAt, answer, egress, pipeline>>
    BY DEF MarkCancelled, SInv
  <1>2. /\ \A s \in AnswerStatus : AnswersThatAre(s)' = AnswersThatAre(s)
        /\ Recording' = Recording /\ Processing' = Processing /\ Handed' = Handed
    BY <1>1 DEF AnswersThatAre, Recording, Processing, Handed
  <1>3. World'
    BY <1>1, <1>2 DEF World, OneAnswerRecording, UploadedHasItsFile
  <1>4. AbstractRound!Cancel
    BY <1>1, <1>2 DEF AbstractRound!Cancel, AbstractRound!answers, Phase, AnswerStatus
  <1>5. call'[h].pc = "revoke"
    BY DEF MarkCancelled, Goto, IInv, TypeOK, Call
  <1>6. KnowsAt(call[h])'
    BY <1>5 DEF KnowsAt, RecordingSteps
  <1> QED BY <1>1, <1>3, <1>4, <1>6 DEF Good, SInv, RoundStep, AbstractRound!Next, Keeps

--------------------------------------------------------------------------------
(* Steps of the world around the handler, and all steps together.            *)

LEMMA EvaluatedGood ==
    ASSUME IInv, NEW h \in Handlers, SInv(h), Evaluated
    PROVE  Good(h)
  <1>1. /\ World /\ pipeline = "handedOver" /\ pipeline' = "evaluated" /\ status' = "completed"
        /\ UNCHANGED <<startedAt, answer, egress, call>>
    BY DEF Evaluated, SInv
  <1>2. status \in {"pending_evaluation", "completed", "cancelled"}
    BY <1>1 DEF World
  <1>3. /\ \A s \in AnswerStatus : AnswersThatAre(s)' = AnswersThatAre(s)
        /\ Recording' = Recording /\ Processing' = Processing
        /\ RowsWithStatus("recording")' = RowsWithStatus("recording")
    BY <1>1 DEF AnswersThatAre, Recording, Processing, RowsWithStatus
  <1>4. World'
    BY <1>1, <1>3 DEF World, OneAnswerRecording, UploadedHasItsFile
  <1>5. Handed = "yes" /\ Handed' = "done" /\ Phase' = "evaluated"
    BY <1>1 DEF Handed, Phase
  <1>6. AbstractRound!Evaluate
    BY <1>3, <1>5 DEF AbstractRound!Evaluate, AbstractRound!answers, AnswerStatus
  <1>7. KnowsAt(call[h])
    BY DEF SInv
  <1>8. KnowsAt(call[h])'
    BY <1>1, <1>2, <1>3, <1>7 DEF KnowsAt
  <1>9. Keeps
    BY <1>1 DEF Keeps
  <1> QED BY <1>4, <1>6, <1>8, <1>9 DEF Good, SInv, RoundStep, AbstractRound!Next

(* The clock moves or an egress ends: the handler's knowledge is of neither. *)
LEMMA WorldGood ==
    ASSUME IInv, NEW h \in Handlers, SInv(h),
           Tick \/ (\E e \in Egresses : EgressEnds(e)) \/ UNCHANGED vars
    PROVE  Good(h)
  <1>1. UNCHANGED <<status, startedAt, answer, pipeline, call>>
    BY DEF Tick, EgressEnds, rowVars, vars
  <1>2. FilesStay
    <2>1. CASE Tick \/ UNCHANGED vars
      BY <2>1 DEF Tick, vars, FilesStay
    <2>2. CASE \E e \in Egresses : EgressEnds(e)
      BY <2>2 DEF EgressEnds, FilesStay, IInv, TypeOK, Egress
    <2> QED BY <2>1, <2>2
  <1>3. PICK c : call[h] = c
    OBVIOUS
  <1>4. call'[h] = c /\ KnowsAt(c)
    BY <1>1, <1>3 DEF SInv
  <1> QED BY <1>1, <1>2, <1>4, Reads DEF SInv

LEMMA ContinueGood ==
    ASSUME IInv, NEW h \in Handlers, SInv(h), Continue(h)
    PROVE  Good(h)
  <1>1. CASE Load(h)              BY <1>1, LoadGood
  <1>2. CASE Reload(h)            BY <1>2, ReloadGood
  <1>3. CASE FindRecording(h)     BY <1>3, FindRecordingGood
  <1>4. CASE StopAll(h)           BY <1>4, StopNextGood DEF StopAll
  <1>5. CASE MarkAll(h)           BY <1>5, MarkAllGood
  <1>6. CASE MarkSubmitted(h)     BY <1>6, MarkSubmittedGood
  <1>7. CASE UseTokens(h)         BY <1>7, OtherColumnsGood
  <1>8. CASE RemoveParticipant(h) BY <1>8, RemoveParticipantGood
  <1>9. CASE ReadStatus(h)        BY <1>9, ReadStatusGood
  <1>10. CASE CountPending(h)     BY <1>10, CountPendingGood
  <1>11. CASE HandOver(h)         BY <1>11, HandOverGood
  <1>12. CASE BeginRound(h)       BY <1>12, BeginRoundGood
  <1>13. CASE FindInterrupted(h)  BY <1>13, FindInterruptedGood
  <1>14. CASE Interrupt(h)        BY <1>14, StopNextGood DEF Interrupt
  <1>15. CASE MarkInterrupted(h)  BY <1>15, MarkInterruptedGood
  <1>16. CASE StartEgress(h)      BY <1>16, StartEgressGood
  <1>17. CASE Lookup(h)           BY <1>17, LookupGood
  <1>18. CASE Overwrite(h)        BY <1>18, OverwriteGood
  <1>19. CASE Insert(h)           BY <1>19, InsertGood
  <1>20. CASE FindAnswer(h)       BY <1>20, FindAnswerGood
  <1>21. CASE StopOne(h)          BY <1>21, StopNextGood DEF StopOne
  <1>22. CASE MarkStopped(h)      BY <1>22, MarkStoppedGood
  <1>23. CASE FindByEgress(h)     BY <1>23, FindByEgressGood
  <1>24. CASE ApplyResult(h)      BY <1>24, ApplyResultGood
  <1>25. CASE ReadAnswers(h)      BY <1>25, ReadAnswersGood
  <1>26. CASE Reconcile(h)        BY <1>26, ReconcileGood
  <1>27. CASE IssueToken(h)       BY <1>27, IssueTokenGood
  <1>28. CASE MarkInvited(h)      BY <1>28, MarkInvitedGood
  <1>29. CASE MarkCancelled(h)    BY <1>29, MarkCancelledGood
  <1>30. CASE Revoke(h)           BY <1>30, OtherColumnsGood
  <1>31. CASE SetDuration(h)      BY <1>31, OtherColumnsGood
  <1> QED
    BY <1>1, <1>2, <1>3, <1>4, <1>5, <1>6, <1>7, <1>8, <1>9, <1>10, <1>11, <1>12, <1>13,
       <1>14, <1>15, <1>16, <1>17, <1>18, <1>19, <1>20, <1>21, <1>22, <1>23, <1>24, <1>25,
       <1>26, <1>27, <1>28, <1>29, <1>30, <1>31
    DEF Continue

LEMMA SerialStep ==
    ASSUME NEW h, Handlers = {h}, IInv, SInv(h), [Next]_vars
    PROVE  Good(h)
  <1>1. CASE \/ CandidateCall(h) \/ RecruiterCall(h) \/ RoomWebhook(h)
             \/ \E e \in Egresses : EgressWebhook(h, e)
    BY <1>1, ArrivalGood
  <1>2. CASE Continue(h)
    BY <1>2, ContinueGood
  <1>3. CASE Crash(h)
    BY <1>3, OtherColumnsGood
  <1>4. CASE Evaluated
    BY <1>4, EvaluatedGood
  <1>5. CASE Tick \/ (\E e \in Egresses : EgressEnds(e)) \/ UNCHANGED vars
    BY <1>5, WorldGood
  <1> QED BY <1>1, <1>2, <1>3, <1>4, <1>5 DEF Next

LEMMA SerialInit ==
    ASSUME NEW h, Handlers = {h}, Init
    PROVE  SInv(h) /\ AbstractRound!Init
  <1>1. \A q \in Questions : answer[q].status = "none"
    BY DEF Init
  <1>2. \A s \in AnswerStatus \ {"none"} : AnswersThatAre(s) = {}
    BY <1>1 DEF AnswersThatAre
  <1>3. Recording = {} /\ Processing = {} /\ AnswersThatAre("uploaded") = {}
    BY <1>2 DEF Recording, Processing, AnswerStatus
  <1>4. World
    BY <1>1, <1>3 DEF Init, World, OneAnswerRecording, UploadedHasItsFile
  <1>5. KnowsAt(call[h])
    <2>1. call[h].pc \in CarefreeSteps
      BY IdleIsCarefree DEF Init
    <2> QED BY <2>1, Carefree
  <1>6. AbstractRound!Init
    BY <1>3 DEF Init, AbstractRound!Init, Phase, Handed, Recording, Processing
  <1> QED BY <1>4, <1>5, <1>6 DEF SInv

(* With one handler, what it has read stays true until it acts on it. *)
THEOREM SerialInvariance ==
    ASSUME NEW h, Handlers = {h}
    PROVE  Spec => [](SInv(h))
  <1>1. Init => SInv(h)
    BY SerialInit
  <1>2. IInv /\ SInv(h) /\ [Next]_vars => SInv(h)'
    BY SerialStep DEF Good
  <1> QED BY <1>1, <1>2, Invariance, PTL DEF Spec

(* Served one at a time, the requests, webhooks, submissions and crashes of  *)
(* an interview of any length look like the round a recruiter has in mind.   *)
THEOREM SessionImplementsRound ==
    ASSUME NEW h, Handlers = {h}
    PROVE  Spec => ImplementsRound
  <1>1. Init => AbstractRound!Init
    BY SerialInit
  <1>2. IInv /\ SInv(h) /\ [Next]_vars => [AbstractRound!Next]_(AbstractRound!vars)
    BY SerialStep DEF Good, RoundStep
  <1> QED
    BY <1>1, <1>2, Invariance, SerialInvariance, PTL
    DEF Spec, ImplementsRound, AbstractRound!Spec

--------------------------------------------------------------------------------
(* What the round itself promises, and so the session that implements it.    *)

(* A round that was handed over is over, and until then it is submitted at most. *)
PhaseOfHanded ==
    /\ Handed # "no" => Phase \in {"submitted", "evaluated", "cancelled"}
    /\ Phase = "evaluated" => Handed = "done"

RoundInv ==
    AbstractRound!TypeOK /\ AbstractRound!OneAtATime /\ AbstractRound!HandedIsSettled /\ PhaseOfHanded

LEMMA RoundStepOK ==
    ASSUME RoundInv, RoundStep
    PROVE  RoundInv'
  <1> USE DEF RoundInv, PhaseOfHanded, AbstractRound!TypeOK, AbstractRound!OneAtATime,
              AbstractRound!HandedIsSettled, AbstractRound!answers
  <1>1. CASE AbstractRound!Start
    BY <1>1 DEF AbstractRound!Start
  <1>2. CASE AbstractRound!Submit
    BY <1>2 DEF AbstractRound!Submit
  <1>3. CASE AbstractRound!HandOver
    BY <1>3 DEF AbstractRound!HandOver
  <1>4. CASE AbstractRound!Evaluate
    BY <1>4 DEF AbstractRound!Evaluate
  <1>5. CASE AbstractRound!Cancel
    BY <1>5 DEF AbstractRound!Cancel
  <1>6. ASSUME NEW q \in Questions, AbstractRound!Record(q) PROVE RoundInv'
    BY <1>6 DEF AbstractRound!Record
  <1>7. ASSUME NEW q \in Questions, AbstractRound!Stop(q) PROVE RoundInv'
    BY <1>7 DEF AbstractRound!Stop
  <1>8. ASSUME NEW q \in Questions, AbstractRound!Settle(q) PROVE RoundInv'
    BY <1>8 DEF AbstractRound!Settle
  <1>9. CASE UNCHANGED AbstractRound!vars
    BY <1>9 DEF AbstractRound!vars
  <1> QED
    BY <1>1, <1>2, <1>3, <1>4, <1>5, <1>6, <1>7, <1>8, <1>9 DEF RoundStep, AbstractRound!Next

LEMMA RoundInvariance == AbstractRound!Spec => []RoundInv
  <1>1. AbstractRound!Init => RoundInv
    BY DEF AbstractRound!Init, RoundInv, PhaseOfHanded, AbstractRound!TypeOK,
           AbstractRound!OneAtATime, AbstractRound!HandedIsSettled
  <1>2. RoundInv /\ [AbstractRound!Next]_(AbstractRound!vars) => RoundInv'
    BY RoundStepOK DEF RoundStep
  <1> QED BY <1>1, <1>2, PTL DEF AbstractRound!Spec

(* One answer is recorded at a time, in a running round only, and what was   *)
(* handed over has no recording open.                                        *)
THEOREM RoundIsOrderly ==
    AbstractRound!Spec => [](AbstractRound!OneAtATime /\ AbstractRound!HandedIsSettled)
  <1>1. RoundInv => AbstractRound!OneAtATime /\ AbstractRound!HandedIsSettled
    BY DEF RoundInv
  <1> QED BY <1>1, RoundInvariance, PTL

(* Recording again, stopping and settling are over once the recordings were  *)
(* handed over: the pipeline works on what the round contains.               *)
THEOREM HandedStaysFinal == AbstractRound!Spec => AbstractRound!HandedIsFinal
  <1>1. RoundInv /\ [AbstractRound!Next]_(AbstractRound!vars) =>
            [Handed # "no" => UNCHANGED AbstractRound!answers]_(AbstractRound!vars)
    BY DEF RoundInv, PhaseOfHanded, AbstractRound!HandedIsSettled, AbstractRound!Next,
           AbstractRound!vars, AbstractRound!answers, AbstractRound!Start, AbstractRound!Submit,
           AbstractRound!HandOver, AbstractRound!Evaluate, AbstractRound!Cancel,
           AbstractRound!Record, AbstractRound!Stop, AbstractRound!Settle
  <1> QED BY <1>1, RoundInvariance, PTL DEF AbstractRound!Spec, AbstractRound!HandedIsFinal

(* Nothing starts recording in a submitted, evaluated or cancelled round.    *)
THEOREM NothingAfterTheEnd == AbstractRound!Spec => AbstractRound!OverIsOver
  <1>1. [AbstractRound!Next]_(AbstractRound!vars) =>
            [Phase # "open" /\ Phase # "running" =>
                AnswersThatAre("recording")' \subseteq AnswersThatAre("recording")]_(AbstractRound!vars)
    BY DEF AbstractRound!Next, AbstractRound!vars, AbstractRound!answers, AbstractRound!Start,
           AbstractRound!Submit, AbstractRound!HandOver, AbstractRound!Evaluate,
           AbstractRound!Cancel, AbstractRound!Record, AbstractRound!Stop, AbstractRound!Settle
  <1> QED BY <1>1, PTL DEF AbstractRound!Spec, AbstractRound!OverIsOver

(* The session keeps what the round promises: one recording at a time, all   *)
(* of them settled at the hand-over and final from then on, and none that    *)
(* starts once the candidate has submitted or the recruiter has cancelled.   *)
THEOREM SessionKeepsTheRound ==
    ASSUME NEW h, Handlers = {h}
    PROVE  Spec => /\ [](AbstractRound!OneAtATime /\ AbstractRound!HandedIsSettled)
                   /\ AbstractRound!HandedIsFinal
                   /\ AbstractRound!OverIsOver
  <1> QED
    BY SessionImplementsRound, RoundIsOrderly, HandedStaysFinal, NothingAfterTheEnd, PTL
    DEF ImplementsRound

--------------------------------------------------------------------------------
(* What the recruiter may rely on if requests do not overlap.                *)

(* startRecording interrupts what is running before it starts anything: one  *)
(* answer is recording at a time.                                            *)
THEOREM OneRecordingAtATime ==
    ASSUME NEW h, Handlers = {h}
    PROVE  Spec => []OneAnswerRecording
  <1>1. SInv(h) => OneAnswerRecording
    BY DEF SInv, World
  <1> QED BY <1>1, SerialInvariance, PTL

(* finalizeSubmit leaves nothing recording behind, and nothing starts again. *)
THEOREM SubmissionIsQuiet ==
    ASSUME NEW h, Handlers = {h}
    PROVE  Spec => []SubmittedIsQuiet
  <1>1. SInv(h) => SubmittedIsQuiet
    BY DEF SInv, World, SubmittedIsQuiet, Submitted, Recording, AnswersThatAre
  <1> QED BY <1>1, SerialInvariance, PTL

(* The pipeline is handed no answer whose recording is still open. *)
THEOREM HandOverIsSettled ==
    ASSUME NEW h, Handlers = {h}
    PROVE  Spec => []HandedOverIsSettled
  <1>1. SInv(h) => HandedOverIsSettled
    BY DEF SInv, World, HandedOverIsSettled, Recording, Processing, AnswersThatAre
  <1> QED BY <1>1, SerialInvariance, PTL

(* An uploaded answer names the egress whose file was completed, however     *)
(* late, often or out of order the webhooks came.                            *)
THEOREM UploadsHaveTheirFile ==
    ASSUME NEW h, Handlers = {h}
    PROVE  Spec => []UploadedHasItsFile
  <1>1. SInv(h) => UploadedHasItsFile
    BY DEF SInv, World
  <1> QED BY <1>1, SerialInvariance, PTL

(* Rejoining never restarts the clock of a round. *)
THEOREM ClockIsKept ==
    ASSUME NEW h, Handlers = {h}
    PROVE  Spec => ClockKept
  <1>1. IInv /\ SInv(h) /\ [Next]_vars => [startedAt # NotStarted => startedAt' = startedAt]_vars
    BY SerialStep DEF Good, Keeps
  <1> QED BY <1>1, Invariance, SerialInvariance, PTL DEF Spec, ClockKept

(* No call, webhook or crash changes an answer the pipeline was handed. *)
THEOREM AnswersAreFrozen ==
    ASSUME NEW h, Handlers = {h}
    PROVE  Spec => AnswersFrozen
  <1>1. IInv /\ SInv(h) /\ [Next]_vars => [pipeline # "idle" => answer' = answer]_vars
    BY SerialStep DEF Good, Keeps
  <1> QED BY <1>1, Invariance, SerialInvariance, PTL DEF Spec, AnswersFrozen

(* A cancelled round is never joined, recorded or submitted again; only an   *)
(* evaluation that was on its way may still complete it.                     *)
THEOREM CancelledStaysOver ==
    ASSUME NEW h, Handlers = {h}
    PROVE  Spec => CancelledNotReopened
  <1>1. IInv /\ SInv(h) /\ [Next]_vars =>
          [status = "cancelled" => status' \in {"cancelled", "completed"}]_vars
    BY SerialStep DEF Good, Keeps
  <1> QED BY <1>1, Invariance, SerialInvariance, PTL DEF Spec, CancelledNotReopened

(* A final answer stays what it is until its question is recorded again. *)
THEOREM FinalAnswersStay ==
    ASSUME NEW h, Handlers = {h}
    PROVE  Spec => FinalAnswerKept
  <1>1. IInv /\ SInv(h) /\ [Next]_vars =>
          [\A q \in Questions :
             answer[q].status \in {"uploaded", "failed"} /\ answer'[q].egress = answer[q].egress
               => answer'[q].status = answer[q].status]_vars
    BY SerialStep DEF Good, Keeps
  <1> QED BY <1>1, Invariance, SerialInvariance, PTL DEF Spec, FinalAnswerKept

================================================================================
