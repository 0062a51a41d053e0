------------------------- MODULE InterviewSessionProofs -------------------------
(***************************************************************************)
(* What holds of InterviewSession for any number of handlers, questions    *)
(* and egresses, whatever interleaves with whatever and wherever a handler *)
(* dies.  The inductive invariant adds to the properties what a handler    *)
(* may rely on after each of its awaits.                                   *)
(***************************************************************************)
EXTENDS InterviewSession, TLAPS

--------------------------------------------------------------------------------
(* The inductive invariant.                                                  *)

(* A row and its egress belong together. *)
RowsOK ==
    /\ EgressOfItsQuestion
    /\ \A q \in Questions : answer[q].status = "none" => answer[q].egress = NoEgress

(* A round that reached the pipeline was started. *)
PipelineStarted == pipeline # "idle" => startedAt # NotStarted

(* The awaits only startRecording stands at. *)
RecordingSteps ==
    {"findInterrupted", "interrupt", "markInterrupted", "startEgress",
     "lookup", "overwrite", "insert"}

(* The awaits of finalizeSubmit and maybeEnqueueTranscription up to the hand-over. *)
SubmittingSteps ==
    {"findRecording", "stopAll", "markAll", "markSubmitted", "countPending", "handOver"}

(* What a handler's local variables still tell of the world after an await.  *)
LocalOK(c) ==
    /\ c.op = "startRecording" => c.q \in Questions
    /\ c.pc \in RecordingSteps => c.op = "startRecording"
    /\ c.pc \in {"lookup", "overwrite", "insert"} =>
         /\ c.e \in Egresses
         /\ egress[c.e].state # "unused"
         /\ egress[c.e].question = c.q
    /\ \A t \in c.todo : answer[t[1]].status # "none"
    /\ c.pc \in SubmittingSteps => startedAt # NotStarted
    /\ c.pc = "findByEgress" => c.e \in Egresses
    /\ c.pc = "applyResult" =>
         /\ c.e \in Egresses
         /\ c.q \in Questions
         /\ Conclusive(c.e)
         /\ egress[c.e].question = c.q
         /\ answer[c.q].status # "none"

LocalsOK == \A h \in Handlers : LocalOK(call[h])

IInv ==
    /\ TypeOK
    /\ RowsOK
    /\ StartedWhenActive
    /\ PipelineStarted
    /\ UploadedWasRecorded
    /\ LocalsOK

--------------------------------------------------------------------------------
(* What no step takes back.                                                  *)

(* Rows are never deleted, an egress keeps its question and its verdict, and *)
(* a start is never erased.                                                  *)
Grows ==
    /\ \A q \in Questions : answer[q].status # "none" => answer'[q].status # "none"
    /\ \A e \in Egresses : egress[e].state # "unused" =>
         egress'[e].state # "unused" /\ egress'[e].question = egress[e].question
    /\ \A e \in Egresses : Conclusive(e) => egress'[e].state = egress[e].state
    /\ startedAt # NotStarted => startedAt' # NotStarted

(* Where a handler proceeds to tells which operation it serves and what it saw. *)
LEMMA ProceedFacts ==
    ASSUME NEW op, NEW s
    PROVE  /\ Proceed(op, s) \in {"beginRound", "findInterrupted", "findAnswer",
                 "findRecording", "issueToken", "markCancelled", "setDuration", "idle"}
           /\ Proceed(op, s) = "findInterrupted" => op = "startRecording"
           /\ Proceed(op, s) = "findRecording" => s = "in_progress"
  BY DEF Proceed, StartsClock, Active, Terminal

(* Where a handler goes on after maybeEnqueueTranscription. *)
LEMMA ResumeFacts ==
    ASSUME NEW h PROVE Resume(h) \in {"reload", "reconcile", "idle"}
  BY DEF Resume

(* A handler's view of the world survives the steps of everybody else. *)
LEMMA LocalStable ==
    ASSUME TypeOK, Grows, NEW c \in Call, LocalOK(c)
    PROVE  LocalOK(c)'
  <1>1. \A t \in c.todo : answer'[t[1]].status # "none"
    BY DEF Grows, LocalOK, TypeOK, Call
  <1>2. c.e \in Egresses /\ egress[c.e].state # "unused" =>
          egress'[c.e].state # "unused" /\ egress'[c.e].question = egress[c.e].question
    BY DEF Grows
  <1>3. c.e \in Egresses /\ Conclusive(c.e) =>
          Conclusive(c.e)' /\ egress'[c.e].question = egress[c.e].question
    BY DEF Grows, Conclusive
  <1>4. c.pc = "applyResult" => answer'[c.q].status # "none"
    BY DEF Grows, LocalOK
  <1> QED BY <1>1, <1>2, <1>3, <1>4 DEF Grows, LocalOK

(* An idle handler knows nothing, and nothing can be wrong about that. *)
LEMMA IdleOK == Idle \in Call /\ LocalOK(Idle)
  BY DEF Idle, Call, Step, LocalOK, RecordingSteps, SubmittingSteps

(* The step of one handler leaves every handler's view correct. *)
LEMMA OneHandler ==
    ASSUME TypeOK, LocalsOK, Grows, NEW h \in Handlers, NEW c,
           c \in Call, LocalOK(c)', call' = [call EXCEPT ![h] = c]
    PROVE  call' \in [Handlers -> Call] /\ LocalsOK'
  <1>1. call' \in [Handlers -> Call]
    BY DEF TypeOK
  <1>2. ASSUME NEW g \in Handlers PROVE LocalOK(call[g])'
    <2>1. CASE g = h
      BY <2>1 DEF TypeOK
    <2>2. CASE g # h
      <3>1. call'[g] = call[g] /\ call[g] \in Call /\ LocalOK(call[g])
        BY <2>2 DEF TypeOK, LocalsOK
      <3>2. ASSUME NEW d \in Call, LocalOK(d) PROVE LocalOK(d)'
        BY <3>2, LocalStable
      <3> QED BY <3>1, <3>2 DEF LocalOK
    <2> QED BY <2>1, <2>2
  <1> QED BY <1>1, <1>2 DEF LocalsOK

(* A step that moves one handler and touches nothing else. *)
LEMMA CallOnly ==
    ASSUME IInv, UNCHANGED <<rowVars, now, egress, pipeline>>,
           NEW h \in Handlers, NEW c \in Call, LocalOK(c),
           call' = [call EXCEPT ![h] = c]
    PROVE  IInv'
  <1>1. Grows
    BY DEF IInv, TypeOK, rowVars, Grows
  <1>2. LocalOK(c)'
    BY <1>1, LocalStable DEF IInv
  <1>3. call' \in [Handlers -> Call] /\ LocalsOK'
    BY <1>1, <1>2, OneHandler DEF IInv
  <1>4. TypeOK'
    BY <1>3 DEF IInv, TypeOK, rowVars
  <1>5. RowsOK' /\ StartedWhenActive' /\ PipelineStarted' /\ UploadedWasRecorded'
    BY DEF IInv, rowVars, RowsOK, EgressOfItsQuestion, StartedWhenActive, PipelineStarted,
           UploadedWasRecorded
  <1> QED BY <1>3, <1>4, <1>5 DEF IInv

(* A handler that returns. *)
LEMMA ReturnOnly ==
    ASSUME IInv, UNCHANGED <<rowVars, now, egress, pipeline>>, NEW h \in Handlers, Return(h)
    PROVE  IInv'
  BY CallOnly, IdleOK DEF Return

(* A handler that goes on with the locals it has. *)
LEMMA GotoOnly ==
    ASSUME IInv, UNCHANGED <<rowVars, now, egress, pipeline>>,
           NEW h \in Handlers, NEW step \in Step, Goto(h, step),
           LocalOK([call[h] EXCEPT !.pc = step])
    PROVE  IInv'
  <1> DEFINE c == [call[h] EXCEPT !.pc = step]
  <1>1. call' = [call EXCEPT ![h] = c]
    BY DEF Goto
  <1>2. c \in Call
    BY DEF IInv, TypeOK, Call
  <1> HIDE DEF c
  <1>3. LocalOK(c)
    BY DEF c
  <1> QED BY <1>1, <1>2, <1>3, CallOnly

--------------------------------------------------------------------------------
(* Requests and webhooks arrive.                                             *)

LEMMA BeginOK ==
    ASSUME IInv, NEW h \in Handlers, NEW op, NEW q, NEW e,
           \/ /\ op \in {"getSession", "joinRoom", "submit"} \cup RecruiterOp
                    \cup {"participantLeft"}
              /\ q = NoQuestion /\ e = NoEgress
              /\ Begin(h, op, "load", q, e)
           \/ /\ op \in {"startRecording", "stopRecording"}
              /\ q \in Questions /\ e = NoEgress
              /\ Begin(h, op, "load", q, e)
           \/ /\ op = "listRecordings"
              /\ q = NoQuestion /\ e = NoEgress
              /\ Begin(h, op, "readAnswers", q, e)
           \/ /\ op = "egressEnded"
              /\ q = NoQuestion /\ e \in Egresses
              /\ Begin(h, op, "findByEgress", q, e)
    PROVE  IInv'
  <1>1. PICK step \in {"load", "readAnswers", "findByEgress"} :
          /\ Begin(h, op, step, q, e)
          /\ step = "findByEgress" => e \in Egresses
    OBVIOUS
  <1> DEFINE c == [Idle EXCEPT !.op = op, !.pc = step, !.q = q, !.e = e]
  <1>2. UNCHANGED <<rowVars, now, egress, pipeline>> /\ call' = [call EXCEPT ![h] = c]
    BY <1>1 DEF Begin
  <1>3. c \in Call
    BY DEF Idle, Call, Step, CandidateOp, RecruiterOp, WebhookOp
  <1>4. LocalOK(c)
    BY <1>1 DEF Idle, LocalOK, RecordingSteps, SubmittingSteps, RecruiterOp
  <1> HIDE DEF c
  <1> QED BY <1>2, <1>3, <1>4, CallOnly

LEMMA ArrivalOK ==
    ASSUME IInv, NEW h \in Handlers,
           \/ CandidateCall(h) \/ RecruiterCall(h) \/ RoomWebhook(h)
           \/ \E e \in Egresses : EgressWebhook(h, e)
    PROVE  IInv'
  <1>1. CASE CandidateCall(h)
    BY <1>1, BeginOK DEF CandidateCall
  <1>2. CASE RecruiterCall(h)
    BY <1>2, BeginOK DEF RecruiterCall
  <1>3. CASE RoomWebhook(h)
    BY <1>3, BeginOK DEF RoomWebhook
  <1>4. CASE \E e \in Egresses : EgressWebhook(h, e)
    BY <1>4, BeginOK DEF EgressWebhook
  <1> QED BY <1>1, <1>2, <1>3, <1>4

--------------------------------------------------------------------------------
(* Steps that only read.                                                     *)

(* Where the handler proceeds after reading the interview it may proceed. *)
LEMMA ProceedOK ==
    ASSUME IInv, NEW h \in Handlers, NEW b \in BOOLEAN,
           Proceed(call[h].op, status) # "idle"
    PROVE  /\ [call[h] EXCEPT !.pc = Proceed(call[h].op, status), !.auto = b] \in Call
           /\ LocalOK([call[h] EXCEPT !.pc = Proceed(call[h].op, status), !.auto = b])
  <1> DEFINE next == Proceed(call[h].op, status)
  <1>1. /\ next \in {"beginRound", "findInterrupted", "findAnswer", "findRecording",
                     "issueToken", "markCancelled", "setDuration"}
        /\ next = "findInterrupted" => call[h].op = "startRecording"
        /\ next = "findRecording" => startedAt # NotStarted
    BY ProceedFacts DEF IInv, StartedWhenActive
  <1> HIDE DEF next
  <1>2. call[h] \in Call /\ LocalOK(call[h])
    BY DEF IInv, TypeOK, LocalsOK
  <1>3. [call[h] EXCEPT !.pc = next, !.auto = b] \in Call
    BY <1>1, <1>2 DEF Call, Step
  <1>4. LocalOK([call[h] EXCEPT !.pc = next, !.auto = b])
    BY <1>1, <1>2 DEF Call, LocalOK, RecordingSteps, SubmittingSteps
  <1> QED BY <1>3, <1>4 DEF next

LEMMA LoadOK ==
    ASSUME IInv, NEW h \in Handlers, Load(h)
    PROVE  IInv'
  <1>1. UNCHANGED <<rowVars, now, egress, pipeline>> /\ call[h] \in Call /\ LocalOK(call[h])
    BY DEF Load, IInv, TypeOK, LocalsOK
  <1>2. CASE DeadlinePassed /\ call[h].op \in CandidateOp \cup WebhookOp
    <2> DEFINE c == [call[h] EXCEPT !.pc = "findRecording", !.auto = TRUE]
    <2>1. call' = [call EXCEPT ![h] = c]
      BY <1>2 DEF Load
    <2>2. c \in Call
      BY <1>1 DEF Call, Step
    <2>3. LocalOK(c)
      BY <1>1, <1>2 DEF Call, LocalOK, DeadlinePassed, RecordingSteps, SubmittingSteps
    <2> HIDE DEF c
    <2> QED BY <1>1, <2>1, <2>2, <2>3, CallOnly
  <1>3. CASE ~(DeadlinePassed /\ call[h].op \in CandidateOp \cup WebhookOp)
    <2>1. CASE Proceed(call[h].op, status) = "idle"
      BY <1>1, <1>3, <2>1, ReturnOnly DEF Load, GotoOrReturn
    <2>2. CASE Proceed(call[h].op, status) # "idle"
      <3> DEFINE c == [call[h] EXCEPT !.pc = Proceed(call[h].op, status), !.auto = @]
      <3>1. call' = [call EXCEPT ![h] = c]
        BY <1>1, <1>3, <2>2 DEF Load, GotoOrReturn, Goto, Call
      <3>2. c \in Call /\ LocalOK(c)
        BY <1>1, <2>2, ProceedOK DEF Call
      <3> HIDE DEF c
      <3> QED BY <1>1, <3>1, <3>2, CallOnly
    <2> QED BY <2>1, <2>2
  <1> QED BY <1>2, <1>3

LEMMA ReloadOK ==
    ASSUME IInv, NEW h \in Handlers, Reload(h)
    PROVE  IInv'
  <1>1. UNCHANGED <<rowVars, now, egress, pipeline>>
    BY DEF Reload
  <1>2. CASE Proceed(call[h].op, status) = "idle"
    BY <1>1, <1>2, ReturnOnly DEF Reload
  <1>3. CASE Proceed(call[h].op, status) # "idle"
    <2> DEFINE c == [call[h] EXCEPT !.pc = Proceed(call[h].op, status), !.auto = FALSE]
    <2>1. call' = [call EXCEPT ![h] = c]
      BY <1>3 DEF Reload
    <2>2. c \in Call /\ LocalOK(c)
      BY <1>3, ProceedOK
    <2> HIDE DEF c
    <2> QED BY <1>1, <2>1, <2>2, CallOnly
  <1> QED BY <1>2, <1>3

(* The rows a pass is going to work on are rows of the table. *)
LEMMA RowsFacts ==
    ASSUME IInv, NEW s \in AnswerStatus \ {"none"}
    PROVE  /\ RowsWithStatus(s) \in SUBSET (Questions \X Egresses)
           /\ \A t \in RowsWithStatus(s) : answer[t[1]].status # "none"
  BY DEF IInv, TypeOK, RowsOK, EgressOfItsQuestion, RowsWithStatus, Answer

(* A handler that takes some rows to work on and goes to its next step. *)
LEMMA PassOK ==
    ASSUME IInv, UNCHANGED <<rowVars, now, egress, pipeline>>, NEW h \in Handlers,
           NEW rows \in SUBSET (Questions \X Egresses),
           \A t \in rows : answer[t[1]].status # "none",
           NEW step \in Step \ {"lookup", "overwrite", "insert", "findByEgress", "applyResult"},
           step \in RecordingSteps => call[h].op = "startRecording",
           step \in SubmittingSteps => startedAt # NotStarted,
           call' = [call EXCEPT ![h].todo = rows, ![h].pc = step]
    PROVE  IInv'
  <1> DEFINE c == [call[h] EXCEPT !.todo = rows, !.pc = step]
  <1>1. call[h] \in Call /\ LocalOK(call[h])
    BY DEF IInv, TypeOK, LocalsOK
  <1>2. call' = [call EXCEPT ![h] = c]
    BY <1>1 DEF IInv, TypeOK
  <1>3. c \in Call
    BY <1>1 DEF Call
  <1>4. LocalOK(c)
    BY <1>1 DEF Call, LocalOK
  <1> HIDE DEF c
  <1> QED BY <1>2, <1>3, <1>4, CallOnly

LEMMA FindRecordingOK ==
    ASSUME IInv, NEW h \in Handlers, FindRecording(h)
    PROVE  IInv'
  <1> DEFINE rows == RowsWithStatus("recording")
             step == IF rows = {} THEN "markSubmitted" ELSE "stopAll"
  <1>1. /\ UNCHANGED <<rowVars, now, egress, pipeline>>
        /\ call' = [call EXCEPT ![h].todo = rows, ![h].pc = step]
        /\ startedAt # NotStarted
    BY DEF FindRecording, At, IInv, LocalsOK, LocalOK, SubmittingSteps
  <1>2. rows \in SUBSET (Questions \X Egresses) /\ \A t \in rows : answer[t[1]].status # "none"
    BY RowsFacts DEF AnswerStatus
  <1>3. step \in Step \ {"lookup", "overwrite", "insert", "findByEgress", "applyResult"}
        /\ step \notin RecordingSteps
    BY DEF Step, RecordingSteps
  <1> HIDE DEF rows, step
  <1> QED BY <1>1, <1>2, <1>3, PassOK

LEMMA FindInterruptedOK ==
    ASSUME IInv, NEW h \in Handlers, FindInterrupted(h)
    PROVE  IInv'
  <1> DEFINE rows == RowsWithStatus("recording")
             step == IF rows = {} THEN "startEgress" ELSE "interrupt"
  <1>1. /\ UNCHANGED <<rowVars, now, egress, pipeline>>
        /\ call' = [call EXCEPT ![h].todo = rows, ![h].pc = step]
        /\ call[h].op = "startRecording"
    BY DEF FindInterrupted, At, IInv, LocalsOK, LocalOK, RecordingSteps
  <1>2. rows \in SUBSET (Questions \X Egresses) /\ \A t \in rows : answer[t[1]].status # "none"
    BY RowsFacts DEF AnswerStatus
  <1>3. step \in Step \ {"lookup", "overwrite", "insert", "findByEgress", "applyResult"}
        /\ step \notin SubmittingSteps
    BY DEF Step, SubmittingSteps
  <1> HIDE DEF rows, step
  <1> QED BY <1>1, <1>2, <1>3, PassOK

LEMMA FindAnswerOK ==
    ASSUME IInv, NEW h \in Handlers, FindAnswer(h)
    PROVE  IInv'
  <1> DEFINE rows == {t \in RowsWithStatus("recording") : t[1] = call[h].q}
  <1>1. UNCHANGED <<rowVars, now, egress, pipeline>>
    BY DEF FindAnswer
  <1>2. rows \in SUBSET (Questions \X Egresses) /\ \A t \in rows : answer[t[1]].status # "none"
    BY RowsFacts DEF AnswerStatus
  <1>3. CASE rows = {}
    BY <1>1, <1>3, ReturnOnly DEF FindAnswer
  <1>4. CASE rows # {}
    <2>1. call' = [call EXCEPT ![h].todo = rows, ![h].pc = "stopOne"]
      <3>1. call' = [call EXCEPT ![h].pc = "stopOne", ![h].todo = rows]
        BY <1>4 DEF FindAnswer
      <3> HIDE DEF rows
      <3> QED BY <3>1 DEF IInv, TypeOK, Call
    <2>2. "stopOne" \in Step \ {"lookup", "overwrite", "insert", "findByEgress", "applyResult"}
          /\ "stopOne" \notin RecordingSteps /\ "stopOne" \notin SubmittingSteps
      BY DEF Step, RecordingSteps, SubmittingSteps
    <2> HIDE DEF rows
    <2> QED BY <1>1, <1>2, <2>1, <2>2, PassOK
  <1> QED BY <1>3, <1>4

LEMMA ReadAnswersOK ==
    ASSUME IInv, NEW h \in Handlers, ReadAnswers(h)
    PROVE  IInv'
  <1>1. UNCHANGED <<rowVars, now, egress, pipeline>>
    BY DEF ReadAnswers
  <1>2. PICK stale \in SUBSET RowsWithStatus("processing") :
          IF stale = {} THEN Return(h)
          ELSE call' = [call EXCEPT ![h].pc = "reconcile", ![h].todo = stale]
    BY DEF ReadAnswers
  <1>3. stale \in SUBSET (Questions \X Egresses)
        /\ \A t \in stale : answer[t[1]].status # "none"
    BY RowsFacts DEF AnswerStatus
  <1>4. CASE stale = {}
    BY <1>1, <1>2, <1>4, ReturnOnly
  <1>5. CASE stale # {}
    <2>1. call' = [call EXCEPT ![h].todo = stale, ![h].pc = "reconcile"]
      BY <1>2, <1>5 DEF IInv, TypeOK, Call
    <2>2. "reconcile" \in Step \ {"lookup", "overwrite", "insert", "findByEgress", "applyResult"}
          /\ "reconcile" \notin RecordingSteps /\ "reconcile" \notin SubmittingSteps
      BY DEF Step, RecordingSteps, SubmittingSteps
    <2> QED BY <1>1, <1>3, <2>1, <2>2, PassOK
  <1> QED BY <1>4, <1>5

(* A handler that goes on, or back to its caller, without relying on its locals. *)
LEMMA GoOnOK ==
    ASSUME IInv, UNCHANGED <<rowVars, now, egress, pipeline>>, NEW h \in Handlers,
           NEW step \in Step \ (RecordingSteps \cup {"findByEgress", "applyResult"}),
           step \in SubmittingSteps => startedAt # NotStarted,
           GotoOrReturn(h, step)
    PROVE  IInv'
  <1>1. CASE step = "idle"
    BY <1>1, ReturnOnly DEF GotoOrReturn
  <1>2. CASE step # "idle"
    <2>1. Goto(h, step)
      BY <1>2 DEF GotoOrReturn
    <2>2. LocalOK([call[h] EXCEPT !.pc = step])
      BY DEF IInv, TypeOK, LocalsOK, Call, LocalOK, RecordingSteps
    <2> QED BY <2>1, <2>2, GotoOnly
  <1> QED BY <1>1, <1>2

(* What GoOnOK asks of a step, for the steps after maybeEnqueueTranscription. *)
LEMMA ResumeOK ==
    ASSUME NEW h
    PROVE  /\ Resume(h) \in Step \ (RecordingSteps \cup {"findByEgress", "applyResult"})
           /\ Resume(h) \notin SubmittingSteps
  BY ResumeFacts DEF Step, RecordingSteps, SubmittingSteps

LEMMA ReadStatusOK ==
    ASSUME IInv, NEW h \in Handlers, ReadStatus(h)
    PROVE  IInv'
  <1>1. UNCHANGED <<rowVars, now, egress, pipeline>>
    BY DEF ReadStatus
  <1>2. CASE status = "pending_evaluation"
    <2>1. GotoOrReturn(h, "countPending")
      BY <1>2 DEF ReadStatus, GotoOrReturn
    <2>2. startedAt # NotStarted
      BY <1>2 DEF IInv, StartedWhenActive
    <2> QED BY <1>1, <2>1, <2>2, GoOnOK DEF Step, RecordingSteps
  <1>3. CASE status # "pending_evaluation"
    BY <1>1, <1>3, ResumeOK, GoOnOK DEF ReadStatus
  <1> QED BY <1>2, <1>3

LEMMA CountPendingOK ==
    ASSUME IInv, NEW h \in Handlers, CountPending(h)
    PROVE  IInv'
  <1>1. UNCHANGED <<rowVars, now, egress, pipeline>>
    BY DEF CountPending
  <1>2. CASE \E q \in Questions : answer[q].status \in PendingStatus
    BY <1>1, <1>2, ResumeOK, GoOnOK DEF CountPending
  <1>3. CASE ~(\E q \in Questions : answer[q].status \in PendingStatus)
    <2>1. GotoOrReturn(h, "handOver")
      BY <1>3 DEF CountPending, GotoOrReturn
    <2>2. startedAt # NotStarted
      BY DEF CountPending, At, IInv, LocalsOK, LocalOK, SubmittingSteps
    <2> QED BY <1>1, <2>1, <2>2, GoOnOK DEF Step, RecordingSteps
  <1> QED BY <1>2, <1>3

LEMMA LookupOK ==
    ASSUME IInv, NEW h \in Handlers, Lookup(h)
    PROVE  IInv'
  <1> DEFINE step == IF RowsOfQuestion(call[h].q) = {} THEN "insert" ELSE "overwrite"
  <1>1. UNCHANGED <<rowVars, now, egress, pipeline>> /\ Goto(h, step)
    BY DEF Lookup
  <1>2. step \in {"insert", "overwrite"}
    OBVIOUS
  <1> HIDE DEF step
  <1>3. call[h] \in Call /\ LocalOK(call[h]) /\ call[h].pc = "lookup"
    BY DEF Lookup, At, IInv, TypeOK, LocalsOK
  <1>4. LocalOK([call[h] EXCEPT !.pc = step])
    BY <1>2, <1>3 DEF Call, LocalOK, RecordingSteps, SubmittingSteps
  <1> QED BY <1>1, <1>2, <1>4, GotoOnly DEF Step

LEMMA FindByEgressOK ==
    ASSUME IInv, NEW h \in Handlers, FindByEgress(h)
    PROVE  IInv'
  <1>1. UNCHANGED <<rowVars, now, egress, pipeline>>
        /\ call[h] \in Call /\ LocalOK(call[h]) /\ call[h].pc = "findByEgress"
    BY DEF FindByEgress, At, IInv, TypeOK, LocalsOK
  <1>2. CASE RowsAwaiting(call[h].e) = {} \/ ~Conclusive(call[h].e)
    BY <1>1, <1>2, ResumeOK, GoOnOK DEF FindByEgress
  <1>3. CASE ~(RowsAwaiting(call[h].e) = {} \/ ~Conclusive(call[h].e))
    <2>1. PICK q \in RowsAwaiting(call[h].e) :
            call' = [call EXCEPT ![h].pc = "applyResult", ![h].q = q]
      BY <1>3 DEF FindByEgress
    <2> DEFINE c == [call[h] EXCEPT !.pc = "applyResult", !.q = q]
    <2>2. call' = [call EXCEPT ![h] = c]
      BY <1>1, <2>1 DEF IInv, TypeOK
    <2>3. c \in Call
      BY <1>1, <2>1 DEF Call, Step, RowsAwaiting, RowsOfEgress
    <2>4. /\ call[h].e \in Egresses /\ q \in Questions
          /\ answer[q].egress = call[h].e /\ answer[q].status # "none"
          /\ egress[call[h].e].question = q
      BY <1>1, <2>1, NoEgressAssumption
      DEF LocalOK, RowsAwaiting, RowsOfEgress, IInv, RowsOK, EgressOfItsQuestion
    <2>5. LocalOK(c)
      BY <1>1, <1>3, <2>4 DEF Call, LocalOK, RecordingSteps, SubmittingSteps
    <2> HIDE DEF c
    <2> QED BY <1>1, <2>2, <2>3, <2>5, CallOnly
  <1> QED BY <1>2, <1>3

LEMMA ReconcileOK ==
    ASSUME IInv, NEW h \in Handlers, Reconcile(h)
    PROVE  IInv'
  <1>1. UNCHANGED <<rowVars, now, egress, pipeline>>
        /\ call[h] \in Call /\ LocalOK(call[h]) /\ call[h].pc = "reconcile"
    BY DEF Reconcile, At, IInv, TypeOK, LocalsOK
  <1>2. PICK t \in call[h].todo :
          \/ call' = [call EXCEPT ![h].pc = "findByEgress", ![h].todo = call[h].todo \ {t},
                                  ![h].e = t[2]]
          \/ call' = [call EXCEPT ![h] = Idle]
          \/ call' = [call EXCEPT ![h].todo = call[h].todo \ {t}]
    BY DEF Reconcile
  <1>3. t[2] \in Egresses
    BY <1>1 DEF Call
  <1>4. CASE call' = [call EXCEPT ![h].pc = "findByEgress", ![h].todo = call[h].todo \ {t},
                                  ![h].e = t[2]]
    <2> DEFINE c == [call[h] EXCEPT !.pc = "findByEgress", !.todo = @ \ {t}, !.e = t[2]]
    <2>1. call' = [call EXCEPT ![h] = c]
      BY <1>1, <1>4 DEF IInv, TypeOK
    <2>2. c \in Call
      BY <1>1, <1>3 DEF Call, Step
    <2>3. LocalOK(c)
      BY <1>1, <1>3 DEF Call, LocalOK, RecordingSteps, SubmittingSteps
    <2> HIDE DEF c
    <2> QED BY <1>1, <2>1, <2>2, <2>3, CallOnly
  <1>5. CASE call' = [call EXCEPT ![h] = Idle]
    BY <1>1, <1>5, ReturnOnly DEF Return
  <1>6. CASE call' = [call EXCEPT ![h].todo = call[h].todo \ {t}]
    <2> DEFINE c == [call[h] EXCEPT !.todo = @ \ {t}]
    <2>1. call' = [call EXCEPT ![h] = c]
      BY <1>1, <1>6 DEF IInv, TypeOK
    <2>2. c \in Call /\ LocalOK(c)
      BY <1>1 DEF Call, LocalOK, RecordingSteps, SubmittingSteps
    <2> HIDE DEF c
    <2> QED BY <1>1, <2>1, <2>2, CallOnly
  <1> QED BY <1>2, <1>4, <1>5, <1>6

LEMMA CrashOK ==
    ASSUME IInv, NEW h \in Handlers, Crash(h)
    PROVE  IInv'
  BY ReturnOnly DEF Crash

--------------------------------------------------------------------------------
(* Steps that write.                                                         *)

(* The part of the invariant that is about no handler. *)
WorldOK ==
    /\ now \in Nat
    /\ status \in InterviewStatus
    /\ startedAt \in Nat \cup {NotStarted}
    /\ duration \in Durations
    /\ tokens \subseteq TokenStatus
    /\ answer \in [Questions -> Answer]
    /\ egress \in [Egresses -> Egress]
    /\ pipeline \in {"idle", "handedOver", "evaluated"}
    /\ RowsOK
    /\ StartedWhenActive
    /\ PipelineStarted
    /\ UploadedWasRecorded

LEMMA WorldAndLocals == IInv <=> WorldOK /\ call \in [Handlers -> Call] /\ LocalsOK
  BY DEF IInv, WorldOK, TypeOK

(* A handler writes, and goes on with locals that are correct afterwards. *)
LEMMA WriteOK ==
    ASSUME IInv, Grows, WorldOK', NEW h \in Handlers, NEW c \in Call, LocalOK(c)',
           call' = [call EXCEPT ![h] = c]
    PROVE  IInv'
  <1>1. call' \in [Handlers -> Call] /\ LocalsOK'
    BY OneHandler DEF IInv
  <1> QED BY <1>1 DEF WorldOK, IInv, TypeOK

(* A handler writes and returns. *)
LEMMA WriteAndReturn ==
    ASSUME IInv, Grows, WorldOK', NEW h \in Handlers, Return(h)
    PROVE  IInv'
  <1>1. LocalOK(Idle)'
    BY DEF Idle, LocalOK, RecordingSteps, SubmittingSteps
  <1> QED BY <1>1, IdleOK, WriteOK DEF Return

(* A handler writes and goes on to step, relying on locals it already had. *)
LEMMA WriteAndGoto ==
    ASSUME IInv, Grows, WorldOK', NEW h \in Handlers, NEW step \in Step, Goto(h, step),
           LocalOK([call[h] EXCEPT !.pc = step])
    PROVE  IInv'
  <1>1. [call[h] EXCEPT !.pc = step] \in Call
    BY DEF IInv, TypeOK, Call
  <1>2. PICK c \in Call : c = [call[h] EXCEPT !.pc = step]
    BY <1>1
  <1>3. call' = [call EXCEPT ![h] = c] /\ LocalOK(c)
    BY <1>2 DEF Goto
  <1>4. LocalOK(c)'
    BY <1>3, LocalStable DEF IInv
  <1> QED BY <1>3, <1>4, WriteOK

(* A row may be written with an egress of its question that has begun. *)
LEMMA RowWritten ==
    ASSUME IInv, UNCHANGED <<status, startedAt, duration, tokens, now, egress, pipeline>>,
           NEW q \in Questions, NEW row \in Answer, answer' = [answer EXCEPT ![q] = row],
           row.status # "none", row.egress \in Egresses,
           egress[row.egress].question = q, egress[row.egress].state # "unused",
           row.status = "uploaded" =>
             \E e \in Egresses : egress[e].question = q /\ egress[e].state = "complete"
    PROVE  Grows /\ WorldOK'
  <1>1. \A r \in Questions : answer'[r] = IF r = q THEN row ELSE answer[r]
    BY DEF IInv, TypeOK
  <1>2. Grows
    BY <1>1 DEF Grows
  <1>3. RowsOK'
    BY <1>1 DEF IInv, RowsOK, EgressOfItsQuestion
  <1>4. UploadedWasRecorded'
    BY <1>1 DEF IInv, UploadedWasRecorded
  <1>5. answer' \in [Questions -> Answer]
    BY DEF IInv, TypeOK
  <1>6. StartedWhenActive' /\ PipelineStarted'
    BY DEF IInv, StartedWhenActive, PipelineStarted
  <1> QED BY <1>2, <1>3, <1>4, <1>5, <1>6 DEF WorldOK, IInv, TypeOK

(* A row may change its status: to uploaded only with a complete egress. *)
LEMMA StatusWritten ==
    ASSUME IInv, UNCHANGED <<status, startedAt, duration, tokens, now, egress, pipeline>>,
           NEW q \in Questions, answer[q].status # "none",
           NEW s \in AnswerStatus \ {"none"}, SetStatus(q, s),
           s = "uploaded" =>
             \E e \in Egresses : egress[e].question = q /\ egress[e].state = "complete"
    PROVE  Grows /\ WorldOK'
  <1> DEFINE row == [answer[q] EXCEPT !.status = s]
  <1>1. answer[q] \in Answer /\ answer[q].egress \in Egresses
        /\ egress[answer[q].egress].question = q /\ egress[answer[q].egress].state # "unused"
    BY DEF IInv, TypeOK, RowsOK, EgressOfItsQuestion
  <1>2. row \in Answer /\ row.status = s /\ row.egress = answer[q].egress
    BY <1>1 DEF Answer
  <1>3. answer' = [answer EXCEPT ![q] = row]
    BY DEF SetStatus
  <1> HIDE DEF row
  <1> QED BY <1>1, <1>2, <1>3, RowWritten

(* Asking LiveKit to stop leaves everything known of an egress true. *)
LEMMA StopAsked ==
    ASSUME IInv, UNCHANGED <<rowVars, now, pipeline>>, NEW es, AskToStop(es)
    PROVE  Grows /\ WorldOK'
  <1>1. /\ egress' \in [Egresses -> Egress]
        /\ \A e \in Egresses :
             /\ egress'[e].question = egress[e].question
             /\ \/ egress'[e].state = egress[e].state
                \/ /\ egress[e].state = "active"
                   /\ egress'[e].state = "stopping"
    <2>1. CASE UNCHANGED egress
      BY <2>1 DEF IInv, TypeOK
    <2>2. CASE egress' = [e \in Egresses |->
                    IF e \in es /\ egress[e].state = "active"
                    THEN [egress[e] EXCEPT !.state = "stopping"] ELSE egress[e]]
      BY <2>2 DEF IInv, TypeOK, Egress
    <2> QED BY <2>1, <2>2 DEF AskToStop
  <1>2. Grows
    BY <1>1 DEF Grows, Conclusive, rowVars
  <1>3. RowsOK' /\ UploadedWasRecorded'
    BY <1>1 DEF IInv, RowsOK, EgressOfItsQuestion, UploadedWasRecorded, rowVars
  <1>4. StartedWhenActive' /\ PipelineStarted'
    BY DEF IInv, StartedWhenActive, PipelineStarted, rowVars
  <1> QED BY <1>1, <1>2, <1>3, <1>4 DEF WorldOK, IInv, TypeOK, rowVars

(* A step that writes neither rows nor egresses nor the start, and leaves the *)
(* status started where it has to be.                                         *)
LEMMA ColumnsWritten ==
    ASSUME IInv, UNCHANGED <<now, startedAt, answer, egress>>,
           status' \in InterviewStatus, duration' \in Durations, tokens' \subseteq TokenStatus,
           pipeline' \in {"idle", "handedOver", "evaluated"},
           StartedWhenActive', PipelineStarted'
    PROVE  Grows /\ WorldOK'
  <1>1. Grows
    BY DEF Grows, IInv, TypeOK
  <1>2. RowsOK' /\ UploadedWasRecorded'
    BY DEF IInv, RowsOK, EgressOfItsQuestion, UploadedWasRecorded
  <1> QED BY <1>1, <1>2 DEF WorldOK, IInv, TypeOK

LEMMA StopNextOK ==
    ASSUME IInv, NEW h \in Handlers, NEW from, NEW to,
           \/ from = "stopAll" /\ to = "markAll"
           \/ from = "interrupt" /\ to = "markInterrupted"
           \/ from = "stopOne" /\ to = "markStopped",
           StopNext(h, from, to)
    PROVE  IInv'
  <1>1. call[h] \in Call /\ LocalOK(call[h]) /\ call[h].pc = from
    BY DEF StopNext, At, IInv, TypeOK, LocalsOK
  <1>2. PICK t \in call[h].todo :
          /\ AskToStop({t[2]})
          /\ call' = [call EXCEPT ![h].pc = to, ![h].e = t[2]]
    BY DEF StopNext
  <1>3. Grows /\ WorldOK'
    BY <1>2, StopAsked DEF StopNext
  <1>4. t[2] \in Egresses
    BY <1>1 DEF Call
  <1>5. [call[h] EXCEPT !.pc = to, !.e = t[2]] \in Call
    BY <1>1, <1>4 DEF Call, Step
  <1>6. PICK c \in Call : c = [call[h] EXCEPT !.pc = to, !.e = t[2]]
    BY <1>5
  <1>7. LocalOK(c)
    BY <1>1, <1>6 DEF Call, LocalOK, RecordingSteps, SubmittingSteps
  <1>8. call' = [call EXCEPT ![h] = c]
    BY <1>1, <1>2, <1>6 DEF IInv, TypeOK
  <1>9. LocalOK(c)'
    BY <1>3, <1>7, LocalStable DEF IInv
  <1> QED BY <1>3, <1>8, <1>9, WriteOK

(* A pass that has dealt with one of its rows. *)
LEMMA PassOnOK ==
    ASSUME IInv, Grows, WorldOK', NEW h \in Handlers, NEW t, NEW again, NEW next,
           \/ /\ call[h].pc = "markAll"
              /\ again = "stopAll" /\ next = "markSubmitted"
           \/ /\ call[h].pc = "markInterrupted"
              /\ again = "interrupt" /\ next = "startEgress",
           PassOn(h, t, again, next)
    PROVE  IInv'
  <1> DEFINE rest == call[h].todo \ {t}
             step == IF rest = {} THEN next ELSE again
  <1>1. call[h] \in Call /\ LocalOK(call[h])
    BY DEF IInv, TypeOK, LocalsOK
  <1>2. step \in {next, again} /\ rest \subseteq call[h].todo
    OBVIOUS
  <1>3. call' = [call EXCEPT ![h].todo = rest, ![h].e = NoEgress, ![h].pc = step]
    BY DEF PassOn
  <1> HIDE DEF rest, step
  <1>4. [call[h] EXCEPT !.todo = rest, !.e = NoEgress, !.pc = step] \in Call
    BY <1>1, <1>2 DEF Call, Step
  <1>5. PICK c \in Call : c = [call[h] EXCEPT !.todo = rest, !.e = NoEgress, !.pc = step]
    BY <1>4
  <1>6. LocalOK(c)
    BY <1>1, <1>2, <1>5 DEF Call, LocalOK, RecordingSteps, SubmittingSteps
  <1>7. call' = [call EXCEPT ![h] = c]
    BY <1>1, <1>3, <1>5 DEF IInv, TypeOK
  <1>8. LocalOK(c)'
    BY <1>6, LocalStable DEF IInv
  <1> QED BY <1>7, <1>8, WriteOK

LEMMA MarkAllOK ==
    ASSUME IInv, NEW h \in Handlers, MarkAll(h)
    PROVE  IInv'
  <1>1. call[h] \in Call /\ LocalOK(call[h]) /\ call[h].pc = "markAll"
    BY DEF MarkAll, At, IInv, TypeOK, LocalsOK
  <1>2. PICK t \in call[h].todo :
          SetStatus(t[1], "processing") /\ PassOn(h, t, "stopAll", "markSubmitted")
    BY DEF MarkAll
  <1>3. t[1] \in Questions /\ answer[t[1]].status # "none"
    BY <1>1 DEF Call, LocalOK
  <1>4. Grows /\ WorldOK'
    BY <1>2, <1>3, StatusWritten DEF MarkAll, AnswerStatus
  <1> QED BY <1>1, <1>2, <1>4, PassOnOK

LEMMA MarkInterruptedOK ==
    ASSUME IInv, NEW h \in Handlers, MarkInterrupted(h)
    PROVE  IInv'
  <1>1. call[h] \in Call /\ LocalOK(call[h]) /\ call[h].pc = "markInterrupted"
    BY DEF MarkInterrupted, At, IInv, TypeOK, LocalsOK
  <1>2. PICK t \in call[h].todo :
          /\ IF t[1] = call[h].q THEN UNCHANGED answer ELSE SetStatus(t[1], "failed")
          /\ PassOn(h, t, "interrupt", "startEgress")
    BY DEF MarkInterrupted
  <1>3. t[1] \in Questions /\ answer[t[1]].status # "none"
    BY <1>1 DEF Call, LocalOK
  <1>4. UNCHANGED <<status, startedAt, duration, tokens, now, egress, pipeline>>
    BY DEF MarkInterrupted
  <1>5. Grows /\ WorldOK'
    <2>1. CASE t[1] = call[h].q
      BY <1>2, <1>4, <2>1, ColumnsWritten
      DEF IInv, TypeOK, StartedWhenActive, PipelineStarted
    <2>2. CASE t[1] # call[h].q
      BY <1>2, <1>3, <1>4, <2>2, StatusWritten DEF AnswerStatus
    <2> QED BY <2>1, <2>2
  <1> QED BY <1>1, <1>2, <1>5, PassOnOK

LEMMA MarkStoppedOK ==
    ASSUME IInv, NEW h \in Handlers, MarkStopped(h)
    PROVE  IInv'
  <1>1. call[h] \in Call /\ LocalOK(call[h])
    BY DEF IInv, TypeOK, LocalsOK
  <1>2. PICK t \in call[h].todo : SetStatus(t[1], "processing")
    BY DEF MarkStopped
  <1>3. t[1] \in Questions /\ answer[t[1]].status # "none"
    BY <1>1 DEF Call, LocalOK
  <1>4. Grows /\ WorldOK'
    BY <1>2, <1>3, StatusWritten DEF MarkStopped, AnswerStatus
  <1> QED BY <1>4, WriteAndReturn DEF MarkStopped

LEMMA MarkSubmittedOK ==
    ASSUME IInv, NEW h \in Handlers, MarkSubmitted(h)
    PROVE  IInv'
  <1>1. call[h] \in Call /\ LocalOK(call[h]) /\ startedAt # NotStarted
    BY DEF MarkSubmitted, At, IInv, TypeOK, LocalsOK, LocalOK, SubmittingSteps
  <1>2. StartedWhenActive' /\ PipelineStarted'
    BY <1>1 DEF MarkSubmitted, StartedWhenActive, PipelineStarted
  <1>3. Grows /\ WorldOK'
    BY <1>2, ColumnsWritten DEF MarkSubmitted, IInv, TypeOK, InterviewStatus
  <1>4. LocalOK([call[h] EXCEPT !.pc = "useTokens"])
    BY <1>1 DEF Call, LocalOK, RecordingSteps, SubmittingSteps
  <1> QED BY <1>3, <1>4, WriteAndGoto DEF MarkSubmitted, Step

LEMMA UseTokensOK ==
    ASSUME IInv, NEW h \in Handlers, UseTokens(h)
    PROVE  IInv'
  <1>1. call[h] \in Call /\ LocalOK(call[h])
    BY DEF IInv, TypeOK, LocalsOK
  <1>2. Grows /\ WorldOK'
    BY ColumnsWritten
    DEF UseTokens, CloseTokens, IInv, TypeOK, TokenStatus, StartedWhenActive, PipelineStarted
  <1>3. LocalOK([call[h] EXCEPT !.pc = "removeParticipant"])
    BY <1>1 DEF Call, LocalOK, RecordingSteps, SubmittingSteps
  <1> QED BY <1>2, <1>3, WriteAndGoto DEF UseTokens, Step

LEMMA RemoveParticipantOK ==
    ASSUME IInv, NEW h \in Handlers, RemoveParticipant(h)
    PROVE  IInv'
  <1>1. call[h] \in Call /\ LocalOK(call[h])
    BY DEF IInv, TypeOK, LocalsOK
  <1>2. Grows /\ WorldOK'
    BY StopAsked DEF RemoveParticipant
  <1>3. LocalOK([call[h] EXCEPT !.pc = "readStatus"])
    BY <1>1 DEF Call, LocalOK, RecordingSteps, SubmittingSteps
  <1> QED BY <1>2, <1>3, WriteAndGoto DEF RemoveParticipant, Step

LEMMA HandOverOK ==
    ASSUME IInv, NEW h \in Handlers, HandOver(h)
    PROVE  IInv'
  <1>1. call[h] \in Call /\ LocalOK(call[h]) /\ startedAt # NotStarted
    BY DEF HandOver, At, IInv, TypeOK, LocalsOK, LocalOK, SubmittingSteps
  <1>2. StartedWhenActive' /\ PipelineStarted'
    BY <1>1 DEF HandOver, IInv, StartedWhenActive, PipelineStarted, rowVars
  <1>3. pipeline' \in {"idle", "handedOver", "evaluated"}
    BY DEF HandOver, IInv, TypeOK
  <1>4. Grows /\ WorldOK'
    BY <1>2, <1>3, ColumnsWritten DEF HandOver, rowVars, IInv, TypeOK
  <1>5. CASE Resume(h) = "idle"
    BY <1>4, <1>5, WriteAndReturn DEF HandOver, GotoOrReturn
  <1>6. CASE Resume(h) # "idle"
    <2>1. Goto(h, Resume(h))
      BY <1>6 DEF HandOver, GotoOrReturn
    <2>2. LocalOK([call[h] EXCEPT !.pc = Resume(h)])
      BY <1>1, ResumeFacts DEF Call, LocalOK, RecordingSteps, SubmittingSteps
    <2> QED BY <1>4, <2>1, <2>2, ResumeOK, WriteAndGoto
  <1> QED BY <1>5, <1>6

LEMMA BeginRoundOK ==
    ASSUME IInv, NEW h \in Handlers, BeginRound(h)
    PROVE  IInv'
  <1>1. Return(h) /\ UNCHANGED <<duration, tokens, answer, now, egress, pipeline>>
    BY DEF BeginRound
  <1>2. CASE UNCHANGED <<status, startedAt>>
    <2>1. StartedWhenActive' /\ PipelineStarted'
      BY <1>1, <1>2 DEF IInv, StartedWhenActive, PipelineStarted
    <2>2. Grows /\ WorldOK'
      BY <1>1, <1>2, <2>1, ColumnsWritten DEF IInv, TypeOK
    <2> QED BY <1>1, <2>2, WriteAndReturn
  <1>3. CASE status' = "in_progress" /\ startedAt' = now
    <2>1. startedAt' \in Nat /\ startedAt' # NotStarted
      BY <1>3, NotStartedAssumption DEF IInv, TypeOK
    <2>2. Grows
      BY <1>1, <2>1 DEF Grows
    <2>3. RowsOK' /\ StartedWhenActive' /\ PipelineStarted' /\ UploadedWasRecorded'
      BY <1>1, <2>1
      DEF IInv, RowsOK, EgressOfItsQuestion, StartedWhenActive, PipelineStarted,
          UploadedWasRecorded
    <2>4. WorldOK'
      BY <1>1, <1>3, <2>1, <2>3 DEF WorldOK, IInv, TypeOK, InterviewStatus
    <2> QED BY <1>1, <2>2, <2>4, WriteAndReturn
  <1> QED BY <1>2, <1>3 DEF BeginRound

LEMMA StartEgressOK ==
    ASSUME IInv, NEW h \in Handlers, StartEgress(h)
    PROVE  IInv'
  <1>1. /\ UNCHANGED <<rowVars, now, pipeline>>
        /\ call[h] \in Call /\ LocalOK(call[h])
        /\ call[h].op = "startRecording" /\ call[h].q \in Questions
    BY DEF StartEgress, At, IInv, TypeOK, LocalsOK, LocalOK, RecordingSteps
  <1>2. CASE Return(h) /\ UNCHANGED egress
    BY <1>1, <1>2, ReturnOnly
  <1>3. ASSUME NEW e \in Egresses, egress[e].state = "unused",
               egress' = [egress EXCEPT ![e] = [state |-> "active", question |-> call[h].q]],
               call' = [call EXCEPT ![h].pc = "lookup", ![h].e = e]
        PROVE  IInv'
    <2>1. /\ egress' \in [Egresses -> Egress]
          /\ egress'[e] = [state |-> "active", question |-> call[h].q]
          /\ \A d \in Egresses : d # e => egress'[d] = egress[d]
      BY <1>1, <1>3 DEF IInv, TypeOK, Egress
    <2>2. Grows
      BY <1>1, <1>3, <2>1 DEF Grows, Conclusive, rowVars
    <2>3. RowsOK' /\ UploadedWasRecorded'
      BY <1>1, <1>3, <2>1 DEF IInv, RowsOK, EgressOfItsQuestion, UploadedWasRecorded, rowVars
    <2>4. StartedWhenActive' /\ PipelineStarted'
      BY <1>1 DEF IInv, StartedWhenActive, PipelineStarted, rowVars
    <2>5. WorldOK'
      BY <1>1, <2>1, <2>3, <2>4 DEF WorldOK, IInv, TypeOK, rowVars
    <2>6. [call[h] EXCEPT !.pc = "lookup", !.e = e] \in Call
      BY <1>1 DEF Call, Step
    <2>7. PICK c \in Call : c = [call[h] EXCEPT !.pc = "lookup", !.e = e]
      BY <2>6
    <2>8. call' = [call EXCEPT ![h] = c]
      BY <1>1, <1>3, <2>7 DEF IInv, TypeOK
    <2>9. LocalOK(c)'
      <3>1. /\ c.op = "startRecording" /\ c.q = call[h].q /\ c.e = e /\ c.pc = "lookup"
            /\ c.todo = call[h].todo
        BY <1>1, <2>7 DEF Call
      <3>2. \A t \in c.todo : answer'[t[1]].status # "none"
        BY <1>1, <3>1 DEF LocalOK, rowVars
      <3> QED BY <1>1, <2>1, <3>1, <3>2 DEF LocalOK, SubmittingSteps
    <2> QED BY <2>2, <2>5, <2>8, <2>9, WriteOK
  <1> QED BY <1>2, <1>3 DEF StartEgress

(* The row of a recording that has just been started may be written. *)
LEMMA RecordingRowFacts ==
    ASSUME IInv, NEW h \in Handlers, call[h].pc \in {"overwrite", "insert"}
    PROVE  /\ call[h].q \in Questions
           /\ RecordingRow(h) \in Answer
           /\ RecordingRow(h).status = "recording"
           /\ RecordingRow(h).egress \in Egresses
           /\ egress[RecordingRow(h).egress].question = call[h].q
           /\ egress[RecordingRow(h).egress].state # "unused"
  BY DEF IInv, TypeOK, LocalsOK, LocalOK, RecordingSteps, RecordingRow, Answer, AnswerStatus

LEMMA OverwriteOK ==
    ASSUME IInv, NEW h \in Handlers, Overwrite(h)
    PROVE  IInv'
  <1>1. call[h].pc = "overwrite"
    BY DEF Overwrite, At
  <1>2. answer' = [answer EXCEPT ![call[h].q] = RecordingRow(h)]
    BY DEF Overwrite, RowsOfQuestion
  <1> DEFINE row == RecordingRow(h)
  <1>3. /\ call[h].q \in Questions /\ row \in Answer
        /\ row.status = "recording" /\ row.egress \in Egresses
        /\ egress[row.egress].question = call[h].q /\ egress[row.egress].state # "unused"
    BY <1>1, RecordingRowFacts
  <1> HIDE DEF row
  <1>4. answer' = [answer EXCEPT ![call[h].q] = row]
    BY <1>2 DEF row
  <1>5. Grows /\ WorldOK'
    BY <1>3, <1>4, RowWritten DEF Overwrite
  <1> QED BY <1>5, WriteAndReturn DEF Overwrite

LEMMA InsertOK ==
    ASSUME IInv, NEW h \in Handlers, Insert(h)
    PROVE  IInv'
  <1>1. call[h].pc = "insert"
    BY DEF Insert, At
  <1>2. CASE RowsOfQuestion(call[h].q) # {}
    <2>1. UNCHANGED <<rowVars, now, egress, pipeline>>
      BY <1>2 DEF Insert, rowVars
    <2> QED BY <2>1, ReturnOnly DEF Insert
  <1>3. CASE RowsOfQuestion(call[h].q) = {}
    <2> DEFINE row == RecordingRow(h)
    <2>1. /\ call[h].q \in Questions /\ row \in Answer
          /\ row.status = "recording" /\ row.egress \in Egresses
          /\ egress[row.egress].question = call[h].q /\ egress[row.egress].state # "unused"
      BY <1>1, RecordingRowFacts
    <2>2. answer' = [answer EXCEPT ![call[h].q] = row]
      BY <1>3 DEF Insert
    <2> HIDE DEF row
    <2>3. Grows /\ WorldOK'
      BY <2>1, <2>2, RowWritten DEF Insert
    <2> QED BY <2>3, WriteAndReturn DEF Insert
  <1> QED BY <1>2, <1>3

LEMMA ApplyResultOK ==
    ASSUME IInv, NEW h \in Handlers, ApplyResult(h)
    PROVE  IInv'
  <1>1. /\ call[h] \in Call /\ LocalOK(call[h])
        /\ call[h].e \in Egresses /\ call[h].q \in Questions
        /\ Conclusive(call[h].e)
        /\ egress[call[h].e].question = call[h].q
        /\ answer[call[h].q].status # "none"
    BY DEF ApplyResult, At, IInv, TypeOK, LocalsOK, LocalOK
  <1>2. /\ Outcome(call[h].e) \in AnswerStatus \ {"none"}
        /\ Outcome(call[h].e) = "uploaded" => egress[call[h].e].state = "complete"
    BY DEF Outcome, AnswerStatus
  <1>3. Grows /\ WorldOK'
    BY <1>1, <1>2, StatusWritten DEF ApplyResult
  <1>4. LocalOK([call[h] EXCEPT !.pc = "readStatus"])
    BY <1>1 DEF Call, LocalOK, RecordingSteps, SubmittingSteps
  <1> QED BY <1>3, <1>4, WriteAndGoto DEF ApplyResult, Step

LEMMA IssueTokenOK ==
    ASSUME IInv, NEW h \in Handlers, IssueToken(h)
    PROVE  IInv'
  <1>1. call[h] \in Call /\ LocalOK(call[h])
    BY DEF IInv, TypeOK, LocalsOK
  <1>2. Grows /\ WorldOK'
    BY ColumnsWritten
    DEF IssueToken, IInv, TypeOK, TokenStatus, StartedWhenActive, PipelineStarted
  <1>3. CASE Return(h)
    BY <1>2, <1>3, WriteAndReturn
  <1>4. CASE Goto(h, "mail")
    <2>1. LocalOK([call[h] EXCEPT !.pc = "mail"])
      BY <1>1 DEF Call, LocalOK, RecordingSteps, SubmittingSteps
    <2> QED BY <1>2, <1>4, <2>1, WriteAndGoto DEF Step
  <1> QED BY <1>3, <1>4 DEF IssueToken

LEMMA MarkInvitedOK ==
    ASSUME IInv, NEW h \in Handlers, MarkInvited(h)
    PROVE  IInv'
  <1>1. Grows /\ WorldOK'
    BY ColumnsWritten
    DEF MarkInvited, IInv, TypeOK, InterviewStatus, StartedWhenActive, PipelineStarted
  <1> QED BY <1>1, WriteAndReturn DEF MarkInvited

LEMMA MarkCancelledOK ==
    ASSUME IInv, NEW h \in Handlers, MarkCancelled(h)
    PROVE  IInv'
  <1>1. call[h] \in Call /\ LocalOK(call[h])
    BY DEF IInv, TypeOK, LocalsOK
  <1>2. Grows /\ WorldOK'
    BY ColumnsWritten
    DEF MarkCancelled, IInv, TypeOK, InterviewStatus, StartedWhenActive, PipelineStarted
  <1>3. LocalOK([call[h] EXCEPT !.pc = "revoke"])
    BY <1>1 DEF Call, LocalOK, RecordingSteps, SubmittingSteps
  <1> QED BY <1>2, <1>3, WriteAndGoto DEF MarkCancelled, Step

LEMMA RevokeOK ==
    ASSUME IInv, NEW h \in Handlers, Revoke(h)
    PROVE  IInv'
  <1>1. Grows /\ WorldOK'
    BY ColumnsWritten
    DEF Revoke, CloseTokens, IInv, TypeOK, TokenStatus, StartedWhenActive, PipelineStarted
  <1> QED BY <1>1, WriteAndReturn DEF Revoke

LEMMA SetDurationOK ==
    ASSUME IInv, NEW h \in Handlers, SetDuration(h)
    PROVE  IInv'
  <1>1. Grows /\ WorldOK'
    BY ColumnsWritten
    DEF SetDuration, IInv, TypeOK, StartedWhenActive, PipelineStarted
  <1> QED BY <1>1, WriteAndReturn DEF SetDuration

--------------------------------------------------------------------------------
(* The world around the handlers.                                            *)

LEMMA WorldStepOK ==
    ASSUME IInv, Grows, WorldOK', UNCHANGED call
    PROVE  IInv'
  <1>1. ASSUME NEW h \in Handlers PROVE LocalOK(call[h])'
    <2>1. PICK c \in Call : c = call[h] /\ LocalOK(c)
      BY DEF IInv, TypeOK, LocalsOK
    <2>2. LocalOK(c)'
      BY <2>1, LocalStable DEF IInv
    <2>3. call'[h] = c
      BY <2>1
    <2> QED BY <2>2, <2>3 DEF LocalOK
  <1> QED BY <1>1 DEF WorldOK, IInv, TypeOK, LocalsOK

LEMMA TickOK ==
    ASSUME IInv, Tick
    PROVE  IInv'
  <1>1. now' \in Nat /\ UNCHANGED <<rowVars, egress, pipeline, call>>
    BY DEF Tick, IInv, TypeOK
  <1>2. Grows
    BY <1>1 DEF Grows, rowVars
  <1>3. RowsOK' /\ StartedWhenActive' /\ PipelineStarted' /\ UploadedWasRecorded'
    BY <1>1
    DEF IInv, rowVars, RowsOK, EgressOfItsQuestion, StartedWhenActive, PipelineStarted,
        UploadedWasRecorded
  <1>4. WorldOK'
    BY <1>1, <1>3 DEF WorldOK, IInv, TypeOK, rowVars
  <1> QED BY <1>1, <1>2, <1>4, WorldStepOK

LEMMA EvaluatedOK ==
    ASSUME IInv, Evaluated
    PROVE  IInv'
  <1>1. startedAt # NotStarted
    BY DEF Evaluated, IInv, PipelineStarted
  <1>2. StartedWhenActive' /\ PipelineStarted'
    BY <1>1 DEF Evaluated, StartedWhenActive, PipelineStarted
  <1>3. Grows /\ WorldOK'
    BY <1>2, ColumnsWritten DEF Evaluated, IInv, TypeOK, InterviewStatus
  <1> QED BY <1>3, WorldStepOK DEF Evaluated

LEMMA EgressEndsOK ==
    ASSUME IInv, NEW e \in Egresses, EgressEnds(e)
    PROVE  IInv'
  <1>1. PICK outcome \in {"complete", "failed", "truncated"} :
          egress' = [egress EXCEPT ![e].state = outcome]
    BY DEF EgressEnds
  <1>2. /\ egress' \in [Egresses -> Egress]
        /\ egress'[e].state = outcome /\ egress'[e].question = egress[e].question
        /\ \A d \in Egresses : d # e => egress'[d] = egress[d]
    BY <1>1 DEF IInv, TypeOK, Egress
  <1>3. egress[e].state \in {"active", "stopping"} /\ UNCHANGED <<rowVars, now, pipeline, call>>
    BY DEF EgressEnds
  <1>4. Grows
    BY <1>2, <1>3 DEF Grows, Conclusive, rowVars
  <1>5. RowsOK' /\ UploadedWasRecorded'
    BY <1>2, <1>3 DEF IInv, RowsOK, EgressOfItsQuestion, UploadedWasRecorded, rowVars
  <1>6. StartedWhenActive' /\ PipelineStarted'
    BY <1>3 DEF IInv, StartedWhenActive, PipelineStarted, rowVars
  <1>7. WorldOK'
    BY <1>2, <1>3, <1>5, <1>6 DEF WorldOK, IInv, TypeOK, rowVars
  <1> QED BY <1>3, <1>4, <1>7, WorldStepOK

--------------------------------------------------------------------------------
(* The theorems.                                                             *)

LEMMA InitOK == Init => IInv
  <1> SUFFICES ASSUME Init PROVE IInv
    OBVIOUS
  <1>1. TypeOK
    BY DurationsAssumption
    DEF Init, TypeOK, InterviewStatus, TokenStatus, Answer, AnswerStatus, Egress, Idle, Call, Step
  <1>2. RowsOK /\ StartedWhenActive /\ PipelineStarted /\ UploadedWasRecorded
    BY DEF Init, RowsOK, EgressOfItsQuestion, StartedWhenActive, PipelineStarted,
           UploadedWasRecorded
  <1>3. LocalsOK
    BY IdleOK DEF Init, LocalsOK
  <1> QED BY <1>1, <1>2, <1>3 DEF IInv

LEMMA ContinueOK ==
    ASSUME IInv, NEW h \in Handlers, Continue(h)
    PROVE  IInv'
  <1>1. CASE Load(h)              BY <1>1, LoadOK
  <1>2. CASE Reload(h)            BY <1>2, ReloadOK
  <1>3. CASE FindRecording(h)     BY <1>3, FindRecordingOK
  <1>4. CASE StopAll(h)           BY <1>4, StopNextOK DEF StopAll
  <1>5. CASE MarkAll(h)           BY <1>5, MarkAllOK
  <1>6. CASE MarkSubmitted(h)     BY <1>6, MarkSubmittedOK
  <1>7. CASE UseTokens(h)         BY <1>7, UseTokensOK
  <1>8. CASE RemoveParticipant(h) BY <1>8, RemoveParticipantOK
  <1>9. CASE ReadStatus(h)        BY <1>9, ReadStatusOK
  <1>10. CASE CountPending(h)     BY <1>10, CountPendingOK
  <1>11. CASE HandOver(h)         BY <1>11, HandOverOK
  <1>12. CASE BeginRound(h)       BY <1>12, BeginRoundOK
  <1>13. CASE FindInterrupted(h)  BY <1>13, FindInterruptedOK
  <1>14. CASE Interrupt(h)        BY <1>14, StopNextOK DEF Interrupt
  <1>15. CASE MarkInterrupted(h)  BY <1>15, MarkInterruptedOK
  <1>16. CASE StartEgress(h)      BY <1>16, StartEgressOK
  <1>17. CASE Lookup(h)           BY <1>17, LookupOK
  <1>18. CASE Overwrite(h)        BY <1>18, OverwriteOK
  <1>19. CASE Insert(h)           BY <1>19, InsertOK
  <1>20. CASE FindAnswer(h)       BY <1>20, FindAnswerOK
  <1>21. CASE StopOne(h)          BY <1>21, StopNextOK DEF StopOne
  <1>22. CASE MarkStopped(h)      BY <1>22, MarkStoppedOK
  <1>23. CASE FindByEgress(h)     BY <1>23, FindByEgressOK
  <1>24. CASE ApplyResult(h)      BY <1>24, ApplyResultOK
  <1>25. CASE ReadAnswers(h)      BY <1>25, ReadAnswersOK
  <1>26. CASE Reconcile(h)        BY <1>26, ReconcileOK
  <1>27. CASE IssueToken(h)       BY <1>27, IssueTokenOK
  <1>28. CASE MarkInvited(h)      BY <1>28, MarkInvitedOK
  <1>29. CASE MarkCancelled(h)    BY <1>29, MarkCancelledOK
  <1>30. CASE Revoke(h)           BY <1>30, RevokeOK
  <1>31. CASE SetDuration(h)      BY <1>31, SetDurationOK
  <1> QED
    BY <1>1, <1>2, <1>3, <1>4, <1>5, <1>6, <1>7, <1>8, <1>9, <1>10, <1>11, <1>12, <1>13,
       <1>14, <1>15, <1>16, <1>17, <1>18, <1>19, <1>20, <1>21, <1>22, <1>23, <1>24, <1>25,
       <1>26, <1>27, <1>28, <1>29, <1>30, <1>31
    DEF Continue

LEMMA StepOK == IInv /\ [Next]_vars => IInv'
  <1> SUFFICES ASSUME IInv, [Next]_vars PROVE IInv'
    OBVIOUS
  <1>1. ASSUME NEW h \in Handlers,
               \/ CandidateCall(h) \/ RecruiterCall(h) \/ RoomWebhook(h)
               \/ \E e \in Egresses : EgressWebhook(h, e)
        PROVE  IInv'
    BY <1>1, ArrivalOK
  <1>2. ASSUME NEW h \in Handlers, Continue(h) PROVE IInv'
    BY <1>2, ContinueOK
  <1>3. ASSUME NEW h \in Handlers, Crash(h) PROVE IInv'
    BY <1>3, CrashOK
  <1>4. CASE Tick
    BY <1>4, TickOK
  <1>5. CASE Evaluated
    BY <1>5, EvaluatedOK
  <1>6. ASSUME NEW e \in Egresses, EgressEnds(e) PROVE IInv'
    BY <1>6, EgressEndsOK
  <1>7. CASE UNCHANGED vars
    <2>1. Grows
      BY <1>7 DEF vars, Grows
    <2>2. WorldOK' /\ UNCHANGED call
      <3>1. WorldOK
        BY WorldAndLocals
      <3> QED
        BY <1>7, <3>1
        DEF vars, WorldOK, RowsOK, EgressOfItsQuestion, StartedWhenActive, PipelineStarted,
            UploadedWasRecorded
    <2> QED BY <2>1, <2>2, WorldStepOK
  <1> QED BY <1>1, <1>2, <1>3, <1>4, <1>5, <1>6, <1>7 DEF Next

(* The inductive invariant holds throughout. *)
THEOREM Invariance == Spec => []IInv
  BY InitOK, StepOK, PTL DEF Spec

(* Every column, every egress and every handler's locals keep their types.   *)
THEOREM TypeCorrect == Spec => []TypeOK
  <1>1. IInv => TypeOK
    BY DEF IInv
  <1> QED BY <1>1, Invariance, PTL

(* However requests, webhooks and crashes interleave, no answer is ever bound *)
(* to the recording of another question.                                      *)
THEOREM RecordingsNotMixedUp == Spec => []EgressOfItsQuestion
  <1>1. IInv => EgressOfItsQuestion
    BY DEF IInv, RowsOK
  <1> QED BY <1>1, Invariance, PTL

(* However requests, webhooks and crashes interleave, the startedAt! and the *)
(* deadline of an active or submitted round are never null.                  *)
THEOREM ActiveHasStart == Spec => []StartedWhenActive
  <1>1. IInv => StartedWhenActive
    BY DEF IInv
  <1> QED BY <1>1, Invariance, PTL

(* However requests, webhooks and crashes interleave, no answer is called    *)
(* uploaded for whose question no egress was completed.                      *)
THEOREM UploadsAreReal == Spec => []UploadedWasRecorded
  <1>1. IInv => UploadedWasRecorded
    BY DEF IInv
  <1> QED BY <1>1, Invariance, PTL

================================================================================
