---------------------------- MODULE InterviewSession ----------------------------
(***************************************************************************)
(* One interview round, as InterviewSessionService, the candidate guard,   *)
(* InterviewsService and LivekitService run it.                            *)
(*                                                                         *)
(* Every request or webhook is served by a handler slot.  A handler is an  *)
(* async method: it keeps what it has read in local variables (call[h])    *)
(* and every awaited database or LiveKit call is a step of its own, so two *)
(* handlers interleave between any two awaits.  With one slot the requests *)
(* are served one after the other; with two the races of the code appear.  *)
(*                                                                         *)
(* An egress is a server-side LiveKit recording.  It ends asynchronously,  *)
(* and its egress_ended webhook may arrive late, repeatedly or never.      *)
(***************************************************************************)
EXTENDS Naturals, FiniteSets

CONSTANTS
    Handlers,     \* slots in which requests and webhooks are served
    Questions,    \* the questions of the round
    Egresses,     \* the egress ids LiveKit may hand out: bounds the recordings made
    Durations,    \* round lengths a recruiter may choose
    MaxTime,      \* bound on the clock
    NotStarted,   \* startedAt of a round nobody has joined
    NoQuestion,   \* a handler that is about no question
    NoEgress,     \* an answer row, or a handler, without an egress
    Offered,      \* the operations an instance exercises: bounds the interleavings
    CrashPossible \* whether a handler may die (exception, restart) between two awaits

ASSUME DurationsAssumption == Durations \subseteq Nat /\ Durations # {}
ASSUME MaxTimeAssumption == MaxTime \in Nat
ASSUME NotStartedAssumption == NotStarted \notin Nat
ASSUME NoQuestionAssumption == NoQuestion \notin Questions
ASSUME NoEgressAssumption == NoEgress \notin Egresses
ASSUME OfferedAssumption == Offered \subseteq
    {"getSession", "joinRoom", "startRecording", "stopRecording", "submit",
     "sendInvitation", "getJoinLink", "cancel", "reschedule", "listRecordings",
     "egressEnded", "participantLeft"}
ASSUME CrashAssumption == CrashPossible \in BOOLEAN

VARIABLES
    now,       \* the wall clock
    status,    \* interviews.status
    startedAt, \* interviews.startedAt
    duration,  \* interviews.durationMinutes
    tokens,    \* the statuses found among the access tokens issued for the interview
    answer,    \* interview_answers, by question
    egress,    \* what LiveKit knows of each egress
    pipeline,  \* how far the transcription and evaluation pipeline has been driven
    call       \* the request each handler serves and its local variables

vars == <<now, status, startedAt, duration, tokens, answer, egress, pipeline, call>>
rowVars == <<status, startedAt, duration, tokens, answer>>

--------------------------------------------------------------------------------

InterviewStatus ==
    {"scheduled", "invitation_sent", "in_progress",
     "pending_evaluation", "completed", "cancelled"}

TokenStatus == {"active", "used", "revoked"}

(* "none" is a missing row; "uploaded" stands for transcribed and scored too: *)
(* the session treats the three alike.                                        *)
AnswerStatus == {"none", "recording", "processing", "uploaded", "failed"}

Answer == [status : AnswerStatus, egress : Egresses \cup {NoEgress}]

(* A truncated egress reached its limit and left no file. *)
Egress ==
    [state : {"unused", "active", "stopping", "complete", "failed", "truncated"},
     question : Questions \cup {NoQuestion}]

CandidateOp == {"getSession", "joinRoom", "startRecording", "stopRecording", "submit"}
RecruiterOp == {"sendInvitation", "getJoinLink", "cancel", "reschedule"}
WebhookOp == {"egressEnded", "participantLeft"}

(* The awaits a handler may be standing at. *)
Step ==
    {"idle", "load", "reload", "beginRound", "findInterrupted", "interrupt",
     "markInterrupted", "startEgress", "lookup", "overwrite", "insert",
     "findAnswer", "stopOne", "markStopped", "findRecording", "stopAll", "markAll",
     "markSubmitted", "useTokens", "removeParticipant", "readStatus",
     "countPending", "handOver", "findByEgress", "applyResult", "readAnswers",
     "reconcile", "issueToken", "mail", "markCancelled", "revoke", "setDuration"}

Call ==
    [op : CandidateOp \cup RecruiterOp \cup WebhookOp \cup {"none", "listRecordings"},
     pc : Step,
     q : Questions \cup {NoQuestion},
     e : Egresses \cup {NoEgress},
     auto : BOOLEAN,
     todo : SUBSET (Questions \X Egresses)]

Idle == [op |-> "none", pc |-> "idle", q |-> NoQuestion, e |-> NoEgress,
         auto |-> FALSE, todo |-> {}]

TypeOK ==
    /\ now \in Nat
    /\ status \in InterviewStatus
    /\ startedAt \in Nat \cup {NotStarted}
    /\ duration \in Durations
    /\ tokens \subseteq TokenStatus
    /\ answer \in [Questions -> Answer]
    /\ egress \in [Egresses -> Egress]
    /\ pipeline \in {"idle", "handedOver", "evaluated"}
    /\ call \in [Handlers -> Call]

Init ==
    /\ now = 0
    /\ status = "scheduled"
    /\ startedAt = NotStarted
    /\ duration \in Durations
    /\ tokens = {}
    /\ answer = [q \in Questions |-> [status |-> "none", egress |-> NoEgress]]
    /\ egress = [e \in Egresses |-> [state |-> "unused", question |-> NoQuestion]]
    /\ pipeline = "idle"
    /\ call = [h \in Handlers |-> Idle]

--------------------------------------------------------------------------------
(* What the handlers compute from a row they have read.                      *)

(* Faulty variants, named <definition>_<fault>, stand before the definition    *)
(* they vary; each breaks a property that the definition keeps.                *)
FinalStatus_UploadedOnly == {"uploaded"}
FinalStatus_WithProcessing == {"uploaded", "failed", "processing"}
FinalStatus == {"uploaded", "failed"}

PendingStatus_RecordingOnly == {"recording"}
PendingStatus == {"recording", "processing"}

(* isSubmitted *)
Submitted(s) == s \in {"pending_evaluation", "completed"}

(* assertNotTerminal *)
Terminal(s) == s \in {"cancelled", "completed"}

(* The condition under which enforceDeadline submits the round. *)
DeadlinePassed ==
    /\ status = "in_progress"
    /\ startedAt # NotStarted
    /\ now > startedAt + duration

StartsClock_UnlessSubmitted(s) == s # "cancelled" /\ ~Submitted(s)
StartsClock_WhenCancelled(s) == s # "in_progress" /\ ~Submitted(s)
(* The first join starts the clock; a later one finds it running. *)
StartsClock(s) == s \in {"scheduled", "invitation_sent"}

Active_UnlessCancelled(s) == s # "cancelled"
(* assertActiveAndFindQuestion *)
Active(s) == s = "in_progress"

(* Where a handler goes once it has read the interview with status s and     *)
(* enforced the deadline: on with its work, or back to the caller.           *)
Proceed(op, s) ==
    CASE op = "joinRoom"       /\ StartsClock(s)      -> "beginRound"
      [] op = "startRecording" /\ Active(s)           -> "findInterrupted"
      [] op = "stopRecording"                         -> "findAnswer"
      [] op = "submit"         /\ s = "in_progress"   -> "findRecording"
      [] op = "sendInvitation" /\ s = "scheduled"     -> "issueToken"
      [] op = "getJoinLink"    /\ ~Terminal(s)        -> "issueToken"
      [] op = "cancel"         /\ s # "completed"     -> "markCancelled"
      [] op = "reschedule"     /\ ~Terminal(s)        -> "setDuration"
      [] OTHER                                        -> "idle"

(* Rows a recording pass works on, with the egress id each row had when read. *)
RowsWithStatus(s) ==
    {<<q, answer[q].egress>> : q \in {r \in Questions : answer[r].status = s}}

RowsOfEgress_ByQuestion(e) ==
    {q \in Questions : q = egress[e].question /\ answer[q].status # "none"}
(* findOne({ egressId }) *)
RowsOfEgress(e) == {q \in Questions : answer[q].egress = e}

RowsOfQuestion_AnyQuestion(q) == {r \in Questions : answer[r].status # "none"}
(* findOne({ interviewId, interviewQuestionId }) *)
RowsOfQuestion(q) == {r \in {q} : answer[r].status # "none"}

--------------------------------------------------------------------------------
(* Moves of a handler.                                                       *)

At(h, step) == call[h].pc = step

Return(h) == call' = [call EXCEPT ![h] = Idle]

Goto(h, step) == call' = [call EXCEPT ![h].pc = step]

(* To step, or back to the caller when there is nothing left to do. *)
GotoOrReturn(h, step) == IF step = "idle" THEN Return(h) ELSE Goto(h, step)

SetStatus(q, s) == answer' = [answer EXCEPT ![q].status = s]

(* stopEgress only asks LiveKit to stop, and its failure is swallowed. *)
AskToStop(es) ==
    \/ egress' = [e \in Egresses |->
                    IF e \in es /\ egress[e].state = "active"
                    THEN [egress[e] EXCEPT !.state = "stopping"] ELSE egress[e]]
    \/ UNCHANGED egress

--------------------------------------------------------------------------------
(* Arrival of requests and webhooks.                                         *)

(* CandidateInterviewGuard lets a call in on any token that was not revoked. *)
TokenAdmits == \E t \in tokens : t # "revoked"

Begin(h, op, step, q, e) ==
    /\ At(h, "idle")
    /\ op \in Offered
    /\ call' = [call EXCEPT ![h] = [Idle EXCEPT !.op = op, !.pc = step, !.q = q, !.e = e]]
    /\ UNCHANGED <<rowVars, now, egress, pipeline>>

CandidateCall(h) ==
    /\ TokenAdmits
    /\ \/ \E op \in {"getSession", "joinRoom", "submit"} :
            Begin(h, op, "load", NoQuestion, NoEgress)
       \/ \E op \in {"startRecording", "stopRecording"}, q \in Questions :
            Begin(h, op, "load", q, NoEgress)

RecruiterCall(h) ==
    \/ \E op \in RecruiterOp : Begin(h, op, "load", NoQuestion, NoEgress)
    \/ Begin(h, "listRecordings", "readAnswers", NoQuestion, NoEgress)

(* participant_left or room_finished *)
RoomWebhook(h) == Begin(h, "participantLeft", "load", NoQuestion, NoEgress)

(* egress_ended: any number of times, any time after the egress has ended. *)
EgressWebhook(h, e) ==
    /\ egress[e].state \in {"complete", "failed", "truncated"}
    /\ Begin(h, "egressEnded", "findByEgress", NoQuestion, e)

--------------------------------------------------------------------------------
(* Reading the interview, enforceDeadline, and finalizeSubmit.               *)

Load(h) ==
    /\ At(h, "load")
    /\ IF DeadlinePassed /\ call[h].op \in CandidateOp \cup WebhookOp
       THEN call' = [call EXCEPT ![h].pc = "findRecording", ![h].auto = TRUE]
       ELSE GotoOrReturn(h, Proceed(call[h].op, status))
    /\ UNCHANGED <<rowVars, now, egress, pipeline>>

(* After an automatic submission the handler reads the interview again. *)
Reload(h) ==
    /\ At(h, "reload")
    /\ LET next == Proceed(call[h].op, status) IN
       IF next = "idle" THEN Return(h)
       ELSE call' = [call EXCEPT ![h].pc = next, ![h].auto = FALSE]
    /\ UNCHANGED <<rowVars, now, egress, pipeline>>

FindRecording_StopsNothing(h) ==
    /\ At(h, "findRecording")
    /\ Goto(h, "markSubmitted")
    /\ UNCHANGED <<rowVars, now, egress, pipeline>>

FindRecording(h) ==
    /\ At(h, "findRecording")
    /\ LET rows == RowsWithStatus("recording") IN
       call' = [call EXCEPT ![h].todo = rows,
                            ![h].pc = IF rows = {} THEN "markSubmitted" ELSE "stopAll"]
    /\ UNCHANGED <<rowVars, now, egress, pipeline>>

(* stopEgress for one row of a pass, before the row is written. *)
StopNext(h, from, to) ==
    /\ At(h, from)
    /\ \E t \in call[h].todo :
         /\ AskToStop({t[2]})
         /\ call' = [call EXCEPT ![h].pc = to, ![h].e = t[2]]
    /\ UNCHANGED <<rowVars, now, pipeline>>

(* The row just stopped leaves the pass; again if rows are left, else next. *)
PassOn(h, t, again, next) ==
    LET rest == call[h].todo \ {t} IN
    call' = [call EXCEPT ![h].todo = rest, ![h].e = NoEgress,
                         ![h].pc = IF rest = {} THEN next ELSE again]

StopAll(h) == StopNext(h, "stopAll", "markAll")

MarkAll(h) ==
    /\ At(h, "markAll")
    /\ \E t \in call[h].todo :
         /\ t[2] = call[h].e
         /\ SetStatus(t[1], "processing")
         /\ PassOn(h, t, "stopAll", "markSubmitted")
    /\ UNCHANGED <<status, startedAt, duration, tokens, now, egress, pipeline>>

MarkSubmitted(h) ==
    /\ At(h, "markSubmitted")
    /\ status' = "pending_evaluation"
    /\ Goto(h, "useTokens")
    /\ UNCHANGED <<startedAt, duration, tokens, answer, now, egress, pipeline>>

(* The bulk updates of a token status: every active token becomes to. *)
CloseTokens(to) ==
    tokens' = IF "active" \in tokens THEN (tokens \ {"active"}) \cup {to} ELSE tokens

UseTokens(h) ==
    /\ At(h, "useTokens")
    /\ CloseTokens("used")
    /\ Goto(h, "removeParticipant")
    /\ UNCHANGED <<status, startedAt, duration, answer, now, egress, pipeline>>

(* Disconnecting the candidate ends the tracks every egress records. *)
RemoveParticipant(h) ==
    /\ At(h, "removeParticipant")
    /\ AskToStop(Egresses)
    /\ Goto(h, "readStatus")
    /\ UNCHANGED <<rowVars, now, pipeline>>

--------------------------------------------------------------------------------
(* maybeEnqueueTranscription, called by finalizeSubmit and applyEgressResult. *)

(* Where the caller goes on once maybeEnqueueTranscription is through. *)
Resume(h) ==
    CASE call[h].auto                                        -> "reload"
      [] call[h].op = "listRecordings" /\ call[h].todo # {}  -> "reconcile"
      [] OTHER                                               -> "idle"

ReadStatus(h) ==
    /\ At(h, "readStatus")
    /\ IF status = "pending_evaluation"
       THEN Goto(h, "countPending") ELSE GotoOrReturn(h, Resume(h))
    /\ UNCHANGED <<rowVars, now, egress, pipeline>>

CountPending(h) ==
    /\ At(h, "countPending")
    /\ IF \E q \in Questions : answer[q].status \in PendingStatus
       THEN GotoOrReturn(h, Resume(h)) ELSE Goto(h, "handOver")
    /\ UNCHANGED <<rowVars, now, egress, pipeline>>

HandOver_NothingPlayable(h) ==
    /\ At(h, "handOver")
    /\ pipeline' = IF pipeline = "idle" THEN "handedOver" ELSE pipeline
    /\ GotoOrReturn(h, Resume(h))
    /\ UNCHANGED <<rowVars, now, egress>>

(* TranscriptionProducerService.enqueueForInterview: it drops a round in which *)
(* nothing can be played.                                                      *)
HandOver(h) ==
    /\ At(h, "handOver")
    /\ pipeline' = IF pipeline = "idle" /\ \E q \in Questions : answer[q].status = "uploaded"
                   THEN "handedOver" ELSE pipeline
    /\ GotoOrReturn(h, Resume(h))
    /\ UNCHANGED <<rowVars, now, egress>>

--------------------------------------------------------------------------------
(* joinRoom, startRecording and stopRecording.                               *)

BeginRound_NoStartedAt(h) ==
    /\ At(h, "beginRound")
    /\ status' = "in_progress"
    /\ Return(h)
    /\ UNCHANGED <<startedAt, duration, tokens, answer, now, egress, pipeline>>

(* LiveKit may be down: then ensureRoom throws and nothing is written.       *)
BeginRound(h) ==
    /\ At(h, "beginRound")
    /\ \/ /\ status' = "in_progress"
          /\ startedAt' = now
       \/ UNCHANGED <<status, startedAt>>
    /\ Return(h)
    /\ UNCHANGED <<duration, tokens, answer, now, egress, pipeline>>

FindInterrupted(h) ==
    /\ At(h, "findInterrupted")
    /\ LET rows == RowsWithStatus("recording") IN
       call' = [call EXCEPT ![h].todo = rows,
                            ![h].pc = IF rows = {} THEN "startEgress" ELSE "interrupt"]
    /\ UNCHANGED <<rowVars, now, egress, pipeline>>

Interrupt(h) == StopNext(h, "interrupt", "markInterrupted")

MarkInterrupted_KeepsOthers(h) ==
    /\ At(h, "markInterrupted")
    /\ \E t \in call[h].todo : t[2] = call[h].e /\ PassOn(h, t, "interrupt", "startEgress")
    /\ UNCHANGED <<rowVars, now, egress, pipeline>>

(* Another question's recording has failed; this one's is about to be replaced. *)
MarkInterrupted(h) ==
    /\ At(h, "markInterrupted")
    /\ \E t \in call[h].todo :
         /\ t[2] = call[h].e
         /\ IF t[1] = call[h].q THEN UNCHANGED answer ELSE SetStatus(t[1], "failed")
         /\ PassOn(h, t, "interrupt", "startEgress")
    /\ UNCHANGED <<status, startedAt, duration, tokens, now, egress, pipeline>>

(* LiveKit starts an egress under a fresh id, or refuses. *)
StartEgress(h) ==
    /\ At(h, "startEgress")
    /\ \/ \E e \in Egresses :
            /\ egress[e].state = "unused"
            /\ egress' = [egress EXCEPT ![e] = [state |-> "active", question |-> call[h].q]]
            /\ call' = [call EXCEPT ![h].pc = "lookup", ![h].e = e]
       \/ /\ Return(h)
          /\ UNCHANGED egress
    /\ UNCHANGED <<rowVars, now, pipeline>>

Lookup(h) ==
    /\ At(h, "lookup")
    /\ Goto(h, IF RowsOfQuestion(call[h].q) = {} THEN "insert" ELSE "overwrite")
    /\ UNCHANGED <<rowVars, now, egress, pipeline>>

(* The row a recording that has just been started is kept in. *)
RecordingRow(h) == [status |-> "recording", egress |-> call[h].e]

Overwrite(h) ==
    /\ At(h, "overwrite")
    /\ \E q \in RowsOfQuestion(call[h].q) : answer' = [answer EXCEPT ![q] = RecordingRow(h)]
    /\ Return(h)
    /\ UNCHANGED <<status, startedAt, duration, tokens, now, egress, pipeline>>

(* The insert fails when another handler has inserted the question's row first. *)
Insert(h) ==
    /\ At(h, "insert")
    /\ IF RowsOfQuestion(call[h].q) = {}
       THEN answer' = [answer EXCEPT ![call[h].q] = RecordingRow(h)]
       ELSE UNCHANGED answer
    /\ Return(h)
    /\ UNCHANGED <<status, startedAt, duration, tokens, now, egress, pipeline>>

FindAnswer(h) ==
    /\ At(h, "findAnswer")
    /\ LET rows == {t \in RowsWithStatus("recording") : t[1] = call[h].q} IN
       IF rows = {} THEN Return(h)
       ELSE call' = [call EXCEPT ![h].pc = "stopOne", ![h].todo = rows]
    /\ UNCHANGED <<rowVars, now, egress, pipeline>>

StopOne(h) == StopNext(h, "stopOne", "markStopped")

MarkStopped(h) ==
    /\ At(h, "markStopped")
    /\ \E t \in call[h].todo : SetStatus(t[1], "processing")
    /\ Return(h)
    /\ UNCHANGED <<status, startedAt, duration, tokens, now, egress, pipeline>>

--------------------------------------------------------------------------------
(* applyEgressResult, and listRecordingsForRecruiter which asks for it.      *)

(* The rows an egress result is applied to: none once the answer is final or *)
(* has been recorded again under another egress.                             *)
RowsAwaiting(e) == {q \in RowsOfEgress(e) : answer[q].status \notin FinalStatus}

(* A limit reached counts with a file, and without one neither as a success  *)
(* nor as a failure: such a result is dropped like that of a running egress. *)
Conclusive(e) == egress[e].state \in {"complete", "failed"}

FindByEgress(h) ==
    /\ At(h, "findByEgress")
    /\ LET rows == RowsAwaiting(call[h].e) IN
       IF rows = {} \/ ~Conclusive(call[h].e) THEN GotoOrReturn(h, Resume(h))
       ELSE \E q \in rows : call' = [call EXCEPT ![h].pc = "applyResult", ![h].q = q]
    /\ UNCHANGED <<rowVars, now, egress, pipeline>>

Outcome_FileOrNot(e) == "uploaded"
Outcome(e) == IF egress[e].state = "complete" THEN "uploaded" ELSE "failed"

ApplyResult_NoEnqueue(h) ==
    /\ At(h, "applyResult")
    /\ SetStatus(call[h].q, Outcome(call[h].e))
    /\ GotoOrReturn(h, Resume(h))
    /\ UNCHANGED <<status, startedAt, duration, tokens, now, egress, pipeline>>

ApplyResult(h) ==
    /\ At(h, "applyResult")
    /\ SetStatus(call[h].q, Outcome(call[h].e))
    /\ Goto(h, "readStatus")
    /\ UNCHANGED <<status, startedAt, duration, tokens, now, egress, pipeline>>

(* reconcileStaleRecordings: any processing answer may have waited its minute. *)
ReadAnswers(h) ==
    /\ At(h, "readAnswers")
    /\ \E stale \in SUBSET RowsWithStatus("processing") :
         IF stale = {} THEN Return(h)
         ELSE call' = [call EXCEPT ![h].pc = "reconcile", ![h].todo = stale]
    /\ UNCHANGED <<rowVars, now, egress, pipeline>>

(* getEgress for one of them; a failed call or an inconclusive one is skipped. *)
Reconcile(h) ==
    /\ At(h, "reconcile")
    /\ \E t \in call[h].todo :
         LET rest == call[h].todo \ {t} IN
         \/ /\ Conclusive(t[2])
            /\ call' = [call EXCEPT ![h].pc = "findByEgress", ![h].todo = rest, ![h].e = t[2]]
         \/ call' = IF rest = {} THEN [call EXCEPT ![h] = Idle]
                    ELSE [call EXCEPT ![h].todo = rest]
    /\ UNCHANGED <<rowVars, now, egress, pipeline>>

--------------------------------------------------------------------------------
(* sendInvitation, getJoinLink, cancel and reschedule.                       *)

IssueToken(h) ==
    /\ At(h, "issueToken")
    /\ tokens' = tokens \cup {"active"}
    /\ IF call[h].op = "sendInvitation" THEN Goto(h, "mail") ELSE Return(h)
    /\ UNCHANGED <<status, startedAt, duration, answer, now, egress, pipeline>>

(* The status is written only after the mail has been sent, if it was. *)
MarkInvited(h) ==
    /\ At(h, "mail")
    /\ \/ status' = "invitation_sent"
       \/ UNCHANGED status
    /\ Return(h)
    /\ UNCHANGED <<startedAt, duration, tokens, answer, now, egress, pipeline>>

MarkCancelled_LeavesTokens(h) ==
    /\ At(h, "markCancelled")
    /\ status' = "cancelled"
    /\ Return(h)
    /\ UNCHANGED <<startedAt, duration, tokens, answer, now, egress, pipeline>>

MarkCancelled(h) ==
    /\ At(h, "markCancelled")
    /\ status' = "cancelled"
    /\ Goto(h, "revoke")
    /\ UNCHANGED <<startedAt, duration, tokens, answer, now, egress, pipeline>>

Revoke(h) ==
    /\ At(h, "revoke")
    /\ CloseTokens("revoked")
    /\ Return(h)
    /\ UNCHANGED <<status, startedAt, duration, answer, now, egress, pipeline>>

SetDuration(h) ==
    /\ At(h, "setDuration")
    /\ duration' \in Durations
    /\ Return(h)
    /\ UNCHANGED <<status, startedAt, tokens, answer, now, egress, pipeline>>

--------------------------------------------------------------------------------
(* The world around the handlers.                                            *)

Tick ==
    /\ now < MaxTime
    /\ now' = now + 1
    /\ UNCHANGED <<rowVars, egress, pipeline, call>>

(* A running egress ends because it was stopped, the candidate's tracks ended, *)
(* its limit was reached, with a file or without, or it broke.                 *)
EgressEnds(e) ==
    /\ egress[e].state \in {"active", "stopping"}
    /\ \E outcome \in {"complete", "failed", "truncated"} :
         egress' = [egress EXCEPT ![e].state = outcome]
    /\ UNCHANGED <<rowVars, now, pipeline, call>>

(* EvaluationService.evaluate commits: the status is written whatever it was. *)
Evaluated ==
    /\ pipeline = "handedOver"
    /\ pipeline' = "evaluated"
    /\ status' = "completed"
    /\ UNCHANGED <<startedAt, duration, tokens, answer, now, egress, call>>

(* The handler is gone, by an exception or a restart, and what it did stays.  *)
Crash(h) ==
    /\ CrashPossible
    /\ ~At(h, "idle")
    /\ Return(h)
    /\ UNCHANGED <<rowVars, now, egress, pipeline>>

Continue(h) ==
    \/ Load(h) \/ Reload(h) \/ FindRecording(h) \/ StopAll(h) \/ MarkAll(h)
    \/ MarkSubmitted(h) \/ UseTokens(h) \/ RemoveParticipant(h)
    \/ ReadStatus(h) \/ CountPending(h) \/ HandOver(h)
    \/ BeginRound(h) \/ FindInterrupted(h) \/ Interrupt(h) \/ MarkInterrupted(h)
    \/ StartEgress(h) \/ Lookup(h) \/ Overwrite(h) \/ Insert(h)
    \/ FindAnswer(h) \/ StopOne(h) \/ MarkStopped(h)
    \/ FindByEgress(h) \/ ApplyResult(h) \/ ReadAnswers(h) \/ Reconcile(h)
    \/ IssueToken(h) \/ MarkInvited(h) \/ MarkCancelled(h) \/ Revoke(h) \/ SetDuration(h)

Next ==
    \/ \E h \in Handlers :
         \/ CandidateCall(h) \/ RecruiterCall(h) \/ RoomWebhook(h)
         \/ \E e \in Egresses : EgressWebhook(h, e)
         \/ Continue(h) \/ Crash(h)
    \/ Tick \/ Evaluated
    \/ \E e \in Egresses : EgressEnds(e)

Spec == Init /\ [][Next]_vars

(***************************************************************************)
(* Fairness: a handler that is not killed finishes; LiveKit ends every     *)
(* egress sooner or later (the candidate leaves, the limit is reached) and *)
(* retries the webhook of an ended egress until a handler takes it.        *)
(* Nobody is obliged to make a request, and time need not pass.            *)
(***************************************************************************)
Fairness ==
    /\ \A h \in Handlers : WF_vars(Continue(h))
    /\ \A e \in Egresses : WF_vars(EgressEnds(e))
    /\ \A e \in Egresses : SF_vars(\E h \in Handlers : EgressWebhook(h, e))

FairSpec == Spec /\ Fairness

--------------------------------------------------------------------------------
(* Properties of every interleaving of the handlers.                         *)

(* An answer row only ever names an egress that recorded this very question, *)
(* so no two answers share a recording whatever startRecording raced with.   *)
EgressOfItsQuestion ==
    \A q \in Questions : answer[q].status # "none" =>
        /\ answer[q].egress \in Egresses
        /\ egress[answer[q].egress].question = q
        /\ egress[answer[q].egress].state # "unused"

(* A round that is running or was submitted has a start: the startedAt! of   *)
(* joinRoom's answer and the deadline of every later call are never null.    *)
StartedWhenActive ==
    status \in {"in_progress", "pending_evaluation", "completed"} => startedAt # NotStarted

(* An answer is only ever called uploaded if some egress of its question was *)
(* completed: applyEgressResult believes nothing but an ended egress.        *)
UploadedWasRecorded ==
    \A q \in Questions : answer[q].status = "uploaded" =>
        \E e \in Egresses : egress[e].question = q /\ egress[e].state = "complete"

--------------------------------------------------------------------------------
(* Properties of a service that serves one request at a time.                *)

(* startRecording: only one recording runs per interview at a time.          *)
OneAnswerRecording ==
    \A q, r \in Questions :
        answer[q].status = "recording" /\ answer[r].status = "recording" => q = r

(* finalizeSubmit leaves no answer recording in a submitted round.           *)
SubmittedIsQuiet ==
    Submitted(status) => \A q \in Questions : answer[q].status # "recording"

(* maybeEnqueueTranscription hands the round over only once every recording  *)
(* has settled, and nothing unsettles one afterwards.                        *)
HandedOverIsSettled ==
    pipeline # "idle" =>
        \A q \in Questions : answer[q].status \notin {"recording", "processing"}

(* The egress an uploaded answer names is the one whose file was completed:  *)
(* a late webhook of an egress that was recorded over does not count.        *)
UploadedHasItsFile ==
    \A q \in Questions : answer[q].status = "uploaded" =>
        egress[answer[q].egress].state = "complete"

(* Duplicate and late webhooks, stopRecording and finalizeSubmit leave alone *)
(* an answer that is final, until it is recorded again.                      *)
FinalAnswerKept ==
    [][\A q \in Questions :
         answer[q].status \in {"uploaded", "failed"} /\ answer'[q].egress = answer[q].egress
           => answer'[q].status = answer[q].status]_vars

(* Rejoining mid-round keeps the original start, hence the deadline.         *)
ClockKept == [][startedAt # NotStarted => startedAt' = startedAt]_vars

(* What the transcription pipeline was handed is what the round contains for *)
(* good: no later call or webhook changes an answer row.                     *)
AnswersFrozen == [][pipeline # "idle" => answer' = answer]_vars

(* A cancelled round never runs again.                                       *)
CancelledNotReopened ==
    [][status = "cancelled" => status' \in {"cancelled", "completed"}]_vars

--------------------------------------------------------------------------------
(* Liveness of a service that serves one request at a time.                  *)

(* The answer waits for a verdict that its egress never gives. *)
Truncated(q) ==
    answer[q].status = "processing" /\ egress[answer[q].egress].state = "truncated"

(* A submitted round reaches the pipeline, unless it is cancelled, every     *)
(* recording in it has failed, or one of them was truncated.                 *)
SubmittedIsHandedOver ==
    status = "pending_evaluation" ~>
        \/ pipeline # "idle"
        \/ status # "pending_evaluation"
        \/ \A q \in Questions : answer[q].status \in {"none", "failed"}
        \/ \E q \in Questions : Truncated(q)

(* The webhook of an ended egress settles the answer waiting for it, unless  *)
(* the egress was truncated.                                                 *)
ProcessingSettles ==
    \A q \in Questions :
        answer[q].status = "processing" ~> answer[q].status # "processing" \/ Truncated(q)

(* Cancelling closes the links that are still open.                          *)
CancelClosesLinks == status = "cancelled" ~> "active" \notin tokens

================================================================================
