-------------------------- MODULE TranscriptionProofs --------------------------
(***************************************************************************)
(* What holds of Transcription for any number of answers, of concurrent    *)
(* hand-overs and of event workers, with crashes and redelivered events.   *)
(***************************************************************************)
EXTENDS TranscriptionRefinesAssembly, TLAPS

--------------------------------------------------------------------------------
(* The inductive invariant.                                                  *)

(* An answer is only marked completed once the service has completed it. *)
CompletedIsReal == \A a \in Answers : transcription[a] = "completed" => job[a] = "completed"

(* What a process still knows after an await. *)
LocalOK(c) ==
    /\ c.pc \in {"getJob", "saveText"} => c.a \in Answers /\ job[c.a] = "completed"
    /\ c.pc = "readAnswer" => c.a \in Answers
    /\ \A a \in c.done : job[a] = "completed"
    /\ c.pc = "enqueueEvaluation" => transcript.row = "text" /\ transcript.answers # {}

LocalsOK == \A p \in Processes : LocalOK(proc[p])

(* The part of the invariant that is about no process. *)
WorldOK ==
    /\ recorded \subseteq Answers
    /\ transcription \in [Answers -> TranscriptionStatus]
    /\ audio \subseteq Answers
    /\ job \in [Answers -> {"none", "queued", "completed", "failed"}]
    /\ events \subseteq Answers
    /\ transcript \in [row : {"none", "failure", "text"}, answers : SUBSET Answers]
    /\ evaluation \in BOOLEAN
    /\ CompletedIsReal
    /\ TranscriptIsTranscribed
    /\ EvaluationHasText

IInv == WorldOK /\ proc \in [Processes -> Proc] /\ LocalsOK

(* What no step takes back: a completed job, and a transcript once written.  *)
Grows ==
    /\ \A a \in Answers : job[a] = "completed" => job'[a] = "completed"
    /\ transcript.row # "none" => transcript' = transcript

--------------------------------------------------------------------------------

LEMMA LocalStable ==
    ASSUME IInv, Grows, NEW c \in Proc, LocalOK(c)
    PROVE  LocalOK(c)'
  BY DEF Grows, LocalOK, Proc

(* The step of one process leaves every process's view correct. *)
LEMMA OneProcess ==
    ASSUME IInv, Grows, WorldOK', NEW p \in Processes, NEW c \in Proc, LocalOK(c)',
           proc' = [proc EXCEPT ![p] = c]
    PROVE  IInv'
  <1>1. proc' \in [Processes -> Proc]
    BY DEF IInv
  <1>2. ASSUME NEW r \in Processes PROVE LocalOK(proc[r])'
    <2>1. CASE r = p
      BY <2>1 DEF IInv
    <2>2. CASE r # p
      <3>1. proc'[r] = proc[r] /\ proc[r] \in Proc /\ LocalOK(proc[r])
        BY <2>2 DEF IInv, LocalsOK
      <3>2. ASSUME NEW d \in Proc, LocalOK(d) PROVE LocalOK(d)'
        BY <3>2, LocalStable
      <3> QED BY <3>1, <3>2 DEF LocalOK
    <2> QED BY <2>1, <2>2
  <1> QED BY <1>1, <1>2 DEF IInv, LocalsOK

LEMMA ReturnOK ==
    ASSUME IInv, Grows, WorldOK', NEW p \in Processes, Return(p)
    PROVE  IInv'
  <1>1. Idle \in Proc /\ LocalOK(Idle)'
    BY DEF Idle, Proc, Step, LocalOK
  <1> QED BY <1>1, OneProcess DEF Return

(* A process goes on with the locals it has. *)
LEMMA GotoOK ==
    ASSUME IInv, Grows, WorldOK', NEW p \in Processes, NEW step \in Step, Goto(p, step),
           step \in {"getJob", "saveText"} => proc[p].a \in Answers /\ job[proc[p].a] = "completed",
           step # "readAnswer",
           step = "enqueueEvaluation" => transcript'.row = "text" /\ transcript'.answers # {}
    PROVE  IInv'
  <1>1. proc[p] \in Proc /\ LocalOK(proc[p])
    BY DEF IInv, LocalsOK
  <1>2. PICK c \in Proc : c = [proc[p] EXCEPT !.pc = step]
    BY <1>1 DEF Proc
  <1>3. c.pc = step /\ c.a = proc[p].a /\ c.done = proc[p].done
    BY <1>1, <1>2 DEF Proc
  <1>4. LocalOK(c)'
    BY <1>1, <1>3 DEF LocalOK, Grows, Proc
  <1>5. proc' = [proc EXCEPT ![p] = c]
    BY <1>2 DEF Goto
  <1> QED BY <1>4, <1>5, OneProcess

(* A process goes on with new locals, at a step that relies on none of them. *)
LEMMA MoveOK ==
    ASSUME IInv, Grows, WorldOK', NEW p \in Processes,
           NEW step \in Step \ {"getJob", "saveText", "readAnswer", "enqueueEvaluation"},
           NEW a \in Answers \cup {NoAnswer}, NEW todo \in SUBSET Answers,
           proc' = [proc EXCEPT ![p].pc = step, ![p].a = a, ![p].todo = todo]
    PROVE  IInv'
  <1>1. proc[p] \in Proc /\ LocalOK(proc[p])
    BY DEF IInv, LocalsOK
  <1>2. PICK c \in Proc : c = [proc[p] EXCEPT !.pc = step, !.a = a, !.todo = todo]
    BY <1>1 DEF Proc
  <1>3. c.pc = step /\ c.done = proc[p].done
    BY <1>1, <1>2 DEF Proc
  <1>4. LocalOK(c)'
    BY <1>1, <1>3 DEF LocalOK, Grows, Proc
  <1>5. proc' = [proc EXCEPT ![p] = c]
    BY <1>1, <1>2 DEF IInv
  <1> QED BY <1>4, <1>5, OneProcess

(* Steps that write nothing the invariant is about. *)
LEMMA Quiet ==
    ASSUME IInv, UNCHANGED <<recorded, transcription, job, transcript, evaluation>>,
           audio' \subseteq Answers, events' \subseteq Answers
    PROVE  Grows /\ WorldOK'
  BY DEF IInv, WorldOK, Grows, CompletedIsReal, TranscriptIsTranscribed, EvaluationHasText

(* Steps that write an answer's transcriptionStatus. *)
LEMMA StatusWritten ==
    ASSUME IInv, UNCHANGED <<recorded, audio, job, events, transcript, evaluation>>,
           NEW a, NEW s \in TranscriptionStatus,
           s = "completed" => a \in Answers /\ job[a] = "completed",
           transcription' = [transcription EXCEPT ![a] = s]
    PROVE  Grows /\ WorldOK'
  <1>1. Grows
    BY DEF Grows
  <1>2. transcription' \in [Answers -> TranscriptionStatus] /\ CompletedIsReal'
    BY DEF IInv, WorldOK, CompletedIsReal
  <1> QED BY <1>1, <1>2 DEF IInv, WorldOK, TranscriptIsTranscribed, EvaluationHasText

(* Steps that change the state of a job that has no verdict yet. *)
LEMMA JobWritten ==
    ASSUME IInv, UNCHANGED <<recorded, transcription, audio, transcript, evaluation>>,
           events' \subseteq Answers,
           NEW a, NEW s \in {"none", "queued", "completed", "failed"},
           job[a] # "completed", job' = [job EXCEPT ![a] = s]
    PROVE  Grows /\ WorldOK'
  <1>1. Grows
    BY DEF Grows, IInv, WorldOK
  <1>2. job' \in [Answers -> {"none", "queued", "completed", "failed"}]
    BY DEF IInv, WorldOK
  <1>3. CompletedIsReal'
    BY <1>1 DEF IInv, WorldOK, CompletedIsReal, Grows
  <1>4. TranscriptIsTranscribed'
    BY <1>1 DEF IInv, WorldOK, TranscriptIsTranscribed, Grows
  <1> QED BY <1>1, <1>2, <1>3, <1>4 DEF IInv, WorldOK, EvaluationHasText

--------------------------------------------------------------------------------
(* enqueueForInterview.                                                      *)

LEMMA BeginEnqueueOK ==
    ASSUME IInv, NEW p \in Enqueuers, BeginEnqueue(p)
    PROVE  IInv'
  <1>1. p \in Processes /\ proc[p] \in Proc
    BY DEF Processes, IInv
  <1>2. NotHandedOver \in SUBSET Answers
    BY DEF NotHandedOver, IInv, WorldOK
  <1>3. proc' = [proc EXCEPT ![p].pc = "next", ![p].a = proc[p].a, ![p].todo = NotHandedOver]
    BY <1>1 DEF BeginEnqueue, IInv, Proc
  <1>4. Grows /\ WorldOK'
    BY Quiet DEF BeginEnqueue, IInv, WorldOK
  <1>5. proc[p].a \in Answers \cup {NoAnswer} /\ "next" \in Step
    BY <1>1 DEF Proc, Step
  <1> QED BY <1>1, <1>2, <1>3, <1>4, <1>5, MoveOK

LEMMA CopyRecordingOK ==
    ASSUME IInv, NEW p \in Processes, CopyRecording(p)
    PROVE  IInv'
  <1>1. proc[p] \in Proc
    BY DEF IInv
  <1>2. PICK a \in proc[p].todo :
          \/ /\ audio' = audio \cup {a}
             /\ proc' = [proc EXCEPT ![p].pc = "markPending", ![p].a = a]
          \/ /\ proc' = [proc EXCEPT ![p].pc = "markFailed", ![p].a = a]
             /\ UNCHANGED audio
    BY DEF CopyRecording
  <1>3. a \in Answers /\ proc[p].todo \in SUBSET Answers
    BY <1>1, <1>2 DEF Proc
  <1>4. PICK step \in {"markPending", "markFailed"} :
          proc' = [proc EXCEPT ![p].pc = step, ![p].a = a]
    BY <1>2
  <1>5. proc' = [proc EXCEPT ![p].pc = step, ![p].a = a, ![p].todo = proc[p].todo]
    BY <1>1, <1>4 DEF IInv, Proc
  <1>6. Grows /\ WorldOK'
    <2>1. audio' \subseteq Answers /\ events' \subseteq Answers
      BY <1>2, <1>3 DEF CopyRecording, IInv, WorldOK
    <2> QED BY <2>1, Quiet DEF CopyRecording
  <1> QED BY <1>3, <1>5, <1>6, MoveOK DEF Step

LEMMA AllSentOK ==
    ASSUME IInv, NEW p \in Processes, AllSent(p)
    PROVE  IInv'
  <1>1. Grows /\ WorldOK'
    BY Quiet DEF AllSent, IInv, WorldOK
  <1> QED BY <1>1, GotoOK DEF AllSent, Step

LEMMA MarkPendingOK ==
    ASSUME IInv, NEW p \in Processes, MarkPending(p)
    PROVE  IInv'
  <1>1. CASE /\ transcription' = [transcription EXCEPT ![proc[p].a] = "pending"]
             /\ Goto(p, "add")
    <2>1. Grows /\ WorldOK'
      BY <1>1, StatusWritten DEF MarkPending, TranscriptionStatus
    <2> QED BY <1>1, <2>1, GotoOK DEF Step
  <1>2. CASE Goto(p, "markFailed") /\ UNCHANGED transcription
    <2>1. Grows /\ WorldOK'
      BY <1>2, Quiet DEF MarkPending, IInv, WorldOK
    <2> QED BY <1>2, <2>1, GotoOK DEF Step
  <1> QED BY <1>1, <1>2 DEF MarkPending

LEMMA NextAnswerOK ==
    ASSUME IInv, Grows, WorldOK', NEW p \in Processes, NextAnswer(p)
    PROVE  IInv'
  <1>1. proc[p] \in Proc
    BY DEF IInv
  <1>2. proc[p].todo \ {proc[p].a} \in SUBSET Answers
    BY <1>1 DEF Proc
  <1> QED BY <1>2, MoveOK DEF NextAnswer, Step

LEMMA AddJobOK ==
    ASSUME IInv, NEW p \in Processes, AddJob(p)
    PROVE  IInv'
  <1>1. UNCHANGED <<recorded, transcription, audio, events, transcript, evaluation>>
        /\ events \subseteq Answers /\ audio \subseteq Answers
    BY DEF AddJob, IInv, WorldOK
  <1>2. CASE /\ job' = IF job[proc[p].a] = "none"
                       THEN [job EXCEPT ![proc[p].a] = "queued"] ELSE job
             /\ NextAnswer(p)
    <2>1. CASE job[proc[p].a] = "none"
      <3>1. job' = [job EXCEPT ![proc[p].a] = "queued"]
        BY <1>2, <2>1
      <3>2. Grows /\ WorldOK'
        BY <1>1, <2>1, <3>1, JobWritten
      <3> QED BY <1>2, <3>2, NextAnswerOK
    <2>2. CASE job[proc[p].a] # "none"
      <3>1. Grows /\ WorldOK'
        BY <1>1, <1>2, <2>2, Quiet
      <3> QED BY <1>2, <3>1, NextAnswerOK
    <2> QED BY <2>1, <2>2
  <1>3. CASE Goto(p, "markFailed") /\ UNCHANGED job
    <2>1. Grows /\ WorldOK'
      BY <1>1, <1>3, Quiet
    <2> QED BY <1>3, <2>1, GotoOK DEF Step
  <1> QED BY <1>2, <1>3 DEF AddJob

LEMMA MarkFailedOK ==
    ASSUME IInv, NEW p \in Processes, MarkFailed(p)
    PROVE  IInv'
  <1>1. Grows /\ WorldOK'
    BY StatusWritten DEF MarkFailed, TranscriptionStatus
  <1> QED BY <1>1, GotoOK DEF MarkFailed, Step

LEMMA DiscardAudioOK ==
    ASSUME IInv, NEW p \in Processes, DiscardAudio(p)
    PROVE  IInv'
  <1>1. Grows /\ WorldOK'
    BY Quiet DEF DiscardAudio, IInv, WorldOK
  <1> QED BY <1>1, NextAnswerOK DEF DiscardAudio

--------------------------------------------------------------------------------
(* The service and its events.                                               *)

LEMMA ServiceOK ==
    ASSUME IInv, NEW a \in Answers, ServiceCompletes(a) \/ ServiceFails(a)
    PROVE  IInv'
  <1>1. Grows /\ WorldOK'
    <2>1. CASE ServiceCompletes(a)
      <3>1. events' \subseteq Answers
        BY <2>1 DEF ServiceCompletes, IInv, WorldOK
      <3> QED BY <2>1, <3>1, JobWritten DEF ServiceCompletes
    <2>2. CASE ServiceFails(a)
      <3>1. events' \subseteq Answers
        BY <2>2 DEF ServiceFails, IInv, WorldOK
      <3> QED BY <2>2, <3>1, JobWritten DEF ServiceFails
    <2> QED BY <2>1, <2>2
  <1>2. UNCHANGED proc
    BY DEF ServiceCompletes, ServiceFails
  <1>3. ASSUME NEW p \in Processes PROVE LocalOK(proc[p])'
    <2>1. PICK c \in Proc : c = proc[p] /\ LocalOK(c)
      BY DEF IInv, LocalsOK
    <2>2. LocalOK(c)'
      BY <1>1, <2>1, LocalStable
    <2>3. proc'[p] = c
      BY <1>2, <2>1
    <2> QED BY <2>2, <2>3 DEF LocalOK
  <1> QED BY <1>1, <1>2, <1>3 DEF IInv, LocalsOK

LEMMA TakeEventOK ==
    ASSUME IInv, NEW p \in Workers, NEW a \in Answers, TakeEvent(p, a)
    PROVE  IInv'
  <1>1. p \in Processes /\ proc[p] \in Proc /\ LocalOK(proc[p])
    BY DEF Processes, IInv, LocalsOK
  <1>2. Grows /\ WorldOK'
    BY Quiet DEF TakeEvent, IInv, WorldOK
  <1>3. [proc[p] EXCEPT !.pc = "readAnswer", !.a = a] \in Proc
    BY <1>1 DEF Proc, Step
  <1>4. PICK c \in Proc : c = [proc[p] EXCEPT !.pc = "readAnswer", !.a = a]
    BY <1>3
  <1>5. LocalOK(c)
    BY <1>1, <1>4 DEF Proc, LocalOK
  <1>6. LocalOK(c)'
    BY <1>2, <1>5, LocalStable
  <1>7. proc' = [proc EXCEPT ![p] = c]
    BY <1>1, <1>4 DEF TakeEvent, IInv
  <1> QED BY <1>1, <1>2, <1>6, <1>7, OneProcess

(* A process that returns, having processed its event if it had one. *)
LEMMA AcknowledgeOK ==
    ASSUME IInv, UNCHANGED <<recorded, transcription, audio, job, transcript, evaluation>>,
           NEW p \in Processes, Return(p), Acknowledge(p)
    PROVE  IInv'
  <1>1. Grows /\ WorldOK'
    BY Quiet DEF Acknowledge, IInv, WorldOK
  <1> QED BY <1>1, ReturnOK

LEMMA ReadAnswerOK ==
    ASSUME IInv, NEW p \in Processes, ReadAnswer(p)
    PROVE  IInv'
  <1>1. UNCHANGED <<recorded, transcription, audio, job, transcript, evaluation>>
        /\ proc[p].pc = "readAnswer" /\ LocalOK(proc[p])
    BY DEF ReadAnswer, At, IInv, LocalsOK
  <1>2. CASE Expected(proc[p].a)
    <2>1. Grows /\ WorldOK'
      BY <1>1, <1>2, Quiet DEF ReadAnswer, IInv, WorldOK
    <2>2. CASE job[proc[p].a] = "completed"
      BY <1>1, <1>2, <2>1, <2>2, GotoOK DEF ReadAnswer, Step, LocalOK
    <2>3. CASE job[proc[p].a] # "completed"
      BY <1>1, <1>2, <2>1, <2>3, GotoOK DEF ReadAnswer, Step
    <2> QED BY <2>2, <2>3
  <1>3. CASE ~Expected(proc[p].a)
    BY <1>1, <1>3, AcknowledgeOK DEF ReadAnswer
  <1> QED BY <1>2, <1>3

LEMMA GetJobOK ==
    ASSUME IInv, NEW p \in Processes, GetJob(p)
    PROVE  IInv'
  <1>1. Grows /\ WorldOK'
    BY Quiet DEF GetJob, IInv, WorldOK
  <1>2. proc[p].a \in Answers /\ job[proc[p].a] = "completed"
    BY DEF GetJob, At, IInv, LocalsOK, LocalOK
  <1> QED BY <1>1, <1>2, GotoOK DEF GetJob, Step

LEMMA GivesUpOK ==
    ASSUME IInv, NEW p \in Processes, GetJobFails(p) \/ Crash(p)
    PROVE  IInv'
  <1>1. UNCHANGED <<recorded, transcription, audio, job, events, transcript, evaluation>>
        /\ Return(p)
    BY DEF GetJobFails, Crash
  <1>2. Grows /\ WorldOK'
    BY <1>1, Quiet DEF IInv, WorldOK
  <1> QED BY <1>1, <1>2, ReturnOK

LEMMA SaveTextOK ==
    ASSUME IInv, NEW p \in Processes, SaveText(p)
    PROVE  IInv'
  <1>1. proc[p].a \in Answers /\ job[proc[p].a] = "completed"
    BY DEF SaveText, At, IInv, LocalsOK, LocalOK
  <1>2. Grows /\ WorldOK'
    BY <1>1, StatusWritten DEF SaveText, TranscriptionStatus
  <1> QED BY <1>2, GotoOK DEF SaveText, Step

LEMMA SaveFailureOK ==
    ASSUME IInv, NEW p \in Processes, SaveFailure(p)
    PROVE  IInv'
  <1>1. Grows /\ WorldOK'
    BY StatusWritten DEF SaveFailure, TranscriptionStatus
  <1> QED BY <1>1, GotoOK DEF SaveFailure, Step

LEMMA RemoveAudioOK ==
    ASSUME IInv, NEW p \in Processes, RemoveAudio(p)
    PROVE  IInv'
  <1>1. Grows /\ WorldOK'
    BY Quiet DEF RemoveAudio, IInv, WorldOK
  <1> QED BY <1>1, GotoOK DEF RemoveAudio, Step

--------------------------------------------------------------------------------
(* finalizeInterviewTranscript.                                              *)

LEMMA ReadAnswersOK ==
    ASSUME IInv, NEW p \in Processes, ReadAnswers(p)
    PROVE  IInv'
  <1>1. UNCHANGED <<recorded, transcription, audio, job, transcript, evaluation>>
        /\ proc[p] \in Proc
    BY DEF ReadAnswers, IInv
  <1>2. CASE Sent = {} \/ AnyPending
    BY <1>1, <1>2, AcknowledgeOK DEF ReadAnswers
  <1>3. CASE ~(Sent = {} \/ AnyPending)
    <2>1. Completed \in SUBSET Answers /\ \A a \in Completed : job[a] = "completed"
      BY DEF Completed, IInv, WorldOK, CompletedIsReal
    <2>2. Grows /\ WorldOK'
      BY <1>1, <1>3, Quiet DEF ReadAnswers, IInv, WorldOK
    <2>3. [proc[p] EXCEPT !.pc = "findTranscript", !.done = Completed] \in Proc
      BY <1>1, <2>1 DEF Proc, Step
    <2>4. PICK c \in Proc : c = [proc[p] EXCEPT !.pc = "findTranscript", !.done = Completed]
      BY <2>3
    <2>5. c.pc = "findTranscript" /\ c.done = Completed
      BY <1>1, <2>4 DEF Proc
    <2>6. LocalOK(c)
      BY <2>1, <2>5 DEF LocalOK
    <2>7. LocalOK(c)'
      BY <2>2, <2>6, LocalStable
    <2>8. proc' = [proc EXCEPT ![p] = c]
      BY <1>1, <1>3, <2>4 DEF ReadAnswers, IInv
    <2> QED BY <2>2, <2>7, <2>8, OneProcess
  <1> QED BY <1>2, <1>3

LEMMA FindTranscriptOK ==
    ASSUME IInv, NEW p \in Processes, FindTranscript(p)
    PROVE  IInv'
  <1>1. UNCHANGED <<recorded, transcription, audio, job, transcript, evaluation>>
    BY DEF FindTranscript
  <1>2. CASE transcript.row = "none"
    <2>1. Grows /\ WorldOK'
      BY <1>1, <1>2, Quiet DEF FindTranscript, IInv, WorldOK
    <2> QED BY <1>2, <2>1, GotoOK DEF FindTranscript, Step
  <1>3. CASE transcript.row # "none"
    BY <1>1, <1>3, AcknowledgeOK DEF FindTranscript
  <1> QED BY <1>2, <1>3

LEMMA InsertOK ==
    ASSUME IInv, NEW p \in Processes, Insert(p)
    PROVE  IInv'
  <1>1. UNCHANGED <<recorded, transcription, audio, job, evaluation>>
        /\ proc[p] \in Proc /\ LocalOK(proc[p])
        /\ audio \subseteq Answers /\ events \subseteq Answers
    BY DEF Insert, IInv, LocalsOK, WorldOK
  <1>2. CASE ~MayInsert
    BY <1>1, <1>2, AcknowledgeOK DEF Insert
  <1>3. CASE MayInsert
    <2>1. transcript.row = "none" /\ evaluation = FALSE
      BY <1>3 DEF MayInsert, IInv, WorldOK, EvaluationHasText
    <2>2. ASSUME transcript' \in [row : {"none", "failure", "text"}, answers : SUBSET Answers],
                 transcript'.answers \subseteq proc[p].done, events' \subseteq Answers
          PROVE  Grows /\ WorldOK'
      BY <1>1, <2>1, <2>2
      DEF Grows, LocalOK, IInv, WorldOK, CompletedIsReal, TranscriptIsTranscribed,
          EvaluationHasText
    <2>3. CASE proc[p].done = {}
      <3>1. transcript' = [row |-> "failure", answers |-> {}] /\ Return(p) /\ Acknowledge(p)
        BY <1>3, <2>3 DEF Insert
      <3>2. Grows /\ WorldOK'
        BY <1>1, <2>2, <3>1 DEF Acknowledge
      <3> QED BY <3>1, <3>2, ReturnOK
    <2>4. CASE proc[p].done # {}
      <3>1. /\ transcript' = [row |-> "text", answers |-> proc[p].done]
            /\ Goto(p, "enqueueEvaluation") /\ UNCHANGED events
        BY <1>3, <2>4 DEF Insert
      <3>2. proc[p].done \in SUBSET Answers
        BY <1>1 DEF Proc
      <3>3. Grows /\ WorldOK'
        BY <1>1, <2>2, <3>1, <3>2
      <3> QED BY <2>4, <3>1, <3>3, GotoOK DEF Step
    <2> QED BY <2>3, <2>4
  <1> QED BY <1>2, <1>3

LEMMA EnqueueEvaluationOK ==
    ASSUME IInv, NEW p \in Processes, EnqueueEvaluation(p)
    PROVE  IInv'
  <1>1. transcript.row = "text" /\ transcript.answers # {}
    BY DEF EnqueueEvaluation, At, IInv, LocalsOK, LocalOK
  <1>2. Grows /\ WorldOK'
    BY <1>1
    DEF EnqueueEvaluation, Acknowledge, Grows, IInv, WorldOK, CompletedIsReal,
        TranscriptIsTranscribed, EvaluationHasText
  <1> QED BY <1>2, ReturnOK DEF EnqueueEvaluation

--------------------------------------------------------------------------------
(* The whole specification.                                                  *)

LEMMA InitOK ==
    ASSUME Init
    PROVE  IInv
  <1>1. WorldOK
    BY DEF Init, WorldOK, CompletedIsReal, TranscriptIsTranscribed, EvaluationHasText,
           TranscriptionStatus
  <1>2. proc \in [Processes -> Proc]
    BY DEF Init, Idle, Proc, Step
  <1>3. LocalsOK
    BY DEF Init, Idle, LocalsOK, LocalOK
  <1> QED BY <1>1, <1>2, <1>3 DEF IInv

LEMMA StepOK ==
    ASSUME IInv, [Next]_vars
    PROVE  IInv'
  <1>1. CASE \E p \in Enqueuers : BeginEnqueue(p)
    BY <1>1, BeginEnqueueOK
  <1>2. CASE \E p \in Workers, a \in Answers : TakeEvent(p, a)
    BY <1>2, TakeEventOK
  <1>3. ASSUME NEW p \in Processes, Continue(p) PROVE IInv'
    BY <1>3, CopyRecordingOK, AllSentOK, MarkPendingOK, AddJobOK, MarkFailedOK, DiscardAudioOK,
       ReadAnswerOK, GetJobOK, GivesUpOK, SaveTextOK, SaveFailureOK, RemoveAudioOK,
       ReadAnswersOK, FindTranscriptOK, InsertOK, EnqueueEvaluationOK
    DEF Continue
  <1>4. ASSUME NEW p \in Processes, Crash(p) PROVE IInv'
    BY <1>4, GivesUpOK
  <1>5. CASE \E a \in Answers : ServiceCompletes(a) \/ ServiceFails(a)
    BY <1>5, ServiceOK
  <1>6. CASE UNCHANGED vars
    BY <1>6
    DEF vars, IInv, WorldOK, LocalsOK, LocalOK, CompletedIsReal, TranscriptIsTranscribed,
        EvaluationHasText
  <1> QED BY <1>1, <1>2, <1>3, <1>4, <1>5, <1>6 DEF Next

(* IInv is an invariant, however the hand-overs and the workers interleave.  *)
THEOREM Invariance == Spec => []IInv
  <1>1. Init => IInv
    BY InitOK
  <1>2. IInv /\ [Next]_vars => IInv'
    BY StepOK
  <1> QED BY <1>1, <1>2, PTL DEF Spec

(* The rows, jobs and processes of any number of answers keep their types.   *)
THEOREM TypeCorrect == Spec => []TypeOK
  <1>1. IInv => TypeOK
    BY DEF IInv, WorldOK, TypeOK
  <1> QED BY <1>1, Invariance, PTL

(* Every answer in the transcript that finalizeInterviewTranscript inserts   *)
(* was transcribed by the service.                                           *)
THEOREM TranscriptIsReal == Spec => []TranscriptIsTranscribed
  <1>1. IInv => TranscriptIsTranscribed
    BY DEF IInv, WorldOK
  <1> QED BY <1>1, Invariance, PTL

(* evaluation-processing is only asked for a transcript that has text.       *)
THEOREM EvaluatesText == Spec => []EvaluationHasText
  <1>1. IInv => EvaluationHasText
    BY DEF IInv, WorldOK
  <1> QED BY <1>1, Invariance, PTL

(* A transcript row, text or failure, is never rewritten: the losers of the  *)
(* race for the unique interviewId leave it alone.                           *)
THEOREM WrittenOnce == Spec => TranscriptWrittenOnce
  <1>1. ASSUME [Next]_vars PROVE [transcript.row # "none" => transcript' = transcript]_vars
    <2>1. CASE \E p \in Processes : Insert(p)
      BY <2>1 DEF Insert, MayInsert
    <2>2. CASE ~ \E p \in Processes : Insert(p)
      <3>1. transcript' = transcript
        BY <1>1, <2>2
        DEF Next, vars, Continue, Crash, BeginEnqueue, TakeEvent, ServiceCompletes, ServiceFails,
            CopyRecording, AllSent, MarkPending, AddJob, MarkFailed, DiscardAudio, ReadAnswer,
            GetJob, GetJobFails, SaveText, SaveFailure, RemoveAudio, ReadAnswers, FindTranscript,
            EnqueueEvaluation
      <3> QED BY <3>1
    <2> QED BY <2>1, <2>2
  <1> QED BY <1>1, PTL DEF Spec, TranscriptWrittenOnce

--------------------------------------------------------------------------------
(* One enqueueForInterview at a time, which may die, and any number of       *)
(* workers.                                                                  *)

Sending == {"next", "markPending", "add", "markFailed", "discardAudio"}
AfterVerdict == {"readAnswer", "getJob", "saveText", "saveFailure", "removeAudio"}

(* A worker is about an answer that has its verdict. *)
HasVerdict(a) == a \in Answers /\ job[a] \in {"completed", "failed"}
Follows(c) ==
    /\ c.pc \in AfterVerdict => HasVerdict(c.a)
    /\ c.pc = "saveFailure" => job[c.a] = "failed"

(* The hand-over is about answers that have no job yet: nobody else is. *)
Sends(c) ==
    /\ c.pc = "next" => \A b \in c.todo : transcription[b] = "null"
    /\ c.pc \in Sending \ {"next"} =>
          /\ c.a \in Answers /\ job[c.a] = "none"
          /\ \A b \in c.todo \ {c.a} : transcription[b] = "null"
    /\ c.pc = "markPending" => c.a \in audio /\ transcription[c.a] = "null"
    /\ c.pc = "add" => c.a \in audio /\ transcription[c.a] = "pending"
    /\ c.pc = "markFailed" => transcription[c.a] \in {"null", "pending"}

RowsFollowJobs ==
    \A a \in Answers :
        /\ transcription[a] = "null" => job[a] = "none"
        /\ transcription[a] = "failed" => job[a] \in {"none", "failed"}
        /\ job[a] = "queued" => a \in audio
        /\ a \in events => HasVerdict(a)

SInv(e) ==
    /\ RowsFollowJobs
    /\ Sends(proc[e])
    /\ \A p \in Processes : Follows(proc[p]) /\ (proc[p].pc \in Sending => p = e)

(* A verdict is final, and a result with it. *)
Keeps ==
    \A a \in Answers :
        /\ job[a] \in {"completed", "failed"} => job'[a] = job[a]
        /\ transcription[a] \in {"completed", "failed"} => transcription'[a] = transcription[a]
(* A step that is not the hand-over's leaves answers without a job alone. *)
LeavesUnsent ==
    \A a \in Answers :
        job[a] = "none" => /\ job'[a] = "none" /\ transcription'[a] = transcription[a]
                           /\ a \in audio => a \in audio'

LEMMA FollowsStill ==
    ASSUME Keeps, NEW c \in Proc, Follows(c)
    PROVE  Follows(c)'
  BY DEF Keeps, Follows, HasVerdict, AfterVerdict

LEMMA SendsStill ==
    ASSUME RowsFollowJobs, LeavesUnsent, NEW c \in Proc, Sends(c)
    PROVE  Sends(c)'
  <1>1. \A b \in c.todo : b \in Answers
    BY DEF Proc
  <1> QED BY <1>1 DEF RowsFollowJobs, LeavesUnsent, Sends, Sending

(* Another step than the hand-over's brings process p to c. *)
LEMMA OtherStep ==
    ASSUME NEW e \in Processes, IInv, SInv(e), Keeps, LeavesUnsent, RowsFollowJobs',
           NEW p \in Processes, NEW c \in Proc, proc' = [proc EXCEPT ![p] = c],
           Follows(c)', c.pc \notin Sending
    PROVE  SInv(e)'
  <1>1. \A r \in Processes : proc[r] \in Proc /\ proc'[r] = IF r = p THEN c ELSE proc[r]
    BY DEF IInv
  <1>2. ASSUME NEW r \in Processes PROVE Follows(proc[r])' /\ (proc'[r].pc \in Sending => r = e)
    <2>1. PICK d \in Proc : d = proc'[r]
      BY <1>1
    <2>2. Follows(d)'
      BY <1>1, <2>1, FollowsStill DEF SInv
    <2> QED BY <1>1, <2>1, <2>2 DEF SInv, Follows, HasVerdict
  <1>3. Sends(proc[e])'
    <2>1. CASE e = p
      BY <1>1, <2>1 DEF Sends, Sending
    <2>2. CASE e # p
      <3>1. PICK d \in Proc : d = proc[e] /\ d = proc'[e] /\ Sends(d)
        BY <1>1, <2>2 DEF SInv
      <3>2. Sends(d)'
        BY <3>1, SendsStill DEF SInv
      <3> QED BY <3>1, <3>2 DEF Sends
    <2> QED BY <2>1, <2>2
  <1> QED BY <1>2, <1>3 DEF SInv

(* The hand-over goes on to c. *)
LEMMA SendingStep ==
    ASSUME NEW e \in Processes, IInv, SInv(e), Keeps, RowsFollowJobs',
           NEW c \in Proc, proc' = [proc EXCEPT ![e] = c], Sends(c)', c.pc \in Sending
    PROVE  SInv(e)'
  <1>1. \A r \in Processes : proc[r] \in Proc /\ proc'[r] = IF r = e THEN c ELSE proc[r]
    BY DEF IInv
  <1>2. ASSUME NEW r \in Processes PROVE Follows(proc[r])' /\ (proc'[r].pc \in Sending => r = e)
    <2>1. PICK d \in Proc : d = proc'[r]
      BY <1>1
    <2>2. CASE r = e
      BY <1>1, <2>2 DEF Follows, Sending, AfterVerdict
    <2>3. CASE r # e
      <3>1. Follows(d)'
        BY <1>1, <2>1, <2>3, FollowsStill DEF SInv
      <3> QED BY <1>1, <2>1, <2>3, <3>1 DEF SInv, Follows, HasVerdict
    <2> QED BY <2>2, <2>3
  <1>3. Sends(proc[e])'
    BY <1>1 DEF Sends
  <1> QED BY <1>2, <1>3 DEF SInv

LEMMA SerialQuiet ==
    ASSUME NEW e, SInv(e), UNCHANGED <<transcription, audio, job>>, events' \subseteq events
    PROVE  Keeps /\ LeavesUnsent /\ RowsFollowJobs'
  BY DEF SInv, Keeps, LeavesUnsent, RowsFollowJobs, HasVerdict

LEMMA SerialGoto ==
    ASSUME NEW e \in Processes, IInv, SInv(e), Keeps, LeavesUnsent, RowsFollowJobs',
           NEW p \in Processes, NEW step \in Step \ Sending, Goto(p, step),
           step \in AfterVerdict => HasVerdict(proc[p].a),
           step = "saveFailure" => job[proc[p].a] = "failed"
    PROVE  SInv(e)'
  <1>1. proc[p] \in Proc
    BY DEF IInv
  <1>2. PICK c \in Proc : c = [proc[p] EXCEPT !.pc = step]
    BY <1>1 DEF Proc
  <1>3. c.pc = step /\ c.a = proc[p].a
    BY <1>1, <1>2 DEF Proc
  <1>4. Follows(c)
    BY <1>3 DEF Follows
  <1>5. proc' = [proc EXCEPT ![p] = c]
    BY <1>2 DEF Goto
  <1> QED BY <1>3, <1>4, <1>5, FollowsStill, OtherStep

LEMMA SerialReturn ==
    ASSUME NEW e \in Processes, IInv, SInv(e), Keeps, LeavesUnsent, RowsFollowJobs',
           NEW p \in Processes, Return(p)
    PROVE  SInv(e)'
  <1>1. Idle \in Proc /\ Idle.pc = "idle"
    BY DEF Idle, Proc, Step
  <1>2. Follows(Idle)' /\ Idle.pc \notin Sending
    BY <1>1 DEF Follows, AfterVerdict, Sending
  <1> QED BY <1>1, <1>2, OtherStep DEF Return

(* Steps of the hand-over. *)
LEMMA SerialSending ==
    ASSUME NEW e \in Enqueuers, IInv, SInv(e),
           \/ BeginEnqueue(e) \/ CopyRecording(e) \/ MarkPending(e) \/ AddJob(e) \/ MarkFailed(e)
           \/ DiscardAudio(e)
    PROVE  SInv(e)' /\ Keeps
  <1> DEFINE c == proc[e]
  <1>1. e \in Processes
    BY DEF Processes
  <1>0. /\ e \in Processes /\ c \in Proc /\ Sends(c) /\ RowsFollowJobs
        /\ transcription \in [Answers -> TranscriptionStatus]
        /\ job \in [Answers -> {"none", "queued", "completed", "failed"}]
        /\ audio \subseteq Answers /\ c.todo \subseteq Answers /\ CompletedIsReal
    BY DEF Processes, IInv, WorldOK, SInv, Proc
  <1>2. CASE BeginEnqueue(e)
    <2>1. NotHandedOver \in SUBSET Answers /\ \A b \in NotHandedOver : transcription[b] = "null"
      BY DEF NotHandedOver, IInv, WorldOK
    <2>2. PICK n \in Proc : n = [c EXCEPT !.pc = "next", !.todo = NotHandedOver]
      BY <1>0, <2>1 DEF Proc, Step
    <2>3. n.pc = "next" /\ n.todo = NotHandedOver /\ n.pc \in Sending
      BY <1>0, <2>2 DEF Proc, Sending
    <2>4. proc' = [proc EXCEPT ![e] = n]
      BY <1>0, <1>2, <2>2 DEF BeginEnqueue, IInv
    <2>5. Keeps /\ RowsFollowJobs'
      BY <1>2, SerialQuiet DEF BeginEnqueue
    <2>6. Sends(n)'
      BY <1>2, <2>1, <2>3 DEF BeginEnqueue, Sends, Sending
    <2> QED BY <1>1, <2>3, <2>4, <2>5, <2>6, SendingStep
  <1>3. CASE CopyRecording(e)
    <2>1. PICK a \in c.todo, step \in {"markPending", "markFailed"} :
            /\ proc' = [proc EXCEPT ![e].pc = step, ![e].a = a]
            /\ \/ step = "markPending" /\ audio' = audio \cup {a}
               \/ step = "markFailed" /\ UNCHANGED audio
      BY <1>3 DEF CopyRecording
    <2>2. a \in Answers /\ c.pc = "next" /\ \A b \in c.todo : transcription[b] = "null"
      BY <1>0, <1>3, <2>1 DEF CopyRecording, At, Sends
    <2>3. PICK n \in Proc : n = [c EXCEPT !.pc = step, !.a = a]
      BY <1>0, <2>2 DEF Proc, Step
    <2>4. n.pc = step /\ n.a = a /\ n.todo = c.todo /\ n.pc \in Sending
      BY <1>0, <2>3 DEF Proc, Sending
    <2>5. proc' = [proc EXCEPT ![e] = n]
      BY <1>0, <2>1, <2>3 DEF IInv
    <2>6. Keeps /\ RowsFollowJobs'
      BY <1>0, <1>3, <2>1 DEF CopyRecording, Keeps, RowsFollowJobs, HasVerdict
    <2>7. Sends(n)'
      <3> HIDE DEF c
      <3> QED BY <1>0, <1>3, <2>1, <2>2, <2>4 DEF CopyRecording, Sends, Sending, RowsFollowJobs
    <2> QED BY <1>1, <2>4, <2>5, <2>6, <2>7, SendingStep
  <1>4. CASE MarkPending(e) \/ MarkFailed(e) \/ (AddJob(e) /\ ~NextAnswer(e))
    <2> DEFINE a == c.a
    <2>1. /\ c.pc \in {"markPending", "add", "markFailed"} /\ a \in Answers /\ job[a] = "none"
          /\ \A b \in c.todo \ {a} : transcription[b] = "null"
          /\ c.pc = "markPending" => a \in audio /\ transcription[a] = "null"
          /\ c.pc = "add" => a \in audio /\ transcription[a] = "pending"
          /\ transcription[a] \in {"null", "pending"}
      BY <1>0, <1>4 DEF MarkPending, MarkFailed, AddJob, At, Sends, Sending
    <2>2. PICK step \in {"add", "markFailed", "discardAudio"} :
            /\ Goto(e, step)
            /\ \/ /\ step = "add" /\ c.pc = "markPending"
                  /\ transcription' = [transcription EXCEPT ![a] = "pending"]
               \/ step = "markFailed" /\ UNCHANGED transcription
               \/ /\ step = "discardAudio"
                  /\ transcription' = [transcription EXCEPT ![a] = "failed"]
      BY <1>4 DEF MarkPending, MarkFailed, AddJob, At
    <2>3. UNCHANGED <<audio, job, events>>
      BY <1>4 DEF MarkPending, MarkFailed, AddJob
    <2>4. PICK n \in Proc : n = [c EXCEPT !.pc = step]
      BY <1>0 DEF Proc, Step
    <2>5. n.pc = step /\ n.a = a /\ n.todo = c.todo /\ n.pc \in Sending
      BY <1>0, <2>4 DEF Proc, Sending
    <2>6. proc' = [proc EXCEPT ![e] = n]
      BY <2>2, <2>4 DEF Goto
    <2>7. /\ \A b \in Answers \ {a} : transcription'[b] = transcription[b]
          /\ \/ step = "add" /\ c.pc = "markPending" /\ transcription'[a] = "pending"
             \/ step = "markFailed" /\ transcription'[a] = transcription[a]
             \/ step = "discardAudio" /\ transcription'[a] = "failed"
      BY <1>0, <2>1, <2>2
    <2> HIDE DEF c
    <2>8. Keeps /\ RowsFollowJobs'
      BY <1>0, <2>1, <2>3, <2>7 DEF Keeps, RowsFollowJobs, HasVerdict
    <2>9. Sends(n)'
      BY <1>0, <2>1, <2>3, <2>5, <2>7 DEF Sends, Sending
    <2> QED BY <1>1, <2>5, <2>6, <2>8, <2>9, SendingStep
  <1>5. CASE (AddJob(e) /\ NextAnswer(e)) \/ DiscardAudio(e)
    <2> DEFINE a == c.a
    <2>1. /\ a \in Answers /\ job[a] = "none" /\ \A b \in c.todo \ {a} : transcription[b] = "null"
          /\ AddJob(e) => a \in audio /\ transcription[a] = "pending"
      BY <1>0, <1>5 DEF AddJob, DiscardAudio, At, Sends, Sending
    <2>2. /\ UNCHANGED <<transcription, events>>
          /\ \/ UNCHANGED <<audio, job>>
             \/ UNCHANGED audio /\ AddJob(e) /\ job' = [job EXCEPT ![a] = "queued"]
             \/ UNCHANGED job /\ audio' = audio \ {a}
      BY <1>5, <2>1 DEF AddJob, DiscardAudio
    <2>3. PICK n \in Proc : n = [c EXCEPT !.pc = "next", !.a = NoAnswer, !.todo = c.todo \ {a}]
      BY <1>0 DEF Proc, Step
    <2>4. n.pc = "next" /\ n.todo = c.todo \ {a} /\ n.pc \in Sending
      BY <1>0, <2>3 DEF Proc, Sending
    <2>5. proc' = [proc EXCEPT ![e] = n]
      BY <1>0, <1>5, <2>3 DEF NextAnswer, DiscardAudio, IInv
    <2> HIDE DEF c
    <2>6. Keeps /\ RowsFollowJobs'
      BY <1>0, <2>1, <2>2 DEF Keeps, RowsFollowJobs, HasVerdict
    <2>7. Sends(n)'
      BY <2>1, <2>2, <2>4 DEF Sends, Sending
    <2> QED BY <1>1, <2>4, <2>5, <2>6, <2>7, SendingStep
  <1> QED BY <1>2, <1>3, <1>4, <1>5

(* Steps of the workers, and those that end a hand-over. *)
LEMMA SerialOthers ==
    ASSUME NEW e \in Processes, IInv, SInv(e), NEW p \in Processes,
           \/ AllSent(p) \/ Crash(p)
           \/ p \in Workers /\ \E a \in Answers : TakeEvent(p, a)
           \/ ReadAnswer(p) \/ GetJob(p) \/ GetJobFails(p) \/ SaveText(p) \/ SaveFailure(p)
           \/ RemoveAudio(p) \/ ReadAnswers(p) \/ FindTranscript(p) \/ Insert(p) \/ EnqueueEvaluation(p)
    PROVE  SInv(e)' /\ Keeps
  <1> DEFINE c == proc[p]
  <1>0. /\ c \in Proc /\ LocalOK(c) /\ Follows(c) /\ RowsFollowJobs
        /\ transcription \in [Answers -> TranscriptionStatus]
        /\ job \in [Answers -> {"none", "queued", "completed", "failed"}]
        /\ audio \subseteq Answers /\ CompletedIsReal
    BY DEF IInv, WorldOK, LocalsOK, SInv
  <1>1. ASSUME UNCHANGED <<transcription, audio, job>>, events' \subseteq events, Return(p)
        PROVE  SInv(e)' /\ Keeps
    BY <1>1, SerialQuiet, SerialReturn
  <1>2. ASSUME UNCHANGED <<transcription, audio, job>>, events' \subseteq events,
               NEW step \in Step \ (Sending \cup AfterVerdict), Goto(p, step)
        PROVE  SInv(e)' /\ Keeps
    BY <1>2, SerialQuiet, SerialGoto DEF AfterVerdict
  <1>3. CASE AllSent(p) \/ Crash(p) \/ GetJobFails(p) \/ FindTranscript(p) \/ EnqueueEvaluation(p)
    BY <1>1, <1>2, <1>3
    DEF AllSent, Crash, GetJobFails, FindTranscript, EnqueueEvaluation, Acknowledge, Sending,
        AfterVerdict, Step
  <1>4. CASE Insert(p)
    BY <1>1, <1>2, <1>4 DEF Insert, Acknowledge, Sending, AfterVerdict, Step
  <1>5. ASSUME NEW a \in Answers, p \in Workers, TakeEvent(p, a) PROVE SInv(e)' /\ Keeps
    <2>1. PICK n \in Proc : n = [c EXCEPT !.pc = "readAnswer", !.a = a]
      BY <1>0 DEF Proc, Step
    <2>2. n.pc = "readAnswer" /\ n.a = a
      BY <1>0, <2>1 DEF Proc
    <2>3. proc' = [proc EXCEPT ![p] = n]
      BY <1>0, <1>5, <2>1 DEF TakeEvent, IInv
    <2>4. Keeps /\ LeavesUnsent /\ RowsFollowJobs'
      BY <1>5, SerialQuiet DEF TakeEvent
    <2>5. Follows(n)
      BY <1>0, <1>5, <2>2 DEF Follows, TakeEvent, RowsFollowJobs, AfterVerdict
    <2>6. Follows(n)' /\ n.pc \notin Sending
      BY <2>2, <2>4, <2>5, FollowsStill DEF Sending
    <2> QED BY <2>3, <2>4, <2>6, OtherStep
  <1>6. CASE ReadAnswer(p)
    <2>1. UNCHANGED <<transcription, audio, job>> /\ events' \subseteq events /\ HasVerdict(c.a)
      BY <1>0, <1>6 DEF ReadAnswer, Acknowledge, At, Follows, AfterVerdict
    <2>2. Keeps /\ LeavesUnsent /\ RowsFollowJobs'
      BY <2>1, SerialQuiet
    <2>3. CASE Goto(p, "getJob") \/ (job[c.a] # "completed" /\ Goto(p, "saveFailure"))
      BY <2>1, <2>2, <2>3, SerialGoto DEF HasVerdict, Sending, Step
    <2>4. CASE Return(p)
      BY <1>1, <2>1, <2>4
    <2> QED BY <1>6, <2>3, <2>4 DEF ReadAnswer
  <1>7. CASE GetJob(p)
    <2>1. UNCHANGED <<transcription, audio, job, events>> /\ HasVerdict(c.a) /\ Goto(p, "saveText")
      BY <1>0, <1>7 DEF GetJob, At, Follows, AfterVerdict
    <2> QED BY <2>1, SerialQuiet, SerialGoto DEF Sending, Step
  <1>8. CASE SaveText(p) \/ SaveFailure(p)
    <2> DEFINE a == c.a
    <2>1. PICK s \in {"completed", "failed"} :
            /\ transcription' = [transcription EXCEPT ![a] = s]
            /\ a \in Answers /\ job[a] = s
      BY <1>0, <1>8 DEF SaveText, SaveFailure, At, Follows, LocalOK, HasVerdict, AfterVerdict
    <2>2. UNCHANGED <<audio, job, events>> /\ Goto(p, "removeAudio")
      BY <1>8 DEF SaveText, SaveFailure
    <2>3. transcription'[a] = s /\ \A b \in Answers \ {a} : transcription'[b] = transcription[b]
      BY <1>0, <2>1
    <2> HIDE DEF c
    <2>4. Keeps /\ LeavesUnsent /\ RowsFollowJobs'
      BY <1>0, <2>1, <2>2, <2>3
      DEF Keeps, LeavesUnsent, RowsFollowJobs, HasVerdict, CompletedIsReal
    <2> QED BY <2>1, <2>2, <2>4, SerialGoto DEF HasVerdict, Sending, Step, c
  <1>9. CASE RemoveAudio(p)
    <2>1. HasVerdict(c.a) /\ audio' = audio \ {c.a} /\ UNCHANGED <<transcription, job, events>>
          /\ Goto(p, "readAnswers")
      BY <1>0, <1>9 DEF RemoveAudio, At, Follows, AfterVerdict
    <2>2. Keeps /\ LeavesUnsent /\ RowsFollowJobs'
      BY <1>0, <2>1 DEF Keeps, LeavesUnsent, RowsFollowJobs, HasVerdict
    <2> QED BY <2>1, <2>2, SerialGoto DEF Sending, AfterVerdict, Step
  <1>10. CASE ReadAnswers(p)
    <2>1. CASE Return(p) /\ Acknowledge(p)
      BY <1>1, <1>10, <2>1 DEF ReadAnswers, Acknowledge
    <2>2. CASE proc' = [proc EXCEPT ![p].pc = "findTranscript", ![p].done = Completed] /\ UNCHANGED events
      <3>1. Completed \in SUBSET Answers
        BY DEF Completed
      <3>2. PICK n \in Proc : n = [c EXCEPT !.pc = "findTranscript", !.done = Completed]
        BY <1>0, <3>1 DEF Proc, Step
      <3>3. n.pc = "findTranscript"
        BY <1>0, <3>2 DEF Proc
      <3>4. proc' = [proc EXCEPT ![p] = n]
        BY <1>0, <2>2, <3>2 DEF IInv
      <3>5. Keeps /\ LeavesUnsent /\ RowsFollowJobs'
        BY <1>10, <2>2, SerialQuiet DEF ReadAnswers
      <3>6. Follows(n)' /\ n.pc \notin Sending
        BY <3>3 DEF Follows, AfterVerdict, Sending
      <3> QED BY <3>4, <3>5, <3>6, OtherStep
    <2> QED BY <1>10, <2>1, <2>2 DEF ReadAnswers
  <1> QED BY <1>3, <1>4, <1>5, <1>6, <1>7, <1>8, <1>9, <1>10

LEMMA SerialService ==
    ASSUME NEW e \in Processes, IInv, SInv(e), NEW a \in Answers, ServiceCompletes(a) \/ ServiceFails(a)
    PROVE  SInv(e)' /\ Keeps
  <1>0. /\ RowsFollowJobs /\ CompletedIsReal
        /\ job \in [Answers -> {"none", "queued", "completed", "failed"}]
        /\ \A p \in Processes : proc[p] \in Proc
    BY DEF IInv, WorldOK, SInv
  <1>1. PICK s \in {"completed", "failed"} :
          /\ job[a] = "queued" /\ job' = [job EXCEPT ![a] = s] /\ events' = events \cup {a}
          /\ UNCHANGED <<transcription, audio, proc>>
    BY DEF ServiceCompletes, ServiceFails
  <1>2. job'[a] = s /\ \A b \in Answers \ {a} : job'[b] = job[b]
    BY <1>0, <1>1
  <1>3. Keeps /\ LeavesUnsent /\ RowsFollowJobs'
    BY <1>0, <1>1, <1>2 DEF Keeps, LeavesUnsent, RowsFollowJobs, HasVerdict, CompletedIsReal
  <1>4. ASSUME NEW r \in Processes PROVE Follows(proc[r])'
    <2>1. PICK d \in Proc : d = proc[r] /\ d = proc'[r] /\ Follows(d)
      BY <1>0, <1>1 DEF SInv
    <2>2. Follows(d)'
      BY <1>3, <2>1, FollowsStill
    <2> QED BY <2>1, <2>2 DEF Follows, HasVerdict
  <1>5. Sends(proc[e])'
    <2>1. PICK d \in Proc : d = proc[e] /\ d = proc'[e] /\ Sends(d)
      BY <1>0, <1>1 DEF SInv
    <2>2. Sends(d)'
      BY <1>0, <1>3, <2>1, SendsStill
    <2> QED BY <2>1, <2>2 DEF Sends
  <1> QED BY <1>1, <1>3, <1>4, <1>5 DEF SInv

LEMMA SerialStep ==
    ASSUME NEW e, Enqueuers = {e}, IInv, SInv(e), [Next]_vars
    PROVE  SInv(e)' /\ (Keeps \/ UNCHANGED vars)
  <1>0. e \in Enqueuers /\ e \in Processes
    BY DEF Processes
  <1>1. CASE \E p \in Enqueuers : BeginEnqueue(p)
    BY <1>0, <1>1, SerialSending
  <1>2. ASSUME NEW p \in Workers, NEW a \in Answers, TakeEvent(p, a) PROVE SInv(e)' /\ Keeps
    BY <1>0, <1>2, SerialOthers DEF Processes
  <1>3. ASSUME NEW p \in Processes, Continue(p) \/ Crash(p) PROVE SInv(e)' /\ Keeps
    <2>1. CASE CopyRecording(p) \/ MarkPending(p) \/ AddJob(p) \/ MarkFailed(p) \/ DiscardAudio(p)
      <3>1. p = e
        BY <2>1 DEF SInv, CopyRecording, MarkPending, AddJob, MarkFailed, DiscardAudio, At, Sending
      <3> QED BY <1>0, <2>1, <3>1, SerialSending
    <2> QED BY <1>0, <1>3, <2>1, SerialOthers DEF Continue
  <1>4. CASE \E a \in Answers : ServiceCompletes(a) \/ ServiceFails(a)
    BY <1>0, <1>4, SerialService
  <1>5. CASE UNCHANGED vars
    BY <1>5 DEF vars, SInv, RowsFollowJobs, HasVerdict, Sends, Follows
  <1> QED BY <1>1, <1>2, <1>3, <1>4, <1>5 DEF Next

LEMMA SerialInit ==
    ASSUME NEW e, Enqueuers = {e}, Init
    PROVE  SInv(e)
  <1>1. e \in Processes /\ \A p \in Processes : proc[p].pc = "idle"
    BY DEF Init, Idle, Processes
  <1> QED BY <1>1 DEF Init, SInv, RowsFollowJobs, HasVerdict, Sends, Follows, Sending, AfterVerdict

LEMMA SerialInvariance ==
    ASSUME NEW e, Enqueuers = {e}
    PROVE  Spec => []SInv(e)
  <1>1. Init => SInv(e)
    BY SerialInit
  <1>2. IInv /\ SInv(e) /\ [Next]_vars => SInv(e)'
    BY SerialStep
  <1> QED BY <1>1, <1>2, Invariance, PTL DEF Spec

(* With one hand-over at a time, the audio of a job the service has yet to     *)
(* work on is never removed, by a worker or by a hand-over that gives up       *)
(* (transcription.producer.ts, transcription-events.processor.ts).             *)
THEOREM QueuedKeepsAudio ==
    ASSUME NEW e, Enqueuers = {e}
    PROVE  Spec => []QueuedHasAudio
  <1>1. SInv(e) => QueuedHasAudio
    BY DEF SInv, RowsFollowJobs, QueuedHasAudio
  <1> QED BY <1>1, SerialInvariance, PTL

(* With one hand-over at a time, which may die and be repeated, no result is   *)
(* ever overwritten, however often its event is delivered and to how many      *)
(* workers.                                                                    *)
THEOREM ResultsAreFinal ==
    ASSUME NEW e, Enqueuers = {e}
    PROVE  Spec => ResultKept
  <1>1. IInv /\ SInv(e) /\ [Next]_vars =>
          [\A a \in Answers :
             transcription[a] \in {"completed", "failed"} => transcription'[a] = transcription[a]]_vars
    BY SerialStep DEF Keeps
  <1> QED BY <1>1, Invariance, SerialInvariance, PTL DEF Spec, ResultKept

--------------------------------------------------------------------------------
(* The refinement of Assembly.                                               *)

(* One process at most is about to ask, and nobody has asked before it. *)
OneAssembles ==
    /\ \A p, r \in Assembling : p = r
    /\ Assembling # {} => ~evaluation

AssemblyStep == [Abstract!Next]_(Abstract!vars)

(* What a step must do. *)
Assembles == OneAssembles' /\ AssemblyStep

LEMMA TextWhenAssembling ==
    ASSUME IInv, Assembling # {}
    PROVE  transcript.row = "text"
  BY DEF IInv, LocalsOK, LocalOK, Assembling, At

(* A process p that is not about to ask moves to a step where it is not. *)
LEMMA ElsewhereAssembles ==
    ASSUME OneAssembles, NEW p \in Processes, p \notin Assembling,
           \A r \in Processes \ {p} : proc'[r] = proc[r],
           proc'[p].pc # "enqueueEvaluation",
           UNCHANGED <<transcript, evaluation>>
    PROVE  Assembles
  <1>1. Assembling' = Assembling
    BY DEF Assembling, At
  <1>2. OneAssembles'
    BY <1>1 DEF OneAssembles
  <1>3. UNCHANGED Abstract!vars
    BY <1>1 DEF Abstract!vars
  <1> QED BY <1>2, <1>3 DEF Assembles, AssemblyStep

(* The process that was about to ask is not any more. *)
LEMMA AloneAssembles ==
    ASSUME IInv, OneAssembles, NEW p \in Processes, p \in Assembling, Return(p)
    PROVE  Assembling' = {}
  <1>1. Assembling = {p}
    BY DEF OneAssembles
  <1>2. proc'[p].pc = "idle" /\ \A r \in Processes \ {p} : proc'[r] = proc[r]
    BY DEF IInv, Return, Idle
  <1> QED BY <1>1, <1>2 DEF Assembling, At

(* Steps of a process that neither writes the transcript nor asks. *)
LEMMA OthersAssemble ==
    ASSUME IInv, OneAssembles, NEW p \in Processes,
           \/ BeginEnqueue(p) \/ \E a \in Answers : TakeEvent(p, a)
           \/ CopyRecording(p) \/ AllSent(p) \/ MarkPending(p) \/ AddJob(p)
           \/ MarkFailed(p) \/ DiscardAudio(p)
           \/ ReadAnswer(p) \/ GetJob(p) \/ GetJobFails(p) \/ SaveText(p) \/ SaveFailure(p)
           \/ RemoveAudio(p) \/ ReadAnswers(p) \/ FindTranscript(p)
    PROVE  Assembles
  <1>1. proc \in [Processes -> Proc] /\ proc[p] \in Proc
    BY DEF IInv
  <1>2. p \notin Assembling /\ UNCHANGED <<transcript, evaluation>>
    BY DEF Assembling, At, BeginEnqueue, TakeEvent, CopyRecording, AllSent, MarkPending, AddJob,
           MarkFailed, DiscardAudio, ReadAnswer, GetJob, GetJobFails, SaveText, SaveFailure,
           RemoveAudio, ReadAnswers, FindTranscript
  <1>3. /\ \A r \in Processes \ {p} : proc'[r] = proc[r]
        /\ proc'[p].pc # "enqueueEvaluation"
    <2>1. CASE BeginEnqueue(p) \/ (\E a \in Answers : TakeEvent(p, a)) \/ CopyRecording(p)
      BY <1>1, <2>1 DEF BeginEnqueue, TakeEvent, CopyRecording, Proc
    <2>2. CASE AllSent(p) \/ MarkPending(p) \/ MarkFailed(p) \/ GetJob(p) \/ GetJobFails(p)
               \/ SaveText(p) \/ SaveFailure(p) \/ RemoveAudio(p)
      BY <1>1, <2>2 DEF AllSent, MarkPending, MarkFailed, GetJob, GetJobFails, SaveText,
                        SaveFailure, RemoveAudio, Goto, Return, Idle, Proc
    <2>3. CASE AddJob(p) \/ DiscardAudio(p)
      BY <1>1, <2>3 DEF AddJob, DiscardAudio, NextAnswer, Goto, Proc
    <2>4. CASE ReadAnswer(p) \/ ReadAnswers(p) \/ FindTranscript(p)
      BY <1>1, <2>4 DEF ReadAnswer, ReadAnswers, FindTranscript, Goto, Return, Idle, Proc
    <2> QED BY <2>1, <2>2, <2>3, <2>4
  <1> QED BY <1>2, <1>3, ElsewhereAssembles

(* Whoever inserts the text is the only one who is about to ask. *)
LEMMA InsertAssembles ==
    ASSUME IInv, OneAssembles, NEW p \in Processes, Insert(p)
    PROVE  Assembles
  <1>1. /\ proc \in [Processes -> Proc] /\ proc[p] \in Proc
        /\ p \notin Assembling /\ UNCHANGED evaluation
    BY DEF IInv, Insert, Assembling, At
  <1>2. CASE ~MayInsert
    <2>1. Return(p) /\ UNCHANGED transcript
      BY <1>2 DEF Insert
    <2>2. /\ \A r \in Processes \ {p} : proc'[r] = proc[r]
          /\ proc'[p].pc # "enqueueEvaluation"
      BY <1>1, <2>1 DEF Return, Idle
    <2> QED BY <1>1, <2>1, <2>2, ElsewhereAssembles
  <1>3. CASE MayInsert
    <2>1. transcript.row = "none" /\ Assembling = {} /\ ~evaluation
      BY <1>3, TextWhenAssembling DEF MayInsert, IInv, WorldOK, EvaluationHasText
    <2>2. CASE proc[p].done = {}
      <3>1. transcript'.row = "failure" /\ Return(p)
        BY <1>3, <2>2 DEF Insert
      <3>2. Assembling' = {}
        BY <1>1, <2>1, <3>1 DEF Return, Idle, Assembling, At
      <3>3. Abstract!Conclude
        BY <1>1, <2>1, <3>1, <3>2 DEF Abstract!Conclude
      <3> QED BY <3>2, <3>3 DEF Assembles, OneAssembles, AssemblyStep, Abstract!Next
    <2>3. CASE proc[p].done # {}
      <3>1. transcript'.row = "text" /\ Goto(p, "enqueueEvaluation")
        BY <1>3, <2>3 DEF Insert
      <3>2. Assembling' = {p}
        BY <1>1, <2>1, <3>1 DEF Goto, Assembling, At, Proc
      <3>3. Abstract!Conclude
        BY <1>1, <2>1, <3>1, <3>2 DEF Abstract!Conclude
      <3>4. OneAssembles'
        BY <1>1, <2>1, <3>2 DEF OneAssembles
      <3> QED BY <3>3, <3>4 DEF Assembles, AssemblyStep, Abstract!Next
    <2> QED BY <2>2, <2>3
  <1> QED BY <1>2, <1>3

LEMMA AskAssembles ==
    ASSUME IInv, OneAssembles, NEW p \in Processes, EnqueueEvaluation(p)
    PROVE  Assembles
  <1>1. p \in Assembling /\ Return(p) /\ evaluation' = TRUE /\ UNCHANGED transcript
    BY DEF EnqueueEvaluation, Assembling
  <1>2. Assembling' = {}
    BY <1>1, AloneAssembles
  <1>3. Abstract!Ask
    BY <1>1, <1>2 DEF Abstract!Ask
  <1> QED BY <1>2, <1>3 DEF Assembles, OneAssembles, AssemblyStep, Abstract!Next

LEMMA CrashAssembles ==
    ASSUME IInv, OneAssembles, NEW p \in Processes, Crash(p)
    PROVE  Assembles
  <1>1. Return(p) /\ UNCHANGED <<transcript, evaluation>> /\ proc \in [Processes -> Proc]
    BY DEF Crash, IInv
  <1>2. CASE p \in Assembling
    <2>1. Assembling' = {}
      BY <1>1, <1>2, AloneAssembles
    <2>2. Abstract!Die
      BY <1>1, <1>2, <2>1 DEF Abstract!Die
    <2> QED BY <2>1, <2>2 DEF Assembles, OneAssembles, AssemblyStep, Abstract!Next
  <1>3. CASE p \notin Assembling
    <2>1. /\ \A r \in Processes \ {p} : proc'[r] = proc[r]
          /\ proc'[p].pc # "enqueueEvaluation"
      BY <1>1 DEF Return, Idle
    <2> QED BY <1>1, <1>3, <2>1, ElsewhereAssembles
  <1> QED BY <1>2, <1>3

LEMMA StepAssembles ==
    ASSUME IInv, OneAssembles, [Next]_vars
    PROVE  Assembles
  <1>1. CASE \E p \in Enqueuers : BeginEnqueue(p)
    BY <1>1, OthersAssemble DEF Processes
  <1>2. CASE \E p \in Workers, a \in Answers : TakeEvent(p, a)
    BY <1>2, OthersAssemble DEF Processes
  <1>3. ASSUME NEW p \in Processes, Continue(p) PROVE Assembles
    BY <1>3, OthersAssemble, InsertAssembles, AskAssembles DEF Continue
  <1>4. ASSUME NEW p \in Processes, Crash(p) PROVE Assembles
    BY <1>4, CrashAssembles
  <1>5. CASE (\E a \in Answers : ServiceCompletes(a) \/ ServiceFails(a)) \/ UNCHANGED vars
    <2>1. UNCHANGED <<transcript, evaluation, proc>>
      BY <1>5 DEF ServiceCompletes, ServiceFails, vars
    <2>2. Assembling' = Assembling
      BY <2>1 DEF Assembling, At
    <2> QED BY <2>1, <2>2 DEF Assembles, OneAssembles, AssemblyStep, Abstract!vars
  <1> QED BY <1>1, <1>2, <1>3, <1>4, <1>5 DEF Next

LEMMA InitAssembles ==
    ASSUME Init
    PROVE  OneAssembles /\ Abstract!Init
  <1>1. Assembling = {}
    BY DEF Init, Idle, Assembling, At
  <1> QED BY <1>1 DEF Init, OneAssembles, Abstract!Init

(* Of any number of hand-overs and event workers that find the last answer   *)
(* settled, one concludes the transcription and asks for the evaluation, or  *)
(* dies: the pipeline of transcriptions is an assembly to whoever waits.     *)
THEOREM TranscriptionImplementsAssembly == Spec => ImplementsAssembly
  <1>1. Init => OneAssembles /\ Abstract!Init
    BY InitAssembles
  <1>2. IInv /\ OneAssembles /\ [Next]_vars => OneAssembles' /\ [Abstract!Next]_(Abstract!vars)
    BY StepAssembles DEF Assembles, AssemblyStep
  <1> QED BY <1>1, <1>2, Invariance, PTL DEF Spec, ImplementsAssembly, Abstract!Spec

--------------------------------------------------------------------------------
(* What the assembly promises, and so whatever implements it.                *)

AssemblyInv ==
    /\ Abstract!TypeOK
    /\ Abstract!AskedOnce
    /\ Assembling # {} => transcript.row = "text"

LEMMA AssemblyInvariance == Abstract!Spec => []AssemblyInv
  <1> USE DEF AssemblyInv, Abstract!TypeOK, Abstract!AskedOnce
  <1>1. Abstract!Init => AssemblyInv
    BY DEF Abstract!Init
  <1>2. ASSUME AssemblyInv, [Abstract!Next]_(Abstract!vars) PROVE AssemblyInv'
    <2>1. CASE Abstract!Conclude
      BY <1>2, <2>1 DEF Abstract!Conclude
    <2>2. CASE Abstract!Ask
      BY <1>2, <2>2 DEF Abstract!Ask
    <2>3. CASE Abstract!Die
      BY <1>2, <2>3 DEF Abstract!Die
    <2>4. CASE UNCHANGED Abstract!vars
      BY <1>2, <2>4 DEF Abstract!vars
    <2> QED BY <1>2, <2>1, <2>2, <2>3, <2>4 DEF Abstract!Next
  <1> QED BY <1>1, <1>2, PTL DEF Abstract!Spec

(* Once the evaluation was asked for there is a text, and nobody is about to *)
(* ask again: neither a redelivered event nor a late hand-over does          *)
(* (transcript-assembly.service.ts:39).                                      *)
THEOREM EvaluationAskedOnce == Spec => []Abstract!AskedOnce
  <1>1. AssemblyInv => Abstract!AskedOnce
    BY DEF AssemblyInv
  <1> QED BY <1>1, TranscriptionImplementsAssembly, AssemblyInvariance, PTL DEF ImplementsAssembly

================================================================================
