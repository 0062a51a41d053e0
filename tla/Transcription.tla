------------------------------ MODULE Transcription ------------------------------
(***************************************************************************)
(* The way from a submitted round to its transcript, as                    *)
(* TranscriptionProducerService, TranscriptionEventsProcessor and          *)
(* TranscriptAssemblyService go it.                                        *)
(*                                                                         *)
(* An enqueuer runs enqueueForInterview for one of the webhooks or submits *)
(* that found the round settled; a worker consumes transcription-events.   *)
(* Both end in finalizeInterviewTranscript.  Every await is a step, and    *)
(* what was read before it is a local variable (proc[p]).                  *)
(*                                                                         *)
(* The transcription service and BullMQ are external: a job is known by    *)
(* the answer's id, so adding one twice adds it once; an event is          *)
(* delivered until a worker has processed it without an error.             *)
(***************************************************************************)
EXTENDS Naturals, FiniteSets

CONSTANTS
    Answers,      \* the answers of the round
    Enqueuers,    \* concurrent calls of enqueueForInterview
    Workers,      \* consumers of transcription-events
    NoAnswer,     \* a process that is about no answer
    CrashPossible \* whether a process may die between two awaits

ASSUME NoAnswerAssumption == NoAnswer \notin Answers
ASSUME RolesAssumption == Enqueuers \cap Workers = {}
ASSUME CrashAssumption == CrashPossible \in BOOLEAN

VARIABLES
    recorded,      \* the answers with a playable recording
    transcription, \* interview_answers.transcriptionStatus
    audio,         \* answers whose audio lies in the shared folder
    job,           \* what Redis and the service know of each answer's job
    events,        \* transcription-events not yet processed, as answers
    transcript,    \* the interview_transcripts row
    evaluation,    \* whether evaluation-processing was asked for
    proc           \* where each process stands and what it has read

vars == <<recorded, transcription, audio, job, events, transcript, evaluation, proc>>

Processes == Enqueuers \cup Workers

--------------------------------------------------------------------------------

TranscriptionStatus == {"null", "pending", "completed", "failed"}

Step ==
    {"idle", "next", "markPending", "add", "markFailed", "discardAudio",
     "readAnswer", "getJob", "saveText", "saveFailure", "removeAudio",
     "readAnswers", "findTranscript", "insert", "enqueueEvaluation"}

Proc == [pc : Step, todo : SUBSET Answers, a : Answers \cup {NoAnswer}, done : SUBSET Answers]

Idle == [pc |-> "idle", todo |-> {}, a |-> NoAnswer, done |-> {}]

TypeOK ==
    /\ recorded \subseteq Answers
    /\ transcription \in [Answers -> TranscriptionStatus]
    /\ audio \subseteq Answers
    /\ job \in [Answers -> {"none", "queued", "completed", "failed"}]
    /\ events \subseteq Answers
    /\ transcript \in [row : {"none", "failure", "text"}, answers : SUBSET Answers]
    /\ evaluation \in BOOLEAN
    /\ proc \in [Processes -> Proc]

Init ==
    /\ recorded \in SUBSET Answers
    /\ transcription = [a \in Answers |-> "null"]
    /\ audio = {}
    /\ job = [a \in Answers |-> "none"]
    /\ events = {}
    /\ transcript = [row |-> "none", answers |-> {}]
    /\ evaluation = FALSE
    /\ proc = [p \in Processes |-> Idle]

--------------------------------------------------------------------------------
(* Moves of a process.                                                       *)

At(p, step) == proc[p].pc = step

Return(p) == proc' = [proc EXCEPT ![p] = Idle]

Goto(p, step) == proc' = [proc EXCEPT ![p].pc = step]

--------------------------------------------------------------------------------
(* enqueueForInterview.                                                      *)

(* Faulty variants, named <definition>_<fault>, stand before the definition    *)
(* they vary; each breaks a property that the definition keeps.                *)
NotHandedOver_Uncompleted == {a \in recorded : transcription[a] # "completed"}

(* The answers of the loop: handed over are those with a transcriptionStatus. *)
NotHandedOver == {a \in recorded : transcription[a] = "null"}

BeginEnqueue(p) ==
    /\ At(p, "idle")
    /\ recorded # {}
    /\ proc' = [proc EXCEPT ![p].pc = "next", ![p].todo = NotHandedOver]
    /\ UNCHANGED <<recorded, transcription, audio, job, events, transcript, evaluation>>

CopyRecording_IgnoresErrors(p) ==
    /\ At(p, "next")
    /\ \E a \in proc[p].todo :
         proc' = [proc EXCEPT ![p].pc = "markPending", ![p].a = a]
    /\ audio' \in {audio, audio \cup {proc'[p].a}}
    /\ UNCHANGED <<recorded, transcription, job, events, transcript, evaluation>>

(* The next answer: its recording is copied to the shared folder, or cannot be. *)
CopyRecording(p) ==
    /\ At(p, "next")
    /\ \E a \in proc[p].todo :
         \/ /\ audio' = audio \cup {a}
            /\ proc' = [proc EXCEPT ![p].pc = "markPending", ![p].a = a]
         \/ /\ proc' = [proc EXCEPT ![p].pc = "markFailed", ![p].a = a]
            /\ UNCHANGED audio
    /\ UNCHANGED <<recorded, transcription, job, events, transcript, evaluation>>

AllSent_NoFinalize(p) ==
    /\ At(p, "next")
    /\ proc[p].todo = {}
    /\ Return(p)
    /\ UNCHANGED <<recorded, transcription, audio, job, events, transcript, evaluation>>

AllSent(p) ==
    /\ At(p, "next")
    /\ proc[p].todo = {}
    /\ Goto(p, "readAnswers")
    /\ UNCHANGED <<recorded, transcription, audio, job, events, transcript, evaluation>>

(* Pending is written before queueing: a fast event must find it. *)
MarkPending(p) ==
    /\ At(p, "markPending")
    /\ \/ /\ transcription' = [transcription EXCEPT ![proc[p].a] = "pending"]
          /\ Goto(p, "add")
       \/ /\ Goto(p, "markFailed")
          /\ UNCHANGED transcription
    /\ UNCHANGED <<recorded, audio, job, events, transcript, evaluation>>

NextAnswer(p) ==
    proc' = [proc EXCEPT ![p].pc = "next", ![p].a = NoAnswer,
                         ![p].todo = proc[p].todo \ {proc[p].a}]

AddJob_SwallowsErrors(p) ==
    /\ At(p, "add")
    /\ job' \in {job, [job EXCEPT ![proc[p].a] = "queued"]}
    /\ NextAnswer(p)
    /\ UNCHANGED <<recorded, transcription, audio, events, transcript, evaluation>>

(* queue.add with the answer's id as jobId: a job Redis knows is not added    *)
(* again.  It throws when Redis refuses.                                      *)
AddJob(p) ==
    /\ At(p, "add")
    /\ \/ /\ job' = IF job[proc[p].a] = "none"
                    THEN [job EXCEPT ![proc[p].a] = "queued"] ELSE job
          /\ NextAnswer(p)
       \/ /\ Goto(p, "markFailed")
          /\ UNCHANGED job
    /\ UNCHANGED <<recorded, transcription, audio, events, transcript, evaluation>>

MarkFailed(p) ==
    /\ At(p, "markFailed")
    /\ transcription' = [transcription EXCEPT ![proc[p].a] = "failed"]
    /\ Goto(p, "discardAudio")
    /\ UNCHANGED <<recorded, audio, job, events, transcript, evaluation>>

DiscardAudio(p) ==
    /\ At(p, "discardAudio")
    /\ audio' = audio \ {proc[p].a}
    /\ NextAnswer(p)
    /\ UNCHANGED <<recorded, transcription, job, events, transcript, evaluation>>

--------------------------------------------------------------------------------
(* The transcription service: it needs the audio, and publishes its verdict. *)

ServiceCompletes(a) ==
    /\ job[a] = "queued"
    /\ a \in audio
    /\ job' = [job EXCEPT ![a] = "completed"]
    /\ events' = events \cup {a}
    /\ UNCHANGED <<recorded, transcription, audio, transcript, evaluation, proc>>

ServiceFails(a) ==
    /\ job[a] = "queued"
    /\ job' = [job EXCEPT ![a] = "failed"]
    /\ events' = events \cup {a}
    /\ UNCHANGED <<recorded, transcription, audio, transcript, evaluation, proc>>

--------------------------------------------------------------------------------
(* TranscriptionEventsProcessor.process.                                     *)

TakeEvent(p, a) ==
    /\ At(p, "idle")
    /\ a \in events
    /\ proc' = [proc EXCEPT ![p].pc = "readAnswer", ![p].a = a]
    /\ UNCHANGED <<recorded, transcription, audio, job, events, transcript, evaluation>>

(* An event has been processed once process() returns: then it is gone.      *)
Acknowledge(p) == events' = IF p \in Workers THEN events \ {proc[p].a} ELSE events

(* Only an answer still pending is updated. *)
Expected(a) == transcription[a] = "pending"

ReadAnswer(p) ==
    /\ At(p, "readAnswer")
    /\ IF Expected(proc[p].a)
       THEN /\ Goto(p, IF job[proc[p].a] = "completed" THEN "getJob" ELSE "saveFailure")
            /\ UNCHANGED events
       ELSE Return(p) /\ Acknowledge(p)
    /\ UNCHANGED <<recorded, transcription, audio, job, transcript, evaluation>>

(* The text is fetched over HTTP; an error makes BullMQ deliver the event again. *)
GetJob(p) ==
    /\ At(p, "getJob")
    /\ Goto(p, "saveText")
    /\ UNCHANGED <<recorded, transcription, audio, job, events, transcript, evaluation>>

GetJobFails(p) ==
    /\ At(p, "getJob")
    /\ Return(p)
    /\ UNCHANGED <<recorded, transcription, audio, job, events, transcript, evaluation>>

SaveText(p) ==
    /\ At(p, "saveText")
    /\ transcription' = [transcription EXCEPT ![proc[p].a] = "completed"]
    /\ Goto(p, "removeAudio")
    /\ UNCHANGED <<recorded, audio, job, events, transcript, evaluation>>

SaveFailure_KeepsAudio(p) ==
    /\ At(p, "saveFailure")
    /\ transcription' = [transcription EXCEPT ![proc[p].a] = "failed"]
    /\ Goto(p, "readAnswers")
    /\ UNCHANGED <<recorded, audio, job, events, transcript, evaluation>>

SaveFailure(p) ==
    /\ At(p, "saveFailure")
    /\ transcription' = [transcription EXCEPT ![proc[p].a] = "failed"]
    /\ Goto(p, "removeAudio")
    /\ UNCHANGED <<recorded, audio, job, events, transcript, evaluation>>

RemoveAudio(p) ==
    /\ At(p, "removeAudio")
    /\ audio' = audio \ {proc[p].a}
    /\ Goto(p, "readAnswers")
    /\ UNCHANGED <<recorded, transcription, job, events, transcript, evaluation>>

--------------------------------------------------------------------------------
(* finalizeInterviewTranscript, for enqueuers and workers alike.             *)

Sent == {a \in Answers : transcription[a] # "null"}
AnyPending == \E a \in Answers : transcription[a] = "pending"
Completed_OrFailed == Sent
Completed == {a \in Answers : transcription[a] = "completed"}

ReadAnswers(p) ==
    /\ At(p, "readAnswers")
    /\ IF Sent = {} \/ AnyPending
       THEN Return(p) /\ Acknowledge(p)
       ELSE /\ proc' = [proc EXCEPT ![p].pc = "findTranscript", ![p].done = Completed]
            /\ UNCHANGED events
    /\ UNCHANGED <<recorded, transcription, audio, job, transcript, evaluation>>

FindTranscript_ReEnqueues(p) ==
    /\ At(p, "findTranscript")
    /\ Goto(p, IF transcript.row = "none" THEN "insert" ELSE "enqueueEvaluation")
    /\ UNCHANGED <<recorded, transcription, audio, job, events, transcript, evaluation>>

FindTranscript(p) ==
    /\ At(p, "findTranscript")
    /\ IF transcript.row = "none"
       THEN Goto(p, "insert") /\ UNCHANGED events
       ELSE Return(p) /\ Acknowledge(p)
    /\ UNCHANGED <<recorded, transcription, audio, job, transcript, evaluation>>

MayInsert_Always == TRUE

(* interviewId is unique: who inserts second has lost the race and returns. *)
MayInsert == transcript.row = "none"

Insert(p) ==
    /\ At(p, "insert")
    /\ IF ~MayInsert
       THEN Return(p) /\ Acknowledge(p) /\ UNCHANGED transcript
       ELSE IF proc[p].done = {}
            THEN /\ transcript' = [row |-> "failure", answers |-> {}]
                 /\ Return(p) /\ Acknowledge(p)
            ELSE /\ transcript' = [row |-> "text", answers |-> proc[p].done]
                 /\ Goto(p, "enqueueEvaluation") /\ UNCHANGED events
    /\ UNCHANGED <<recorded, transcription, audio, job, evaluation>>

EnqueueEvaluation(p) ==
    /\ At(p, "enqueueEvaluation")
    /\ evaluation' = TRUE
    /\ Return(p) /\ Acknowledge(p)
    /\ UNCHANGED <<recorded, transcription, audio, job, transcript>>

--------------------------------------------------------------------------------

(* The process is gone; the event it was processing is delivered again. *)
Crash(p) ==
    /\ CrashPossible
    /\ ~At(p, "idle")
    /\ Return(p)
    /\ UNCHANGED <<recorded, transcription, audio, job, events, transcript, evaluation>>

Continue(p) ==
    \/ CopyRecording(p) \/ AllSent(p) \/ MarkPending(p) \/ AddJob(p)
    \/ MarkFailed(p) \/ DiscardAudio(p)
    \/ ReadAnswer(p) \/ GetJob(p) \/ GetJobFails(p) \/ SaveText(p) \/ SaveFailure(p) \/ RemoveAudio(p)
    \/ ReadAnswers(p) \/ FindTranscript(p) \/ Insert(p) \/ EnqueueEvaluation(p)

Next ==
    \/ \E p \in Enqueuers : BeginEnqueue(p)
    \/ \E p \in Workers, a \in Answers : TakeEvent(p, a)
    \/ \E p \in Processes : Continue(p) \/ Crash(p)
    \/ \E a \in Answers : ServiceCompletes(a) \/ ServiceFails(a)

Spec == Init /\ [][Next]_vars

(***************************************************************************)
(* Fairness: a process that is not killed finishes, the service gives its  *)
(* verdict on every queued job, BullMQ keeps delivering an event until it  *)
(* is processed, and the HTTP API does not fail for ever.  Nobody is       *)
(* obliged to call enqueueForInterview.                                    *)
(***************************************************************************)
Fairness ==
    /\ \A p \in Processes : WF_vars(Continue(p)) /\ SF_vars(GetJob(p))
    /\ \A a \in Answers : WF_vars(ServiceCompletes(a) \/ ServiceFails(a))
    /\ \A p \in Workers, a \in Answers : SF_vars(TakeEvent(p, a))

FairSpec == Spec /\ Fairness

--------------------------------------------------------------------------------
(* Properties of every interleaving, crashes and redeliveries included.      *)

(* Every answer in the interview's transcript was really transcribed by the  *)
(* service: neither a failed nor an unsent one slips in.                     *)
TranscriptIsTranscribed == \A a \in transcript.answers : job[a] = "completed"

(* The interview's transcript is written once: finalizing again, or losing   *)
(* the race for the unique interviewId, leaves the row alone.                *)
TranscriptWrittenOnce == [][transcript.row # "none" => transcript' = transcript]_vars

(* Evaluation is only ever asked for with a transcript that has text.        *)
EvaluationHasText == evaluation => transcript.row = "text" /\ transcript.answers # {}

--------------------------------------------------------------------------------
(* Properties of one enqueueForInterview at a time.                          *)

(* A result is final: neither a repeated hand-over nor a repeated event      *)
(* touches an answer that has one.                                           *)
ResultKept ==
    [][\A a \in Answers :
         transcription[a] \in {"completed", "failed"} => transcription'[a] = transcription[a]]_vars

(* The audio of a job the service has yet to work on is still in the folder. *)
QueuedHasAudio == \A a \in Answers : job[a] = "queued" => a \in audio

(* An answer handed over gets its result.                                    *)
PendingSettles ==
    \A a \in Answers : transcription[a] = "pending" ~> transcription[a] # "pending"

(* Once anything has been handed over, whichever of the producer and the     *)
(* events comes last concludes: with a failure row, or with a transcript and *)
(* its evaluation.                                                           *)
SentIsConcluded == Sent # {} ~> transcript.row = "failure" \/ evaluation

(* The copied audio is cleaned up whatever becomes of the answer.            *)
AudioIsRemoved == \A a \in Answers : a \in audio ~> a \notin audio

--------------------------------------------------------------------------------
(* Claimed by the code, and broken by it.                                    *)

(* TranscriptAssemblyService: the row is written once every answer has a     *)
(* final transcription result.                                               *)
TranscriptIsComplete ==
    transcript.row # "none" => \A a \in recorded : transcription[a] \in {"completed", "failed"}

================================================================================
