-------------------------------- MODULE Evaluation --------------------------------
(***************************************************************************)
(* The evaluation of one submitted interview: EvaluationService, the       *)
(* evaluation-processing queue with its producer, and the recruiter who    *)
(* may retry the evaluation, cancel the interview, or remove its candidate *)
(* or job meanwhile.  A removal takes the rows of the interview and of the *)
(* candidate; the transcript and the summary have no foreign key and stay. *)
(*                                                                         *)
(* The queue holds at most one job for the interview (jobId is its id).    *)
(* BullMQ delivers it at least once: when a worker dies, or loses its lock *)
(* while it is still running, the job stalls and goes to another worker.   *)
(***************************************************************************)
EXTENDS Naturals

CONSTANTS
    Workers,     \* evaluation-processing consumers
    Recruiters,  \* concurrent recruiter requests
    Scores,      \* overall scores an evaluation may come to
    NoScore,     \* a score column that is null
    NoWorker,    \* a job no worker holds the lock of
    MaxAttempts, \* attempts of the job
    CrashPossible \* whether a process may die, or a job stall, between two awaits

ASSUME NoScoreAssumption == NoScore \notin Scores
ASSUME NoWorkerAssumption == NoWorker \notin Workers
ASSUME RolesAssumption == Workers \cap Recruiters = {}
ASSUME CrashAssumption == CrashPossible \in BOOLEAN
ASSUME MaxAttemptsAssumption == MaxAttempts \in Nat \ {0}

VARIABLES
    transcript,     \* the interview_transcripts row
    assembling,     \* the assembly has written the text and is about to enqueue
    status,         \* interviews.status, or "gone" with the row
    interviewScore, \* interviews.overallScore
    candidateScore, \* candidates.overallScore
    summary,        \* overallScore of the interview_summaries row, if there is one
    job,            \* the evaluation-processing job
    worker,         \* where each worker stands, and the score it came to
    notified,       \* number of evaluation-ready notifications
    recruiter       \* where each recruiter request stands

vars == <<transcript, assembling, status, interviewScore, candidateScore, summary,
          job, worker, notified, recruiter>>
evaluationVars == <<interviewScore, candidateScore, summary, notified>>
sourceVars == <<transcript, assembling>>

--------------------------------------------------------------------------------

Score == Scores \cup {NoScore}

Status == {"pending_evaluation", "completed", "cancelled", "gone"}

JobState == {"none", "waiting", "active", "failed"}

TypeOK ==
    /\ transcript \in {"none", "failure", "text"}
    /\ assembling \in BOOLEAN
    /\ status \in Status
    /\ interviewScore \in Score /\ candidateScore \in Score /\ summary \in Score
    /\ job \in [state : JobState, holder : Workers \cup {NoWorker},
                attempts : 0..MaxAttempts, stalled : BOOLEAN]
    /\ worker \in [Workers ->
         [pc : {"idle", "findSummary", "findInterview", "findTranscript", "assess", "commit", "log",
                "notify", "return", "throw"},
          score : Score]]
    /\ notified \in Nat
    /\ recruiter \in [Recruiters -> {"idle", "getJob", "retryJob", "enqueue", "cancel"}]

NoJob == [state |-> "none", holder |-> NoWorker, attempts |-> 0, stalled |-> FALSE]
IdleWorker == [pc |-> "idle", score |-> NoScore]

Init ==
    /\ transcript = "none"
    /\ assembling = FALSE
    /\ status = "pending_evaluation"
    /\ interviewScore = NoScore /\ candidateScore = NoScore /\ summary = NoScore
    /\ job = NoJob
    /\ worker = [w \in Workers |-> IdleWorker]
    /\ notified = 0
    /\ recruiter = [r \in Recruiters |-> "idle"]

--------------------------------------------------------------------------------
(* The queue.                                                                *)

(* enqueue: a job that is still known is not added a second time. *)
Enqueue == job' = IF job.state = "none" THEN [NoJob EXCEPT !.state = "waiting"] ELSE job

(* A worker that has lost the lock can neither complete nor fail the job. *)
Holds(w) == job.state = "active" /\ job.holder = w

(* evaluate() has returned: the job is removed. *)
Complete(w) ==
    /\ worker[w].pc = "return"
    /\ job' = IF Holds(w) THEN NoJob ELSE job
    /\ worker' = [worker EXCEPT ![w] = IdleWorker]
    /\ UNCHANGED <<sourceVars, evaluationVars, status, recruiter>>

(* Faulty variants, named <definition>_<fault>, stand before the definition    *)
(* they vary; each breaks a property that the definition keeps.                *)
(* evaluate() has thrown: the job is tried again until its attempts are used up, *)
(* and is kept as failed then.                                                   *)
Fail(w) ==
    /\ worker[w].pc = "throw"
    /\ worker' = [worker EXCEPT ![w] = IdleWorker]
    /\ job' = IF ~Holds(w) THEN job
              ELSE [job EXCEPT !.holder = NoWorker,
                               !.attempts = IF @ < MaxAttempts THEN @ + 1 ELSE @,
                               !.state = IF job.attempts + 1 < MaxAttempts
                                         THEN "waiting" ELSE "failed"]
    /\ UNCHANGED <<sourceVars, evaluationVars, status, recruiter>>

TakeJob(w) ==
    /\ worker[w].pc = "idle"
    /\ job.state = "waiting"
    /\ job' = [job EXCEPT !.state = "active", !.holder = w]
    /\ worker' = [worker EXCEPT ![w].pc = "findSummary"]
    /\ UNCHANGED <<sourceVars, evaluationVars, status, recruiter>>

Stall_Forgets ==
    /\ job.state = "active"
    /\ job' = NoJob
    /\ UNCHANGED <<sourceVars, evaluationVars, status, worker, recruiter>>

(* The lock expired: the job waits again, the second time it is failed. *)
Stall ==
    /\ CrashPossible
    /\ job.state = "active"
    /\ job' = [job EXCEPT !.state = IF job.stalled THEN "failed" ELSE "waiting",
                          !.holder = NoWorker, !.stalled = TRUE]
    /\ UNCHANGED <<sourceVars, evaluationVars, status, worker, recruiter>>

Crash(w) ==
    /\ CrashPossible
    /\ worker[w].pc # "idle"
    /\ worker' = [worker EXCEPT ![w] = IdleWorker]
    /\ UNCHANGED <<sourceVars, evaluationVars, status, job, recruiter>>

--------------------------------------------------------------------------------
(* evaluate.                                                                 *)

GoTo(w, step) == worker' = [worker EXCEPT ![w].pc = step]

FindSummary(w) ==
    /\ worker[w].pc = "findSummary"
    /\ GoTo(w, IF summary = NoScore THEN "findInterview" ELSE "return")
    /\ UNCHANGED <<sourceVars, evaluationVars, status, job, recruiter>>

(* An interview that is gone is not evaluated. *)
FindInterview(w) ==
    /\ worker[w].pc = "findInterview"
    /\ GoTo(w, IF status = "gone" THEN "return" ELSE "findTranscript")
    /\ UNCHANGED <<sourceVars, evaluationVars, status, job, recruiter>>

Usable_AnyRow == transcript # "none"

(* Without a usable transcript evaluate returns: a retry must be asked for. *)
Usable == transcript = "text"

FindTranscript(w) ==
    /\ worker[w].pc = "findTranscript"
    /\ GoTo(w, IF Usable THEN "assess" ELSE "return")
    /\ UNCHANGED <<sourceVars, evaluationVars, status, job, recruiter>>

(* The model's answer, or silence, comes to some score; the model may fail.  *)
Assess(w) ==
    /\ worker[w].pc = "assess"
    /\ \/ \E s \in Scores : worker' = [worker EXCEPT ![w] = [pc |-> "commit", score |-> s]]
       \/ GoTo(w, "throw")
    /\ UNCHANGED <<sourceVars, evaluationVars, status, job, recruiter>>

(* The updates of the interview and of the candidate, without effect on rows that are gone. *)
Publish(w) ==
    \/ /\ status # "gone"
       /\ interviewScore' = worker[w].score
       /\ candidateScore' = worker[w].score
       /\ status' = "completed"
    \/ status = "gone" /\ UNCHANGED <<interviewScore, candidateScore, status>>

Persist_NoUniqueIndex(w) ==
    /\ summary' = worker[w].score
    /\ Publish(w)

Persist_SummaryFirst(w) ==
    /\ summary = NoScore
    /\ summary' = worker[w].score
    /\ Publish(w) \/ UNCHANGED <<interviewScore, candidateScore, status>>

Persist_StatusOutside(w) ==
    \/ summary = NoScore /\ summary' = worker[w].score /\ Publish(w)
    \/ /\ status # "gone" /\ status' = "completed"
       /\ UNCHANGED <<interviewScore, candidateScore, summary>>

(* One transaction, which the unique interviewId of the summary may abort.   *)
Persist(w) ==
    /\ summary = NoScore
    /\ summary' = worker[w].score
    /\ Publish(w)

Commit_IgnoresConflict(w) ==
    /\ worker[w].pc = "commit"
    /\ GoTo(w, "log")
    /\ \/ Persist(w)
       \/ /\ summary # NoScore
          /\ UNCHANGED <<summary, interviewScore, candidateScore, status>>
    /\ UNCHANGED <<sourceVars, notified, job, recruiter>>

Commit(w) ==
    /\ worker[w].pc = "commit"
    /\ \/ /\ Persist(w)
          /\ GoTo(w, "log")
       \/ /\ GoTo(w, "throw")
          /\ UNCHANGED <<summary, interviewScore, candidateScore, status>>
    /\ UNCHANGED <<sourceVars, notified, job, recruiter>>

(* The activity row; should it fail, the next attempt finds the summary.     *)
LogActivity(w) ==
    /\ worker[w].pc = "log"
    /\ \E next \in {"notify", "throw"} : GoTo(w, next)
    /\ UNCHANGED <<sourceVars, evaluationVars, status, job, recruiter>>

(* Nobody is notified when nobody is known to have created the interview, or *)
(* the organization has switched the notification off.                       *)
Notify(w) ==
    /\ worker[w].pc = "notify"
    /\ \/ notified' = notified + 1 /\ GoTo(w, "return")
       \/ UNCHANGED notified /\ GoTo(w, "return")
       \/ UNCHANGED notified /\ GoTo(w, "throw")
    /\ UNCHANGED <<sourceVars, interviewScore, candidateScore, summary, status, job,
                   recruiter>>

--------------------------------------------------------------------------------
(* finalizeInterviewTranscript, as far as the evaluation sees it.            *)

InsertTranscript ==
    /\ transcript = "none"
    /\ transcript' \in {"failure", "text"}
    /\ assembling' = (transcript' = "text")
    /\ UNCHANGED <<evaluationVars, status, job, worker, recruiter>>

EnqueueEvaluation ==
    /\ assembling
    /\ assembling' = FALSE
    /\ Enqueue
    /\ UNCHANGED <<transcript, evaluationVars, status, worker, recruiter>>

(* The assembling process dies before it has enqueued the evaluation. *)
AssemblyCrash ==
    /\ CrashPossible
    /\ assembling
    /\ assembling' = FALSE
    /\ UNCHANGED <<transcript, evaluationVars, status, job, worker, recruiter>>

--------------------------------------------------------------------------------
(* retryEvaluation, cancel, and the removal of the candidate or of the job.  *)

ToStep(r, step) == recruiter' = [recruiter EXCEPT ![r] = step]

BeginRetry(r) ==
    /\ recruiter[r] = "idle"
    /\ status \in {"pending_evaluation", "completed"}
    /\ ToStep(r, "getJob")
    /\ UNCHANGED <<sourceVars, evaluationVars, status, job, worker>>

(* getJob and getState: only a failed job is retried, a live one is left alone. *)
LookAtJob(r) ==
    /\ recruiter[r] = "getJob"
    /\ ToStep(r, CASE job.state = "none" -> "enqueue"
                   [] job.state = "failed" -> "retryJob"
                   [] OTHER -> "idle")
    /\ UNCHANGED <<sourceVars, evaluationVars, status, job, worker>>

(* Job.retry moves a failed job back to waiting, and throws if it is not failed. *)
RetryJob(r) ==
    /\ recruiter[r] = "retryJob"
    /\ job' = IF job.state = "failed" THEN [job EXCEPT !.state = "waiting"] ELSE job
    /\ ToStep(r, "idle")
    /\ UNCHANGED <<sourceVars, evaluationVars, status, worker>>

RetryEnqueue(r) ==
    /\ recruiter[r] = "enqueue"
    /\ Enqueue
    /\ ToStep(r, "idle")
    /\ UNCHANGED <<sourceVars, evaluationVars, status, worker>>

BeginCancel(r) ==
    /\ recruiter[r] = "idle"
    /\ status \notin {"completed", "gone"}
    /\ ToStep(r, "cancel")
    /\ UNCHANGED <<sourceVars, evaluationVars, status, job, worker>>

Cancel(r) ==
    /\ recruiter[r] = "cancel"
    /\ status' = IF status = "gone" THEN status ELSE "cancelled"
    /\ ToStep(r, "idle")
    /\ UNCHANGED <<sourceVars, evaluationVars, job, worker>>

(* One DELETE, which cascades to the interview. *)
RemoveInterview ==
    /\ status # "gone"
    /\ status' = "gone"
    /\ interviewScore' = NoScore /\ candidateScore' = NoScore
    /\ UNCHANGED <<sourceVars, summary, notified, job, worker, recruiter>>

--------------------------------------------------------------------------------

Continue(w) ==
    \/ FindSummary(w) \/ FindInterview(w) \/ FindTranscript(w) \/ Assess(w)
    \/ Commit(w) \/ LogActivity(w) \/ Notify(w) \/ Complete(w) \/ Fail(w)

Next ==
    \/ InsertTranscript \/ EnqueueEvaluation \/ AssemblyCrash
    \/ \E w \in Workers : TakeJob(w) \/ Continue(w) \/ Crash(w)
    \/ Stall
    \/ \E r \in Recruiters :
         \/ BeginRetry(r) \/ LookAtJob(r) \/ RetryJob(r) \/ RetryEnqueue(r)
         \/ BeginCancel(r) \/ Cancel(r)
    \/ RemoveInterview

Spec == Init /\ [][Next]_vars

(***************************************************************************)
(* Fairness: a worker that is not killed finishes, a waiting job is taken, *)
(* the job of a dead worker stalls, and the assembly goes on.  Recruiters  *)
(* need not do anything, and the model may fail on every attempt.          *)
(***************************************************************************)
HolderIsDead == job.state = "active" /\ worker[job.holder].pc = "idle"

Fairness ==
    /\ \A w \in Workers : WF_vars(Continue(w)) /\ WF_vars(TakeJob(w))
    /\ WF_vars(HolderIsDead /\ Stall)
    /\ WF_vars(EnqueueEvaluation)

FairSpec == Spec /\ Fairness

--------------------------------------------------------------------------------
(* Properties, with crashes, stalled and doubly delivered jobs.              *)

(* The scores the recruiter sees on the interview and on the candidate are   *)
(* the one of the evaluation that was kept (evaluation.service.ts:182-223).  *)
ScoresAgree == status # "gone" => interviewScore = summary /\ candidateScore = summary

(* A completed interview has an evaluation to show.                          *)
CompletedIsEvaluated == status = "completed" => summary # NoScore

(* Of two attempts running at once one evaluation is kept, for good.         *)
EvaluatedOnce == [][summary # NoScore => summary' = summary]_vars

(* Nothing is evaluated but a transcript with text.                          *)
EvaluatedFromText == summary # NoScore => transcript = "text"

(* However often the job is delivered, the recruiter is told at most once,   *)
(* and only of an evaluation that is there.                                  *)
NotifiedOnce == notified <= 1 /\ (notified = 1 => summary # NoScore)

(* A job that finds the text waiting for it ends in an evaluation, or among  *)
(* the failed jobs a recruiter can retry, unless its interview goes.         *)
WaitingIsConcluded ==
    job.state = "waiting" /\ transcript = "text" ~>
        summary # NoScore \/ job.state = "failed" \/ status = "gone"

--------------------------------------------------------------------------------
(* Claimed by the code, and broken by it.                                    *)

(* retryEvaluation before the transcript is ready is a no-op: it does not    *)
(* keep the assembly's own enqueue from leading to an evaluation.            *)
EarlyRetryIsHarmless ==
    assembling ~> \/ summary # NoScore
                  \/ job.state = "failed"
                  \/ status \in {"cancelled", "gone"}

================================================================================
