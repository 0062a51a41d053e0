----------------------------- MODULE EvaluationProofs -----------------------------
(***************************************************************************)
(* What holds of Evaluation for any number of workers, recruiters, scores  *)
(* and attempts, with crashes and jobs that stall and run twice.           *)
(***************************************************************************)
EXTENDS Evaluation, TLAPS

--------------------------------------------------------------------------------
(* The inductive invariant.                                                  *)

Reporting(w) == worker[w].pc \in {"log", "notify"}

(* An evaluation in the making is one of a transcript with text. *)
DraftHasText ==
    \A w \in Workers :
      /\ worker[w].pc \in {"assess", "commit"} => transcript = "text"
      /\ worker[w].pc = "commit" => worker[w].score \in Scores

(* Only the worker whose transaction was committed reports, before anyone has. *)
OneReporter ==
    \A w \in Workers :
      Reporting(w) => /\ summary # NoScore
                      /\ notified = 0
                      /\ \A v \in Workers : Reporting(v) => v = w

IInv ==
    /\ TypeOK
    /\ ScoresAgree
    /\ CompletedIsEvaluated
    /\ EvaluatedFromText
    /\ NotifiedOnce
    /\ DraftHasText
    /\ OneReporter

Pc == {"idle", "findSummary", "findInterview", "findTranscript", "assess", "commit", "log",
       "notify", "return", "throw"}
Local == [pc : Pc, score : Score]
Job == [state : JobState, holder : Workers \cup {NoWorker},
        attempts : 0..MaxAttempts, stalled : BOOLEAN]

--------------------------------------------------------------------------------

(* A worker goes on without writing a row. *)
LEMMA WorkerMoves ==
    ASSUME IInv, NEW w \in Workers, NEW c \in Local,
           worker' = [worker EXCEPT ![w] = c], job' \in Job,
           UNCHANGED <<sourceVars, evaluationVars, status, recruiter>>,
           c.pc \in {"assess", "commit"} => transcript = "text",
           c.pc = "commit" => c.score \in Scores,
           c.pc \in {"log", "notify"} => Reporting(w)
    PROVE  IInv'
  <1> USE DEF IInv, sourceVars, evaluationVars
  <1>1. TypeOK'
    BY DEF TypeOK, Local, Pc, Job
  <1>2. \A v \in Workers : worker'[v] = IF v = w THEN c ELSE worker[v]
    BY DEF TypeOK
  <1>3. DraftHasText'
    BY <1>2 DEF DraftHasText
  <1>4. \A v \in Workers : Reporting(v)' => Reporting(v)
    BY <1>2 DEF Reporting
  <1>5. OneReporter'
    BY <1>4 DEF OneReporter
  <1> QED BY <1>1, <1>3, <1>5 DEF ScoresAgree, CompletedIsEvaluated, EvaluatedFromText, NotifiedOnce

(* The same for a worker that only changes its step. *)
LEMMA StepMoves ==
    ASSUME IInv, NEW w \in Workers, NEW step \in Pc, GoTo(w, step),
           UNCHANGED <<sourceVars, evaluationVars, status, job, recruiter>>,
           step = "assess" => transcript = "text", step # "commit",
           step \in {"log", "notify"} => Reporting(w)
    PROVE  IInv'
  <1>1. worker[w] \in Local /\ job \in Job
    BY DEF IInv, TypeOK, Local, Pc, Job
  <1>2. PICK c \in Local : c = [worker[w] EXCEPT !.pc = step]
    BY <1>1 DEF Local
  <1>3. c.pc = step
    BY <1>1, <1>2 DEF Local
  <1>4. worker' = [worker EXCEPT ![w] = c]
    BY <1>2 DEF GoTo
  <1> QED BY <1>1, <1>3, <1>4, WorkerMoves

(* A worker is done with its delivery of the job, or dead. *)
LEMMA WorkerStops ==
    ASSUME IInv, NEW w \in Workers, worker' = [worker EXCEPT ![w] = IdleWorker], job' \in Job,
           UNCHANGED <<sourceVars, evaluationVars, status, recruiter>>
    PROVE  IInv'
  <1>1. IdleWorker \in Local /\ IdleWorker.pc = "idle"
    BY DEF IdleWorker, Local, Pc, Score
  <1> QED BY <1>1, WorkerMoves

(* The queue and the recruiters move without touching the evaluation. *)
LEMMA OthersMove ==
    ASSUME IInv, UNCHANGED <<evaluationVars, worker>>, job' \in Job,
           assembling' \in BOOLEAN, transcript' \in {"none", "failure", "text"},
           transcript # "none" => transcript' = transcript,
           status' \in {status, "cancelled"}, status = "gone" => status' = status,
           recruiter' \in [Recruiters -> {"idle", "getJob", "retryJob", "enqueue", "cancel"}]
    PROVE  IInv'
  <1> USE DEF IInv, evaluationVars
  <1>1. TypeOK'
    BY DEF TypeOK, Job, Status
  <1>2. EvaluatedFromText' /\ CompletedIsEvaluated' /\ ScoresAgree' /\ NotifiedOnce'
    BY DEF EvaluatedFromText, CompletedIsEvaluated, ScoresAgree, NotifiedOnce
  <1>3. DraftHasText'
    BY DEF DraftHasText
  <1>4. OneReporter'
    BY DEF OneReporter, Reporting
  <1> QED BY <1>1, <1>2, <1>3, <1>4

LEMMA NoJobIsJob == NoJob \in Job /\ [NoJob EXCEPT !.state = "waiting"] \in Job
  <1>1. 0 \in 0..MaxAttempts
    BY MaxAttemptsAssumption
  <1>2. NoJob \in Job
    <2>1. "none" \in JobState
      BY DEF JobState
    <2> QED BY <1>1, <2>1, Zenon DEF NoJob, Job
  <1>3. ASSUME NEW j \in Job PROVE [j EXCEPT !.state = "waiting"] \in Job
    BY DEF Job, JobState
  <1> QED BY <1>2, <1>3

--------------------------------------------------------------------------------
(* The worker.                                                               *)

LEMMA ReadingOK ==
    ASSUME IInv, NEW w \in Workers, FindSummary(w) \/ FindInterview(w) \/ FindTranscript(w) \/ LogActivity(w)
    PROVE  IInv'
  <1>1. CASE FindSummary(w)
    <2>1. PICK step \in {"findInterview", "return"} : GoTo(w, step)
      BY <1>1 DEF FindSummary
    <2> QED BY <1>1, <2>1, StepMoves DEF FindSummary, Pc
  <1>4. CASE FindInterview(w)
    <2>1. PICK step \in {"findTranscript", "return"} : GoTo(w, step)
      BY <1>4 DEF FindInterview
    <2> QED BY <1>4, <2>1, StepMoves DEF FindInterview, Pc
  <1>2. CASE FindTranscript(w)
    <2>1. PICK step \in {"assess", "return"} : GoTo(w, step) /\ (step = "assess" => Usable)
      BY <1>2 DEF FindTranscript
    <2> QED BY <1>2, <2>1, StepMoves DEF FindTranscript, Pc, Usable
  <1>3. CASE LogActivity(w)
    <2>1. PICK step \in {"notify", "throw"} : GoTo(w, step)
      BY <1>3 DEF LogActivity
    <2> QED BY <1>3, <2>1, StepMoves DEF LogActivity, Pc, Reporting
  <1> QED BY <1>1, <1>2, <1>3, <1>4

LEMMA AssessOK ==
    ASSUME IInv, NEW w \in Workers, Assess(w)
    PROVE  IInv'
  <1>1. transcript = "text" /\ job \in Job
    BY DEF Assess, IInv, DraftHasText, TypeOK, Job
  <1>2. CASE GoTo(w, "throw")
    BY <1>2, StepMoves DEF Assess, Pc
  <1>3. CASE \E s \in Scores : worker' = [worker EXCEPT ![w] = [pc |-> "commit", score |-> s]]
    <2>1. PICK s \in Scores : worker' = [worker EXCEPT ![w] = [pc |-> "commit", score |-> s]]
      BY <1>3
    <2>2. PICK c \in Local : c = [pc |-> "commit", score |-> s]
      BY DEF Local, Pc, Score
    <2>3. c.pc = "commit" /\ c.score \in Scores
      BY <2>2
    <2>4. worker' = [worker EXCEPT ![w] = c]
      BY <2>1, <2>2
    <2> QED BY <1>1, <2>3, <2>4, WorkerMoves DEF Assess
  <1> QED BY <1>2, <1>3 DEF Assess

LEMMA CommitOK ==
    ASSUME IInv, NEW w \in Workers, Commit(w)
    PROVE  IInv'
  <1>1. CASE /\ GoTo(w, "throw")
             /\ UNCHANGED <<summary, interviewScore, candidateScore, status>>
    BY <1>1, StepMoves DEF Commit, Pc, evaluationVars
  <1>2. CASE Persist(w) /\ GoTo(w, "log")
    <2>1. worker[w] \in Local /\ worker[w].score \in Scores /\ transcript = "text"
      BY DEF Commit, IInv, DraftHasText, TypeOK, Local, Pc
    <2>2. summary = NoScore /\ summary' # NoScore /\ notified = 0 /\ \A v \in Workers : ~Reporting(v)
      BY <1>2, <2>1, NoScoreAssumption
      DEF Persist, IInv, OneReporter, NotifiedOnce, TypeOK
    <2>3. UNCHANGED <<sourceVars, notified, job, recruiter>>
      BY DEF Commit
    <2>4. \A v \in Workers : worker'[v] = IF v = w THEN [worker[w] EXCEPT !.pc = "log"] ELSE worker[v]
      BY <1>2 DEF GoTo, IInv, TypeOK
    <2>5. worker' \in [Workers -> Local]
      BY <1>2, <2>1 DEF GoTo, IInv, TypeOK, Local, Pc
    <2>6. TypeOK'
      BY <1>2, <2>1, <2>3, <2>5 DEF Persist, Publish, Status, IInv, TypeOK, Score, sourceVars, Local, Pc
    <2>7. DraftHasText'
      BY <2>1, <2>3, <2>4 DEF IInv, DraftHasText, sourceVars, Local
    <2>8. OneReporter'
      BY <2>2, <2>3, <2>4 DEF OneReporter, Reporting
    <2>9. ScoresAgree' /\ CompletedIsEvaluated' /\ EvaluatedFromText' /\ NotifiedOnce'
      BY <1>2, <2>1, <2>2, <2>3
      DEF Persist, Publish, ScoresAgree, CompletedIsEvaluated, EvaluatedFromText, NotifiedOnce, sourceVars
    <2> QED BY <2>6, <2>7, <2>8, <2>9 DEF IInv
  <1> QED BY <1>1, <1>2 DEF Commit

LEMMA NotifyOK ==
    ASSUME IInv, NEW w \in Workers, Notify(w)
    PROVE  IInv'
  <1>1. CASE UNCHANGED notified
    <2>1. PICK step \in {"return", "throw"} : GoTo(w, step)
      BY DEF Notify
    <2> QED BY <1>1, <2>1, StepMoves DEF Notify, Pc, evaluationVars
  <1>2. CASE notified' = notified + 1 /\ GoTo(w, "return")
    <2>1. /\ UNCHANGED <<sourceVars, interviewScore, candidateScore, summary, status, job, recruiter>>
          /\ worker[w] \in Local
          /\ summary # NoScore /\ notified = 0
          /\ \A v \in Workers : Reporting(v) => v = w
      BY DEF Notify, IInv, OneReporter, Reporting, TypeOK, Local, Pc
    <2>2. \A v \in Workers :
            worker'[v] = IF v = w THEN [worker[w] EXCEPT !.pc = "return"] ELSE worker[v]
      BY <1>2 DEF GoTo, IInv, TypeOK
    <2>3. worker' \in [Workers -> Local]
      BY <1>2, <2>1 DEF GoTo, IInv, TypeOK, Local, Pc
    <2>4. TypeOK'
      BY <1>2, <2>1, <2>3 DEF IInv, TypeOK, sourceVars, Local, Pc
    <2>5. DraftHasText'
      BY <2>1, <2>2 DEF IInv, DraftHasText, sourceVars, Local
    <2>6. \A v \in Workers : ~Reporting(v)'
      BY <2>1, <2>2 DEF Reporting, Local
    <2>7. ScoresAgree' /\ CompletedIsEvaluated' /\ EvaluatedFromText' /\ NotifiedOnce'
      BY <1>2, <2>1
      DEF IInv, ScoresAgree, CompletedIsEvaluated, EvaluatedFromText, NotifiedOnce, sourceVars
    <2> QED BY <2>4, <2>5, <2>6, <2>7 DEF IInv, OneReporter
  <1> QED BY <1>1, <1>2 DEF Notify

LEMMA StoppingOK ==
    ASSUME IInv, NEW w \in Workers, Complete(w) \/ Fail(w) \/ Crash(w)
    PROVE  IInv'
  <1>1. job \in Job
    BY DEF IInv, TypeOK, Job
  <1>2. CASE Complete(w)
    BY <1>1, <1>2, NoJobIsJob, WorkerStops DEF Complete
  <1>3. CASE Fail(w)
    <2>1. CASE Holds(w)
      <3>1. PICK n \in 0..MaxAttempts, state \in JobState :
              job' = [job EXCEPT !.holder = NoWorker, !.attempts = n, !.state = state]
        <4>1. (IF job.attempts < MaxAttempts THEN job.attempts + 1 ELSE job.attempts)
                \in 0..MaxAttempts
          BY <1>1, MaxAttemptsAssumption DEF Job
        <4> QED BY <1>3, <2>1, <4>1 DEF Fail, JobState
      <3>2. job' \in Job
        BY <1>1, <3>1 DEF Job
      <3> QED BY <1>3, <3>2, WorkerStops DEF Fail
    <2>2. CASE ~Holds(w)
      BY <1>1, <1>3, <2>2, WorkerStops DEF Fail
    <2> QED BY <2>1, <2>2
  <1>4. CASE Crash(w)
    BY <1>1, <1>4, WorkerStops DEF Crash
  <1> QED BY <1>2, <1>3, <1>4

LEMMA TakeJobOK ==
    ASSUME IInv, NEW w \in Workers, TakeJob(w)
    PROVE  IInv'
  <1>1. worker[w] \in Local /\ job' \in Job
    BY DEF TakeJob, IInv, TypeOK, Local, Pc, Job, JobState
  <1>2. PICK c \in Local : c = [worker[w] EXCEPT !.pc = "findSummary"]
    BY <1>1 DEF Local, Pc
  <1>3. c.pc = "findSummary"
    BY <1>1, <1>2 DEF Local
  <1>4. worker' = [worker EXCEPT ![w] = c]
    BY <1>2 DEF TakeJob
  <1> QED BY <1>1, <1>3, <1>4, WorkerMoves DEF TakeJob

--------------------------------------------------------------------------------
(* The assembly, the queue and the recruiters.                               *)

LEMMA AssemblyOK ==
    ASSUME IInv, InsertTranscript \/ EnqueueEvaluation \/ AssemblyCrash \/ Stall
    PROVE  IInv'
  <1>1. /\ job \in Job /\ transcript \in {"none", "failure", "text"} /\ assembling \in BOOLEAN
        /\ recruiter \in [Recruiters -> {"idle", "getJob", "retryJob", "enqueue", "cancel"}]
    BY DEF IInv, TypeOK, Job
  <1>2. CASE InsertTranscript
    BY <1>1, <1>2, OthersMove DEF InsertTranscript
  <1>3. CASE EnqueueEvaluation
    BY <1>1, <1>3, NoJobIsJob, OthersMove DEF EnqueueEvaluation, Enqueue
  <1>4. CASE AssemblyCrash
    BY <1>1, <1>4, OthersMove DEF AssemblyCrash
  <1>5. CASE Stall
    <2>1. job' \in Job
      BY <1>1, <1>5 DEF Stall, Job, JobState
    <2> QED BY <1>1, <1>5, <2>1, OthersMove DEF Stall, sourceVars
  <1> QED BY <1>2, <1>3, <1>4, <1>5

LEMMA RecruiterOK ==
    ASSUME IInv, NEW r \in Recruiters,
           \/ BeginRetry(r) \/ LookAtJob(r) \/ RetryJob(r) \/ RetryEnqueue(r)
           \/ BeginCancel(r) \/ Cancel(r)
    PROVE  IInv'
  <1>1. /\ job \in Job /\ transcript \in {"none", "failure", "text"} /\ assembling \in BOOLEAN
        /\ recruiter \in [Recruiters -> {"idle", "getJob", "retryJob", "enqueue", "cancel"}]
    BY DEF IInv, TypeOK, Job
  <1>2. UNCHANGED <<sourceVars, evaluationVars, worker>>
    BY DEF BeginRetry, LookAtJob, RetryJob, RetryEnqueue, BeginCancel, Cancel
  <1>3. recruiter' \in [Recruiters -> {"idle", "getJob", "retryJob", "enqueue", "cancel"}]
    BY <1>1
    DEF BeginRetry, LookAtJob, RetryJob, RetryEnqueue, BeginCancel, Cancel, ToStep
  <1>4. job' \in Job
    <2>1. [job EXCEPT !.state = "waiting"] \in Job
      BY <1>1 DEF Job, JobState
    <2> QED
      BY <1>1, <2>1, NoJobIsJob
      DEF BeginRetry, LookAtJob, RetryJob, RetryEnqueue, BeginCancel, Cancel, Enqueue
  <1>5. status' \in {status, "cancelled"} /\ (status = "gone" => status' = status)
    BY DEF BeginRetry, LookAtJob, RetryJob, RetryEnqueue, BeginCancel, Cancel
  <1> QED BY <1>1, <1>2, <1>3, <1>4, <1>5, OthersMove DEF sourceVars

(* With the interview its scores go; the rest does not depend on it. *)
LEMMA RemovalOK ==
    ASSUME IInv, RemoveInterview
    PROVE  IInv'
  <1> USE DEF RemoveInterview, sourceVars
  <1>1. TypeOK'
    BY DEF IInv, TypeOK, Status, Score
  <1>2. ScoresAgree' /\ CompletedIsEvaluated' /\ EvaluatedFromText' /\ NotifiedOnce'
    BY DEF IInv, ScoresAgree, CompletedIsEvaluated, EvaluatedFromText, NotifiedOnce
  <1>3. DraftHasText' /\ OneReporter'
    BY DEF IInv, DraftHasText, OneReporter, Reporting
  <1> QED BY <1>1, <1>2, <1>3 DEF IInv

--------------------------------------------------------------------------------
(* The whole specification.                                                  *)

LEMMA InitOK ==
    ASSUME Init
    PROVE  IInv
  <1>1. TypeOK
    BY NoJobIsJob DEF Init, TypeOK, Status, Score, Job, IdleWorker
  <1>2. DraftHasText /\ OneReporter
    BY DEF Init, DraftHasText, OneReporter, Reporting, IdleWorker
  <1> QED BY <1>1, <1>2
          DEF IInv, Init, ScoresAgree, CompletedIsEvaluated, EvaluatedFromText, NotifiedOnce

LEMMA StepOK ==
    ASSUME IInv, [Next]_vars
    PROVE  IInv'
  <1>1. ASSUME NEW w \in Workers, TakeJob(w) \/ Continue(w) \/ Crash(w) PROVE IInv'
    BY <1>1, TakeJobOK, ReadingOK, AssessOK, CommitOK, NotifyOK, StoppingOK DEF Continue
  <1>2. CASE InsertTranscript \/ EnqueueEvaluation \/ AssemblyCrash \/ Stall
    BY <1>2, AssemblyOK
  <1>3. ASSUME NEW r \in Recruiters,
               \/ BeginRetry(r) \/ LookAtJob(r) \/ RetryJob(r) \/ RetryEnqueue(r)
               \/ BeginCancel(r) \/ Cancel(r)
        PROVE  IInv'
    BY <1>3, RecruiterOK
  <1>4. CASE UNCHANGED vars
    BY <1>4
    DEF vars, IInv, TypeOK, ScoresAgree, CompletedIsEvaluated, EvaluatedFromText, NotifiedOnce,
        DraftHasText, OneReporter, Reporting, sourceVars, evaluationVars
  <1>5. CASE RemoveInterview
    BY <1>5, RemovalOK
  <1> QED BY <1>1, <1>2, <1>3, <1>4, <1>5 DEF Next

(* IInv is an invariant of any number of workers and recruiters.             *)
THEOREM Invariance == Spec => []IInv
  <1>1. Init => IInv
    BY InitOK
  <1>2. IInv /\ [Next]_vars => IInv'
    BY StepOK
  <1> QED BY <1>1, <1>2, PTL DEF Spec

(* The rows, the job and the workers keep their types.                       *)
THEOREM TypeCorrect == Spec => []TypeOK
  <1>1. IInv => TypeOK
    BY DEF IInv
  <1> QED BY <1>1, Invariance, PTL

(* As long as they are there, interview and candidate show the score of the  *)
(* evaluation that was kept.                                                 *)
THEOREM OneScore == Spec => []ScoresAgree
  <1>1. IInv => ScoresAgree
    BY DEF IInv
  <1> QED BY <1>1, Invariance, PTL

(* A completed interview has its evaluation.                                 *)
THEOREM CompletedHasEvaluation == Spec => []CompletedIsEvaluated
  <1>1. IInv => CompletedIsEvaluated
    BY DEF IInv
  <1> QED BY <1>1, Invariance, PTL

(* Only a transcript with text is ever evaluated.                            *)
THEOREM TextEvaluated == Spec => []EvaluatedFromText
  <1>1. IInv => EvaluatedFromText
    BY DEF IInv
  <1> QED BY <1>1, Invariance, PTL

(* A job that runs twice does not tell the recruiter twice.                  *)
THEOREM ToldAtMostOnce == Spec => []NotifiedOnce
  <1>1. IInv => NotifiedOnce
    BY DEF IInv
  <1> QED BY <1>1, Invariance, PTL

(* The unique interviewId of the summary makes the first evaluation the only *)
(* one, however many attempts run at once.                                   *)
THEOREM KeptForGood == Spec => EvaluatedOnce
  <1>1. ASSUME [Next]_vars PROVE [summary # NoScore => summary' = summary]_vars
    <2>1. CASE \E w \in Workers : Commit(w)
      BY <2>1 DEF Commit, Persist
    <2>2. CASE ~ \E w \in Workers : Commit(w)
      <3>1. summary' = summary
        BY <1>1, <2>2
        DEF Next, vars, evaluationVars, Continue, TakeJob, FindSummary, FindInterview, FindTranscript,
            Assess, LogActivity, Notify, Complete, Fail, Crash, Stall, InsertTranscript,
            EnqueueEvaluation, AssemblyCrash, BeginRetry, LookAtJob, RetryJob, RetryEnqueue,
            BeginCancel, Cancel, RemoveInterview
      <3> QED BY <3>1
    <2> QED BY <2>1, <2>2
  <1> QED BY <1>1, PTL DEF Spec, EvaluatedOnce

================================================================================
