# Verification of the interview backend

The program is a NestJS service that screens candidates with recorded interviews. A recruiter
schedules a round and invites a candidate; the candidate joins a LiveKit room and records an
answer per question; once the round is submitted and its recordings have settled, the answers are
transcribed by a separate service and evaluated by a language model. Its state is in Postgres (no
transactions but one, updates by id without conditions) and in two BullMQ queues. Several requests,
webhooks and queue jobs for one interview run at once, and every `await` is a point where they
interleave. That is what most modules here are about; around the interviews stand the recruiter's
rows, the team and its links, the mail settings and the figures, which are modelled as well.

Paths below are relative to `src/src/` of the repository.

## Inventory

| Component | State it keeps | Operations | Talks to |
|---|---|---|---|
| Interview session `modules/interview-session` | interview status and `startedAt`, access tokens, one answer row per question | `getSession`, `joinRoom`, `startRecording`, `stopRecording`, `submit`, `egress_ended` / `participant_left` / `room_finished` webhooks, reconciliation when a recruiter lists recordings | LiveKit, transcription hand-over |
| Interviews `modules/interviews` | the interview row | `schedule`, `reschedule`, `sendInvitation`, `getJoinLink`, `cancel`, `listRecordings`, `retryEvaluation` | session, candidates, mail, evaluation queue |
| LiveKit adapter `core/livekit` | none | rooms, egress start / stop / query | LiveKit server |
| Transcription hand-over, events and assembly `modules/transcript-ingestion` | `transcriptionStatus` of the answers, audio files, the transcript row | `enqueueForInterview`, `process` of an event, `finalizeInterviewTranscript` | storage, transcription service (Redis and HTTP), evaluation queue |
| Evaluation `modules/evaluation` | summary, analyses, the scores on interview and candidate | `evaluate`, `getEvaluationView`; normalisation of the model's answer, speech metrics | LLM, activity, notifications |
| Candidates `modules/candidates` | candidate row and stage, notes | create, update, `updateStage`, `advanceStageIfForward`, resume parsing | storage, LLM |
| Jobs `modules/jobs` | job, skills, round templates | create, update, question generation | LLM |
| Team and accounts `modules/users`, `auth`, `organizations` | users with role and status, invite and reset tokens, organization settings | signup, login, invite, accept, reset, role change, removal | mail |
| Mail accounts, composer `modules/mail-accounts`, `email-composer` | signature and Gmail connection, sent mails | update, connect, disconnect, send | Google, SMTP |
| Notifications, activity, dashboard | rows that others create | read, mark read, aggregate | - |

What is hard, and where:

* **Stale reads.** A handler reads a row, awaits LiveKit, mail, the LLM or the HTTP API, and writes on the
  strength of what it read. `update(id, ...)` never checks that the row is still the same.
* **Webhooks** come late, repeatedly, or never, and race the requests about the same answer.
* **Joins of several parties.** The round is handed over by whichever of the submit and the last
  webhook comes last; the transcript is concluded by whichever of the producer and the last event
  comes last.
* **At least once.** BullMQ repeats jobs and events; a stalled job runs on two workers.
* **Crashes** between two writes that belong together; most are not repaired by anybody.
* **Lazy deadline**: nothing watches the clock, calls enforce it.

What makes each component correct: an answer row, its egress and the file belong together and a settled answer
stays settled; a round has one start, ends once, and is quiet afterwards; what is handed over is final; a
transcript is written once, complete, of transcribed text; an evaluation is stored once, with the
same score everywhere, and told once. For the back office: stages only move forward and rejection sticks;
a round is scheduled once; an organization keeps an admin and every account is usable; a link works once; the address mail
is sent from has its own token; the figures shown are those of the rows.

`PROJECT.json` lists every hazard at its line with the properties that would catch it going wrong, and says where none does: where the code has the race and
a property holds only without it or excepts it.

## Modules

### `InterviewSession`: one round

Handlers (`Handlers`) serve one request or webhook each. `call[h]` holds the operation, the await the handler stands at (`pc`)
and its local variables: the question `q`, the egress `e`, whether it is inside the automatic submission of
`enforceDeadline` (`auto`), and the rows of a loop still to be visited (`todo`). Every awaited call is an
action of its own, named after what it does:

| Code | Actions |
|---|---|
| `loadInterview`, `enforceDeadline` | `Load`, `Reload` |
| `finalizeSubmit`, `stopActiveRecordings` | `FindRecording`, `StopAll`, `MarkAll`, `MarkSubmitted`, `UseTokens`, `RemoveParticipant` |
| `maybeEnqueueTranscription` | `ReadStatus`, `CountPending`, `HandOver` |
| `joinRoom` | `BeginRound` |
| `startRecording` | `FindInterrupted`, `Interrupt`, `MarkInterrupted`, `StartEgress`, `Lookup`, `Overwrite`, `Insert` |
| `stopRecording` | `FindAnswer`, `StopOne`, `MarkStopped` |
| `applyEgressResult` | `FindByEgress`, `ApplyResult` |
| `listRecordingsForRecruiter`, `reconcileStaleRecordings` | `ReadAnswers`, `Reconcile` |
| `sendInvitation`, `getJoinLink`, `cancel`, `reschedule` | `IssueToken`, `MarkInvited`, `MarkCancelled`, `Revoke`, `SetDuration` |
| LiveKit, the clock, the evaluation | `EgressEnds`, `Tick`, `Evaluated` |

Data that no property tells apart is dropped: file names, sizes, failure reasons, mail texts. An answer that is transcribed or
evaluated counts as `uploaded`, since the session treats the three alike. Tokens are the set of their statuses; their
expiry would only refuse more calls. With one handler the module is the service as it would
behave if requests never overlapped; with two it is the service as it runs.

### `Round`: what a recruiter may rely on

`Round` is the abstract specification: a phase, the question being recorded, the recordings awaiting confirmation,
the confirmed ones, and whether they were handed over. It has no handlers, webhooks, egresses or clock.
`SessionRefinesRound` maps the rows of `InterviewSession` to it (`Phase`, `AnswersThatAre`, `Handed`), and the run
`session_serial` checks `ImplementsRound`: with one handler every step is a step of the round or a stutter, crashes
included. `Cancel` has no guard in it because a cancellation, even alone, may cross the evaluation's commit.

### `Transcription`: from a settled round to the transcript

Enqueuers run `enqueueForInterview`, workers run `process`, and both end in
`finalizeInterviewTranscript` (`ReadAnswers`, `FindTranscript`, `Insert`, `EnqueueEvaluation`). `proc[p]` holds the
process's step, the answers still to be sent (`todo`), the answer at hand and the completed answers it read (`done`). The job of an answer is known by its
id, so adding it twice adds it once. An event stays until a worker has processed it without error; it may be processed twice.
`queue.add` either adds or throws (an error after it has added is not modelled), and removing audio succeeds (the client swallows its error).
Redis forgetting old jobs is not modelled.

### `Assembly`: what the evaluation may rely on

The second abstract specification: how the transcription was concluded, whether somebody has written the text and is about to ask for the evaluation, and whether it
was asked for. Three steps: `Conclude`, `Ask`, and `Die` in between. Answers, jobs, events and the processes that race for the conclusion do not appear.
`TranscriptionRefinesAssembly` maps `Transcription` to it (`Assembling` is the set of processes between the insert and the enqueue), and `transcription_concurrent` checks
`ImplementsAssembly` with two hand-overs at once and crashes. It is the environment that `Evaluation` assumes: its `InsertTranscript`, `EnqueueEvaluation` and
`AssemblyCrash` are these three steps.

### `Evaluation`: from the transcript to the score

`evaluate` by awaits (`FindSummary`, `FindInterview`, `FindTranscript`, `Assess`, `Commit`, `LogActivity`, `Notify`), the one BullMQ job of
the interview with its holder, attempts and stalls, the recruiter's retry and cancel, and the tail of the assembly that races them. The transaction
is one action, `Commit`: it fails as a whole when the summary's unique `interviewId` is taken. `RemoveInterview` is the removal of the candidate or the job, which cascades
to the interview: `status` is `gone` then. Transcript and summary have no foreign key, so they stay, and an evaluation that is under way is still stored and told (`Publish` updates nothing).

### `Recruiting`: candidates, jobs and scheduling

The rows of one organization and any number of recruiters' requests, each a handler that goes from one database call to the next. Requests
of `CandidatesService`, `JobsService` and `InterviewsService.schedule` share the rows, so a job's rounds are replaced, its candidate moved or
removed, or another request schedules the same round between any two awaits.

| Code | Actions |
|---|---|
| `CandidatesService.create`, `update` | `AssertJobToCreate`, `InsertCandidate`, `FindCandidateToUpdate`, `AssertJob`, `UpdateRow`, `DeleteSkills`, `SaveSkills` |
| `updateStage` | `FindToMove`, `WriteStage` |
| `addNote`, `remove` | `FindToNote`, `InsertNote`, `RemoveCandidate` (with `Cascade`, the foreign keys) |
| `JobsService.create`, `update`, `remove` | the job's row, `DeleteSkills`, `SaveSkills`, `DeleteRounds`, `SaveRounds`, `RemoveJob` |
| `InterviewsService.schedule`, `advanceStageIfForward` | `FindCandidateToSchedule`, `FindJob`, `FindExisting`, `InsertInterview`, `ReadStage`, `Advance`, `Notify` |

A skill or a round is known by the request that saved it, which is all that replacing a list depends on. `StageMovesForward` and
`ListsAreReplaced` say exactly which interleaving the code gives way to: the write of a request whose reading is out of date.

### `Team`: organizations, users and their links

`signup` (`TrySlug`, `InsertOrg`, `SaveSettings`, `FindEmail`, `InsertFounder`), `login`, `forgotPassword` and `invite` with the mail that may fail, the
use of either link, `updateRole` and `remove` with `countAdmins`, and the change of a slug. A session is what was signed: its role is not
read again and it is never revoked, as in `JwtStrategy` and `RolesGuard`. `LastAdminStays` allows an organization to lose its last admin only by a write
that was overtaken; `countAdmins` counts admins who have not accepted their invitation, and so does the property: that an *active* admin stays is not true of the code.
Other things the model shows that nothing in the repository denies: `login` finds any one of the users with an address that two organizations share, and a password
reset of an invited user does not let that user in.

### `Mailbox`: one recruiter's mail

The settings row under `getStatus`, `updateSignature`, the Gmail callback and `disconnectGmail`, and the composer, which mails and then logs. TypeORM's `save` of a
row that was read is modelled by what it does: it reads the row again (`Reload`) and writes the columns in which the copy in memory differs (`Written`); the
token column is not selected, so a copy that was read has none. A mail that the server accepts may still end in an error or a crash before `send` hears of it (`MailedUnheard`);
`LogIsOfSentMail` counts it among the lost rows.

### `SpeechMetrics`, `Scoring`, `Dashboard`, `Sums`, `Figures`

Pure functions, checked over bounded inputs and proved for all. `SpeechMetrics` is the file of that name, on hundredths of a second; `Scoring` is `normalise` and what replaces it, on tenths of a
score; `Dashboard` computes the overview and the applicants of the jobs list from tables, on half-days. They are checked against definitions of another kind: `Silences` says of moments,
not of sorted neighbours, where a pause is, and a trend is compared with the rows on its calendar days. `Figures` puts them together as the code
does, each a fold of one operator, `SumOver` of `Sums`: `evaluate` measures the answers, decides which have speech, and asks the model only if one has; `overview` goes through the controller's period.

Where the code's queries leave an order open, so does the model: `Newest` is some sequence with `IsNewest`, the newest rows first and rows of one
moment in any order, and `strongestOpenReq` some open job that no other is `Above`. What the figures are computed from is stated by three assumptions:
`InterviewsAssumption` (an interview that is evaluated has questions, its rows have the types of their columns, and a reply has a list of entries, whatever
is in them), `OverviewsAssumption` (tables are finite and dated, and a completed interview has a summary, since the transaction of `evaluate` writes
both) and `ShownAssumption` (the limits of the lists are numbers).

The interview's talk ratio divides all speech by the lengths that are known: an answer without a length makes it too high, never above 1.
One midnight is assumed for all of them: the queries cut days in the database's zone (`date_trunc`), the sparkline's keys are UTC (`toISOString`, dashboard.service.ts:87) but its days are
stepped in local time (`setDate`, :90), and `getToday` starts at local midnight (:330). The model is exact when database and process run in UTC, and says nothing of other settings.
A period that is no whole number of days is accepted by the controller; its sparkline leaves today out and, on the first of a month, may count a day twice.
`interview_summaries` has no foreign key: the count of completed interviews keeps those of removed candidates.

### Proof modules

`InterviewSessionProofs`, `TranscriptionProofs` and `EvaluationProofs` EXTEND these (the second through `TranscriptionRefinesAssembly`) and hold the theorems;
`SerialSessionProofs` EXTENDS `SessionRefinesRound` and `InterviewSessionProofs` and holds those about one handler and about `Round`.
`MailboxProofs`, `TeamProofs`, `RecruitingProofs` and `FiguresProofs` EXTEND `Mailbox`, `Team`, `Recruiting` and `Figures`.
The `MC` modules add the symmetry, the inputs and the sets of operations of the instances TLC checks.

An operator `X_Fault` beside an operator `X` is a faulty variant: the specification does not use
it, and each property is known to fail when one of them stands in for `X`.

## Runs

| Run | Instance | What it shows |
|---|---|---|
| `session_serial` | 1 handler, 2 questions, 3 recordings, rounds of 0 or 1 tick, clock to 1, crashes | What the service promises when requests do not overlap: one recording at a time, a submitted round is quiet, what was handed over is settled and frozen, settled answers stay, an uploaded answer names its own file, the clock is kept, a cancelled round does not reopen, and the whole implements `Round`. Webhooks, the end of an egress and the clock still come at any time, and a handler may die between any two awaits. |
| `session_concurrent` | 2 handlers, 2 questions, 2 recordings, crashes, candidate and webhook operations | What survives every interleaving. |
| `session_live` | 1 handler, 1 question, 2 recordings, no crashes, all operations | A submitted round is handed over, a processing answer settles, a cancelled round loses its links. |
| `transcription_concurrent` | 2 hand-overs, 1 worker, 2 answers, crashes | The transcript is written once and holds only transcribed answers, and the whole implements `Assembly`. |
| `transcription_live` | 1 hand-over at a time, 1 worker, 3 answers, no crashes | Results are final, queued jobs have their audio, every pending answer settles, everything handed over is concluded, audio is removed. |
| `evaluation` | 2 workers, 1 recruiter, 2 scores, 3 attempts, crashes and stalls | One evaluation, one score everywhere, one notification; a job that finds the text ends in an evaluation or among the failed jobs, unless its interview is removed. |
| `recruiting` | 1 candidate, 2 jobs, 2 requests at once, 6 in all, lists of 1 and 2 rounds, crashes | Stages go back, and lists mix, only by an overtaken write; a round is scheduled once. |
| `team` | 2 organizations, 2 addresses, 2 links, 2 requests at once, 7 in all, crashes | Accounts are usable, the last admin goes only by an overtaken write, a link sets one password unless it was read before. |
| `mailbox` | 2 requests at once, 2 Gmail accounts, 1 signature, 3 mails, crashes | Address and token come apart only by an overtaken save; the log is of the mails sent. |
| `figures` | one or two answers with up to three utterances, replies with one mark out of line, small organizations | Delivery, scores and overview agree with what they are computed from and with each other. |

and two runs in which a claim of the source does not hold of the code:

| Run | The claim | What happens |
|---|---|---|
| `transcription_premature` | the transcript is written once every answer has a result | a fast event of the first answer concludes before the second is handed over |
| `evaluation_early_retry` | an early retry is a no-op | the retry's active job swallows the assembly's enqueue and nothing is evaluated |

Three more claims of the source hold only while handlers do not overlap, and are checked in that form: late events for a re-recorded answer are
ignored (`UploadedHasItsFile`), rejoining keeps the original deadline (`ClockKept`), and handing over twice is safe (`ResultKept`). Given a second handler in the
same configurations, TLC finds a result that was looked up before a re-recording applied after it, two joins at once that restart the clock, and
a hand-over that writes pending over a completed answer.

**Bounds.** Two questions are enough for one recording to interrupt another; the third recording lets a question be recorded again while
the other's webhook is still out. A round that is shorter than a tick passes its deadline as soon as the clock
moves, before, during or after every step; the longer one never does unless a reschedule shortens it. Two handlers
are enough for each race named above, all of which are between a reader and one writer. Two answers
are what a premature transcript takes, and the third in the live run separates "next" from "last". Two workers are what a stalled job takes; two scores tell a
kept evaluation from a replaced one. The code gives a job five attempts; three in the run are
enough to distinguish the first, a middle and the last one. Six requests on one candidate are enough to create two jobs and the candidate and let three more
cross (a schedule, a move and a change of rounds); seven on the team, to sign up, invite, accept, and let two admins act against each other. Three mails
separate a mail that fails, one whose row fails and one that is logged. In the figures, three utterances are what an overlap and a pause across it
take, and marks are tried at, beside and beyond each edge and at the half that rounds.

**Fairness.** Only steps the system takes by itself are fair: a handler or process that is not killed goes on, LiveKit ends
every egress (a limit exists) and repeats its webhook until it is taken, BullMQ redelivers an event until it is processed, the HTTP API does not fail for ever,
the transcription service gives a verdict on every job, a waiting job is taken by an idle worker. No recruiter or candidate is obliged to do
anything and the clock may stop. The liveness runs of the session and the transcription exclude crashes, because the code repairs none:
a round whose hand-over died is left to a later webhook that need not come. The evaluation run includes them, since BullMQ restarts its job.
`SubmittedIsHandedOver` and `ProcessingSettles` except an answer whose egress reached its limit without a file: `applyEgressResult`
treats it as still running, for ever. `SubmittedIsHandedOver` also excepts a round in which nothing was recorded, which the producer skips.
Deadlock checking is off where the system may be at rest or the bound on requests is used up: in the transcription and evaluation runs, and in those of the back office.

## Proofs

TLAPS proves the following for any number of handlers, questions, recordings, answers, processes, workers and attempts, with crashes.
The assumptions are those on the constants named in the modules (sentinels are not members of the sets they complete, durations are
naturals, a job has at least one attempt).

* **InterviewSession**: `TypeOK`, `EgressOfItsQuestion`, `StartedWhenActive`, `UploadedWasRecorded`. None is inductive: what a handler has read
  before an await must still be true enough after it. `IInv` says what each step still knows: a handler about to write a recording row holds an egress
  of its question that is no longer unused, one about to apply a result holds an egress that has ended, one past the load of a running round knows that a start was written. These
  facts are stable because an egress keeps its question, an ended one stays ended, and `startedAt` is never
  cleared, whatever other handlers do.
* **Transcription**: `TypeOK`, `TranscriptIsTranscribed`, `EvaluationHasText`, `TranscriptWrittenOnce`. `IInv` adds that a completed status means a completed job, for
  the row and for what every process remembers (`LocalOK`). `Grows` (a completed job stays completed, a transcript stays) makes the memories of
  the processes that do not move stable, so each action's proof is about the one that moves.
  With a single hand-over at a time, which may die, and any number of workers also `QueuedHasAudio` and `ResultKept`, wider than the run that checks them: `SInv` says that the hand-over
  is about answers that have no job and workers about answers that have a verdict, so neither writes what the other relies on. Two hand-overs at once break that.
* **Assembly**: `TranscriptionImplementsAssembly`, for any number of hand-overs and workers. `IInv` is not enough: two processes at the enqueue would look like one, and the first to ask would not
  end the assembly. `OneAssembles` adds that there is one at most, and that nobody has asked before it; it holds because who inserts finds no row, and so nobody at the enqueue
  (`TextWhenAssembling`). Each group of actions has a lemma that it `Assembles`: keeps `OneAssembles` and is a step of the assembly or a stutter. `EvaluationAskedOnce` is proved of the abstract
  specification (`AssemblyInvariance`) and carried over.
* **Evaluation**: `TypeOK`, `ScoresAgree`, `CompletedIsEvaluated`, `EvaluatedFromText`, `NotifiedOnce`, `EvaluatedOnce`. `NotifiedOnce` needs `OneReporter`: at most one worker is ever between its commit and its notification,
  and nobody has been told then; `EvaluatedFromText` needs `DraftHasText`.
* **Round**: one answer at a time, what was handed over is settled and final, nothing is recorded after the end. `RoundInv` adds that a round that was handed
  over is over. The proofs use the definitions of `Round` only, never those of the mapping, and `SessionKeepsTheRound` carries them over to the session
  with one handler, which implements `Round`.
* **The serial session**: for a `Handlers` with a single member and any questions, recordings, durations and clock, all nine properties of
  `session_serial` besides `TypeOK`: the refinement of `Round` (`SessionImplementsRound`), four invariants and four action properties. They share one argument. `SInv` says of the
  rows what holds between any two steps (`World`) and of the handler that what it has read is still so (`KnowsAt`): nobody else
  writes the rows, so the pass it has collected is what is recording, the row it is about to finalize still awaits its
  verdict. With two handlers that is what breaks, as two joins at once show. `Good(h)` collects what a step must do:
  restore `SInv`, be a step of `Round` or a stutter, and keep what is settled. Each action has a lemma that it is
  `Good`; `Reads` does it for the steps that only read, `Written` for those that write an answer.

* **Mailbox**: `TypeOK`, `LogIsOfSentMail` and `AddressHasToken`, for any number of handlers, accounts and mails. The action property rests on `CopiesOK`: until it is
  written, a copy is what was read with the request's own columns set, and it has no token unless the request set one or created the row.
* **Team**: `TypeOK`, `AccountsUsable`, `LinkWorksOnce` and `LastAdminStays`, for any number of organizations, users and requests. `IInv` adds that whoever acts for an organization, a session or a request past its
  settings, finds the organization there with its settings, which nothing removes. `LinksOK` serves the links: a token is issued once, one user holds it, and one that has set a password is on
  no row any more. `AdminsOK` serves the last admin: a request about to take an admin away has counted another, and a user never changes organization, so that a count that is
  still right leaves one.
* **Recruiting**: `TypeOK`, `StageMovesForward`, `ListsAreReplaced` and `ScheduledOnce`, for any number of candidates, jobs, rounds and requests. `IInv` says what a request knows of
  itself: the stage it will write follows the stage it has read. `Reliance` says what it may take for granted while others run: nobody else knows a candidate that is being
  created; the row a request works on was there once, so no insert can be about it; a list stays empty between delete and save or the request is marked; and past `InsertInterview`
  the interview is the request's own or its candidate or job is gone. `Control` and `OnRows` sum up what a step does to the requests and to the rows, and each part of `Reliance` is preserved
  by every step of that form.

* **Figures**: `MetricsAreMeasured`, `EvaluationIsSound` and `OverviewAgrees`, for interviews with any number of answers and utterances, any reply of the model, tables of any
  size, and any moment and period. A figure is computed in one step, so the invariant (`FigureIs`) only says what it was computed from, and the work is in the
  functions. The prover has no induction over data, so it is done by hand where it is needed: a property of finite sets is given as the set of
  subsets that have it, and if some subset had not, there would be a least one without it (`FiniteMinimal`, `FiniteInduction`, from the library's
  `FS_` facts). With that the fold behind `SumOver` is shown not to depend on the order in which it takes the elements (`FoldsAgree`, `SumElement`), which everything else cites:
  sums of counts of disjoint sets (`SumOfCounts`, `Partitioned`), rounded means between the least and the greatest value (`AverageBetween`), ratios of sums between the ratios of their terms (`RatioBetween`).
  - *Delivery.* Sorting puts what is heard in order whatever order it came in (`Enumerated`, `OrderedIs`). Each silence is followed by a pause of its own (`SilencesArePauses`), and for one speaker the reverse
    holds (`PausesAreSilences`); `FollowEachOther` adds delay, speech and pauses up to the end. The 10 hundredths of slack in the property are two roundings to a tenth.
    In the aggregate, speech is a sum of tenths and so is not rounded again (`SumOfTens`), and a ratio cut off at 1 stays between ratios that were cut off.
  - *Scores.* `NormalisedIs` and `EvaluationIs`: whatever is accepted is stored whole; `MockAccepted`: the development provider's reply is accepted for any number of questions.
  - *Overview.* `TrendIs` shows that every point of the sparkline is a day and that the days add up to the delta's two periods; `CountsDoAgree` and `JobsDoAgree` relate
    the cards, the stages, the table of jobs and the list.

Proving the figures corrected the model: it had listed rows of one moment in a fixed order, which neither the queries nor the database promise.

Only model-checked: the liveness properties (`SubmittedIsHandedOver`, `ProcessingSettles`, `CancelClosesLinks`, `PendingSettles`, `SentIsConcluded`, `AudioIsRemoved`, `WaitingIsConcluded`): TLAPS
has no way to prove liveness under fairness here, or anything with ENABLED. `TypeOK` of the first three modules and of those of the back office, and `EvaluationHasText`, are proved and not run.

## Plan

The modules were ordered by what the product depends on: a lost recording or evaluation first, the back office last.

1. Done: `InterviewSession`, `Transcription`, `Evaluation`, each with its runs and proofs, `Round` with its refinement by the session, and `Assembly` with its refinement by the transcription, checked and proved.
2. Done: the back office (`Recruiting`, `Team`, `Mailbox`), with concurrent requests and the claims its comments make, and the figures.
3. The composition of session, transcription and evaluation in one specification. Its interfaces are there: `HandOver` / `Evaluated` of the session, and `Assembly` between transcription and evaluation.
4. Done: the proofs of the back office, of the transcription with one hand-over at a time, and of the figures.

## Not modelled

Resume upload and parsing, extraction of a job from a text and generation of questions, which write no row and whose outcome is whatever a language model answers;
the wording of the prompt and of mails; the protocols of LiveKit, Google and SMTP; listing and filtering; bootstrapping, configuration, validation of request
bodies and logging. The queries of one overview are taken to see the same rows. `InterviewSession` and `Transcription` take the interview to stay (`if (!interview) return`,
transcript-assembly.service.ts:45, is left out); its removal in the middle of other requests is in `Recruiting` and in `Evaluation`.
