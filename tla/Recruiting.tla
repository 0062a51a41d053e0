-------------------------------- MODULE Recruiting --------------------------------
(***************************************************************************)
(* One organization's jobs, candidates and scheduled interviews: the       *)
(* requests of CandidatesService, JobsService and the scheduling part of   *)
(* InterviewsService, which any number of recruiters send at once.         *)
(*                                                                         *)
(* A request is a handler that awaits one database call after another; it  *)
(* may be overtaken, or die, between any two of them.  No transaction      *)
(* spans two calls.  Identifiers are never used again once a row is gone.  *)
(***************************************************************************)
EXTENDS Naturals, FiniteSets, Sequences

CONSTANTS
    Candidates,   \* identifiers candidates are created with
    Jobs,         \* identifiers jobs are created with
    Handlers,     \* recruiter requests in progress at once
    RoundLists,   \* lists of [type, order] a recruiter configures a job's rounds with
    Indexes,      \* round positions a recruiter schedules
    Targets,      \* stages a recruiter moves candidates to
    Offered,      \* the requests of this instance
    MaxRequests,  \* bound: requests made in a behaviour
    None,         \* no row, no value
    Never, Gone   \* a candidate not created yet, or removed

ASSUME NoneAssumption == None \notin Candidates \cup Jobs \cup Handlers /\ Never # Gone
ASSUME OwnersAssumption == Candidates \cap Jobs = {}
ASSUME IndexesAssumption == Indexes \subseteq Nat
ASSUME MaxRequestsAssumption == MaxRequests \in Nat

VARIABLES
    candidate,  \* candidates row: stage, job, whether it has a reject reason
    posted,     \* the jobs rows: "never", "there" or "gone"
    skills,     \* of a candidate or a job: the handlers whose skill rows it has
    rounds,     \* of a job: its interview_round_templates rows
    notes,      \* candidates with a candidate_notes row
    interview,  \* of a candidate and a position: the interviews row
    told,       \* positions an interviewer was notified of
    call,       \* where each handler stands, and what it has read
    requests    \* number of requests made

vars == <<candidate, posted, skills, rounds, notes, interview, told, call, requests>>
rowVars == <<candidate, posted, skills, rounds, notes, interview, told>>

--------------------------------------------------------------------------------

CANDIDATE_STAGE_RANK ==
    [applied |-> 0, screening |-> 1, interview |-> 2, hr_review |-> 3,
     offer |-> 4, hired |-> 5, rejected |-> 99]
Stages == DOMAIN CANDIDATE_STAGE_RANK
Rank(stage) == CANDIDATE_STAGE_RANK[stage]

RoundTypes == {"ai_interview", "technical", "hr"}

stageForRoundType(type) ==
    CASE type = "ai_interview" -> "screening"
      [] type = "hr" -> "hr_review"
      [] OTHER -> "interview"

ASSUME TargetsAssumption == Targets \subseteq Stages
ASSUME RoundListsAssumption ==
    RoundLists \subseteq Seq([type : RoundTypes, order : Nat])

Row == [stage : Stages, job : Jobs, reason : BOOLEAN]
Template == [type : RoundTypes, order : Nat, by : Handlers, pos : Nat]
InterviewRow == [job : Jobs, type : RoundTypes, by : Handlers]
ASSUME RowsAssumption == {Never, Gone} \cap Row = {} /\ None \notin InterviewRow \cup RoundLists
Owners == Candidates \cup Jobs

Pc == {"idle", "deleteSkills", "saveSkills", "deleteRounds", "saveRounds", "insertCandidate",
       "assertJob", "updateRow", "writeStage", "insertNote", "findJob", "findExisting",
       "insertInterview", "readStage", "advance", "notify"}

Call == [pc : Pc, of : Owners \cup {None}, job : Jobs \cup {None},
         stage : Stages \cup {None}, seen : Stages \cup {None}, reason : BOOLEAN,
         skills : BOOLEAN, rounds : RoundLists \cup {None}, index : Indexes \cup {None},
         type : RoundTypes \cup {None}, overtaken : BOOLEAN]
NoCall == [pc |-> "idle", of |-> None, job |-> None, stage |-> None, seen |-> None,
           reason |-> FALSE, skills |-> FALSE, rounds |-> None, index |-> None,
           type |-> None, overtaken |-> FALSE]

TypeOK ==
    /\ candidate \in [Candidates -> Row \cup {Never, Gone}]
    /\ posted \in [Jobs -> {"never", "there", "gone"}]
    /\ skills \in [Owners -> SUBSET Handlers]
    /\ rounds \in [Jobs -> SUBSET Template]
    /\ notes \subseteq Candidates
    /\ interview \in [Candidates \X Indexes -> InterviewRow \cup {None}]
    /\ told \subseteq Candidates \X Indexes
    /\ call \in [Handlers -> Call]
    /\ requests \in 0..MaxRequests

Init ==
    /\ candidate = [c \in Candidates |-> Never]
    /\ posted = [j \in Jobs |-> "never"]
    /\ skills = [o \in Owners |-> {}]
    /\ rounds = [j \in Jobs |-> {}]
    /\ notes = {}
    /\ interview = [p \in Candidates \X Indexes |-> None]
    /\ told = {}
    /\ call = [h \in Handlers |-> NoCall]
    /\ requests = 0

Listed(c) == candidate[c] \notin {Never, Gone}
Posted(j) == posted[j] = "there"
(* The row a child row refers to. *)
There(o) == IF o \in Jobs THEN Posted(o) ELSE Listed(o)

Begin(h, op) ==
    /\ op \in Offered
    /\ call[h].pc = "idle"
    /\ requests < MaxRequests
    /\ requests' = requests + 1

Start(h, op, request) ==
    /\ Begin(h, op)
    /\ call' = [call EXCEPT ![h] = request]
    /\ UNCHANGED rowVars

Go(h, pc) == call' = [call EXCEPT ![h] = [@ EXCEPT !.pc = pc]] /\ UNCHANGED requests
(* The response or the exception, whatever was written before. *)
Return(h) == call' = [call EXCEPT ![h] = NoCall] /\ UNCHANGED requests

Crash(h) ==
    /\ "crash" \in Offered
    /\ call[h].pc # "idle"
    /\ Return(h)
    /\ UNCHANGED rowVars

--------------------------------------------------------------------------------
(* Jobs.                                                                     *)

TemplatesOf(list, h) ==
    {[type |-> list[i].type, order |-> list[i].order, by |-> h, pos |-> i] :
        i \in DOMAIN list}

(* JobsService.create: the job, its skills and its rounds in one save. *)
CreateJob(h, j, list) ==
    /\ Begin(h, "createJob")
    /\ posted[j] = "never"
    /\ posted' = [posted EXCEPT ![j] = "there"]
    /\ skills' = [skills EXCEPT ![j] = {h}]
    /\ rounds' = [rounds EXCEPT ![j] = TemplatesOf(list, h)]
    /\ UNCHANGED <<candidate, notes, interview, told, call>>

(* update: what it answers and the other columns of the job are not modelled. *)
FindJobToUpdate(h, j, withSkills, list) ==
    /\ Posted(j)
    /\ withSkills \/ list # None
    /\ Start(h, "updateJob",
             [NoCall EXCEPT !.pc = IF withSkills THEN "deleteSkills" ELSE "deleteRounds",
                            !.of = j, !.skills = withSkills, !.rounds = list])

(* candidateSkillsRepository.delete and jobSkillsRepository.delete *)
DeleteSkills(h) ==
    /\ call[h].pc = "deleteSkills"
    /\ skills' = [skills EXCEPT ![call[h].of] = {}]
    /\ Go(h, "saveSkills")
    /\ UNCHANGED <<candidate, posted, rounds, notes, interview, told>>

(* Every other request between its delete and its save of the same list is    *)
(* marked: the rows now saved are none of those it has deleted.               *)
Overtake(h, next) ==
    /\ call' = [k \in Handlers |->
        IF k = h THEN next
        ELSE [call[k] EXCEPT !.overtaken =
                @ \/ (call[k].pc = call[h].pc /\ call[k].of = call[h].of)]]
    /\ UNCHANGED requests

(* The new rows refer to their owner: without it the save fails. *)
SaveSkills(h) ==
    /\ call[h].pc = "saveSkills"
    /\ IF There(call[h].of)
       THEN /\ skills' = [skills EXCEPT ![call[h].of] = @ \cup {h}]
            /\ Overtake(h, IF call[h].rounds = None THEN NoCall
                           ELSE [call[h] EXCEPT !.pc = "deleteRounds", !.overtaken = FALSE])
       ELSE Return(h) /\ UNCHANGED skills
    /\ UNCHANGED <<candidate, posted, rounds, notes, interview, told>>

DeleteRounds_Skipped(h) ==
    /\ call[h].pc = "deleteRounds"
    /\ Go(h, "saveRounds")
    /\ UNCHANGED rowVars

DeleteRounds(h) ==
    /\ call[h].pc = "deleteRounds"
    /\ rounds' = [rounds EXCEPT ![call[h].of] = {}]
    /\ Go(h, "saveRounds")
    /\ UNCHANGED <<candidate, posted, skills, notes, interview, told>>

SaveRounds(h) ==
    /\ call[h].pc = "saveRounds"
    /\ IF Posted(call[h].of)
       THEN /\ rounds' = [rounds EXCEPT ![call[h].of] = @ \cup TemplatesOf(call[h].rounds, h)]
            /\ Overtake(h, NoCall)
       ELSE Return(h) /\ UNCHANGED rounds
    /\ UNCHANGED <<candidate, posted, skills, notes, interview, told>>

(* A deleted row takes along every row that refers to it. *)
Cascade(goneCandidates, goneJobs) ==
    /\ candidate' = [c \in Candidates |-> IF c \in goneCandidates THEN Gone ELSE candidate[c]]
    /\ posted' = [j \in Jobs |-> IF j \in goneJobs THEN "gone" ELSE posted[j]]
    /\ skills' = [o \in Owners |-> IF o \in goneCandidates \cup goneJobs THEN {} ELSE skills[o]]
    /\ rounds' = [j \in Jobs |-> IF j \in goneJobs THEN {} ELSE rounds[j]]
    /\ notes' = notes \ goneCandidates
    /\ interview' = [p \in Candidates \X Indexes |->
           IF \/ p[1] \in goneCandidates
              \/ interview[p] # None /\ interview[p].job \in goneJobs
           THEN None ELSE interview[p]]
    /\ UNCHANGED <<told, call>>

(* JobsService.remove *)
RemoveJob(h, j) ==
    /\ Begin(h, "removeJob")
    /\ Posted(j)
    /\ Cascade({c \in Candidates : Listed(c) /\ candidate[c].job = j}, {j})

--------------------------------------------------------------------------------
(* Candidates.                                                               *)

(* create: assertJobInOrg *)
AssertJobToCreate(h, c, j) ==
    /\ candidate[c] = Never /\ Posted(j)
    /\ \A k \in Handlers : call[k].pc = "insertCandidate" => call[k].of # c
    /\ Start(h, "createCandidate",
             [NoCall EXCEPT !.pc = "insertCandidate", !.of = c, !.job = j])

(* The candidate and its skills in one save; it fails if the job is gone. *)
InsertCandidate(h) ==
    /\ call[h].pc = "insertCandidate"
    /\ LET c == call[h].of  j == call[h].job IN
       IF Posted(j)
       THEN /\ candidate' = [candidate EXCEPT ![c] =
                                [stage |-> "applied", job |-> j, reason |-> FALSE]]
            /\ skills' = [skills EXCEPT ![c] = {h}]
       ELSE UNCHANGED <<candidate, skills>>
    /\ Return(h)
    /\ UNCHANGED <<posted, rounds, notes, interview, told>>

(* update: findOne, then assertJobInOrg if another job is given *)
FindCandidateToUpdate(h, c, j, withSkills) ==
    /\ Listed(c)
    /\ j # None \/ withSkills
    /\ Start(h, "updateCandidate",
             [NoCall EXCEPT !.pc = IF j # None THEN "assertJob" ELSE "deleteSkills",
                            !.of = c, !.job = j, !.skills = withSkills])

AssertJob(h) ==
    /\ call[h].pc = "assertJob"
    /\ IF Posted(call[h].job) THEN Go(h, "updateRow") ELSE Return(h)
    /\ UNCHANGED rowVars

(* The foreign key refuses a job that is gone; a candidate that is gone is     *)
(* updated without effect, and its new skills are then refused.                *)
UpdateRow(h) ==
    /\ call[h].pc = "updateRow"
    /\ LET c == call[h].of  j == call[h].job IN
       /\ candidate' = IF Listed(c) /\ Posted(j)
                       THEN [candidate EXCEPT ![c] = [@ EXCEPT !.job = j]] ELSE candidate
       /\ IF (Listed(c) => Posted(j)) /\ call[h].skills
          THEN Go(h, "deleteSkills") ELSE Return(h)
    /\ UNCHANGED <<posted, skills, rounds, notes, interview, told>>

FindToMove_AnyDirection(h, c, stage, reason) ==
    /\ Listed(c)
    /\ Start(h, "updateStage",
             [NoCall EXCEPT !.pc = "writeStage", !.of = c, !.stage = stage,
                            !.seen = candidate[c].stage, !.reason = reason])

(* updateStage: forward, to the same stage again, or to rejected; rejected has *)
(* the highest rank, so nothing follows it.                                    *)
FindToMove(h, c, stage, reason) ==
    /\ Listed(c)
    /\ stage = "rejected" \/ Rank(stage) >= Rank(candidate[c].stage)
    /\ Start(h, "updateStage",
             [NoCall EXCEPT !.pc = "writeStage", !.of = c, !.stage = stage,
                            !.seen = candidate[c].stage, !.reason = reason])

WriteStage(h) ==
    /\ call[h].pc = "writeStage"
    /\ LET c == call[h].of IN
       candidate' = IF ~Listed(c) THEN candidate
                    ELSE [candidate EXCEPT ![c] = [@ EXCEPT
                            !.stage = call[h].stage,
                            !.reason = call[h].stage = "rejected" /\ call[h].reason]]
    /\ Return(h)
    /\ UNCHANGED <<posted, skills, rounds, notes, interview, told>>

(* addNote: findOne, then the note *)
FindToNote(h, c) ==
    /\ Listed(c)
    /\ Start(h, "addNote", [NoCall EXCEPT !.pc = "insertNote", !.of = c])

InsertNote(h) ==
    /\ call[h].pc = "insertNote"
    /\ notes' = IF Listed(call[h].of) THEN notes \cup {call[h].of} ELSE notes
    /\ Return(h)
    /\ UNCHANGED <<candidate, posted, skills, rounds, interview, told>>

(* CandidatesService.remove *)
RemoveCandidate(h, c) ==
    /\ Begin(h, "removeCandidate")
    /\ Listed(c)
    /\ Cascade({c}, {})

--------------------------------------------------------------------------------
(* Scheduling.                                                               *)

FindCandidateToSchedule(h, c, i) ==
    /\ Listed(c)
    /\ Start(h, "schedule",
             [NoCall EXCEPT !.pc = "findJob", !.of = c, !.job = candidate[c].job, !.index = i])

(* rounds[roundIndex], in ascending orderIndex; equal ones come in any order. *)
IsAt(r, i, list) ==
    /\ Cardinality({q \in list : q.order < r.order}) <= i
    /\ i < Cardinality({q \in list : q.order <= r.order})

(* The job may be gone, or have no round at that position just now. *)
FindJob(h) ==
    /\ call[h].pc = "findJob"
    /\ LET list == rounds[call[h].job]
           at == {r \in list : IsAt(r, call[h].index, list)} IN
       \/ at = {} /\ Return(h)
       \/ \E r \in at :
            /\ call' = [call EXCEPT ![h] = [@ EXCEPT !.pc = "findExisting", !.type = r.type]]
            /\ UNCHANGED requests
    /\ UNCHANGED rowVars

Position(h) == <<call[h].of, call[h].index>>

FindExisting(h) ==
    /\ call[h].pc = "findExisting"
    /\ IF interview[Position(h)] = None THEN Go(h, "insertInterview") ELSE Return(h)
    /\ UNCHANGED rowVars

InsertInterview_IgnoresConflict(h) ==
    /\ call[h].pc = "insertInterview"
    /\ IF Listed(call[h].of) /\ Posted(call[h].job)
       THEN /\ interview' = IF interview[Position(h)] # None THEN interview
                            ELSE [interview EXCEPT ![Position(h)] =
                              [job |-> call[h].job, type |-> call[h].type, by |-> h]]
            /\ Go(h, "readStage")
       ELSE Return(h) /\ UNCHANGED interview
    /\ UNCHANGED <<candidate, posted, skills, rounds, notes, told>>

(* The save fails if the candidate or the job is gone, or if another request   *)
(* has taken the position since findExisting.                                  *)
InsertInterview(h) ==
    /\ call[h].pc = "insertInterview"
    /\ IF interview[Position(h)] = None /\ Listed(call[h].of) /\ Posted(call[h].job)
       THEN /\ interview' = [interview EXCEPT ![Position(h)] =
                              [job |-> call[h].job, type |-> call[h].type, by |-> h]]
            /\ Go(h, "readStage")
       ELSE Return(h) /\ UNCHANGED interview
    /\ UNCHANGED <<candidate, posted, skills, rounds, notes, told>>

(* advanceStageIfForward *)
ReadStage(h) ==
    /\ call[h].pc = "readStage"
    /\ LET c == call[h].of  target == stageForRoundType(call[h].type) IN
       IF /\ Listed(c)
          /\ candidate[c].stage # "rejected"
          /\ Rank(target) > Rank(candidate[c].stage)
       THEN /\ call' = [call EXCEPT ![h] =
                         [@ EXCEPT !.pc = "advance", !.stage = target, !.seen = candidate[c].stage]]
            /\ UNCHANGED requests
       ELSE Go(h, "notify")
    /\ UNCHANGED rowVars

Advance(h) ==
    /\ call[h].pc = "advance"
    /\ LET c == call[h].of IN
       candidate' = IF Listed(c) THEN [candidate EXCEPT ![c] = [@ EXCEPT !.stage = call[h].stage]] ELSE candidate
    /\ Go(h, "notify")
    /\ UNCHANGED <<posted, skills, rounds, notes, interview, told>>

(* Only another interviewer than the recruiter, and only if the settings say so. *)
Notify(h) ==
    /\ call[h].pc = "notify"
    /\ \/ told' = told \cup {Position(h)}
       \/ UNCHANGED told
    /\ Return(h)
    /\ UNCHANGED <<candidate, posted, skills, rounds, notes, interview>>

--------------------------------------------------------------------------------

JobsRequest(h) ==
    \/ \E j \in Jobs, list \in RoundLists : CreateJob(h, j, list)
    \/ \E j \in Jobs, list \in RoundLists \cup {None}, s \in BOOLEAN : FindJobToUpdate(h, j, s, list)
    \/ DeleteSkills(h) \/ SaveSkills(h) \/ DeleteRounds(h) \/ SaveRounds(h)
    \/ \E j \in Jobs : RemoveJob(h, j)

CandidatesRequest(h) ==
    \/ \E c \in Candidates, j \in Jobs : AssertJobToCreate(h, c, j)
    \/ InsertCandidate(h)
    \/ \E c \in Candidates, j \in Jobs \cup {None}, s \in BOOLEAN :
          FindCandidateToUpdate(h, c, j, s)
    \/ AssertJob(h) \/ UpdateRow(h)
    \/ \E c \in Candidates, stage \in Targets, r \in BOOLEAN : FindToMove(h, c, stage, r)
    \/ WriteStage(h)
    \/ \E c \in Candidates : FindToNote(h, c)
    \/ InsertNote(h)
    \/ \E c \in Candidates : RemoveCandidate(h, c)

SchedulingRequest(h) ==
    \/ \E c \in Candidates, i \in Indexes : FindCandidateToSchedule(h, c, i)
    \/ FindJob(h) \/ FindExisting(h) \/ InsertInterview(h)
    \/ ReadStage(h) \/ Advance(h) \/ Notify(h)

Next ==
    \E h \in Handlers :
        JobsRequest(h) \/ CandidatesRequest(h) \/ SchedulingRequest(h) \/ Crash(h)

Spec == Init /\ [][Next]_vars

--------------------------------------------------------------------------------

(* "Only move forward" (candidate.entity.ts:17; candidates.service.ts:163): a  *)
(* candidate goes back a stage, or leaves rejected, only by the write of a     *)
(* request that had read the stage before another request changed it.  Nor     *)
(* does a candidate that is not rejected keep a reject reason otherwise.       *)
Overtaken(c) ==
    \E h \in Handlers : /\ call[h].pc \in {"writeStage", "advance"} /\ call'[h].pc # call[h].pc
                        /\ call[h].of = c /\ call[h].seen # candidate[c].stage
StageMovesForward ==
    [][\A c \in Candidates : Listed(c) /\ Listed(c)' =>
          \/ /\ Rank(candidate'[c].stage) >= Rank(candidate[c].stage)
             /\ candidate'[c].reason => candidate'[c].stage = "rejected" \/ candidate[c].reason
             /\ candidate[c].stage = "rejected" => candidate'[c].stage = "rejected"
          \/ Overtaken(c)]_vars

(* An update replaces the list of rounds or skills it was given (jobs.service  *)
(* .ts:174-199): after its save the list is exactly its own, unless another    *)
(* request saved the same list between its delete and its save.                *)
ListsAreReplaced ==
    [][\A h \in Handlers : call[h].pc # call'[h].pc /\ ~call[h].overtaken =>
          /\ call[h].pc = "saveSkills" /\ There(call[h].of)
                => skills'[call[h].of] \subseteq {h}
          /\ call[h].pc = "saveRounds" /\ There(call[h].of)
                => rounds'[call[h].of] \subseteq TemplatesOf(call[h].rounds, h)]_vars

(* One interview for a candidate and a round (interview.entity.ts:19): a row   *)
(* keeps its job, type and request until its candidate or its job is removed,  *)
(* and only the request that inserted it advances the candidate or notifies    *)
(* the interviewer, however many asked for that round at once.                 *)
ScheduledOnce ==
    [][/\ \A p \in Candidates \X Indexes : interview[p] # None /\ interview'[p] # interview[p] =>
             ~Listed(p[1])' \/ posted'[interview[p].job] # "there"
       /\ \A h \in Handlers :
             /\ call[h].pc \in {"advance", "notify"}
             /\ call'[h].pc # call[h].pc
             /\ interview[Position(h)] # None
             /\ interview[Position(h)].job = call[h].job
             => interview[Position(h)].by = h]_vars

================================================================================
