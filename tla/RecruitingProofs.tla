----------------------------- MODULE RecruitingProofs -----------------------------
(***************************************************************************)
(* What holds of Recruiting for any number of candidates, jobs, rounds and *)
(* requests in progress, which may die between any two database calls.     *)
(***************************************************************************)
EXTENDS Recruiting, SequenceTheorems, TLAPS

--------------------------------------------------------------------------------
(* Types.                                                                    *)

Scheduling == {"findJob", "findExisting", "insertInterview", "readStage", "advance", "notify"}

(* What a request knows of itself where it stands. *)
CallOK(c) ==
    /\ c.pc \in {"deleteSkills", "saveSkills"} =>
          c.of \in Owners /\ (c.rounds # None => c.of \in Jobs)
    /\ c.pc \in {"deleteRounds", "saveRounds"} => c.of \in Jobs /\ c.rounds \in RoundLists
    /\ c.pc \in {"insertCandidate", "assertJob", "updateRow"} =>
          c.of \in Candidates /\ c.job \in Jobs /\ c.rounds = None
    /\ c.pc \in {"writeStage", "insertNote"} => c.of \in Candidates
    /\ c.pc \in Scheduling => c.of \in Candidates /\ c.job \in Jobs /\ c.index \in Indexes
    /\ c.pc \in Scheduling \ {"findJob"} => c.type \in RoundTypes
    /\ c.pc \in {"writeStage", "advance"} => c.stage \in Stages /\ c.seen \in Stages
    /\ c.pc = "writeStage" => c.stage = "rejected" \/ Rank(c.stage) >= Rank(c.seen)
    /\ c.pc = "advance" => c.seen # "rejected" /\ Rank(c.stage) > Rank(c.seen)
CallsOK == \A h \in Handlers : CallOK(call[h])

IInv == TypeOK /\ CallsOK

(* A request is now c; of the others only the mark may have changed. *)
SameData(x, y) ==
    /\ x.of = y.of /\ x.job = y.job /\ x.stage = y.stage /\ x.seen = y.seen
    /\ x.reason = y.reason /\ x.skills = y.skills /\ x.rounds = y.rounds
    /\ x.index = y.index /\ x.type = y.type
SameButMark(x, y) == x.pc = y.pc /\ SameData(x, y)
Moves(h, c) ==
    /\ call' \in [Handlers -> Call] /\ requests' \in 0..MaxRequests
    /\ call'[h] = c
    /\ \A k \in Handlers \ {h} : SameButMark(call'[k], call[k])

RowsTyped ==
    /\ candidate \in [Candidates -> Row \cup {Never, Gone}]
    /\ posted \in [Jobs -> {"never", "there", "gone"}]
    /\ skills \in [Owners -> SUBSET Handlers]
    /\ rounds \in [Jobs -> SUBSET Template]
    /\ notes \subseteq Candidates
    /\ interview \in [Candidates \X Indexes -> InterviewRow \cup {None}]
    /\ told \subseteq Candidates \X Indexes

LEMMA RanksAre ==
    /\ Stages = {"applied", "screening", "interview", "hr_review", "offer", "hired", "rejected"}
    /\ \A s \in Stages : /\ Rank(s) \in Nat
                         /\ s = "rejected" <=> Rank(s) >= 99
  BY DEF Stages, Rank, CANDIDATE_STAGE_RANK

LEMMA NoCallOK == NoCall \in Call /\ NoCall.pc = "idle" /\ CallOK(NoCall)
  <1>1. NoCall \in Call
    BY DEF NoCall, Call, Pc
  <1>2. NoCall.pc = "idle"
    BY DEF NoCall
  <1> QED BY <1>1, <1>2 DEF CallOK, Scheduling

LEMMA StepOK ==
    ASSUME IInv, NEW h \in Handlers, NEW c, Moves(h, c), CallOK(c), RowsTyped'
    PROVE  IInv'
  <1>1. ASSUME NEW g \in Handlers PROVE CallOK(call'[g])
    <2>1. CASE g = h
      BY <2>1 DEF Moves
    <2>2. CASE g # h
      <3>1. CallOK(call[g]) /\ SameButMark(call'[g], call[g])
        BY <2>2 DEF IInv, CallsOK, Moves
      <3> QED BY <3>1 DEF CallOK, SameButMark, SameData
    <2> QED BY <2>1, <2>2
  <1>2. CallsOK'
    BY <1>1 DEF CallsOK
  <1> QED BY <1>2 DEF IInv, TypeOK, RowsTyped, Moves

(* The steps of one request. *)
LEMMA Moved ==
    ASSUME TypeOK, NEW h \in Handlers, NEW c \in Call, call' = [call EXCEPT ![h] = c],
           requests' \in 0..MaxRequests
    PROVE  Moves(h, c)
  BY DEF TypeOK, Moves, SameButMark, SameData

LEMMA CallHere ==
    ASSUME IInv, NEW h \in Handlers
    PROVE  call[h] \in Call /\ CallOK(call[h]) /\ TypeOK /\ RowsTyped
  BY DEF IInv, TypeOK, CallsOK, RowsTyped

LEMMA StartMoves ==
    ASSUME IInv, NEW h \in Handlers, NEW op, NEW c \in Call, Start(h, op, c)
    PROVE  Moves(h, c) /\ UNCHANGED rowVars
  <1>1. requests' \in 0..MaxRequests
    BY MaxRequestsAssumption DEF Start, Begin, IInv, TypeOK
  <1> QED BY <1>1, Moved DEF Start, IInv

LEMMA StartOK ==
    ASSUME IInv, NEW h \in Handlers, NEW op, NEW c \in Call, Start(h, op, c), CallOK(c)
    PROVE  IInv'
  <1>1. Moves(h, c) /\ UNCHANGED rowVars
    BY StartMoves
  <1>2. RowsTyped'
    BY <1>1, CallHere DEF RowsTyped, rowVars
  <1> QED BY <1>1, <1>2, StepOK

LEMMA ReturnMoves ==
    ASSUME IInv, NEW h \in Handlers, Return(h)
    PROVE  Moves(h, NoCall)
  BY NoCallOK, Moved DEF Return, IInv, TypeOK

(* Where a request goes on to. *)
Onward(h, pc) == [call[h] EXCEPT !.pc = pc]
LEMMA GoMoves ==
    ASSUME IInv, NEW h \in Handlers, NEW pc \in Pc, Go(h, pc)
    PROVE  /\ Moves(h, Onward(h, pc))
           /\ Onward(h, pc).pc = pc /\ SameData(Onward(h, pc), call[h])
  <1> DEFINE c == Onward(h, pc)
  <1>1. c \in Call /\ c.pc = pc
    BY CallHere DEF Call, Onward
  <1>2. call' = [call EXCEPT ![h] = c] /\ requests' \in 0..MaxRequests
    BY CallHere DEF Go, TypeOK, Onward
  <1>3. SameData(c, call[h])
    BY CallHere DEF SameData, Call, Onward
  <1> HIDE DEF c
  <1>4. Moves(h, c)
    BY <1>1, <1>2, Moved DEF IInv
  <1> QED BY <1>1, <1>3, <1>4 DEF c

LEMMA GoOK ==
    ASSUME IInv, NEW h \in Handlers, NEW pc \in Pc, Go(h, pc), RowsTyped',
           \A n : n.pc = pc /\ SameData(n, call[h]) => CallOK(n)
    PROVE  IInv'
  BY GoMoves, StepOK

LEMMA ReturnOK ==
    ASSUME IInv, NEW h \in Handlers, Return(h), RowsTyped'
    PROVE  IInv'
  BY ReturnMoves, NoCallOK, StepOK

(* A step that leaves the rows. *)
LEMMA RowsStay == ASSUME IInv, UNCHANGED rowVars PROVE RowsTyped'
  BY DEF IInv, TypeOK, RowsTyped, rowVars

--------------------------------------------------------------------------------
(* Requests that start.                                                      *)

LEMMA RequestsStart ==
    ASSUME IInv, NEW h \in Handlers,
           \/ \E j \in Jobs, list \in RoundLists \cup {None}, s \in BOOLEAN :
                 FindJobToUpdate(h, j, s, list)
           \/ \E c \in Candidates, j \in Jobs : AssertJobToCreate(h, c, j)
           \/ \E c \in Candidates, j \in Jobs \cup {None}, s \in BOOLEAN :
                 FindCandidateToUpdate(h, c, j, s)
           \/ \E c \in Candidates, stage \in Targets, r \in BOOLEAN : FindToMove(h, c, stage, r)
           \/ \E c \in Candidates : FindToNote(h, c)
           \/ \E c \in Candidates, i \in Indexes : FindCandidateToSchedule(h, c, i)
    PROVE  IInv'
  <1> USE NoCallOK
  <1>1. ASSUME NEW j \in Jobs, NEW list \in RoundLists \cup {None}, NEW s \in BOOLEAN,
               FindJobToUpdate(h, j, s, list)
        PROVE  IInv'
    <2> DEFINE pc == IF s THEN "deleteSkills" ELSE "deleteRounds"
               n == [NoCall EXCEPT !.pc = pc, !.of = j, !.skills = s, !.rounds = list]
    <2>1. n \in Call
      BY DEF Call, Pc, Owners
    <2>2. n.pc = pc /\ n.of = j /\ n.rounds = list
      BY DEF Call
    <2>3. (s \/ list # None) /\ Start(h, "updateJob", n)
      BY <1>1 DEF FindJobToUpdate
    <2> HIDE DEF n
    <2>4. CallOK(n)
      BY <2>2, <2>3 DEF CallOK, Owners, Scheduling
    <2> QED BY <2>1, <2>3, <2>4, StartOK
  <1>2. ASSUME NEW c \in Candidates, NEW j \in Jobs, AssertJobToCreate(h, c, j) PROVE IInv'
    <2> DEFINE n == [NoCall EXCEPT !.pc = "insertCandidate", !.of = c, !.job = j]
    <2>1. n \in Call
      BY DEF Call, Pc, Owners
    <2>2. n.pc = "insertCandidate" /\ n.of = c /\ n.job = j /\ n.rounds = None
      BY DEF Call, NoCall
    <2>3. Start(h, "createCandidate", n)
      BY <1>2 DEF AssertJobToCreate
    <2> HIDE DEF n
    <2>4. CallOK(n)
      BY <2>2 DEF CallOK, Scheduling
    <2> QED BY <2>1, <2>3, <2>4, StartOK
  <1>3. ASSUME NEW c \in Candidates, NEW j \in Jobs \cup {None}, NEW s \in BOOLEAN,
               FindCandidateToUpdate(h, c, j, s)
        PROVE  IInv'
    <2> DEFINE pc == IF j # None THEN "assertJob" ELSE "deleteSkills"
               n == [NoCall EXCEPT !.pc = pc, !.of = c, !.job = j, !.skills = s]
    <2>1. n \in Call
      BY DEF Call, Pc, Owners
    <2>2. n.pc = pc /\ n.of = c /\ n.job = j /\ n.rounds = None
      BY DEF Call, NoCall
    <2>3. Start(h, "updateCandidate", n)
      BY <1>3 DEF FindCandidateToUpdate
    <2> HIDE DEF n
    <2>4. CallOK(n)
      BY <2>2 DEF CallOK, Owners, Scheduling
    <2> QED BY <2>1, <2>3, <2>4, StartOK
  <1>4. ASSUME NEW c \in Candidates, NEW stage \in Targets, NEW r \in BOOLEAN,
               FindToMove(h, c, stage, r)
        PROVE  IInv'
    <2> DEFINE seen == candidate[c].stage
               n == [NoCall EXCEPT !.pc = "writeStage", !.of = c, !.stage = stage,
                                   !.seen = seen, !.reason = r]
    <2>0. stage \in Stages /\ seen \in Stages
      BY <1>4, TargetsAssumption DEF FindToMove, Listed, IInv, TypeOK, Row
    <2>1. n \in Call
      BY <2>0 DEF Call, Pc, Owners
    <2>2. n.pc = "writeStage" /\ n.of = c /\ n.stage = stage /\ n.seen = seen
      BY DEF Call
    <2>3. Start(h, "updateStage", n) /\ (stage = "rejected" \/ Rank(stage) >= Rank(seen))
      BY <1>4 DEF FindToMove
    <2> HIDE DEF n, seen
    <2>4. CallOK(n)
      BY <2>0, <2>2, <2>3 DEF CallOK, Scheduling
    <2> QED BY <2>1, <2>3, <2>4, StartOK
  <1>5. ASSUME NEW c \in Candidates, FindToNote(h, c) PROVE IInv'
    <2> DEFINE n == [NoCall EXCEPT !.pc = "insertNote", !.of = c]
    <2>1. n \in Call
      BY DEF Call, Pc, Owners
    <2>2. n.pc = "insertNote" /\ n.of = c
      BY DEF Call
    <2>3. Start(h, "addNote", n)
      BY <1>5 DEF FindToNote
    <2> HIDE DEF n
    <2>4. CallOK(n)
      BY <2>2 DEF CallOK, Scheduling
    <2> QED BY <2>1, <2>3, <2>4, StartOK
  <1>6. ASSUME NEW c \in Candidates, NEW i \in Indexes, FindCandidateToSchedule(h, c, i)
        PROVE  IInv'
    <2> DEFINE j == candidate[c].job
               n == [NoCall EXCEPT !.pc = "findJob", !.of = c, !.job = j, !.index = i]
    <2>0. j \in Jobs
      BY <1>6 DEF FindCandidateToSchedule, Listed, IInv, TypeOK, Row
    <2>1. n \in Call
      BY <2>0 DEF Call, Pc, Owners
    <2>2. n.pc = "findJob" /\ n.of = c /\ n.job = j /\ n.index = i
      BY DEF Call
    <2>3. Start(h, "schedule", n)
      BY <1>6 DEF FindCandidateToSchedule
    <2> HIDE DEF n, j
    <2>4. CallOK(n)
      BY <2>0, <2>2 DEF CallOK, Scheduling
    <2> QED BY <2>1, <2>3, <2>4, StartOK
  <1> QED BY <1>1, <1>2, <1>3, <1>4, <1>5, <1>6

--------------------------------------------------------------------------------
(* Requests that write, or go on.                                            *)

LEMMA AtOnceOK ==
    ASSUME IInv, NEW h \in Handlers, NEW op, Begin(h, op), UNCHANGED call, RowsTyped'
    PROVE  IInv'
  <1>1. requests' \in 0..MaxRequests
    BY MaxRequestsAssumption DEF Begin, IInv, TypeOK
  <1> QED BY <1>1 DEF IInv, TypeOK, RowsTyped, CallsOK

LEMMA OvertakeMoves ==
    ASSUME IInv, NEW h \in Handlers, NEW n \in Call, Overtake(h, n)
    PROVE  Moves(h, n)
  <1> DEFINE Mark(k) == call[k].overtaken
                        \/ (call[k].pc = call[h].pc /\ call[k].of = call[h].of)
  <1>1. call' = [k \in Handlers |->
                   IF k = h THEN n ELSE [call[k] EXCEPT !.overtaken = Mark(k)]]
    BY DEF Overtake
  <1>2. \A k \in Handlers : call[k] \in Call /\ Mark(k) \in BOOLEAN
    BY CallHere DEF Call
  <1>3. \A x \in Call, b \in BOOLEAN :
           [x EXCEPT !.overtaken = b] \in Call /\ SameButMark([x EXCEPT !.overtaken = b], x)
    BY DEF Call, SameButMark, SameData
  <1> HIDE DEF Mark
  <1>4. requests' \in 0..MaxRequests
    BY CallHere DEF Overtake, TypeOK
  <1> QED BY <1>1, <1>2, <1>3, <1>4 DEF Moves

LEMMA TemplatesType ==
    ASSUME NEW list \in RoundLists, NEW h \in Handlers
    PROVE  TemplatesOf(list, h) \subseteq Template
  <1> SUFFICES ASSUME NEW i \in DOMAIN list
               PROVE  [type |-> list[i].type, order |-> list[i].order, by |-> h, pos |-> i]
                          \in Template
    BY DEF TemplatesOf
  <1> DEFINE S == [type : RoundTypes, order : Nat]
  <1>1. list \in Seq(S)
    BY RoundListsAssumption
  <1>2. list[i] \in S /\ i \in Nat
    <2> HIDE DEF S
    <2> QED BY <1>1, LenProperties
  <1> QED BY <1>2 DEF Template

LEMMA CascadeType ==
    ASSUME IInv, NEW cs, NEW js, Cascade(cs, js)
    PROVE  RowsTyped' /\ UNCHANGED call
  BY CallHere DEF IInv, TypeOK, RowsTyped, Cascade

LEMMA JobsAreWritten ==
    ASSUME IInv, NEW h \in Handlers,
           \/ \E j \in Jobs, list \in RoundLists : CreateJob(h, j, list)
           \/ DeleteSkills(h) \/ SaveSkills(h) \/ DeleteRounds(h) \/ SaveRounds(h)
           \/ \E j \in Jobs : RemoveJob(h, j)
    PROVE  IInv'
  <1> DEFINE c == call[h]
  <1>0. c \in Call /\ CallOK(c) /\ RowsTyped
    BY CallHere
  <1>1. ASSUME NEW j \in Jobs, NEW list \in RoundLists, CreateJob(h, j, list) PROVE IInv'
    <2>1. RowsTyped'
      BY <1>0, <1>1, TemplatesType DEF CreateJob, RowsTyped, Owners
    <2> QED BY <1>1, <2>1, AtOnceOK DEF CreateJob
  <1>2. CASE DeleteSkills(h)
    <2>1. c.pc = "deleteSkills" /\ c.of \in Owners /\ Go(h, "saveSkills")
      BY <1>0, <1>2 DEF DeleteSkills, CallOK
    <2>2. RowsTyped'
      BY <1>0, <1>2, <2>1 DEF DeleteSkills, RowsTyped
    <2>3. \A n : n.pc = "saveSkills" /\ SameData(n, c) => CallOK(n)
      BY <1>0, <2>1 DEF CallOK, SameData, Scheduling
    <2> QED BY <2>1, <2>2, <2>3, GoOK DEF Pc
  <1>3. CASE SaveSkills(h)
    <2>0. c.pc = "saveSkills" /\ c.of \in Owners /\ (c.rounds # None => c.of \in Jobs)
      BY <1>0, <1>3 DEF SaveSkills, CallOK
    <2>1. RowsTyped'
      BY <1>0, <1>3, <2>0 DEF SaveSkills, RowsTyped
    <2>2. CASE Return(h)
      BY <2>1, <2>2, ReturnOK
    <2>3. CASE Overtake(h, NoCall)
      BY <2>1, <2>3, OvertakeMoves, NoCallOK, StepOK
    <2>4. CASE c.rounds # None /\ Overtake(h, [c EXCEPT !.pc = "deleteRounds", !.overtaken = FALSE])
      <3> DEFINE n == [c EXCEPT !.pc = "deleteRounds", !.overtaken = FALSE]
      <3>1. n \in Call
        BY <1>0 DEF Call, Pc
      <3>2. n.pc = "deleteRounds" /\ n.of = c.of /\ n.rounds = c.rounds
        BY <1>0 DEF Call
      <3>3. c.rounds \in RoundLists
        BY <1>0, <2>4 DEF Call
      <3>4. Overtake(h, n)
        BY <2>4
      <3> HIDE DEF n
      <3>5. CallOK(n)
        BY <2>0, <2>4, <3>2, <3>3 DEF CallOK, Scheduling
      <3> QED BY <2>1, <3>1, <3>4, <3>5, OvertakeMoves, StepOK
    <2> QED BY <1>3, <2>2, <2>3, <2>4 DEF SaveSkills
  <1>4. CASE DeleteRounds(h)
    <2>1. c.pc = "deleteRounds" /\ c.of \in Jobs /\ Go(h, "saveRounds")
      BY <1>0, <1>4 DEF DeleteRounds, CallOK
    <2>2. RowsTyped'
      BY <1>0, <1>4, <2>1 DEF DeleteRounds, RowsTyped
    <2>3. \A n : n.pc = "saveRounds" /\ SameData(n, c) => CallOK(n)
      BY <1>0, <2>1 DEF CallOK, SameData, Scheduling
    <2> QED BY <2>1, <2>2, <2>3, GoOK DEF Pc
  <1>5. CASE SaveRounds(h)
    <2>0. c.pc = "saveRounds" /\ c.of \in Jobs /\ c.rounds \in RoundLists
      BY <1>0, <1>5 DEF SaveRounds, CallOK
    <2>1. RowsTyped'
      BY <1>0, <1>5, <2>0, TemplatesType DEF SaveRounds, RowsTyped
    <2>2. CASE Return(h)
      BY <2>1, <2>2, ReturnOK
    <2>3. CASE Overtake(h, NoCall)
      BY <2>1, <2>3, OvertakeMoves, NoCallOK, StepOK
    <2> QED BY <1>5, <2>2, <2>3 DEF SaveRounds
  <1>6. ASSUME NEW j \in Jobs, RemoveJob(h, j) PROVE IInv'
    BY <1>6, CascadeType, AtOnceOK DEF RemoveJob
  <1> QED BY <1>1, <1>2, <1>3, <1>4, <1>5, <1>6

LEMMA CandidatesAreWritten ==
    ASSUME IInv, NEW h \in Handlers,
           \/ InsertCandidate(h) \/ AssertJob(h) \/ UpdateRow(h) \/ WriteStage(h) \/ InsertNote(h)
           \/ \E c \in Candidates : RemoveCandidate(h, c)
    PROVE  IInv'
  <1> DEFINE c == call[h]
             o == c.of
  <1>0. c \in Call /\ CallOK(c) /\ RowsTyped
    BY CallHere
  <1>1. CASE InsertCandidate(h)
    <2>1. o \in Candidates /\ c.job \in Jobs
      BY <1>0, <1>1 DEF InsertCandidate, CallOK
    <2> DEFINE x == [stage |-> "applied", job |-> c.job, reason |-> FALSE]
    <2>2. x \in Row
      BY <2>1, RanksAre DEF Row
    <2>3. /\ candidate' = candidate \/ candidate' = [candidate EXCEPT ![o] = x]
          /\ skills' = skills \/ skills' = [skills EXCEPT ![o] = {h}]
          /\ UNCHANGED <<posted, rounds, notes, interview, told>> /\ Return(h)
      BY <1>1 DEF InsertCandidate
    <2> HIDE DEF x
    <2>4. RowsTyped'
      BY <1>0, <2>1, <2>2, <2>3 DEF RowsTyped
    <2> QED BY <2>3, <2>4, ReturnOK
  <1>2. CASE AssertJob(h)
    <2>1. c.pc = "assertJob" /\ o \in Candidates /\ c.job \in Jobs /\ c.rounds = None
      BY <1>0, <1>2 DEF AssertJob, CallOK
    <2>2. \A n : n.pc = "updateRow" /\ SameData(n, c) => CallOK(n)
      BY <2>1 DEF CallOK, SameData, Scheduling
    <2>3. RowsTyped'
      BY <1>2, RowsStay DEF AssertJob
    <2> QED BY <1>2, <2>2, <2>3, GoOK, ReturnOK DEF AssertJob, Pc
  <1>3. CASE UpdateRow(h)
    <2>1. c.pc = "updateRow" /\ o \in Candidates /\ c.job \in Jobs /\ c.rounds = None
      BY <1>0, <1>3 DEF UpdateRow, CallOK
    <2>2. \A n : n.pc = "deleteSkills" /\ SameData(n, c) => CallOK(n)
      BY <2>1 DEF CallOK, SameData, Scheduling, Owners
    <2>3. RowsTyped'
      <3> DEFINE x == [candidate[o] EXCEPT !.job = c.job]
      <3>1. Listed(o) => x \in Row
        BY <1>0, <2>1 DEF RowsTyped, Listed, Row
      <3>2. candidate' = candidate \/ (Listed(o) /\ candidate' = [candidate EXCEPT ![o] = x])
        BY <1>0, <1>3, <2>1 DEF UpdateRow, RowsTyped
      <3> HIDE DEF x
      <3> QED BY <1>0, <1>3, <2>1, <3>1, <3>2 DEF UpdateRow, RowsTyped
    <2> QED BY <1>3, <2>2, <2>3, GoOK, ReturnOK DEF UpdateRow, Pc
  <1>4. CASE WriteStage(h)
    <2>1. o \in Candidates /\ c.stage \in Stages
      BY <1>0, <1>4 DEF WriteStage, CallOK
    <2> DEFINE b == c.stage = "rejected" /\ c.reason
               x == [candidate[o] EXCEPT !.stage = c.stage, !.reason = b]
    <2>2. b \in BOOLEAN
      BY <1>0 DEF Call
    <2>3. candidate' = candidate \/ (Listed(o) /\ candidate' = [candidate EXCEPT ![o] = x])
      BY <1>0, <1>4, <2>1 DEF WriteStage, RowsTyped
    <2> HIDE DEF b
    <2>4. Listed(o) => x \in Row
      BY <1>0, <2>1, <2>2 DEF RowsTyped, Listed, Row
    <2> HIDE DEF x
    <2>5. RowsTyped'
      BY <1>0, <1>4, <2>1, <2>3, <2>4 DEF WriteStage, RowsTyped
    <2> QED BY <1>4, <2>5, ReturnOK DEF WriteStage
  <1>5. CASE InsertNote(h)
    <2>1. o \in Candidates
      BY <1>0, <1>5 DEF InsertNote, CallOK
    <2>2. RowsTyped'
      BY <1>0, <1>5, <2>1 DEF InsertNote, RowsTyped
    <2> QED BY <1>5, <2>2, ReturnOK DEF InsertNote
  <1>6. ASSUME NEW d \in Candidates, RemoveCandidate(h, d) PROVE IInv'
    BY <1>6, CascadeType, AtOnceOK DEF RemoveCandidate
  <1> QED BY <1>1, <1>2, <1>3, <1>4, <1>5, <1>6

LEMMA StagesOfRounds == \A type \in RoundTypes : stageForRoundType(type) \in Stages
  BY RanksAre DEF RoundTypes, stageForRoundType

LEMMA InterviewsAreWritten ==
    ASSUME IInv, NEW h \in Handlers,
           \/ FindJob(h) \/ FindExisting(h) \/ InsertInterview(h) \/ ReadStage(h) \/ Advance(h)
           \/ Notify(h) \/ Crash(h)
    PROVE  IInv'
  <1> DEFINE c == call[h]
             o == c.of
  <1>0. c \in Call /\ CallOK(c) /\ RowsTyped /\ TypeOK
    BY CallHere
  <1>1. CASE FindJob(h)
    <2>1. c.pc = "findJob" /\ o \in Candidates /\ c.job \in Jobs /\ c.index \in Indexes
      BY <1>0, <1>1 DEF FindJob, CallOK, Scheduling
    <2>2. RowsTyped'
      BY <1>1, RowsStay DEF FindJob
    <2>3. CASE Return(h)
      BY <2>2, <2>3, ReturnOK
    <2>4. ASSUME NEW r \in rounds[c.job],
                 call' = [call EXCEPT ![h] = [c EXCEPT !.pc = "findExisting", !.type = r.type]],
                 UNCHANGED requests
          PROVE  IInv'
      <3> DEFINE n == [c EXCEPT !.pc = "findExisting", !.type = r.type]
      <3>1. r.type \in RoundTypes
        BY <1>0, <2>1 DEF RowsTyped, Template
      <3>2. n \in Call
        BY <1>0, <3>1 DEF Call, Pc
      <3>3. n.pc = "findExisting" /\ n.of = o /\ n.job = c.job /\ n.index = c.index /\ n.type = r.type
        BY <1>0 DEF Call
      <3>4. call' = [call EXCEPT ![h] = n] /\ requests' \in 0..MaxRequests
        BY <1>0, <2>4 DEF TypeOK
      <3> HIDE DEF n
      <3>5. CallOK(n)
        BY <2>1, <3>1, <3>3 DEF CallOK, Scheduling
      <3> QED BY <1>0, <2>2, <3>2, <3>4, <3>5, Moved, StepOK
    <2>5. \/ Return(h)
          \/ \E r \in rounds[c.job] :
                /\ call' = [call EXCEPT ![h] = [c EXCEPT !.pc = "findExisting", !.type = r.type]]
                /\ UNCHANGED requests
      BY <1>0, <1>1 DEF FindJob, TypeOK
    <2> QED BY <2>3, <2>4, <2>5
  <1>2. CASE FindExisting(h)
    <2>1. c.pc = "findExisting"
      BY <1>2 DEF FindExisting
    <2>2. \A n : n.pc = "insertInterview" /\ SameData(n, c) => CallOK(n)
      BY <1>0, <2>1 DEF CallOK, SameData, Scheduling
    <2>3. RowsTyped'
      BY <1>2, RowsStay DEF FindExisting
    <2> QED BY <1>2, <2>2, <2>3, GoOK, ReturnOK DEF FindExisting, Pc
  <1>3. CASE InsertInterview(h)
    <2>1. /\ c.pc = "insertInterview" /\ o \in Candidates /\ c.job \in Jobs /\ c.index \in Indexes
          /\ c.type \in RoundTypes
      BY <1>0, <1>3 DEF InsertInterview, CallOK, Scheduling
    <2> DEFINE x == [job |-> c.job, type |-> c.type, by |-> h]
               p == <<o, c.index>>
    <2>2. x \in InterviewRow /\ p \in Candidates \X Indexes
      BY <2>1 DEF InterviewRow
    <2>3. /\ interview' = interview \/ interview' = [interview EXCEPT ![p] = x]
          /\ UNCHANGED <<candidate, posted, skills, rounds, notes, told>>
      BY <1>3 DEF InsertInterview, Position
    <2> HIDE DEF x, p
    <2>4. RowsTyped'
      BY <1>0, <2>2, <2>3 DEF RowsTyped
    <2>5. \A n : n.pc = "readStage" /\ SameData(n, c) => CallOK(n)
      BY <1>0, <2>1 DEF CallOK, SameData, Scheduling
    <2> QED BY <1>3, <2>4, <2>5, GoOK, ReturnOK DEF InsertInterview, Pc
  <1>4. CASE ReadStage(h)
    <2>1. /\ c.pc = "readStage" /\ o \in Candidates /\ c.job \in Jobs /\ c.index \in Indexes
          /\ c.type \in RoundTypes
      BY <1>0, <1>4 DEF ReadStage, CallOK, Scheduling
    <2>2. RowsTyped'
      BY <1>4, RowsStay DEF ReadStage
    <2> DEFINE target == stageForRoundType(c.type)
               seen == candidate[o].stage
               n == [c EXCEPT !.pc = "advance", !.stage = target, !.seen = seen]
    <2>3. CASE Go(h, "notify")
      <3>1. \A k : k.pc = "notify" /\ SameData(k, c) => CallOK(k)
        BY <2>1 DEF CallOK, SameData, Scheduling
      <3> QED BY <2>2, <2>3, <3>1, GoOK DEF Pc
    <2>4. CASE /\ Listed(o) /\ seen # "rejected" /\ Rank(target) > Rank(seen)
               /\ call' = [call EXCEPT ![h] = n] /\ UNCHANGED requests
      <3>1. target \in Stages
        BY <2>1, StagesOfRounds
      <3>2. seen \in Stages
        BY <1>0, <2>1, <2>4 DEF RowsTyped, Listed, Row
      <3> HIDE DEF target, seen
      <3>3. n \in Call
        BY <1>0, <3>1, <3>2 DEF Call, Pc
      <3>4. /\ n.pc = "advance" /\ n.of = o /\ n.job = c.job /\ n.index = c.index
            /\ n.type = c.type /\ n.stage = target /\ n.seen = seen
        BY <1>0 DEF Call
      <3>5. call' = [call EXCEPT ![h] = n] /\ requests' \in 0..MaxRequests
        BY <1>0, <2>4 DEF TypeOK
      <3> HIDE DEF n
      <3>6. CallOK(n)
        BY <2>1, <2>4, <3>1, <3>2, <3>4 DEF CallOK, Scheduling
      <3> QED BY <1>0, <2>2, <3>3, <3>5, <3>6, Moved, StepOK
    <2> QED BY <1>0, <1>4, <2>3, <2>4 DEF ReadStage, TypeOK
  <1>5. CASE Advance(h)
    <2>1. /\ c.pc = "advance" /\ o \in Candidates /\ c.job \in Jobs /\ c.index \in Indexes
          /\ c.type \in RoundTypes /\ c.stage \in Stages
      BY <1>0, <1>5 DEF Advance, CallOK, Scheduling
    <2> DEFINE x == [candidate[o] EXCEPT !.stage = c.stage]
    <2>2. candidate' = candidate \/ (Listed(o) /\ candidate' = [candidate EXCEPT ![o] = x])
      BY <1>0, <1>5, <2>1 DEF Advance, RowsTyped
    <2>3. Listed(o) => x \in Row
      BY <1>0, <2>1 DEF RowsTyped, Listed, Row
    <2> HIDE DEF x
    <2>4. RowsTyped'
      BY <1>0, <1>5, <2>1, <2>2, <2>3 DEF Advance, RowsTyped
    <2>5. \A n : n.pc = "notify" /\ SameData(n, c) => CallOK(n)
      BY <2>1 DEF CallOK, SameData, Scheduling
    <2> QED BY <1>5, <2>4, <2>5, GoOK DEF Advance, Pc
  <1>6. CASE Notify(h)
    <2>1. o \in Candidates /\ c.index \in Indexes
      BY <1>0, <1>6 DEF Notify, CallOK, Scheduling
    <2>2. RowsTyped'
      BY <1>0, <1>6, <2>1 DEF Notify, RowsTyped, Position
    <2> QED BY <1>6, <2>2, ReturnOK DEF Notify
  <1>7. CASE Crash(h)
    BY <1>7, RowsStay, ReturnOK DEF Crash
  <1> QED BY <1>1, <1>2, <1>3, <1>4, <1>5, <1>6, <1>7

--------------------------------------------------------------------------------

LEMMA Initially == Init => IInv
  <1> SUFFICES ASSUME Init PROVE IInv
    OBVIOUS
  <1>1. TypeOK
    BY NoCallOK, MaxRequestsAssumption DEF Init, TypeOK
  <1>2. CallsOK
    BY NoCallOK DEF Init, CallsOK
  <1> QED BY <1>1, <1>2 DEF IInv

LEMMA EveryStep == IInv /\ [Next]_vars => IInv'
  <1> SUFFICES ASSUME IInv, [Next]_vars PROVE IInv'
    OBVIOUS
  <1>1. ASSUME NEW h \in Handlers, JobsRequest(h) PROVE IInv'
    BY <1>1, RequestsStart, JobsAreWritten DEF JobsRequest
  <1>2. ASSUME NEW h \in Handlers, CandidatesRequest(h) PROVE IInv'
    BY <1>2, RequestsStart, CandidatesAreWritten, JobsAreWritten DEF CandidatesRequest
  <1>3. ASSUME NEW h \in Handlers, SchedulingRequest(h) PROVE IInv'
    BY <1>3, RequestsStart, InterviewsAreWritten DEF SchedulingRequest
  <1>4. ASSUME NEW h \in Handlers, Crash(h) PROVE IInv'
    BY <1>4, InterviewsAreWritten
  <1>5. CASE UNCHANGED vars
    BY <1>5 DEF vars, IInv, TypeOK, CallsOK
  <1> QED BY <1>1, <1>2, <1>3, <1>4, <1>5 DEF Next

(* The types of the rows and of the requests, and what a request knows of the  *)
(* stages it is about to write.                                                *)
THEOREM Invariance == Spec => []IInv
  BY Initially, EveryStep, PTL DEF Spec

(* The rows, and the requests about them, keep their types: no request works   *)
(* on a row that was never there.                                              *)
THEOREM TypeCorrect == Spec => []TypeOK
  BY Invariance, PTL DEF IInv

--------------------------------------------------------------------------------
(* Where a request goes, and what it is about.                               *)

Missing(o) == IF o \in Jobs THEN posted[o] = "never" ELSE candidate[o] = Never

(* The request starts on rows that are there. *)
Starts(h) ==
    /\ call[h].pc = "idle"
    /\ call'[h].pc \in {"deleteSkills", "deleteRounds", "assertJob", "writeStage", "insertNote", "findJob"}
    /\ call'[h].of \in Owners /\ ~Missing(call'[h].of)
StartsCreating(h) ==
    /\ call[h].pc = "idle" /\ call'[h].pc = "insertCandidate"
    /\ call'[h].of \in Candidates /\ candidate[call'[h].of] = Never
    /\ \A k \in Handlers : call[k].pc = "insertCandidate" => call[k].of # call'[h].of
GoesOn(h) ==
    /\ call[h].pc \notin {"idle", "insertCandidate"} /\ call'[h].pc \notin {"idle", "insertCandidate"}
    /\ call'[h].of = call[h].of /\ call'[h].job = call[h].job /\ call'[h].index = call[h].index
    /\ call'[h].pc = "saveSkills" => DeleteSkills(h)
    /\ call'[h].pc = "saveRounds" => DeleteRounds(h)
    /\ call'[h].pc = "readStage" => InsertInterview(h)
    /\ call'[h].pc \in {"advance", "notify"} => call[h].pc \in {"readStage", "advance"}
Control(h) ==
    /\ \A k \in Handlers \ {h} : SameButMark(call'[k], call[k])
                                  /\ (call[k].overtaken => call'[k].overtaken)
    /\ UNCHANGED call \/ call'[h].pc = "idle" \/ Starts(h) \/ StartsCreating(h) \/ GoesOn(h)

LEMMA ControlStarts ==
    ASSUME IInv, NEW h \in Handlers,
           \/ \E j \in Jobs, list \in RoundLists \cup {None}, s \in BOOLEAN :
                 FindJobToUpdate(h, j, s, list)
           \/ \E c \in Candidates, j \in Jobs : AssertJobToCreate(h, c, j)
           \/ \E c \in Candidates, j \in Jobs \cup {None}, s \in BOOLEAN :
                 FindCandidateToUpdate(h, c, j, s)
           \/ \E c \in Candidates, stage \in Targets, r \in BOOLEAN : FindToMove(h, c, stage, r)
           \/ \E c \in Candidates : FindToNote(h, c)
           \/ \E c \in Candidates, i \in Indexes : FindCandidateToSchedule(h, c, i)
    PROVE  Control(h)
  <1> USE NoCallOK, OwnersAssumption DEF Owners
  <1>0. TypeOK
    BY DEF IInv
  <1>1. ASSUME NEW op, NEW n, Start(h, op, n)
        PROVE  /\ call'[h] = n /\ call[h].pc = "idle"
               /\ \A k \in Handlers \ {h} : SameButMark(call'[k], call[k])
                                             /\ (call[k].overtaken => call'[k].overtaken)
    BY <1>0, <1>1 DEF Start, Begin, TypeOK, SameButMark, SameData
  <1>2. ASSUME NEW j \in Jobs, NEW list \in RoundLists \cup {None}, NEW s \in BOOLEAN,
               FindJobToUpdate(h, j, s, list)
        PROVE  Control(h)
    <2> DEFINE pc == IF s THEN "deleteSkills" ELSE "deleteRounds"
               n == [NoCall EXCEPT !.pc = pc, !.of = j, !.skills = s, !.rounds = list]
    <2>1. n.pc = pc /\ n.of = j
      BY DEF Call
    <2>2. posted[j] = "there" /\ Start(h, "updateJob", n)
      BY <1>2 DEF FindJobToUpdate, Posted
    <2> HIDE DEF n
    <2> QED BY <1>1, <2>1, <2>2 DEF Control, Starts, Missing
  <1>3. ASSUME NEW c \in Candidates, NEW j \in Jobs, AssertJobToCreate(h, c, j) PROVE Control(h)
    <2> DEFINE n == [NoCall EXCEPT !.pc = "insertCandidate", !.of = c, !.job = j]
    <2>1. n.pc = "insertCandidate" /\ n.of = c
      BY DEF Call
    <2>2. Start(h, "createCandidate", n)
      BY <1>3 DEF AssertJobToCreate
    <2> HIDE DEF n
    <2> QED BY <1>1, <1>3, <2>1, <2>2 DEF Control, StartsCreating, AssertJobToCreate
  <1>4. ASSUME NEW c \in Candidates, NEW j \in Jobs \cup {None}, NEW s \in BOOLEAN,
               FindCandidateToUpdate(h, c, j, s)
        PROVE  Control(h)
    <2> DEFINE pc == IF j # None THEN "assertJob" ELSE "deleteSkills"
               n == [NoCall EXCEPT !.pc = pc, !.of = c, !.job = j, !.skills = s]
    <2>1. n.pc = pc /\ n.of = c
      BY DEF Call
    <2>2. candidate[c] # Never /\ Start(h, "updateCandidate", n)
      BY <1>4 DEF FindCandidateToUpdate, Listed
    <2> HIDE DEF n
    <2> QED BY <1>1, <2>1, <2>2 DEF Control, Starts, Missing
  <1>5. ASSUME NEW c \in Candidates, NEW stage \in Targets, NEW r \in BOOLEAN,
               FindToMove(h, c, stage, r)
        PROVE  Control(h)
    <2> DEFINE n == [NoCall EXCEPT !.pc = "writeStage", !.of = c, !.stage = stage,
                                   !.seen = candidate[c].stage, !.reason = r]
    <2>1. n.pc = "writeStage" /\ n.of = c
      BY DEF Call
    <2>2. candidate[c] # Never /\ Start(h, "updateStage", n)
      BY <1>5 DEF FindToMove, Listed
    <2> HIDE DEF n
    <2> QED BY <1>1, <2>1, <2>2 DEF Control, Starts, Missing
  <1>6. ASSUME NEW c \in Candidates, FindToNote(h, c) PROVE Control(h)
    <2> DEFINE n == [NoCall EXCEPT !.pc = "insertNote", !.of = c]
    <2>1. n.pc = "insertNote" /\ n.of = c
      BY DEF Call
    <2>2. candidate[c] # Never /\ Start(h, "addNote", n)
      BY <1>6 DEF FindToNote, Listed
    <2> HIDE DEF n
    <2> QED BY <1>1, <2>1, <2>2 DEF Control, Starts, Missing
  <1>7. ASSUME NEW c \in Candidates, NEW i \in Indexes, FindCandidateToSchedule(h, c, i)
        PROVE  Control(h)
    <2> DEFINE n == [NoCall EXCEPT !.pc = "findJob", !.of = c, !.job = candidate[c].job, !.index = i]
    <2>1. n.pc = "findJob" /\ n.of = c
      BY DEF Call
    <2>2. candidate[c] # Never /\ Start(h, "schedule", n)
      BY <1>7 DEF FindCandidateToSchedule, Listed
    <2> HIDE DEF n
    <2> QED BY <1>1, <2>1, <2>2 DEF Control, Starts, Missing
  <1> QED BY <1>2, <1>3, <1>4, <1>5, <1>6, <1>7

(* Of the other requests nothing changes, or they are marked. *)
OthersStay(h) ==
    \A k \in Handlers \ {h} : SameButMark(call'[k], call[k]) /\ (call[k].overtaken => call'[k].overtaken)

LEMMA OthersAfterUpdate ==
    ASSUME TypeOK, NEW h \in Handlers, NEW n, call' = [call EXCEPT ![h] = n]
    PROVE  OthersStay(h) /\ call'[h] = n
  BY DEF TypeOK, OthersStay, SameButMark, SameData

LEMMA ControlReturn ==
    ASSUME IInv, NEW h \in Handlers, Return(h)
    PROVE  Control(h) /\ call'[h].pc = "idle"
  <1>1. OthersStay(h) /\ call'[h] = NoCall
    BY OthersAfterUpdate DEF Return, IInv
  <1> QED BY <1>1, NoCallOK DEF OthersStay, Control

LEMMA ControlGo ==
    ASSUME IInv, NEW h \in Handlers, NEW pc \in Pc, Go(h, pc)
    PROVE  OthersStay(h) /\ call'[h].pc = pc /\ SameData(call'[h], call[h])
  <1>1. OthersStay(h) /\ call'[h] = Onward(h, pc)
    BY OthersAfterUpdate DEF Go, IInv, Onward
  <1> QED BY <1>1, GoMoves

LEMMA ControlOvertake ==
    ASSUME IInv, NEW h \in Handlers, NEW n, Overtake(h, n)
    PROVE  /\ OthersStay(h) /\ call'[h] = n
           /\ \A k \in Handlers \ {h} :
                 call[k].pc = call[h].pc /\ call[k].of = call[h].of => call'[k].overtaken
  <1> DEFINE Mark(k) == call[k].overtaken
                        \/ (call[k].pc = call[h].pc /\ call[k].of = call[h].of)
  <1>1. call' = [k \in Handlers |->
                   IF k = h THEN n ELSE [call[k] EXCEPT !.overtaken = Mark(k)]]
    BY DEF Overtake
  <1>2. \A k \in Handlers : call[k] \in Call /\ Mark(k) \in BOOLEAN
    BY CallHere DEF Call
  <1>3. \A x \in Call, b \in BOOLEAN :
           SameButMark([x EXCEPT !.overtaken = b], x) /\ [x EXCEPT !.overtaken = b].overtaken = b
    BY DEF Call, SameButMark, SameData
  <1>4. \A k \in Handlers \ {h} : SameButMark(call'[k], call[k]) /\ call'[k].overtaken = Mark(k)
    <2> HIDE DEF Mark
    <2> QED BY <1>1, <1>2, <1>3
  <1> QED BY <1>1, <1>4 DEF OthersStay

LEMMA ControlWrites ==
    ASSUME IInv, NEW h \in Handlers,
           \/ \E j \in Jobs, list \in RoundLists : CreateJob(h, j, list)
           \/ DeleteSkills(h) \/ SaveSkills(h) \/ DeleteRounds(h) \/ SaveRounds(h)
           \/ \E j \in Jobs : RemoveJob(h, j)
           \/ InsertCandidate(h) \/ AssertJob(h) \/ UpdateRow(h) \/ WriteStage(h) \/ InsertNote(h)
           \/ \E c \in Candidates : RemoveCandidate(h, c)
           \/ FindJob(h) \/ FindExisting(h) \/ InsertInterview(h) \/ ReadStage(h) \/ Advance(h)
           \/ Notify(h) \/ Crash(h)
    PROVE  Control(h)
  <1> DEFINE c == call[h]
  <1>0. c \in Call
    BY CallHere
  <1>1. CASE UNCHANGED call
    BY <1>1 DEF Control, SameButMark, SameData
  <1>2. CASE Return(h)
    BY <1>2, ControlReturn
  <1>3. CASE Overtake(h, NoCall)
    BY <1>3, ControlOvertake, NoCallOK DEF OthersStay, Control
  <1>4. ASSUME NEW pc \in Pc, Go(h, pc),
               c.pc \notin {"idle", "insertCandidate"}, pc \notin {"idle", "insertCandidate"},
               pc = "saveSkills" => DeleteSkills(h),
               pc = "saveRounds" => DeleteRounds(h),
               pc = "readStage" => InsertInterview(h),
               pc \in {"advance", "notify"} => c.pc \in {"readStage", "advance"}
        PROVE  Control(h)
    BY <1>4, ControlGo DEF OthersStay, Control, GoesOn, SameData
  <1>5. CASE SaveSkills(h)
    <2>1. CASE c.rounds # None /\ Overtake(h, [c EXCEPT !.pc = "deleteRounds", !.overtaken = FALSE])
      <3> DEFINE n == [c EXCEPT !.pc = "deleteRounds", !.overtaken = FALSE]
      <3>1. n.pc = "deleteRounds" /\ n.of = c.of /\ n.job = c.job /\ n.index = c.index
        BY <1>0 DEF Call
      <3>2. Overtake(h, n)
        BY <2>1
      <3> HIDE DEF n
      <3>3. OthersStay(h) /\ call'[h] = n
        BY <3>2, ControlOvertake
      <3> QED BY <1>5, <3>1, <3>3 DEF OthersStay, Control, GoesOn, SaveSkills
    <2> QED BY <1>2, <1>3, <1>5, <2>1 DEF SaveSkills
  <1>6. CASE FindJob(h)
    <2>1. ASSUME NEW r, call' = [call EXCEPT ![h] = [c EXCEPT !.pc = "findExisting", !.type = r]]
          PROVE  Control(h)
      <3> DEFINE n == [c EXCEPT !.pc = "findExisting", !.type = r]
      <3>1. n.pc = "findExisting" /\ n.of = c.of /\ n.job = c.job /\ n.index = c.index
        BY <1>0 DEF Call
      <3>2. OthersStay(h) /\ call'[h] = n
        BY <2>1, OthersAfterUpdate DEF IInv
      <3> HIDE DEF n
      <3> QED BY <1>6, <3>1, <3>2 DEF OthersStay, Control, GoesOn, FindJob
    <2>2. \/ Return(h)
          \/ \E r \in rounds[c.job] :
                call' = [call EXCEPT ![h] = [c EXCEPT !.pc = "findExisting", !.type = r.type]]
      BY <1>6, CallHere DEF FindJob, TypeOK
    <2> QED BY <1>2, <2>1, <2>2
  <1>7. CASE ReadStage(h)
    <2> DEFINE target == stageForRoundType(c.type)
               seen == candidate[c.of].stage
               n == [c EXCEPT !.pc = "advance", !.stage = target, !.seen = seen]
    <2>1. CASE Go(h, "notify")
      BY <1>4, <1>7, <2>1 DEF ReadStage, Pc
    <2>2. CASE call' = [call EXCEPT ![h] = n]
      <3>1. n.pc = "advance" /\ n.of = c.of /\ n.job = c.job /\ n.index = c.index
        BY <1>0 DEF Call
      <3>2. OthersStay(h) /\ call'[h] = n
        BY <2>2, OthersAfterUpdate DEF IInv
      <3> HIDE DEF n
      <3> QED BY <1>7, <3>1, <3>2 DEF OthersStay, Control, GoesOn, ReadStage
    <2> QED BY <1>7, <2>1, <2>2, CallHere DEF ReadStage, TypeOK
  <1>8. ASSUME \/ \E j \in Jobs, list \in RoundLists : CreateJob(h, j, list)
               \/ \E j \in Jobs : RemoveJob(h, j)
               \/ \E d \in Candidates : RemoveCandidate(h, d)
        PROVE  Control(h)
    BY <1>1, <1>8 DEF CreateJob, RemoveJob, RemoveCandidate, Cascade
  <1>9. ASSUME \/ InsertCandidate(h) \/ WriteStage(h) \/ InsertNote(h) \/ Notify(h) \/ Crash(h)
               \/ SaveRounds(h)
        PROVE  Control(h)
    BY <1>2, <1>3, <1>9 DEF InsertCandidate, WriteStage, InsertNote, Notify, Crash, SaveRounds
  <1>10. CASE DeleteSkills(h) \/ DeleteRounds(h) \/ Advance(h)
    BY <1>4, <1>10 DEF DeleteSkills, DeleteRounds, Advance, Pc
  <1>11. CASE AssertJob(h) \/ UpdateRow(h) \/ FindExisting(h) \/ InsertInterview(h)
    BY <1>2, <1>4, <1>11 DEF AssertJob, UpdateRow, FindExisting, InsertInterview, Pc
  <1> QED BY <1>5, <1>6, <1>7, <1>8, <1>9, <1>10, <1>11

LEMMA EveryRequest ==
    ASSUME IInv, NEW h \in Handlers,
           JobsRequest(h) \/ CandidatesRequest(h) \/ SchedulingRequest(h) \/ Crash(h)
    PROVE  Control(h)
  <1>1. CASE JobsRequest(h)
    BY <1>1, ControlStarts, ControlWrites DEF JobsRequest
  <1>2. CASE CandidatesRequest(h)
    <2>1. CASE \/ InsertCandidate(h) \/ AssertJob(h) \/ UpdateRow(h) \/ WriteStage(h)
               \/ InsertNote(h) \/ \E c \in Candidates : RemoveCandidate(h, c)
      BY <2>1, ControlWrites
    <2> QED BY <1>2, <2>1, ControlStarts DEF CandidatesRequest
  <1>3. CASE SchedulingRequest(h)
    BY <1>3, ControlStarts, ControlWrites DEF SchedulingRequest
  <1>4. CASE Crash(h)
    BY <1>4, ControlWrites
  <1> QED BY <1>1, <1>2, <1>3, <1>4

--------------------------------------------------------------------------------
(* What a request does to the rows.                                          *)

OnCandidates(h) ==
    \A c \in Candidates :
        \/ candidate'[c] = candidate[c]
        \/ Listed(c) /\ candidate'[c] = Gone
        \/ /\ call[h].pc = "insertCandidate" /\ call[h].of = c /\ call'[h].pc = "idle"
           /\ candidate'[c] \in Row
        \/ /\ Listed(c) /\ candidate'[c] \in Row
           /\ candidate'[c].stage = candidate[c].stage /\ candidate'[c].reason = candidate[c].reason
        \/ /\ Listed(c) /\ candidate'[c] \in Row
           /\ call[h].pc \in {"writeStage", "advance"} /\ call[h].of = c
           /\ call'[h].pc # call[h].pc
           /\ candidate'[c].stage = call[h].stage
           /\ candidate'[c].reason => candidate'[c].stage = "rejected" \/ candidate[c].reason
OnJobs ==
    \A j \in Jobs : \/ posted'[j] = posted[j]
                    \/ posted[j] = "never" /\ posted'[j] = "there"
                    \/ posted[j] = "there" /\ posted'[j] = "gone"
OnSkills(h) ==
    \A o \in Owners :
        \/ skills'[o] \subseteq skills[o]
        \/ Missing(o)
        \/ o \in Candidates /\ call[h].pc = "insertCandidate" /\ call[h].of = o
        \/ /\ call[h].pc = "saveSkills" /\ call[h].of = o /\ call'[h].pc # "saveSkills"
           /\ skills'[o] \subseteq skills[o] \cup {h}
           /\ \A k \in Handlers \ {h} : call[k].pc = "saveSkills" /\ call[k].of = o => call'[k].overtaken
OnRounds(h) ==
    \A j \in Jobs :
        \/ rounds'[j] \subseteq rounds[j]
        \/ Missing(j)
        \/ /\ call[h].pc = "saveRounds" /\ call[h].of = j /\ call'[h].pc # "saveRounds"
           /\ rounds'[j] \subseteq rounds[j] \cup TemplatesOf(call[h].rounds, h)
           /\ \A k \in Handlers \ {h} : call[k].pc = "saveRounds" /\ call[k].of = j => call'[k].overtaken

(* An interview stays with its candidate and its job, and goes with either. *)
OnInterviews(h) ==
    \A p \in Candidates \X Indexes :
        \/ /\ interview'[p] = interview[p]
           /\ interview[p] # None =>
                /\ Listed(p[1]) => candidate'[p[1]] \notin {Never, Gone}
                /\ Posted(interview[p].job) => posted'[interview[p].job] = "there"
        \/ /\ interview[p] # None /\ interview'[p] = None
           /\ candidate'[p[1]] = Gone \/ posted'[interview[p].job] = "gone"
        \/ /\ call[h].pc = "insertInterview" /\ p = Position(h)
           /\ interview[p] = None /\ interview'[p] # None
           /\ interview'[p].job = call[h].job /\ interview'[p].by = h
           /\ candidate'[p[1]] \notin {Never, Gone} /\ posted'[call[h].job] = "there"
OnRows(h) == OnCandidates(h) /\ OnJobs /\ OnSkills(h) /\ OnRounds(h) /\ OnInterviews(h)

LEMMA RowsUntouched ==
    ASSUME NEW h \in Handlers
    PROVE  /\ UNCHANGED candidate => OnCandidates(h)
           /\ UNCHANGED posted => OnJobs
           /\ UNCHANGED skills => OnSkills(h)
           /\ UNCHANGED rounds => OnRounds(h)
           /\ UNCHANGED <<candidate, posted, interview>> => OnInterviews(h)
  BY DEF OnCandidates, OnJobs, OnSkills, OnRounds, OnInterviews, Listed, Posted

LEMMA CascadeRows ==
    ASSUME IInv, NEW h \in Handlers,
           \/ \E j \in Jobs : RemoveJob(h, j)
           \/ \E c \in Candidates : RemoveCandidate(h, c)
    PROVE  OnRows(h)
  <1>0. RowsTyped
    BY CallHere
  <1>1. ASSUME NEW cs \in SUBSET Candidates, NEW js \in SUBSET Jobs, Cascade(cs, js),
               \A c \in cs : Listed(c), \A j \in js : Posted(j)
        PROVE  OnRows(h)
    <2>1. OnCandidates(h)
      BY <1>0, <1>1 DEF Cascade, OnCandidates
    <2>2. OnJobs
      BY <1>0, <1>1 DEF Cascade, OnJobs, Posted
    <2>3. OnSkills(h)
      BY <1>0, <1>1 DEF Cascade, OnSkills
    <2>4. OnRounds(h)
      BY <1>0, <1>1 DEF Cascade, OnRounds
    <2>5. ASSUME NEW p \in Candidates \X Indexes
          PROVE  \/ /\ interview'[p] = interview[p]
                    /\ interview[p] # None =>
                         /\ Listed(p[1]) => candidate'[p[1]] \notin {Never, Gone}
                         /\ Posted(interview[p].job) => posted'[interview[p].job] = "there"
                 \/ /\ interview[p] # None /\ interview'[p] = None
                    /\ candidate'[p[1]] = Gone \/ posted'[interview[p].job] = "gone"
      <3>1. p[1] \in Candidates /\ (interview[p] # None => interview[p].job \in Jobs)
        BY <1>0 DEF RowsTyped, InterviewRow
      <3>2. CASE p[1] \in cs \/ (interview[p] # None /\ interview[p].job \in js)
        BY <1>1, <3>1, <3>2 DEF Cascade
      <3>3. CASE ~(p[1] \in cs \/ (interview[p] # None /\ interview[p].job \in js))
        BY <1>1, <3>1, <3>3 DEF Cascade, Listed, Posted
      <3> QED BY <3>2, <3>3
    <2>6. OnInterviews(h)
      BY <2>5 DEF OnInterviews
    <2> QED BY <2>1, <2>2, <2>3, <2>4, <2>6 DEF OnRows
  <1>2. ASSUME NEW j \in Jobs, RemoveJob(h, j) PROVE OnRows(h)
    <2> DEFINE cs == {c \in Candidates : Listed(c) /\ candidate[c].job = j}
    <2>1. cs \in SUBSET Candidates /\ \A c \in cs : Listed(c)
      OBVIOUS
    <2>2. Cascade(cs, {j}) /\ Posted(j)
      BY <1>2 DEF RemoveJob
    <2> HIDE DEF cs
    <2> QED BY <1>1, <2>1, <2>2
  <1>3. ASSUME NEW c \in Candidates, RemoveCandidate(h, c) PROVE OnRows(h)
    BY <1>1, <1>3 DEF RemoveCandidate
  <1> QED BY <1>2, <1>3

LEMMA JobRows ==
    ASSUME IInv, NEW h \in Handlers,
           \/ \E j \in Jobs, list \in RoundLists : CreateJob(h, j, list)
           \/ DeleteSkills(h) \/ SaveSkills(h) \/ DeleteRounds(h) \/ SaveRounds(h)
    PROVE  OnRows(h)
  <1> DEFINE c == call[h]
  <1>0. c \in Call /\ CallOK(c) /\ RowsTyped
    BY CallHere
  <1> USE RowsUntouched DEF OnRows
  <1>1. ASSUME NEW j \in Jobs, NEW list \in RoundLists, CreateJob(h, j, list) PROVE OnRows(h)
    <2>1. OnJobs
      BY <1>0, <1>1 DEF CreateJob, OnJobs, RowsTyped
    <2>2. OnSkills(h) /\ OnRounds(h)
      BY <1>0, <1>1 DEF CreateJob, OnSkills, OnRounds, RowsTyped, Missing
    <2>3. ASSUME NEW p \in Candidates \X Indexes
          PROVE  interview[p] # None /\ Posted(interview[p].job) => posted'[interview[p].job] = "there"
      BY <1>0, <1>1 DEF CreateJob, RowsTyped, InterviewRow, Posted
    <2>4. UNCHANGED <<candidate, interview>>
      BY <1>1 DEF CreateJob
    <2>5. OnInterviews(h)
      BY <2>3, <2>4 DEF OnInterviews, Listed
    <2> QED BY <2>1, <2>2, <2>4, <2>5
  <1>2. CASE DeleteSkills(h)
    <2>1. OnSkills(h)
      BY <1>0, <1>2 DEF DeleteSkills, OnSkills, RowsTyped
    <2> QED BY <1>2, <2>1 DEF DeleteSkills
  <1>3. CASE SaveSkills(h)
    <2>0. c.pc = "saveSkills" /\ c.of \in Owners
      BY <1>0, <1>3 DEF SaveSkills, CallOK
    <2>1. CASE UNCHANGED skills
      BY <1>3, <2>1 DEF SaveSkills
    <2>2. ASSUME NEW n, Overtake(h, n), n.pc # "saveSkills",
                 skills' = [skills EXCEPT ![c.of] = @ \cup {h}]
          PROVE  OnSkills(h)
      <3>1. /\ call'[h].pc # "saveSkills"
            /\ \A k \in Handlers \ {h} :
                  call[k].pc = "saveSkills" /\ call[k].of = c.of => call'[k].overtaken
        BY <2>0, <2>2, ControlOvertake
      <3>2. \A o \in Owners : IF o = c.of THEN skills'[o] = skills[o] \cup {h} ELSE skills'[o] = skills[o]
        BY <1>0, <2>2 DEF RowsTyped
      <3> QED BY <2>0, <3>1, <3>2 DEF OnSkills
    <2>3. CASE skills' # skills
      <3> DEFINE n == IF c.rounds = None THEN NoCall
                      ELSE [c EXCEPT !.pc = "deleteRounds", !.overtaken = FALSE]
      <3>1. n.pc # "saveSkills"
        BY <1>0, NoCallOK DEF Call
      <3>2. Overtake(h, n) /\ skills' = [skills EXCEPT ![c.of] = @ \cup {h}]
        BY <1>3, <2>3 DEF SaveSkills
      <3> HIDE DEF n
      <3> QED BY <1>3, <2>2, <3>1, <3>2 DEF SaveSkills
    <2> QED BY <2>1, <2>3
  <1>4. CASE DeleteRounds(h)
    <2>1. OnRounds(h)
      BY <1>0, <1>4 DEF DeleteRounds, OnRounds, RowsTyped
    <2> QED BY <1>4, <2>1 DEF DeleteRounds
  <1>5. CASE SaveRounds(h)
    <2>0. c.pc = "saveRounds" /\ c.of \in Jobs
      BY <1>0, <1>5 DEF SaveRounds, CallOK
    <2>1. CASE UNCHANGED rounds
      BY <1>5, <2>1 DEF SaveRounds
    <2>2. CASE rounds' # rounds
      <3> DEFINE new == TemplatesOf(c.rounds, h)
      <3>1. Overtake(h, NoCall) /\ rounds' = [rounds EXCEPT ![c.of] = @ \cup new]
        BY <1>5, <2>2 DEF SaveRounds
      <3> HIDE DEF new
      <3>2. /\ call'[h].pc # "saveRounds"
            /\ \A k \in Handlers \ {h} :
                  call[k].pc = "saveRounds" /\ call[k].of = c.of => call'[k].overtaken
        BY <2>0, <3>1, ControlOvertake, NoCallOK
      <3>3. \A j \in Jobs : IF j = c.of THEN rounds'[j] = rounds[j] \cup new ELSE rounds'[j] = rounds[j]
        BY <1>0, <3>1 DEF RowsTyped
      <3>4. OnRounds(h)
        BY <2>0, <3>2, <3>3 DEF OnRounds, new
      <3> QED BY <1>5, <3>4 DEF SaveRounds
    <2> QED BY <2>1, <2>2
  <1> QED BY <1>1, <1>2, <1>3, <1>4, <1>5

LEMMA CandidateRows ==
    ASSUME IInv, NEW h \in Handlers,
           InsertCandidate(h) \/ AssertJob(h) \/ UpdateRow(h) \/ WriteStage(h) \/ InsertNote(h)
    PROVE  OnRows(h)
  <1> DEFINE c == call[h]
             o == c.of
  <1>0. c \in Call /\ CallOK(c) /\ RowsTyped
    BY CallHere
  <1> USE RowsUntouched DEF OnRows
  (* A candidate is written: its interviews stay, for it is still listed. *)
  <1>1. ASSUME NEW x \in Row, o \in Candidates, candidate' = [candidate EXCEPT ![o] = x],
               UNCHANGED <<posted, interview>>
        PROVE  /\ candidate'[o] = x /\ \A d \in Candidates \ {o} : candidate'[d] = candidate[d]
               /\ OnInterviews(h)
    <2>1. candidate'[o] = x /\ \A d \in Candidates \ {o} : candidate'[d] = candidate[d]
      BY <1>0, <1>1 DEF RowsTyped
    <2>2. x \notin {Never, Gone}
      BY <1>1, RowsAssumption
    <2>3. OnInterviews(h)
      BY <1>1, <2>1, <2>2 DEF OnInterviews, Listed, Posted
    <2> QED BY <2>1, <2>3
  <1>2. CASE InsertCandidate(h)
    <2>1. c.pc = "insertCandidate" /\ o \in Candidates /\ c.job \in Jobs
      BY <1>0, <1>2 DEF InsertCandidate, CallOK
    <2>2. call'[h].pc = "idle"
      BY <1>2, ControlReturn DEF InsertCandidate
    <2>3. CASE UNCHANGED <<candidate, skills>>
      BY <1>2, <2>3 DEF InsertCandidate
    <2>4. CASE ~UNCHANGED <<candidate, skills>>
      <3> DEFINE x == [stage |-> "applied", job |-> c.job, reason |-> FALSE]
      <3>1. x \in Row
        BY <2>1, RanksAre DEF Row
      <3>2. /\ candidate' = [candidate EXCEPT ![o] = x] /\ skills' = [skills EXCEPT ![o] = {h}]
            /\ UNCHANGED <<posted, rounds, interview>>
        BY <1>2, <2>4 DEF InsertCandidate
      <3> HIDE DEF x
      <3>3. OnCandidates(h) /\ OnInterviews(h)
        BY <1>1, <2>1, <2>2, <3>1, <3>2 DEF OnCandidates
      <3>4. OnSkills(h)
        BY <1>0, <2>1, <3>2 DEF OnSkills, RowsTyped
      <3> QED BY <3>2, <3>3, <3>4
    <2> QED BY <2>3, <2>4
  <1>3. CASE UpdateRow(h)
    <2>1. o \in Candidates /\ c.job \in Jobs
      BY <1>0, <1>3 DEF UpdateRow, CallOK
    <2> DEFINE x == [candidate[o] EXCEPT !.job = c.job]
    <2>2. CASE UNCHANGED candidate
      BY <1>3, <2>2 DEF UpdateRow
    <2>3. CASE Listed(o) /\ candidate' = [candidate EXCEPT ![o] = x]
      <3>1. x \in Row /\ x.stage = candidate[o].stage /\ x.reason = candidate[o].reason
        BY <1>0, <2>1, <2>3 DEF RowsTyped, Listed, Row
      <3> HIDE DEF x
      <3>2. OnCandidates(h) /\ OnInterviews(h)
        BY <1>1, <1>3, <2>1, <2>3, <3>1 DEF OnCandidates, UpdateRow
      <3> QED BY <1>3, <3>2 DEF UpdateRow
    <2> QED BY <1>3, <2>2, <2>3 DEF UpdateRow
  <1>4. CASE WriteStage(h)
    <2>1. c.pc = "writeStage" /\ o \in Candidates /\ c.stage \in Stages
      BY <1>0, <1>4 DEF WriteStage, CallOK
    <2>2. call'[h].pc = "idle"
      BY <1>4, ControlReturn DEF WriteStage
    <2> DEFINE b == c.stage = "rejected" /\ c.reason
               x == [candidate[o] EXCEPT !.stage = c.stage, !.reason = b]
    <2>3. CASE UNCHANGED candidate
      BY <1>4, <2>3 DEF WriteStage
    <2>4. CASE Listed(o) /\ candidate' = [candidate EXCEPT ![o] = x]
      <3>0. b \in BOOLEAN /\ (b => c.stage = "rejected")
        BY <1>0 DEF Call
      <3> HIDE DEF b
      <3>1. x \in Row /\ x.stage = c.stage /\ x.reason = b
        BY <1>0, <2>1, <2>4, <3>0 DEF RowsTyped, Listed, Row
      <3> HIDE DEF x
      <3>2. candidate'[o] = x /\ (\A d \in Candidates \ {o} : candidate'[d] = candidate[d])
            /\ OnInterviews(h)
        BY <1>1, <1>4, <2>1, <2>4, <3>1 DEF WriteStage
      <3>3. x.reason => x.stage = "rejected"
        BY <3>0, <3>1
      <3>4. OnCandidates(h)
        BY <2>1, <2>2, <2>4, <3>1, <3>2, <3>3 DEF OnCandidates
      <3> QED BY <1>4, <3>2, <3>4 DEF WriteStage
    <2> QED BY <1>4, <2>3, <2>4 DEF WriteStage
  <1>5. CASE AssertJob(h) \/ InsertNote(h)
    BY <1>5 DEF AssertJob, InsertNote, rowVars
  <1> QED BY <1>2, <1>3, <1>4, <1>5

LEMMA SchedulingRows ==
    ASSUME IInv, NEW h \in Handlers,
           \/ FindJob(h) \/ FindExisting(h) \/ InsertInterview(h) \/ ReadStage(h) \/ Advance(h)
           \/ Notify(h)
    PROVE  OnRows(h)
  <1> DEFINE c == call[h]
             o == c.of
  <1>0. c \in Call /\ CallOK(c) /\ RowsTyped
    BY CallHere
  <1> USE RowsUntouched DEF OnRows
  <1>1. CASE InsertInterview(h)
    <2>1. /\ c.pc = "insertInterview" /\ o \in Candidates /\ c.job \in Jobs /\ c.index \in Indexes
          /\ c.type \in RoundTypes
      BY <1>0, <1>1 DEF InsertInterview, CallOK, Scheduling
    <2>2. CASE UNCHANGED interview
      BY <1>1, <2>2 DEF InsertInterview
    <2>3. CASE interview' # interview
      <3> DEFINE x == [job |-> c.job, type |-> c.type, by |-> h]
                 p == Position(h)
      <3>1. /\ interview[p] = None /\ Listed(o) /\ Posted(c.job)
            /\ interview' = [interview EXCEPT ![p] = x]
            /\ UNCHANGED <<candidate, posted, skills, rounds>>
        BY <1>1, <2>3 DEF InsertInterview
      <3>2. p \in Candidates \X Indexes /\ p[1] = o
        BY <2>1 DEF Position
      <3>3. x.job = c.job /\ x.by = h /\ x # None
        BY <2>1, RowsAssumption DEF InterviewRow
      <3> HIDE DEF x
      <3>4. interview'[p] = x /\ \A q \in (Candidates \X Indexes) \ {p} : interview'[q] = interview[q]
        BY <1>0, <3>1, <3>2 DEF RowsTyped
      <3>5. OnInterviews(h)
        <4> HIDE DEF p
        <4>1. /\ c.pc = "insertInterview" /\ interview[p] = None /\ interview'[p] # None
              /\ interview'[p].job = c.job /\ interview'[p].by = h
              /\ candidate'[p[1]] \notin {Never, Gone} /\ posted'[c.job] = "there"
          BY <2>1, <3>1, <3>2, <3>3, <3>4 DEF Listed, Posted
        <4> QED BY <3>1, <3>4, <4>1 DEF OnInterviews, Listed, Posted, p
      <3> QED BY <3>1, <3>5
    <2> QED BY <2>2, <2>3
  <1>2. CASE Advance(h)
    <2>1. c.pc = "advance" /\ o \in Candidates /\ c.stage \in Stages
      BY <1>0, <1>2 DEF Advance, CallOK, Scheduling
    <2>2. call'[h].pc = "notify"
      BY <1>2, ControlGo DEF Advance, Pc
    <2> DEFINE x == [candidate[o] EXCEPT !.stage = c.stage]
    <2>3. CASE UNCHANGED candidate
      BY <1>2, <2>3 DEF Advance
    <2>4. CASE Listed(o) /\ candidate' = [candidate EXCEPT ![o] = x]
      <3>1. x \in Row /\ x.stage = c.stage /\ x.reason = candidate[o].reason
        BY <1>0, <2>1, <2>4 DEF RowsTyped, Listed, Row
      <3> HIDE DEF x
      <3>2. candidate'[o] = x /\ \A d \in Candidates \ {o} : candidate'[d] = candidate[d]
        BY <1>0, <2>1, <2>4 DEF RowsTyped
      <3>3. OnCandidates(h)
        BY <2>1, <2>2, <2>4, <3>1, <3>2 DEF OnCandidates
      <3>4. x \notin {Never, Gone}
        BY <3>1, RowsAssumption
      <3>5. OnInterviews(h)
        BY <1>2, <3>2, <3>4 DEF Advance, OnInterviews, Listed, Posted
      <3> QED BY <1>2, <3>3, <3>5 DEF Advance
    <2> QED BY <1>2, <2>3, <2>4 DEF Advance
  <1>3. CASE FindJob(h) \/ FindExisting(h) \/ ReadStage(h) \/ Notify(h)
    BY <1>3 DEF FindJob, FindExisting, ReadStage, Notify, rowVars
  <1> QED BY <1>1, <1>2, <1>3

LEMMA EveryRow ==
    ASSUME IInv, NEW h \in Handlers,
           JobsRequest(h) \/ CandidatesRequest(h) \/ SchedulingRequest(h) \/ Crash(h)
    PROVE  OnRows(h)
  <1>1. ASSUME UNCHANGED rowVars PROVE OnRows(h)
    BY <1>1, RowsUntouched DEF rowVars, OnRows
  <1>2. CASE JobsRequest(h)
    <2>1. ASSUME NEW j \in Jobs, NEW list \in RoundLists \cup {None}, NEW s \in BOOLEAN,
                 FindJobToUpdate(h, j, s, list)
          PROVE  OnRows(h)
      BY <1>1, <2>1 DEF FindJobToUpdate, Start
    <2> QED BY <1>2, <2>1, JobRows, CascadeRows DEF JobsRequest
  <1>3. CASE CandidatesRequest(h)
    <2>1. CASE \/ \E c \in Candidates, j \in Jobs : AssertJobToCreate(h, c, j)
               \/ \E c \in Candidates, j \in Jobs \cup {None}, s \in BOOLEAN :
                     FindCandidateToUpdate(h, c, j, s)
               \/ \E c \in Candidates, stage \in Targets, r \in BOOLEAN : FindToMove(h, c, stage, r)
               \/ \E c \in Candidates : FindToNote(h, c)
      BY <1>1, <2>1 DEF AssertJobToCreate, FindCandidateToUpdate, FindToMove, FindToNote, Start
    <2> QED BY <1>3, <2>1, CandidateRows, CascadeRows DEF CandidatesRequest
  <1>4. CASE SchedulingRequest(h)
    <2>1. CASE \E c \in Candidates, i \in Indexes : FindCandidateToSchedule(h, c, i)
      BY <1>1, <2>1 DEF FindCandidateToSchedule, Start
    <2> QED BY <1>4, <2>1, SchedulingRows DEF SchedulingRequest
  <1>5. CASE Crash(h)
    BY <1>1, <1>5 DEF Crash
  <1> QED BY <1>2, <1>3, <1>4, <1>5

--------------------------------------------------------------------------------
(* What every request relies on, whatever the others do meanwhile.           *)

Scheduled == {"readStage", "advance", "notify"}

(* A candidate being created is there for nobody else. *)
CreatesAlone(h) ==
    call[h].pc = "insertCandidate" =>
        /\ candidate[call[h].of] = Never
        /\ \A k \in Handlers \ {h} : call[k].pc = "insertCandidate" => call[k].of # call[h].of
WorksOnRow(h) == call[h].pc \notin {"idle", "insertCandidate"} => call[h].of \in Owners /\ ~Missing(call[h].of)
ListsClear(h) ==
    ~call[h].overtaken => /\ call[h].pc = "saveSkills" => skills[call[h].of] = {}
                          /\ call[h].pc = "saveRounds" => rounds[call[h].of] = {}
HasInterview(h) ==
    call[h].pc \in Scheduled =>
        \/ candidate[call[h].of] = Gone \/ posted[call[h].job] = "gone"
        \/ /\ interview[Position(h)] # None
           /\ interview[Position(h)].job = call[h].job /\ interview[Position(h)].by = h
RequestOK(h) == CreatesAlone(h) /\ WorksOnRow(h) /\ ListsClear(h) /\ HasInterview(h)

InterviewsReferToRows ==
    \A p \in Candidates \X Indexes :
        interview[p] # None => Listed(p[1]) /\ Posted(interview[p].job)

Reliance == InterviewsReferToRows /\ \A h \in Handlers : RequestOK(h)
FullInv == IInv /\ Reliance

(* Rows that were there are not forgotten, and those that are gone stay so. *)
LEMMA RowsRemembered ==
    ASSUME FullInv, NEW h \in Handlers, OnRows(h)
    PROVE  /\ \A o \in Owners : ~Missing(o) => IF o \in Jobs THEN posted'[o] # "never" ELSE candidate'[o] # Never
           /\ \A c \in Candidates : candidate[c] = Gone => candidate'[c] = Gone
           /\ \A j \in Jobs : posted[j] = "gone" => posted'[j] = "gone"
           /\ \A c \in Candidates : candidate[c] = Never /\ candidate'[c] # Never =>
                 call[h].pc = "insertCandidate" /\ call[h].of = c /\ call'[h].pc = "idle"
  <1>1. CreatesAlone(h)
    BY DEF FullInv, Reliance, RequestOK
  <1>2. \A c \in Candidates : candidate[c] = Gone => candidate'[c] = Gone
    BY <1>1, NoneAssumption DEF OnRows, OnCandidates, Listed, CreatesAlone
  <1>3. \A c \in Candidates : candidate[c] # Never => candidate'[c] # Never
    BY NoneAssumption, RowsAssumption DEF OnRows, OnCandidates
  <1>4. \A j \in Jobs : /\ posted[j] = "gone" => posted'[j] = "gone"
                        /\ posted[j] # "never" => posted'[j] # "never"
    BY DEF OnRows, OnJobs
  <1>5. \A c \in Candidates : candidate[c] = Never /\ candidate'[c] # Never =>
           call[h].pc = "insertCandidate" /\ call[h].of = c /\ call'[h].pc = "idle"
    BY DEF OnRows, OnCandidates, Listed
  <1> QED BY <1>2, <1>3, <1>4, <1>5 DEF Missing, Owners

LEMMA StaysAlone ==
    ASSUME FullInv, NEW h \in Handlers, Control(h), OnRows(h), NEW g \in Handlers
    PROVE  CreatesAlone(g)' /\ WorksOnRow(g)'
  <1>1. IInv /\ \A k \in Handlers : CreatesAlone(k) /\ WorksOnRow(k) /\ CallOK(call[k])
    BY CallHere DEF FullInv, Reliance, RequestOK
  <1>2. \A k \in Handlers \ {h} : call'[k].pc = call[k].pc /\ call'[k].of = call[k].of
    BY DEF Control, SameButMark, SameData
  <1>3. CASE g # h \/ UNCHANGED call
    <2>1. call'[g].pc = call[g].pc /\ call'[g].of = call[g].of
      BY <1>2, <1>3
    <2>2. WorksOnRow(g)'
      BY <1>1, <2>1, RowsRemembered DEF WorksOnRow, Missing
    <2>3. ASSUME call[g].pc = "insertCandidate" PROVE candidate'[call[g].of] = Never
      <3>1. call[g].of \in Candidates /\ candidate[call[g].of] = Never
        BY <1>1, <2>3 DEF CreatesAlone, CallOK
      <3> QED BY <1>1, <1>3, <2>1, <2>3, <3>1, RowsRemembered DEF CreatesAlone
    <2>4. ASSUME NEW k \in Handlers \ {g}, call[g].pc = "insertCandidate",
                 call'[k].pc = "insertCandidate"
          PROVE  call'[k].of # call[g].of
      BY <1>1, <1>2, <2>4 DEF CreatesAlone, Control, Starts, StartsCreating, GoesOn
    <2> QED BY <2>1, <2>2, <2>3, <2>4 DEF CreatesAlone
  <1>4. CASE g = h /\ call'[h].pc = "idle"
    BY <1>4 DEF CreatesAlone, WorksOnRow
  <1>5. CASE g = h /\ Starts(h)
    BY <1>5, RowsRemembered DEF Starts, CreatesAlone, WorksOnRow, Missing
  <1>6. CASE g = h /\ StartsCreating(h)
    <2>1. candidate'[call'[h].of] = Never
      BY <1>6, RowsRemembered DEF StartsCreating
    <2>2. \A k \in Handlers \ {h} : call'[k].pc = "insertCandidate" => call'[k].of # call'[h].of
      BY <1>2, <1>6 DEF StartsCreating
    <2> QED BY <1>6, <2>1, <2>2 DEF StartsCreating, CreatesAlone, WorksOnRow
  <1>7. CASE g = h /\ GoesOn(h)
    BY <1>1, <1>7, RowsRemembered DEF GoesOn, CreatesAlone, WorksOnRow, Missing
  <1> QED BY <1>3, <1>4, <1>5, <1>6, <1>7 DEF Control

LEMMA StaysClear ==
    ASSUME FullInv, NEW h \in Handlers, Control(h), OnRows(h), NEW g \in Handlers
    PROVE  ListsClear(g)'
  <1>1. /\ IInv /\ CallOK(call[g]) /\ RowsTyped
        /\ ListsClear(g) /\ WorksOnRow(g) /\ CreatesAlone(h)
    BY CallHere DEF FullInv, Reliance, RequestOK
  <1>2. CASE g # h \/ UNCHANGED call
    <2>1. /\ call'[g].pc = call[g].pc /\ call'[g].of = call[g].of
          /\ call[g].overtaken => call'[g].overtaken
      BY <1>2 DEF Control, SameButMark, SameData
    <2>2. ASSUME call[g].pc = "saveSkills", ~call'[g].overtaken PROVE skills'[call[g].of] = {}
      <3> DEFINE o == call[g].of
      <3>1. o \in Owners /\ ~Missing(o) /\ skills[o] = {}
        BY <1>1, <2>1, <2>2 DEF WorksOnRow, ListsClear
      <3>2. ~(o \in Candidates /\ call[h].pc = "insertCandidate" /\ call[h].of = o)
        BY <1>1, <3>1, OwnersAssumption DEF CreatesAlone, Missing
      <3>3. skills'[o] \subseteq skills[o]
        BY <1>2, <2>1, <2>2, <3>1, <3>2 DEF OnRows, OnSkills
      <3> QED BY <3>1, <3>3
    <2>3. ASSUME call[g].pc = "saveRounds", ~call'[g].overtaken PROVE rounds'[call[g].of] = {}
      <3> DEFINE o == call[g].of
      <3>1. o \in Jobs /\ ~Missing(o) /\ rounds[o] = {}
        BY <1>1, <2>1, <2>3 DEF WorksOnRow, ListsClear, CallOK
      <3>2. rounds'[o] \subseteq rounds[o]
        BY <1>2, <2>1, <2>3, <3>1 DEF OnRows, OnRounds
      <3> QED BY <3>1, <3>2
    <2> QED BY <2>1, <2>2, <2>3 DEF ListsClear
  <1>3. CASE g = h /\ call'[h].pc \notin {"saveSkills", "saveRounds"}
    BY <1>3 DEF ListsClear
  <1>4. CASE g = h /\ GoesOn(h)
    <2>1. ASSUME call'[h].pc = "saveSkills" PROVE skills'[call'[h].of] = {}
      <3>1. DeleteSkills(h) /\ call'[h].of = call[h].of /\ call[h].of \in Owners
        BY <1>1, <1>4, <2>1 DEF GoesOn, DeleteSkills, CallOK
      <3> QED BY <1>1, <3>1 DEF DeleteSkills, RowsTyped
    <2>2. ASSUME call'[h].pc = "saveRounds" PROVE rounds'[call'[h].of] = {}
      <3>1. DeleteRounds(h) /\ call'[h].of = call[h].of /\ call[h].of \in Jobs
        BY <1>1, <1>4, <2>2 DEF GoesOn, DeleteRounds, CallOK
      <3> QED BY <1>1, <3>1 DEF DeleteRounds, RowsTyped
    <2> QED BY <1>4, <2>1, <2>2 DEF ListsClear
  <1> QED BY <1>2, <1>3, <1>4 DEF Control, Starts, StartsCreating

LEMMA KeepsInterview ==
    ASSUME FullInv, NEW h \in Handlers, Control(h), OnRows(h), NEW g \in Handlers
    PROVE  HasInterview(g)'
  <1>1. IInv /\ CallOK(call[g]) /\ RowsTyped /\ HasInterview(g)
    BY CallHere DEF FullInv, Reliance, RequestOK
  <1>2. ASSUME call[g].pc \in Scheduled, call'[g].of = call[g].of, call'[g].job = call[g].job,
               call'[g].index = call[g].index
        PROVE  HasInterview(g)'
    <2> DEFINE p == Position(g)
               j == call[g].job
    <2>1. /\ call[g].of \in Candidates /\ j \in Jobs /\ call[g].index \in Indexes
          /\ p = <<call[g].of, call[g].index>>
      BY <1>1, <1>2 DEF CallOK, Scheduling, Scheduled, Position
    <2>2. CASE candidate[call[g].of] = Gone \/ posted[j] = "gone"
      BY <1>2, <2>1, <2>2, RowsRemembered DEF HasInterview
    <2>3. CASE interview[p] # None /\ interview[p].job = j /\ interview[p].by = g
      <3>1. p \in Candidates \X Indexes /\ p[1] = call[g].of
        BY <2>1
      <3>2. \/ interview'[p] = interview[p]
            \/ candidate'[p[1]] = Gone \/ posted'[j] = "gone"
        BY <2>3, <3>1 DEF OnRows, OnInterviews
      <3> QED BY <1>2, <2>3, <3>1, <3>2 DEF HasInterview, Position
    <2> QED BY <1>1, <1>2, <2>2, <2>3 DEF HasInterview
  <1>3. CASE g # h \/ UNCHANGED call
    <2>1. SameButMark(call'[g], call[g])
      BY <1>3 DEF Control, SameButMark, SameData
    <2> QED BY <1>2, <2>1 DEF HasInterview, SameButMark, SameData
  <1>4. CASE g = h /\ call'[h].pc \notin Scheduled
    BY <1>4 DEF HasInterview
  <1>5. CASE g = h /\ GoesOn(h) /\ call'[h].pc \in {"advance", "notify"}
    BY <1>2, <1>5 DEF GoesOn, Scheduled
  <1>6. CASE g = h /\ GoesOn(h) /\ call'[h].pc = "readStage"
    <2> DEFINE p == Position(h)
               x == [job |-> call[h].job, type |-> call[h].type, by |-> h]
    <2>1. InsertInterview(h) /\ call[h].pc = "insertInterview"
      BY <1>6 DEF GoesOn, InsertInterview
    <2>2. call[h].of \in Candidates /\ call[h].index \in Indexes /\ call[h].job \in Jobs
          /\ call[h].type \in RoundTypes
      BY <1>1, <1>6, <2>1 DEF CallOK, Scheduling
    <2>3. ~Return(h)
      BY <1>1, <1>6, ControlReturn
    <2>4. interview' = [interview EXCEPT ![p] = x]
      BY <2>1, <2>3 DEF InsertInterview
    <2>5. p \in Candidates \X Indexes /\ x.job = call[h].job /\ x.by = h /\ x # None
      BY <2>2, RowsAssumption DEF Position, InterviewRow
    <2> HIDE DEF x
    <2>6. interview'[p] = x
      BY <1>1, <2>4, <2>5 DEF RowsTyped
    <2>7. p = <<call'[h].of, call'[h].index>> /\ call'[h].job = call[h].job
      BY <1>6 DEF GoesOn, Position
    <2> QED BY <1>6, <2>5, <2>6, <2>7 DEF HasInterview, Position
  <1> QED BY <1>3, <1>4, <1>5, <1>6 DEF Control, Starts, StartsCreating, Scheduled

LEMMA RelianceStays ==
    ASSUME FullInv, NEW h \in Handlers, Control(h), OnRows(h)
    PROVE  Reliance'
  <1>1. InterviewsReferToRows
    BY DEF FullInv, Reliance
  <1>2. ASSUME NEW p \in Candidates \X Indexes, interview'[p] # None
        PROVE  candidate'[p[1]] \notin {Never, Gone} /\ posted'[interview'[p].job] = "there"
    BY <1>1, <1>2 DEF OnRows, OnInterviews, InterviewsReferToRows
  <1>3. InterviewsReferToRows'
    BY <1>2 DEF InterviewsReferToRows, Listed, Posted
  <1>4. \A g \in Handlers : RequestOK(g)'
    BY StaysAlone, StaysClear, KeepsInterview DEF RequestOK
  <1> QED BY <1>3, <1>4 DEF Reliance

LEMMA InitiallyFull == Init => FullInv
  <1> SUFFICES ASSUME Init PROVE FullInv
    OBVIOUS
  <1>1. \A h \in Handlers : call[h].pc = "idle"
    BY NoCallOK DEF Init
  <1>2. \A h \in Handlers : RequestOK(h)
    BY <1>1 DEF RequestOK, CreatesAlone, WorksOnRow, ListsClear, HasInterview, Scheduled
  <1>3. InterviewsReferToRows
    BY DEF Init, InterviewsReferToRows
  <1> QED BY <1>2, <1>3, Initially DEF FullInv, Reliance

LEMMA EveryFullStep == FullInv /\ [Next]_vars => FullInv'
  <1> SUFFICES ASSUME FullInv, [Next]_vars PROVE FullInv'
    OBVIOUS
  <1>1. IInv'
    BY EveryStep DEF FullInv
  <1>2. ASSUME NEW h \in Handlers,
               JobsRequest(h) \/ CandidatesRequest(h) \/ SchedulingRequest(h) \/ Crash(h)
        PROVE  Reliance'
    BY <1>2, EveryRequest, EveryRow, RelianceStays DEF FullInv
  <1>3. CASE UNCHANGED vars
    <2>1. ASSUME NEW h \in Handlers PROVE RequestOK(h)'
      <3>1. Control(h) /\ OnRows(h)
        BY <1>3, RowsUntouched DEF vars, Control, SameButMark, SameData, OnRows
      <3> QED BY <3>1, RelianceStays DEF Reliance
    <2>2. InterviewsReferToRows'
      BY <1>3 DEF vars, FullInv, Reliance, InterviewsReferToRows, Listed, Posted
    <2> QED BY <1>1, <2>1, <2>2 DEF Reliance, FullInv
  <1> QED BY <1>1, <1>2, <1>3 DEF Next, FullInv

LEMMA FullInvariance == Spec => []FullInv
  BY InitiallyFull, EveryFullStep, PTL DEF Spec

--------------------------------------------------------------------------------
(* What a step may do.                                                       *)

(* One request moves at a time. *)
LEMMA OneMoves ==
    ASSUME FullInv, Next
    PROVE  \E h \in Handlers :
              /\ Control(h) /\ OnRows(h) /\ RequestOK(h) /\ CallOK(call[h])
              /\ \A k \in Handlers \ {h} : call'[k].pc = call[k].pc
  <1>1. PICK h \in Handlers :
           JobsRequest(h) \/ CandidatesRequest(h) \/ SchedulingRequest(h) \/ Crash(h)
    BY DEF Next
  <1>2. Control(h) /\ OnRows(h)
    BY <1>1, EveryRequest, EveryRow DEF FullInv
  <1> QED BY <1>2, CallHere DEF FullInv, Reliance, Control, SameButMark

(* The stage of a candidate changes by a request that has read it.           *)
LEMMA StageStep ==
    ASSUME FullInv, Next, NEW c \in Candidates, Listed(c), Listed(c)'
    PROVE  \/ /\ Rank(candidate'[c].stage) >= Rank(candidate[c].stage)
              /\ candidate'[c].reason => candidate'[c].stage = "rejected" \/ candidate[c].reason
              /\ candidate[c].stage = "rejected" => candidate'[c].stage = "rejected"
           \/ Overtaken(c)
  <1>1. PICK h \in Handlers : OnRows(h) /\ RequestOK(h) /\ CallOK(call[h])
    BY OneMoves
  <1>2. candidate[c] \in Row
    BY CallHere DEF FullInv, IInv, RowsTyped, TypeOK, Listed
  <1>3. candidate[c].stage \in Stages /\ Rank(candidate[c].stage) \in Nat
    BY <1>2, RanksAre DEF Row
  <1>4. CASE candidate'[c] = candidate[c]
    BY <1>3, <1>4
  <1>5. CASE candidate'[c].stage = candidate[c].stage /\ candidate'[c].reason = candidate[c].reason
    BY <1>3, <1>5
  <1>6. CASE /\ call[h].pc \in {"writeStage", "advance"} /\ call[h].of = c
             /\ call'[h].pc # call[h].pc
             /\ candidate'[c].stage = call[h].stage
             /\ candidate'[c].reason => candidate'[c].stage = "rejected" \/ candidate[c].reason
    <2>1. CASE call[h].seen # candidate[c].stage
      BY <1>6, <2>1 DEF Overtaken
    <2>2. CASE call[h].seen = candidate[c].stage
      <3> DEFINE new == call[h].stage
                 old == candidate[c].stage
      <3>1. /\ new \in Stages
            /\ new = "rejected" \/ Rank(new) >= Rank(old)
        BY <1>1, <1>3, <1>6, <2>2, RanksAre DEF CallOK
      <3>2. Rank(new) >= Rank(old) /\ (old = "rejected" => new = "rejected")
        <4>1. Rank(new) \in Nat /\ Rank(old) \in Nat /\ (new = "rejected" <=> Rank(new) >= 99)
              /\ (old = "rejected" <=> Rank(old) >= 99)
          BY <1>3, <3>1, RanksAre
        <4>2. CASE new = "rejected"
          BY <4>2, RanksAre, <1>3 DEF Rank, CANDIDATE_STAGE_RANK, Stages
        <4>3. CASE Rank(new) >= Rank(old)
          <5> HIDE DEF new, old
          <5> QED BY <4>1, <4>3
        <4> QED BY <3>1, <4>2, <4>3
      <3> QED BY <1>6, <3>2
    <2> QED BY <2>1, <2>2
  <1>7. ~(call[h].pc = "insertCandidate" /\ call[h].of = c) /\ candidate'[c] # Gone
    BY <1>1 DEF RequestOK, CreatesAlone, Listed
  <1> QED BY <1>1, <1>4, <1>5, <1>6, <1>7 DEF OnRows, OnCandidates

(* However the requests on one candidate cross, it goes back a stage, leaves   *)
(* rejected or is left with a stale reject reason only by a request that had   *)
(* read the stage before another changed it (candidates.service.ts:133, 171).  *)
THEOREM StagesMoveForward == Spec => StageMovesForward
  <1> DEFINE Forward == \A c \in Candidates : Listed(c) /\ Listed(c)' =>
          \/ /\ Rank(candidate'[c].stage) >= Rank(candidate[c].stage)
             /\ candidate'[c].reason => candidate'[c].stage = "rejected" \/ candidate[c].reason
             /\ candidate[c].stage = "rejected" => candidate'[c].stage = "rejected"
          \/ Overtaken(c)
  <1>1. FullInv /\ [Next]_vars => [Forward]_vars
    BY StageStep
  <1>2. Spec => [][Forward]_vars
    BY <1>1, FullInvariance, PTL DEF Spec
  <1> QED BY <1>2 DEF StageMovesForward

(* An update leaves nothing of the list of rounds or skills it replaces,       *)
(* unless another update saved the same list between its delete and its save   *)
(* (jobs.service.ts:174-199).                                                  *)
THEOREM UpdatesReplace == Spec => ListsAreReplaced
  <1> DEFINE Replaced(h) == call[h].pc # call'[h].pc /\ ~call[h].overtaken =>
          /\ call[h].pc = "saveSkills" /\ There(call[h].of)
                => skills'[call[h].of] \subseteq {h}
          /\ call[h].pc = "saveRounds" /\ There(call[h].of)
                => rounds'[call[h].of] \subseteq TemplatesOf(call[h].rounds, h)
  <1>1. ASSUME FullInv, Next, NEW h \in Handlers PROVE Replaced(h)
    <2> SUFFICES ASSUME call[h].pc # call'[h].pc, ~call[h].overtaken PROVE Replaced(h)
      OBVIOUS
    <2>1. OnRows(h) /\ RequestOK(h) /\ CallOK(call[h])
      BY <1>1, OneMoves
    <2> DEFINE o == call[h].of
    <2>2. CASE call[h].pc = "saveSkills"
      <3>1. o \in Owners /\ ~Missing(o) /\ skills[o] = {}
        BY <2>1, <2>2 DEF RequestOK, WorksOnRow, ListsClear
      <3>2. skills'[o] \subseteq {h}
        BY <2>1, <2>2, <3>1 DEF OnRows, OnSkills
      <3> QED BY <2>2, <3>2
    <2>3. CASE call[h].pc = "saveRounds"
      <3>1. o \in Jobs /\ ~Missing(o) /\ rounds[o] = {}
        BY <2>1, <2>3 DEF RequestOK, WorksOnRow, ListsClear, CallOK
      <3>2. rounds'[o] \subseteq TemplatesOf(call[h].rounds, h)
        BY <2>1, <2>3, <3>1 DEF OnRows, OnRounds
      <3> QED BY <2>3, <3>2
    <2> QED BY <2>2, <2>3
  <1> DEFINE AllReplaced == \A h \in Handlers : Replaced(h)
  <1>2. FullInv /\ [Next]_vars => [AllReplaced]_vars
    BY <1>1
  <1>3. Spec => [][AllReplaced]_vars
    BY <1>2, FullInvariance, PTL DEF Spec
  <1> QED BY <1>3 DEF ListsAreReplaced

(* However many requests schedule one round of a candidate at once, one of     *)
(* them inserts the interview, only that one advances the candidate and tells  *)
(* the interviewer, and the row stays while its candidate and its job do       *)
(* (interviews.service.ts:93-149).                                             *)
THEOREM OneInterviewPerRound == Spec => ScheduledOnce
  <1> DEFINE Kept(p) == interview[p] # None /\ interview'[p] # interview[p] =>
                           ~Listed(p[1])' \/ posted'[interview[p].job] # "there"
             Own(h) == /\ call[h].pc \in {"advance", "notify"}
                       /\ call'[h].pc # call[h].pc
                       /\ interview[Position(h)] # None
                       /\ interview[Position(h)].job = call[h].job
                       => interview[Position(h)].by = h
  <1>1. ASSUME FullInv, Next, NEW p \in Candidates \X Indexes PROVE Kept(p)
    <2>1. PICK h \in Handlers : OnRows(h)
      BY <1>1, OneMoves
    <2> QED BY <2>1 DEF OnRows, OnInterviews, Listed
  <1>2. ASSUME FullInv, Next, NEW h \in Handlers PROVE Own(h)
    <2> SUFFICES ASSUME call[h].pc \in {"advance", "notify"}, interview[Position(h)] # None,
                        interview[Position(h)].job = call[h].job
                 PROVE  interview[Position(h)].by = h
      OBVIOUS
    <2>1. HasInterview(h) /\ CallOK(call[h]) /\ InterviewsReferToRows
      BY <1>2, CallHere DEF FullInv, Reliance, RequestOK
    <2>2. Position(h) \in Candidates \X Indexes /\ Position(h)[1] = call[h].of
      BY <2>1 DEF CallOK, Scheduling, Position
    <2>3. candidate[call[h].of] # Gone /\ posted[call[h].job] # "gone"
      BY <2>1, <2>2 DEF InterviewsReferToRows, Listed, Posted
    <2> QED BY <2>1, <2>3 DEF HasInterview, Scheduled
  <1> DEFINE Once == /\ \A p \in Candidates \X Indexes : Kept(p)
                     /\ \A h \in Handlers : Own(h)
  <1>3. FullInv /\ [Next]_vars => [Once]_vars
    BY <1>1, <1>2
  <1>4. Spec => [][Once]_vars
    BY <1>3, FullInvariance, PTL DEF Spec
  <1> QED BY <1>4 DEF ScheduledOnce

================================================================================
