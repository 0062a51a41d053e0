-------------------------------- MODULE Dashboard --------------------------------
(***************************************************************************)
(* What a recruiter is shown of one organization: DashboardService and the *)
(* applicants of the jobs list, as functions of the tables they query.     *)
(*                                                                         *)
(* A table is a function from its rows.  Times are in half-days, so that   *)
(* the last 24 hours and today differ; midnight is the same everywhere.    *)
(* A period of days may be fractional and is in halves as well.  The       *)
(* queries of one overview see the same rows.                              *)
(***************************************************************************)
EXTENDS Sums, Sequences, SequencesExt

CONSTANTS
    None,
    OpenJobsShown,   \* rows of the table of jobs: 8 in the code
    RecentShown      \* applicants shown with a job: 3 in the code

Day(t) == t \div 2
Having(table, Test(_)) == {r \in DOMAIN table : Test(table[r])}
CountOf(table, Test(_)) == Cardinality(Having(table, Test))

--------------------------------------------------------------------------------
(* Trends.                                                                     *)

(* The day an offset back from one of the month's days: setDate cuts a         *)
(* fraction towards zero, and zero is the last day of the month before.        *)
DaysBack(offset, date) ==
    IF offset % 2 = 1 /\ 2 * date > offset THEN (offset + 1) \div 2 ELSE offset \div 2

bucket(times, offset, now, date) ==
    CountOf(times, LAMBDA t : Day(t) = Day(now) - DaysBack(offset, date))

(* times has the column of the rows that are counted.  Only rows of the last   *)
(* two periods are selected.                                                   *)
trend(times, days, now, date) ==
    LET seen == {r \in DOMAIN times : times[r] >= now - 2 * days}
        at == [r \in seen |-> times[r]]
        sparkline == [i \in 1..(days \div 2) |-> bucket(at, days - 2 * i, now, date)]
        previous == [i \in 1..(days \div 2) |-> bucket(at, 2 * days - 2 * i, now, date)]
    IN  [delta |-> Total(sparkline) - Total(previous), sparkline |-> sparkline]

(* The period of the query: what is no number, or not in 1..90, is 30 days. *)
period(days) == IF days # None /\ days > 0 /\ days <= 180 THEN days ELSE 60

--------------------------------------------------------------------------------
(* The parts of the overview.  A summary is kept under its interview.          *)

Pending(interviews) == CountOf(interviews, LAMBDA i : i.status \notin {"completed", "cancelled"})

(* No foreign key ties a summary to its interview: it outlives it. *)
Recommended(org) ==
    {i \in DOMAIN org.summaries \cap DOMAIN org.interviews :
        org.summaries[i].recommendation \in {"strong_hire", "hire"}}

readyToAdvance_CountsRounds(org) ==
    Cardinality({i \in Recommended(org) :
        org.candidates[org.interviews[i].candidate].stage = "interview"})

(* getCount counts distinct candidates, whatever they are joined with. *)
readyToAdvance(org) ==
    Cardinality({c \in DOMAIN org.candidates :
        /\ org.candidates[c].stage = "interview"
        /\ \E i \in Recommended(org) : org.interviews[i].candidate = c})

Applicants(org, job) == Having(org.candidates, LAMBDA c : c.job = job)

(* Of the open jobs one with the most applicants, the newest of several. *)
Above(org, j, k) ==
    LET applicants(job) == Cardinality(Applicants(org, job))
    IN  \/ applicants(j) > applicants(k)
        \/ applicants(j) = applicants(k) /\ org.jobs[j].created >= org.jobs[k].created

strongestOpenReq(org) ==
    LET open == Having(org.jobs, LAMBDA j : j.status = "open")
    IN  IF open = {} THEN None
        ELSE CHOOSE j \in open : \A k \in open : Above(org, j, k)

getAiSummary(org, pending) ==
    [interviewsPending |-> pending,
     candidatesReadyToAdvance |-> readyToAdvance(org),
     strongestOpenReq |-> strongestOpenReq(org)]

(* The newest n of some rows of a table; the query leaves open in which order  *)
(* those of one moment come.                                                   *)
IsNewest(q, table, rows) ==
    LET at(r) == table[r].created
    IN  /\ IsInjective(q)
        /\ \A k, l \in DOMAIN q : k < l => at(q[k]) >= at(q[l])
        /\ \A r \in rows : r \in Range(q) \/ \A k \in DOMAIN q : at(q[k]) >= at(r)

Newest(table, rows, n) ==
    CHOOSE q \in [1..Min({n, Cardinality(rows)}) -> rows] : IsNewest(q, table, rows)

getOpenJobsTable(org) ==
    \* jobs of every status, whatever the table is called
    LET jobs == Newest(org.jobs, DOMAIN org.jobs, OpenJobsShown)
    IN  [k \in DOMAIN jobs |->
            [job |-> jobs[k],
             applicants |-> Cardinality(Applicants(org, jobs[k])),
             screening |-> Cardinality({c \in Applicants(org, jobs[k]) :
                                           org.candidates[c].stage = "screening"}),
             interviews |-> CountOf(org.interviews, LAMBDA i : i.job = jobs[k])]]

getToday(org, now) ==
    [interviewsToday |-> CountOf(org.interviews, LAMBDA i :
        i.scheduled # None /\ Day(i.scheduled) = Day(now)),
     roundsToReview |-> CountOf(org.summaries, LAMBDA s : s.created >= now - 2)]

Created(table) == [r \in DOMAIN table |-> table[r].created]
Touched(org, stage) ==
    [c \in Having(org.candidates, LAMBDA d : d.stage = stage) |-> org.candidates[c].updated]

(* updatedAt stands for the moment of the hire: any later edit moves it. *)
HiredThisMonth(org, now, date) ==
    CountOf(Touched(org, "hired"), LAMBDA t : Day(t) > Day(now) - date)

getOverview(org, days, now, date) ==
    LET card(value, times) == [value |-> value, trend |-> trend(times, days, now, date)]
        byStage(s) == CountOf(org.candidates, LAMBDA c : c.stage = s)
        pending == Pending(org.interviews)
    IN  [openings |-> card(CountOf(org.jobs, LAMBDA j : j.status = "open"), Created(org.jobs)),
         candidates |-> card(Cardinality(DOMAIN org.candidates), Created(org.candidates)),
         interviewsPending |-> card(pending, Created(org.interviews)),
         hired |-> card(HiredThisMonth(org, now, date), Touched(org, "hired")),
         inScreening |-> card(byStage("screening"), Touched(org, "screening")),
         interviewsCompleted |->
            card(Cardinality(DOMAIN org.summaries), Created(org.summaries)),
         aiSummary |-> getAiSummary(org, pending),
         openJobs |-> getOpenJobsTable(org),
         today |-> getToday(org, now),
         candidatesByStage |->
            [s \in {org.candidates[c].stage : c \in DOMAIN org.candidates} |-> byStage(s)]]

(* The jobs list: every job with its number of applicants and the newest. *)
withApplicantInfo(org) ==
    [j \in DOMAIN org.jobs |->
        [applicantsCount |-> Cardinality(Applicants(org, j)),
         recentApplicants |-> Newest(org.candidates, Applicants(org, j), RecentShown)]]

================================================================================
