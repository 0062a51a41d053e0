\* One or two answers of up to three utterances, replies with one mark out of line, small
\* organizations; one job is left out of the table of jobs, one applicant of the jobs list.
CONSTANTS
    Interviews <- MCInterviews
    Overviews <- MCOverviews
    OpenJobsShown = 2
    RecentShown = 1
    None = None
    Malformed = Malformed
    Failed = Failed
SPECIFICATION Spec
INVARIANTS
    MetricsAreMeasured
    EvaluationIsSound
    OverviewAgrees
