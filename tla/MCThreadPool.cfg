CONSTANTS
    Workers = {w1, w2}
    Submitters = {s1, s2}
    Tasks = {t1, t2, t3}
    Futures = {t1}
    Refusable = {t1}
    NoTask = NoTask
SPECIFICATION FairSpec
INVARIANTS
    TypeOK
    NoStrandedTask
    NoTaskTwice
    NoTaskLost
    ResultBeforeFree
    OneMissed
PROPERTIES
    StopReturns
    SubmittedIsRun
    ImplementsTaskService
\* The pool stops for good once every worker is joined.
CHECK_DEADLOCK FALSE
