CONSTANTS
    Workers = {w1, w2}
    Submitters = {s1, s2}
    Tasks = {t1, t2, t3}
    Futures = {t1}
    Refusable = {t1}
    NoTask = NoTask
SPECIFICATION Spec
INVARIANT AwaiterIsWoken
CHECK_DEADLOCK FALSE
