\* More workers than threads; idle threads sleep.
SPECIFICATION FairSpec
CONSTANTS
    p1 = p1
    ThreadNum = 1
    WorkerNum = 2
    WorkSteal = FALSE
    Posters <- OnePoster
    MaxEvents = 2
    Aggressive = 1
    Moderate = 1
    MayStop = FALSE
PROPERTY PostedRuns
CHECK_DEADLOCK FALSE
