\* Posting, stealing, sleeping, and stop() at any moment; idle and ended threads take no step.
SPECIFICATION FairSpec
CONSTANTS
    p1 = p1
    ThreadNum = 2
    WorkerNum = 2
    WorkSteal = TRUE
    Posters <- OnePoster
    MaxEvents = 3
    Aggressive = 1
    Moderate = 1
    MayStop = TRUE
INVARIANTS TypeOK OneThreadPerWorker NoStrandedEvent BooksBalance
PROPERTIES ImplementsStrands EventsRun Quiesces StopEndsThreads
CHECK_DEADLOCK FALSE
