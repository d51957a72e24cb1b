\* Handlers, posts, stop, a second run, crashes and the destructor.
SPECIFICATION FairSpec
CONSTANTS
    main = main
    ThreadNum = 2
    WorkerNum = 2
    Outside <- MCOutside
    MaxCall = 2
    MaxRun = 2
CHECK_DEADLOCK FALSE
INVARIANTS TypeOK Accounted HandlersFramed BackToLivePools PostsInOrder
PROPERTY RunEnds
