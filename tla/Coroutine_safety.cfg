\* Spawned on either worker, resumed by anybody, moving between two threads.
SPECIFICATION FairSpec
CONSTANTS
    t1 = t1
    t2 = t2
    w1 = w1
    w2 = w2
    c1 = c1
    c2 = c2
    None = None
    Threads <- MCThreads
    Workers <- MCWorkers
    Coros <- MCCoros
    Sizes = {1, 2}
    MaxSpawn = 2
    MaxYields = 2
CHECK_DEADLOCK FALSE
INVARIANTS OnHost OneList
PROPERTIES ImplementsSpawns Winds
