\* Every interleaving of two producers, three increments, all ways to wait.
SPECIFICATION FairSpec
CONSTANTS
    p1 = p1
    p2 = p2
    Producers <- MCProducers
    MaxIncr = 3
INVARIANTS TypeOK NoLostWakeup Conservation
PROPERTY ImplementsPendingCount
