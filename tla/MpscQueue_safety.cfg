\* Two producers race with two nodes, moved or shared, each pushed again and again.
SPECIFICATION FairSpec
CONSTANTS
    p1 = p1
    p2 = p2
    n1 = n1
    n2 = n2
    Null = Null
    Producers <- MCProducers
    Nodes <- MCNodes
    MaxPush = 4
INVARIANTS TypeOK SoundLists NoUseAfterRelease NoLostWakeup
PROPERTY ImplementsFifo
