\* A queue and variant_ptrs on nodes that two other threads release too.
SPECIFICATION QSpec
CONSTANTS
    owner = owner
    f1 = f1
    f2 = f2
    n1 = n1
    n2 = n2
    n3 = n3
    v1 = v1
    v2 = v2
    Null = Null
    Owner <- owner
    Threads <- MCThreads
    Nodes <- MCNodes
    Variants <- MCVariants
SYMMETRY MCSymmetry
INVARIANTS TypeOK SoundLists InLine Owned
PROPERTIES ImplementsStore RespectsPool
