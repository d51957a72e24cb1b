\* More types than slots: the array, its holes and the map are used.
SPECIFICATION ListSpec
CONSTANTS
    Null = Null
    UserTypes <- MCTypes
    Affixes <- MCAffixes
    TypeOf <- MCTypeOf
    Division = 2
CHECK_DEADLOCK FALSE
INVARIANTS SizeCounts NothingLost OnePerType
