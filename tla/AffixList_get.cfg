\* get after a removal.
SPECIFICATION ListSpec
CONSTANTS
    Null = Null
    UserTypes <- MCTypes
    Affixes <- MCAffixes
    TypeOf <- MCTypeOf
    Division = 2
CHECK_DEADLOCK FALSE
INVARIANT CallsReturn
