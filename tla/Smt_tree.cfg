SPECIFICATION Spec
CONSTANTS
    KeyBits = 7
    Keys <- MCKeys
    Values = {0, 1, 2}
INVARIANTS
    RootIsCanonical
    GetIsProved
    SetIsProved
    SetKeepsTreeWhole
