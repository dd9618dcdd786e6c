SPECIFICATION Spec
CONSTANTS
    ByteBits <- MCByteBits
    Groups <- MCGroups
    Inputs <- MCInputs
    MaxTokens = 9
INVARIANTS
    RoundTrip
    Canonical
    MeansWhatItSpells
CHECK_DEADLOCK FALSE
