SPECIFICATION Spec
CONSTANTS
    ByteSize = 2
    Origins <- MCOrigins
    Values = {1, 2, 3}
    MaxOffset = 6
INVARIANTS
    WalkIsExact
