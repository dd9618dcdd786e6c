SPECIFICATION Spec
CONSTANTS
    ByteSize = 2
    Origins <- MCOrigins
    Values = {0, 1}
    MaxOffset = 6
INVARIANTS
    WalkIsExact
PROPERTIES
    WalkIsOrdered
    EmbeddingCommutes
