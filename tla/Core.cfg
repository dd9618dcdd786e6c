SPECIFICATION FairSpec
CONSTANTS
    Observers = {1, 2, 3}
    Names <- MCNames
    Values = {0, 1}
    Reports <- MCReports
    Nested = {"register", "unregisterOther", "unregisterSelf"}
INVARIANTS
    Mirror
PROPERTIES
    NoSpuriousCallback
    PublishesAtomically
    OperationsReturn
