SPECIFICATION FairSpec
CONSTANTS
    Clients = {c1, c2}
    Registrars = {c1}
    Observers = {o1, o2}
    MaxVersion = 2
    MaxFailures = 1
    Nested = {}
INVARIANTS
    TypeOK
    NoCrash
    PollsWhenObserved
    FreshAfterRestart
PROPERTIES
    ObserversCatchUp
    CallsReturn
CHECK_DEADLOCK FALSE
