SPECIFICATION FairSpec
CONSTANTS
    Clients = {c1, c2}
    Registrars = {c1}
    Observers = {o1, o2}
    MaxVersion = 2
    MaxFailures = 1
INVARIANTS
    PollsWhenObserved
    FreshAfterRestart
    ComReleased
    SpawnsAlone
PROPERTIES
    CallsReturn
CHECK_DEADLOCK FALSE
