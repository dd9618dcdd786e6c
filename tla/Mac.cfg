SPECIFICATION FairSpec
CONSTANTS
    Clients = {c1}
    Registrars = {c1}
    Observers = {o1}
    Interfaces <- MCInterfaces
    Systems <- MCSystems
    Changing <- MCChanging
    MaxChanges = 2
    MaxFailures = 1
INVARIANTS
    TypeOK
    UpToDateWhenSettled
    LifetimesNest
PROPERTIES
    ChangesAreTold
    CallsReturn
CHECK_DEADLOCK FALSE
