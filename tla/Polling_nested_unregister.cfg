SPECIFICATION Spec
CONSTANTS
    Clients = {c1}
    Registrars = {c1}
    Observers = {o1}
    MaxVersion = 1
    MaxFailures = 0
    Nested = {"enumerateInterfaces"}
INVARIANTS
    OutsideTheLock
CHECK_DEADLOCK FALSE
