SPECIFICATION FairSpec
CONSTANTS
    Clients = {c1, c2}
    Registrars = {c1, c2}
    Observers = {o1, o2}
    MaxVersion = 1
    MaxFailures = 0
    Nested = {"enumerateInterfaces", "onInterfaceAdded"}
INVARIANTS
    WaitsForEnumeration
    SilentOnceDestroyed
PROPERTIES
    LookupsReturn
CHECK_DEADLOCK FALSE
