SPECIFICATION Spec
CONSTANTS
    Platforms <- MCPlatforms
    Adapters <- MCAdapters
    Type <- MCType
    Hidden <- MCHidden
    Systems <- MCSystems
    Addresses <- MCAddresses
    Unreadable <- MCUnreadable
    Mac <- MCMac
    Gateways <- MCGateways
    Handles = {h1}
    Null = Null
    MaxChanges = 1
    MaxFailures = 1
    MaxExhausted = 1
INVARIANTS
    TypeOK
    SteadyAdaptersListed
    NeverMixed
    CopiesAreWhole
    MacAddressesReadBack
PROPERTIES
    FreedAsAWhole
CHECK_DEADLOCK FALSE
