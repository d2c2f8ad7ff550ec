\* One page, every kind of content, two crashes of the gateway.
SPECIFICATION FairSpec
CONSTANTS
    default = default
    good = good
    malformed = malformed
    refused = refused
    tab1 = tab1
    tab2 = tab2
    Default = default
    Contents = {default, good, malformed, refused}
    Invalid = {malformed}
    Unloadable = {refused}
    Unmergeable = {refused}
    Sessions = {tab1}
    Absent = Absent
    Torn = Torn
    MaxCrashes = 2
INVARIANTS
    RuntimeWhole
    DoclingFollows
    MemoryFollows
PROPERTIES
    SavedMarkedTested
    GatewayRestarts
CHECK_DEADLOCK FALSE
