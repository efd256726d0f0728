\* The services, one of them picked at the start.
SPECIFICATION ServicesSpec
CONSTANTS
    Processes = {"old", "new", "tool"}
    Nobody = "none"
    Latest = 3
    Known <- MCKnown
    Repeatable = {2}
    Statements = 2
    MaxUnits = 2
    Clients = {"c1"}
    Models = {"m1"}
    MaxRevision = 1
    MaxBuilds = 3
    MaxReloads = 2
    Urls = {"u1", "u2"}
    Keys = {"k1", "k2"}
    MaxRetries = 2
    MaxSaves = 2
    Emitters = {"t1", "t2"}
    Capacity = 2
    Important = 1
    MaxEvents = 3
    MaxVersion = 3
    Scripts = {1, 2}
    Members = {"a", "b"}
    Limit = 3
    MaxQuota = 2
    MaxOthers = 2
INVARIANTS
    ServicesTypeOK
    DatabaseIsWhole
    SettingsHoldTogether
    RequestsAreBounded
    NothingIsLost
CONSTRAINT MCBound
CHECK_DEADLOCK FALSE
