\* The pages, the master data store and the whole run, one of them picked at the start.
SPECIFICATION PagesSpec
CONSTANTS
    Names = {"a", "b"}
    Symbols = {"X"}
    Lists = {"w"}
    MaxRows = 1
    MaxBound = 2
    MaxMembers = 1
    TurningRuns = 2
    TurningReports = 1
    Securities = {"a"}
    MaxDate = 2
    DeviationRuns = 1
    DeviationReports = 1
    RsRuns = {"r1", "r2"}
    Ranges = {"d5", "d20"}
    RsReports = 2
    MaxImports = 2
    Profiles = {"s", "t"}
    Members = 5
    MaxIntervals = 2
INVARIANTS
    PagesTypeOK
    PageFollowsItsJob
    RunKeepsItsWord
    MembersAreBound
PROPERTIES
    PageShowsOneRun
    WritesKeepMeaning
CHECK_DEADLOCK FALSE
