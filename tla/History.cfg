CONSTANTS
    Runs <- MCRuns
    RsRuns <- MCRsRuns
    Imports <- MCImports
    Reports <- MCReports
    Keep = 1
    Shown = 1
    MaxTime = 1
SPECIFICATION MCSpec
INVARIANTS
    TypeOK
    ToldTheTruth
    ReportToldTheTruth
PROPERTIES
    SaveEvictsTheOldest
    ImplementsLifecycle
    ReportsAccumulate
CHECK_DEADLOCK FALSE
