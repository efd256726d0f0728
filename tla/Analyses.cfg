CONSTANTS
    c1 = c1
    c2 = c2
    Symbols = {"a", "b", "c"}
    Width = 2
    Retries = 1
    Streak = 2
    Rolling = 3
    Window = 4
SPECIFICATION MCSpec
INVARIANTS
    AnalysesTypeOK
    BatchIsAnswered
    StagedIsSerial
    SignalsAndScoresAgree
PROPERTIES
    SeriesIsWhole
    GoesAloneAfterLimit
CHECK_DEADLOCK FALSE
SYMMETRY Symmetry
