SPECIFICATION Spec
CONSTANTS
    None = None
    IntBits = 4
    LongBits = 6
    Users <- SomeUsers
    AccountOf <- SomeAccounts
    CommandLines <- SomeLines
    KeepMedia = TRUE
    MaxReports = 4
    MaxSignals = 3
INVARIANTS
    TypeOK
    OptionsAsWritten
    CanvasShowsTheWanted
    EngineReleasedOnce
    OneFormatPerFile
PROPERTIES
    ToldToStopEnds
    LastRequestObeyed
CHECK_DEADLOCK FALSE
