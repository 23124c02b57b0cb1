SPECIFICATION LiveSpec
CONSTANTS
    Cases <- MCOneCase
    ExitCode <- MCExitCode
    PipeCap = 1
    StoreCap = 1
    CaseTime = 1
    Grace = 1
    DrainTime = 1
    MaxTries = 2
INVARIANTS
    SupportedIsEarned
    OutputIsMissing
    TimeoutIsTrue
PROPERTIES
    SuiteEnds
