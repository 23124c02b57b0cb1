SPECIFICATION StuckSpec
CONSTANTS
    Cases <- MCOneCase
    ExitCode <- MCExitCode
    PipeCap = 1
    StoreCap = 0
    CaseTime = 1
    Grace = 1
    DrainTime = 1
    MaxTries = 1
PROPERTIES
    KillWaitIsCapped
