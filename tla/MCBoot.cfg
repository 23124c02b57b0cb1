SPECIFICATION LiveSpec
CONSTANT
    MaxWrites = 3
INVARIANT
    FirstBootIsAlone
PROPERTIES
    ShutdownSaves
    BootSettles
