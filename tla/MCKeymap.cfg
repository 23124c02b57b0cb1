SPECIFICATION Spec
CONSTANTS
    Proc = {p1, p2}
    Console = Console
    NoFile = NoFile
    InitFile <- InitFileDef
INVARIANTS AlwaysALayout MixHeals AloneAgrees
