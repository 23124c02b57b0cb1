SPECIFICATION DbSpec
CONSTANTS
    Proc = {p1}
    NoProc = NoProc
    NoFile = NoFile
    root = root
    al = al
    bob = bob
    w1 = w1
    w2 = w2
    DefaultAging = DefaultAging
    NoAging = NoAging
    Locked = Locked
    Empty = Empty
    Absent = Absent
    Aging = {DefaultAging}
    Name <- NameDef
    NewName <- NewNameDef
    Password <- PasswordDef
    Uid <- UidDef
    MaxTries = 1
    FirstUid = 3
    UidLimit = 8
    MaxAccounts = 3
    InitAccounts <- InitAccountsDef
    InitShadow <- InitShadowDef
INVARIANTS UniqueAccounts ShadowNamesHaveAccounts PasswordChangeStays
PROPERTIES LinesLostOnlyUnread
SYMMETRY PasswordSymmetry
