SPECIFICATION FairSpec
CONSTANTS
    Proc = {p1, p2}
    NoProc = NoProc
    NoFile = NoFile
    root = root
    alice = alice
    w1 = w1
    aged = aged
    DefaultAging = DefaultAging
    NoAging = NoAging
    Locked = Locked
    Empty = Empty
    Absent = Absent
    Aging = {aged, DefaultAging}
    Name <- NameDef
    Password = {w1}
    Uid <- UidDef
    MaxTries = 2
    InitAccounts <- InitAccountsDef
    InitShadow <- InitShadowDef
INVARIANTS LockProtects TmpIsRewrite
PROPERTIES OwnEntryOrRoot ReportIsTrue ImplementsAtomic SetHashReturns LockReleased
