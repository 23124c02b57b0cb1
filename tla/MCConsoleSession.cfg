SPECIFICATION Spec
CONSTANTS
    root = root
    ann = ann
    pw = pw
    Name <- NameDef
    Password = {pw}
    Aging = {a0}
    DefaultAging = a0
    NoAging = NoAging
    Locked = Locked
    Empty = Empty
    Absent = Absent
    Root = root
    InShadow = InShadow
    PasswdFiles <- PasswdDef
    ShadowFiles <- ShadowDef
    Nobody = Nobody
    MaxQueue = 2
    MaxTtyErrors = 2
INVARIANTS
    UsernameIsFresh
    EchoIsRestored
    PasswordHidden
    SessionIsGranted
    LoginPolicy
