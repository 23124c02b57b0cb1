SPECIFICATION Spec
CONSTANTS
    Proc = {p1, p2}
    Nobody = Nobody
    NoFile = NoFile
    Torn = "torn"
    FirstUid = 3
    UidLimit = 8
    NameSize <- NameSizeDef
    PartOf <- PartOfDef
    MembersMax = 9
    NewName <- NewNameDef
    BasePasswd <- BasePasswdDef
    BaseGroup <- BaseGroupDef
    HeaderSize <- HeaderSizeDef
INVARIANTS CreatedIsThere TwinsMet AddedIsInGroups
PROPERTIES LostOnlyInACrossing
SYMMETRY ProcSymmetry
CHECK_DEADLOCK FALSE
