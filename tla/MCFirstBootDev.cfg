SPECIFICATION FairSpec
CONSTANTS
    ann = ann
    bob = bob
    Profiles <- ProfilesDef
    UserName <- UserNameDef
    LabUser = labuser
    NoUser = NoUser
    SeedIds <- SeedIdsDef
    BadSeed = BadSeed
    Layout = {us, latam}
    Gone = Gone
    Torn = Torn
INVARIANTS
    DevelopmentLogsIn
