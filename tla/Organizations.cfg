SPECIFICATION Spec
CONSTANTS
    shelter = shelter
    rescuer = rescuer
    adopter = adopter
    admin = admin
    r1 = r1
    r2 = r2
    User <- Accounts
    Role <- AccountRole
    MaxOrg = 2
    Pet = {p1}
    Donation = {d1}
    Usage = {g1}
    Req = {r1, r2}
    NoRow = NoRow
    SeedOrg <- NoSeed
SYMMETRY Slots
INVARIANTS
    OnlyCertifiedAct
    ReportedByRecipient
PROPERTY
    OrgOfGivesWayToEarlier
CHECK_DEADLOCK FALSE
