SPECIFICATION Spec
CONSTANTS
    adopter = adopter  shelter = shelter  admin = admin
    p1 = p1  p2 = p2
    a1 = a1  a2 = a2  a3 = a3
    r1 = r1  r2 = r2
    NoRow = NoRow
    Org <- MCOrg
    Role <- MCRole
    User <- NoAdmin
    OrgOwner <- MCOrgOwner
    Pet <- MCPet
    PetOrg <- MCPetOrg
    App <- TwoApp
    SeedApp <- NoSeed
    Req = {r1, r2}
    FlakyLookup = TRUE
SYMMETRY Symmetry
INVARIANTS
    ThroughEveryStage
    AvailableMeansUntouched
    AdoptedOnlyByApproval
    OversubscriptionBounded
PROPERTIES
    OnlyTheOvertakenDeviate
