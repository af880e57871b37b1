SPECIFICATION Spec
CONSTANTS
    adopter = adopter  shelter = shelter  admin = admin
    p1 = p1  p2 = p2
    a1 = a1  a2 = a2  a3 = a3
    r1 = r1  r2 = r2
    NoRow = NoRow
    User <- MCUser
    App <- MCApp
    Org <- MCOrg
    Role <- MCRole
    OrgOwner <- MCOrgOwner
    Pet <- MCPet
    PetOrg <- MCPetOrg
    SeedApp <- OneSeed
    Req = {r1}
    FlakyLookup = FALSE
PROPERTIES
    ImplementsLedger
INVARIANTS
    PetAgreesWithApplications
