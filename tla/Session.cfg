SPECIFICATION Spec
CONSTANTS
    adopter = adopter  shelter = shelter
    c1 = c1  c2 = c2
    NoOne = NoOne
    Id = {adopter, shelter}
    SeedId = {shelter}
    MaxToken = 3
    Call = {c1, c2}
SYMMETRY Slots
INVARIANTS
    SessionInv
    SendsOwnTokenOrNone
PROPERTIES
    WrongUserOnlyByLateProfile
    LiveTokenLostToOthers
