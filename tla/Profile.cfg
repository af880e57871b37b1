SPECIFICATION Spec
CONSTANTS
    ann = ann  bob = bob
    tea = tea  oak = oak
    c1 = c1  c2 = c2
    NoOne = NoOne  NoText = NoText
    Account = {ann, bob}
    Text = {tea, oak}
    Author <- MCAuthor
    Call = {c1, c2}
    MaxSave = 2
SYMMETRY Alike
INVARIANTS
    ProfileInv
PROPERTIES
    UnsaidChangesOnlyByOverlap
