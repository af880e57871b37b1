SPECIFICATION Spec
CONSTANTS
    dog = dog  cat = cat
    t1 = t1  t2 = t2
    c1 = c1  c2 = c2
    NoPet = NoPet  NoTab = NoTab
    Pet = {dog, cat}
    Tab = {t1, t2}
    Call = {c1, c2}
    MaxFav = 3
SYMMETRY Alike
INVARIANTS
    FavInv
PROPERTIES
    RemovesWhatItFound
    LeftStays
