SPECIFICATION ReturningSpec
CONSTANTS
    u1 = u1  a1 = a1  v1 = v1  v2 = v2  n1 = n1  r1 = r1  r2 = r2
    NoNote = NoNote  NoRow = NoRow
    User = {u1}
    App = {a1}
    AppUser <- MCAppUser
    Days <- MCDays
    DefaultDays = 2
    MaxDay = 3
    Review = {v1, v2}
    Note = {n1}
    Req = {r1, r2}
INVARIANTS
    NoStalePendingShown
PROPERTIES
    ImplementsBook
    PastDueLeavesPending
