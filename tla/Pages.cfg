SPECIFICATION PagesSpec
CONSTANTS
    u1 = u1  u2 = u2  p1 = p1  p2 = p2  c1 = c1  c2 = c2  r1 = r1  r2 = r2
    k1 = k1  k2 = k2
    NoRow = NoRow
    User = {u1, u2}
    Post = {p1, p2}
    Comment = {c1, c2}
    SeedCount <- Seeded
    Req = {r1, r2}
    MaxLikes = 1
    MaxLoads = 2
    MaxMade = 1
    Offered <- MCOffered
    Word = {"w"}
    MaxRows <- MCRows
    PageSize = 1
    MaxCalls = 2
    Org = {p1, p2}
    Donation = {c1, c2}
    NoOrg = NoOrg
    Chain = {k1, k2}
SYMMETRY Symmetry
INVARIANTS
    CommentInv
    DeletedAtMostOnce
    OwnActionShows
    ListAnswersFilter
    CountMatchesList
    PageStopsAtReview
    SettledPageIsOneOrg
    UseShownIsOfMoneyShown
CHECK_DEADLOCK FALSE
