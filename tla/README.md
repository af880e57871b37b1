# PawMatch (gbadopt): a TLA+ development

PawMatch is a pet adoption platform: a Go server (Gin, GORM, PostgreSQL, Redis,
MinIO) under `backend/` and a React client under `frontend/`. This directory
holds TLA+ models of its server and of the client's session, pages and favorite
button, the TLC configurations that check them on small
instances, and proofs of their main properties that TLAPS checks. Paths below are
relative to the repository; `service/`, `repository/`, `handler/`, `middleware/`,
`util/`, `constants/` stand for `backend/internal/...`, and `stores/`, `utils/`,
`pages/`, `hooks/` for `frontend/src/...`.

## 1. The system

| Component | State | Operations | Hard behaviour | What makes it correct |
| --- | --- | --- | --- | --- |
| Adoption applications (`service/application_service.go`) | `adoption_applications`, `pets.status` | Submit, UpdateStatus | reads and whole-row saves in separate round trips, no lock, any number of requests at once | an application moves along the state machine; its pet agrees with it; one application per account and pet |
| Pets (`service/pet_service.go`) | `pets` | Publish, UpdateStatus | the organization checked before the insert; its status also written by the adoption flow | published by a certified organization, managed by it |
| Organizations (`service/organization_service.go`) | `organizations` | Register, Review | ids taken at insert and visible at commit; an account may own several, and only the lowest id is ever found | certification precedes publishing and donations; the account's organization is stable |
| Donations (`service/donation_service.go`) | `donations`, `donation_usages` | Donate, CreateUsage | certification checked before the insert | only certified organizations receive, only the recipient reports; no use is shown of money the total leaves out |
| Visit reviews (`service/review_service.go`) | `visit_reviews` | Create, Submit, ListByUser (marks overdue) | the marking races with whole-row submits, may fail silently, and runs only when the adopter looks | submitted stays submitted, overdue means past due, past due does not stay pending |
| Posts and comments (`service/post_service.go`, `service/comment_service.go`) | `community_posts` with counters, `post_comments` | create, like, comment, delete a comment | counters under concurrency | every creation and like counted once; one deletion succeeds |
| Rate limiter (`middleware/rate_limiter.go`) | a bucket per address, a mutex | Limit | the clock is read before the mutex | bounded admission per window; windows never shrink |
| Home cache (`handler/home_handler.go`) | one Redis entry | Overview | several builders at once, no invalidation, a deadline that binds the beginning of a Redis command and not its arrival | staleness is bounded |
| Start-up (`cmd/server`) | the process, tables, seed rows, bucket, requests under way | migrate, seed, connect, listen, shut down | dies at any step and is restarted on what it left; told to stop with requests that need not end | comes up, complete; a stop ends |
| Accounts (`service/user_service.go`, `util/jwt.go`, `middleware/auth.go`, `middleware/rbac.go`) | `users`, tokens | register, log in, read and update the profile | unique indexes under races, a lost update of the profile | one account per name; a token speaks for its account |
| Favorites (`service/favorite_service.go`, `FavoriteButton.tsx`, `pages/PetDetail.tsx`) | `favorites`; the star of each open page | add, remove; a page opened, left, changed to another pet | a find and a delete in two round trips; lost answers; a button that never reads its state | one row per pet; a removal spares what was added since; a favorite no page shows stays |
| Browser session (`stores/authStore.ts`, `utils/request.ts`, `App.tsx`, `pages/Login.tsx`) | token and user of the store, token in localStorage | page load, log in, register, log out, profile, any 401 | answers in any order; tabs share localStorage and not the store | requests go out under the tab's own token; the user shown owns it |
| Profile page (`pages/Profile.tsx`, `stores/userStore.ts`) | the profile last heard of, a form | open, save, leave; log-ins beneath it | a store that outlives page and session; a form filled from what it held before the load | nobody's text ends in another's account; a save writes what it carries |
| List pages (`pages/PetList.tsx`, `Community.tsx`, `OrgList.tsx`, `Applications.tsx`, `stores/petStore.ts`) | the filter selected, the list on screen, the store's list that outlives its page | load, filter, search, publish a post, change a status | answers in any order; a total and its rows read apart; a write's load that asks with an old filter | the list answers the filter shown; total and rows agree |
| An organization's page (`pages/OrgDetail.tsx`) | four parts | open, go to another organization | a chain of four requests that goes on when the address changes | at rest the parts are of one organization, that of the address |
| A post's page (`pages/PostDetail.tsx`, `PostCommentList.tsx`) | the post and the comments shown | open, go to another post, like, comment | a load after the write, with what the click saw | what the visitor was told was done, shows |
| Forms (`pages/Apply.tsx`, `Donate.tsx`), `pages/Home.tsx` | a form | post once; load once | | |
| Uploads, statistics, formatting, CORS, logging, errors | none of their own | | | |

How they interact. Every HTTP request runs in a goroutine of its own: CORS and
error handling, then authentication and role from the JWT (`middleware/auth.go`,
`middleware/rbac.go`), then the limiter on the limited routes, then a handler
that calls one service. Services share nothing in memory; they meet in the
database. The adoption flow writes `pets.status`, which pets also write by
hand; publishing and donations read what an admin's review writes; visit reviews
read applications; the home page reads pets, posts and organizations and is the
only user of Redis. Database transactions are read-committed (PostgreSQL's
default) and only span the writes of Submit, of an approval and of a comment;
all the reads they are decided on come before.

## 2. Modules

| Module | Models | State and actions |
| --- | --- | --- |
| `AdoptionConstants` | `constants/application.go`, `constants/pet.go` | statuses and the edges of the state machine |
| `AdoptionLedger` | the promise of the adoption flow | the tables `petStatus` and `app`; one step per commit: `File`, `Advance`, `Approve`, `SetPetStatus` |
| `AdoptionService` | `service/application_service.go`, `PetService.UpdateStatus` | extends the ledger: the same tables, and `req[r]`, what request `r` has read. Submit is `SubmitFindPet`, `SubmitCheckDuplicate` (or `SubmitDuplicateLookupFails`), `SubmitCommit`; UpdateStatus is `StatusRead`, then `StatusSave` or `ApproveCommit`; `held` and `overtaken` are history |
| `Organizations` | `organization_service.go`, `PetService.Publish`, `donation_service.go` | `org`, `pet`, `donation`, `usage` are tables, `lastOrg` the id sequence; each operation is a `...Find` and a `...Create`/`...Save`/`...Commit` |
| `VisitBook` | the promise of the visits | `status` and `late` of each visit; `Schedule`, `DayPasses`, `Mark`, `Submit`, each in one step |
| `VisitReviews` | `review_service.go`, `visit_review_repository.go`, and that they implement `VisitBook` | `review` is the table, `today` the date, `shown` each adopter's last answer; `ListMark`/`ListMarkFails` and `ListFetch` are one list request |
| `PostComments` | `comment_service.go`, `PostService.Like` | `comment`, `commentCount`, `likeCount` are tables; a creation is `CreateFindPost`, `CreateCommit`, a deletion `DeleteFind`, `DeleteRow`, a like `LikeIncrement`, `LikeReadBack` |
| `PostPage` | `PostDetail.tsx`, `PostCommentList.tsx`; extends `PostComments` | `route`, `shown`; `loads` are GETs under way: `Jump`, `Serve`, `HearPost`/`HearComments` or `LoseLoad`; `awaited[r]` a like or comment of the page: `ClickLike`/`ClickSubmit`, `Take`, `HearTaken` or `LoseTaken`; `Elsewhere` is anybody else's request; `said` and `stale` are history |
| `ListPages` | `PetList.tsx` with `petStore.ts`, `Community.tsx`, `OrgList.tsx`, `Applications.tsx`, and the list operations of their services and repositories | `rows` is the page's table, `sel`, `word`, `list` what the page has; `calls` are under way: `Open`, `Pick...`, `Search...` ask, `Count` and `Find` (or `FindApps`) answer, `Hear` shows; `Advance`, `ChangeFind`, `ChangeSave` and `Publish`, `PostCreate` are writes, `HearDone` loads after them; `Appear`, `Change` are other clients; `spoilt`, `elsewhere` are history |
| `OrgPage` | `OrgDetail.tsx`, the reads of `donation_service.go` | `given` and `used` are the donations and their use, `part` what is shown, `chain[c]` a chain of requests: `Jump` starts one, `Serve` answers, `Hear` shows and asks on, `BreakOff` ends it; `mixed` is history |
| `Pages` | the router over the three | one page is open from the start, with the tables it reads; `page = "none"` is the server of `PostComments` alone |
| `Clock` | `time.Now()` | `clock`, which `Tick` moves; the limiter and the home page read it |
| `RateLimiter` | `middleware/rate_limiter.go` | `limits` is the map; `ReadClock` is `time.Now()`, `CountCall` the critical section |
| `HomeCache` | `handler/home_handler.go` | `cached` is the Redis entry, known by when its lists were read; `Miss` and a `ReadList` per list build one, `BeginSet` sends it on a connection (`sent`), `SetArrives` stores it whenever Redis executes it, or `SetLost`; `Finish` answers; `lag` and `servedAge` are history |
| `Session` | `stores/authStore.ts`, `utils/request.ts`, `App.tsx`, `pages/Login.tsx`; `user_service.go` (register, log in), `util/jwt.go`, `middleware/auth.go` | `token`, `user`, `local` are the tab; `accounts`, `owner`, `expired` the server's; `call[c]` a request: `Send...`, then one of the server's answers (`LogIn`, `Register`, `AnswerApi`, ...) or none (`LoseAnswer`), then `Hear...` |
| `Favorites` | `favorite_service.go`, `favorite_repository.go`, `FavoriteButton.tsx`, `PetDetail.tsx` | `fav` is one account's table, `lastFav` its id sequence; `page` and `starred` are the open pages, `call[c]` a request: `Click`, then `AddRow`/`AddDuplicate` or `Find`/`FindNone` and `DeleteRow`, then `Hear`, `End` or, before, `GiveUp`; `left` is history |
| `Profile` | `user_service.go` (profile), `pages/Profile.tsx`, `stores/userStore.ts` | `users` is the table; `account` whose token localStorage has, `profile` the store, `page` with the profile of its first render; `call[c]` is a load or a save: `OpenPage`, `Submit` or `SubmitElsewhere`, then `GetProfile` or `UpdateFind` and `UpdateSave`, or `Refuse`, `LoseAnswer`, then `HearLoad`/`HearSave`; `exposed` and `overtaken` are history |
| `Startup` | `cmd/server/main.go`, `cmd/server/migrate.go` | `phase`, `at` is where the process is; `tables`, `seeded`, `bucket` survive it; `handling` are the requests of a server that listens (`Accept`, `Answer`), which `Signal` tells to stop and `Shutdown` ends |

Each `MC...` module holds only the small sets and the symmetry a run uses. Each
`...Proofs` module holds the proofs about what it extends: `ServerProofs` about
`RateLimiter`, `HomeCache` and `Startup`, `PagesProofs` about `Pages` and so about
the pages and `PostComments`, any other about the module it is named after. Operators under
a comment that begins "Deliberately wrong" are plausible bugs: no specification
uses them, and each shows that a property would notice the bug when its
original is replaced by it.

Conventions. A request slot of `Req` is one request in flight; a slot that ends
is free for the next request, so slots bound how many requests run at once and
not how many run in all. `RequestFails` ends a request early anywhere between
two of its round trips, for a database error, a cancelled request or a server
that stops; its open transaction leaves nothing. A row is known by the columns
that change or decide something; a GORM `Save` writes the whole row, so saving a
row read earlier writes the status it carries and, as no other column changes
after creation, nothing else. Variables whose comment says "history" record what
happened for the properties to speak of; no action's guard reads one, but
for the fresh comment id of `PostComments`, which `created` tells apart, and the
bound `MaxMade`.

Calls of a page are kept oldest first, so that a load knows when one asked for
later has been heard before it (`late`); they are answered and heard in any
order, since nothing in the client cancels or numbers them.

Lookups take the first row by primary key (`First`), hence `IsFirstOrg` and
`IsOrgOf`. In `VisitReviews` time has the granularity of the `due_date` column,
a date: PostgreSQL compares a date column with a date, so a visit due today is
not past due.

## 3. What is checked

Runs that pass:

| Run | Instance | Shows |
| --- | --- | --- |
| `AdoptionConcurrent` | 2 pets of two organizations, 2 rows, 2 requests, an adopter and a shelter, failing lookups | `ThroughEveryStage`, `AvailableMeansUntouched`, `AdoptedOnlyByApproval`, `OversubscriptionBounded`, under every interleaving and with pets set by hand, which the last three leave out; `OnlyTheOvertakenDeviate`, for all pets |
| `AdoptionSerial` | 3 accounts, 2 pets, 3 rows, 1 request, the seeded database | one request at a time, with lookups that work, `AdoptionService` implements `AdoptionLedger`, whose applications move along edges only and in which nobody applies twice for one pet; a pet nobody set by hand agrees with its applications |
| `Organizations` | 4 accounts, 2 organizations, one row of each other kind, 2 requests | only certified organizations act; the chain of ownership; how an account's organization may change |
| `VisitReviews` | 2 visits, 4 days, 2 requests, fair | submits and markings in every order implement `VisitBook`; no list that was marked shows a stale visit; past due leaves pending if adopters return |
| `Pages` | any one page; 2 calls (2 chains, 2 loads) at once; a pet, 2 posts, 2 organizations, an application; pages of one row; 2 comments and 2 donations; one like or comment made while a post's page is open | a list at rest answers the filter (`ListAnswersFilter`), its total its rows (`CountMatchesList`); the applications page alone stops at the review (`PageStopsAtReview`); an organization's page at rest is of one organization (`SettledPageIsOneOrg`) and shows no use of money left out (`UseShownIsOfMoneyShown`); a post's page shows what its visitor did (`OwnActionShows`); with no page open, two requests on comments count and delete right (`CommentInv`, `DeletedAtMostOnce`) |
| `RateLimiter` | 1 address, 2 calls at once, limit 2, window 2, time to 7 | admission per window and the spacing of buckets |
| `HomeCache` | 2 requests, 2 connections, 2 lists, life 2, deadline 1, time to 4 | bounded staleness, with SETs that arrive late, in any order or never |
| `Session` | 2 accounts, one of them still to register, 3 tokens, 2 requests at once | whose token a request carries, how the wrong user comes to be shown, and how a live token is lost |
| `Favorites` | 2 pets, 2 pages, 2 requests, 3 rows | what a removal removes, and that a favorite left unlit stays |
| `Profile` | 2 accounts with a text each, 2 requests, 2 saves | whose text gets into whose row, and what overlapping saves may undo |
| `Startup` | all 10 tables and 12 statements, 3 failures or stops, 2 requests | comes up whatever fails; seed order; a seed cut short is never completed; a stop ends |

The run that fails, a disagreement between a sentence of the repository and its
code:

| Run | Sentence | What the code does |
| --- | --- | --- |
| `AdoptionStaleStatus` | "transitions an application along the state machine" (`application_service.go:73`) | the later of two saves undoes the earlier: approved becomes rejected |

Bounds, and why they are enough. Two requests at once suffice for every race
above: each needs a reader and one writer that overtakes it, and slots are
reused. Two rows and two slots reach the bound of `OversubscriptionBounded`,
which counts the submits in flight. Two pets, of two organizations, exercise the
first-organization rule. Two organization ids are enough for one account's
second registration to overtake its first. In the limiter three windows fit into
the clock, so a stale reading can meet a bucket reset twice after it; two calls
and a limit of two make the bound of `WindowBound` tight, as lowering it by one
fails. In the cache an entry is stored, expires and is replaced within the
clock, and two connections let two SETs arrive in either order; the overview has
three lists where the run takes two, a first and a last, and the proofs any
number. Four days let a visit fall due, pass its due date and stay past it for a
day. Three failures of the start-up let a start fail on what a failed start left
and a server that came up after it be told to stop. Three tokens in a session are one left behind, one in use and one
of another tab; two requests let the answer to the older arrive after the newer.
Three rows of favorites
let a pet be added, removed and added again while another pet is a favorite.
Two saves of a profile are one that is overtaken and the one that overtakes it,
or one that carries a text across and one that carries it on.
A page with two calls at once has an older and a newer one, in both orders of
answer; with a table of two rows and pages of one, a list is shorter than its
table. The pages' tables are small because every answer is about one row that
passes the filter or does not: one pet is enough to come, be searched for, and
cease to pass between the two statements of a list. The client's pages share no
state but the pet store, which `ListPages` keeps between two openings of its
page, so `Pages` opens one page per behaviour: its states are the sum of the
pages' and not their product.
`MaxTime`, `MaxDay`, `MaxOrg`, `MaxLikes`, `MaxToken`, `MaxFav`, `MaxSave`,
`MaxFaults`, `MaxCalls`, `MaxLoads`, `MaxRows` and `MaxMade` are the only caps on
counters, and each is a guard of the actions that count; a limiter's `count` stops one past
the limit, since all larger values are refused alike.

`Organizations` and `Pages` do not check for deadlock: when both registrations
fail after taking the two ids, no organization is left to act, and when the
comments and likes of the instance are used up, a page at rest stays so.

## 4. Fairness

Only `VisitReviews` and `Startup` assume any. `ServerFairness` says that days
pass and that a request once started ends (`WF` of `Finish`): every round trip
returns, with a result or an error. `AdoptersReturn` (`SF` of a marking by each
adopter) says that every adopter comes back for ever and that not every marking
fails; it is an assumption about people, and needed: nothing on the server marks a
visit by itself (section 6). It is strong fairness because the slots are shared and one may be
taken whenever the adopter comes. In `Startup`, `WF_startupVars(Proceed)` says that the
container is restarted (`restart: unless-stopped`) and that each call of the
start-up returns; failures are bounded, so "once they stop, it comes up" is
what `EventuallyServing` says. It also says that the five seconds of a stop pass,
which is all `StopEnds` needs: no request under way is assumed ever to be
answered (`Answer` has no fairness).

## 5. What is proved

The proofs hold for all values of the constants that satisfy the `ASSUME`s of
the module: any number of accounts, rows, requests, any limits and lives.

- `AdoptionServiceProofs`: `InductiveInvariant`, and from it `TypeCorrect`,
  `NoStageSkipped`, `ListedPetsUntouched`, `AdoptionNeedsApproval`. None of the
  three properties is inductive by itself: a save writes a status its request
  decided on earlier, when the row may have held another. What carries over is
  `ReadsComeFromHistory`: the status a request read is one its application has
  held, and the next one is an edge from it. As histories only grow, this
  survives every interleaving, though the application's present status may
  already be elsewhere.
  `OversubscriptionLimit` counts, for a finite set of slots: a submit gets under
  way only on a pet that is available, and such a pet has no application yet
  unless somebody set it by hand; from then on each application filed is a
  submit that ends, so the two together never grow past the slots (`Bounded`).
- The ledger, in the same module. The ledger keeps `PetAgreesWithApplications`
  (`LedgerPetsAgree`) and `OneApplicationPerUserAndPet`
  (`LedgerNoSecondApplication`); the second needs `SeedUnique`, that the seed
  holds no two applications of one account for one pet.
  `DeviationsAreOvertaken` says how far the service is the ledger, for any number
  of requests at once and lookups that fail: a commit that is no step of the
  ledger is that of a request in `overtaken`, one whose pet, whose pet's
  applications or whose application another request wrote after it had read
  them, or whose failed lookup passed over an application. The invariant is
  `UnovertakenAreCurrent`: what any other request has read is still so. So a
  behaviour in which no overtaken request commits is one of the ledger
  (`UndisturbedIsLedger`), whatever else overlaps in it; nothing in the server
  makes such requests give up, and what they may do then is bounded by the
  theorems above.
- `OrganizationsProofs`: `OrgInvariant`, `CertifiedAct`, `OrgTypeCorrect`,
  `Reported`. A request under way has read an organization that was certified
  then (`ReadsWereCertified`); certifications are history and only grow. For
  `Reported` the database gives an id once (`IdsGivenOnce`), so an organization
  keeps its owner, and what a publication or a usage report has read of it still
  holds when it writes (`Owned`).
  `GivesWayToEarlier` is an action property: an account's organization is the
  first of its rows, none is deleted or changes hands (`NothingTaken`) and a step
  brings in one at most (`OneAppears`), so it only changes to one with a lower id.
- `VisitReviewsProofs`: `VisitTypeCorrect`, `NoStalePending`, `BookImplemented`
  and, carried over from the book by it, `OverdueOnlyOnceDue` and
  `SubmittedForGood`. What a list shows is right because a due date, once given,
  never changes and days only pass: a list under way that was marked on a day has
  no pending visit due before that day in its reach, and no submit or creation
  brings one. The refinement is proved step by step: midnight is `DayPasses`, a
  marking is `Mark` of the visits it flips, the save of a submit is `Submit`
  because a visit, once there, is never deleted; every read stutters.
- `ServerProofs`, the limiter: `LimiterTypeCorrect` and, by way of it,
  `BucketsFollowApart`: a reset happens only when a reading is past the bucket's
  end, so the next end is more than a window later. `WindowIsBounded` is the
  bound on admissions. Its invariant (`WindowInv`) says what each window of an
  address has let through, by whether the bucket there is was opened before the
  window, in it or after it. Buckets opened up to the window's end that reach
  into it are two at most; a bucket opened later counts a call of the window only
  if the call had read the clock before, so the calls still under way are set
  against it.
- `ServerProofs`, the home page: `HomeInvariant`, `ServedFresh`,
  `CachedCoherent`, `SlipsBack`. The invariant (`ReadsInOrder`) says that lists
  are read in order between the request's start and now, that a SET was begun
  at most a deadline after each list it carries was read, and that an entry's
  expiry is at most a life, a deadline and its SET's time on the way after that.
  That time (`lag`) is part of the bounds because nothing in the repository
  limits it: go-redis 9.6.1, used with its default options
  (`util/redis_client.go:20`), looks at the context when it takes a connection
  and then writes and reads under its own timeouts, and what it has written may
  be executed even after it has given up waiting. As far as Redis executes a
  command within those timeouts or not at all, they bound the lag.
- `ServerProofs`, the start-up: `BootInvariant`, `StartupSound`, `ListensReady`,
  `StaysCutShort`. `BootInv` says of each phase what the phases before it have
  done (`DoneBefore`): the tables before `at` while migrating and all of them
  after, exactly the statements before `at` while seeding and at least the first
  after. Much of it may have been done by an earlier process.
- `PagesProofs`, calls that overtake each other. The lists and a post's page show
  the last answer they hear, in whatever order answers come. The lemmas on
  `LateFirst`, `NewestOf` and `AllLate` serve both: the calls that a newer one has
  overtaken are the oldest, so the newest left is the one whose answer stays.
  - The comments (`CommentsInv`): `PagesComments` and `PagesDeleteOnce`, with or
    without a page open.
  - The lists (`ListInv`): `PagesListAnswers`, `PagesStopAtReview` and
    `PagesCountMatches`, for a table and a page of any size. The last compares a
    count and a page taken by two statements; that a page of the newest rows is
    full, or holds all, is `NewestFillPage`, by ranking the rows by their ids.
  - An organization's page (`OrgInv`): `PagesOneOrg` and `PagesUseOfMoneyShown`.
    Unless chains were mixed there is one at most, for the organization of the
    address; the parts before the one it has come to are filled for it, and the
    use it has shown is of donations that the total, asked for last, will count.
  - A post's page (`PostInv`): `PagesOwnActionShows`. The newest load has every
    like and comment the page was told of before it was asked for; the likes
    heard of and those still awaited are together at most the post's counter.
- `SessionProofs`: `SessionInvariant`, `SendsOwn`, `WrongUserByLateProfile` and
  `LostToOthers`. The invariant carries
  `Sound` for every request under way: the token it was sent with was issued,
  the token a log-in brings back was issued to its account, and a 401 other than
  a refused log-in's is for no token or an expired one. Whatever answer comes
  last then leaves the tab with a token of a known owner.
- `FavoritesProofs`: `FavInvariant`, `RemovesFound`, `LeftFavoriteStays`. That a
  favorite stays is not inductive by itself, since a removal under way may have
  been asked for by a page that is gone. `LeftOutOfReach` adds that while a row
  is left no star of its pet is lit and no request can remove it or light one.
- `ProfileProofs`: `ProfileInvariant`, `UnsaidKept`. A row is written from a form,
  the form filled from a store, the store from an answer, the answer from a row:
  `CarriedFits` says all along this way that a text fits the account it is under
  (its holder typed it, or the account is `exposed`), and `FoundIsCurrent` that a
  save nobody has overtaken holds the row it is about to replace.

The inductive invariants (`InductiveInv`, `OrgInv`, `WindowInv`, `HomeInv`, `BootInv`,
`CommentsInv`, `ListInv`, `PostInv` and the others above) hold for every instance by
these theorems; the runs check the properties they imply. Of the constants they
need what the modules' `ASSUME`s say: numbers are natural, and markers of absence
(`NoRow`, `NoOrg`, `NoBucket`, `NoEntry`) are told apart from what they stand
beside. `WindowIsBounded` and `OversubscriptionLimit`, which count calls and requests,
take the set of slots to be finite.

The refinements. `VisitReviews` implements `VisitBook` under the mapping of
`Book == INSTANCE VisitBook WITH ...`: a visit's status is that of its row, and it
is late once its due date has passed. The book leaves out requests, reads and
lists, so the run and the proof say that none of them shows in what the visits
do. The book's `late` is stated with the date itself, apart from the comparison
the marking makes. `AdoptionService` has the ledger's own variables, so the mapping
is the identity and `ImplementsLedger` is the ledger's specification checked as
a property: a commit is a step of the ledger, a read stutters. It holds for one
request at a time with lookups that work, which is what the run has and the
server does not ensure; with more, `OnlyTheOvertakenDeviate` says which requests
keep to it, and `AdoptionStaleStatus` shows what one that does not can do.

Model-checked only: liveness (`PastDueLeavesPending`, `EventuallyServing`,
`StopEnds`), which is beyond the prover, and what `AdoptionSerial` checks of the
service with one request slot (`ImplementsLedger`, `PetAgreesWithApplications`;
the latter is a theorem of the ledger). Every other property a passing run
checks is also a theorem.

Several properties exempt, by a history variable, what the code does get wrong:
`overtaken`, `spoilt`, `mixed`, `stale`, `exposed`, an answer whose rows
`moved`, a star carried over to another pet's page. They do not show that these
things do not happen, and the hazards that name them say so; they show that they
happen in that way only.

## 6. Not modelled, and why

- The get and statistics endpoints and the lists no page filters: they change
  nothing. The adopter's list of visits, which does, is modelled.
- Uploads: one object per request, under a name made of the clock's nanosecond and
  the file's own name.
- Pages after the first of a list: no page of the client asks for one.
- Texts, formats, logging, CORS, validation of lengths.
- The pages that post a form once or load once (`Apply.tsx`, `Donate.tsx`,
  `Home.tsx`), and the hooks no page uses (`useDonationStats`,
  `useAdoptionStats`).
- The answer to a like: the page ignores it and loads the post.
- In the profile: the avatar, which no page sets, and the bio (below).
- In the favorites: other accounts, whose rows never meet, and so another tab
  that changes the shared token between a click and its request; favorites of posts,
  which the API takes and no page offers; the button's message to a visitor who
  is not logged in.
- In the session: `setToken`, which nothing calls; the public requests, whose
  answers no token decides; and what an account's role lets it see.
- Amounts of donations and of their use, and transaction ids: nothing in the code
  compares amounts, so a total is known by the donations it counts.
- The seed's counters (`comment_count` 6 and 3 with one comment each) are the
  constant `SeedCount`; its one visit is like a visit made by `Create`.

Disagreements with the repository's own words that no run is spent on, because
they follow from one line and no order of events, or because a passing run shows
what is left of the promise:

- `application_service.go:45` answers a second application with "already
  applied", but the lookup runs before the transaction, no unique index backs
  it, and a lookup that fails counts as one that found nothing. The ledger keeps
  the promise (`LedgerNoSecondApplication`), and the service with one request at
  a time and a working lookup (`ImplementsLedger`); otherwise it takes a request
  that was overtaken (`OnlyTheOvertakenDeviate`).
- `pet_service.go:27`, "creates a pet for an approved org": the status is read
  in one round trip and the pet inserted in another, so what holds is that the
  organization has been approved (`OnlyCertifiedAct`).
- `pet_service.go:72`, "(org owner or admin)": `canManage` compares with the
  account's first organization and the route admits role org only, so an admin
  is refused, and so is the owner of an organization that is not the first.
- `review_service.go:28`, "for an approved application": `Create` never reads
  the application's status.
- `宠物领养平台.md:41`, automatic reminders and overdue marking: only the
  adopter's own list marks. `PastDueLeavesPending` needs `AdoptersReturn`.
- `README.md:19` lists three default accounts; a first start that dies after the
  first account leaves it alone for good (`CutShortStaysShort`).
- `README.md:136` has an approval make the pet adopted; a submit that read the
  pet before any application was filed still saves it as pending, over the
  adoption. `OnlyTheOvertakenDeviate`, `AdoptedOnlyByApproval` and
  `OversubscriptionBounded` are what holds of concurrent requests, `PetAgreesWithApplications` of one at a time.
- `dto/user_dto.go:23` takes a bio and `Profile.tsx:38` has a field for it; the
  server has no column for it and drops it (`user_service.go:76`).
- `README.md:145` has the counter follow the comments; a deletion does not
  decrement. `CommentInv` is what holds.
- `pages/Applications.tsx:62`, the button that moves a review on: it asks for
  approved from org_review on, which the state machine refuses
  (`PageStopsAtReview`); only the API takes an application further.
- `pages/Community.tsx:23` loads without the keyword when the type changes, while
  the search box still shows it; `ListAnswersFilter` speaks of the keyword for the
  pets' page only, which keeps it.
- `pages/OrgList.tsx:13` never sends the city that is selected, so that filter
  does nothing; `ListAnswersFilter` leaves it out.
- `pages/OrgDetail.tsx:24` picks an organization's pets from the newest twenty of
  all organizations.
- `pages/PostDetail.tsx:31` loads, after a like, the post of the address at the
  click: after going to another post in between, the page shows the first one's
  text under the second one's address. `OwnActionShows` holds but for such loads.
- `donation_service.go:29` asks for a positive amount; less than half a cent is
  rounded to 0.00 by the column (`model/donation.go:10`).
- `rate_limiter.go:19`, "token bucket": it is a fixed window, which admits
  nearly twice the limit around a reset. `WindowBound` is what holds.

## 7. Plan

Done, in the order of importance: the adoption flow with its ledger and proofs;
the limiter; visit reviews, with their book and the proof that they implement it;
comments and likes; the home cache; start-up and shutdown; organizations,
publishing and donations; the browser session with log-in and registration;
favorites; profiles; the list pages, an organization's page and a post's page.

Next, to prove: further invariants of the book and the ledger as they are stated;
the liveness of `VisitReviews` and `Startup`, should the prover come to handle
`ENABLED`.

Next, to model: a restart of the server under load, which loses the limiter's
buckets and ends all requests at once; amounts, should the code come to compare
a usage record with its donation.
