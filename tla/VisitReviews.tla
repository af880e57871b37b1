----------------------------- MODULE VisitReviews -----------------------------
(***************************************************************************)
(* Follow-up visits (service/review_service.go): an organization schedules *)
(* a visit for an application, the adopter submits it, and the adopter's   *)
(* own list request first marks what is past due.  Submit reads a row and  *)
(* saves it whole later; marking is one UPDATE with its condition inside.  *)
(***************************************************************************)
EXTENDS Integers, FiniteSets

CONSTANTS
    User,         \* adopters
    App,          \* applications, all filed
    AppUser,      \* AppUser[a], the adopter who filed application a
    Review,       \* identifiers of visit rows
    Days,         \* values of scheduled_days a request may carry
    DefaultDays,  \* scheduled_days when the request's is not positive
    Note,         \* contents an adopter may submit
    NoNote, NoRow,
    Req,          \* request slots
    MaxDay        \* bound on the calendar

ASSUME ReviewAssumption ==
    /\ AppUser \in [App -> User]
    /\ Days \subseteq Int /\ DefaultDays \in Nat \ {0} /\ MaxDay \in Nat
    /\ NoNote \notin Note

VARIABLES
    today,        \* the date, the granularity of the due_date column
    review,       \* rows of visit_reviews
    req,          \* what each request slot has read
    shown         \* the answer each adopter's last list request got

vars == <<today, review, req, shown>>

ReviewStatus == {"pending", "submitted", "overdue"}

\* The span a visit is scheduled with.
Scheduled(days) == IF days <= 0 THEN DefaultDays ELSE days
Row == [app : App, user : User, due : Nat, status : ReviewStatus,
        note : Note \cup {NoNote}]

ASSUME NoRowAssumption == NoRow \notin Row

Idle == [op |-> "idle"]
SubmitReq == [op : {"submit"}, review : Review, note : Note]
ListReq == [op : {"list"}, user : User, marked : BOOLEAN, day : 0 .. MaxDay]

\* A list answer: the visits still pending in it, whether the marking that
\* preceded it succeeded, and on which day that was.
Answer == [pending : SUBSET Review, marked : BOOLEAN, day : 0 .. MaxDay]

Exists(v) == review[v] # NoRow
Of(u) == {v \in Review : Exists(v) /\ review[v].user = u}

\* Deliberately wrong: the day a visit is due counts as past it.
PastDueOnTheDay(v) == review[v].due <= today

PastDue(v) == review[v].due < today

TypeOK ==
    /\ today \in 0 .. MaxDay
    /\ review \in [Review -> Row \cup {NoRow}]
    /\ req \in [Req -> {Idle} \cup SubmitReq \cup ListReq]
    /\ shown \in [User -> Answer]

Init ==
    /\ today = 0
    /\ review = [v \in Review |-> NoRow]
    /\ req = [r \in Req |-> Idle]
    /\ shown = [u \in User |-> [pending |-> {}, marked |-> FALSE, day |-> 0]]

-----------------------------------------------------------------------------
Midnight ==
    /\ today < MaxDay
    /\ today' = today + 1
    /\ UNCHANGED <<review, req, shown>>

\* POST /reviews: the application is looked up for its adopter; its status is
\* not looked at.
Create(v, a, days) ==
    /\ ~Exists(v)
    /\ review' = [review EXCEPT ![v] =
          [app |-> a, user |-> AppUser[a], due |-> today + Scheduled(days),
           status |-> "pending", note |-> NoNote]]
    /\ UNCHANGED <<today, req, shown>>

\* PUT /reviews/:id/submit: read the row and check its owner ...
SubmitFind(r, u, v, n) ==
    /\ req[r] = Idle
    /\ v \in Of(u)
    /\ req' = [req EXCEPT ![r] = [op |-> "submit", review |-> v, note |-> n]]
    /\ UNCHANGED <<today, review, shown>>

\* ... then save it, submitted, whatever happened to it meanwhile.
SubmitSave(r) ==
    /\ req[r].op = "submit"
    /\ review' = [review EXCEPT ![req[r].review].status = "submitted",
                                ![req[r].review].note = req[r].note]
    /\ req' = [req EXCEPT ![r] = Idle]
    /\ UNCHANGED <<today, shown>>

\* Deliberately wrong: only visits due exactly yesterday are flipped.
MarkedOverdueYesterday(u) ==
    [v \in Review |-> IF v \in Of(u) /\ review[v].status = "pending" /\ review[v].due = today - 1
                      THEN [review[v] EXCEPT !.status = "overdue"] ELSE review[v]]

\* The rows after one UPDATE of an adopter's pending visits past due.
MarkedOverdue(u) ==
    [v \in Review |-> IF v \in Of(u) /\ review[v].status = "pending" /\ PastDue(v)
                      THEN [review[v] EXCEPT !.status = "overdue"] ELSE review[v]]

\* GET /reviews/me: mark first ...
ListMark(r, u) ==
    /\ req[r] = Idle
    /\ review' = MarkedOverdue(u)
    /\ req' = [req EXCEPT ![r] = [op |-> "list", user |-> u, marked |-> TRUE, day |-> today]]
    /\ UNCHANGED <<today, shown>>

\* (a failed marking is only logged) ...
ListMarkFails(r, u) ==
    /\ req[r] = Idle
    /\ req' = [req EXCEPT ![r] = [op |-> "list", user |-> u, marked |-> FALSE, day |-> today]]
    /\ UNCHANGED <<today, review, shown>>

\* ... then read the list.
ListFetch(r) ==
    /\ req[r].op = "list"
    /\ shown' = [shown EXCEPT ![req[r].user] =
          [pending |-> {v \in Of(req[r].user) : review[v].status = "pending"},
           marked  |-> req[r].marked,
           day     |-> req[r].day]]
    /\ req' = [req EXCEPT ![r] = Idle]
    /\ UNCHANGED <<today, review>>

\* A request ends early, on a database error or a stop of the server.
RequestFails(r) ==
    /\ req[r] # Idle
    /\ req' = [req EXCEPT ![r] = Idle]
    /\ UNCHANGED <<today, review, shown>>

Finish(r) == SubmitSave(r) \/ ListFetch(r) \/ RequestFails(r)

Next ==
    \/ Midnight
    \/ \E v \in Review, a \in App, days \in Days : Create(v, a, days)
    \/ \E r \in Req :
          \/ \E u \in User, v \in Review, n \in Note : SubmitFind(r, u, v, n)
          \/ \E u \in User : ListMark(r, u)
          \/ \E u \in User : ListMarkFails(r, u)
          \/ Finish(r)

Spec == Init /\ [][Next]_vars

\* The server finishes what it starts, and days pass.
ServerFairness == WF_vars(Midnight) /\ \A r \in Req : WF_vars(Finish(r))

\* In addition every adopter keeps opening the page that lists the visits
\* (its effect runs load on every mount), and the marking does not fail
\* every time.
AdoptersReturn == \A u \in User : SF_vars(\E r \in Req : ListMark(r, u))

FairSpec == Spec /\ ServerFairness
ReturningSpec == FairSpec /\ AdoptersReturn

-----------------------------------------------------------------------------
\* However requests overlap, the rows keep the promises of VisitBook: a marking
\* between the read and the save of a submit neither undoes the submit nor is
\* undone in favour of pending, and only what is past due is ever overdue: a
\* visit is late in the book from the day after the one it is due on.
Book == INSTANCE VisitBook WITH
    status <- [v \in Review |-> IF Exists(v) THEN review[v].status ELSE "none"],
    late   <- [v \in Review |-> Exists(v) /\ today > review[v].due]
ImplementsBook == Book!Spec

\* An adopter's list never shows as pending a visit that was past due when the
\* marking before it ran: submits and creations in between cannot bring one in.
NoStalePendingShown ==
    \A u \in User : shown[u].marked =>
        \A v \in shown[u].pending : review[v].due >= shown[u].day

\* While the adopter keeps returning, a visit past due does not stay pending.
PendingPastDue(v) == Exists(v) /\ review[v].status = "pending" /\ PastDue(v)
PastDueLeavesPending == \A v \in Review : PendingPastDue(v) ~> ~PendingPastDue(v)
=============================================================================
