------------------------- MODULE VisitReviewsProofs -------------------------
(***************************************************************************)
(* Proofs about VisitReviews for any number of adopters, applications,     *)
(* visits and requests, any calendar and any spans: it implements          *)
(* VisitBook, and a marked list shows nothing that was past due.           *)
(***************************************************************************)
EXTENDS VisitReviews, TLAPS

\* What an accepted request has read: a submit, a visit that exists (rows are
\* never deleted); a list, that what its marking left pending is due on its day
\* or later.
Sound(x) ==
    /\ x.op = "submit" => Exists(x.review)
    /\ x.op = "list" =>
          /\ x.day <= today
          /\ x.marked => \A v \in Of(x.user) :
                review[v].status = "pending" => review[v].due >= x.day

RequestsSound == \A r \in Req : Sound(req[r])
ShownExist == \A u \in User : \A v \in shown[u].pending : Exists(v)

VisitInv == TypeOK /\ RequestsSound /\ ShownExist /\ NoStalePendingShown

-----------------------------------------------------------------------------
LEMMA RequestKinds ==
    ASSUME TypeOK, NEW r \in Req
    PROVE  /\ req[r] \in {Idle} \cup SubmitReq \cup ListReq
           /\ req[r].op = "submit" => req[r] \in SubmitReq
           /\ req[r].op = "list" => req[r] \in ListReq
BY DEF TypeOK, Idle, SubmitReq, ListReq

LEMMA RowsTyped ==
    ASSUME TypeOK, NEW v \in Review
    PROVE  Exists(v) => review[v] \in Row
BY DEF TypeOK, Exists

\* The row a schedule makes is due after today.
LEMMA Span ==
    ASSUME NEW d \in Days
    PROVE  Scheduled(d) \in Nat \ {0}
BY ReviewAssumption DEF Scheduled

-----------------------------------------------------------------------------
(* How a step changes the rows.  A step is one of four: the rows and the day *)
(* stay, a day passes, or one of the three writes.                           *)

LEMMA CreateRows ==
    ASSUME VisitInv, NEW x \in Review, NEW a \in App, NEW d \in Days, Create(x, a, d)
    PROVE  /\ ~Exists(x) /\ Exists(x)'
           /\ review' \in [Review -> Row \cup {NoRow}]
           /\ review'[x].status = "pending" /\ review'[x].due > today
           /\ \A v \in Review \ {x} : review'[v] = review[v]
<1>. DEFINE row == [app |-> a, user |-> AppUser[a], due |-> today + Scheduled(d),
                    status |-> "pending", note |-> NoNote]
<1>1. today \in Nat /\ Scheduled(d) \in Nat \ {0}
  BY Span, ReviewAssumption DEF VisitInv, TypeOK
<1>2. row \in Row /\ row.status = "pending" /\ row.due > today
  BY <1>1, ReviewAssumption DEF Row, ReviewStatus
<1>3. review \in [Review -> Row \cup {NoRow}] /\ review' = [review EXCEPT ![x] = row] /\ ~Exists(x)
  BY DEF VisitInv, TypeOK, Create
<1>. HIDE DEF row
<1>. QED
  BY <1>2, <1>3, NoRowAssumption DEF Exists

LEMMA SubmitRows ==
    ASSUME VisitInv, NEW r \in Req, SubmitSave(r)
    PROVE  \E x \in Review :
              /\ x = req[r].review /\ Exists(x) /\ Exists(x)'
              /\ review' \in [Review -> Row \cup {NoRow}]
              /\ review'[x].status = "submitted"
              /\ review'[x].due = review[x].due /\ review'[x].user = review[x].user
              /\ \A v \in Review \ {x} : review'[v] = review[v]
<1>1. req[r] \in SubmitReq /\ Exists(req[r].review)
  BY RequestKinds DEF SubmitSave, VisitInv, RequestsSound, Sound, SubmitReq
<1>2. PICK x \in Review : x = req[r].review /\ Exists(x)
  BY <1>1 DEF SubmitReq
<1>3. review \in [Review -> Row \cup {NoRow}] /\ review[x] \in Row /\ req[r].note \in Note
  BY <1>1, <1>2, RowsTyped DEF VisitInv, TypeOK, SubmitReq
<1>. DEFINE row == [[review[x] EXCEPT !.status = "submitted"] EXCEPT !.note = req[r].note]
<1>4. review' = [review EXCEPT ![x] = row]
  BY <1>2, <1>3 DEF SubmitSave
<1>5. row \in Row /\ row.status = "submitted" /\ row.due = review[x].due /\ row.user = review[x].user
  BY <1>3 DEF Row, ReviewStatus
<1>. HIDE DEF row
<1>6. review'[x] = row /\ row # NoRow
  BY <1>3, <1>4, <1>5, NoRowAssumption
<1>. QED
  BY <1>2, <1>3, <1>4, <1>5, <1>6 DEF Exists

LEMMA MarkRows ==
    ASSUME VisitInv, NEW r \in Req, NEW u \in User, ListMark(r, u)
    PROVE  /\ review' \in [Review -> Row \cup {NoRow}]
           /\ \A v \in Review :
                 /\ Exists(v)' <=> Exists(v)
                 /\ Exists(v) => /\ review'[v].due = review[v].due
                                 /\ review'[v].user = review[v].user
                 /\ review'[v].status = IF v \in Of(u) /\ review[v].status = "pending" /\ PastDue(v)
                                        THEN "overdue" ELSE review[v].status
<1>1. review \in [Review -> Row \cup {NoRow}] /\ review' = MarkedOverdue(u)
  BY DEF VisitInv, TypeOK, ListMark
<1>2. ASSUME NEW v \in Review
      PROVE  LET marked == [review[v] EXCEPT !.status = "overdue"]
             IN  Exists(v) => /\ marked \in Row /\ marked # NoRow /\ marked.status = "overdue"
                              /\ marked.due = review[v].due /\ marked.user = review[v].user
  BY RowsTyped, NoRowAssumption DEF VisitInv, Row, ReviewStatus
<1>3. \A v \in Of(u) : Exists(v) /\ v \in Review
  BY DEF Of
<1>. QED
  BY <1>1, <1>2, <1>3 DEF MarkedOverdue, Exists

-----------------------------------------------------------------------------
(* The invariant. *)

LEMMA InitInv == Init => VisitInv
<1>. SUFFICES ASSUME Init PROVE VisitInv
  OBVIOUS
<1>1. TypeOK
  BY ReviewAssumption DEF Init, TypeOK, Answer
<1>. QED
  BY <1>1 DEF Init, VisitInv, RequestsSound, Sound, ShownExist, NoStalePendingShown, Idle

\* Rows come with a due date after today, lose "pending", and keep the rest.
RowsKept ==
    \A v \in Review :
        /\ Exists(v) => /\ Exists(v)'
                        /\ review'[v].due = review[v].due /\ review'[v].user = review[v].user
                        /\ review'[v].status = "pending" => review[v].status = "pending"
        /\ ~Exists(v) /\ Exists(v)' => review'[v].due >= today

Kinds == {Idle} \cup SubmitReq \cup ListReq

LEMMA SoundStays ==
    ASSUME VisitInv, RowsKept, review' \in [Review -> Row \cup {NoRow}],
           today' \in today .. MaxDay, NEW x \in Kinds, Sound(x)
    PROVE  Sound(x)'
<1>1. today \in Nat /\ today' \in Nat /\ today <= today'
  BY ReviewAssumption DEF VisitInv, TypeOK
<1>2. CASE x.op = "submit"
  BY <1>2 DEF Sound, Kinds, RowsKept, Idle, SubmitReq, ListReq
<1>3. CASE x.op = "list"
  <2>1. x \in ListReq /\ x.day \in Nat /\ x.day <= today
    BY <1>3, ReviewAssumption DEF Kinds, Sound, Idle, SubmitReq, ListReq
  <2>2. ASSUME x.marked, NEW v \in Of(x.user)', review'[v].status = "pending"
        PROVE  review'[v].due >= x.day
    <3>1. v \in Review /\ Exists(v)' /\ review'[v].user = x.user
      BY <2>2 DEF Of
    <3>2. CASE Exists(v)
      BY <2>2, <3>1, <3>2, <1>3 DEF RowsKept, Sound, Of
    <3>3. CASE ~Exists(v)
      <4>1. review'[v] \in Row /\ review'[v].due \in Nat /\ review'[v].due >= today
        BY <3>1, <3>3 DEF RowsKept, Exists, Row
      <4>. QED
        BY <4>1, <2>1, <1>1
    <3>. QED
      BY <3>2, <3>3
  <2>. QED
    BY <2>1, <2>2, <1>1, <1>3 DEF Sound
<1>4. CASE x.op \notin {"submit", "list"}
  BY <1>4 DEF Sound
<1>. QED
  BY <1>2, <1>3, <1>4

LEMMA ShownStays ==
    ASSUME VisitInv, RowsKept, UNCHANGED shown
    PROVE  ShownExist' /\ NoStalePendingShown'
BY DEF VisitInv, TypeOK, Answer, RowsKept, ShownExist, NoStalePendingShown

\* A step that writes rows so, and leaves each request as it was or sound.
LEMMA KeptStep ==
    ASSUME VisitInv, RowsKept, review' \in [Review -> Row \cup {NoRow}],
           today' \in today .. MaxDay, UNCHANGED shown, req' \in [Req -> Kinds],
           \A b \in Req : req'[b] = req[b] \/ Sound(req[b])'
    PROVE  VisitInv'
<1>1. TypeOK'
  BY ReviewAssumption DEF VisitInv, TypeOK, Kinds
<1>2. \A b \in Req : Sound(req[b])'
  <2>. SUFFICES ASSUME NEW b \in Req, req'[b] = req[b] PROVE Sound(req[b])'
    OBVIOUS
  <2>1. PICK x \in Kinds : x = req[b] /\ x = req'[b] /\ Sound(x)
    BY DEF VisitInv, TypeOK, Kinds, RequestsSound
  <2>. QED
    BY <2>1, SoundStays DEF Sound
<1>. QED
  BY <1>1, <1>2, ShownStays DEF VisitInv, RequestsSound

LEMMA RowsUntouched ==
    ASSUME VisitInv, UNCHANGED review
    PROVE  RowsKept /\ review' \in [Review -> Row \cup {NoRow}]
BY DEF RowsKept, Exists, VisitInv, TypeOK

LEMMA TodayUntouched ==
    ASSUME VisitInv, UNCHANGED today
    PROVE  today' \in today .. MaxDay
BY ReviewAssumption DEF VisitInv, TypeOK

LEMMA SlotWritten ==
    ASSUME VisitInv, NEW r \in Req, NEW x \in Kinds, req' = [req EXCEPT ![r] = x]
    PROVE  req' \in [Req -> Kinds] /\ req'[r] = x /\ \A b \in Req \ {r} : req'[b] = req[b]
BY DEF VisitInv, TypeOK, Kinds

LEMMA CreateStep ==
    ASSUME VisitInv, NEW x \in Review, NEW a \in App, NEW d \in Days, Create(x, a, d)
    PROVE  VisitInv'
<1>1. review' \in [Review -> Row \cup {NoRow}]
  BY CreateRows
<1>2. RowsKept
  <2>1. review'[x].due >= today
    <3>1. review'[x] \in Row /\ review'[x].due \in Nat /\ review'[x].due > today
      BY CreateRows DEF Exists, Row
    <3>. QED
      BY <3>1 DEF VisitInv, TypeOK
  <2>. QED
    BY <2>1, CreateRows DEF RowsKept, Exists
<1>3. UNCHANGED <<today, req, shown>>
  BY DEF Create
<1>. QED
  BY <1>1, <1>2, <1>3, KeptStep, TodayUntouched DEF VisitInv, TypeOK, Kinds

LEMMA SubmitFindStep ==
    ASSUME VisitInv, NEW r \in Req, NEW u \in User, NEW v \in Review, NEW n \in Note,
           SubmitFind(r, u, v, n)
    PROVE  VisitInv'
<1>. DEFINE x == [op |-> "submit", review |-> v, note |-> n]
<1>1. x \in Kinds /\ req' = [req EXCEPT ![r] = x] /\ UNCHANGED <<today, review, shown>> /\ Exists(v)
  BY DEF SubmitFind, Kinds, SubmitReq, Of
<1>2. req'[r] = x
  BY <1>1, SlotWritten
<1>3. Sound(req[r])'
  BY <1>1, <1>2 DEF Sound, Exists
<1>. QED
  BY <1>1, <1>3, SlotWritten, RowsUntouched, TodayUntouched, KeptStep

LEMMA SubmitSaveStep ==
    ASSUME VisitInv, NEW r \in Req, SubmitSave(r)
    PROVE  VisitInv'
<1>1. PICK x \in Review :
         /\ Exists(x) /\ Exists(x)'
         /\ review' \in [Review -> Row \cup {NoRow}]
         /\ review'[x].status = "submitted"
         /\ review'[x].due = review[x].due /\ review'[x].user = review[x].user
         /\ \A v \in Review \ {x} : review'[v] = review[v]
  BY SubmitRows
<1>2. RowsKept
  BY <1>1 DEF RowsKept, Exists
<1>3. Idle \in Kinds /\ req' = [req EXCEPT ![r] = Idle] /\ UNCHANGED <<today, shown>>
  BY DEF SubmitSave, Kinds
<1>4. Sound(req[r])'
  BY <1>3, SlotWritten DEF Sound, Idle
<1>. QED
  BY <1>1, <1>2, <1>3, <1>4, SlotWritten, TodayUntouched, KeptStep

LEMMA ListMarkStep ==
    ASSUME VisitInv, NEW r \in Req, NEW u \in User, ListMark(r, u)
    PROVE  VisitInv'
<1>. DEFINE x == [op |-> "list", user |-> u, marked |-> TRUE, day |-> today]
<1>1. x \in Kinds /\ req' = [req EXCEPT ![r] = x] /\ UNCHANGED <<today, shown>>
  BY ReviewAssumption DEF ListMark, Kinds, ListReq, VisitInv, TypeOK
<1>2. RowsKept
  BY MarkRows DEF RowsKept
<1>3. ASSUME NEW v \in Of(u)', review'[v].status = "pending" PROVE review'[v].due >= today
  <2>1. v \in Review /\ Exists(v) /\ review'[v].user = u /\ review[v].user = u
    BY MarkRows DEF Of
  <2>2. review[v] \in Row /\ review[v].due \in Nat /\ today \in Nat /\ review'[v].due = review[v].due
    BY <2>1, RowsTyped, MarkRows, ReviewAssumption DEF VisitInv, TypeOK, Row
  <2>3. ~(review[v].status = "pending" /\ PastDue(v)) /\ review[v].status = review'[v].status
    BY <1>3, <2>1, MarkRows DEF Of
  <2>. QED
    BY <1>3, <2>2, <2>3 DEF PastDue
<1>4. Sound(req[r])'
  <2>1. req'[r] = x /\ today' = today /\ today <= today
    BY <1>1, SlotWritten, ReviewAssumption DEF VisitInv, TypeOK
  <2>. QED
    BY <2>1, <1>3 DEF Sound
<1>. QED
  BY <1>1, <1>2, <1>4, MarkRows, SlotWritten, TodayUntouched, KeptStep

LEMMA ListMarkFailsStep ==
    ASSUME VisitInv, NEW r \in Req, NEW u \in User, ListMarkFails(r, u)
    PROVE  VisitInv'
<1>. DEFINE x == [op |-> "list", user |-> u, marked |-> FALSE, day |-> today]
<1>1. x \in Kinds /\ req' = [req EXCEPT ![r] = x] /\ UNCHANGED <<today, review, shown>>
  BY ReviewAssumption DEF ListMarkFails, Kinds, ListReq, VisitInv, TypeOK
<1>2. req'[r] = x /\ today' = today /\ today <= today
  BY <1>1, SlotWritten, ReviewAssumption DEF VisitInv, TypeOK
<1>3. Sound(req[r])'
  BY <1>2 DEF Sound
<1>. QED
  BY <1>1, <1>3, SlotWritten, RowsUntouched, TodayUntouched, KeptStep

LEMMA RequestFailsStep ==
    ASSUME VisitInv, NEW r \in Req, RequestFails(r)
    PROVE  VisitInv'
<1>1. Idle \in Kinds /\ req' = [req EXCEPT ![r] = Idle] /\ UNCHANGED <<today, review, shown>>
  BY DEF RequestFails, Kinds
<1>2. Sound(req[r])'
  BY <1>1, SlotWritten DEF Sound, Idle
<1>. QED
  BY <1>1, <1>2, SlotWritten, RowsUntouched, TodayUntouched, KeptStep

LEMMA MidnightStep ==
    ASSUME VisitInv, Midnight
    PROVE  VisitInv'
<1>1. today' \in today .. MaxDay /\ UNCHANGED <<review, req, shown>>
  BY ReviewAssumption DEF Midnight, VisitInv, TypeOK
<1>. QED
  BY <1>1, RowsUntouched, KeptStep DEF VisitInv, TypeOK, Kinds

\* The answer shows what the marking left pending, and no later schedule is due
\* before it.
LEMMA ListFetchStep ==
    ASSUME VisitInv, NEW r \in Req, ListFetch(r)
    PROVE  VisitInv'
<1>. DEFINE u == req[r].user
            answer == [pending |-> {v \in Of(u) : review[v].status = "pending"},
                       marked  |-> req[r].marked, day |-> req[r].day]
<1>1. req[r] \in ListReq /\ u \in User /\ Sound(req[r]) /\ req[r].op = "list"
  BY RequestKinds DEF VisitInv, RequestsSound, ListFetch, ListReq
<1>2. answer \in Answer /\ \A v \in answer.pending : Exists(v)
  BY <1>1 DEF Answer, ListReq, Of
<1>3. answer.marked => \A v \in answer.pending : review[v].due >= answer.day
  BY <1>1 DEF Sound
<1>4. shown' = [shown EXCEPT ![u] = answer] /\ UNCHANGED <<today, review>>
      /\ Idle \in Kinds /\ req' = [req EXCEPT ![r] = Idle]
  BY DEF ListFetch, Kinds
<1>. HIDE DEF answer
<1>5. \A w \in User : shown'[w] \in {shown[w], answer}
  BY <1>1, <1>4 DEF VisitInv, TypeOK
<1>6. TypeOK'
  BY <1>1, <1>2, <1>4, SlotWritten DEF VisitInv, TypeOK, Kinds
<1>7. ShownExist' /\ NoStalePendingShown'
  BY <1>2, <1>3, <1>4, <1>5 DEF VisitInv, ShownExist, NoStalePendingShown, Exists
<1>8. RequestsSound'
  <2>. SUFFICES ASSUME NEW b \in Req PROVE Sound(req[b])'
    BY DEF RequestsSound
  <2>1. CASE b = r
    BY <2>1, <1>4, SlotWritten DEF Sound, Idle
  <2>2. CASE b # r
    <3>1. PICK x \in Kinds : x = req[b] /\ x = req'[b] /\ Sound(x)
      BY <2>2, <1>4, SlotWritten DEF VisitInv, TypeOK, Kinds, RequestsSound
    <3>. QED
      BY <3>1, <1>4 DEF Sound, Exists, Of
  <2>. QED
    BY <2>1, <2>2
<1>. QED
  BY <1>6, <1>7, <1>8 DEF VisitInv

LEMMA NextInv == VisitInv /\ [Next]_vars => VisitInv'
<1>. SUFFICES ASSUME VisitInv, [Next]_vars PROVE VisitInv'
  OBVIOUS
<1>1. CASE Next
  BY <1>1, MidnightStep, CreateStep, SubmitFindStep, SubmitSaveStep, ListMarkStep,
     ListMarkFailsStep, ListFetchStep, RequestFailsStep DEF Next, Finish
<1>2. CASE UNCHANGED vars
  BY <1>2, RowsUntouched, TodayUntouched, KeptStep DEF vars, VisitInv, TypeOK, Kinds
<1>. QED
  BY <1>1, <1>2

\* Every value stays in its type, whatever the adopters and the calendar do.
THEOREM VisitTypeCorrect == Spec => []TypeOK
<1>1. VisitInv => TypeOK
  BY DEF VisitInv
<1>. QED
  BY <1>1, InitInv, NextInv, PTL DEF Spec

\* A list answered after its marking shows as pending nothing that was past
\* due when it was marked, however submits, schedules and midnights fall.
THEOREM NoStalePending == Spec => []NoStalePendingShown
<1>1. VisitInv => NoStalePendingShown
  BY DEF VisitInv
<1>. QED
  BY <1>1, InitInv, NextInv, PTL DEF Spec

-----------------------------------------------------------------------------
(* The rows, seen as a VisitBook. *)

LEMMA BookInit == Init => Book!Init
BY DEF Init, Book!Init, Exists

\* Each step is a step of the book or leaves it alone.
LEMMA BookMidnight ==
    ASSUME VisitInv, Midnight
    PROVE  Book!DayPasses
<1>1. today \in Nat /\ today' = today + 1 /\ review' = review
  BY DEF Midnight, VisitInv, TypeOK
<1>2. \A v \in Review : Exists(v) => review[v].due \in Nat /\ review[v].status # "none"
  BY RowsTyped DEF VisitInv, Row, ReviewStatus
<1>3. \A v \in Review : Exists(v) /\ review[v].due < today => review[v].due < today + 1
  BY <1>1, <1>2
<1>4. UNCHANGED [v \in Review |-> IF Exists(v) THEN review[v].status ELSE "none"]
  BY <1>1 DEF Exists
<1>5. ASSUME NEW v \in Review
      PROVE  Exists(v) /\ today > review[v].due => Exists(v)' /\ today' > review'[v].due
  BY <1>1, <1>2, <1>3 DEF Exists
<1>6. [v \in Review |-> Exists(v)' /\ today' > review'[v].due] \in [Review -> BOOLEAN]
  BY DEF Exists
<1>7. ASSUME NEW v \in Review, Exists(v)' PROVE Exists(v) /\ review[v].status # "none"
  BY <1>1, <1>2, <1>7 DEF Exists
<1>. QED
  BY <1>4, <1>5, <1>6, <1>7 DEF Book!DayPasses

LEMMA BookCreate ==
    ASSUME VisitInv, NEW x \in Review, NEW a \in App, NEW d \in Days, Create(x, a, d)
    PROVE  Book!Schedule(x)
<1>1. /\ ~Exists(x) /\ Exists(x)' /\ review'[x].status = "pending"
      /\ review'[x] \in Row /\ review'[x].due > today
      /\ \A v \in Review \ {x} : review'[v] = review[v]
  BY CreateRows DEF Exists
<1>2. today' = today /\ today \in Nat /\ review'[x].due \in Nat
  BY <1>1 DEF Create, VisitInv, TypeOK, Row
<1>3. ~PastDue(x)'
  BY <1>1, <1>2 DEF PastDue
<1>. QED
  BY <1>1, <1>2, <1>3 DEF Book!Schedule, Exists, PastDue

LEMMA BookSubmit ==
    ASSUME VisitInv, NEW r \in Req, SubmitSave(r)
    PROVE  \E x \in Review : Book!Submit(x)
<1>1. PICK x \in Review :
         /\ Exists(x) /\ Exists(x)'
         /\ review'[x].status = "submitted" /\ review'[x].due = review[x].due
         /\ \A v \in Review \ {x} : review'[v] = review[v]
  BY SubmitRows
<1>2. today' = today /\ review[x].status # "none"
  BY <1>1, RowsTyped DEF SubmitSave, VisitInv, Row, ReviewStatus
<1>3. Book!Submit(x)
  BY <1>1, <1>2 DEF Book!Submit, Exists, PastDue
<1>. QED
  BY <1>3

LEMMA BookMark ==
    ASSUME VisitInv, NEW r \in Req, NEW u \in User, ListMark(r, u)
    PROVE  \E S \in SUBSET Review : Book!Mark(S)
<1>1. PICK S \in SUBSET Review :
         /\ S = {v \in Of(u) : review[v].status = "pending" /\ PastDue(v)}
         /\ \A v \in S : Exists(v)
  <2>1. {v \in Of(u) : review[v].status = "pending" /\ PastDue(v)} \in SUBSET Review
        /\ \A v \in Of(u) : Exists(v)
    BY DEF Of
  <2>. QED
    BY <2>1
<1>2. today' = today
  BY DEF ListMark
<1>3. Book!Mark(S)
  BY <1>1, <1>2, MarkRows DEF Book!Mark, Exists, PastDue
<1>. QED
  BY <1>1, <1>3

LEMMA BookStep == VisitInv /\ [Next]_vars => [Book!Next]_(Book!vars)
<1>. SUFFICES ASSUME VisitInv, [Next]_vars PROVE [Book!Next]_(Book!vars)
  OBVIOUS
<1>1. CASE Midnight
  BY <1>1, BookMidnight DEF Book!Next
<1>2. ASSUME NEW v \in Review, NEW a \in App, NEW days \in Days, Create(v, a, days)
      PROVE  Book!Next
  BY <1>2, BookCreate DEF Book!Next
<1>3. ASSUME NEW r \in Req, SubmitSave(r) PROVE Book!Next
  BY <1>3, BookSubmit DEF Book!Next
<1>4. ASSUME NEW r \in Req, NEW u \in User, ListMark(r, u) PROVE Book!Next
  BY <1>4, BookMark DEF Book!Next
<1>5. CASE UNCHANGED <<today, review>>
  BY <1>5 DEF Book!vars, Exists
<1>. QED
  BY <1>1, <1>2, <1>3, <1>4, <1>5
     DEF Next, Finish, SubmitFind, ListMarkFails, ListFetch, RequestFails, vars

\* However requests overlap, the rows keep the promises of VisitBook.
THEOREM BookImplemented == Spec => ImplementsBook
BY InitInv, NextInv, BookInit, BookStep, PTL DEF Spec, ImplementsBook, Book!Spec

\* No visit is overdue before its due date has passed.
THEOREM OverdueOnlyOnceDue == Spec => []Book!OverdueOnlyPastDue
<1>1. Book!Init => Book!OverdueOnlyPastDue
  BY DEF Book!Init, Book!OverdueOnlyPastDue
<1>2. Book!OverdueOnlyPastDue /\ [Book!Next]_(Book!vars) => Book!OverdueOnlyPastDue'
  BY DEF Book!OverdueOnlyPastDue, Book!Next, Book!vars, Book!Schedule, Book!Submit,
         Book!DayPasses, Book!Mark
<1>. QED
  BY <1>1, <1>2, InitInv, NextInv, BookInit, BookStep, PTL DEF Spec

\* A submitted visit stays submitted, and none goes back to pending.
THEOREM SubmittedForGood == Spec => Book!SubmittedStays
<1>1. [Book!Next]_(Book!vars) => [Book!KeepsSubmitted]_(Book!vars)
  BY DEF Book!Next, Book!vars, Book!Schedule, Book!Submit, Book!DayPasses, Book!Mark,
         Book!KeepsSubmitted
<1>. QED
  BY <1>1, InitInv, NextInv, BookStep, PTL DEF Spec, Book!SubmittedStays
=============================================================================
