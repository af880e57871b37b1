------------------------ MODULE AdoptionServiceProofs ------------------------
(***************************************************************************)
(* Proofs about AdoptionService for any number of accounts, pets,          *)
(* applications and concurrent requests, and about the promises of its     *)
(* ledger.                                                                 *)
(***************************************************************************)
EXTENDS AdoptionService, FiniteSetTheorems, TLAPS

\* A forward edge leads to a status whose stages are those of its source, and
\* the source itself (NextApplicationStatuses of constants/application.go).
LEMMA EdgeStages ==
    ASSUME NEW s \in AppStatus, NEW t \in NextApplicationStatuses(s)
    PROVE  /\ t \in AppStatus
           /\ StagesBefore(t) \subseteq StagesBefore(s) \cup {s}
<1>1. t \in AppStatus /\ <<s, t>> \in AppEdge
  BY DEF NextApplicationStatuses
<1>2. StagesBefore(t) \subseteq StagesBefore(s) \cup {s}
  BY <1>1 DEF AppEdge, StagesBefore
<1>. QED
  BY <1>1, <1>2

\* The initial states satisfy the invariant, with or without seed data.
LEMMA InitInductive == Init => InductiveInv
<1>. SUFFICES ASSUME Init PROVE InductiveInv
  OBVIOUS
<1>1. TypeOK
  BY LedgerAssumption DEF Init, LedgerInit, TypeOK, LedgerTypeOK, Row, AppStatus, PetStatus
<1>2. ReadsComeFromHistory
  BY LedgerAssumption DEF Init, LedgerInit, ReadsComeFromHistory, Filed, Idle
<1>3. ThroughEveryStage
  BY DEF Init, LedgerInit, ThroughEveryStage, StagesBefore
<1>4. AvailableMeansUntouched
  BY DEF Init, LedgerInit, AvailableMeansUntouched, FiledFor, Filed
<1>5. AdoptedOnlyByApproval
  BY DEF Init, LedgerInit, AdoptedOnlyByApproval
<1>. QED
  BY <1>1, <1>2, <1>3, <1>4, <1>5 DEF InductiveInv

\* A step that leaves the two tables and the histories alone and only moves a
\* request between phases keeps the table parts of the invariant.
LEMMA TablesUnchanged ==
    ASSUME UNCHANGED <<petStatus, app, held, byHand>>
    PROVE  /\ ThroughEveryStage => ThroughEveryStage'
           /\ AvailableMeansUntouched => AvailableMeansUntouched'
           /\ AdoptedOnlyByApproval => AdoptedOnlyByApproval'
BY DEF ThroughEveryStage, AvailableMeansUntouched, AdoptedOnlyByApproval, FiledFor, Filed

\* Reading the pet, either outcome of the duplicate lookup, and a failure put
\* a request in a phase that claims nothing about an application.
LEMMA ReadingStep ==
    ASSUME InductiveInv, overtaken' \in SUBSET Req, NEW r \in Req,
           NEW x \in {Idle} \cup SubmitReq,
           req' = [req EXCEPT ![r] = x],
           UNCHANGED <<petStatus, app, held, byHand>>
    PROVE  InductiveInv'
<1>1. TypeOK'
  BY DEF InductiveInv, TypeOK, LedgerTypeOK
<1>2. x.op # "status"
  BY DEF Idle, SubmitReq
<1>3. ReadsComeFromHistory'
  BY <1>2 DEF InductiveInv, TypeOK, LedgerTypeOK, ReadsComeFromHistory, Filed
<1>. QED
  BY <1>1, <1>3, TablesUnchanged DEF InductiveInv

LEMMA CheckedSubmit ==
    ASSUME NEW x \in SubmitReq
    PROVE  [x EXCEPT !.checked = TRUE] \in SubmitReq
BY DEF SubmitReq

\* A submit request stays one when its checked mark is set.
LEMMA CheckedStaysSubmit ==
    ASSUME TypeOK, NEW r \in Req, req[r].op = "submit"
    PROVE  /\ req[r] \in SubmitReq
           /\ [req[r] EXCEPT !.checked = TRUE] \in SubmitReq
<1>1. req[r] \in {Idle} \cup SubmitReq \cup StatusReq
  BY DEF TypeOK, LedgerTypeOK
<1>2. req[r] # Idle
  BY DEF Idle
<1>3. req[r] \notin StatusReq
  BY DEF StatusReq
<1>4. req[r] \in SubmitReq
  BY <1>1, <1>2, <1>3
<1>. QED
  BY <1>4, CheckedSubmit

LEMMA SubmitFindPetStep ==
    ASSUME InductiveInv, overtaken' \in SUBSET Req, NEW r \in Req, NEW u \in User, NEW p \in Pet,
           SubmitFindPet(r, u, p)
    PROVE  InductiveInv'
<1>. DEFINE x == [op |-> "submit", user |-> u, pet |-> p, checked |-> FALSE]
<1>1. x \in SubmitReq
  BY DEF SubmitReq
<1>2. req' = [req EXCEPT ![r] = x] /\ UNCHANGED <<petStatus, app, held, byHand>>
  BY DEF SubmitFindPet
<1>. HIDE DEF x
<1>. QED
  BY <1>1, <1>2, ReadingStep

LEMMA SubmitCheckDuplicateStep ==
    ASSUME InductiveInv, overtaken' \in SUBSET Req, NEW r \in Req, SubmitCheckDuplicate(r)
    PROVE  InductiveInv'
<1>1. TypeOK /\ req[r].op = "submit" /\ req \in [Req -> {Idle} \cup SubmitReq \cup StatusReq]
  BY DEF InductiveInv, TypeOK, LedgerTypeOK, SubmitCheckDuplicate
<1>2. PICK x \in {Idle, [req[r] EXCEPT !.checked = TRUE]} :
          req' = [req EXCEPT ![r] = x]
  BY <1>1 DEF SubmitCheckDuplicate
<1>3. UNCHANGED <<petStatus, app, held, byHand>>
  BY DEF SubmitCheckDuplicate
<1>. QED
  BY <1>1, <1>2, <1>3, CheckedStaysSubmit, ReadingStep

LEMMA SubmitDuplicateLookupFailsStep ==
    ASSUME InductiveInv, overtaken' \in SUBSET Req, NEW r \in Req, SubmitDuplicateLookupFails(r)
    PROVE  InductiveInv'
<1>1. TypeOK /\ req[r].op = "submit" /\ req \in [Req -> {Idle} \cup SubmitReq \cup StatusReq]
  BY DEF InductiveInv, TypeOK, LedgerTypeOK, SubmitDuplicateLookupFails
<1>2. req' = [req EXCEPT ![r] = [req[r] EXCEPT !.checked = TRUE]]
  BY <1>1 DEF SubmitDuplicateLookupFails
<1>3. UNCHANGED <<petStatus, app, held, byHand>>
  BY DEF SubmitDuplicateLookupFails
<1>. QED
  BY <1>1, <1>2, <1>3, CheckedStaysSubmit, ReadingStep

LEMMA RequestFailsStep ==
    ASSUME InductiveInv, overtaken' \in SUBSET Req, NEW r \in Req, RequestFails(r)
    PROVE  InductiveInv'
BY ReadingStep DEF RequestFails

\* The submit transaction: the new row starts its history, the pet leaves the
\* list, and no request in flight refers to the row, which did not exist.
LEMMA SubmitCommitStep ==
    ASSUME InductiveInv, overtaken' \in SUBSET Req, NEW r \in Req, NEW a \in App, SubmitCommit(r, a)
    PROVE  InductiveInv'
<1>. DEFINE row == [user |-> req[r].user, pet |-> req[r].pet, status |-> "submitted"]
<1>1. /\ TypeOK /\ ReadsComeFromHistory /\ ThroughEveryStage
      /\ AvailableMeansUntouched /\ AdoptedOnlyByApproval
  BY DEF InductiveInv
<1>2. req[r].user \in User /\ req[r].pet \in Pet
  BY <1>1, CheckedStaysSubmit DEF SubmitCommit, SubmitReq
<1>3. row \in Row /\ row # NoRow
  BY <1>2, NoRowAssumption DEF Row, AppStatus
<1>4. /\ app' = [app EXCEPT ![a] = row]
      /\ held' = [held EXCEPT ![a] = {"submitted"}]
      /\ petStatus' = [petStatus EXCEPT ![row.pet] = "pending"]
      /\ req' = [req EXCEPT ![r] = Idle]
      /\ byHand' = byHand
      /\ app[a] = NoRow
      /\ row.pet \in Pet /\ row.status = "submitted"
  BY <1>2 DEF SubmitCommit, Filed
<1>. HIDE DEF row
<1>5. TypeOK'
  BY <1>1, <1>3, <1>4 DEF TypeOK, LedgerTypeOK, AppStatus, PetStatus
<1>6. ReadsComeFromHistory'
  <2>1. \A q \in Req : req'[q].op = "status" =>
           q # r /\ req'[q] = req[q] /\ req[q].app \in App /\ req[q].app # a
    BY <1>1, <1>4 DEF TypeOK, LedgerTypeOK, Idle, StatusReq, SubmitReq, ReadsComeFromHistory, Filed
  <2>. QED
    BY <2>1, <1>1, <1>3, <1>4 DEF ReadsComeFromHistory, Filed, TypeOK, LedgerTypeOK
<1>7. ThroughEveryStage'
  BY <1>1, <1>4 DEF ThroughEveryStage, TypeOK, LedgerTypeOK, StagesBefore
<1>8. AvailableMeansUntouched'
  BY <1>1, <1>3, <1>4 DEF AvailableMeansUntouched, FiledFor, Filed, TypeOK, LedgerTypeOK
<1>9. AdoptedOnlyByApproval'
  <2>. SUFFICES ASSUME NEW p \in Pet \ byHand, petStatus'[p] = "adopted"
                PROVE  \E b \in FiledFor(p)' : "approved" \in held'[b]
    BY <1>4 DEF AdoptedOnlyByApproval
  <2>1. petStatus[p] = "adopted"
    BY <1>1, <1>4 DEF TypeOK, LedgerTypeOK
  <2>2. PICK b \in FiledFor(p) : "approved" \in held[b]
    BY <2>1, <1>1 DEF AdoptedOnlyByApproval
  <2>3. b # a /\ b \in App
    BY <2>2, <1>4 DEF FiledFor, Filed
  <2>. QED
    BY <2>2, <2>3, <1>1, <1>4 DEF FiledFor, Filed, TypeOK, LedgerTypeOK
<1>. QED
  BY <1>5, <1>6, <1>7, <1>8, <1>9 DEF InductiveInv

\* What a status request in flight holds.
LEMMA StatusRequest ==
    ASSUME InductiveInv, NEW r \in Req, req[r].op = "status"
    PROVE  /\ req[r].app \in App
           /\ app[req[r].app] \in Row
           /\ req[r].from \in held[req[r].app]
           /\ req[r].from \in AppStatus
           /\ req[r].next \in NextApplicationStatuses(req[r].from)
           /\ req[r].next \in AppStatus
<1>1. /\ req[r] \in {Idle} \cup SubmitReq \cup StatusReq
      /\ app \in [App -> Row \cup {NoRow}]
  BY DEF InductiveInv, TypeOK, LedgerTypeOK
<1>2. req[r] # Idle /\ req[r] \notin SubmitReq
  BY DEF Idle, SubmitReq
<1>3. req[r] \in StatusReq
  BY <1>1, <1>2
<1>4. /\ Filed(req[r].app)
      /\ req[r].from \in held[req[r].app]
      /\ req[r].next \in NextApplicationStatuses(req[r].from)
  BY DEF InductiveInv, ReadsComeFromHistory
<1>. QED
  BY <1>1, <1>3, <1>4 DEF StatusReq, Filed

LEMMA StatusReadStep ==
    ASSUME InductiveInv, overtaken' \in SUBSET Req, NEW r \in Req, NEW u \in User, NEW a \in App,
           NEW next \in AppStatus, StatusRead(r, u, a, next)
    PROVE  InductiveInv'
<1>. DEFINE x == [op |-> "status", app |-> a, from |-> app[a].status, next |-> next]
<1>1. /\ TypeOK /\ ReadsComeFromHistory
      /\ Filed(a) /\ app[a].status \in held[a]
      /\ next \in NextApplicationStatuses(app[a].status)
  BY DEF InductiveInv, ReadsComeFromHistory, StatusRead
<1>2. app[a].status \in AppStatus
  BY <1>1 DEF TypeOK, LedgerTypeOK, Filed, Row
<1>3. /\ x \in StatusReq
      /\ x.app = a /\ x.from = app[a].status /\ x.next = next
  BY <1>2 DEF StatusReq
<1>4. req' = [req EXCEPT ![r] = x] /\ UNCHANGED <<petStatus, app, held, byHand>>
  BY DEF StatusRead
<1>. HIDE DEF x
<1>5. TypeOK'
  BY <1>1, <1>3, <1>4 DEF TypeOK, LedgerTypeOK
<1>6. ReadsComeFromHistory'
  BY <1>1, <1>3, <1>4 DEF ReadsComeFromHistory, TypeOK, LedgerTypeOK, Filed
<1>. QED
  BY <1>4, <1>5, <1>6, TablesUnchanged DEF InductiveInv

LEMMA RowStatusWritten ==
    ASSUME NEW x \in Row, NEW t \in AppStatus
    PROVE  /\ [x EXCEPT !.status = t] \in Row
           /\ [x EXCEPT !.status = t].pet = x.pet
           /\ [x EXCEPT !.status = t].status = t
BY DEF Row

\* Either commit of a status change: the application and its history take the
\* next status, and no stage is skipped because the status read is in the
\* history, however stale it is.
LEMMA StatusWritten ==
    ASSUME InductiveInv, NEW r \in Req, req[r].op = "status",
           app' = [app EXCEPT ![req[r].app].status = req[r].next],
           held' = [held EXCEPT ![req[r].app] = @ \cup {req[r].next}],
           req' = [req EXCEPT ![r] = Idle]
    PROVE  /\ app' \in [App -> Row \cup {NoRow}]
           /\ req' \in [Req -> {Idle} \cup SubmitReq \cup StatusReq]
           /\ held' \in [App -> SUBSET AppStatus]
           /\ \A p \in Pet : FiledFor(p)' = FiledFor(p)
           /\ \A a \in App : held[a] \subseteq held'[a]
           /\ ReadsComeFromHistory'
           /\ ThroughEveryStage'
<1>. DEFINE b == req[r].app
            s == req[r].from
            t == req[r].next
<1>1. /\ b \in App /\ app[b] \in Row /\ s \in held[b] /\ s \in AppStatus
      /\ t \in NextApplicationStatuses(s) /\ t \in AppStatus
  BY StatusRequest
<1>2. TypeOK /\ ReadsComeFromHistory /\ ThroughEveryStage
  BY DEF InductiveInv
<1>3. /\ app' = [app EXCEPT ![b] = [app[b] EXCEPT !.status = t]]
      /\ held' = [held EXCEPT ![b] = held[b] \cup {t}]
      /\ req' = [req EXCEPT ![r] = Idle]
  BY <1>1, <1>2 DEF TypeOK, LedgerTypeOK
<1>. HIDE DEF b, s, t
<1>. DEFINE row == [app[b] EXCEPT !.status = t]
<1>4. /\ row \in Row /\ row.pet = app[b].pet /\ row.status = t
      /\ app' = [app EXCEPT ![b] = row]
  BY <1>1, <1>3, RowStatusWritten
<1>. HIDE DEF row
<1>5. row # NoRow /\ app[b] # NoRow
  <2>1. NoRow \notin Row
    BY NoRowAssumption DEF Row
  <2>. QED
    BY <2>1, <1>1, <1>4
<1>6. \A a \in App : held[a] \subseteq held'[a]
  <2>. TAKE a \in App
  <2>1. CASE a = b
    BY <2>1, <1>2, <1>3 DEF TypeOK, LedgerTypeOK
  <2>2. CASE a # b
    BY <2>2, <1>2, <1>3 DEF TypeOK, LedgerTypeOK
  <2>. QED
    BY <2>1, <2>2
<1>7. /\ app' \in [App -> Row \cup {NoRow}]
      /\ req' \in [Req -> {Idle} \cup SubmitReq \cup StatusReq]
      /\ held' \in [App -> SUBSET AppStatus]
  <2>1. app' \in [App -> Row \cup {NoRow}]
    BY <1>1, <1>2, <1>4 DEF TypeOK, LedgerTypeOK
  <2>2. req' \in [Req -> {Idle} \cup SubmitReq \cup StatusReq]
    BY <1>2, <1>3 DEF TypeOK, LedgerTypeOK
  <2>3. held' \in [App -> SUBSET AppStatus]
    <3>1. held \in [App -> SUBSET AppStatus] /\ held[b] \cup {t} \in SUBSET AppStatus
      BY <1>1, <1>2 DEF TypeOK, LedgerTypeOK
    <3>. QED
      BY <3>1, <1>1, <1>3
  <2>. QED
    BY <2>1, <2>2, <2>3
<1>8. \A p \in Pet : FiledFor(p)' = FiledFor(p)
  <2>1. ASSUME NEW a \in App
        PROVE  /\ app'[a] # NoRow <=> app[a] # NoRow
               /\ app[a] # NoRow => app'[a].pet = app[a].pet
    <3>1. CASE a = b
      BY <3>1, <1>2, <1>4, <1>5 DEF TypeOK, LedgerTypeOK
    <3>2. CASE a # b
      BY <3>2, <1>2, <1>4 DEF TypeOK, LedgerTypeOK
    <3>. QED
      BY <3>1, <3>2
  <2>. QED
    BY <2>1 DEF FiledFor, Filed
<1>9. ReadsComeFromHistory'
  <2>1. \A a \in App : Filed(a)' <=> Filed(a)
    BY <1>1, <1>2, <1>3, <1>4, <1>5 DEF Filed, TypeOK, LedgerTypeOK
  <2>2. ASSUME NEW q \in Req, req'[q].op = "status"
        PROVE  /\ app'[req'[q].app] # NoRow
               /\ req'[q].from \in held'[req'[q].app]
               /\ req'[q].next \in NextApplicationStatuses(req'[q].from)
    <3>1. q # r /\ req'[q] = req[q]
      BY <2>2, <1>2, <1>3 DEF TypeOK, LedgerTypeOK, Idle
    <3>2. req[q].app \in App /\ req[q].from \in held[req[q].app]
      BY <3>1, <2>2, StatusRequest
    <3>. QED
      BY <3>1, <3>2, <2>1, <2>2, <1>2, <1>6 DEF ReadsComeFromHistory, Filed
  <2>3. ASSUME NEW a \in App, Filed(a)' PROVE app'[a].status \in held'[a]
    BY <2>1, <2>3, <1>1, <1>2, <1>3, <1>4 DEF ReadsComeFromHistory, TypeOK, LedgerTypeOK
  <2>. QED
    BY <2>2, <2>3 DEF ReadsComeFromHistory, Filed
<1>10. ThroughEveryStage'
  <2>. SUFFICES ASSUME NEW a \in App, NEW x \in held'[a]
                PROVE  StagesBefore(x) \subseteq held'[a]
    BY DEF ThroughEveryStage
  <2>1. CASE x \in held[a]
    BY <2>1, <1>2, <1>6 DEF ThroughEveryStage
  <2>2. CASE x \notin held[a]
    <3>1. a = b /\ x = t
      BY <2>2, <1>1, <1>2, <1>3 DEF TypeOK, LedgerTypeOK
    <3>2. StagesBefore(s) \subseteq held[b]
      BY <1>1, <1>2 DEF ThroughEveryStage
    <3>. QED
      BY <3>1, <3>2, <1>1, <1>6, EdgeStages
  <2>. QED
    BY <2>1, <2>2
<1>. QED
  BY <1>6, <1>7, <1>8, <1>9, <1>10

LEMMA StatusSaveStep ==
    ASSUME InductiveInv, overtaken' \in SUBSET Req, NEW r \in Req, StatusSave(r)
    PROVE  InductiveInv'
<1>1. /\ app' \in [App -> Row \cup {NoRow}]
      /\ req' \in [Req -> {Idle} \cup SubmitReq \cup StatusReq]
      /\ held' \in [App -> SUBSET AppStatus]
      /\ \A p \in Pet : FiledFor(p)' = FiledFor(p)
      /\ \A a \in App : held[a] \subseteq held'[a]
      /\ ReadsComeFromHistory'
      /\ ThroughEveryStage'
  BY StatusWritten DEF StatusSave
<1>2. UNCHANGED <<petStatus, byHand>>
  BY DEF StatusSave
<1>3. TypeOK'
  BY <1>1, <1>2 DEF InductiveInv, TypeOK, LedgerTypeOK
<1>4. AvailableMeansUntouched'
  BY <1>1, <1>2 DEF InductiveInv, AvailableMeansUntouched
<1>5. AdoptedOnlyByApproval'
  <2>1. \A p \in Pet : FiledFor(p) \subseteq App
    BY DEF FiledFor
  <2>. QED
    BY <2>1, <1>1, <1>2 DEF InductiveInv, AdoptedOnlyByApproval
<1>. QED
  BY <1>1, <1>3, <1>4, <1>5 DEF InductiveInv

LEMMA ApproveCommitStep ==
    ASSUME InductiveInv, overtaken' \in SUBSET Req, NEW r \in Req, ApproveCommit(r)
    PROVE  InductiveInv'
<1>1. /\ app' \in [App -> Row \cup {NoRow}]
      /\ req' \in [Req -> {Idle} \cup SubmitReq \cup StatusReq]
      /\ held' \in [App -> SUBSET AppStatus]
      /\ \A p \in Pet : FiledFor(p)' = FiledFor(p)
      /\ \A a \in App : held[a] \subseteq held'[a]
      /\ ReadsComeFromHistory'
      /\ ThroughEveryStage'
  BY StatusWritten DEF ApproveCommit
<1>2. PICK b \in App : b = req[r].app /\ app[b] \in Row
  BY StatusRequest DEF ApproveCommit
<1>3. app[b].pet \in Pet /\ b \in FiledFor(app[b].pet)
  BY <1>2, NoRowAssumption DEF Row, FiledFor, Filed
<1>4. /\ petStatus' = [petStatus EXCEPT ![app[b].pet] = "adopted"]
      /\ byHand' = byHand
  BY <1>2 DEF ApproveCommit
<1>5. "approved" \in held'[b]
  BY <1>2 DEF ApproveCommit, InductiveInv, TypeOK, LedgerTypeOK
<1>6. TypeOK'
  BY <1>1, <1>3, <1>4 DEF InductiveInv, TypeOK, LedgerTypeOK, PetStatus
<1>7. AvailableMeansUntouched'
  BY <1>1, <1>3, <1>4 DEF InductiveInv, TypeOK, LedgerTypeOK, AvailableMeansUntouched
<1>8. AdoptedOnlyByApproval'
  <2>. SUFFICES ASSUME NEW p \in Pet \ byHand, petStatus'[p] = "adopted"
                PROVE  \E c \in FiledFor(p)' : "approved" \in held'[c]
    BY <1>4 DEF AdoptedOnlyByApproval
  <2>1. CASE p = app[b].pet
    BY <2>1, <1>1, <1>3, <1>5
  <2>2. CASE p # app[b].pet
    <3>1. petStatus[p] = "adopted"
      BY <2>2, <1>4 DEF InductiveInv, TypeOK, LedgerTypeOK
    <3>2. PICK c \in FiledFor(p) : "approved" \in held[c]
      BY <3>1 DEF InductiveInv, AdoptedOnlyByApproval
    <3>3. c \in App
      BY <3>2 DEF FiledFor
    <3>. QED
      BY <3>2, <3>3, <1>1
  <2>. QED
    BY <2>1, <2>2
<1>. QED
  BY <1>1, <1>6, <1>7, <1>8 DEF InductiveInv

\* A status set by hand takes the pet out of what the flow promises.
LEMMA PetUpdateStatusStep ==
    ASSUME InductiveInv, overtaken' \in SUBSET Req, NEW r \in Req, NEW u \in User, NEW p \in Pet,
           NEW s \in PetStatus, PetUpdateStatus(r, u, p, s)
    PROVE  InductiveInv'
<1>1. /\ petStatus' = [petStatus EXCEPT ![p] = s]
      /\ byHand' = byHand \cup {p}
      /\ UNCHANGED <<app, req, held>>
  BY DEF PetUpdateStatus
<1>2. TypeOK'
  BY <1>1 DEF InductiveInv, TypeOK, LedgerTypeOK
<1>3. ReadsComeFromHistory' /\ ThroughEveryStage'
  BY <1>1 DEF InductiveInv, ReadsComeFromHistory, ThroughEveryStage, Filed
<1>4. AvailableMeansUntouched' /\ AdoptedOnlyByApproval'
  BY <1>1 DEF InductiveInv, TypeOK, LedgerTypeOK, AvailableMeansUntouched, AdoptedOnlyByApproval,
              FiledFor, Filed
<1>. QED
  BY <1>2, <1>3, <1>4 DEF InductiveInv

LEMMA NextInductive == InductiveInv /\ [Next]_vars => InductiveInv'
<1>. SUFFICES ASSUME InductiveInv, [Next]_vars PROVE InductiveInv'
  OBVIOUS
<1>. overtaken' \in SUBSET Req
  BY DEF Next, NoteOvertaken, vars, InductiveInv, TypeOK
<1>1. ASSUME NEW r \in Req, Submitting(r) PROVE InductiveInv'
  BY <1>1, SubmitFindPetStep, SubmitCheckDuplicateStep,
     SubmitDuplicateLookupFailsStep, SubmitCommitStep DEF Submitting
<1>2. ASSUME NEW r \in Req, ChangingStatus(r) PROVE InductiveInv'
  BY <1>2, StatusReadStep, StatusSaveStep, ApproveCommitStep DEF ChangingStatus
<1>3. ASSUME NEW r \in Req, NEW u \in User, NEW p \in Pet, NEW s \in PetStatus,
             PetUpdateStatus(r, u, p, s)
      PROVE  InductiveInv'
  BY <1>3, PetUpdateStatusStep
<1>4. ASSUME NEW r \in Req, RequestFails(r) PROVE InductiveInv'
  BY <1>4, RequestFailsStep
<1>5. CASE UNCHANGED vars
  BY <1>5 DEF vars, InductiveInv, TypeOK, LedgerTypeOK, ReadsComeFromHistory, ThroughEveryStage,
              AvailableMeansUntouched, AdoptedOnlyByApproval, FiledFor, Filed
<1>. QED
  BY <1>1, <1>2, <1>3, <1>4, <1>5 DEF Next

\* In every reachable state, for any number of concurrent requests, the
\* inductive invariant holds: what requests read always comes from the history.
THEOREM InductiveInvariant == Spec => []InductiveInv
<1>. QED
  BY InitInductive, NextInductive, PTL DEF Spec

\* The tables and the request slots keep their types.
THEOREM TypeCorrect == Spec => []TypeOK
<1>1. InductiveInv => TypeOK
  BY DEF InductiveInv
<1>. QED
  BY <1>1, InductiveInvariant, PTL

\* No interleaving of status changes lets an application skip a stage.
THEOREM NoStageSkipped == Spec => []ThroughEveryStage
<1>1. InductiveInv => ThroughEveryStage
  BY DEF InductiveInv
<1>. QED
  BY <1>1, InductiveInvariant, PTL

\* A pet on the list that only the flow has written has no application.
THEOREM ListedPetsUntouched == Spec => []AvailableMeansUntouched
<1>1. InductiveInv => AvailableMeansUntouched
  BY DEF InductiveInv
<1>. QED
  BY <1>1, InductiveInvariant, PTL

\* A pet is adopted only through an application that was approved.
THEOREM AdoptionNeedsApproval == Spec => []AdoptedOnlyByApproval
<1>1. InductiveInv => AdoptedOnlyByApproval
  BY DEF InductiveInv
<1>. QED
  BY <1>1, InductiveInvariant, PTL

-----------------------------------------------------------------------------
(* The promises of AdoptionLedger. *)

LedgerInv == LedgerTypeOK /\ PetAgreesWithApplications /\ OneApplicationPerUserAndPet

LEMMA NoRowIsNoRow == NoRow \notin Row
BY NoRowAssumption DEF Row

\* A row keeps its owner and its pet when its status moves.
LEMMA StatusUpdate ==
    ASSUME NEW x \in Row, NEW t \in AppStatus
    PROVE  /\ [x EXCEPT !.status = t] \in Row
           /\ [x EXCEPT !.status = t].user = x.user
           /\ [x EXCEPT !.status = t].pet = x.pet
           /\ [x EXCEPT !.status = t].status = t
BY DEF Row

LEMMA LedgerInitInv == LedgerInit => LedgerInv
<1>. SUFFICES ASSUME LedgerInit PROVE LedgerInv
  OBVIOUS
<1>1. LedgerTypeOK
  BY LedgerAssumption DEF LedgerInit, LedgerTypeOK, Row, PetStatus, AppStatus
<1>2. PetAgreesWithApplications
  BY DEF LedgerInit, PetAgreesWithApplications, FiledFor, Filed
<1>3. OneApplicationPerUserAndPet
  BY SeedUnique DEF LedgerInit, OneApplicationPerUserAndPet, Filed
<1>. QED
  BY <1>1, <1>2, <1>3 DEF LedgerInv

LEMMA FileStep ==
    ASSUME LedgerInv, NEW u \in User, NEW p \in Pet, NEW a \in App, File(u, p, a)
    PROVE  LedgerInv'
<1>. DEFINE row == [user |-> u, pet |-> p, status |-> "submitted"]
<1>1. row \in Row /\ row.user = u /\ row.pet = p /\ row.status = "submitted"
  BY DEF Row, AppStatus
<1>2. /\ app' = [app EXCEPT ![a] = row]
      /\ petStatus' = [petStatus EXCEPT ![p] = "pending"]
      /\ byHand' = byHand
      /\ app[a] = NoRow
      /\ petStatus[p] = "available"
      /\ \A b \in FiledFor(p) : app[b].user # u
  BY DEF File, Filed
<1>3. LedgerTypeOK /\ PetAgreesWithApplications /\ OneApplicationPerUserAndPet
  BY DEF LedgerInv
<1>. HIDE DEF row
<1>4. row # NoRow
  BY <1>1, NoRowIsNoRow
<1>5. LedgerTypeOK'
  BY <1>1, <1>2, <1>3 DEF LedgerTypeOK, PetStatus
<1>6. PetAgreesWithApplications'
  <2>. SUFFICES ASSUME NEW q \in Pet \ byHand
                PROVE  /\ (petStatus'[q] = "available") <=> (FiledFor(q)' = {})
                       /\ (petStatus'[q] = "adopted") <=>
                            (\E b \in FiledFor(q)' : app'[b].status = "approved")
                       /\ \A b, c \in FiledFor(q)' : b = c
    BY <1>2 DEF PetAgreesWithApplications
  <2>1. CASE q = p
    <3>1. FiledFor(q) = {}
      BY <2>1, <1>2, <1>3 DEF PetAgreesWithApplications
    <3>2. FiledFor(q)' = {a}
      BY <2>1, <3>1, <1>1, <1>2, <1>3, <1>4 DEF FiledFor, Filed, LedgerTypeOK
    <3>3. petStatus'[q] = "pending" /\ app'[a].status = "submitted"
      BY <2>1, <1>1, <1>2, <1>3 DEF LedgerTypeOK
    <3>. QED
      BY <3>2, <3>3
  <2>2. CASE q # p
    <3>1. FiledFor(q)' = FiledFor(q)
      BY <2>2, <1>1, <1>2, <1>3 DEF FiledFor, Filed, LedgerTypeOK
    <3>2. petStatus'[q] = petStatus[q] /\ \A b \in FiledFor(q) : app'[b] = app[b]
      BY <2>2, <1>2, <1>3 DEF FiledFor, Filed, LedgerTypeOK
    <3>. QED
      BY <3>1, <3>2, <1>3 DEF PetAgreesWithApplications
  <2>. QED
    BY <2>1, <2>2
<1>7. OneApplicationPerUserAndPet'
  BY <1>1, <1>2, <1>3 DEF OneApplicationPerUserAndPet, FiledFor, Filed, LedgerTypeOK
<1>. QED
  BY <1>5, <1>6, <1>7 DEF LedgerInv

\* A status move changes no application's owner or pet.
LEMMA StatusMoveKeepsRows ==
    ASSUME LedgerInv, NEW a \in App, NEW t \in AppStatus, Filed(a),
           app' = [app EXCEPT ![a].status = t]
    PROVE  /\ app' \in [App -> Row \cup {NoRow}]
           /\ app'[a].status = t
           /\ \A b \in App \ {a} : app'[b] = app[b]
           /\ app[a].pet \in Pet
           /\ \A p \in Pet : FiledFor(p)' = FiledFor(p)
           /\ OneApplicationPerUserAndPet'
<1>. DEFINE row == [app[a] EXCEPT !.status = t]
<1>1. app \in [App -> Row \cup {NoRow}] /\ app[a] \in Row
  BY DEF LedgerInv, LedgerTypeOK, Filed
<1>2. /\ row \in Row /\ row.user = app[a].user /\ row.pet = app[a].pet /\ row.status = t
      /\ app' = [app EXCEPT ![a] = row]
  BY <1>1, StatusUpdate
<1>. HIDE DEF row
<1>3. row # NoRow
  BY <1>2, NoRowIsNoRow
<1>4. /\ app' \in [App -> Row \cup {NoRow}]
      /\ app'[a].status = t
      /\ \A b \in App \ {a} : app'[b] = app[b]
      /\ app[a].pet \in Pet
  BY <1>1, <1>2 DEF Row
<1>5. ASSUME NEW b \in App
      PROVE  /\ Filed(b)' <=> Filed(b)
             /\ Filed(b) => app'[b].user = app[b].user /\ app'[b].pet = app[b].pet
  <2>1. CASE a = b
    BY <2>1, <1>1, <1>2, <1>3 DEF Filed
  <2>2. CASE a # b
    BY <2>2, <1>1, <1>2 DEF Filed
  <2>. QED
    BY <2>1, <2>2
<1>6. \A p \in Pet : FiledFor(p)' = FiledFor(p)
  BY <1>5 DEF FiledFor
<1>7. OneApplicationPerUserAndPet'
  BY <1>5 DEF LedgerInv, OneApplicationPerUserAndPet
<1>. QED
  BY <1>4, <1>6, <1>7

LEMMA AdvanceStep ==
    ASSUME LedgerInv, NEW a \in App, NEW t \in AppStatus, Advance(a, t)
    PROVE  LedgerInv'
<1>1. /\ Filed(a)
      /\ app' = [app EXCEPT ![a].status = t]
      /\ UNCHANGED <<petStatus, byHand>>
      /\ t # "approved" /\ app[a].status # "approved"
  BY DEF Advance, NextApplicationStatuses, AppEdge
<1>2. /\ app' \in [App -> Row \cup {NoRow}]
      /\ app'[a].status = t
      /\ \A b \in App \ {a} : app'[b] = app[b]
      /\ \A p \in Pet : FiledFor(p)' = FiledFor(p)
      /\ OneApplicationPerUserAndPet'
  BY <1>1, StatusMoveKeepsRows
<1>3. LedgerTypeOK'
  BY <1>1, <1>2 DEF LedgerInv, LedgerTypeOK
<1>4. \A b \in App : (app'[b].status = "approved") <=> (app[b].status = "approved")
  BY <1>1, <1>2
<1>5. \A p \in Pet : FiledFor(p) \subseteq App
  BY DEF FiledFor
<1>6. PetAgreesWithApplications'
  BY <1>1, <1>2, <1>4, <1>5 DEF LedgerInv, PetAgreesWithApplications
<1>. QED
  BY <1>2, <1>3, <1>6 DEF LedgerInv

LEMMA ApproveStep ==
    ASSUME LedgerInv, NEW a \in App, Approve(a)
    PROVE  LedgerInv'
<1>1. /\ Filed(a)
      /\ app' = [app EXCEPT ![a].status = "approved"]
      /\ petStatus' = [petStatus EXCEPT ![app[a].pet] = "adopted"]
      /\ byHand' = byHand
      /\ "approved" \in AppStatus
  BY DEF Approve, AppStatus
<1>2. /\ app' \in [App -> Row \cup {NoRow}]
      /\ app'[a].status = "approved"
      /\ \A b \in App \ {a} : app'[b] = app[b]
      /\ app[a].pet \in Pet
      /\ \A p \in Pet : FiledFor(p)' = FiledFor(p)
      /\ OneApplicationPerUserAndPet'
  BY <1>1, StatusMoveKeepsRows
<1>3. LedgerTypeOK'
  BY <1>1, <1>2 DEF LedgerInv, LedgerTypeOK, PetStatus
<1>4. PetAgreesWithApplications'
  <2>. SUFFICES ASSUME NEW q \in Pet \ byHand
                PROVE  /\ (petStatus'[q] = "available") <=> (FiledFor(q)' = {})
                       /\ (petStatus'[q] = "adopted") <=>
                            (\E b \in FiledFor(q)' : app'[b].status = "approved")
                       /\ \A b, c \in FiledFor(q)' : b = c
    BY <1>1 DEF PetAgreesWithApplications
  <2>1. \A b, c \in FiledFor(q)' : b = c
    BY <1>2 DEF LedgerInv, PetAgreesWithApplications
  <2>2. CASE q = app[a].pet
    <3>1. a \in FiledFor(q)'
      BY <2>2, <1>1, <1>2 DEF FiledFor
    <3>2. petStatus'[q] = "adopted"
      BY <2>2, <1>1 DEF LedgerInv, LedgerTypeOK
    <3>. QED
      BY <2>1, <3>1, <3>2, <1>2
  <2>3. CASE q # app[a].pet
    <3>1. petStatus'[q] = petStatus[q]
      BY <2>3, <1>1 DEF LedgerInv, LedgerTypeOK
    <3>2. \A b \in FiledFor(q) : b \in App \ {a}
      BY <2>3 DEF FiledFor
    <3>. QED
      BY <2>1, <3>1, <3>2, <1>2 DEF LedgerInv, PetAgreesWithApplications
  <2>. QED
    BY <2>2, <2>3
<1>. QED
  BY <1>2, <1>3, <1>4 DEF LedgerInv

LEMMA SetPetStatusStep ==
    ASSUME LedgerInv, NEW p \in Pet, NEW s \in PetStatus, SetPetStatus(p, s)
    PROVE  LedgerInv'
BY DEF SetPetStatus, LedgerInv, LedgerTypeOK, PetAgreesWithApplications,
       OneApplicationPerUserAndPet, FiledFor, Filed

\* Every step of the ledger keeps its promises.
LEMMA LedgerNextInv == LedgerInv /\ [LedgerNext]_ledgerVars => LedgerInv'
<1>. SUFFICES ASSUME LedgerInv, [LedgerNext]_ledgerVars PROVE LedgerInv'
  OBVIOUS
<1>1. CASE LedgerNext
  BY <1>1, FileStep, AdvanceStep, ApproveStep, SetPetStatusStep DEF LedgerNext
<1>2. CASE UNCHANGED ledgerVars
  BY <1>2 DEF ledgerVars, LedgerInv, LedgerTypeOK, PetAgreesWithApplications,
              OneApplicationPerUserAndPet, FiledFor, Filed
<1>. QED
  BY <1>1, <1>2

\* A pet only the flow writes is listed exactly while unclaimed, and adopted
\* exactly when its one application is approved.
THEOREM LedgerPetsAgree == LedgerSpec => []PetAgreesWithApplications
<1>1. LedgerInv => PetAgreesWithApplications
  BY DEF LedgerInv
<1>. QED
  BY <1>1, LedgerInitInv, LedgerNextInv, PTL DEF LedgerSpec

\* No account ever holds two applications for one pet.
THEOREM LedgerNoSecondApplication == LedgerSpec => []OneApplicationPerUserAndPet
<1>1. LedgerInv => OneApplicationPerUserAndPet
  BY DEF LedgerInv
<1>. QED
  BY <1>1, LedgerInitInv, LedgerNextInv, PTL DEF LedgerSpec

-----------------------------------------------------------------------------
(* The ledger kept by every request that was not overtaken. *)

\* What request r has read is still so: the pet is on the list, the applicant
\* has none for it once that was checked, the application has the status read.
Current(r) ==
    /\ req[r].op = "submit" =>
          /\ petStatus[req[r].pet] = "available"
          /\ req[r].checked => \A a \in FiledFor(req[r].pet) : app[a].user # req[r].user
    /\ req[r].op = "status" => app[req[r].app].status = req[r].from

UnovertakenAreCurrent == \A r \in Req \ overtaken : Current(r)

LEMMA InitCurrent == Init => UnovertakenAreCurrent
BY DEF Init, UnovertakenAreCurrent, Current, Idle

LEMMA SubmitReqs ==
    ASSUME TypeOK, NEW r \in Req, req[r].op = "submit"
    PROVE  req[r] \in SubmitReq
BY CheckedStaysSubmit

\* A request nobody touched can rely on what it read.
LEMMA UntouchedStaysCurrent ==
    ASSUME TypeOK, NEW q \in Req, Current(q), ~Touched(q), req'[q] = req[q],
           \A a \in App : Filed(a) => app'[a].user = app[a].user
    PROVE  Current(q)'
<1>1. CASE req[q].op = "submit"
  <2>1. req[q].pet \in Pet
    BY <1>1, SubmitReqs DEF SubmitReq
  <2>2. petStatus'[req[q].pet] = petStatus[req[q].pet] /\ FiledFor(req[q].pet)' = FiledFor(req[q].pet)
    BY <1>1, <2>1 DEF Touched, ChangedPets
  <2>3. \A a \in FiledFor(req[q].pet) : app'[a].user = app[a].user
    BY DEF FiledFor
  <2>. HIDE DEF FiledFor
  <2>. QED
    BY <1>1, <2>2, <2>3 DEF Current
<1>2. CASE req[q].op = "status"
  BY <1>2 DEF Touched, Current
<1>. QED
  BY <1>1, <1>2 DEF Current

\* A step of request r, which leaves the others' reads to Touched.
LEMMA OthersStayCurrent ==
    ASSUME TypeOK, UnovertakenAreCurrent, NoteOvertaken, NEW r \in Req,
           \A q \in Req \ {r} : req'[q] = req[q],
           \A a \in App : Filed(a) => app'[a].user = app[a].user,
           r \notin overtaken' => Current(r)'
    PROVE  UnovertakenAreCurrent'
<1>. SUFFICES ASSUME NEW q \in Req \ overtaken', q # r PROVE Current(q)'
  BY DEF UnovertakenAreCurrent
<1>1. req'[q] = req[q]
  OBVIOUS
<1>2. CASE req[q] = Idle
  BY <1>1, <1>2 DEF Current, Idle
<1>3. CASE req[q] # Idle
  <2>1. q \notin overtaken /\ ~Touched(q)
    BY <1>1, <1>3 DEF NoteOvertaken
  <2>. QED
    BY <1>1, <2>1, UntouchedStaysCurrent DEF UnovertakenAreCurrent
<1>. QED
  BY <1>2, <1>3

\* A step that only moves r on: r's new phase x claims what is so.
LEMMA ReadIsCurrent ==
    ASSUME TypeOK, UnovertakenAreCurrent, NoteOvertaken, NEW r \in Req, NEW x,
           req' = [req EXCEPT ![r] = x], UNCHANGED <<petStatus, app>>,
           r \notin overtaken' /\ x.op = "submit" => petStatus[x.pet] = "available",
           r \notin overtaken' /\ x.op = "submit" /\ x.checked =>
               \A a \in FiledFor(x.pet) : app[a].user # x.user,
           x.op = "status" => app[x.app].status = x.from
    PROVE  UnovertakenAreCurrent'
<1>1. req'[r] = x /\ \A q \in Req \ {r} : req'[q] = req[q]
  BY DEF TypeOK
<1>2. \A p : FiledFor(p)' = FiledFor(p)
  BY DEF FiledFor, Filed
<1>3. r \notin overtaken' => Current(r)'
  BY <1>1, <1>2 DEF Current
<1>. QED
  BY <1>1, <1>3, OthersStayCurrent

\* A request that ends has read nothing.
LEMMA EndIsCurrent ==
    ASSUME TypeOK, UnovertakenAreCurrent, NoteOvertaken, NEW r \in Req,
           req' = [req EXCEPT ![r] = Idle],
           \A a \in App : Filed(a) => app'[a].user = app[a].user
    PROVE  UnovertakenAreCurrent'
<1>1. req'[r] = Idle /\ \A q \in Req \ {r} : req'[q] = req[q]
  BY DEF TypeOK
<1>2. Current(r)'
  BY <1>1 DEF Current, Idle
<1>. QED
  BY <1>1, <1>2, OthersStayCurrent

\* A commit changes the applicant of no row that is there.
LEMMA ApplicantsStay ==
    ASSUME InductiveInv, NEW r \in Req,
           (\E a \in App : SubmitCommit(r, a)) \/ StatusSave(r) \/ ApproveCommit(r)
    PROVE  \A a \in App : Filed(a) => app'[a].user = app[a].user
<1>1. app \in [App -> Row \cup {NoRow}]
  BY DEF InductiveInv, TypeOK, LedgerTypeOK
<1>2. ASSUME NEW b \in App, SubmitCommit(r, b)
      PROVE  \A a \in App : Filed(a) => app'[a].user = app[a].user
  BY <1>1, <1>2 DEF SubmitCommit, Filed
<1>3. ASSUME NEW b \in App, NEW t \in AppStatus, app' = [app EXCEPT ![b].status = t]
      PROVE  \A a \in App : Filed(a) => app'[a].user = app[a].user
  <2>. SUFFICES ASSUME NEW a \in App, Filed(a) PROVE app'[a].user = app[a].user
    OBVIOUS
  <2>1. app[a] \in Row
    BY <1>1 DEF Filed
  <2>2. CASE a = b
    <3>1. app'[a] = [app[a] EXCEPT !.status = t]
      BY <1>1, <1>3, <2>2
    <3>. QED
      BY <2>1, <3>1, StatusUpdate
  <2>3. CASE a # b
    BY <1>1, <1>3, <2>3
  <2>. QED
    BY <2>2, <2>3
<1>4. CASE StatusSave(r)
  <2>1. req[r].app \in App /\ req[r].next \in AppStatus
    BY <1>4, StatusRequest DEF StatusSave
  <2>. QED
    BY <1>3, <1>4, <2>1 DEF StatusSave
<1>5. CASE ApproveCommit(r)
  <2>1. req[r].app \in App /\ "approved" \in AppStatus
    BY <1>5, StatusRequest DEF ApproveCommit, AppStatus
  <2>. QED
    BY <1>3, <1>5, <2>1 DEF ApproveCommit
<1>. QED
  BY <1>2, <1>4, <1>5

LEMMA CurrentStep ==
    ASSUME InductiveInv, UnovertakenAreCurrent, [Next]_vars
    PROVE  UnovertakenAreCurrent'
<1>1. TypeOK
  BY DEF InductiveInv
<1>2. CASE UNCHANGED vars
  BY <1>2 DEF vars, UnovertakenAreCurrent, Current, FiledFor, Filed
<1>. SUFFICES ASSUME Next PROVE UnovertakenAreCurrent'
  BY <1>2
<1>3. NoteOvertaken
  BY DEF Next
<1>4. ASSUME NEW r \in Req, NEW u \in User, NEW p \in Pet, SubmitFindPet(r, u, p)
      PROVE  UnovertakenAreCurrent'
  <2>. DEFINE x == [op |-> "submit", user |-> u, pet |-> p, checked |-> FALSE]
  <2>1. /\ x.op = "submit" /\ x.pet = p /\ x.checked = FALSE
        /\ req' = [req EXCEPT ![r] = x] /\ UNCHANGED <<petStatus, app>>
        /\ petStatus[p] = "available"
    BY <1>4 DEF SubmitFindPet
  <2>. HIDE DEF x
  <2>. QED
    BY <1>1, <1>3, <2>1, ReadIsCurrent
<1>5. ASSUME NEW r \in Req, SubmitCheckDuplicate(r) \/ SubmitDuplicateLookupFails(r)
      PROVE  UnovertakenAreCurrent'
  <2>. DEFINE dup == \E a \in FiledFor(req[r].pet) : app[a].user = req[r].user
              x == [req[r] EXCEPT !.checked = TRUE]
  <2>1. /\ req[r].op = "submit" /\ ~req[r].checked /\ UNCHANGED <<petStatus, app>>
        /\ \/ req' = [req EXCEPT ![r] = Idle]
           \/ req' = [req EXCEPT ![r] = x] /\ (SubmitCheckDuplicate(r) => ~dup)
    BY <1>1, <1>5 DEF SubmitCheckDuplicate, SubmitDuplicateLookupFails, TypeOK
  <2>2. req[r] \in SubmitReq
    BY <1>1, <2>1, SubmitReqs
  <2>3. x.op = "submit" /\ x.pet = req[r].pet /\ x.user = req[r].user /\ x.checked /\ x # Idle
    BY <2>2 DEF SubmitReq, Idle
  <2>4. ~dup => \A a \in FiledFor(req[r].pet) : app[a].user # req[r].user
    OBVIOUS
  <2>5. CASE req' = [req EXCEPT ![r] = Idle]
    BY <1>1, <1>3, <2>1, <2>5, EndIsCurrent
  <2>6. CASE req' = [req EXCEPT ![r] = x] /\ r \in overtaken'
    <3>. HIDE DEF x, dup
    <3>. QED
      BY <1>1, <1>3, <2>1, <2>3, <2>6, ReadIsCurrent
  <2>7. CASE req' = [req EXCEPT ![r] = x] /\ r \notin overtaken'
    <3>1. req'[r] = x
      BY <1>1, <2>7 DEF TypeOK
    <3>2. r \notin overtaken /\ ~LookupMissed(r)
      BY <1>3, <2>3, <2>7, <3>1 DEF NoteOvertaken
    <3>3. ~dup
      BY <2>1, <2>3, <3>1, <3>2 DEF LookupMissed
    <3>4. petStatus[req[r].pet] = "available"
      BY <2>1, <3>2 DEF UnovertakenAreCurrent, Current
    <3>. HIDE DEF x, dup
    <3>. QED
      BY <1>1, <1>3, <2>1, <2>3, <2>4, <2>7, <3>3, <3>4, ReadIsCurrent
  <2>. QED
    BY <2>1, <2>5, <2>6, <2>7
<1>6. ASSUME NEW r \in Req, NEW u \in User, NEW a \in App, NEW next \in AppStatus,
             StatusRead(r, u, a, next)
      PROVE  UnovertakenAreCurrent'
  <2>. DEFINE x == [op |-> "status", app |-> a, from |-> app[a].status, next |-> next]
  <2>1. /\ x.op = "status" /\ x.app = a /\ x.from = app[a].status
        /\ req' = [req EXCEPT ![r] = x] /\ UNCHANGED <<petStatus, app>>
    BY <1>6 DEF StatusRead
  <2>. HIDE DEF x
  <2>. QED
    BY <1>1, <1>3, <2>1, ReadIsCurrent
<1>7. ASSUME NEW r \in Req,
             (\E a \in App : SubmitCommit(r, a)) \/ StatusSave(r) \/ ApproveCommit(r)
      PROVE  UnovertakenAreCurrent'
  <2>1. req' = [req EXCEPT ![r] = Idle]
    BY <1>7 DEF SubmitCommit, StatusSave, ApproveCommit
  <2>. QED
    BY <1>1, <1>3, <1>7, <2>1, ApplicantsStay, EndIsCurrent
<1>8. ASSUME NEW r \in Req, RequestFails(r)
      PROVE  UnovertakenAreCurrent'
  BY <1>1, <1>3, <1>8, EndIsCurrent DEF RequestFails
<1>9. ASSUME NEW r \in Req, NEW u \in User, NEW p \in Pet, NEW s \in PetStatus,
             PetUpdateStatus(r, u, p, s)
      PROVE  UnovertakenAreCurrent'
  <2>1. req' = req /\ req[r] = Idle /\ app' = app
    BY <1>9 DEF PetUpdateStatus
  <2>2. Current(r)'
    BY <2>1 DEF Current, Idle
  <2>. QED
    BY <1>1, <1>3, <2>1, <2>2, OthersStayCurrent
<1>. QED
  BY <1>4, <1>5, <1>6, <1>7, <1>8, <1>9 DEF Next, Submitting, ChangingStatus

\* The commit of a request that was not overtaken is the ledger's step of the
\* same meaning; a read writes nothing there.
LEMMA LedgerStep ==
    ASSUME InductiveInv, UnovertakenAreCurrent, [Next]_vars
    PROVE  \/ UNCHANGED ledgerVars
           \/ \E r \in overtaken : req'[r] = Idle
           \/ LedgerNext
<1>1. TypeOK
  BY DEF InductiveInv
<1>2. ASSUME NEW r \in Req,
             (\E a \in App : SubmitCommit(r, a)) \/ StatusSave(r) \/ ApproveCommit(r)
      PROVE  req'[r] = Idle
  BY <1>1, <1>2 DEF SubmitCommit, StatusSave, ApproveCommit, TypeOK
<1>3. ASSUME NEW r \in Req \ overtaken, NEW a \in App, SubmitCommit(r, a)
      PROVE  LedgerNext
  <2>1. req[r] \in SubmitReq
    BY <1>1, <1>3, SubmitReqs DEF SubmitCommit
  <2>2. req[r].user \in User /\ req[r].pet \in Pet
    BY <2>1 DEF SubmitReq
  <2>3. File(req[r].user, req[r].pet, a)
    BY <1>3 DEF SubmitCommit, File, UnovertakenAreCurrent, Current
  <2>. QED
    BY <2>2, <2>3 DEF LedgerNext
<1>4. ASSUME NEW r \in Req \ overtaken, StatusSave(r)
      PROVE  LedgerNext
  <2>1. /\ req[r].app \in App /\ app[req[r].app] \in Row
        /\ req[r].next \in NextApplicationStatuses(req[r].from)
        /\ req[r].next \in AppStatus
        /\ app[req[r].app].status = req[r].from
    BY <1>4, StatusRequest DEF StatusSave, UnovertakenAreCurrent, Current
  <2>2. Advance(req[r].app, req[r].next)
    BY <1>4, <2>1, NoRowIsNoRow DEF StatusSave, Advance, Filed
  <2>. QED
    BY <2>1, <2>2 DEF LedgerNext
<1>5. ASSUME NEW r \in Req \ overtaken, ApproveCommit(r)
      PROVE  LedgerNext
  <2>1. /\ req[r].app \in App /\ app[req[r].app] \in Row
        /\ req[r].next \in NextApplicationStatuses(req[r].from)
        /\ app[req[r].app].status = req[r].from
    BY <1>5, StatusRequest DEF ApproveCommit, UnovertakenAreCurrent, Current
  <2>2. Approve(req[r].app)
    BY <1>5, <2>1, NoRowIsNoRow DEF ApproveCommit, Approve, Filed
  <2>. QED
    BY <2>1, <2>2 DEF LedgerNext
<1>6. ASSUME NEW r \in Req, NEW u \in User, NEW p \in Pet, NEW s \in PetStatus,
             PetUpdateStatus(r, u, p, s)
      PROVE  LedgerNext
  <2>1. SetPetStatus(p, s)
    BY <1>6 DEF PetUpdateStatus, SetPetStatus
  <2>. QED
    BY <2>1 DEF LedgerNext
<1>7. ASSUME NEW r \in Req,
             \/ \E u \in User, p \in Pet : SubmitFindPet(r, u, p)
             \/ SubmitCheckDuplicate(r) \/ SubmitDuplicateLookupFails(r)
             \/ \E u \in User, a \in App, next \in AppStatus : StatusRead(r, u, a, next)
             \/ RequestFails(r)
      PROVE  UNCHANGED ledgerVars
  BY <1>7 DEF SubmitFindPet, SubmitCheckDuplicate, SubmitDuplicateLookupFails, StatusRead,
              RequestFails, ledgerVars
<1>8. CASE UNCHANGED vars
  BY <1>8 DEF vars, ledgerVars
<1>. QED
  BY <1>2, <1>3, <1>4, <1>5, <1>6, <1>7, <1>8 DEF Next, Submitting, ChangingStatus

\* However many requests run at once, and whether or not lookups fail, a commit
\* that is no step of the ledger is that of a request which another one overtook
\* or whose own lookup missed an application: nothing else makes pets and
\* applications disagree, moves a status off the state machine or files twice.
THEOREM DeviationsAreOvertaken == Spec => OnlyTheOvertakenDeviate
<1>1. InductiveInv /\ UnovertakenAreCurrent /\ [Next]_vars => UnovertakenAreCurrent'
  BY CurrentStep
<1>2. InductiveInv /\ UnovertakenAreCurrent /\ [Next]_vars =>
        [\/ UNCHANGED ledgerVars
         \/ \E r \in overtaken : req'[r] = Idle
         \/ LedgerNext]_vars
  BY LedgerStep
<1>. QED
  BY <1>1, <1>2, InitCurrent, InductiveInvariant, PTL DEF Spec, OnlyTheOvertakenDeviate

\* So a behaviour in which no overtaken request writes is one of the ledger, and
\* has its promises; requests may overlap in it as they like.
COROLLARY UndisturbedIsLedger ==
    Spec /\ [][(\E r \in overtaken : req'[r] = Idle) => UNCHANGED ledgerVars]_vars
        => ImplementsLedger
<1>1. /\ [\/ UNCHANGED ledgerVars
          \/ \E r \in overtaken : req'[r] = Idle
          \/ LedgerNext]_vars
      /\ [(\E r \in overtaken : req'[r] = Idle) => UNCHANGED ledgerVars]_vars
      => [LedgerNext]_ledgerVars
  BY DEF vars, ledgerVars
<1>2. Init => LedgerInit
  BY DEF Init
<1>. QED
  BY <1>1, <1>2, DeviationsAreOvertaken, PTL
     DEF Spec, OnlyTheOvertakenDeviate, ImplementsLedger, LedgerSpec

-----------------------------------------------------------------------------
(* How many may apply for one pet: counting requests, of which there are     *)
(* finitely many at once.                                                    *)

\* Filed applications are counted, so there is something to count.
Bounded ==
    /\ \A p \in Pet \ byHand : IsFiniteSet(FiledFor(p))
    /\ OversubscriptionBounded

LEMMA InFlightFinite ==
    ASSUME IsFiniteSet(Req), NEW p \in Pet
    PROVE  /\ IsFiniteSet(SubmitsInFlight(p))
           /\ Cardinality(SubmitsInFlight(p)) \in Nat
           /\ Cardinality(SubmitsInFlight(p)) <= Cardinality(Req)
           /\ Cardinality(Req) \in Nat
BY FS_Subset, FS_CardinalityType DEF SubmitsInFlight

LEMMA InitBounded == ASSUME IsFiniteSet(Req), Init PROVE Bounded
<1>1. ASSUME NEW p \in Pet \ byHand PROVE FiledFor(p) = {} /\ SubmitsInFlight(p) = {}
  BY DEF Init, LedgerInit, FiledFor, Filed, SubmitsInFlight, Idle
<1>2. IsFiniteSet({}) /\ Cardinality({}) = 0 /\ Cardinality(Req) \in Nat
  BY FS_EmptySet, FS_CardinalityType
<1>3. ASSUME NEW p \in Pet \ byHand
      PROVE  /\ IsFiniteSet(FiledFor(p))
             /\ Cardinality(FiledFor(p)) + Cardinality(SubmitsInFlight(p)) <= Cardinality(Req)
  BY <1>1, <1>2
<1>. QED
  BY <1>3 DEF Bounded, OversubscriptionBounded

\* A step that files nothing and puts no further submit in flight.
LEMMA NoMoreInFlight ==
    ASSUME IsFiniteSet(Req), Bounded, byHand \subseteq byHand',
           \A p \in Pet : FiledFor(p)' = FiledFor(p),
           \A r \in Req : req'[r].op = "submit" =>
               req[r].op = "submit" /\ req'[r].pet = req[r].pet
    PROVE  Bounded'
<1>1. ASSUME NEW p \in Pet \ byHand
      PROVE  Cardinality(SubmitsInFlight(p)') <= Cardinality(SubmitsInFlight(p))
  <2>1. SubmitsInFlight(p)' \subseteq SubmitsInFlight(p)
    BY DEF SubmitsInFlight
  <2>. QED
    BY <2>1, InFlightFinite, FS_Subset
<1>2. ASSUME NEW p \in Pet \ byHand'
      PROVE  /\ IsFiniteSet(FiledFor(p)')
             /\ Cardinality(FiledFor(p)') + Cardinality(SubmitsInFlight(p)') <= Cardinality(Req)
  <2>1. p \in Pet \ byHand
    OBVIOUS
  <2>2. /\ IsFiniteSet(FiledFor(p)) /\ FiledFor(p)' = FiledFor(p)
        /\ Cardinality(FiledFor(p)) + Cardinality(SubmitsInFlight(p)) <= Cardinality(Req)
    BY <2>1 DEF Bounded, OversubscriptionBounded
  <2>3. Cardinality(FiledFor(p)) \in Nat
    BY <2>2, FS_CardinalityType
  <2>4. SubmitsInFlight(p)' \subseteq SubmitsInFlight(p)
    BY DEF SubmitsInFlight
  <2>5. Cardinality(SubmitsInFlight(p)') \in Nat
    BY <2>4, InFlightFinite, FS_Subset, FS_CardinalityType
  <2>. QED
    BY <1>1, <2>1, <2>2, <2>3, <2>5, InFlightFinite
<1>. QED
  BY <1>2 DEF Bounded, OversubscriptionBounded

\* Only a pet on the list is applied for, and nobody has filed for it then.
LEMMA BoundedFindPet ==
    ASSUME IsFiniteSet(Req), InductiveInv, Bounded,
           NEW r \in Req, NEW u \in User, NEW p \in Pet, SubmitFindPet(r, u, p)
    PROVE  Bounded'
<1>. DEFINE x == [op |-> "submit", user |-> u, pet |-> p, checked |-> FALSE]
<1>1. /\ req' = [req EXCEPT ![r] = x] /\ x.op = "submit" /\ x.pet = p
      /\ req[r].op # "submit" /\ UNCHANGED <<petStatus, app, byHand>>
      /\ petStatus[p] = "available"
  BY DEF SubmitFindPet, Idle
<1>. HIDE DEF x
<1>2. \A q \in Req : req'[q] = IF q = r THEN x ELSE req[q]
  BY <1>1 DEF InductiveInv, TypeOK
<1>3. \A q \in Pet : FiledFor(q)' = FiledFor(q)
  BY <1>1 DEF FiledFor, Filed
<1>4. ASSUME NEW q \in Pet \ byHand'
      PROVE  /\ IsFiniteSet(FiledFor(q)')
             /\ Cardinality(FiledFor(q)') + Cardinality(SubmitsInFlight(q)') <= Cardinality(Req)
  <2>1. q \in Pet \ byHand
    BY <1>1
  <2>2. CASE q = p
    <3>1. FiledFor(q)' = {}
      BY <1>1, <1>3, <2>1, <2>2 DEF InductiveInv, AvailableMeansUntouched
    <3>2. SubmitsInFlight(q)' \subseteq Req
      BY DEF SubmitsInFlight
    <3>3. /\ Cardinality(SubmitsInFlight(q)') \in Nat
          /\ Cardinality(SubmitsInFlight(q)') <= Cardinality(Req)
      BY <3>2, FS_Subset, FS_CardinalityType
    <3>. QED
      BY <3>1, <3>3, FS_EmptySet
  <2>3. CASE q # p
    <3>1. SubmitsInFlight(q)' = SubmitsInFlight(q)
      BY <1>1, <1>2, <2>3 DEF SubmitsInFlight
    <3>. QED
      BY <1>3, <2>1, <3>1 DEF Bounded, OversubscriptionBounded
  <2>. QED
    BY <2>2, <2>3
<1>. QED
  BY <1>4 DEF Bounded, OversubscriptionBounded

\* A commit files one application, and one submit is no longer in flight.
LEMMA BoundedCommit ==
    ASSUME IsFiniteSet(Req), InductiveInv, Bounded,
           NEW r \in Req, NEW a \in App, SubmitCommit(r, a)
    PROVE  Bounded'
<1>. DEFINE row == [user |-> req[r].user, pet |-> req[r].pet, status |-> "submitted"]
<1>1. TypeOK
  BY DEF InductiveInv
<1>2. req[r] \in SubmitReq
  BY <1>1, SubmitReqs DEF SubmitCommit
<1>3. row \in Row /\ row.pet = req[r].pet /\ row # NoRow
  BY <1>2, NoRowIsNoRow DEF SubmitReq, Row, AppStatus
<1>4. /\ app' = [app EXCEPT ![a] = row] /\ app[a] = NoRow /\ byHand' = byHand
      /\ req' = [req EXCEPT ![r] = Idle] /\ req[r].op = "submit"
  BY DEF SubmitCommit, Filed
<1>. HIDE DEF row
<1>5. \A q \in Req : req'[q] = IF q = r THEN Idle ELSE req[q]
  BY <1>1, <1>4 DEF TypeOK
<1>6. \A b \in App : app'[b] = IF b = a THEN row ELSE app[b]
  BY <1>1, <1>4 DEF TypeOK, LedgerTypeOK
<1>7. ASSUME NEW p \in Pet \ byHand'
      PROVE  /\ IsFiniteSet(FiledFor(p)')
             /\ Cardinality(FiledFor(p)') + Cardinality(SubmitsInFlight(p)') <= Cardinality(Req)
  <2>1. /\ IsFiniteSet(FiledFor(p))
        /\ Cardinality(FiledFor(p)) + Cardinality(SubmitsInFlight(p)) <= Cardinality(Req)
    BY <1>4 DEF Bounded, OversubscriptionBounded
  <2>2. CASE p = req[r].pet
    <3>1. FiledFor(p)' = FiledFor(p) \cup {a} /\ a \notin FiledFor(p)
      BY <1>3, <1>4, <1>6, <2>2 DEF FiledFor, Filed
    <3>2. SubmitsInFlight(p)' = SubmitsInFlight(p) \ {r} /\ r \in SubmitsInFlight(p)
      BY <1>4, <1>5, <2>2 DEF SubmitsInFlight, Idle
    <3>3. /\ IsFiniteSet(FiledFor(p)')
          /\ Cardinality(FiledFor(p)') = Cardinality(FiledFor(p)) + 1
      BY <2>1, <3>1, FS_AddElement
    <3>4. Cardinality(SubmitsInFlight(p)') = Cardinality(SubmitsInFlight(p)) - 1
      BY <3>2, InFlightFinite, FS_RemoveElement
    <3>5. Cardinality(FiledFor(p)) \in Nat
      BY <2>1, FS_CardinalityType
    <3>. QED
      BY <2>1, <3>3, <3>4, <3>5, InFlightFinite
  <2>3. CASE p # req[r].pet
    <3>1. FiledFor(p)' = FiledFor(p)
      BY <1>3, <1>4, <1>6, <2>3 DEF FiledFor, Filed
    <3>2. SubmitsInFlight(p)' = SubmitsInFlight(p)
      BY <1>4, <1>5, <2>3 DEF SubmitsInFlight, Idle
    <3>. QED
      BY <2>1, <3>1, <3>2
  <2>. QED
    BY <2>2, <2>3
<1>. QED
  BY <1>7 DEF Bounded, OversubscriptionBounded

LEMMA BoundedStep ==
    ASSUME IsFiniteSet(Req), InductiveInv, Bounded, [Next]_vars
    PROVE  Bounded'
<1>1. TypeOK
  BY DEF InductiveInv
<1>2. ASSUME NEW r \in Req, NEW x, req' = [req EXCEPT ![r] = x], UNCHANGED byHand,
             x.op = "submit" => req[r].op = "submit" /\ x.pet = req[r].pet,
             \A p \in Pet : FiledFor(p)' = FiledFor(p)
      PROVE  Bounded'
  <2>1. \A q \in Req : req'[q] = IF q = r THEN x ELSE req[q]
    BY <1>1, <1>2 DEF TypeOK
  <2>. QED
    BY <1>2, <2>1, NoMoreInFlight
<1>3. app' = app => \A p \in Pet : FiledFor(p)' = FiledFor(p)
  BY DEF FiledFor, Filed
<1>4. Idle.op # "submit"
  BY DEF Idle
<1>5. ASSUME NEW r \in Req, SubmitCheckDuplicate(r) \/ SubmitDuplicateLookupFails(r)
      PROVE  Bounded'
  <2>1. PICK x \in {Idle, [req[r] EXCEPT !.checked = TRUE]} : req' = [req EXCEPT ![r] = x]
    BY <1>1, <1>5 DEF SubmitCheckDuplicate, SubmitDuplicateLookupFails, TypeOK
  <2>2. req[r].op = "submit" /\ UNCHANGED <<app, byHand>>
    BY <1>5 DEF SubmitCheckDuplicate, SubmitDuplicateLookupFails
  <2>3. req[r] \in SubmitReq
    BY <1>1, <2>2, SubmitReqs
  <2>4. [req[r] EXCEPT !.checked = TRUE].pet = req[r].pet
    BY <2>3 DEF SubmitReq
  <2>. QED
    BY <1>2, <1>3, <1>4, <2>1, <2>2, <2>4
<1>6. ASSUME NEW r \in Req, NEW u \in User, NEW a \in App, NEW next \in AppStatus,
             StatusRead(r, u, a, next)
      PROVE  Bounded'
  <2>. DEFINE x == [op |-> "status", app |-> a, from |-> app[a].status, next |-> next]
  <2>1. x.op = "status" /\ req' = [req EXCEPT ![r] = x] /\ UNCHANGED <<app, byHand>>
    BY <1>6 DEF StatusRead
  <2>. HIDE DEF x
  <2>. QED
    BY <1>2, <1>3, <2>1
<1>7. ASSUME NEW r \in Req, StatusSave(r) \/ ApproveCommit(r)
      PROVE  Bounded'
  <2>1. /\ req' = [req EXCEPT ![r] = Idle] /\ UNCHANGED byHand
        /\ \A p \in Pet : FiledFor(p)' = FiledFor(p)
    BY <1>7, StatusWritten DEF StatusSave, ApproveCommit
  <2>. QED
    BY <1>2, <1>4, <2>1
<1>8. ASSUME NEW r \in Req, RequestFails(r) PROVE Bounded'
  BY <1>2, <1>3, <1>4, <1>8 DEF RequestFails
<1>9. CASE (\E r \in Req, u \in User, p \in Pet, s \in PetStatus : PetUpdateStatus(r, u, p, s))
            \/ UNCHANGED vars
  <2>1. UNCHANGED <<app, req>> /\ byHand \subseteq byHand'
    BY <1>9 DEF PetUpdateStatus, vars
  <2>. QED
    BY <1>3, <2>1, NoMoreInFlight
<1>. QED
  BY <1>5, <1>6, <1>7, <1>8, <1>9, BoundedFindPet, BoundedCommit
     DEF Next, Submitting, ChangingStatus

\* However submits race, a pet collects no more applications than requests run
\* at once, whatever that number is.
THEOREM OversubscriptionLimit ==
    ASSUME IsFiniteSet(Req) PROVE Spec => []OversubscriptionBounded
<1>1. Init => Bounded
  BY InitBounded
<1>2. InductiveInv /\ Bounded /\ [Next]_vars => Bounded'
  BY BoundedStep
<1>3. Bounded => OversubscriptionBounded
  BY DEF Bounded
<1>. QED
  BY <1>1, <1>2, <1>3, InductiveInvariant, PTL DEF Spec
=============================================================================
