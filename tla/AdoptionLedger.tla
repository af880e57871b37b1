---------------------------- MODULE AdoptionLedger ----------------------------
(***************************************************************************)
(* What the adoption flow promises its users, as if every request ran      *)
(* alone: filing an application takes an available pet off the list, an    *)
(* application moves along the state machine one edge at a time, approval  *)
(* hands the pet over, and nobody applies twice for the same pet.  The     *)
(* only other way a pet's status moves is its organization setting it by   *)
(* hand (PUT /pets/:id/status), which this ledger remembers in byHand.     *)
(***************************************************************************)
EXTENDS AdoptionConstants

CONSTANTS
    User,       \* accounts
    Pet,        \* published pets
    App,        \* identifiers of application rows
    NoRow,      \* marks an identifier no row has been created for
    SeedApp     \* rows present when the server first starts, with their pets
                \* still on the list (the seed data)

ASSUME LedgerAssumption ==
    SeedApp \in [App -> [user : User, pet : Pet, status : {"submitted"}] \cup {NoRow}]

ASSUME NoRowAssumption ==
    NoRow \notin [user : User, pet : Pet, status : AppStatus]

ASSUME SeedUnique ==
    \A a, b \in App : SeedApp[a] # NoRow /\ SeedApp[b] # NoRow /\ a # b =>
        <<SeedApp[a].user, SeedApp[a].pet>> # <<SeedApp[b].user, SeedApp[b].pet>>

VARIABLES
    petStatus,  \* pets.status
    app,        \* rows of adoption_applications
    byHand      \* pets whose status was also written outside the flow

ledgerVars == <<petStatus, app, byHand>>

Row == [user : User, pet : Pet, status : AppStatus]

Filed(a) == app[a] # NoRow
FiledFor(p) == {a \in App : Filed(a) /\ app[a].pet = p}

LedgerTypeOK ==
    /\ petStatus \in [Pet -> PetStatus]
    /\ app \in [App -> Row \cup {NoRow}]
    /\ byHand \in SUBSET Pet

LedgerInit ==
    /\ petStatus = [p \in Pet |-> "available"]
    /\ app = SeedApp
    /\ byHand = {p \in Pet : \E a \in App : SeedApp[a] # NoRow /\ SeedApp[a].pet = p}

-----------------------------------------------------------------------------
\* A user applies for an available pet: the row appears and the pet leaves the
\* list in one step.
File(u, p, a) ==
    /\ petStatus[p] = "available"
    /\ \A b \in FiledFor(p) : app[b].user # u
    /\ ~Filed(a)
    /\ app' = [app EXCEPT ![a] = [user |-> u, pet |-> p, status |-> "submitted"]]
    /\ petStatus' = [petStatus EXCEPT ![p] = "pending"]
    /\ UNCHANGED byHand

\* An application takes one forward edge short of approval.
Advance(a, t) ==
    /\ Filed(a)
    /\ t \in NextApplicationStatuses(app[a].status) \ {"approved"}
    /\ app' = [app EXCEPT ![a].status = t]
    /\ UNCHANGED <<petStatus, byHand>>

\* Approval and the hand-over of the pet are one step.
Approve(a) ==
    /\ Filed(a)
    /\ "approved" \in NextApplicationStatuses(app[a].status)
    /\ app' = [app EXCEPT ![a].status = "approved"]
    /\ petStatus' = [petStatus EXCEPT ![app[a].pet] = "adopted"]
    /\ UNCHANGED byHand

\* The organization sets a pet's status by hand.
SetPetStatus(p, s) ==
    /\ petStatus' = [petStatus EXCEPT ![p] = s]
    /\ byHand' = byHand \cup {p}
    /\ UNCHANGED app

LedgerNext ==
    \/ \E u \in User, p \in Pet, a \in App : File(u, p, a)
    \/ \E a \in App, t \in AppStatus : Advance(a, t)
    \/ \E a \in App : Approve(a)
    \/ \E p \in Pet, s \in PetStatus : SetPetStatus(p, s)

LedgerSpec == LedgerInit /\ [][LedgerNext]_ledgerVars

-----------------------------------------------------------------------------
\* A pet whose status only the flow has written is on the list exactly while
\* nobody has applied for it, handed over exactly when an application for it
\* is approved, and never applied for twice: a rejection does not put it back
\* (application_service.go touches the pet on submit and approval only).
PetAgreesWithApplications ==
    \A p \in Pet \ byHand :
        /\ (petStatus[p] = "available") <=> (FiledFor(p) = {})
        /\ (petStatus[p] = "adopted") <=> (\E a \in FiledFor(p) : app[a].status = "approved")
        /\ \A a, b \in FiledFor(p) : a = b

\* Nobody holds two applications for one pet, by-hand pets included
\* (the "already applied" conflict of Submit).
OneApplicationPerUserAndPet ==
    \A a, b \in App :
        Filed(a) /\ Filed(b) /\ app[a].user = app[b].user /\ app[a].pet = app[b].pet
            => a = b
=============================================================================
