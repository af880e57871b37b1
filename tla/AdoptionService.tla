--------------------------- MODULE AdoptionService ---------------------------
(***************************************************************************)
(* The adoption flow as the server runs it.  Every HTTP request is a       *)
(* goroutine that reads rows, decides, and then writes whole rows back, in *)
(* separate database round trips with no lock between the read and the     *)
(* write; requests interleave at every round trip.  The state is the two   *)
(* tables the flow writes (pets.status, adoption_applications) and, per    *)
(* request slot, what that request has read so far.                        *)
(*                                                                         *)
(* Columns that never change after a row is created (pet.org_id,           *)
(* application.user_id and pet_id, organization.user_id, user.role) are    *)
(* constants or part of the row: a full-row Save writes the status column  *)
(* and nothing else that differs.                                          *)
(*                                                                         *)
(* The tables are the ledger's own variables, so that its actions say what *)
(* the commits of this module should amount to.                            *)
(***************************************************************************)
EXTENDS AdoptionLedger, Naturals, FiniteSets

CONSTANTS
    Org,          \* organization ids, naturals in creation order
    Role,         \* Role[u] \in {"user", "org", "admin"}
    OrgOwner,     \* OrgOwner[o], the account that registered o
    PetOrg,       \* PetOrg[p], the organization that published p
    Req,          \* request slots: how many requests are in flight at once
    FlakyLookup   \* whether the duplicate lookup may fail with a database error

ASSUME ConstantsAssumption ==
    /\ Org \subseteq Nat
    /\ Role \in [User -> {"user", "org", "admin"}]
    /\ OrgOwner \in [Org -> User]
    /\ PetOrg \in [Pet -> Org]
    /\ FlakyLookup \in BOOLEAN

VARIABLES
    req,          \* what each request slot is doing and has read
    held,         \* history: the statuses each application has ever held
    overtaken     \* history: the slots whose request can no longer rely on what
                  \* it has read

vars == <<petStatus, app, req, held, byHand, overtaken>>

Idle == [op |-> "idle"]
\* A submit that has read its pet; checked once the duplicate lookup is done.
SubmitReq == [op : {"submit"}, user : User, pet : Pet, checked : BOOLEAN]
\* A status change that has read the application (in status from) and passed
\* every check.
StatusReq == [op : {"status"}, app : App, from : AppStatus, next : AppStatus]

TypeOK ==
    /\ LedgerTypeOK
    /\ req \in [Req -> {Idle} \cup SubmitReq \cup StatusReq]
    /\ held \in [App -> SUBSET AppStatus]
    /\ overtaken \in SUBSET Req

\* The organization a handler finds for an account: the one with the lowest
\* id (First orders by primary key), so an account's later organizations are
\* never found.
IsFirstOrg(u, o) ==
    /\ OrgOwner[o] = u
    /\ \A o2 \in Org : OrgOwner[o2] = u => o <= o2

Init ==
    /\ LedgerInit
    /\ req = [r \in Req |-> Idle]
    /\ held = [a \in App |-> IF SeedApp[a] = NoRow THEN {} ELSE {"submitted"}]
    /\ overtaken = {}

-----------------------------------------------------------------------------
(* POST /applications *)

\* Deliberately wrong: the availability check is missing.
SubmitFindPetUnchecked(r, u, p) ==
    /\ req[r] = Idle
    /\ req' = [req EXCEPT ![r] = [op |-> "submit", user |-> u, pet |-> p, checked |-> FALSE]]
    /\ UNCHANGED <<petStatus, app, held, byHand>>

\* Read the pet; only an available one lets the request go on.
SubmitFindPet(r, u, p) ==
    /\ req[r] = Idle
    /\ petStatus[p] = "available"
    /\ req' = [req EXCEPT ![r] = [op |-> "submit", user |-> u, pet |-> p, checked |-> FALSE]]
    /\ UNCHANGED <<petStatus, app, held, byHand>>

\* Deliberately wrong: the result of the lookup is ignored.
SubmitIgnoreDuplicate(r) ==
    /\ req[r].op = "submit" /\ ~req[r].checked
    /\ req' = [req EXCEPT ![r].checked = TRUE]
    /\ UNCHANGED <<petStatus, app, held, byHand>>

\* Look for an application of this user for this pet; one ends the request
\* with a conflict.
SubmitCheckDuplicate(r) ==
    /\ req[r].op = "submit" /\ ~req[r].checked
    /\ LET dup == \E a \in FiledFor(req[r].pet) : app[a].user = req[r].user
       IN  req' = [req EXCEPT ![r] = IF dup THEN Idle ELSE [@ EXCEPT !.checked = TRUE]]
    /\ UNCHANGED <<petStatus, app, held, byHand>>

\* The lookup returns a database error: the code acts on err = nil only, so
\* the request goes on as if there were no application.
SubmitDuplicateLookupFails(r) ==
    /\ FlakyLookup
    /\ req[r].op = "submit" /\ ~req[r].checked
    /\ req' = [req EXCEPT ![r].checked = TRUE]
    /\ UNCHANGED <<petStatus, app, held, byHand>>

\* Deliberately wrong: the pet is left out of the transaction.
SubmitCommitRowOnly(r, a) ==
    /\ req[r].op = "submit" /\ req[r].checked
    /\ ~Filed(a)
    /\ app' = [app EXCEPT ![a] = [user   |-> req[r].user,
                                  pet    |-> req[r].pet,
                                  status |-> "submitted"]]
    /\ held' = [held EXCEPT ![a] = {"submitted"}]
    /\ req' = [req EXCEPT ![r] = Idle]
    /\ UNCHANGED <<petStatus, byHand>>

\* The transaction: insert the application and save the pet, as read in
\* SubmitFindPet, with status pending.
SubmitCommit(r, a) ==
    /\ req[r].op = "submit" /\ req[r].checked
    /\ ~Filed(a)
    /\ app' = [app EXCEPT ![a] = [user   |-> req[r].user,
                                  pet    |-> req[r].pet,
                                  status |-> "submitted"]]
    /\ petStatus' = [petStatus EXCEPT ![req[r].pet] = "pending"]
    /\ held' = [held EXCEPT ![a] = {"submitted"}]
    /\ req' = [req EXCEPT ![r] = Idle]
    /\ UNCHANGED byHand

-----------------------------------------------------------------------------
(* PUT /applications/:id/status *)

\* Who may change an application: an org account on its first organization's
\* applications, a user on their own, an admin on all.
MayChange(u, a) ==
    /\ Role[u] = "org"  => IsFirstOrg(u, PetOrg[app[a].pet])
    /\ Role[u] = "user" => app[a].user = u

\* Deliberately wrong: the edge is not looked up.
StatusReadAnyEdge(r, u, a, next) ==
    /\ req[r] = Idle
    /\ Filed(a)
    /\ MayChange(u, a)
    /\ req' = [req EXCEPT ![r] = [op |-> "status", app |-> a,
                                  from |-> app[a].status, next |-> next]]
    /\ UNCHANGED <<petStatus, app, held, byHand>>

\* Read the application, check the actor and the edge of the state machine.
StatusRead(r, u, a, next) ==
    /\ req[r] = Idle
    /\ Filed(a)
    /\ MayChange(u, a)
    /\ next \in NextApplicationStatuses(app[a].status)
    /\ req' = [req EXCEPT ![r] = [op |-> "status", app |-> a,
                                  from |-> app[a].status, next |-> next]]
    /\ UNCHANGED <<petStatus, app, held, byHand>>

\* Save the row as read, with the new status.
StatusSave(r) ==
    /\ req[r].op = "status" /\ req[r].next # "approved"
    /\ app' = [app EXCEPT ![req[r].app].status = req[r].next]
    /\ held' = [held EXCEPT ![req[r].app] = @ \cup {req[r].next}]
    /\ req' = [req EXCEPT ![r] = Idle]
    /\ UNCHANGED <<petStatus, byHand>>

\* Deliberately wrong: the transaction saves the pet only.
ApproveCommitPetOnly(r) ==
    /\ req[r].op = "status" /\ req[r].next = "approved"
    /\ petStatus' = [petStatus EXCEPT ![app[req[r].app].pet] = "adopted"]
    /\ req' = [req EXCEPT ![r] = Idle]
    /\ UNCHANGED <<app, held, byHand>>

\* Deliberately wrong: the transaction saves the application only.
ApproveCommitRowOnly(r) ==
    /\ req[r].op = "status" /\ req[r].next = "approved"
    /\ app' = [app EXCEPT ![req[r].app].status = "approved"]
    /\ held' = [held EXCEPT ![req[r].app] = @ \cup {"approved"}]
    /\ req' = [req EXCEPT ![r] = Idle]
    /\ UNCHANGED <<petStatus, byHand>>

\* Approval saves the application and its pet, adopted, in one transaction.
ApproveCommit(r) ==
    /\ req[r].op = "status" /\ req[r].next = "approved"
    /\ app' = [app EXCEPT ![req[r].app].status = "approved"]
    /\ petStatus' = [petStatus EXCEPT ![app[req[r].app].pet] = "adopted"]
    /\ held' = [held EXCEPT ![req[r].app] = @ \cup {"approved"}]
    /\ req' = [req EXCEPT ![r] = Idle]
    /\ UNCHANGED byHand

-----------------------------------------------------------------------------
\* PUT /pets/:id/status: an organization sets a pet it manages to any status.
\* Read and Save are one step: what the read returns is overwritten whole.
PetUpdateStatus(r, u, p, s) ==
    /\ req[r] = Idle
    /\ Role[u] = "org"
    /\ IsFirstOrg(u, PetOrg[p])
    /\ petStatus' = [petStatus EXCEPT ![p] = s]
    /\ byHand' = byHand \cup {p}
    /\ UNCHANGED <<app, req, held>>

\* A request ends early: a database error rolls its transaction back, or the
\* server is stopped.  Nothing it had not committed is left.
RequestFails(r) ==
    /\ req[r] # Idle
    /\ req' = [req EXCEPT ![r] = Idle]
    /\ UNCHANGED <<petStatus, app, held, byHand>>

Submitting(r) ==
    \/ \E u \in User, p \in Pet : SubmitFindPet(r, u, p)
    \/ SubmitCheckDuplicate(r)
    \/ SubmitDuplicateLookupFails(r)
    \/ \E a \in App : SubmitCommit(r, a)

ChangingStatus(r) ==
    \/ \E u \in User, a \in App, next \in AppStatus : StatusRead(r, u, a, next)
    \/ StatusSave(r)
    \/ ApproveCommit(r)

-----------------------------------------------------------------------------
\* A request is overtaken when another one writes what it has read, its pet, an
\* application for that pet or its application, and when its lookup failed
\* over an application that is there.
ChangedPets == {p \in Pet : petStatus'[p] # petStatus[p] \/ FiledFor(p)' # FiledFor(p)}
Touched(r) ==
    \/ req[r].op = "submit" /\ req[r].pet \in ChangedPets
    \/ req[r].op = "status" /\ app'[req[r].app] # app[req[r].app]
LookupMissed(r) ==
    /\ req[r].op = "submit" /\ ~req[r].checked /\ req'[r] # Idle /\ req'[r].checked
    /\ \E a \in FiledFor(req[r].pet) : app[a].user = req[r].user
NoteOvertaken ==
    overtaken' = {r \in Req : /\ req'[r] # Idle
                              /\ r \in overtaken \/ Touched(r) \/ LookupMissed(r)}

Next ==
    /\ \E r \in Req :
          \/ Submitting(r)
          \/ ChangingStatus(r)
          \/ \E u \in User, p \in Pet, s \in PetStatus : PetUpdateStatus(r, u, p, s)
          \/ RequestFails(r)
    /\ NoteOvertaken

Spec == Init /\ [][Next]_vars

-----------------------------------------------------------------------------
(* What holds whatever the interleaving. *)

\* However requests race on one application, no stage is skipped: an
\* application that holds or once held a status has held every stage before
\* it, because each writer read a status the application really had.
ThroughEveryStage ==
    \A a \in App : \A s \in held[a] : StagesBefore(s) \subseteq held[a]

\* A pet on the list whose status only the flow has written has no
\* application, so taking it off the list and filing are never torn apart.
AvailableMeansUntouched ==
    \A p \in Pet \ byHand : petStatus[p] = "available" => FiledFor(p) = {}

\* A pet is handed over only by an application that was approved: some
\* application for an adopted pet went through the whole procedure.
AdoptedOnlyByApproval ==
    \A p \in Pet \ byHand :
        petStatus[p] = "adopted" => \E a \in FiledFor(p) : "approved" \in held[a]

\* What makes the three above hold through every interleaving: a status change
\* in flight holds a status its application really had, and an edge out of it;
\* an application's current status is in its history.
ReadsComeFromHistory ==
    /\ \A r \in Req : req[r].op = "status" =>
          /\ Filed(req[r].app)
          /\ req[r].from \in held[req[r].app]
          /\ req[r].next \in NextApplicationStatuses(req[r].from)
    /\ \A a \in App : Filed(a) => app[a].status \in held[a]

InductiveInv ==
    /\ TypeOK
    /\ ReadsComeFromHistory
    /\ ThroughEveryStage
    /\ AvailableMeansUntouched
    /\ AdoptedOnlyByApproval

\* Submits that all read the pet as available may all commit, but only those:
\* a pet collects at most as many applications as requests run at once, and
\* the submits still in flight count against that bound.
SubmitsInFlight(p) == {r \in Req : req[r].op = "submit" /\ req[r].pet = p}
OversubscriptionBounded ==
    \A p \in Pet \ byHand :
        Cardinality(FiledFor(p)) + Cardinality(SubmitsInFlight(p)) <= Cardinality(Req)

\* Only a request that was overtaken leaves the ledger: whatever else goes on,
\* a request that can still rely on what it read commits one step of the ledger,
\* and nothing but a commit writes there.
OnlyTheOvertakenDeviate ==
    [][\/ UNCHANGED ledgerVars
       \/ \E r \in overtaken : req'[r] = Idle
       \/ LedgerNext]_vars

-----------------------------------------------------------------------------
(* What holds when requests do not overlap, and breaks when they do. *)

\* An application's status moves along a forward edge only.
AlongStateMachine ==
    [][\A a \in App : Filed(a) /\ app'[a] # app[a] =>
          app'[a].status \in NextApplicationStatuses(app[a].status)]_vars

\* One request at a time, the service keeps every promise of the ledger: its
\* commits are the ledger's steps, its reads change nothing there.
ImplementsLedger == LedgerSpec
=============================================================================
