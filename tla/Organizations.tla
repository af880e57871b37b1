---------------------------- MODULE Organizations ----------------------------
(***************************************************************************)
(* Rescue organizations: registration, certification, and the two things a *)
(* certified organization may do, publish a pet and receive a donation,    *)
(* with the usage records it publishes afterwards.                         *)
(*                                                                         *)
(* A request reads the organization in one round trip and writes in        *)
(* another.  An INSERT takes its id from the sequence when it runs and is  *)
(* seen by others when its transaction commits, so organizations can       *)
(* appear out of id order.                                                 *)
(***************************************************************************)
EXTENDS Naturals, FiniteSets

CONSTANTS
    User,
    Role,       \* Role[u] \in {"user", "org", "admin"}
    MaxOrg,     \* bound on the organization ids
    Pet,        \* rows pets may still take
    Donation,   \* rows donations may still take
    Usage,      \* rows donation_usages may still take
    Req,        \* request slots
    NoRow,      \* a row not inserted
    SeedOrg     \* organizations of the seed, NoRow for the other ids

OrgId == 1 .. MaxOrg
OrgStatus == {"pending", "approved", "rejected"}
AskedStatus == OrgStatus \cup {"unknown"}   \* what a review request may ask for
Organization == [owner : User, status : OrgStatus]

ASSUME OrganizationsAssumption ==
    /\ MaxOrg \in Nat
    /\ Role \in [User -> {"user", "org", "admin"}]
    /\ SeedOrg \in [OrgId -> [owner : User, status : {"approved"}] \cup {NoRow}]
    /\ \A o \in OrgId : SeedOrg[o] # NoRow => \A o2 \in 1 .. o : SeedOrg[o2] # NoRow

ASSUME NoRowAssumption ==
    /\ NoRow \notin Organization
    /\ NoRow \notin [by : User, org : OrgId]
    /\ NoRow \notin [by : User, donation : Donation]

VARIABLES
    org,        \* committed rows of organizations
    lastOrg,    \* the sequence behind organizations.id
    pet,        \* rows of pets: who published one, for which organization
    donation,   \* rows of donations: who gave, to which organization
    usage,      \* rows of donation_usages: who wrote one, on which donation
    req,        \* what each request slot is doing and has read
    certified   \* history: organizations that have ever been approved

vars == <<org, lastOrg, pet, donation, usage, req, certified>>

Idle == [op |-> "idle"]
RegisterReq == [op : {"register"}, org : OrgId, owner : User]
ReviewReq == [op : {"review"}, org : OrgId, status : OrgStatus]
ForOrgReq == [op : {"publish", "donate"}, by : User, org : OrgId]
UsageReq == [op : {"usage"}, by : User, donation : Donation]

TypeOK ==
    /\ org \in [OrgId -> Organization \cup {NoRow}]
    /\ lastOrg \in 0 .. MaxOrg
    /\ pet \in [Pet -> [by : User, org : OrgId] \cup {NoRow}]
    /\ donation \in [Donation -> [by : User, org : OrgId] \cup {NoRow}]
    /\ usage \in [Usage -> [by : User, donation : Donation] \cup {NoRow}]
    /\ req \in [Req -> {Idle} \cup RegisterReq \cup ReviewReq \cup ForOrgReq \cup UsageReq]
    /\ certified \subseteq OrgId

Exists(o) == org[o] # NoRow
Certified(o) == Exists(o) /\ org[o].status = "approved"

\* Deliberately wrong: the newest organization of the account.
IsLatestOrg(u, o) ==
    /\ Exists(o) /\ org[o].owner = u
    /\ \A o2 \in OrgId : Exists(o2) /\ org[o2].owner = u => o2 <= o

\* The organization an account is taken to stand for: its lowest id.
IsOrgOf(u, o) ==
    /\ Exists(o) /\ org[o].owner = u
    /\ \A o2 \in OrgId : Exists(o2) /\ org[o2].owner = u => o <= o2

Init ==
    /\ org = SeedOrg
    /\ lastOrg = Cardinality({o \in OrgId : SeedOrg[o] # NoRow})
    /\ pet = [p \in Pet |-> NoRow]
    /\ donation = [d \in Donation |-> NoRow]
    /\ usage = [g \in Usage |-> NoRow]
    /\ req = [r \in Req |-> Idle]
    /\ certified = {o \in OrgId : SeedOrg[o] # NoRow}

\* A request slot starts on something, or ends.
Takes(r, what) == req[r] = Idle /\ req' = [req EXCEPT ![r] = what]
Ends(r) == req' = [req EXCEPT ![r] = Idle]

-----------------------------------------------------------------------------
(* POST /orgs *)

\* The INSERT: an id, and a row nobody else sees yet.
RegisterInsert(r, u) ==
    /\ Role[u] = "org"
    /\ lastOrg < MaxOrg
    /\ lastOrg' = lastOrg + 1
    /\ Takes(r, [op |-> "register", org |-> lastOrg + 1, owner |-> u])
    /\ UNCHANGED <<org, pet, donation, usage, certified>>

\* Deliberately wrong: the row is born certified.
RegisterCommitApproved(r) ==
    /\ req[r].op = "register"
    /\ org' = [org EXCEPT ![req[r].org] = [owner |-> req[r].owner, status |-> "approved"]]
    /\ Ends(r)
    /\ UNCHANGED <<lastOrg, pet, donation, usage, certified>>

RegisterCommit(r) ==
    /\ req[r].op = "register"
    /\ org' = [org EXCEPT ![req[r].org] = [owner |-> req[r].owner, status |-> "pending"]]
    /\ Ends(r)
    /\ UNCHANGED <<lastOrg, pet, donation, usage, certified>>

(* PUT /orgs/:id/review *)

\* An admin's verdict, one of the known statuses, on an organization that exists.
ReviewFind(r, o, status) ==
    /\ status \in OrgStatus
    /\ \E u \in User : Role[u] = "admin"
    /\ Exists(o)
    /\ Takes(r, [op |-> "review", org |-> o, status |-> status])
    /\ UNCHANGED <<org, lastOrg, pet, donation, usage, certified>>

ReviewSave(r) ==
    /\ req[r].op = "review"
    /\ org' = [org EXCEPT ![req[r].org].status = req[r].status]
    /\ certified' = IF req[r].status = "approved" THEN certified \cup {req[r].org} ELSE certified
    /\ Ends(r)
    /\ UNCHANGED <<lastOrg, pet, donation, usage>>

-----------------------------------------------------------------------------
(* POST /pets *)

\* The account's organization, which must be certified.
PublishFindOrg(r, u, o) ==
    /\ Role[u] = "org"
    /\ IsOrgOf(u, o) /\ Certified(o)
    /\ Takes(r, [op |-> "publish", by |-> u, org |-> o])
    /\ UNCHANGED <<org, lastOrg, pet, donation, usage, certified>>

PublishCreate(r, p) ==
    /\ req[r].op = "publish"
    /\ pet[p] = NoRow
    /\ pet' = [pet EXCEPT ![p] = [by |-> req[r].by, org |-> req[r].org]]
    /\ Ends(r)
    /\ UNCHANGED <<org, lastOrg, donation, usage, certified>>

(* POST /donations *)

DonateFindOrg(r, u, o) ==
    /\ Certified(o)
    /\ Takes(r, [op |-> "donate", by |-> u, org |-> o])
    /\ UNCHANGED <<org, lastOrg, pet, donation, usage, certified>>

DonateCreate(r, d) ==
    /\ req[r].op = "donate"
    /\ donation[d] = NoRow
    /\ donation' = [donation EXCEPT ![d] = [by |-> req[r].by, org |-> req[r].org]]
    /\ Ends(r)
    /\ UNCHANGED <<org, lastOrg, pet, usage, certified>>

(* POST /donations/usage *)

\* Deliberately wrong: any organization may account for any donation.
UsageFindAny(r, u, d) ==
    /\ Role[u] = "org"
    /\ donation[d] # NoRow
    /\ Takes(r, [op |-> "usage", by |-> u, donation |-> d])
    /\ UNCHANGED <<org, lastOrg, pet, donation, usage, certified>>

\* The donation, and the account's organization, which must have received it.
UsageFind(r, u, d) ==
    /\ Role[u] = "org"
    /\ donation[d] # NoRow
    /\ IsOrgOf(u, donation[d].org)
    /\ Takes(r, [op |-> "usage", by |-> u, donation |-> d])
    /\ UNCHANGED <<org, lastOrg, pet, donation, usage, certified>>

UsageCreate(r, g) ==
    /\ req[r].op = "usage"
    /\ usage[g] = NoRow
    /\ usage' = [usage EXCEPT ![g] = [by |-> req[r].by, donation |-> req[r].donation]]
    /\ Ends(r)
    /\ UNCHANGED <<org, lastOrg, pet, donation, certified>>

-----------------------------------------------------------------------------
\* A database error, or the server stops: nothing of the request is left, but
\* an id taken from the sequence is gone.
RequestFails(r) ==
    /\ req[r] # Idle
    /\ Ends(r)
    /\ UNCHANGED <<org, lastOrg, pet, donation, usage, certified>>

Next ==
    \E r \in Req :
        \/ \E u \in User : RegisterInsert(r, u)
        \/ RegisterCommit(r)
        \/ \E o \in OrgId, s \in AskedStatus : ReviewFind(r, o, s)
        \/ ReviewSave(r)
        \/ \E u \in User, o \in OrgId : PublishFindOrg(r, u, o) \/ DonateFindOrg(r, u, o)
        \/ \E p \in Pet : PublishCreate(r, p)
        \/ \E d \in Donation : DonateCreate(r, d)
        \/ \E u \in User, d \in Donation : UsageFind(r, u, d)
        \/ \E g \in Usage : UsageCreate(r, g)
        \/ RequestFails(r)

Spec == Init /\ [][Next]_vars

-----------------------------------------------------------------------------
\* Whatever races with a revocation, only an organization that has been
\* certified has a pet published or receives a donation.
OnlyCertifiedAct ==
    /\ \A o \in OrgId : Certified(o) => o \in certified
    /\ \A p \in Pet : pet[p] # NoRow => pet[p].org \in certified
    /\ \A d \in Donation : donation[d] # NoRow => donation[d].org \in certified

\* What makes it hold: a publication or a donation under way has read an
\* organization that was certified, and a review an organization that exists.
ReadsWereCertified ==
    /\ \A r \in Req : req[r].op \in {"publish", "donate"} => req[r].org \in certified
    /\ \A r \in Req : req[r].op = "review" => Exists(req[r].org)
    /\ \A o \in certified : Exists(o)

OrgInv == TypeOK /\ OnlyCertifiedAct /\ ReadsWereCertified

\* The chain of ownership: a pet was published by the owner of its
\* organization, and the use of a donation was reported by the owner of the
\* organization that received it.
ReportedByRecipient ==
    /\ \A p \in Pet : pet[p] # NoRow => org[pet[p].org].owner = pet[p].by
    /\ \A g \in Usage : usage[g] # NoRow =>
          /\ donation[usage[g].donation] # NoRow
          /\ org[donation[usage[g].donation].org].owner = usage[g].by

\* Once an account stands for an organization it always stands for one, and
\* gives it up only to one whose id was taken before and whose row appears
\* after: nothing registered later takes over its pets and donations.
OrgOfGivesWayToEarlier ==
    [][\A u \in User, o \in OrgId : IsOrgOf(u, o) =>
          \E o2 \in 1 .. o :
             /\ IsOrgOf(u, o2)'
             /\ o2 = o \/ \E r \in Req : req[r].op = "register" /\ req[r].org = o2]_vars
=============================================================================
