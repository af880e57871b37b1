------------------------- MODULE OrganizationsProofs -------------------------
(***************************************************************************)
(* Certification, for any number of accounts, organizations and requests:  *)
(* OrgInv is inductive, so no interleaving of registrations, verdicts,     *)
(* publications and donations lets an organization act that was never      *)
(* certified.  OwnInv is inductive too: what a request has read of an      *)
(* organization's owner still holds when it writes.                        *)
(***************************************************************************)
EXTENDS Organizations, FiniteSetTheorems, TLAPS

\* The kind of a request in flight, told by its operation.
LEMMA ReqKinds ==
    ASSUME TypeOK, NEW r \in Req
    PROVE  /\ req[r].op = "register" => req[r] \in RegisterReq
           /\ req[r].op = "review" => req[r] \in ReviewReq
           /\ req[r].op \in {"publish", "donate"} => req[r] \in ForOrgReq
           /\ req[r].op = "usage" => req[r] \in UsageReq
BY DEF TypeOK, Idle, RegisterReq, ReviewReq, ForOrgReq, UsageReq

LEMMA StatusSaved ==
    ASSUME NEW o \in Organization, NEW s \in OrgStatus
    PROVE  /\ [o EXCEPT !.status = s] \in Organization
           /\ [o EXCEPT !.status = s].status = s
BY DEF Organization

LEMMA OrgInit == Init => OrgInv
<1>. SUFFICES ASSUME Init PROVE OrgInv
  OBVIOUS
<1>. USE OrganizationsAssumption, NoRowAssumption DEF Init
<1>1. \A o \in OrgId : SeedOrg[o] \in Organization \cup {NoRow}
  BY DEF Organization, OrgStatus
<1>2. lastOrg \in 0 .. MaxOrg
  <2>1. {o \in OrgId : SeedOrg[o] # NoRow} \subseteq OrgId
    OBVIOUS
  <2>2. IsFiniteSet(OrgId) /\ Cardinality(OrgId) = MaxOrg
    BY FS_Interval DEF OrgId
  <2>3. /\ IsFiniteSet({o \in OrgId : SeedOrg[o] # NoRow})
        /\ Cardinality({o \in OrgId : SeedOrg[o] # NoRow}) <= MaxOrg
    BY <2>1, <2>2, FS_Subset
  <2>. QED
    BY <2>3, FS_CardinalityType
<1>3. TypeOK
  BY <1>1, <1>2 DEF TypeOK
<1>4. OnlyCertifiedAct /\ ReadsWereCertified
  BY DEF OnlyCertifiedAct, ReadsWereCertified, Certified, Exists, Idle
<1>. QED
  BY <1>3, <1>4 DEF OrgInv

\* A step that leaves the tables alone and puts into one slot a request whose
\* reads are as ReadsWereCertified asks.
LEMMA ReadKeeps ==
    ASSUME OrgInv,
           UNCHANGED <<org, pet, donation, usage, certified>>,
           lastOrg' \in 0 .. MaxOrg,
           NEW r \in Req,
           NEW q \in {Idle} \cup RegisterReq \cup ReviewReq \cup ForOrgReq \cup UsageReq,
           q.op \in {"publish", "donate"} => q.org \in certified,
           q.op = "review" => Exists(q.org),
           req' = [req EXCEPT ![r] = q]
    PROVE  OrgInv'
<1>1. TypeOK'
  BY DEF OrgInv, TypeOK
<1>2. \A x \in Req : req'[x] = IF x = r THEN q ELSE req[x]
  BY DEF OrgInv, TypeOK
<1>3. OnlyCertifiedAct' /\ ReadsWereCertified'
  BY <1>2 DEF OrgInv, OnlyCertifiedAct, ReadsWereCertified, Certified, Exists
<1>. QED
  BY <1>1, <1>3 DEF OrgInv

\* When a slot ends, the requests still in flight are as they were.
LEMMA SlotEnds ==
    ASSUME OrgInv, NEW r \in Req, Ends(r)
    PROVE  /\ req' \in [Req -> {Idle} \cup RegisterReq \cup ReviewReq \cup ForOrgReq \cup UsageReq]
           /\ \A x \in Req : req'[x].op # "idle" => req'[x] = req[x]
BY DEF OrgInv, TypeOK, Ends, Idle

LEMMA RegisterKeeps ==
    ASSUME OrgInv, NEW r \in Req, RegisterCommit(r)
    PROVE  OrgInv'
<1>. DEFINE row == [owner |-> req[r].owner, status |-> "pending"]
<1>. USE NoRowAssumption DEF OrgInv
<1>1. req[r].org \in OrgId /\ req[r].owner \in User
  BY ReqKinds DEF RegisterCommit, RegisterReq
<1>2. row \in Organization /\ row # NoRow /\ row.status = "pending"
  BY <1>1 DEF Organization, OrgStatus
<1>3. org' = [org EXCEPT ![req[r].org] = row] /\ UNCHANGED <<lastOrg, pet, donation, usage, certified>>
  BY DEF RegisterCommit
<1>. HIDE DEF row
<1>4. TypeOK'
  BY <1>1, <1>2, <1>3, SlotEnds DEF TypeOK, RegisterCommit
<1>5. \A o \in OrgId : org'[o] = IF o = req[r].org THEN row ELSE org[o]
  BY <1>3 DEF TypeOK
<1>6. \A x \in Req : req'[x].op # "idle" => req'[x] = req[x]
  BY SlotEnds DEF RegisterCommit
<1>7. OnlyCertifiedAct'
  BY <1>2, <1>3, <1>5 DEF OnlyCertifiedAct, Certified, Exists
<1>8. ReadsWereCertified'
  <2>1. \A x \in Req : req'[x].op \in {"publish", "donate"} => req'[x].org \in certified'
    BY <1>3, <1>6 DEF ReadsWereCertified
  <2>2. ASSUME NEW x \in Req, req'[x].op = "review"
        PROVE  org'[req'[x].org] # NoRow
    <3>1. req'[x] = req[x] /\ req[x] \in ReviewReq
      BY <1>6, <2>2, ReqKinds
    <3>2. req[x].org \in OrgId /\ org[req[x].org] # NoRow
      BY <2>2, <3>1 DEF ReviewReq, ReadsWereCertified, Exists
    <3>. QED
      BY <1>2, <1>5, <3>1, <3>2
  <2>3. \A o \in certified' : org'[o] # NoRow
    BY <1>2, <1>3, <1>5 DEF ReadsWereCertified, Exists, TypeOK
  <2>. QED
    BY <2>1, <2>2, <2>3 DEF ReadsWereCertified, Exists
<1>. QED
  BY <1>4, <1>7, <1>8

LEMMA ReviewKeeps ==
    ASSUME OrgInv, NEW r \in Req, ReviewSave(r)
    PROVE  OrgInv'
<1>. DEFINE o1  == req[r].org
            s   == req[r].status
            row == [org[o1] EXCEPT !.status = s]
<1>. USE NoRowAssumption DEF OrgInv
<1>1. o1 \in OrgId /\ s \in OrgStatus /\ org[o1] # NoRow
  BY ReqKinds DEF ReviewSave, ReviewReq, ReadsWereCertified, Exists
<1>2. org[o1] \in Organization
  BY <1>1 DEF TypeOK
<1>3. row \in Organization /\ row.status = s /\ row # NoRow
  BY <1>1, <1>2, StatusSaved
<1>4. /\ org' = [org EXCEPT ![o1] = row]
      /\ certified' = IF s = "approved" THEN certified \cup {o1} ELSE certified
      /\ UNCHANGED <<lastOrg, pet, donation, usage>>
  BY DEF ReviewSave
<1>. HIDE DEF row, o1, s
<1>5. TypeOK'
  <2>1. org' \in [OrgId -> Organization \cup {NoRow}] /\ certified' \subseteq OrgId
    BY <1>1, <1>3, <1>4 DEF TypeOK
  <2>2. req' \in [Req -> {Idle} \cup RegisterReq \cup ReviewReq \cup ForOrgReq \cup UsageReq]
    BY SlotEnds DEF ReviewSave
  <2>. QED
    BY <1>4, <2>1, <2>2 DEF TypeOK
<1>6. \A o \in OrgId : org'[o] = IF o = o1 THEN row ELSE org[o]
  BY <1>4 DEF TypeOK
<1>7. \A x \in Req : req'[x].op # "idle" => req'[x] = req[x]
  BY SlotEnds DEF ReviewSave
<1>8. certified \subseteq certified' /\ (s = "approved" => o1 \in certified')
  BY <1>4
<1>9. OnlyCertifiedAct'
  BY <1>3, <1>4, <1>6, <1>8 DEF OnlyCertifiedAct, Certified, Exists
<1>10. ReadsWereCertified'
  <2>1. \A x \in Req : req'[x].op \in {"publish", "donate"} => req'[x].org \in certified'
    BY <1>7, <1>8 DEF ReadsWereCertified
  <2>2. ASSUME NEW x \in Req, req'[x].op = "review"
        PROVE  org'[req'[x].org] # NoRow
    <3>1. req'[x] = req[x] /\ req[x] \in ReviewReq
      BY <1>7, <2>2, ReqKinds
    <3>2. req[x].org \in OrgId /\ org[req[x].org] # NoRow
      BY <2>2, <3>1 DEF ReviewReq, ReadsWereCertified, Exists
    <3>. QED
      BY <1>3, <1>6, <3>1, <3>2
  <2>3. \A o \in certified' : org'[o] # NoRow
    BY <1>1, <1>3, <1>4, <1>6 DEF ReadsWereCertified, Exists, TypeOK
  <2>. QED
    BY <2>1, <2>2, <2>3 DEF ReadsWereCertified, Exists
<1>. QED
  BY <1>5, <1>9, <1>10

\* A row inserted for what the request has read.
LEMMA CreateKeeps ==
    ASSUME OrgInv, NEW r \in Req, Ends(r),
           UNCHANGED <<org, lastOrg, certified>>,
           \/ /\ req[r].op = "publish" /\ UNCHANGED <<donation, usage>>
              /\ \E p \in Pet : pet' = [pet EXCEPT ![p] = [by |-> req[r].by, org |-> req[r].org]]
           \/ /\ req[r].op = "donate" /\ UNCHANGED <<pet, usage>>
              /\ \E d \in Donation :
                    donation' = [donation EXCEPT ![d] = [by |-> req[r].by, org |-> req[r].org]]
           \/ /\ req[r].op = "usage" /\ UNCHANGED <<pet, donation>>
              /\ \E g \in Usage :
                    usage' = [usage EXCEPT ![g] = [by |-> req[r].by, donation |-> req[r].donation]]
           \/ UNCHANGED <<pet, donation, usage>>
    PROVE  OrgInv'
<1>. USE DEF OrgInv
<1>1. /\ req[r].op \in {"publish", "donate"} => /\ req[r].by \in User /\ req[r].org \in OrgId
                                                /\ req[r].org \in certified
      /\ req[r].op = "usage" => req[r].by \in User /\ req[r].donation \in Donation
  BY ReqKinds DEF ForOrgReq, UsageReq, ReadsWereCertified
<1>2. /\ pet' \in [Pet -> [by : User, org : OrgId] \cup {NoRow}]
      /\ donation' \in [Donation -> [by : User, org : OrgId] \cup {NoRow}]
      /\ usage' \in [Usage -> [by : User, donation : Donation] \cup {NoRow}]
  BY <1>1 DEF TypeOK
<1>3. TypeOK'
  BY <1>2, SlotEnds DEF TypeOK
<1>4. OnlyCertifiedAct'
  <2>1. \A p \in Pet : pet'[p] # NoRow => pet'[p].org \in certified
    BY <1>1 DEF OnlyCertifiedAct, TypeOK
  <2>2. \A d \in Donation : donation'[d] # NoRow => donation'[d].org \in certified
    BY <1>1 DEF OnlyCertifiedAct, TypeOK
  <2>. QED
    BY <2>1, <2>2 DEF OnlyCertifiedAct, Certified, Exists
<1>5. ReadsWereCertified'
  BY SlotEnds DEF ReadsWereCertified, Exists
<1>. QED
  BY <1>3, <1>4, <1>5

LEMMA OrgStep == OrgInv /\ [Next]_vars => OrgInv'
<1>. SUFFICES ASSUME OrgInv, [Next]_vars PROVE OrgInv'
  OBVIOUS
<1>1. ASSUME NEW r \in Req, NEW u \in User, RegisterInsert(r, u) PROVE OrgInv'
  <2>. DEFINE q == [op |-> "register", org |-> lastOrg + 1, owner |-> u]
  <2>1. lastOrg + 1 \in OrgId /\ lastOrg + 1 \in 0 .. MaxOrg
    BY <1>1, OrganizationsAssumption DEF RegisterInsert, OrgInv, TypeOK, OrgId
  <2>2. q \in RegisterReq /\ q.op = "register"
    BY <2>1 DEF RegisterReq
  <2>3. /\ req' = [req EXCEPT ![r] = q] /\ lastOrg' = lastOrg + 1
        /\ UNCHANGED <<org, pet, donation, usage, certified>>
    BY <1>1 DEF RegisterInsert, Takes
  <2>. HIDE DEF q
  <2>. QED
    BY <2>1, <2>2, <2>3, ReadKeeps
<1>2. ASSUME NEW r \in Req, RegisterCommit(r) PROVE OrgInv'
  BY <1>2, RegisterKeeps
<1>3. ASSUME NEW r \in Req, NEW o \in OrgId, NEW s \in AskedStatus, ReviewFind(r, o, s) PROVE OrgInv'
  <2>. DEFINE q == [op |-> "review", org |-> o, status |-> s]
  <2>1. q \in ReviewReq /\ q.op = "review" /\ q.org = o /\ Exists(o)
    BY <1>3 DEF ReviewFind, ReviewReq
  <2>2. req' = [req EXCEPT ![r] = q] /\ UNCHANGED <<org, lastOrg, pet, donation, usage, certified>>
    BY <1>3 DEF ReviewFind, Takes
  <2>3. lastOrg' \in 0 .. MaxOrg
    BY <2>2 DEF OrgInv, TypeOK
  <2>. HIDE DEF q
  <2>. QED
    BY <2>1, <2>2, <2>3, ReadKeeps
<1>4. ASSUME NEW r \in Req, ReviewSave(r) PROVE OrgInv'
  BY <1>4, ReviewKeeps
<1>5. ASSUME NEW r \in Req, NEW u \in User, NEW o \in OrgId,
             PublishFindOrg(r, u, o) \/ DonateFindOrg(r, u, o)
      PROVE  OrgInv'
  <2>. DEFINE q(op) == [op |-> op, by |-> u, org |-> o]
  <2>1. PICK op \in {"publish", "donate"} :
           /\ req' = [req EXCEPT ![r] = q(op)] /\ Certified(o)
           /\ UNCHANGED <<org, lastOrg, pet, donation, usage, certified>>
    BY <1>5 DEF PublishFindOrg, DonateFindOrg, Takes
  <2>2. q(op) \in ForOrgReq /\ q(op).op = op /\ q(op).org \in certified
    BY <2>1 DEF ForOrgReq, OrgInv, OnlyCertifiedAct
  <2>3. lastOrg' \in 0 .. MaxOrg
    BY <2>1 DEF OrgInv, TypeOK
  <2>. HIDE DEF q
  <2>. QED
    BY <2>1, <2>2, <2>3, ReadKeeps
<1>6. ASSUME NEW r \in Req, NEW p \in Pet, PublishCreate(r, p) PROVE OrgInv'
  BY <1>6, CreateKeeps DEF PublishCreate
<1>7. ASSUME NEW r \in Req, NEW d \in Donation, DonateCreate(r, d) PROVE OrgInv'
  BY <1>7, CreateKeeps DEF DonateCreate
<1>8. ASSUME NEW r \in Req, NEW u \in User, NEW d \in Donation, UsageFind(r, u, d) PROVE OrgInv'
  <2>. DEFINE q == [op |-> "usage", by |-> u, donation |-> d]
  <2>1. q \in UsageReq /\ q.op = "usage"
    BY DEF UsageReq
  <2>2. req' = [req EXCEPT ![r] = q] /\ UNCHANGED <<org, lastOrg, pet, donation, usage, certified>>
    BY <1>8 DEF UsageFind, Takes
  <2>3. lastOrg' \in 0 .. MaxOrg
    BY <2>2 DEF OrgInv, TypeOK
  <2>. HIDE DEF q
  <2>. QED
    BY <2>1, <2>2, <2>3, ReadKeeps
<1>9. ASSUME NEW r \in Req, NEW g \in Usage, UsageCreate(r, g) PROVE OrgInv'
  BY <1>9, CreateKeeps DEF UsageCreate
<1>10. ASSUME NEW r \in Req, RequestFails(r) PROVE OrgInv'
  BY <1>10, CreateKeeps DEF RequestFails
<1>11. CASE UNCHANGED vars
  BY <1>11 DEF vars, OrgInv, TypeOK, OnlyCertifiedAct, ReadsWereCertified, Certified, Exists
<1>. QED
  BY <1>1, <1>2, <1>3, <1>4, <1>5, <1>6, <1>7, <1>8, <1>9, <1>10, <1>11 DEF Next

\* The inductive invariant holds throughout.
THEOREM OrgInvariant == Spec => []OrgInv
<1>1. Init => OrgInv
  BY OrgInit
<1>2. OrgInv /\ [Next]_vars => OrgInv'
  BY OrgStep
<1>. QED
  BY <1>1, <1>2, PTL DEF Spec

\* Only an organization that has been certified has a pet or a donation.
THEOREM CertifiedAct == Spec => []OnlyCertifiedAct
<1>1. OrgInv => OnlyCertifiedAct
  BY DEF OrgInv
<1>. QED
  BY <1>1, OrgInvariant, PTL

\* The tables hold rows of their types.
THEOREM OrgTypeCorrect == Spec => []TypeOK
<1>1. OrgInv => TypeOK
  BY DEF OrgInv
<1>. QED
  BY <1>1, OrgInvariant, PTL

-----------------------------------------------------------------------------
(* The chain of ownership.  Organizations stay and keep their owners, since  *)
(* an id is given out once; so what a request has read of them still holds   *)
(* when it writes.                                                           *)

Owns(u, o) == Exists(o) /\ org[o].owner = u
Received(u, d) == donation[d] # NoRow /\ Owns(u, donation[d].org)

IdsGivenOnce ==
    /\ \A o \in OrgId : Exists(o) => o <= lastOrg
    /\ \A r \in Req : req[r].op = "register" => req[r].org <= lastOrg /\ ~Exists(req[r].org)
    /\ \A r, s \in Req : req[r].op = "register" /\ req[s].op = "register" /\ r # s =>
          req[r].org # req[s].org

Owned ==
    /\ \A p \in Pet : pet[p] # NoRow => Owns(pet[p].by, pet[p].org)
    /\ \A g \in Usage : usage[g] # NoRow => Received(usage[g].by, usage[g].donation)
    /\ \A r \in Req : req[r].op = "publish" => Owns(req[r].by, req[r].org)
    /\ \A r \in Req : req[r].op = "usage" => Received(req[r].by, req[r].donation)

OwnInv == OrgInv /\ IdsGivenOnce /\ Owned

LEMMA OwnInit == Init => OwnInv
<1>. SUFFICES ASSUME Init PROVE OwnInv
  OBVIOUS
<1>1. OrgInv
  BY OrgInit
<1>2. ASSUME NEW o \in OrgId, Exists(o) PROVE o <= lastOrg
  <2>. DEFINE S == {i \in OrgId : SeedOrg[i] # NoRow}
  <2>1. 1 .. o \subseteq S
    BY <1>2, OrganizationsAssumption DEF Init, Exists, OrgId
  <2>2. IsFiniteSet(S)
    BY FS_Interval, FS_Subset, OrganizationsAssumption DEF OrgId
  <2>3. Cardinality(1 .. o) <= Cardinality(S)
    BY <2>1, <2>2, FS_Subset
  <2>4. Cardinality(1 .. o) = o
    BY FS_Interval, OrganizationsAssumption DEF OrgId
  <2>. QED
    BY <2>3, <2>4 DEF Init
<1>3. IdsGivenOnce
  BY <1>2 DEF IdsGivenOnce, Init, Idle
<1>4. Owned
  BY DEF Owned, Init, Idle
<1>. QED
  BY <1>1, <1>3, <1>4 DEF OwnInv

\* A slot that starts or ends leaves the others.
LEMMA OtherSlots ==
    ASSUME OrgInv, NEW r \in Req, NEW q, req' = [req EXCEPT ![r] = q]
    PROVE  \A x \in Req : req'[x] = IF x = r THEN q ELSE req[x]
BY DEF OrgInv, TypeOK

\* No step takes an organization from its owner, or a donation from its
\* recipient.
LEMMA NothingTaken ==
    ASSUME OwnInv, [Next]_vars
    PROVE  /\ \A o \in OrgId : Exists(o) => Exists(o)' /\ org'[o].owner = org[o].owner
           /\ \A d \in Donation : donation[d] # NoRow => donation'[d] = donation[d]
<1>. USE NoRowAssumption DEF OwnInv, OrgInv
<1>1. CASE \E r \in Req : RegisterCommit(r)
  <2>1. PICK r \in Req : RegisterCommit(r)
    BY <1>1
  <2>2. ~Exists(req[r].org) /\ req[r].org \in OrgId
    BY <2>1, ReqKinds DEF RegisterCommit, IdsGivenOnce, RegisterReq
  <2>. QED
    BY <2>1, <2>2 DEF RegisterCommit, Exists, TypeOK
<1>2. CASE \E r \in Req : ReviewSave(r)
  <2>1. PICK r \in Req : ReviewSave(r)
    BY <1>2
  <2>. DEFINE o1  == req[r].org
              s   == req[r].status
              row == [org[o1] EXCEPT !.status = s]
  <2>2. o1 \in OrgId /\ s \in OrgStatus /\ org[o1] # NoRow
    BY <2>1, ReqKinds DEF ReviewSave, ReviewReq, ReadsWereCertified, Exists
  <2>3. org[o1] \in Organization
    BY <2>2 DEF TypeOK
  <2>4. row \in Organization /\ row.owner = org[o1].owner /\ row # NoRow
    BY <2>2, <2>3, StatusSaved DEF Organization
  <2>5. org' = [org EXCEPT ![o1] = row] /\ UNCHANGED donation
    BY <2>1 DEF ReviewSave
  <2>. HIDE DEF row, o1, s
  <2>6. \A o \in OrgId : org'[o] = IF o = o1 THEN row ELSE org[o]
    BY <2>5 DEF TypeOK
  <2>. QED
    BY <2>4, <2>5, <2>6 DEF Exists
<1>3. CASE \E r \in Req, d \in Donation : DonateCreate(r, d)
  BY <1>3 DEF DonateCreate, Exists, TypeOK
<1>4. CASE UNCHANGED <<org, donation>>
  BY <1>4 DEF Exists
<1>. QED
  BY <1>1, <1>2, <1>3, <1>4
  DEF Next, vars, RegisterInsert, ReviewFind, PublishFindOrg, DonateFindOrg, PublishCreate,
      UsageFind, UsageCreate, RequestFails

LEMMA IdsStep == OwnInv /\ [Next]_vars => IdsGivenOnce'
<1>. SUFFICES ASSUME OwnInv, [Next]_vars PROVE IdsGivenOnce'
  OBVIOUS
<1>. USE NoRowAssumption DEF OwnInv, OrgInv
<1>1. ASSUME NEW r \in Req, NEW u \in User, RegisterInsert(r, u) PROVE IdsGivenOnce'
  <2>. DEFINE q == [op |-> "register", org |-> lastOrg + 1, owner |-> u]
  <2>1. req' = [req EXCEPT ![r] = q] /\ lastOrg' = lastOrg + 1 /\ org' = org /\ lastOrg \in Nat
    BY <1>1 DEF RegisterInsert, Takes, TypeOK
  <2>2. \A x \in Req : req'[x] = IF x = r THEN q ELSE req[x]
    BY <2>1, OtherSlots
  <2>3. \A o \in OrgId : Exists(o)' <=> Exists(o)
    BY <2>1 DEF Exists
  <2>4. \A o \in OrgId : Exists(o) => o <= lastOrg
    BY DEF IdsGivenOnce
  <2>5. lastOrg + 1 \in OrgId
    BY <1>1, OrganizationsAssumption DEF RegisterInsert, TypeOK, OrgId
  <2>6. ~Exists(lastOrg + 1)
    BY <2>1, <2>4, <2>5
  <2>7. \A x \in Req : req[x].op = "register" => req[x].org \in OrgId
    BY ReqKinds DEF RegisterReq
  <2>8. OrgId \subseteq Int
    BY OrganizationsAssumption DEF OrgId
  <2>9. \A o \in OrgId : Exists(o)' => o <= lastOrg'
    BY <2>1, <2>3, <2>4, <2>8
  <2>10. q.org = lastOrg + 1
    OBVIOUS
  <2>. HIDE DEF q
  <2>11. ASSUME NEW x \in Req, req'[x].op = "register"
         PROVE  req'[x].org <= lastOrg' /\ org'[req'[x].org] = NoRow
    <3>1. CASE x = r
      BY <2>1, <2>2, <2>6, <2>8, <2>5, <2>10, <3>1 DEF Exists
    <3>2. CASE x # r
      <4>1. req'[x] = req[x]
        BY <2>2, <3>2
      <4>2. req[x].org \in Int /\ req[x].org <= lastOrg /\ org[req[x].org] = NoRow
        BY <2>7, <2>8, <2>11, <4>1 DEF IdsGivenOnce, Exists
      <4>. QED
        BY <2>1, <4>1, <4>2
    <3>. QED
      BY <3>1, <3>2
  <2>12. ASSUME NEW x \in Req, NEW y \in Req, x # y,
                req'[x].op = "register", req'[y].op = "register"
         PROVE  req'[x].org # req'[y].org
    <3>1. \A z \in Req : z # r /\ req'[z].op = "register" =>
             /\ req'[z] = req[z]
             /\ req'[z].org \in Int /\ req'[z].org <= lastOrg
      BY <2>2, <2>7, <2>8 DEF IdsGivenOnce
    <3>2. CASE x # r /\ y # r
      BY <2>12, <3>1, <3>2 DEF IdsGivenOnce
    <3>3. CASE x = r
      BY <2>1, <2>2, <2>10, <2>12, <3>1, <3>3
    <3>4. CASE y = r
      BY <2>1, <2>2, <2>10, <2>12, <3>1, <3>4
    <3>. QED
      BY <3>2, <3>3, <3>4
  <2>. QED
    BY <2>9, <2>11, <2>12 DEF IdsGivenOnce, Exists
<1>2. ASSUME NEW r \in Req, RegisterCommit(r) PROVE IdsGivenOnce'
  <2>1. req[r].op = "register" /\ req[r].org \in OrgId
    BY <1>2, ReqKinds DEF RegisterCommit, RegisterReq
  <2>2. \A o \in OrgId : o # req[r].org => (Exists(o)' <=> Exists(o))
    BY <1>2 DEF RegisterCommit, Exists, TypeOK
  <2>3. \A x \in Req : req'[x] = IF x = r THEN Idle ELSE req[x]
    BY <1>2, OtherSlots DEF RegisterCommit, Ends
  <2>4. \A x \in Req : req[x].op = "register" => req[x].org \in OrgId
    BY ReqKinds DEF RegisterReq
  <2>5. lastOrg' = lastOrg
    BY <1>2 DEF RegisterCommit
  <2>6. \A o \in OrgId : Exists(o)' => o <= lastOrg'
    BY <2>1, <2>2, <2>5 DEF IdsGivenOnce
  <2>7. \A x \in Req : req'[x].op = "register" => x # r /\ req'[x] = req[x]
    BY <2>3 DEF Idle
  <2>8. ASSUME NEW x \in Req, req'[x].op = "register"
        PROVE  req'[x].org <= lastOrg' /\ org'[req'[x].org] = NoRow
    <3>1. req[x].org \in OrgId /\ req[x].org # req[r].org /\ req[x].org <= lastOrg /\ ~Exists(req[x].org)
      BY <2>1, <2>4, <2>7, <2>8 DEF IdsGivenOnce
    <3>. QED
      BY <2>2, <2>5, <2>7, <2>8, <3>1 DEF Exists
  <2>9. \A x, y \in Req : req'[x].op = "register" /\ req'[y].op = "register" /\ x # y =>
            req'[x].org # req'[y].org
    BY <2>7 DEF IdsGivenOnce
  <2>. QED
    BY <2>6, <2>8, <2>9 DEF IdsGivenOnce, Exists
<1>3. ASSUME lastOrg' = lastOrg,
             \A o \in OrgId : Exists(o)' <=> Exists(o),
             \A x \in Req : req'[x].op = "register" => req'[x] = req[x]
      PROVE  IdsGivenOnce'
  <2>1. \A x \in Req : req[x].op = "register" => req[x].org \in OrgId
    BY ReqKinds DEF RegisterReq
  <2>. QED
    BY <1>3, <2>1 DEF IdsGivenOnce, Exists
<1>4. ASSUME NEW r \in Req, ReviewSave(r) PROVE IdsGivenOnce'
  <2>1. Exists(req[r].org) /\ req[r].org \in OrgId /\ req[r].status \in OrgStatus
    BY <1>4, ReqKinds DEF ReviewSave, ReviewReq, ReadsWereCertified
  <2>2. [org[req[r].org] EXCEPT !.status = req[r].status] # NoRow
    BY <2>1, StatusSaved DEF TypeOK, Exists
  <2>3. \A o \in OrgId : Exists(o)' <=> Exists(o)
    BY <1>4, <2>1, <2>2 DEF ReviewSave, Exists, TypeOK
  <2>4. \A x \in Req : req'[x].op = "register" => req'[x] = req[x]
    BY <1>4, OtherSlots DEF ReviewSave, Ends, Idle
  <2>. QED
    BY <1>3, <1>4, <2>3, <2>4 DEF ReviewSave
<1>5. ASSUME NEW r \in Req, NEW q, q.op # "register", req' = [req EXCEPT ![r] = q],
             UNCHANGED <<org, lastOrg>>
      PROVE  IdsGivenOnce'
  <2>1. \A x \in Req : req'[x].op = "register" => req'[x] = req[x]
    BY <1>5, OtherSlots
  <2>. QED
    BY <1>3, <1>5, <2>1 DEF Exists
<1>6. CASE UNCHANGED vars
  BY <1>6, <1>3 DEF vars, Exists
<1>7. \A o, s, u, d :
         /\ Idle.op # "register"
         /\ [op |-> "review", org |-> o, status |-> s].op # "register"
         /\ [op |-> "publish", by |-> u, org |-> o].op # "register"
         /\ [op |-> "donate", by |-> u, org |-> o].op # "register"
         /\ [op |-> "usage", by |-> u, donation |-> d].op # "register"
  BY DEF Idle
<1>8. ASSUME NEW r \in Req, NEW o \in OrgId, NEW s \in AskedStatus, ReviewFind(r, o, s)
      PROVE  IdsGivenOnce'
  BY <1>5, <1>7, <1>8 DEF ReviewFind, Takes
<1>9. ASSUME NEW r \in Req, NEW u \in User, NEW o \in OrgId,
             PublishFindOrg(r, u, o) \/ DonateFindOrg(r, u, o)
      PROVE  IdsGivenOnce'
  BY <1>5, <1>7, <1>9 DEF PublishFindOrg, DonateFindOrg, Takes
<1>10. ASSUME NEW r \in Req, NEW u \in User, NEW d \in Donation, UsageFind(r, u, d)
       PROVE  IdsGivenOnce'
  BY <1>5, <1>7, <1>10 DEF UsageFind, Takes
<1>11. ASSUME NEW r \in Req,
              \/ \E p \in Pet : PublishCreate(r, p)
              \/ \E d \in Donation : DonateCreate(r, d)
              \/ \E g \in Usage : UsageCreate(r, g)
              \/ RequestFails(r)
       PROVE  IdsGivenOnce'
  BY <1>5, <1>7, <1>11 DEF PublishCreate, DonateCreate, UsageCreate, RequestFails, Ends
<1>. QED
  BY <1>1, <1>2, <1>4, <1>6, <1>8, <1>9, <1>10, <1>11 DEF Next

\* What a step inserts, or a request reads, is owned by whom it is done for.
RowsOwned ==
    /\ \A p \in Pet : pet'[p] = pet[p] \/ Owns(pet'[p].by, pet'[p].org)
    /\ \A g \in Usage : usage'[g] = usage[g] \/ Received(usage'[g].by, usage'[g].donation)
ReadsOwned ==
    \A x \in Req : \/ req'[x] = req[x]
                   \/ /\ req'[x].op = "publish" => Owns(req'[x].by, req'[x].org)
                      /\ req'[x].op = "usage" => Received(req'[x].by, req'[x].donation)

LEMMA ReadIsOwned ==
    ASSUME OrgInv, NEW r \in Req, NEW q, req' = [req EXCEPT ![r] = q],
           q.op = "publish" => Owns(q.by, q.org),
           q.op = "usage" => Received(q.by, q.donation)
    PROVE  ReadsOwned
<1>1. \A x \in Req : req'[x] = IF x = r THEN q ELSE req[x]
  BY OtherSlots
<1>. QED
  BY <1>1 DEF ReadsOwned

LEMMA EndIsOwned ==
    ASSUME OrgInv, NEW r \in Req, Ends(r)
    PROVE  ReadsOwned
<1>1. Idle.op # "publish" /\ Idle.op # "usage"
  BY DEF Idle
<1>. QED
  BY <1>1, ReadIsOwned DEF Ends

LEMMA DoneForOwner == OwnInv /\ [Next]_vars => RowsOwned /\ ReadsOwned
<1>. SUFFICES ASSUME OwnInv, [Next]_vars PROVE RowsOwned /\ ReadsOwned
  OBVIOUS
<1>1. OrgInv /\ Owned
  BY DEF OwnInv
<1>2. UNCHANGED <<pet, usage>> => RowsOwned
  BY DEF RowsOwned
<1>3. ASSUME NEW r \in Req, NEW u \in User, RegisterInsert(r, u) PROVE RowsOwned /\ ReadsOwned
  <2>. DEFINE q == [op |-> "register", org |-> lastOrg + 1, owner |-> u]
  <2>1. req' = [req EXCEPT ![r] = q] /\ UNCHANGED <<pet, usage>> /\ q.op = "register"
    BY <1>3 DEF RegisterInsert, Takes
  <2>. HIDE DEF q
  <2>. QED
    BY <1>1, <1>2, <2>1, ReadIsOwned
<1>4. ASSUME NEW r \in Req, NEW o \in OrgId, NEW s \in AskedStatus, ReviewFind(r, o, s)
      PROVE  RowsOwned /\ ReadsOwned
  <2>. DEFINE q == [op |-> "review", org |-> o, status |-> s]
  <2>1. req' = [req EXCEPT ![r] = q] /\ UNCHANGED <<pet, usage>> /\ q.op = "review"
    BY <1>4 DEF ReviewFind, Takes
  <2>. HIDE DEF q
  <2>. QED
    BY <1>1, <1>2, <2>1, ReadIsOwned
<1>5. ASSUME NEW r \in Req, NEW u \in User, NEW o \in OrgId, PublishFindOrg(r, u, o)
      PROVE  RowsOwned /\ ReadsOwned
  <2>. DEFINE q == [op |-> "publish", by |-> u, org |-> o]
  <2>1. req' = [req EXCEPT ![r] = q] /\ UNCHANGED <<pet, usage>>
    BY <1>5 DEF PublishFindOrg, Takes
  <2>2. q.op = "publish" /\ Owns(q.by, q.org)
    BY <1>5 DEF PublishFindOrg, IsOrgOf, Owns
  <2>. HIDE DEF q
  <2>. QED
    BY <1>1, <1>2, <2>1, <2>2, ReadIsOwned
<1>6. ASSUME NEW r \in Req, NEW u \in User, NEW o \in OrgId, DonateFindOrg(r, u, o)
      PROVE  RowsOwned /\ ReadsOwned
  <2>. DEFINE q == [op |-> "donate", by |-> u, org |-> o]
  <2>1. req' = [req EXCEPT ![r] = q] /\ UNCHANGED <<pet, usage>> /\ q.op = "donate"
    BY <1>6 DEF DonateFindOrg, Takes
  <2>. HIDE DEF q
  <2>. QED
    BY <1>1, <1>2, <2>1, ReadIsOwned
<1>7. ASSUME NEW r \in Req, NEW u \in User, NEW d \in Donation, UsageFind(r, u, d)
      PROVE  RowsOwned /\ ReadsOwned
  <2>. DEFINE q == [op |-> "usage", by |-> u, donation |-> d]
  <2>1. req' = [req EXCEPT ![r] = q] /\ UNCHANGED <<pet, usage>>
    BY <1>7 DEF UsageFind, Takes
  <2>2. q.op = "usage" /\ Received(q.by, q.donation)
    BY <1>7 DEF UsageFind, IsOrgOf, Owns, Received
  <2>. HIDE DEF q
  <2>. QED
    BY <1>1, <1>2, <2>1, <2>2, ReadIsOwned
<1>8. ASSUME NEW r \in Req, NEW p \in Pet, PublishCreate(r, p) PROVE RowsOwned /\ ReadsOwned
  <2>. DEFINE row == [by |-> req[r].by, org |-> req[r].org]
  <2>1. pet' = [pet EXCEPT ![p] = row] /\ UNCHANGED usage /\ Ends(r)
    BY <1>8 DEF PublishCreate
  <2>2. Owns(row.by, row.org)
    BY <1>1, <1>8 DEF PublishCreate, Owned
  <2>. HIDE DEF row
  <2>. QED
    BY <1>1, <2>1, <2>2, EndIsOwned DEF RowsOwned, OrgInv, TypeOK
<1>9. ASSUME NEW r \in Req, NEW g \in Usage, UsageCreate(r, g) PROVE RowsOwned /\ ReadsOwned
  <2>. DEFINE row == [by |-> req[r].by, donation |-> req[r].donation]
  <2>1. usage' = [usage EXCEPT ![g] = row] /\ UNCHANGED pet /\ Ends(r)
    BY <1>9 DEF UsageCreate
  <2>2. Received(row.by, row.donation)
    BY <1>1, <1>9 DEF UsageCreate, Owned
  <2>. HIDE DEF row
  <2>. QED
    BY <1>1, <2>1, <2>2, EndIsOwned DEF RowsOwned, OrgInv, TypeOK
<1>10. ASSUME NEW r \in Req,
              \/ RegisterCommit(r) \/ ReviewSave(r) \/ RequestFails(r)
              \/ \E d \in Donation : DonateCreate(r, d)
       PROVE  RowsOwned /\ ReadsOwned
  <2>1. Ends(r) /\ UNCHANGED <<pet, usage>>
    BY <1>10 DEF RegisterCommit, ReviewSave, RequestFails, DonateCreate
  <2>. QED
    BY <1>1, <1>2, <2>1, EndIsOwned
<1>11. CASE UNCHANGED vars
  BY <1>2, <1>11 DEF vars, ReadsOwned
<1>. QED
  BY <1>3, <1>4, <1>5, <1>6, <1>7, <1>8, <1>9, <1>10, <1>11 DEF Next

LEMMA OwnedStep == OwnInv /\ [Next]_vars => Owned'
<1>. SUFFICES ASSUME OwnInv, [Next]_vars PROVE Owned'
  OBVIOUS
<1>1. TypeOK' /\ Owned /\ RowsOwned /\ ReadsOwned
  BY OrgStep, DoneForOwner DEF OwnInv, OrgInv
<1>2. \A u \in User, o \in OrgId : Owns(u, o) => org'[o] # NoRow /\ org'[o].owner = u
  BY NothingTaken DEF Owns, Exists
<1>3. \A u \in User, d \in Donation : Received(u, d) =>
         /\ donation'[d] # NoRow
         /\ org'[donation'[d].org] # NoRow /\ org'[donation'[d].org].owner = u
  <2>1. \A d \in Donation : donation[d] # NoRow => donation[d].org \in OrgId
    BY DEF OwnInv, OrgInv, TypeOK
  <2>. QED
    BY <1>2, <2>1, NothingTaken DEF Received
<1>4. ASSUME NEW p \in Pet, pet'[p] # NoRow
      PROVE  org'[pet'[p].org] # NoRow /\ org'[pet'[p].org].owner = pet'[p].by
  <2>1. pet'[p].by \in User /\ pet'[p].org \in OrgId
    BY <1>1, <1>4 DEF TypeOK
  <2>2. Owns(pet'[p].by, pet'[p].org)
    BY <1>1, <1>4 DEF Owned, RowsOwned
  <2>. QED
    BY <1>2, <2>1, <2>2
<1>5. ASSUME NEW g \in Usage, usage'[g] # NoRow
      PROVE  /\ donation'[usage'[g].donation] # NoRow
             /\ org'[donation'[usage'[g].donation].org] # NoRow
             /\ org'[donation'[usage'[g].donation].org].owner = usage'[g].by
  <2>1. usage'[g].by \in User /\ usage'[g].donation \in Donation
    BY <1>1, <1>5 DEF TypeOK
  <2>2. Received(usage'[g].by, usage'[g].donation)
    BY <1>1, <1>5 DEF Owned, RowsOwned
  <2>. QED
    BY <1>3, <2>1, <2>2
<1>6. ASSUME NEW r \in Req, req'[r].op = "publish"
      PROVE  org'[req'[r].org] # NoRow /\ org'[req'[r].org].owner = req'[r].by
  <2>1. req'[r].by \in User /\ req'[r].org \in OrgId
    BY <1>1, <1>6 DEF TypeOK, Idle, RegisterReq, ReviewReq, ForOrgReq, UsageReq
  <2>2. Owns(req'[r].by, req'[r].org)
    BY <1>1, <1>6 DEF Owned, ReadsOwned
  <2>. QED
    BY <1>2, <2>1, <2>2
<1>7. ASSUME NEW r \in Req, req'[r].op = "usage"
      PROVE  /\ donation'[req'[r].donation] # NoRow
             /\ org'[donation'[req'[r].donation].org] # NoRow
             /\ org'[donation'[req'[r].donation].org].owner = req'[r].by
  <2>1. req'[r].by \in User /\ req'[r].donation \in Donation
    BY <1>1, <1>7 DEF TypeOK, Idle, RegisterReq, ReviewReq, ForOrgReq, UsageReq
  <2>2. Received(req'[r].by, req'[r].donation)
    BY <1>1, <1>7 DEF Owned, ReadsOwned
  <2>. QED
    BY <1>3, <2>1, <2>2
<1>. QED
  BY <1>4, <1>5, <1>6, <1>7 DEF Owned, Owns, Received, Exists

\* The chain of ownership holds throughout: a pet was published by the owner of
\* its organization, a use reported by the owner of the one that received.
THEOREM Reported == Spec => []ReportedByRecipient
<1>1. Init => OwnInv
  BY OwnInit
<1>2. OwnInv /\ [Next]_vars => OwnInv'
  BY OrgStep, IdsStep, OwnedStep DEF OwnInv
<1>3. OwnInv => ReportedByRecipient
  BY DEF OwnInv, Owned, Owns, Received, ReportedByRecipient
<1>. QED
  BY <1>1, <1>2, <1>3, PTL DEF Spec

-----------------------------------------------------------------------------
(* Which organization an account stands for. *)

\* A step brings in one organization at most, under the id of a registration.
LEMMA OneAppears ==
    ASSUME OwnInv, [Next]_vars
    PROVE  \/ \A o \in OrgId : Exists(o)' => Exists(o)
           \/ \E n \in OrgId :
                 /\ \E r \in Req : req[r].op = "register" /\ req[r].org = n
                 /\ \A o \in OrgId \ {n} : Exists(o)' => Exists(o)
<1>. USE DEF OwnInv, OrgInv
<1>1. CASE \E r \in Req : RegisterCommit(r)
  <2>1. PICK r \in Req : RegisterCommit(r)
    BY <1>1
  <2>2. req[r].op = "register" /\ req[r].org \in OrgId
    BY <2>1, ReqKinds DEF RegisterCommit, RegisterReq
  <2>3. \A o \in OrgId \ {req[r].org} : org'[o] = org[o]
    BY <2>1 DEF RegisterCommit, TypeOK
  <2>. QED
    BY <2>2, <2>3 DEF Exists
<1>2. CASE \E r \in Req : ReviewSave(r)
  <2>1. PICK r \in Req : ReviewSave(r)
    BY <1>2
  <2>2. Exists(req[r].org) /\ req[r].org \in OrgId
    BY <2>1, ReqKinds DEF ReviewSave, ReviewReq, ReadsWereCertified
  <2>3. \A o \in OrgId \ {req[r].org} : org'[o] = org[o]
    BY <2>1 DEF ReviewSave, TypeOK
  <2>. QED
    BY <2>2, <2>3 DEF Exists
<1>3. CASE UNCHANGED org
  BY <1>3 DEF Exists
<1>. QED
  BY <1>1, <1>2, <1>3
  DEF Next, vars, RegisterInsert, ReviewFind, PublishFindOrg, DonateFindOrg, PublishCreate,
      DonateCreate, UsageFind, UsageCreate, RequestFails

\* The organization of an account gives way only to one that was being
\* registered under a lower id.
LEMMA GivesWay ==
    ASSUME OwnInv, [Next]_vars, NEW u \in User, NEW o \in OrgId, IsOrgOf(u, o)
    PROVE  \E o2 \in 1 .. o :
              /\ IsOrgOf(u, o2)'
              /\ o2 = o \/ \E r \in Req : req[r].op = "register" /\ req[r].org = o2
<1>1. OrgId \subseteq Nat /\ o \in 1 .. o /\ \A n \in OrgId : n < o => n \in 1 .. o
  BY OrganizationsAssumption DEF OrgId
<1>2. /\ Exists(o) /\ org[o].owner = u
      /\ \A x \in OrgId : Exists(x) /\ org[x].owner = u => o <= x
  BY DEF IsOrgOf
<1>3. \A x \in OrgId : Exists(x) => Exists(x)' /\ org'[x].owner = org[x].owner
  BY NothingTaken
<1>4. CASE \A x \in OrgId : Exists(x)' => Exists(x)
  <2>1. IsOrgOf(u, o)'
    BY <1>2, <1>3, <1>4 DEF IsOrgOf
  <2>. QED
    BY <1>1, <2>1
<1>5. ASSUME NEW n \in OrgId, \E r \in Req : req[r].op = "register" /\ req[r].org = n,
             \A x \in OrgId \ {n} : Exists(x)' => Exists(x)
      PROVE  \E o2 \in 1 .. o :
                /\ IsOrgOf(u, o2)'
                /\ o2 = o \/ \E r \in Req : req[r].op = "register" /\ req[r].org = o2
  <2>1. \A x \in OrgId : Exists(x)' /\ org'[x].owner = u => x = n \/ o <= x
    BY <1>2, <1>3, <1>5
  <2>2. CASE n < o /\ Exists(n)' /\ org'[n].owner = u
    <3>1. \A x \in OrgId : Exists(x)' /\ org'[x].owner = u => n <= x
      BY <1>1, <2>1, <2>2
    <3>2. IsOrgOf(u, n)'
      BY <2>2, <3>1 DEF IsOrgOf
    <3>. QED
      BY <1>1, <1>5, <2>2, <3>2
  <2>3. CASE ~(n < o /\ Exists(n)' /\ org'[n].owner = u)
    <3>1. \A x \in OrgId : Exists(x)' /\ org'[x].owner = u => o <= x
      BY <1>1, <2>1, <2>3
    <3>2. IsOrgOf(u, o)'
      BY <1>2, <1>3, <3>1 DEF IsOrgOf
    <3>. QED
      BY <1>1, <3>2
  <2>. QED
    BY <2>2, <2>3
<1>. QED
  BY <1>4, <1>5, OneAppears

\* Once an account stands for an organization, no later registration takes its
\* place: only one whose id was taken before and whose row appears after.
THEOREM GivesWayToEarlier == Spec => OrgOfGivesWayToEarlier
<1>1. OwnInv /\ [Next]_vars =>
        [\A u \in User, o \in OrgId : IsOrgOf(u, o) =>
          \E o2 \in 1 .. o :
             /\ IsOrgOf(u, o2)'
             /\ o2 = o \/ \E r \in Req : req[r].op = "register" /\ req[r].org = o2]_vars
  BY GivesWay
<1>2. OwnInv /\ [Next]_vars => OwnInv'
  BY OrgStep, IdsStep, OwnedStep DEF OwnInv
<1>. QED
  BY <1>1, <1>2, OwnInit, PTL DEF Spec, OrgOfGivesWayToEarlier
=============================================================================
