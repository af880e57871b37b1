--------------------------- MODULE MCOrganizations ---------------------------
(* An instance of Organizations: two accounts that may each register up to  *)
(* two organizations between them, an adopter and an admin.                 *)
EXTENDS Organizations, TLC

CONSTANTS shelter, rescuer, adopter, admin, r1, r2

Accounts == {shelter, rescuer, adopter, admin}
AccountRole == (shelter :> "org") @@ (rescuer :> "org") @@ (adopter :> "user") @@ (admin :> "admin")
NoSeed == [o \in OrgId |-> NoRow]
Slots == Permutations({r1, r2})
=============================================================================
