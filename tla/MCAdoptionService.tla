-------------------------- MODULE MCAdoptionService --------------------------
(***************************************************************************)
(* A small adoption platform for TLC: an adopter, the shelter account that *)
(* registered both organizations of the seed data, and an administrator;   *)
(* one pet of each organization.  As in the seed data, the shelter's       *)
(* second organization is the one FindByUserID never returns.              *)
(***************************************************************************)
EXTENDS AdoptionService, TLC

CONSTANTS adopter, shelter, admin, p1, p2, a1, a2, a3, r1, r2

MCUser == {adopter, shelter, admin}
NoAdmin == {adopter, shelter}
MCPet == {p1, p2}
OnePet == {p1}
MCApp == {a1, a2, a3}
TwoApp == {a1, a2}
MCOrg == {1, 2}
MCRole == [u \in User |-> CASE u = adopter -> "user"
                            [] u = shelter -> "org"
                            [] u = admin   -> "admin"]
MCOrgOwner == [o \in Org |-> shelter]
MCPetOrg == (p1 :> 1) @@ (p2 :> 2)
OnePetOrg == (p1 :> 1)

\* The database before any application, and the one the seed data leaves.
NoSeed == [a \in App |-> NoRow]
OneSeed == [NoSeed EXCEPT ![a1] = [user |-> adopter, pet |-> p1, status |-> "submitted"]]

\* Row identifiers and slots are interchangeable.
Symmetry == Permutations(App) \cup Permutations(Req)
=============================================================================
