------------------------------ MODULE MCSession ------------------------------
(* Two accounts, one of them still to register, and two requests at once. *)
EXTENDS Session, TLC
CONSTANTS adopter, shelter, c1, c2
Slots == Permutations(Call)
=============================================================================
