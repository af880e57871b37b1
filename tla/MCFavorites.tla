----------------------------- MODULE MCFavorites -----------------------------
(* Two pets, two pages open at once and two requests under way. *)
EXTENDS Favorites, TLC
CONSTANTS dog, cat, t1, t2, c1, c2
Alike == Permutations(Pet) \cup Permutations(Tab) \cup Permutations(Call)
=============================================================================
