------------------------------ MODULE MCProfile ------------------------------
(* Two accounts, a text of each, and two requests under way.  The accounts   *)
(* may only be exchanged together with their texts.                          *)
EXTENDS Profile, TLC
CONSTANTS ann, bob, tea, oak, c1, c2
MCAuthor == tea :> ann @@ oak :> bob
Exchange == ann :> bob @@ bob :> ann @@ tea :> oak @@ oak :> tea
Alike == Permutations(Call) \cup {Exchange}
=============================================================================
