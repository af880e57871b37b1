----------------------------- MODULE MCHomeCache -----------------------------
(* Instances of HomeCache: two visitors and two connections, a life of two  *)
(* ticks and a deadline of one, so that entries expire, deadlines pass,     *)
(* builders overlap and SETs arrive late and in any order.                  *)
EXTENDS HomeCache, TLC

Symmetry == Permutations(Req) \cup Permutations(Conn)
=============================================================================
