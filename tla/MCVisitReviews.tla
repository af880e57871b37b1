--------------------------- MODULE MCVisitReviews ---------------------------
(* One adopter with an application, two visits, a calendar of four days. *)
EXTENDS VisitReviews
CONSTANTS u1, a1, v1, v2, n1, r1, r2
MCAppUser == [a \in App |-> u1]
MCDays == {-1, 1}
=============================================================================
