------------------------------- MODULE MCPages -------------------------------
(* Tables of two rows and pages of one; two calls at once on every page. *)
EXTENDS Pages, TLC
CONSTANTS u1, u2, p1, p2, c1, c2, r1, r2, k1, k2
MCOffered == [pets  |-> {"available"}, posts |-> {"story"}, orgs |-> {"Shanghai"},
              apps  |-> {"submitted", "org_review"}, post |-> {}, org |-> {}]
MCRows == [pets |-> 1, posts |-> 2, orgs |-> 2, apps |-> 1, post |-> 0, org |-> 0]
Seeded == [p \in Post |-> 2]
Symmetry == Permutations(Comment) \cup Permutations(Req) \cup Permutations(User)
    \cup Permutations(Post) \cup Permutations(Chain)
=============================================================================
