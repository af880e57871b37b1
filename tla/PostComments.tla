----------------------------- MODULE PostComments -----------------------------
(***************************************************************************)
(* Comments and likes of community posts (service/comment_service.go,      *)
(* service/post_service.go).  A comment and the post's counter are written *)
(* in one transaction; deleting reads the comment, checks its author and   *)
(* deletes the row, and leaves the counter alone.                          *)
(***************************************************************************)
EXTENDS Naturals, FiniteSets

CONSTANTS
    User, Post,
    Comment,      \* identifiers of comment rows, each used at most once
    SeedCount,    \* SeedCount[p], comment_count the seed data gave post p
    NoRow,
    Req,          \* request slots
    MaxLikes      \* bound on like_count

ASSUME CommentAssumption == SeedCount \in [Post -> Nat] /\ MaxLikes \in Nat

VARIABLES
    comment,       \* rows of post_comments
    commentCount,  \* community_posts.comment_count
    likeCount,     \* community_posts.like_count
    req,           \* what each request slot has read
    created,       \* history: comments whose creation was answered 201
    deletedOk      \* history: how many deletions of a comment were answered 200

vars == <<comment, commentCount, likeCount, req, created, deletedOk>>

Row == [user : User, post : Post]
Idle == [op |-> "idle"]
CreateReq == [op : {"create"}, user : User, post : Post]
DeleteReq == [op : {"delete"}, comment : Comment]
LikeReq == [op : {"like"}, post : Post]

\* NoRow is told apart from a post and from a row, as nil is from a pointer.
ASSUME NoRowAssumption == NoRow \notin Post \cup Row

Exists(c) == comment[c] # NoRow
LiveOn(p) == {c \in Comment : Exists(c) /\ comment[c].post = p}
CreatedOn(p) == {c \in Comment : created[c] = p}

TypeOK ==
    /\ comment \in [Comment -> Row \cup {NoRow}]
    /\ commentCount \in [Post -> Nat]
    /\ likeCount \in [Post -> 0 .. MaxLikes]
    /\ req \in [Req -> {Idle} \cup CreateReq \cup DeleteReq \cup LikeReq]
    /\ created \in [Comment -> Post \cup {NoRow}]
    /\ deletedOk \in [Comment -> Nat]

Init ==
    /\ comment = [c \in Comment |-> NoRow]
    /\ commentCount = SeedCount
    /\ likeCount = [p \in Post |-> 0]
    /\ req = [r \in Req |-> Idle]
    /\ created = [c \in Comment |-> NoRow]
    /\ deletedOk = [c \in Comment |-> 0]

-----------------------------------------------------------------------------
\* POST /posts/:id/comments: find the post (posts are never deleted) ...
CreateFindPost(r, u, p) ==
    /\ req[r] = Idle
    /\ req' = [req EXCEPT ![r] = [op |-> "create", user |-> u, post |-> p]]
    /\ UNCHANGED <<comment, commentCount, likeCount, created, deletedOk>>

\* Deliberately wrong: the counter is set from the comments in the table.
CreateCommitRecount(r, c) ==
    /\ req[r].op = "create"
    /\ created[c] = NoRow
    /\ comment' = [comment EXCEPT ![c] = [user |-> req[r].user, post |-> req[r].post]]
    /\ commentCount' = [commentCount EXCEPT ![req[r].post] = Cardinality(LiveOn(req[r].post))]
    /\ created' = [created EXCEPT ![c] = req[r].post]
    /\ req' = [req EXCEPT ![r] = Idle]
    /\ UNCHANGED <<likeCount, deletedOk>>

\* ... then insert the comment and add one to the counter in a transaction.
CreateCommit(r, c) ==
    /\ req[r].op = "create"
    /\ created[c] = NoRow
    /\ comment' = [comment EXCEPT ![c] = [user |-> req[r].user, post |-> req[r].post]]
    /\ commentCount' = [commentCount EXCEPT ![req[r].post] = @ + 1]
    /\ created' = [created EXCEPT ![c] = req[r].post]
    /\ req' = [req EXCEPT ![r] = Idle]
    /\ UNCHANGED <<likeCount, deletedOk>>

\* DELETE /comments/:id: find the comment and check its author ...
DeleteFind(r, u, c) ==
    /\ req[r] = Idle
    /\ Exists(c) /\ comment[c].user = u
    /\ req' = [req EXCEPT ![r] = [op |-> "delete", comment |-> c]]
    /\ UNCHANGED <<comment, commentCount, likeCount, created, deletedOk>>

\* Deliberately wrong: a deletion that removed no row still succeeds.
DeleteRowUncounted(r) ==
    /\ req[r].op = "delete"
    /\ comment' = [comment EXCEPT ![req[r].comment] = NoRow]
    /\ deletedOk' = [deletedOk EXCEPT ![req[r].comment] = @ + 1]
    /\ req' = [req EXCEPT ![r] = Idle]
    /\ UNCHANGED <<commentCount, likeCount, created>>

\* ... then delete the row; no row affected is an error.
DeleteRow(r) ==
    /\ req[r].op = "delete"
    /\ comment' = [comment EXCEPT ![req[r].comment] = NoRow]
    /\ deletedOk' = IF Exists(req[r].comment)
                    THEN [deletedOk EXCEPT ![req[r].comment] = @ + 1]
                    ELSE deletedOk
    /\ req' = [req EXCEPT ![r] = Idle]
    /\ UNCHANGED <<commentCount, likeCount, created>>

\* PUT /posts/:id/like: one UPDATE adds the like ...
LikeIncrement(r, p) ==
    /\ req[r] = Idle
    /\ likeCount[p] < MaxLikes
    /\ likeCount' = [likeCount EXCEPT ![p] = @ + 1]
    /\ req' = [req EXCEPT ![r] = [op |-> "like", post |-> p]]
    /\ UNCHANGED <<comment, commentCount, created, deletedOk>>

\* ... and the post is read back for the answer.
LikeReadBack(r) ==
    /\ req[r].op = "like"
    /\ req' = [req EXCEPT ![r] = Idle]
    /\ UNCHANGED <<comment, commentCount, likeCount, created, deletedOk>>

\* A request ends early, on a database error or a stop of the server; a like
\* already added stays.
RequestFails(r) ==
    /\ req[r] # Idle
    /\ req' = [req EXCEPT ![r] = Idle]
    /\ UNCHANGED <<comment, commentCount, likeCount, created, deletedOk>>

\* One step of a request, or its first.
Step(r) ==
    \/ \E u \in User, p \in Post : CreateFindPost(r, u, p)
    \/ \E c \in Comment : CreateCommit(r, c)
    \/ \E u \in User, c \in Comment : DeleteFind(r, u, c)
    \/ DeleteRow(r)
    \/ \E p \in Post : LikeIncrement(r, p)
    \/ LikeReadBack(r)
    \/ RequestFails(r)

Next == \E r \in Req : Step(r)

Spec == Init /\ [][Next]_vars

-----------------------------------------------------------------------------
\* No comment is lost from the counter or counted twice, however creations,
\* deletions and failures interleave: the counter is what the seed gave plus
\* every comment ever created, and covers the live ones.
CounterCountsCreations ==
    \A p \in Post :
        /\ commentCount[p] = SeedCount[p] + Cardinality(CreatedOn(p))
        /\ LiveOn(p) \subseteq CreatedOn(p)

\* The tables and requests are well formed, and the counter is right.
CommentInv == TypeOK /\ CounterCountsCreations

\* Of concurrent deletions of one comment at most one succeeds, and exactly
\* one has succeeded when a created comment is gone.
DeletedAtMostOnce ==
    \A c \in Comment : created[c] # NoRow =>
        deletedOk[c] = IF Exists(c) THEN 0 ELSE 1
=============================================================================
