------------------------------ MODULE PostPage ------------------------------
(***************************************************************************)
(* A post's page (pages/PostDetail.tsx and its PostCommentList) over the   *)
(* comments and likes of PostComments.  A like or a comment of the page is *)
(* a request like any other; when its answer is heard the page loads again *)
(* what it had loaded when the link was clicked.                           *)
(***************************************************************************)
EXTENDS PostComments, SequencesExt

CONSTANT
    MaxLoads    \* bound on the loads the page has under way at once

VARIABLES
    route,      \* the post in the address
    shown,      \* what each part of the page shows
    loads,      \* loads under way, oldest first
    awaited,    \* the server's requests that the page waits for
    said,       \* history: likes and comments the page has heard were taken
    stale       \* history: parts that an older or a misdirected load filled

pageVars == <<route, shown, loads, awaited, said, stale>>

PagePart == {"post", "comments"}
NothingShown == [of |-> NoRow]

PageStart ==
    /\ route = NoRow
    /\ shown = [k \in PagePart |-> NothingShown]
    /\ loads = <<>>
    /\ awaited = [r \in Req |-> NoRow]
    /\ said = [likes |-> [p \in Post |-> 0], comments |-> {}]
    /\ stale = {}

\* What a part is meant to show: the post of the address, and the comments of
\* the post that is shown.
Target(k) == IF k = "post" THEN route ELSE shown["post"].of

-----------------------------------------------------------------------------
Free == Len(loads) < MaxLoads
Load(k, p) == [part |-> k, of |-> p, answer |-> NothingShown, late |-> FALSE]

\* The page is opened, or its address changes to another post's and it stays.
Jump(p) ==
    /\ p # route /\ Free
    /\ route' = p
    /\ loads' = Append(loads, Load("post", p))
    /\ stale' = stale \ {"post"}
    /\ UNCHANGED <<shown, awaited, said>>

\* GET /posts/:id and GET /posts/:id/comments.
GetPost(p) == [of |-> p, likes |-> likeCount[p]]
ListComments(p) == [of |-> p, comments |-> LiveOn(p)]

Serve(l) ==
    /\ loads[l].answer = NothingShown
    /\ loads' = [loads EXCEPT ![l].answer =
          IF loads[l].part = "post" THEN GetPost(loads[l].of) ELSE ListComments(loads[l].of)]
    /\ UNCHANGED <<route, shown, awaited, said, stale>>

\* A part is shown as it arrives; older loads of it are late.
Heard(l) ==
    RemoveAt([b \in DOMAIN loads |->
                 IF b < l /\ loads[b].part = loads[l].part
                 THEN [loads[b] EXCEPT !.late = TRUE] ELSE loads[b]], l)

Show(l) ==
    /\ loads[l].answer # NothingShown
    /\ shown' = [shown EXCEPT ![loads[l].part] = loads[l].answer]
    /\ UNCHANGED <<route, awaited, said>>

Late(l) == IF loads[l].late THEN {loads[l].part} ELSE {}

\* The comments are those of the post shown: another post has them loaded.
HearPost(l) ==
    /\ loads[l].part = "post"
    /\ Show(l)
    /\ LET other == shown["post"].of # loads[l].of
       IN /\ loads' = Heard(l) \o IF other THEN <<Load("comments", loads[l].of)>> ELSE <<>>
          /\ stale' = (stale \ IF other THEN {"comments"} ELSE {}) \cup Late(l)

HearComments(l) ==
    /\ loads[l].part = "comments"
    /\ Show(l)
    /\ loads' = Heard(l)
    /\ stale' = stale \cup Late(l)

\* A load fails: the part stays as it is.
LoseLoad(l) ==
    /\ loads' = RemoveAt(loads, l)
    /\ stale' = IF loads[l].late \/ \E b \in DOMAIN loads : b > l /\ loads[b].part = loads[l].part
                THEN stale ELSE stale \cup {loads[l].part}
    /\ UNCHANGED <<route, shown, awaited, said>>

-----------------------------------------------------------------------------
(* The page's own like and comment.  awaited[r] is what the page will load   *)
(* when request r is answered, made the comment the server has made for it.  *)

Awaits(k, p, q) == [part |-> k, of |-> p, on |-> q, made |-> NoRow]
Waiting(r) == awaited[r] # NoRow
Taken(r) == Waiting(r) /\ req[r] = Idle

\* The post shown is liked, the post of the address loaded after.
ClickLike(r) ==
    /\ shown["post"].of \in Post /\ ~Waiting(r)
    /\ LikeIncrement(r, shown["post"].of)
    /\ awaited' = [awaited EXCEPT ![r] = Awaits("post", route, shown["post"].of)]
    /\ UNCHANGED <<route, shown, loads, said, stale>>

ClickSubmit(r, u) ==
    /\ shown["post"].of \in Post /\ ~Waiting(r)
    /\ CreateFindPost(r, u, shown["post"].of)
    /\ awaited' = [awaited EXCEPT ![r] = Awaits("comments", shown["post"].of, shown["post"].of)]
    /\ UNCHANGED <<route, shown, loads, said, stale>>

\* The server takes the page's like or comment, or fails.
Take(r) ==
    /\ Waiting(r)
    /\ \/ \E c \in Comment : CreateCommit(r, c) /\ awaited' = [awaited EXCEPT ![r].made = c]
       \/ LikeReadBack(r) /\ UNCHANGED awaited
       \/ RequestFails(r) /\ awaited' = [awaited EXCEPT ![r] = NoRow]
    /\ UNCHANGED <<route, shown, loads, said, stale>>

\* A step of somebody else's request.
Elsewhere(r) == ~Waiting(r) /\ Step(r) /\ UNCHANGED pageVars

Say(r) ==
    /\ Taken(r)
    /\ said' = IF awaited[r].part = "post"
               THEN [said EXCEPT !.likes[awaited[r].on] = @ + 1]
               ELSE [said EXCEPT !.comments = @ \cup {awaited[r].made}]
    /\ awaited' = [awaited EXCEPT ![r] = NoRow]
    /\ UNCHANGED <<vars, route, shown>>

\* Deliberately wrong: nothing is loaded once the like or comment is taken.
HearTakenOnly(r) == Say(r) /\ UNCHANGED <<loads, stale>>

\* The like or the comment is heard to be taken, and the part loads again.
HearTaken(r) ==
    /\ Say(r) /\ Free
    /\ loads' = Append(loads, Load(awaited[r].part, awaited[r].of))
    /\ stale' = IF awaited[r].of = Target(awaited[r].part) THEN stale
                ELSE stale \cup {awaited[r].part}

\* Its answer is lost: the page says nothing and loads nothing.
LoseTaken(r) ==
    /\ Taken(r)
    /\ awaited' = [awaited EXCEPT ![r] = NoRow]
    /\ UNCHANGED <<vars, route, shown, loads, said, stale>>

PageNext ==
    \/ \E p \in Post : Jump(p) /\ UNCHANGED vars
    \/ \E l \in DOMAIN loads :
          (Serve(l) \/ HearPost(l) \/ HearComments(l) \/ LoseLoad(l)) /\ UNCHANGED vars
    \/ \E r \in Req :
          \/ ClickLike(r)
          \/ \E u \in User : ClickSubmit(r, u)
          \/ Take(r) \/ Elsewhere(r)
          \/ HearTaken(r) \/ LoseTaken(r)

-----------------------------------------------------------------------------
\* A page at rest shows what it was told has been taken: once no load is under
\* way, a part that no older answer and no load for another post has filled
\* shows the post of the address with every like the page made on it, and the
\* comments of that post with every comment the page made and nobody deleted.
AtRest(k) == k \notin stale /\ loads = <<>>
OwnActionShows ==
    /\ AtRest("post") /\ route \in Post =>
          /\ shown["post"].of = route
          /\ shown["post"].likes >= said.likes[route]
    /\ AtRest("comments") /\ shown["post"].of \in Post =>
          /\ shown["comments"].of = shown["post"].of
          /\ said.comments \cap LiveOn(shown["post"].of) \subseteq shown["comments"].comments
=============================================================================
