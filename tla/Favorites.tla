------------------------------ MODULE Favorites ------------------------------
(***************************************************************************)
(* The favorites of one account: its rows of table favorites, which        *)
(* service/favorite_service.go adds and removes, and the star button of    *)
(* the pages that show a pet (FavoriteButton.tsx), which never asks the    *)
(* server what it is to show.  Several pages are open at once; a page may  *)
(* be left, and an answer lost, while its request goes on at the server.   *)
(***************************************************************************)
EXTENDS Naturals

CONSTANTS
    Pet,        \* pets with a page
    NoPet,      \* no pet: a page without the button, an id without a row
    Tab,        \* pages open at once
    NoTab,      \* nobody waits for the answer
    Call,       \* requests under way at once
    MaxFav      \* bound on the rows ever inserted

ASSUME FavoritesAssumption ==
    /\ NoPet \notin Pet /\ NoTab \notin Tab
    /\ MaxFav \in Nat

VARIABLES
    fav,        \* fav[f], the pet of the row with id f
    lastFav,    \* last id given out
    page,       \* page[t], the pet whose page is open
    starred,    \* starred[t], favorited of its button
    call,       \* requests under way
    left        \* history: rows there were once when no star was lit and no
                \* request under way, and no star has been carried over since

table == <<fav, lastFav>>
vars == <<table, page, starred, call, left>>

FavId == 1 .. MaxFav
Idle == [op |-> "idle"]
\* A toggle; fav is the row it has found or inserted.
Toggle == [op : {"add", "remove"}, pet : Pet, tab : Tab \cup {NoTab},
           step : {"asked", "found", "ok", "failed"}, fav : 0 .. MaxFav]

Init ==
    /\ fav = [f \in FavId |-> NoPet] /\ lastFav = 0
    /\ page = [t \in Tab |-> NoPet] /\ starred = [t \in Tab |-> FALSE]
    /\ call = [c \in Call |-> Idle]
    /\ left = {}

RowsOf(p) == {f \in FavId : fav[f] = p}
Loading(t) == \E c \in Call : call[c] # Idle /\ call[c].tab = t
Quiet == (\A t \in Tab : ~starred[t]) /\ \A c \in Call : call[c] = Idle

\* Rows whose page has been closed on them, after a step; not a step of the code.
Leaves == left' = {f \in FavId : fav'[f] # NoPet /\ (f \in left \/ Quiet')}

-----------------------------------------------------------------------------
(* The pages. *)

\* A page is opened, loaded anew or closed: the button starts unlit, and
\* nobody hears the answers to what the old one asked.
Visit(t, p) ==
    /\ page' = [page EXCEPT ![t] = p]
    /\ starred' = [starred EXCEPT ![t] = FALSE]
    /\ call' = [c \in Call |-> IF call[c] # Idle /\ call[c].tab = t
                               THEN [call[c] EXCEPT !.tab = NoTab] ELSE call[c]]
    /\ UNCHANGED table
    /\ Leaves

\* The browser goes back from one pet's page to another's: the same component
\* shows the other pet, with the star and the loading of the first.
Jump(t, p) ==
    /\ page[t] # NoPet /\ p # page[t]
    /\ page' = [page EXCEPT ![t] = p]
    /\ left' = IF starred[t] \/ Loading(t) THEN {} ELSE left
    /\ UNCHANGED <<table, starred, call>>

\* toggle; a loading button takes no clicks.
Click(t, c) ==
    /\ page[t] # NoPet /\ ~Loading(t) /\ call[c] = Idle
    /\ call' = [call EXCEPT ![c] = [op |-> IF starred[t] THEN "remove" ELSE "add", pet |-> page[t],
                                    tab |-> t, step |-> "asked", fav |-> 0]]
    /\ UNCHANGED <<table, page, starred>>
    /\ Leaves

-----------------------------------------------------------------------------
(* The server. *)

At(c, op, step) == call[c].op = op /\ call[c].step = step
Reaches(c, step, f) == call' = [call EXCEPT ![c].step = step, ![c].fav = f]

\* Deliberately wrong: there is no unique index.
AddRowAgain(c) ==
    /\ At(c, "add", "asked") /\ lastFav < MaxFav
    /\ lastFav' = lastFav + 1
    /\ fav' = [fav EXCEPT ![lastFav + 1] = call[c].pet]
    /\ Reaches(c, "ok", lastFav + 1)
    /\ UNCHANGED <<page, starred>> /\ Leaves

\* Add: one INSERT, which the unique index admits.
AddRow(c) ==
    /\ At(c, "add", "asked") /\ RowsOf(call[c].pet) = {} /\ lastFav < MaxFav
    /\ lastFav' = lastFav + 1
    /\ fav' = [fav EXCEPT ![lastFav + 1] = call[c].pet]
    /\ Reaches(c, "ok", lastFav + 1)
    /\ UNCHANGED <<page, starred>> /\ Leaves

\* Deliberately wrong: a favorite that is there already is as good as added.
AddDuplicateOk(c) ==
    /\ At(c, "add", "asked") /\ RowsOf(call[c].pet) # {}
    /\ Reaches(c, "ok", 0)
    /\ UNCHANGED <<table, page, starred>> /\ Leaves

\* 409 for a pet that is a favorite already.
AddDuplicate(c) ==
    /\ At(c, "add", "asked") /\ RowsOf(call[c].pet) # {}
    /\ Reaches(c, "failed", 0)
    /\ UNCHANGED <<table, page, starred>> /\ Leaves

\* Remove looks for the row.
Find(c) ==
    /\ At(c, "remove", "asked")
    /\ \E f \in RowsOf(call[c].pet) : Reaches(c, "found", f)
    /\ UNCHANGED <<table, page, starred>> /\ Leaves

\* 404.
FindNone(c) ==
    /\ At(c, "remove", "asked") /\ RowsOf(call[c].pet) = {}
    /\ Reaches(c, "failed", 0)
    /\ UNCHANGED <<table, page, starred>> /\ Leaves

\* Deliberately wrong: the row is deleted by its pet.
DeletePet(c) ==
    /\ At(c, "remove", "found")
    /\ fav' = [f \in FavId |-> IF fav[f] = call[c].pet THEN NoPet ELSE fav[f]]
    /\ Reaches(c, "ok", call[c].fav)
    /\ UNCHANGED <<lastFav, page, starred>> /\ Leaves

\* Then it deletes the row by its id, whether it is still there or not.
DeleteRow(c) ==
    /\ At(c, "remove", "found")
    /\ fav' = [fav EXCEPT ![call[c].fav] = NoPet]
    /\ Reaches(c, "ok", call[c].fav)
    /\ UNCHANGED <<lastFav, page, starred>> /\ Leaves

\* The limiter, the database or a cancelled request: an error and no more.
RequestFails(c) ==
    /\ call[c] # Idle /\ call[c].step \in {"asked", "found"}
    /\ Reaches(c, "failed", 0)
    /\ UNCHANGED <<table, page, starred>> /\ Leaves

-----------------------------------------------------------------------------
(* The answers. *)

\* The network or the request's 15 seconds: the button is free again and the
\* request goes on.
GiveUp(c) ==
    /\ call[c] # Idle /\ call[c].tab # NoTab
    /\ call' = [call EXCEPT ![c].tab = NoTab]
    /\ UNCHANGED <<table, page, starred>> /\ Leaves

\* setFavorited: lit after an add, unlit after a removal.
Hear(c, t) ==
    /\ call[c] # Idle /\ call[c].step = "ok" /\ call[c].tab = t
    /\ starred' = [starred EXCEPT ![t] = call[c].op = "add"]
    /\ call' = [call EXCEPT ![c] = Idle]
    /\ UNCHANGED <<table, page>> /\ Leaves

\* An error, or an answer nobody waits for.
End(c) ==
    /\ call[c] # Idle
    /\ call[c].step = "failed" \/ (call[c].step = "ok" /\ call[c].tab = NoTab)
    /\ call' = [call EXCEPT ![c] = Idle]
    /\ UNCHANGED <<table, page, starred>> /\ Leaves

Serves(c) ==
    AddRow(c) \/ AddDuplicate(c) \/ Find(c) \/ FindNone(c) \/ DeleteRow(c) \/ RequestFails(c)

Next ==
    \/ \E t \in Tab :
          \/ \E p \in Pet \cup {NoPet} : Visit(t, p)
          \/ \E p \in Pet : Jump(t, p)
          \/ \E c \in Call : Click(t, c) \/ Hear(c, t)
    \/ \E c \in Call : Serves(c) \/ GiveUp(c) \/ End(c)

Spec == Init /\ [][Next]_vars

-----------------------------------------------------------------------------
TypeOK ==
    /\ fav \in [FavId -> Pet \cup {NoPet}]
    /\ lastFav \in 0 .. MaxFav
    /\ page \in [Tab -> Pet \cup {NoPet}]
    /\ starred \in [Tab -> BOOLEAN]
    /\ call \in [Call -> {Idle} \cup Toggle]
    /\ left \subseteq FavId

\* A pet is a favorite once, and no row has an id yet to be given out.
OneRowPerPet ==
    /\ \A f, g \in FavId : fav[f] # NoPet /\ fav[f] = fav[g] => f = g
    /\ \A f \in FavId : fav[f] # NoPet => f <= lastFav

\* A request speaks of rows that were there: what it has found or inserted is
\* its pet's row or is gone.
SpeaksOfItsPet ==
    \A c \in Call : call[c] # Idle =>
        /\ call[c].fav <= lastFav
        /\ call[c].fav # 0 => fav[call[c].fav] \in {call[c].pet, NoPet}
        /\ call[c].step = "found" => call[c].op = "remove" /\ call[c].fav # 0

\* As long as a row has been left, no lit star and no request can reach it.
LeftOutOfReach ==
    \A f \in left :
        /\ fav[f] # NoPet
        /\ \A t \in Tab : starred[t] => page[t] # fav[f]
        /\ \A c \in Call : call[c] # Idle =>
              /\ call[c].tab # NoTab => page[call[c].tab] = call[c].pet
              /\ call[c].op = "remove" \/ call[c].step = "ok" => call[c].pet # fav[f]

FavInv == TypeOK /\ OneRowPerPet /\ SpeaksOfItsPet /\ LeftOutOfReach

\* A removal takes away at most the row it found: a pet that was taken off
\* and made a favorite again in between stays one.
RemovesWhatItFound ==
    [][\A f \in FavId : fav[f] # NoPet /\ fav'[f] = NoPet =>
          \E c \in Call : At(c, "remove", "found") /\ call[c].fav = f]_vars

\* A favorite that no page shows as one is never removed again, whatever is
\* clicked on whichever page, unless the star of one pet is carried over to
\* another's page: a page opened later only ever tries to add it.
LeftStays == [][\A f \in left : fav'[f] # NoPet]_vars
=============================================================================
