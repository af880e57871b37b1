------------------------------ MODULE ListPages ------------------------------
(***************************************************************************)
(* The pages that show a list chosen by filters: pages/PetList.tsx with    *)
(* stores/petStore.ts, Community.tsx, OrgList.tsx and Applications.tsx,    *)
(* with the list endpoints behind them and the writes the last two make.   *)
(* Every load is answered in steps (asked, counted, found, heard), nothing *)
(* is cancelled, and what is heard last is shown.                          *)
(***************************************************************************)
EXTENDS AdoptionConstants, Naturals, SequencesExt

CONSTANTS
    Offered,    \* Offered[p], the filters the selector of page p offers
    Word,       \* keywords a visitor may search for
    MaxRows,    \* MaxRows[p], bound on the rows of page p's table
    PageSize,   \* rows on the first page; the pages ask for no other
    MaxCalls    \* bound on the calls the page has under way at once

VARIABLES
    page,       \* which of the pages is open
    rows,       \* its table in order of id: what a filter looks at in each row
    sel, word,  \* the filter the page has selected, the keyword it keeps
    mounted,    \* whether the page is there; the pet store outlives its page
    list,       \* the question the list shown answers, the statuses to click on
    calls,      \* calls under way, oldest first
    spoilt,     \* history: why the list may not be the one selected
    elsewhere   \* history: applications another client has moved

listVars == <<rows, sel, word, mounted, list, calls, spoilt, elsewhere>>

All == "all"        \* no filter
Mine == "mine"      \* an account's own applications: an organization has none
NoWord == ""

\* What the column a filter selects by may hold; of a pet's statuses and an
\* organization's cities two, one that passes the filter and one that does not.
Category == [pets  |-> {"available", "adopted"},
             posts |-> {"story", "lost_notice"},
             orgs  |-> {"Shanghai", "Beijing"},
             apps  |-> AppStatus]

Start ==
    /\ rows = <<>>
    /\ sel = All /\ word = NoWord /\ mounted = FALSE
    /\ list = [query |-> [cat |-> "none", word |-> NoWord], items |-> <<>>]
    /\ calls = <<>>
    /\ spoilt = FALSE /\ elsewhere = {}

-----------------------------------------------------------------------------
(* The visitor. *)

Free == Len(calls) < MaxCalls
Load(q) == [at |-> "asked", query |-> q, late |-> FALSE]

\* The page is opened and loads, the pets' page with a keyword of its address;
\* the applications' page first takes every account for an adopter.
Open(w) ==
    /\ ~mounted /\ Free
    /\ page # "pets" => w = NoWord
    /\ mounted' = TRUE /\ word' = w
    /\ sel' = IF page = "apps" THEN Mine ELSE All
    /\ calls' = Append(calls, Load([cat |-> sel', word |-> w]))
    /\ spoilt' = FALSE
    /\ UNCHANGED <<rows, list, elsewhere>>

\* The pets' page is left; its list stays in the store.
LeavePets ==
    /\ page = "pets" /\ mounted
    /\ mounted' = FALSE
    /\ UNCHANGED <<rows, sel, word, list, calls, spoilt, elsewhere>>

\* A load the visitor makes asks for what is selected now.
Select(s, q) ==
    /\ mounted /\ Free
    /\ sel' = s
    /\ calls' = Append(calls, Load(q))
    /\ spoilt' = FALSE
    /\ UNCHANGED <<rows, mounted, list, elsewhere>>

Pick(s) == sel # Mine /\ s \in (Offered[page] \cup {All}) \ {sel}

\* Deliberately wrong: the effect forgets the keyword the page keeps.
PickPetsAnew(s) ==
    page = "pets" /\ Pick(s) /\ Select(s, [cat |-> s, word |-> NoWord]) /\ UNCHANGED word

\* Species and status are dependencies of one effect, which sends the keyword.
PickPets(s) ==
    page = "pets" /\ Pick(s) /\ Select(s, [cat |-> s, word |-> word]) /\ UNCHANGED word

SearchPets(w) ==
    page = "pets" /\ word' = w /\ Select(sel, [cat |-> sel, word |-> w])

\* The community's effect loads without the keyword of the last search.
PickPosts(s) ==
    page = "posts" /\ Pick(s) /\ Select(s, [cat |-> s, word |-> NoWord]) /\ UNCHANGED word
SearchPosts(w) ==
    page = "posts" /\ Select(sel, [cat |-> sel, word |-> w]) /\ UNCHANGED word

\* The city of the organizations' page is never sent.
PickOrgs(s) ==
    page = "orgs" /\ Pick(s) /\ Select(s, [cat |-> All, word |-> NoWord]) /\ UNCHANGED word
SearchOrgs(w) ==
    page = "orgs" /\ Select(sel, [cat |-> All, word |-> w]) /\ UNCHANGED word

PickApps(s) ==
    page = "apps" /\ Pick(s) /\ Select(s, [cat |-> s, word |-> NoWord]) /\ UNCHANGED word

\* The session's profile arrives and the account is an organization's.
Recognise ==
    page = "apps" /\ sel = Mine /\ Select(All, [cat |-> All, word |-> NoWord]) /\ UNCHANGED word

\* The one button of a row: what it asks for depends on the status shown.
\* The call remembers the filter, with which it will load.
Button(status) == IF status = "submitted" THEN "org_review" ELSE "approved"
Advance(i) ==
    /\ page = "apps" /\ sel # Mine /\ Free
    /\ i \in DOMAIN list.items
    /\ calls' = Append(calls, [at |-> "clicked", app |-> i, next |-> Button(list.items[i]),
                               query |-> [cat |-> sel, word |-> NoWord]])
    /\ UNCHANGED <<rows, sel, word, mounted, list, spoilt, elsewhere>>

Publish(s) ==
    /\ page = "posts" /\ mounted /\ Free
    /\ calls' = Append(calls, [at |-> "posting", cat |-> s,
                               query |-> [cat |-> sel, word |-> NoWord]])
    /\ UNCHANGED <<rows, sel, word, mounted, list, spoilt, elsewhere>>

-----------------------------------------------------------------------------
(* The server. *)

InCategory(q) == {i \in DOMAIN rows : q.cat \in {All, rows[i].cat}}
HasWord(q) == {i \in DOMAIN rows : q.word \in {NoWord, rows[i].word}}

PetsWhere(q) == InCategory(q) \cap HasWord(q)
PostsWhere(q) == InCategory(q) \cap HasWord(q)
OrgsWhere(q) == HasWord(q)
AppsWhere(q) == InCategory(q)

Where(q) == CASE page = "pets"  -> PetsWhere(q)
              [] page = "posts" -> PostsWhere(q)
              [] page = "orgs"  -> OrgsWhere(q)
              [] page = "apps"  -> AppsWhere(q)

\* Deliberately wrong: the keyword is added to the query after the count.
CountedUnsearched(q) == Cardinality(InCategory(q))

Counted(q) == Cardinality(Where(q))

\* The first page, newest first.
Newest(S) == {i \in S : Cardinality({j \in S : j > i}) < PageSize}

ServerStep(c, call) ==
    /\ calls' = [calls EXCEPT ![c] = call]
    /\ UNCHANGED <<sel, word, mounted, list, spoilt, elsewhere>>

\* A list with a total is read by two statements: SELECT count(*) ...
Count(c) ==
    /\ page # "apps" /\ calls[c].at = "asked"
    /\ ServerStep(c, [at |-> "counted", query |-> calls[c].query, late |-> calls[c].late,
                      total |-> Counted(calls[c].query), passed |-> Where(calls[c].query)])
    /\ UNCHANGED rows

\* ... and the rows.
Find(c) ==
    /\ calls[c].at = "counted"
    /\ ServerStep(c, [at |-> "found", query |-> calls[c].query, late |-> calls[c].late,
                      items |-> <<>>, total |-> calls[c].total,
                      found |-> Newest(Where(calls[c].query)),
                      moved |-> calls[c].passed # Where(calls[c].query)])
    /\ UNCHANGED rows

\* Applications are listed whole, by one statement.
FindApps(c) ==
    /\ page = "apps" /\ calls[c].at = "asked"
    /\ ServerStep(c, [at |-> "found", query |-> calls[c].query, late |-> calls[c].late,
                      items |-> [i \in Where(calls[c].query) |-> rows[i].cat]])
    /\ UNCHANGED rows

\* Deliberately wrong: the status asked for is not checked against the edges.
ChangeFindAnyEdge(c) ==
    /\ calls[c].at = "clicked"
    /\ ServerStep(c, [calls[c] EXCEPT !.at = "reading"])
    /\ UNCHANGED rows

\* PUT /applications/:id/status checks the edge from the status it reads ...
ChangeFind(c) ==
    /\ calls[c].at = "clicked"
    /\ calls[c].next \in NextApplicationStatuses(rows[calls[c].app].cat)
    /\ ServerStep(c, [calls[c] EXCEPT !.at = "reading"])
    /\ UNCHANGED rows

\* ... and saves the row.
ChangeSave(c) ==
    /\ calls[c].at = "reading"
    /\ rows' = [rows EXCEPT ![calls[c].app].cat = calls[c].next]
    /\ ServerStep(c, [at |-> "done", query |-> calls[c].query])

\* POST /posts is one INSERT.
PostCreate(c) ==
    /\ calls[c].at = "posting" /\ Len(rows) < MaxRows[page]
    /\ rows' = Append(rows, [cat |-> calls[c].cat, word |-> NoWord])
    /\ ServerStep(c, [at |-> "done", query |-> calls[c].query])

-----------------------------------------------------------------------------
(* The page hears. *)

IsLoad(call) == call.at \in {"asked", "counted", "found"}

\* An answer is shown whatever is selected by now; older loads are late.
Hear(c) ==
    /\ calls[c].at = "found"
    /\ list' = [query |-> calls[c].query, items |-> calls[c].items]
    /\ spoilt' = (spoilt \/ calls[c].late)
    /\ calls' = RemoveAt([b \in DOMAIN calls |->
                     IF b < c /\ IsLoad(calls[b]) THEN [calls[b] EXCEPT !.late = TRUE]
                     ELSE calls[b]], c)
    /\ UNCHANGED <<rows, sel, word, mounted, elsewhere>>

\* After a write the page loads with the filter of the click.
HearDone(c) ==
    /\ calls[c].at = "done"
    /\ calls' = Append(RemoveAt(calls, c), Load(calls[c].query))
    /\ spoilt' = (spoilt \/ calls[c].query.cat # sel)
    /\ UNCHANGED <<rows, sel, word, mounted, list, elsewhere>>

\* A call is refused or fails, or its answer is lost: nothing is shown, and
\* after a write nothing is loaded.
Lose(c) ==
    /\ calls' = RemoveAt(calls, c)
    /\ spoilt' = (spoilt \/ (IsLoad(calls[c]) /\ ~calls[c].late
                            /\ \A b \in DOMAIN calls : b > c => ~IsLoad(calls[b])))
    /\ UNCHANGED <<rows, sel, word, mounted, list, elsewhere>>

-----------------------------------------------------------------------------
(* Other clients. *)

\* A pet, a post, an organization or an application comes in.
Appear(s, w) ==
    /\ Len(rows) < MaxRows[page]
    /\ page = "apps" => s = "submitted" /\ w = NoWord
    /\ rows' = Append(rows, [cat |-> s, word |-> w])
    /\ UNCHANGED <<sel, word, mounted, list, calls, spoilt, elsewhere>>

\* A pet's status is set; an application is moved along an edge.
Change(i, s) ==
    /\ \/ page = "pets" /\ s # rows[i].cat /\ UNCHANGED elsewhere
       \/ page = "apps" /\ <<rows[i].cat, s>> \in AppEdge /\ elsewhere' = elsewhere \cup {i}
    /\ rows' = [rows EXCEPT ![i].cat = s]
    /\ UNCHANGED <<sel, word, mounted, list, calls, spoilt>>

ListNext ==
    \/ LeavePets
    \/ \E s \in Offered[page] \cup {All} :
          PickPets(s) \/ PickPosts(s) \/ PickOrgs(s) \/ PickApps(s)
    \/ \E w \in Word \cup {NoWord} :
          Open(w) \/ SearchPets(w) \/ SearchPosts(w) \/ SearchOrgs(w)
    \/ Recognise
    \/ \E i \in DOMAIN list.items : Advance(i)
    \/ \E s \in Category["posts"] : Publish(s)
    \/ \E c \in DOMAIN calls :
          \/ Count(c) \/ Find(c) \/ FindApps(c)
          \/ ChangeFind(c) \/ ChangeSave(c) \/ PostCreate(c)
          \/ Hear(c) \/ HearDone(c) \/ Lose(c)
    \/ \E s \in Category[page], w \in Word \cup {NoWord} : Appear(s, w)
    \/ \E i \in DOMAIN rows, s \in Category[page] : Change(i, s)

-----------------------------------------------------------------------------
\* Once no load is under way the list answers the filter the page has selected
\* and, on the pets' page, the keyword it keeps; unless an older answer came
\* last, the newest failed, or a write's load asked with the filter of its click.
Loading == \E c \in DOMAIN calls : IsLoad(calls[c])
ListAnswersFilter ==
    mounted /\ ~Loading /\ ~spoilt =>
        /\ page # "orgs" => list.query.cat = sel
        /\ page = "pets" => list.query.word = word

\* The total and the rows of one answer disagree only if rows came to pass the
\* filter, or ceased to, between the two statements: only then can the page
\* say "none" with a total above zero.
CountMatchesList ==
    page # "apps" =>
        \A c \in DOMAIN calls : calls[c].at = "found" /\ ~calls[c].moved =>
            Cardinality(calls[c].found) =
                IF calls[c].total < PageSize THEN calls[c].total ELSE PageSize

\* However stale the list, an organization that works with this page alone
\* brings no application past its review: the button asks org_review, then
\* approved, and approved is refused from there.
PageStopsAtReview ==
    page = "apps" =>
        \A i \in DOMAIN rows \ elsewhere : rows[i].cat \in {"submitted", "org_review"}
=============================================================================
