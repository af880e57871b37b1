-------------------------------- MODULE Pages --------------------------------
(***************************************************************************)
(* The pages of one tab over their endpoints: the lists (ListPages), an    *)
(* organization's page (OrgPage) and a post's page (PostPage).  The router *)
(* of App.tsx shows one of them; they share no state of the client.  The   *)
(* one store that outlives its page is the pets', whose page ListPages     *)
(* lets go and come back, so the page that is open is chosen at the start. *)
(* The tables no open page reads stand still.                              *)
(***************************************************************************)
EXTENDS PostPage

CONSTANTS
    Offered, Word, MaxRows, PageSize, MaxCalls,         \* of ListPages
    Org, Donation, NoOrg, Chain,                        \* of OrgPage
    MaxMade     \* bound on the comments made while a post's page is open

\* No organization is the one of a page that was never opened; pages have a size.
ASSUME PagesAssumption == NoOrg \notin Org /\ PageSize \in Nat

VARIABLES
    page,       \* the page that is open
    rows, sel, word, mounted, list, calls, spoilt, elsewhere,           \* of ListPages
    orgRoute, given, used, part, chain, mixed                           \* of OrgPage

Lists == INSTANCE ListPages
Orgs == INSTANCE OrgPage

postVars == <<vars, pageVars>>
listVars == <<rows, sel, word, mounted, list, calls, spoilt, elsewhere>>
orgVars == <<orgRoute, given, used, part, chain, mixed>>
allVars == <<page, postVars, listVars, orgVars>>

ListPage == {"pets", "posts", "orgs", "apps"}

PagesInit ==
    /\ page \in ListPage \cup {"org", "post", "none"}
    /\ Lists!Start /\ Orgs!OrgStart
    /\ Init /\ PageStart

PagesNext ==
    /\ UNCHANGED page
    /\ \/ page \in ListPage /\ Lists!ListNext /\ UNCHANGED <<postVars, orgVars>>
       \/ page = "org" /\ Orgs!OrgNext /\ UNCHANGED <<postVars, listVars>>
       \/ page = "post" /\ PageNext /\ UNCHANGED <<listVars, orgVars>>
          /\ Cardinality({c \in Comment : created[c] # NoRow}' \cup {p \in Post : likeCount[p] > 0}') <= MaxMade
       \/ page = "none" /\ Next /\ UNCHANGED <<pageVars, listVars, orgVars>>

PagesSpec == PagesInit /\ [][PagesNext]_allVars

-----------------------------------------------------------------------------
(* The properties of the instances, by names of this module's own. *)

\* Of ListPages: a list at rest answers the filter the page has selected.
ListAnswersFilter == page \in ListPage => Lists!ListAnswersFilter

\* Of ListPages: a total disagrees with its rows only over rows that moved.
CountMatchesList == page \in ListPage => Lists!CountMatchesList

\* Of ListPages: the applications page alone stops at the review.
PageStopsAtReview == Lists!PageStopsAtReview

\* Of OrgPage: a page at rest shows the one organization of its address.
SettledPageIsOneOrg == Orgs!SettledPageIsOneOrg

\* Of OrgPage: no use is shown of money the total leaves out.
UseShownIsOfMoneyShown == Orgs!UseShownIsOfMoneyShown
=============================================================================
