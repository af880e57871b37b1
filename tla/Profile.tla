------------------------------- MODULE Profile -------------------------------
(***************************************************************************)
(* The profiles of the accounts: the rows UpdateProfile of                 *)
(* service/user_service.go reads and saves whole, and the profile page of  *)
(* one browser tab (pages/Profile.tsx, stores/userStore.ts), whose store   *)
(* outlives the page and the session and whose form is filled from what    *)
(* the store held when the page was opened.                                *)
(***************************************************************************)
EXTENDS Naturals

CONSTANTS
    Account,
    NoOne,      \* no account: requests go out without a live token
    Text,       \* what may be typed into a field
    NoText,     \* an empty field
    Author,     \* Author[x], the account whose holder types x
    Call,       \* requests under way at once
    MaxSave     \* bound on the saves ever sent

ASSUME ProfileAssumption ==
    /\ NoOne \notin Account /\ NoText \notin Text
    /\ Author \in [Text -> Account]
    /\ MaxSave \in Nat

\* The fields of the form that the server keeps.
Field == {"nickname", "phone"}
Value == Text \cup {NoText}
Row == [Field -> Value]

VARIABLES
    users,      \* users[a], the row of account a
    account,    \* the account of the token in localStorage, this tab's or not
    loggedIn,   \* whether the tab's own store has a token
    profile,    \* profile of userStore
    page,       \* the profile page
    call,       \* requests under way
    saves,      \* saves sent so far
    exposed,    \* history: accounts for which a form was submitted whose page
                \* was opened on another's profile, or in another's session
    overtaken   \* history: saves whose row was written since they read it

tab == <<account, loggedIn, profile, page>>
history == <<exposed, overtaken>>
vars == <<users, tab, call, saves, history>>

Blank == [f \in Field |-> NoText]
NoProfile == [of |-> NoOne, row |-> Blank]
Profiles == [of : Account \cup {NoOne}, row : Row]

Closed == [open |-> FALSE]
\* first is the store's profile at the first render, session the account then;
\* filled once the form has been given first's values.
Open == [open : {TRUE}, first : Profiles, session : Account \cup {NoOne}, filled : BOOLEAN]

Idle == [op |-> "idle"]
\* hearer: the page that asked and the store hear the answer, the store, nobody.
LoadCall == [op : {"load"}, of : Account \cup {NoOne}, hearer : {"page", "store"},
             step : {"asked", "done"}, row : Row, sent : {Blank}]
SaveCall == [op : {"save"}, of : Account \cup {NoOne}, hearer : {"store", "nobody"},
             step : {"asked", "found", "done"}, row : Row, sent : Row]

Own(a) == {x \in Text : Author[x] = a}

\* Registered accounts have a nickname, and a phone if they gave one.
Init ==
    /\ users \in [Account -> {r \in Row : r["nickname"] # NoText}]
    /\ \A a \in Account, f \in Field : users[a][f] \in Own(a) \cup {NoText}
    /\ account = NoOne /\ loggedIn = FALSE
    /\ profile = NoProfile /\ page = Closed
    /\ call = [c \in Call |-> Idle] /\ saves = 0
    /\ exposed = {} /\ overtaken = {}

-----------------------------------------------------------------------------
(* The tab. *)

\* What the calls look like to a page that has gone, or to a tab that has.
PageGone == [c \in Call |-> IF call[c] # Idle /\ call[c].hearer = "page"
                            THEN [call[c] EXCEPT !.hearer = "store"] ELSE call[c]]
\* A load, or an answer, that nobody is to hear is nothing any more.
Unheard(c) == IF call[c].op = "save" /\ call[c].step # "done"
              THEN [call[c] EXCEPT !.hearer = "nobody"] ELSE Idle
TabGone == [c \in Call |-> Unheard(c)]

\* Log-in and log-out each lead to the home page; userStore is not told.
LogIn(a) ==
    /\ account' = a /\ loggedIn' = TRUE
    /\ page' = Closed /\ call' = PageGone
    /\ UNCHANGED <<users, saves, profile, history>>

LogOut ==
    /\ loggedIn
    /\ account' = NoOne /\ loggedIn' = FALSE
    /\ page' = Closed /\ call' = PageGone
    /\ UNCHANGED <<users, saves, profile, history>>

Leave ==
    /\ page # Closed
    /\ page' = Closed /\ call' = PageGone
    /\ UNCHANGED <<users, saves, account, loggedIn, profile, history>>

\* The tab is loaded anew: its store starts empty.
LoadPage ==
    /\ loggedIn' = (account # NoOne) /\ profile' = NoProfile
    /\ page' = Closed /\ call' = TabGone
    /\ UNCHANGED <<users, saves, account, history>>

\* Another tab logs in or out, which changes the token of this tab's requests.
OtherTab(a) ==
    /\ account' = a
    /\ UNCHANGED <<users, saves, loggedIn, profile, page, call, history>>

\* The page is opened: an empty form, and load is called.
OpenPage(c) ==
    /\ page = Closed /\ loggedIn /\ call[c] = Idle
    /\ page' = [open |-> TRUE, first |-> profile, session |-> account, filled |-> FALSE]
    /\ call' = [call EXCEPT ![c] = [op |-> "load", of |-> account, hearer |-> "page",
                                    step |-> "asked", row |-> Blank, sent |-> Blank]]
    /\ UNCHANGED <<users, saves, account, loggedIn, profile, history>>

\* What the form may hold: what it was given, as far as the holder of the
\* session the page was opened in, or whoever opened it without one, has not
\* typed over it.
Given == IF page.filled THEN page.first.row ELSE Blank
Forms == {r \in Row : \A f \in Field :
              r[f] \in Own(page.session) \cup {NoText, Given[f]} \/ page.session = NoOne}

\* onFinish: what the form holds goes out under the token of the moment; under
\* none it does not matter what.
Submit(c) ==
    /\ page # Closed /\ call[c] = Idle
    /\ saves < MaxSave /\ saves' = saves + 1
    /\ \E r \in IF account = NoOne THEN {Blank} ELSE Forms :
          call' = [call EXCEPT ![c] = [op |-> "save", of |-> account, hearer |-> "store",
                                       step |-> "asked", row |-> Blank, sent |-> r]]
    /\ exposed' = IF page.first.of \in {NoOne, account} /\ page.session = account
                  THEN exposed ELSE exposed \cup ({account} \ {NoOne})
    /\ UNCHANGED <<users, tab, overtaken>>

\* The account's holder changes one field on another device.
SubmitElsewhere(c, a, f, x) ==
    /\ call[c] = Idle /\ x \in Own(a)
    /\ saves < MaxSave /\ saves' = saves + 1
    /\ call' = [call EXCEPT ![c] = [op |-> "save", of |-> a, hearer |-> "nobody",
                                    step |-> "asked", row |-> Blank,
                                    sent |-> [Blank EXCEPT ![f] = x]]]
    /\ UNCHANGED <<users, tab, history>>

-----------------------------------------------------------------------------
(* The server. *)

At(c, op, step) == call[c].op = op /\ call[c].step = step

\* The server answers with a row.
Answers(c, row) ==
    call' = [call EXCEPT ![c] = IF @.hearer = "nobody" THEN Idle
                                ELSE [@ EXCEPT !.step = "done", !.row = row, !.sent = Blank]]

\* GET /users/me.
GetProfile(c) ==
    /\ At(c, "load", "asked") /\ call[c].of # NoOne
    /\ Answers(c, users[call[c].of])
    /\ UNCHANGED <<users, saves, tab, history>>

\* UpdateProfile reads the row.
UpdateFind(c) ==
    /\ At(c, "save", "asked") /\ call[c].of # NoOne
    /\ call' = [call EXCEPT ![c].step = "found", ![c].row = users[call[c].of]]
    /\ overtaken' = overtaken \ {c}
    /\ UNCHANGED <<users, saves, tab, exposed>>

Others(c) == {d \in Call \ {c} : At(d, "save", "found") /\ call[d].of = call[c].of}

\* Deliberately wrong: an empty field is written too.
MergedWithEmpty(row, sent) == sent

\* Fields that are not empty replace the row's.
Merged(row, sent) == [f \in Field |-> IF sent[f] = NoText THEN row[f] ELSE sent[f]]

\* Deliberately wrong: the row saved is the one of the session of the moment.
UpdateSaveSession(c) ==
    /\ At(c, "save", "found") /\ account # NoOne
    /\ LET row == Merged(call[c].row, call[c].sent) IN
          /\ users' = [users EXCEPT ![account] = row]
          /\ Answers(c, row)
    /\ overtaken' = (overtaken \cup Others(c)) \ {c}
    /\ UNCHANGED <<saves, tab, exposed>>

\* Then it saves the whole row, as read but for the fields that were sent.
UpdateSave(c) ==
    /\ At(c, "save", "found")
    /\ LET row == Merged(call[c].row, call[c].sent) IN
          /\ users' = [users EXCEPT ![call[c].of] = row]
          /\ Answers(c, row)
    /\ overtaken' = (overtaken \cup Others(c)) \ {c}
    /\ UNCHANGED <<saves, tab, exposed>>

Ends(c) == call' = [call EXCEPT ![c] = Idle]

\* No token, or an expired one: 401, and a tab that hears it drops the token
\* in localStorage, whichever it is.
Refuse(c) ==
    /\ call[c] # Idle /\ call[c].step = "asked"
    /\ account' = IF call[c].hearer = "nobody" THEN account ELSE NoOne
    /\ Ends(c)
    /\ UNCHANGED <<users, saves, loggedIn, profile, page, history>>

\* The database, the network or the request's 15 seconds: nobody hears of it,
\* and what the server has begun it may still end.
LoseAnswer(c) ==
    /\ call[c] # Idle
    /\ Ends(c) \/ call' = [call EXCEPT ![c] = Unheard(c)]
    /\ UNCHANGED <<users, saves, tab, history>>

-----------------------------------------------------------------------------
(* The answers. *)

\* load: the store has the new profile, and the form, if it is still there,
\* the values of the one the page was opened with.
HearLoad(c) ==
    /\ At(c, "load", "done")
    /\ profile' = [of |-> call[c].of, row |-> call[c].row]
    /\ page' = IF call[c].hearer = "page" THEN [page EXCEPT !.filled = TRUE] ELSE page
    /\ Ends(c)
    /\ UNCHANGED <<users, saves, account, loggedIn, history>>

\* save: the store has the row as saved.
HearSave(c) ==
    /\ At(c, "save", "done")
    /\ profile' = [of |-> call[c].of, row |-> call[c].row]
    /\ Ends(c)
    /\ UNCHANGED <<users, saves, account, loggedIn, page, history>>

Tab ==
    \/ \E a \in Account : LogIn(a)
    \/ LogOut \/ Leave \/ LoadPage
    \/ \E a \in Account \cup {NoOne} : OtherTab(a)

Request(c) ==
    \/ OpenPage(c) \/ Submit(c)
    \/ \E a \in Account, f \in Field, x \in Text : SubmitElsewhere(c, a, f, x)
    \/ GetProfile(c) \/ UpdateFind(c) \/ UpdateSave(c)
    \/ Refuse(c) \/ LoseAnswer(c) \/ HearLoad(c) \/ HearSave(c)

Next == Tab \/ \E c \in Call : Request(c)

Spec == Init /\ [][Next]_vars

-----------------------------------------------------------------------------
TypeOK ==
    /\ users \in [Account -> Row]
    /\ account \in Account \cup {NoOne}
    /\ loggedIn \in BOOLEAN
    /\ profile \in Profiles
    /\ page \in {Closed} \cup Open
    /\ call \in [Call -> {Idle} \cup LoadCall \cup SaveCall]
    /\ saves \in 0 .. MaxSave
    /\ exposed \subseteq Account
    /\ overtaken \subseteq Call

\* What goes under account a, if any: its holder typed it, or a is exposed.
Fits(a, row) == a \in exposed \cup {NoOne} \/ \A f \in Field : row[f] \in Own(a) \cup {NoText}

\* What one account's holder typed comes into another's row only by a form
\* whose page was opened on another account's profile or in another session:
\* late answers, lost answers and overlapping saves never carry it there.
ForeignTextOnlyByForm == \A a \in Account : Fits(a, users[a])

\* A nickname, which every account is registered with, cannot be emptied, not
\* even by saves that overlap.
NicknameStays == \A a \in Account : users[a]["nickname"] # NoText

\* Why: whatever is on its way, in the store or was there when the page was
\* opened fits the account it is of, and is empty if it is of none.
CarriedFits ==
    /\ \A p \in {profile} \cup (IF page = Closed THEN {} ELSE {page.first}) :
          Fits(p.of, p.row) /\ (p.of = NoOne => p = NoProfile)
    /\ \A c \in Call : call[c] # Idle =>
          /\ Fits(call[c].of, call[c].row)
          /\ call[c].op = "save" => Fits(call[c].of, call[c].sent)

\* A save that nothing has overtaken still knows the row it is going to write.
FoundIsCurrent ==
    \A c \in Call : call[c] # Idle =>
        /\ call[c].step # "asked" => call[c].of # NoOne
        /\ At(c, "save", "found") =>
              /\ call[c].row["nickname"] # NoText
              /\ c \in overtaken \/ call[c].row = users[call[c].of]

ProfileInv == TypeOK /\ ForeignTextOnlyByForm /\ NicknameStays /\ CarriedFits /\ FoundIsCurrent

\* A save changes only the fields it carries, unless another save of the same
\* account was committed after it had read the row: then it may take the
\* other's change back.
UnsaidChangesOnlyByOverlap ==
    [][\A a \in Account, f \in Field : users'[a][f] # users[a][f] =>
          \E c \in Call : /\ At(c, "save", "found") /\ call[c].of = a /\ call'[c] # call[c]
                          /\ \/ c \in overtaken
                             \/ call[c].sent[f] = users'[a][f] /\ call[c].sent[f] # NoText]_vars
=============================================================================
