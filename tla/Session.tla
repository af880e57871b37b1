------------------------------- MODULE Session -------------------------------
(***************************************************************************)
(* Who is logged in, as one browser tab knows it: the token and the user   *)
(* of stores/authStore.ts, and the token in localStorage that              *)
(* utils/request.ts puts on every request and all tabs share.  Requests    *)
(* overlap and answer in any order; the server (service/user_service.go,   *)
(* util/jwt.go, middleware/auth.go) checks a token when it comes to it.    *)
(***************************************************************************)
EXTENDS Naturals

CONSTANTS
    Id,         \* accounts there are or may be
    SeedId,     \* accounts of the seed
    NoOne,      \* no account
    MaxToken,   \* bound on the tokens issued
    Call        \* requests in flight at once

Token == 1 .. MaxToken
None == 0       \* no token: '' in the store, nothing in localStorage

ASSUME SessionAssumption ==
    /\ SeedId \subseteq Id /\ NoOne \notin Id
    /\ MaxToken \in Nat

VARIABLES
    accounts,   \* accounts in the table users
    owner,      \* owner[t], the account token t was issued to
    expired,    \* tokens past their exp
    local,      \* localStorage gbadopt_token
    token,      \* token of authStore
    user,       \* user of authStore
    call,       \* requests in flight
    byOther     \* history: another tab has written localStorage since this
                \* tab last wrote or read both

server == <<accounts, owner, expired>>
browser == <<local, token, user, byOther>>
vars == <<server, browser, call>>

Idle == [op |-> "idle"]
Result == {"waiting", "ok", "unauthorized", "failed"}
\* A log-in or registration; issued is the token the answer carries.
EntryCall == [op : {"login", "register"}, id : Id, sent : Token \cup {None},
              result : Result, issued : Token \cup {None}]
\* GET /users/me of the page load, or any other request for its account.
ApiCall == [op : {"profile", "other"}, sent : Token \cup {None}, result : Result]

TypeOK ==
    /\ accounts \subseteq Id
    /\ owner \in [Token -> Id \cup {NoOne}]
    /\ expired \subseteq Token
    /\ local \in Token \cup {None}
    /\ token \in Token \cup {None}
    /\ user \in Id \cup {NoOne}
    /\ call \in [Call -> {Idle} \cup EntryCall \cup ApiCall]
    /\ byOther \in BOOLEAN

Init ==
    /\ accounts = SeedId
    /\ owner = [t \in Token |-> NoOne]
    /\ expired = {}
    /\ local = None /\ token = None /\ user = NoOne
    /\ call = [c \in Call |-> Idle]
    /\ byOther = FALSE

Issued(t) == owner[t] # NoOne
\* The token the server issues next.
NextToken(t) == ~Issued(t) /\ \A u \in 1 .. t - 1 : Issued(u)

-----------------------------------------------------------------------------
(* The tab sends. *)

Sends(c, what) == call[c] = Idle /\ call' = [call EXCEPT ![c] = what]

\* The log-in page, which can be opened with or without a session.
SendEntry(c, op, id) ==
    /\ Sends(c, [op |-> op, id |-> id, sent |-> local, result |-> "waiting", issued |-> None])
    /\ UNCHANGED <<server, browser>>

SendOther(c) ==
    /\ Sends(c, [op |-> "other", sent |-> local, result |-> "waiting"])
    /\ UNCHANGED <<server, browser>>

\* Deliberately wrong: the user is kept over a page load.
LoadPageKeepingUser(c) ==
    /\ token' = local /\ byOther' = FALSE
    /\ call' = [d \in Call |-> IF d = c /\ local # None /\ user = NoOne
                               THEN [op |-> "profile", sent |-> local, result |-> "waiting"]
                               ELSE Idle]
    /\ UNCHANGED <<server, local, user>>

\* The page is loaded anew: the store starts from localStorage without a user,
\* which it asks for if there is a token; answers still on their way are lost.
LoadPage(c) ==
    /\ token' = local /\ user' = NoOne /\ byOther' = FALSE
    /\ call' = [d \in Call |-> IF d = c /\ local # None
                               THEN [op |-> "profile", sent |-> local, result |-> "waiting"]
                               ELSE Idle]
    /\ UNCHANGED <<server, local>>

-----------------------------------------------------------------------------
(* The server answers. *)

Waiting(c, ops) == call[c].op \in ops /\ call[c].result = "waiting"
Answers(c, result) == call' = [call EXCEPT ![c].result = result]
Issues(c, t) ==
    /\ NextToken(t)
    /\ owner' = [owner EXCEPT ![t] = call[c].id]
    /\ call' = [call EXCEPT ![c].result = "ok", ![c].issued = t]

\* POST /users/login with the account's password.
LogIn(c, t) ==
    /\ Waiting(c, {"login"}) /\ call[c].id \in accounts
    /\ Issues(c, t)
    /\ UNCHANGED <<accounts, expired, browser>>

\* An unknown name or a wrong password: 401.
LogInRefused(c) ==
    /\ Waiting(c, {"login"})
    /\ Answers(c, "unauthorized")
    /\ UNCHANGED <<server, browser>>

\* POST /users/register: the unique indexes decide.
Register(c, t) ==
    /\ Waiting(c, {"register"}) /\ call[c].id \notin accounts
    /\ accounts' = accounts \cup {call[c].id}
    /\ Issues(c, t)
    /\ UNCHANGED <<expired, browser>>

\* Deliberately wrong: a taken name is answered 401.
RegisterTakenUnauthorized(c) ==
    /\ Waiting(c, {"register"}) /\ call[c].id \in accounts
    /\ Answers(c, "unauthorized")
    /\ UNCHANGED <<server, browser>>

\* 409 for a name that is taken.
RegisterTaken(c) ==
    /\ Waiting(c, {"register"}) /\ call[c].id \in accounts
    /\ Answers(c, "failed")
    /\ UNCHANGED <<server, browser>>

\* Deliberately wrong: a request without a token is served.
AnswerApiUnchecked(c) ==
    /\ Waiting(c, {"profile", "other"})
    /\ Answers(c, IF call[c].sent \in expired THEN "unauthorized" ELSE "ok")
    /\ UNCHANGED <<server, browser>>

\* AuthRequired, then the handler: 401 without a token or with an expired one.
AnswerApi(c) ==
    /\ Waiting(c, {"profile", "other"})
    /\ Answers(c, IF call[c].sent = None \/ call[c].sent \in expired THEN "unauthorized" ELSE "ok")
    /\ UNCHANGED <<server, browser>>

\* A refusal that is not a 401, a server error, the request's 15 seconds or the
\* network: whatever the server has done, the tab gets no answer.
LoseAnswer(c) ==
    /\ call[c] # Idle /\ call[c].result # "failed"
    /\ Answers(c, "failed")
    /\ UNCHANGED <<server, browser>>

Expire(t) ==
    /\ Issued(t) /\ t \notin expired
    /\ expired' = expired \cup {t}
    /\ UNCHANGED <<accounts, owner, browser, call>>

-----------------------------------------------------------------------------
(* The tab hears. *)

Hears(c, ops, result) ==
    /\ call[c].op \in ops /\ call[c].result = result
    /\ call' = [call EXCEPT ![c] = Idle]

\* login and register of the store: storage, token and user together.
HearEntry(c) ==
    /\ Hears(c, {"login", "register"}, "ok")
    /\ local' = call[c].issued /\ token' = call[c].issued /\ user' = call[c].id
    /\ byOther' = FALSE
    /\ UNCHANGED server

\* fetchProfile: the account of the token the request was sent with.
HearProfile(c) ==
    /\ Hears(c, {"profile"}, "ok")
    /\ user' = owner[call[c].sent]
    /\ UNCHANGED <<server, local, token, byOther>>

HearOther(c) ==
    /\ Hears(c, {"other"}, "ok")
    /\ UNCHANGED <<server, browser>>

\* The interceptor: any 401 empties localStorage and the user; the store's
\* token stays.
HearUnauthorized(c) ==
    /\ Hears(c, {"login", "profile", "other", "register"}, "unauthorized")
    /\ local' = None /\ user' = NoOne
    /\ UNCHANGED <<server, token, byOther>>

HearFailure(c) ==
    /\ Hears(c, {"login", "register", "profile", "other"}, "failed")
    /\ UNCHANGED <<server, browser>>

\* Deliberately wrong: localStorage keeps the token.
LogOutStoreOnly ==
    /\ token # None
    /\ token' = None /\ user' = NoOne
    /\ byOther' = FALSE
    /\ UNCHANGED <<server, local, call>>

\* The menu item of the header, shown while the store has a token.
LogOut ==
    /\ token # None
    /\ local' = None /\ token' = None /\ user' = NoOne
    /\ byOther' = FALSE
    /\ UNCHANGED <<server, call>>

-----------------------------------------------------------------------------
\* Another tab logs out or hears a 401, or logs in.
OtherTabClears ==
    /\ local' = None /\ byOther' = TRUE
    /\ UNCHANGED <<server, token, user, call>>

OtherTabLogsIn(t, id) ==
    /\ NextToken(t) /\ id \in accounts
    /\ owner' = [owner EXCEPT ![t] = id]
    /\ local' = t /\ byOther' = TRUE
    /\ UNCHANGED <<accounts, expired, token, user, call>>

Serves(c) ==
    \/ \E t \in Token : LogIn(c, t) \/ Register(c, t)
    \/ LogInRefused(c) \/ RegisterTaken(c) \/ AnswerApi(c)

Next ==
    \/ \E c \in Call :
          \/ \E op \in {"login", "register"}, id \in Id : SendEntry(c, op, id)
          \/ SendOther(c) \/ LoadPage(c)
          \/ Serves(c) \/ LoseAnswer(c)
          \/ HearEntry(c) \/ HearProfile(c) \/ HearOther(c)
          \/ HearUnauthorized(c) \/ HearFailure(c)
    \/ LogOut
    \/ OtherTabClears
    \/ \E t \in Token : Expire(t) \/ \E id \in Id : OtherTabLogsIn(t, id)

Spec == Init /\ [][Next]_vars

-----------------------------------------------------------------------------
\* The user the tab shows is the account its token was issued to.
UserOwnsToken == user # NoOne => token # None /\ owner[token] = user

\* The tab comes to show the wrong user in one way only: a profile asked for
\* under another token answers after the tab has logged out or in again.
WrongUserOnlyByLateProfile ==
    [][UserOwnsToken /\ ~UserOwnsToken' =>
          \E c \in Call : call[c] # Idle /\ call'[c] = Idle
                          /\ call[c].op = "profile" /\ call[c].sent # token]_vars

\* As long as no other tab interferes, a request goes out under the store's
\* token or, after a 401, under none: never under an account left behind.
SendsOwnTokenOrNone == ~byOther => local \in {None, token}

\* A tab that still has a token loses a live one from localStorage only to
\* the answer of a request that did not carry it, or to a refused log-in: the
\* 401 of an older session ends the new one, its own requests do not.
LiveTokenLostToOthers ==
    [][local # None /\ local \notin expired /\ local' = None /\ token' # None /\ ~byOther' =>
          \E c \in Call : call[c] # Idle /\ call'[c] = Idle
                          /\ (call[c].op = "login" \/ call[c].sent # local)]_vars

\* What makes these hold: tokens in use were issued, each to the account its
\* answer is for, and a request is refused or served for the token it carries.
Sound(q) ==
    /\ q.sent # None => Issued(q.sent)
    /\ q.op \in {"login", "register"} /\ q.result = "ok" =>
          q.issued # None /\ owner[q.issued] = q.id
    /\ q.op \in {"profile", "other"} /\ q.result = "ok" => q.sent # None
    /\ q.op # "login" /\ q.result = "unauthorized" => q.sent = None \/ q.sent \in expired

SessionInv ==
    /\ TypeOK
    /\ local # None => Issued(local)
    /\ token # None => Issued(token)
    /\ \A c \in Call : call[c] # Idle => Sound(call[c])
=============================================================================
