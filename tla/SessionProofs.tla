---------------------------- MODULE SessionProofs ----------------------------
(***************************************************************************)
(* The session of a tab, for any number of accounts, tokens and requests   *)
(* in flight: SessionInv is inductive, and from it follows how a tab comes *)
(* to show a wrong user and how it loses a token that is still good.       *)
(***************************************************************************)
EXTENDS Session, TLAPS

\* The kind of a request in flight, told by its operation.
LEMMA CallKinds ==
    ASSUME TypeOK, NEW c \in Call
    PROVE  /\ call[c] = Idle <=> call[c].op = "idle"
           /\ call[c].op \in {"login", "register"} => call[c] \in EntryCall
           /\ call[c].op \in {"profile", "other"} => call[c] \in ApiCall
           /\ call[c] # Idle => call[c] \in EntryCall \cup ApiCall
BY DEF TypeOK, Idle, EntryCall, ApiCall

\* An answer changes the result and nothing else of a request.
LEMMA EntryAnswered ==
    ASSUME NEW q \in EntryCall, NEW result \in Result
    PROVE  /\ [q EXCEPT !.result = result] \in EntryCall
           /\ [q EXCEPT !.result = result].op = q.op
           /\ [q EXCEPT !.result = result].sent = q.sent
           /\ [q EXCEPT !.result = result].id = q.id
           /\ [q EXCEPT !.result = result].issued = q.issued
           /\ [q EXCEPT !.result = result].result = result
BY DEF EntryCall

LEMMA EntryIssued ==
    ASSUME NEW q \in EntryCall, NEW t \in Token
    PROVE  /\ [q EXCEPT !.result = "ok", !.issued = t] \in EntryCall
           /\ [q EXCEPT !.result = "ok", !.issued = t].op = q.op
           /\ [q EXCEPT !.result = "ok", !.issued = t].sent = q.sent
           /\ [q EXCEPT !.result = "ok", !.issued = t].id = q.id
           /\ [q EXCEPT !.result = "ok", !.issued = t].issued = t
           /\ [q EXCEPT !.result = "ok", !.issued = t].result = "ok"
BY DEF EntryCall, Result

LEMMA ApiAnswered ==
    ASSUME NEW q \in ApiCall, NEW result \in Result
    PROVE  /\ [q EXCEPT !.result = result] \in ApiCall
           /\ [q EXCEPT !.result = result].op = q.op
           /\ [q EXCEPT !.result = result].sent = q.sent
           /\ [q EXCEPT !.result = result].result = result
BY DEF ApiCall

\* What Sound says of a request once the server has moved on to owner' and
\* expired'.
SoundNext(q) ==
    /\ q.sent # None => owner'[q.sent] # NoOne
    /\ q.op \in {"login", "register"} /\ q.result = "ok" =>
          q.issued # None /\ owner'[q.issued] = q.id
    /\ q.op \in {"profile", "other"} /\ q.result = "ok" => q.sent # None
    /\ q.op # "login" /\ q.result = "unauthorized" => q.sent = None \/ q.sent \in expired'

\* The server forgets no token and revives none.
ServerGrows ==
    /\ accounts' \subseteq Id
    /\ owner' \in [Token -> Id \cup {NoOne}]
    /\ \A t \in Token : Issued(t) => owner'[t] = owner[t]
    /\ expired \subseteq expired' /\ expired' \subseteq Token

LEMMA StaysSound ==
    ASSUME SessionInv, ServerGrows, NEW c \in Call, call[c] # Idle
    PROVE  SoundNext(call[c])
<1>1. call[c] \in EntryCall \cup ApiCall /\ Sound(call[c])
  BY CallKinds DEF SessionInv
<1>2. CASE call[c] \in EntryCall
  <2>1. call[c].sent # None => call[c].sent \in Token
    BY <1>2 DEF EntryCall
  <2>2. call[c].issued # None => call[c].issued \in Token
    BY <1>2 DEF EntryCall
  <2>3. call[c].op \in {"login", "register"} /\ call[c].id \in Id
    BY <1>2 DEF EntryCall
  <2>. QED
    BY <1>1, <2>1, <2>2, <2>3, SessionAssumption DEF Sound, SoundNext, ServerGrows, Issued
<1>3. CASE call[c] \in ApiCall
  <2>1. call[c].sent # None => call[c].sent \in Token
    BY <1>3 DEF ApiCall
  <2>2. call[c].op \in {"profile", "other"}
    BY <1>3 DEF ApiCall
  <2>. QED
    BY <1>1, <2>1, <2>2 DEF Sound, SoundNext, ServerGrows, Issued
<1>. QED
  BY <1>1, <1>2, <1>3

\* A step that leaves the browser alone or moves it to issued tokens, and
\* puts sound requests into its slots, keeps the invariant.
LEMMA CallsStep ==
    ASSUME SessionInv, ServerGrows,
           local' \in Token \cup {None}, token' \in Token \cup {None},
           local' # None => owner'[local'] # NoOne,
           token' # None => owner'[token'] # NoOne,
           user' \in Id \cup {NoOne}, byOther' \in BOOLEAN,
           call' \in [Call -> {Idle} \cup EntryCall \cup ApiCall],
           \A c \in Call : call'[c] # Idle => SoundNext(call'[c])
    PROVE  SessionInv'
<1>1. TypeOK'
  BY DEF TypeOK, ServerGrows
<1>2. \A c \in Call : call'[c] # Idle => Sound(call[c])'
  BY DEF Sound, SoundNext, Issued
<1>. QED
  BY <1>1, <1>2 DEF SessionInv, Issued

\* The same for a step on one slot.
LEMMA SlotStep ==
    ASSUME SessionInv, ServerGrows,
           local' \in Token \cup {None}, token' \in Token \cup {None},
           local' # None => owner'[local'] # NoOne,
           token' # None => owner'[token'] # NoOne,
           user' \in Id \cup {NoOne}, byOther' \in BOOLEAN,
           NEW c \in Call, NEW q \in {Idle} \cup EntryCall \cup ApiCall,
           q # Idle => SoundNext(q),
           call' = [call EXCEPT ![c] = q]
    PROVE  SessionInv'
<1>1. call \in [Call -> {Idle} \cup EntryCall \cup ApiCall]
  BY DEF SessionInv, TypeOK
<1>2. call' \in [Call -> {Idle} \cup EntryCall \cup ApiCall]
  BY <1>1
<1>3. ASSUME NEW d \in Call, call'[d] # Idle PROVE SoundNext(call'[d])
  <2>1. CASE d = c
    BY <1>1, <1>3, <2>1
  <2>2. CASE d # c
    BY <1>1, <1>3, <2>2, StaysSound
  <2>. QED
    BY <2>1, <2>2
<1>. QED
  BY <1>2, <1>3, CallsStep

\* A server that does nothing grows; a browser that does nothing still holds
\* issued tokens.
LEMMA ServerRests ==
    ASSUME SessionInv, UNCHANGED server
    PROVE  ServerGrows
BY DEF SessionInv, TypeOK, ServerGrows, server

LEMMA BrowserRests ==
    ASSUME SessionInv, ServerGrows, UNCHANGED browser
    PROVE  /\ local' \in Token \cup {None} /\ token' \in Token \cup {None}
           /\ local' # None => owner'[local'] # NoOne
           /\ token' # None => owner'[token'] # NoOne
           /\ user' \in Id \cup {NoOne} /\ byOther' \in BOOLEAN
<1>1. /\ local' = local /\ token' = token /\ user' = user /\ byOther' = byOther
  BY DEF browser
<1>2. /\ local \in Token \cup {None} /\ token \in Token \cup {None}
      /\ user \in Id \cup {NoOne} /\ byOther \in BOOLEAN
      /\ local # None => Issued(local)
      /\ token # None => Issued(token)
  BY DEF SessionInv, TypeOK
<1>. QED
  BY <1>1, <1>2 DEF ServerGrows, Issued

-----------------------------------------------------------------------------
(* One lemma per kind of step. *)

LEMMA InitInv == Init => SessionInv
BY SessionAssumption DEF Init, SessionInv, TypeOK, Idle

\* A request just sent claims nothing but its token.
LEMMA SentApi ==
    ASSUME NEW tok \in Token \cup {None}, tok # None => owner'[tok] # NoOne,
           NEW op \in {"profile", "other"}
    PROVE  /\ [op |-> op, sent |-> tok, result |-> "waiting"] \in ApiCall
           /\ SoundNext([op |-> op, sent |-> tok, result |-> "waiting"])
BY DEF ApiCall, Result, SoundNext

LEMMA SentEntry ==
    ASSUME NEW tok \in Token \cup {None}, tok # None => owner'[tok] # NoOne,
           NEW op \in {"login", "register"}, NEW id \in Id
    PROVE  /\ [op |-> op, id |-> id, sent |-> tok, result |-> "waiting", issued |-> None] \in EntryCall
           /\ SoundNext([op |-> op, id |-> id, sent |-> tok, result |-> "waiting", issued |-> None])
BY DEF EntryCall, Result, SoundNext

LEMMA SendStep ==
    ASSUME SessionInv, NEW c \in Call,
           \/ SendOther(c)
           \/ \E op \in {"login", "register"}, id \in Id : SendEntry(c, op, id)
    PROVE  SessionInv'
<1>1. UNCHANGED <<server, browser>>
  BY DEF SendOther, SendEntry
<1>2. ServerGrows
  BY <1>1, ServerRests
<1>3. /\ local \in Token \cup {None}
      /\ local # None => Issued(local)
      /\ owner' = owner
  BY <1>1 DEF SessionInv, TypeOK, server
<1>4. local \in Token \cup {None} /\ (local # None => owner'[local] # NoOne)
  BY <1>3 DEF Issued
<1>5. CASE SendOther(c)
  <2>. DEFINE q == [op |-> "other", sent |-> local, result |-> "waiting"]
  <2>1. q \in ApiCall /\ SoundNext(q)
    BY <1>4, SentApi
  <2>2. call' = [call EXCEPT ![c] = q]
    BY <1>5 DEF SendOther, Sends
  <2>. HIDE DEF q
  <2>. QED
    BY <1>1, <1>2, <2>1, <2>2, BrowserRests, SlotStep
<1>6. ASSUME NEW op \in {"login", "register"}, NEW id \in Id, SendEntry(c, op, id)
      PROVE  SessionInv'
  <2>. DEFINE q == [op |-> op, id |-> id, sent |-> local, result |-> "waiting", issued |-> None]
  <2>1. q \in EntryCall /\ SoundNext(q)
    BY <1>4, SentEntry
  <2>2. call' = [call EXCEPT ![c] = q]
    BY <1>6 DEF SendEntry, Sends
  <2>. HIDE DEF q
  <2>. QED
    BY <1>1, <1>2, <2>1, <2>2, BrowserRests, SlotStep
<1>. QED
  BY <1>5, <1>6

LEMMA LoadStep ==
    ASSUME SessionInv, NEW c \in Call, LoadPage(c)
    PROVE  SessionInv'
<1>1. ServerGrows
  BY ServerRests DEF LoadPage, server
<1>2. /\ local' = local /\ token' = local /\ user' = NoOne /\ byOther' = FALSE
      /\ owner' = owner
      /\ local \in Token \cup {None}
      /\ local # None => Issued(local)
  BY DEF LoadPage, server, SessionInv, TypeOK
<1>. DEFINE q == [op |-> "profile", sent |-> local, result |-> "waiting"]
<1>3. q \in ApiCall /\ SoundNext(q)
  BY <1>2 DEF ApiCall, Result, SoundNext, Issued
<1>4. call' = [d \in Call |-> IF d = c /\ local # None THEN q ELSE Idle]
  BY DEF LoadPage
<1>. HIDE DEF q
<1>5. /\ call' \in [Call -> {Idle} \cup EntryCall \cup ApiCall]
      /\ \A d \in Call : call'[d] # Idle => SoundNext(call'[d])
  BY <1>3, <1>4
<1>. QED
  BY <1>1, <1>2, <1>5, CallsStep DEF Issued

\* An answer that is no token: refusals, API answers, lost answers.
LEMMA AnswerStep ==
    ASSUME SessionInv, NEW c \in Call,
           LogInRefused(c) \/ RegisterTaken(c) \/ AnswerApi(c) \/ LoseAnswer(c)
    PROVE  SessionInv'
<1>1. UNCHANGED <<server, browser>>
  BY DEF LogInRefused, RegisterTaken, AnswerApi, LoseAnswer
<1>2. ServerGrows
  BY <1>1, ServerRests
<1>3. /\ TypeOK /\ call[c] # Idle
      /\ call \in [Call -> {Idle} \cup EntryCall \cup ApiCall]
  BY DEF SessionInv, TypeOK, LogInRefused, RegisterTaken, AnswerApi, LoseAnswer, Waiting, Idle
<1>4. PICK result \in Result :
         /\ call' = [call EXCEPT ![c].result = result]
         /\ result = "ok" => call[c].op \in {"profile", "other"} /\ call[c].sent # None
         /\ result = "unauthorized" =>
               \/ call[c].op = "login"
               \/ call[c].sent = None \/ call[c].sent \in expired
  BY DEF LogInRefused, RegisterTaken, AnswerApi, LoseAnswer, Answers, Waiting, Result
<1>. DEFINE q == [call[c] EXCEPT !.result = result]
<1>5. call' = [call EXCEPT ![c] = q]
  BY <1>4
<1>6. /\ q \in EntryCall \cup ApiCall
      /\ q.op = call[c].op /\ q.sent = call[c].sent /\ q.result = result
      /\ call[c] \in EntryCall => q.op \in {"login", "register"}
      /\ call[c] \in ApiCall => q.op \in {"profile", "other"}
  <2>1. CASE call[c] \in EntryCall
    BY <2>1, EntryAnswered DEF EntryCall, ApiCall
  <2>2. CASE call[c] \in ApiCall
    BY <2>2, ApiAnswered DEF EntryCall, ApiCall
  <2>. QED
    BY <1>3, <2>1, <2>2, CallKinds
<1>. HIDE DEF q
<1>7. SoundNext(call[c]) /\ expired' = expired
  BY <1>1, <1>2, <1>3, StaysSound DEF server
<1>8. SoundNext(q)
  BY <1>4, <1>6, <1>7 DEF SoundNext
<1>. QED
  BY <1>1, <1>2, <1>5, <1>6, <1>8, BrowserRests, SlotStep

\* A token handed out by a log-in or a registration.
LEMMA IssueStep ==
    ASSUME SessionInv, NEW c \in Call, NEW t \in Token, LogIn(c, t) \/ Register(c, t)
    PROVE  SessionInv'
<1>1. /\ UNCHANGED <<expired, browser>>
      /\ call[c].op \in {"login", "register"}
      /\ NextToken(t)
      /\ owner' = [owner EXCEPT ![t] = call[c].id]
      /\ call' = [call EXCEPT ![c].result = "ok", ![c].issued = t]
  BY DEF LogIn, Register, Issues, Waiting
<1>2. /\ TypeOK /\ call \in [Call -> {Idle} \cup EntryCall \cup ApiCall]
      /\ owner \in [Token -> Id \cup {NoOne}] /\ accounts \subseteq Id /\ expired \subseteq Token
  BY DEF SessionInv, TypeOK
<1>3. call[c] \in EntryCall /\ call[c].id \in Id /\ call[c] # Idle
  BY <1>1, <1>2, CallKinds DEF EntryCall, Idle
<1>4. accounts' \subseteq Id
  BY <1>2, <1>3 DEF LogIn, Register
<1>5. ServerGrows
  BY <1>1, <1>2, <1>3, <1>4, SessionAssumption DEF ServerGrows, NextToken, Issued, browser
<1>. DEFINE q == [call[c] EXCEPT !.result = "ok", !.issued = t]
<1>6. call' = [call EXCEPT ![c] = q]
  BY <1>1, <1>2
<1>7. /\ q \in EntryCall /\ q.op = call[c].op /\ q.sent = call[c].sent
      /\ q.id = call[c].id /\ q.issued = t /\ q.result = "ok"
  BY <1>3, EntryIssued
<1>. HIDE DEF q
<1>8. SoundNext(q)
  <2>1. call[c].sent # None => owner'[call[c].sent] # NoOne
    BY <1>3, <1>5, StaysSound DEF SoundNext
  <2>2. t # None /\ owner'[t] = call[c].id
    BY <1>1, <1>2 DEF Token, None
  <2>. QED
    BY <1>1, <1>7, <2>1, <2>2 DEF SoundNext
<1>. QED
  BY <1>1, <1>5, <1>6, <1>7, <1>8, BrowserRests, SlotStep

\* The tab hears an answer: only a log-in or a registration brings a token,
\* and that one was issued to the account they name.
LEMMA HearStep ==
    ASSUME SessionInv, NEW c \in Call,
           \/ HearEntry(c) \/ HearProfile(c) \/ HearOther(c)
           \/ HearUnauthorized(c) \/ HearFailure(c)
    PROVE  SessionInv'
<1>1. UNCHANGED server /\ call' = [call EXCEPT ![c] = Idle]
  BY DEF HearEntry, HearProfile, HearOther, HearUnauthorized, HearFailure, Hears, browser
<1>2. ServerGrows /\ owner' = owner
  BY <1>1, ServerRests DEF server
<1>3. /\ TypeOK /\ owner \in [Token -> Id \cup {NoOne}]
      /\ local \in Token \cup {None} /\ token \in Token \cup {None}
      /\ user \in Id \cup {NoOne} /\ byOther \in BOOLEAN
      /\ local # None => Issued(local)
      /\ token # None => Issued(token)
  BY DEF SessionInv, TypeOK
<1>4. /\ local' \in Token \cup {None} /\ token' \in Token \cup {None}
      /\ local' # None => Issued(local')
      /\ token' # None => Issued(token')
      /\ user' \in Id \cup {NoOne} /\ byOther' \in BOOLEAN
  <2>1. CASE HearEntry(c)
    <3>1. call[c].op \in {"login", "register"} /\ call[c].result = "ok"
      BY <2>1 DEF HearEntry, Hears
    <3>2. call[c] \in EntryCall /\ call[c] # Idle
      BY <1>3, <3>1, CallKinds DEF Idle
    <3>3. /\ call[c].issued \in Token /\ call[c].id \in Id
          /\ owner[call[c].issued] = call[c].id
      BY <3>1, <3>2 DEF EntryCall, SessionInv, Sound
    <3>. QED
      BY <2>1, <3>3, SessionAssumption DEF HearEntry, Issued
  <2>2. CASE HearProfile(c)
    <3>1. call[c].op = "profile" /\ call[c].result = "ok"
      BY <2>2 DEF HearProfile, Hears
    <3>2. call[c] \in ApiCall /\ call[c] # Idle
      BY <1>3, <3>1, CallKinds DEF Idle
    <3>3. call[c].sent \in Token
      BY <3>1, <3>2 DEF ApiCall, SessionInv, Sound
    <3>. QED
      BY <1>3, <2>2, <3>3 DEF HearProfile
  <2>3. CASE HearOther(c) \/ HearFailure(c)
    BY <1>3, <2>3 DEF HearOther, HearFailure, browser
  <2>4. CASE HearUnauthorized(c)
    BY <1>3, <2>4 DEF HearUnauthorized
  <2>. QED
    BY <2>1, <2>2, <2>3, <2>4
<1>. QED
  BY <1>1, <1>2, <1>4, SlotStep DEF Issued

LEMMA TabStep ==
    ASSUME SessionInv, LogOut \/ OtherTabClears
    PROVE  SessionInv'
<1>1. UNCHANGED <<server, call>>
  BY DEF LogOut, OtherTabClears
<1>2. ServerGrows /\ owner' = owner
  BY <1>1, ServerRests DEF server
<1>3. /\ token \in Token \cup {None} /\ user \in Id \cup {NoOne}
      /\ token # None => Issued(token)
  BY DEF SessionInv, TypeOK
<1>4. /\ local' = None /\ byOther' \in BOOLEAN
      /\ token' \in Token \cup {None} /\ user' \in Id \cup {NoOne}
      /\ token' # None => owner'[token'] # NoOne
  BY <1>2, <1>3 DEF LogOut, OtherTabClears, Issued
<1>5. /\ call' \in [Call -> {Idle} \cup EntryCall \cup ApiCall]
      /\ \A c \in Call : call'[c] # Idle => SoundNext(call'[c])
  <2>1. call' = call
    BY <1>1
  <2>2. call \in [Call -> {Idle} \cup EntryCall \cup ApiCall]
    BY DEF SessionInv, TypeOK
  <2>. QED
    BY <1>2, <2>1, <2>2, StaysSound
<1>. QED
  BY <1>2, <1>4, <1>5, CallsStep

LEMMA ExpireStep ==
    ASSUME SessionInv, NEW t \in Token, Expire(t)
    PROVE  SessionInv'
<1>1. UNCHANGED <<accounts, owner, browser, call>> /\ expired' = expired \cup {t}
  BY DEF Expire
<1>2. ServerGrows
  BY <1>1 DEF SessionInv, TypeOK, ServerGrows
<1>3. /\ call' \in [Call -> {Idle} \cup EntryCall \cup ApiCall]
      /\ \A c \in Call : call'[c] # Idle => SoundNext(call'[c])
  <2>1. call \in [Call -> {Idle} \cup EntryCall \cup ApiCall] /\ call' = call
    BY <1>1 DEF SessionInv, TypeOK
  <2>. QED
    BY <1>2, <2>1, StaysSound
<1>. QED
  BY <1>1, <1>2, <1>3, BrowserRests, CallsStep

LEMMA OtherLogInStep ==
    ASSUME SessionInv, NEW t \in Token, NEW id \in Id, OtherTabLogsIn(t, id)
    PROVE  SessionInv'
<1>1. /\ UNCHANGED <<accounts, expired, token, user, call>>
      /\ owner' = [owner EXCEPT ![t] = id] /\ local' = t /\ byOther' = TRUE
      /\ NextToken(t)
  BY DEF OtherTabLogsIn
<1>2. /\ owner \in [Token -> Id \cup {NoOne}] /\ accounts \subseteq Id /\ expired \subseteq Token
      /\ token \in Token \cup {None} /\ user \in Id \cup {NoOne}
      /\ token # None => Issued(token)
      /\ call \in [Call -> {Idle} \cup EntryCall \cup ApiCall]
  BY DEF SessionInv, TypeOK
<1>3. ServerGrows
  BY <1>1, <1>2 DEF ServerGrows, NextToken, Issued
<1>4. /\ local' \in Token \cup {None}
      /\ owner'[local'] # NoOne
      /\ token' \in Token \cup {None}
      /\ token' # None => owner'[token'] # NoOne
      /\ user' \in Id \cup {NoOne} /\ byOther' \in BOOLEAN
  BY <1>1, <1>2, <1>3, SessionAssumption DEF ServerGrows, Issued
<1>5. \A c \in Call : call'[c] # Idle => SoundNext(call'[c])
  BY <1>1, <1>3, StaysSound
<1>. QED
  BY <1>1, <1>2, <1>3, <1>4, <1>5, CallsStep

LEMMA SessionStep == SessionInv /\ [Next]_vars => SessionInv'
<1>. SUFFICES ASSUME SessionInv, [Next]_vars PROVE SessionInv'
  OBVIOUS
<1>1. ASSUME NEW c \in Call,
             \/ \E op \in {"login", "register"}, id \in Id : SendEntry(c, op, id)
             \/ SendOther(c)
      PROVE  SessionInv'
  BY <1>1, SendStep
<1>2. ASSUME NEW c \in Call, LoadPage(c) PROVE SessionInv'
  BY <1>2, LoadStep
<1>3. ASSUME NEW c \in Call, Serves(c) \/ LoseAnswer(c) PROVE SessionInv'
  BY <1>3, AnswerStep, IssueStep DEF Serves
<1>4. ASSUME NEW c \in Call,
             \/ HearEntry(c) \/ HearProfile(c) \/ HearOther(c)
             \/ HearUnauthorized(c) \/ HearFailure(c)
      PROVE  SessionInv'
  BY <1>4, HearStep
<1>5. ASSUME NEW t \in Token, Expire(t) \/ \E id \in Id : OtherTabLogsIn(t, id)
      PROVE  SessionInv'
  BY <1>5, ExpireStep, OtherLogInStep
<1>6. CASE LogOut \/ OtherTabClears
  BY <1>6, TabStep
<1>7. CASE UNCHANGED vars
  BY <1>7 DEF vars, server, browser, SessionInv, TypeOK, Sound, Issued
<1>. QED
  BY <1>1, <1>2, <1>3, <1>4, <1>5, <1>6, <1>7 DEF Next

\* Every token in use was issued to the account it is used for, however
\* requests overlap and whatever other tabs do.
THEOREM SessionInvariant == Spec => []SessionInv
<1>. QED
  BY InitInv, SessionStep, PTL DEF Spec

-----------------------------------------------------------------------------
\* A request goes out under the store's token or under none, as long as no
\* other tab writes localStorage.
THEOREM SendsOwn == Spec => []SendsOwnTokenOrNone
<1>1. Init => SendsOwnTokenOrNone
  BY DEF Init, SendsOwnTokenOrNone
<1>2. SendsOwnTokenOrNone /\ [Next]_vars => SendsOwnTokenOrNone'
  BY DEF SendsOwnTokenOrNone, Next, vars, server, browser, Serves, SendEntry, SendOther, LoadPage,
         LogIn, LogInRefused, Register, RegisterTaken, AnswerApi, LoseAnswer, Expire, HearEntry,
         HearProfile, HearOther, HearUnauthorized, HearFailure, LogOut, OtherTabClears, OtherTabLogsIn
<1>. QED
  BY <1>1, <1>2, PTL DEF Spec

-----------------------------------------------------------------------------
\* The wrong user comes to be shown only by a profile that was asked for under
\* another token than the store's.
LEMMA WrongUserStep ==
    ASSUME SessionInv, [Next]_vars, UserOwnsToken, ~UserOwnsToken'
    PROVE  \E c \in Call : /\ call[c] # Idle /\ call'[c] = Idle
                           /\ call[c].op = "profile" /\ call[c].sent # token
<1>1. token # None => Issued(token)
  BY DEF SessionInv
<1>2. ASSUME UNCHANGED <<token, user>>, \A t \in Token : Issued(t) => owner'[t] = owner[t]
      PROVE  FALSE
  BY <1>1, <1>2 DEF UserOwnsToken, SessionInv, TypeOK
<1>3. user' # NoOne
  BY DEF UserOwnsToken
<1>4. ASSUME NEW c \in Call, HearEntry(c) PROVE FALSE
  <2>1. call[c] # Idle /\ Sound(call[c])
    BY <1>4, CallKinds DEF HearEntry, Hears, SessionInv
  <2>. QED
    BY <1>4, <2>1 DEF HearEntry, Hears, Sound, UserOwnsToken, server
<1>5. ASSUME NEW c \in Call, HearProfile(c)
      PROVE  \E d \in Call : /\ call[d] # Idle /\ call'[d] = Idle
                             /\ call[d].op = "profile" /\ call[d].sent # token
  <2>1. call[c] # Idle /\ Sound(call[c]) /\ call[c].op = "profile" /\ call'[c] = Idle
    BY <1>5, CallKinds DEF HearProfile, Hears, SessionInv, TypeOK
  <2>2. call[c].sent # token
    BY <1>5, <2>1 DEF HearProfile, Hears, Sound, UserOwnsToken, server
  <2>. QED
    BY <2>1, <2>2
<1>6. ASSUME NEW c \in Call, Serves(c) PROVE FALSE
  BY <1>2, <1>6 DEF Serves, LogIn, Register, Issues, NextToken, LogInRefused, RegisterTaken, AnswerApi,
     server, browser, Issued, SessionInv, TypeOK
<1>7. ASSUME NEW t \in Token, NEW id \in Id, OtherTabLogsIn(t, id) PROVE FALSE
  BY <1>2, <1>7 DEF OtherTabLogsIn, NextToken, Issued, SessionInv, TypeOK
<1>. QED
  BY <1>2, <1>3, <1>4, <1>5, <1>6, <1>7
     DEF Next, vars, server, browser, SendEntry, SendOther, LoadPage, LoseAnswer, Expire,
         HearOther, HearUnauthorized, HearFailure, LogOut, OtherTabClears

\* A live token is lost only to a 401 that was not for it, or a refused log-in.
LEMMA LostTokenStep ==
    ASSUME SessionInv, [Next]_vars, local # None, local \notin expired,
           local' = None, token' # None, ~byOther'
    PROVE  \E c \in Call : /\ call[c] # Idle /\ call'[c] = Idle
                           /\ (call[c].op = "login" \/ call[c].sent # local)
<1>1. ASSUME NEW c \in Call, HearUnauthorized(c)
      PROVE  \E d \in Call : /\ call[d] # Idle /\ call'[d] = Idle
                             /\ (call[d].op = "login" \/ call[d].sent # local)
  <2>1. call[c] # Idle /\ Sound(call[c]) /\ call'[c] = Idle /\ call[c].result = "unauthorized"
    BY <1>1, CallKinds DEF HearUnauthorized, Hears, SessionInv, TypeOK
  <2>2. call[c].op = "login" \/ call[c].sent # local
    BY <2>1 DEF Sound
  <2>. QED
    BY <2>1, <2>2
<1>2. ASSUME NEW c \in Call, HearEntry(c) PROVE FALSE
  <2>1. call[c] # Idle /\ Sound(call[c])
    BY <1>2, CallKinds DEF HearEntry, Hears, SessionInv
  <2>. QED
    BY <1>2, <2>1 DEF HearEntry, Hears, Sound
<1>. QED
  BY <1>1, <1>2
     DEF Next, Serves, vars, server, browser, SendEntry, SendOther, LoadPage, LogIn, LogInRefused,
         Register, RegisterTaken, AnswerApi, LoseAnswer, Expire, HearProfile, HearOther, HearFailure,
         LogOut, OtherTabClears, OtherTabLogsIn

\* The tab comes to show the wrong user only by a profile that answers after it
\* has logged out or in again.
THEOREM WrongUserByLateProfile == Spec => WrongUserOnlyByLateProfile
<1>1. SessionInv /\ [Next]_vars =>
         [UserOwnsToken /\ ~UserOwnsToken' =>
             \E c \in Call : call[c] # Idle /\ call'[c] = Idle
                             /\ call[c].op = "profile" /\ call[c].sent # token]_vars
  BY WrongUserStep
<1>. QED
  BY <1>1, SessionInvariant, PTL DEF Spec, WrongUserOnlyByLateProfile

\* The 401 interceptor takes a live token from a tab only for a request that did
\* not carry it, or for a refused log-in.
THEOREM LostToOthers == Spec => LiveTokenLostToOthers
<1>1. SessionInv /\ [Next]_vars =>
         [local # None /\ local \notin expired /\ local' = None /\ token' # None /\ ~byOther' =>
             \E c \in Call : call[c] # Idle /\ call'[c] = Idle
                             /\ (call[c].op = "login" \/ call[c].sent # local)]_vars
  BY LostTokenStep
<1>. QED
  BY <1>1, SessionInvariant, PTL DEF Spec, LiveTokenLostToOthers
=============================================================================
