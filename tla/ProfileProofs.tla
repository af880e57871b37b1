---------------------------- MODULE ProfileProofs ----------------------------
(***************************************************************************)
(* The profiles, for any accounts, texts and number of requests under way: *)
(* ProfileInv is inductive, and a save that nothing has overtaken changes  *)
(* only what it carries.                                                   *)
(***************************************************************************)
EXTENDS Profile, TLAPS

Calls == LoadCall \cup SaveCall

LEMMA Kinds ==
    ASSUME TypeOK, NEW c \in Call
    PROVE  /\ call[c] # Idle <=> call[c] \in Calls
           /\ call[c].op \in {"idle", "load", "save"}
           /\ call[c].op = "load" <=> call[c] \in LoadCall
           /\ call[c].op = "save" <=> call[c] \in SaveCall
           /\ call[c].op = "idle" <=> call[c] = Idle
<1>1. call[c] \in {Idle} \cup LoadCall \cup SaveCall
  BY DEF TypeOK
<1>. QED
  BY <1>1 DEF Calls, Idle, LoadCall, SaveCall

LEMMA BlankRow == Blank \in Row
BY DEF Blank, Row, Value

LEMMA MergedRow ==
    ASSUME NEW r \in Row, NEW s \in Row
    PROVE  /\ Merged(r, s) \in Row
           /\ \A f \in Field : Merged(r, s)[f] \in {r[f], s[f]}
           /\ \A f \in Field : s[f] = NoText => Merged(r, s)[f] = r[f]
           /\ r["nickname"] # NoText => Merged(r, s)["nickname"] # NoText
BY DEF Merged, Row, Field

\* What CarriedFits and FoundIsCurrent say of one request after a step.
FitsNext(a, row) ==
    a \in exposed' \cup {NoOne} \/ \A f \in Field : row[f] \in Own(a) \cup {NoText}
SoundNext(c, q) ==
    /\ FitsNext(q.of, q.row)
    /\ q.op = "save" => FitsNext(q.of, q.sent)
    /\ q.step # "asked" => q.of # NoOne
    /\ q.op = "save" /\ q.step = "found" =>
          /\ q.row["nickname"] # NoText
          /\ c \in overtaken' \/ q.row = users'[q.of]

\* What a step has to show; the requests apart.
StepOk ==
    /\ users' \in [Account -> Row] /\ account' \in Account \cup {NoOne} /\ loggedIn' \in BOOLEAN
    /\ profile' \in Profiles /\ page' \in {Closed} \cup Open
    /\ saves' \in 0 .. MaxSave /\ exposed' \subseteq Account /\ overtaken' \subseteq Call
    /\ exposed \subseteq exposed'
    /\ \A a \in Account : users'[a] = users[a] \/ (/\ FitsNext(a, users'[a])
                                                   /\ users'[a]["nickname"] # NoText)
    /\ profile' \in {profile, NoProfile}
       \/ (profile'.of # NoOne /\ FitsNext(profile'.of, profile'.row))
    /\ page' # Closed => page'.first = profile \/ (page # Closed /\ page'.first = page.first)

LEMMA FitsStays ==
    ASSUME NEW a, NEW row, Fits(a, row), exposed \subseteq exposed'
    PROVE  FitsNext(a, row)
BY DEF Fits, FitsNext

LEMMA InvNext ==
    ASSUME ProfileInv, StepOk, call' \in [Call -> {Idle} \cup Calls],
           \A c \in Call : call'[c] # Idle => SoundNext(c, call'[c])
    PROVE  ProfileInv'
<1>1. TypeOK'
  BY DEF StepOk, TypeOK, Calls
<1>2. \A a \in Account : FitsNext(a, users'[a]) /\ users'[a]["nickname"] # NoText
  BY FitsStays DEF StepOk, ProfileInv, ForeignTextOnlyByForm, NicknameStays
<1>3. FitsNext(profile'.of, profile'.row) /\ (profile'.of = NoOne => profile' = NoProfile)
  <2>1. /\ Fits(profile.of, profile.row) /\ (profile.of = NoOne => profile = NoProfile)
        /\ Fits(NoProfile.of, NoProfile.row)
    BY DEF ProfileInv, CarriedFits, Fits, NoProfile
  <2>. QED
    BY <2>1, FitsStays DEF StepOk
<1>4. page' # Closed => /\ FitsNext(page'.first.of, page'.first.row)
                        /\ page'.first.of = NoOne => page'.first = NoProfile
  <2>1. /\ Fits(profile.of, profile.row) /\ (profile.of = NoOne => profile = NoProfile)
        /\ page # Closed => /\ Fits(page.first.of, page.first.row)
                            /\ page.first.of = NoOne => page.first = NoProfile
    BY DEF ProfileInv, CarriedFits
  <2>. QED
    BY <2>1, FitsStays DEF StepOk
<1>5. ForeignTextOnlyByForm' /\ NicknameStays'
  BY <1>2 DEF ForeignTextOnlyByForm, NicknameStays, Fits, FitsNext
<1>6. CarriedFits'
  BY <1>3, <1>4 DEF CarriedFits, Fits, FitsNext, SoundNext
<1>7. FoundIsCurrent'
  BY DEF FoundIsCurrent, At, SoundNext
<1>. QED
  BY <1>1, <1>5, <1>6, <1>7 DEF ProfileInv

\* A request stays sound, whoever hears it, as long as its row stays or is
\* known to have been written.
LEMMA StaysSound ==
    ASSUME ProfileInv, NEW c \in Call, call[c] # Idle, NEW q,
           q.op = call[c].op, q.of = call[c].of, q.step = call[c].step, q.row = call[c].row,
           q.op = "save" => q.sent = call[c].sent,
           exposed \subseteq exposed',
           At(c, "save", "found") =>
               c \in overtaken' \/ (c \notin overtaken /\ users'[q.of] = users[q.of])
    PROVE  SoundNext(c, q)
<1>1. /\ Fits(call[c].of, call[c].row)
      /\ call[c].op = "save" => Fits(call[c].of, call[c].sent)
  BY DEF ProfileInv, CarriedFits
<1>2. /\ call[c].step # "asked" => call[c].of # NoOne
      /\ At(c, "save", "found") => /\ call[c].row["nickname"] # NoText
                                   /\ c \in overtaken \/ call[c].row = users[call[c].of]
  BY DEF ProfileInv, FoundIsCurrent
<1>3. FitsNext(q.of, q.row) /\ (q.op = "save" => FitsNext(q.of, q.sent))
  BY <1>1, FitsStays
<1>. QED
  BY <1>2, <1>3 DEF SoundNext, At

\* Most steps change one request; those that do and leave the rows alone.
LEMMA SlotStep ==
    ASSUME ProfileInv, StepOk, NEW c \in Call, NEW q \in {Idle} \cup Calls,
           call' = [call EXCEPT ![c] = q], q # Idle => SoundNext(c, q),
           UNCHANGED users, overtaken \ {c} \subseteq overtaken', overtaken' \subseteq overtaken
    PROVE  ProfileInv'
<1>1. call \in [Call -> {Idle} \cup Calls]
  BY DEF ProfileInv, TypeOK, Calls
<1>2. call' \in [Call -> {Idle} \cup Calls]
  BY <1>1
<1>3. ASSUME NEW d \in Call, call'[d] # Idle PROVE SoundNext(d, call'[d])
  <2>1. CASE d = c
    BY <1>1, <1>3, <2>1
  <2>2. CASE d # c
    <3>1. call'[d] = call[d]
      BY <1>1, <2>2
    <3>2. d \in overtaken <=> d \in overtaken'
      BY <2>2
    <3>. QED
      BY <1>3, <3>1, <3>2, StaysSound DEF StepOk
  <2>. QED
    BY <2>1, <2>2
<1>. QED
  BY <1>2, <1>3, InvNext

\* Steps of the tab change no more of a request than who hears it.
LEMMA HearersStep ==
    ASSUME ProfileInv, StepOk, NEW F, call' = [c \in Call |-> F[c]],
           UNCHANGED <<users, overtaken>>,
           \A c \in Call :
               F[c] = Idle \/ (/\ call[c] # Idle /\ F[c] \in Calls
                               /\ F[c].op = call[c].op /\ F[c].of = call[c].of
                               /\ F[c].step = call[c].step /\ F[c].row = call[c].row
                               /\ F[c].op = "save" => F[c].sent = call[c].sent)
    PROVE  ProfileInv'
<1>1. call' \in [Call -> {Idle} \cup Calls]
  OBVIOUS
<1>2. ASSUME NEW c \in Call, call'[c] # Idle PROVE SoundNext(c, call'[c])
  <2>1. call'[c] = F[c]
    OBVIOUS
  <2>. QED
    BY <1>2, <2>1, StaysSound DEF StepOk
<1>. QED
  BY <1>1, <1>2, InvNext

-----------------------------------------------------------------------------
LEMMA InitInv == Init => ProfileInv
<1> SUFFICES ASSUME Init PROVE ProfileInv
  OBVIOUS
<1>1. NoProfile \in Profiles /\ Fits(NoProfile.of, NoProfile.row)
  BY BlankRow DEF NoProfile, Profiles, Fits
<1>2. TypeOK
  <2>1. users \in [Account -> Row]
    BY DEF Init
  <2>2. call \in [Call -> {Idle} \cup LoadCall \cup SaveCall]
    BY DEF Init
  <2>3. account \in Account \cup {NoOne} /\ loggedIn \in BOOLEAN /\ profile \in Profiles
        /\ page \in {Closed} \cup Open
    BY <1>1 DEF Init
  <2>4. saves \in 0 .. MaxSave /\ exposed \subseteq Account /\ overtaken \subseteq Call
    BY ProfileAssumption DEF Init
  <2>. QED
    BY <2>1, <2>2, <2>3, <2>4 DEF TypeOK
<1>3. ForeignTextOnlyByForm /\ NicknameStays
  BY DEF Init, ForeignTextOnlyByForm, NicknameStays, Fits
<1>4. \A c \in Call : call[c] = Idle
  BY DEF Init
<1>5. CarriedFits
  BY <1>1, <1>4 DEF Init, CarriedFits
<1>6. FoundIsCurrent
  BY <1>4 DEF FoundIsCurrent
<1>. QED
  BY <1>2, <1>3, <1>5, <1>6 DEF ProfileInv

LEMMA PageGoneHearers ==
    ASSUME ProfileInv, NEW c \in Call, call[c] # Idle
    PROVE  LET q == IF call[c].hearer = "page"
                    THEN [call[c] EXCEPT !.hearer = "store"] ELSE call[c]
           IN  /\ q \in Calls
               /\ q.op = call[c].op /\ q.of = call[c].of
               /\ q.step = call[c].step /\ q.row = call[c].row
               /\ q.op = "save" => q.sent = call[c].sent
<1>1. call[c] \in LoadCall \cup SaveCall
  BY Kinds DEF ProfileInv, Calls
<1>2. CASE call[c] \in LoadCall
  BY <1>2 DEF LoadCall, Calls
<1>3. CASE call[c] \in SaveCall
  BY <1>3 DEF SaveCall, Calls
<1>. QED
  BY <1>1, <1>2, <1>3

LEMMA UnheardHearers ==
    ASSUME ProfileInv, NEW c \in Call, Unheard(c) # Idle
    PROVE  /\ call[c] # Idle /\ call[c].op = "save" /\ Unheard(c) \in Calls
           /\ Unheard(c).op = call[c].op /\ Unheard(c).of = call[c].of
           /\ Unheard(c).step = call[c].step /\ Unheard(c).row = call[c].row
           /\ Unheard(c).sent = call[c].sent
<1>1. call[c] # Idle /\ call[c] \in SaveCall
  BY Kinds DEF ProfileInv, Unheard, Idle
<1>. QED
  BY <1>1 DEF Unheard, SaveCall, Calls

\* Closing the page.
LEMMA ClosedStep ==
    ASSUME ProfileInv, page' = Closed, call' = PageGone, UNCHANGED <<users, saves, profile, history>>,
           account' \in Account \cup {NoOne}, loggedIn' \in BOOLEAN
    PROVE  ProfileInv'
<1> DEFINE F == [c \in Call |-> IF call[c] # Idle /\ call[c].hearer = "page"
                                THEN [call[c] EXCEPT !.hearer = "store"] ELSE call[c]]
<1>1. StepOk
  BY DEF StepOk, ProfileInv, TypeOK, history
<1>2. call' = [c \in Call |-> F[c]]
  BY DEF PageGone
<1>3. \A c \in Call :
          F[c] = Idle \/ (/\ call[c] # Idle /\ F[c] \in Calls
                          /\ F[c].op = call[c].op /\ F[c].of = call[c].of
                          /\ F[c].step = call[c].step /\ F[c].row = call[c].row
                          /\ F[c].op = "save" => F[c].sent = call[c].sent)
  BY PageGoneHearers
<1> HIDE DEF F
<1>. QED
  BY <1>1, <1>2, <1>3, HearersStep DEF history

LEMMA LoadPageStep ==
    ASSUME ProfileInv, LoadPage
    PROVE  ProfileInv'
<1> DEFINE F == [c \in Call |-> Unheard(c)]
<1>1. NoProfile \in Profiles
  BY BlankRow DEF NoProfile, Profiles
<1>2. StepOk
  BY <1>1 DEF LoadPage, StepOk, ProfileInv, TypeOK, history
<1>3. call' = [c \in Call |-> F[c]]
  BY DEF LoadPage, TabGone
<1>4. \A c \in Call :
          F[c] = Idle \/ (/\ call[c] # Idle /\ F[c] \in Calls
                          /\ F[c].op = call[c].op /\ F[c].of = call[c].of
                          /\ F[c].step = call[c].step /\ F[c].row = call[c].row
                          /\ F[c].op = "save" => F[c].sent = call[c].sent)
  BY UnheardHearers
<1> HIDE DEF F
<1>. QED
  BY <1>2, <1>3, <1>4, HearersStep DEF LoadPage, history

LEMMA OtherTabStep ==
    ASSUME ProfileInv, NEW a \in Account \cup {NoOne}, OtherTab(a)
    PROVE  ProfileInv'
<1>1. StepOk
  BY DEF OtherTab, StepOk, ProfileInv, TypeOK, history
<1>2. call' \in [Call -> {Idle} \cup Calls]
  BY DEF OtherTab, ProfileInv, TypeOK, Calls
<1>3. \A c \in Call : call'[c] # Idle => SoundNext(c, call'[c])
  BY <1>1, StaysSound DEF OtherTab, StepOk, history
<1>. QED
  BY <1>1, <1>2, <1>3, InvNext

LEMMA OpenStep ==
    ASSUME ProfileInv, NEW c \in Call, OpenPage(c)
    PROVE  ProfileInv'
<1> DEFINE q == [op |-> "load", of |-> account, hearer |-> "page", step |-> "asked", row |-> Blank,
                 sent |-> Blank]
<1>1. q \in Calls /\ SoundNext(c, q)
  BY BlankRow DEF Calls, LoadCall, ProfileInv, TypeOK, SoundNext, FitsNext, Blank
<1>2. page' \in Open /\ page'.first = profile
  BY DEF OpenPage, Open, ProfileInv, TypeOK
<1>3. StepOk
  BY <1>2 DEF OpenPage, StepOk, ProfileInv, TypeOK, history
<1>4. call' = [call EXCEPT ![c] = q] /\ UNCHANGED <<users, overtaken>>
  BY DEF OpenPage, history
<1> HIDE DEF q
<1>. QED
  BY <1>1, <1>3, <1>4, SlotStep

\* What a form holds fits the account it goes out for, or exposes it.
LEMMA FormFits ==
    ASSUME ProfileInv, page # Closed, NEW r \in Forms,
           page.first.of \in {NoOne, account}, page.session = account, account # NoOne
    PROVE  Fits(account, r)
<1>1. /\ page \in Open /\ Fits(page.first.of, page.first.row)
      /\ page.first.of = NoOne => page.first = NoProfile
  BY DEF ProfileInv, TypeOK, CarriedFits
<1>2. \A f \in Field : r[f] \in Own(account) \cup {NoText, Given[f]}
  BY DEF Forms
<1>3. CASE account \in exposed
  BY <1>3 DEF Fits
<1>4. CASE account \notin exposed
  <2>1. \A f \in Field : Given[f] \in Own(account) \cup {NoText}
    <3>1. CASE ~page.filled
      BY <3>1 DEF Given, Blank
    <3>2. CASE page.filled /\ page.first.of = account
      BY <1>1, <1>4, <3>2 DEF Given, Fits
    <3>3. CASE page.filled /\ page.first.of = NoOne
      BY <1>1, <3>3 DEF Given, NoProfile, Blank
    <3>. QED
      BY <1>1, <3>1, <3>2, <3>3 DEF Open
  <2>. QED
    BY <1>2, <2>1 DEF Fits
<1>. QED
  BY <1>3, <1>4

LEMMA SubmitStep ==
    ASSUME ProfileInv, NEW c \in Call, Submit(c)
    PROVE  ProfileInv'
<1>1. PICK r \in IF account = NoOne THEN {Blank} ELSE Forms :
          call' = [call EXCEPT ![c] = [op |-> "save", of |-> account, hearer |-> "store",
                                       step |-> "asked", row |-> Blank, sent |-> r]]
  BY DEF Submit
<1> DEFINE q == [op |-> "save", of |-> account, hearer |-> "store",
                 step |-> "asked", row |-> Blank, sent |-> r]
<1>2. r \in Row /\ q \in Calls
  BY BlankRow DEF Forms, Calls, SaveCall, ProfileInv, TypeOK
<1>3. exposed \subseteq exposed' /\ exposed' \subseteq Account
  BY DEF Submit, ProfileInv, TypeOK
<1>4. FitsNext(account, r)
  <2>1. CASE account = NoOne
    BY <2>1 DEF FitsNext
  <2>2. CASE account # NoOne /\ page.first.of \in {NoOne, account} /\ page.session = account
    BY <1>1, <1>3, <2>2, FormFits, FitsStays DEF Submit
  <2>3. CASE account # NoOne /\ ~(page.first.of \in {NoOne, account} /\ page.session = account)
    BY <2>3 DEF Submit, FitsNext
  <2>. QED
    BY <2>1, <2>2, <2>3
<1>5. SoundNext(c, q)
  BY <1>4 DEF SoundNext, FitsNext, Blank
<1>6. StepOk
  BY <1>3, ProfileAssumption DEF Submit, StepOk, ProfileInv, TypeOK, tab
<1>7. call' = [call EXCEPT ![c] = q] /\ UNCHANGED <<users, overtaken>>
  BY <1>1 DEF Submit
<1> HIDE DEF q
<1>. QED
  BY <1>2, <1>5, <1>6, <1>7, SlotStep

\* A request the server ends, or whose answer is not heard.
LEMMA EndStep ==
    ASSUME ProfileInv, NEW c \in Call, Ends(c), StepOk, UNCHANGED <<users, overtaken>>
    PROVE  ProfileInv'
<1>1. call' = [call EXCEPT ![c] = Idle]
  BY DEF Ends
<1>. QED
  BY <1>1, SlotStep

LEMMA RefuseStep ==
    ASSUME ProfileInv, NEW c \in Call, Refuse(c)
    PROVE  ProfileInv'
<1>1. StepOk
  BY DEF Refuse, StepOk, ProfileInv, TypeOK, history
<1>. QED
  BY <1>1, EndStep DEF Refuse, history

LEMMA LoseStep ==
    ASSUME ProfileInv, NEW c \in Call, LoseAnswer(c)
    PROVE  ProfileInv'
<1>1. StepOk
  BY DEF LoseAnswer, StepOk, ProfileInv, TypeOK, history, tab
<1>2. CASE Ends(c)
  BY <1>1, <1>2, EndStep DEF LoseAnswer, history
<1>3. CASE call' = [call EXCEPT ![c] = Unheard(c)]
  <2>1. Unheard(c) # Idle => Unheard(c) \in Calls /\ SoundNext(c, Unheard(c))
    BY <1>1, UnheardHearers, StaysSound DEF LoseAnswer, history, StepOk
  <2>. QED
    BY <1>1, <1>3, <2>1, SlotStep DEF LoseAnswer, history
<1>. QED
  BY <1>2, <1>3 DEF LoseAnswer

\* The answer's account is someone's, and the row fits it.
LEMMA Heard ==
    ASSUME ProfileInv, NEW c \in Call, call[c] # Idle, call[c].step = "done",
           exposed \subseteq exposed', profile' = [of |-> call[c].of, row |-> call[c].row]
    PROVE  profile' \in Profiles /\ profile'.of # NoOne /\ FitsNext(profile'.of, profile'.row)
<1>1. call[c] \in LoadCall \cup SaveCall
  BY Kinds DEF ProfileInv, Calls
<1>2. call[c].of # NoOne /\ Fits(call[c].of, call[c].row)
  BY DEF ProfileInv, CarriedFits, FoundIsCurrent
<1>. QED
  BY <1>1, <1>2, FitsStays DEF LoadCall, SaveCall, Profiles

LEMMA HearLoadStep ==
    ASSUME ProfileInv, NEW c \in Call, HearLoad(c)
    PROVE  ProfileInv'
<1>1. call[c] # Idle /\ call[c].step = "done"
  BY Kinds DEF HearLoad, At, ProfileInv, Idle
<1>2. profile' \in Profiles /\ profile'.of # NoOne /\ FitsNext(profile'.of, profile'.row)
  BY <1>1, Heard DEF HearLoad, history
<1>3. page' \in {Closed} \cup Open /\ (page' # Closed => page # Closed /\ page'.first = page.first)
  BY DEF HearLoad, ProfileInv, TypeOK, Open, Closed
<1>4. StepOk
  BY <1>2, <1>3 DEF HearLoad, StepOk, ProfileInv, TypeOK, history
<1>. QED
  BY <1>4, EndStep DEF HearLoad, history

LEMMA HearSaveStep ==
    ASSUME ProfileInv, NEW c \in Call, HearSave(c)
    PROVE  ProfileInv'
<1>1. call[c] # Idle /\ call[c].step = "done"
  BY Kinds DEF HearSave, At, ProfileInv, Idle
<1>2. profile' \in Profiles /\ profile'.of # NoOne /\ FitsNext(profile'.of, profile'.row)
  BY <1>1, Heard DEF HearSave, history
<1>3. StepOk
  BY <1>2 DEF HearSave, StepOk, ProfileInv, TypeOK, history
<1>. QED
  BY <1>3, EndStep DEF HearSave, history

LEMMA ElsewhereStep ==
    ASSUME ProfileInv, NEW c \in Call, NEW a \in Account, NEW f \in Field, NEW x \in Text,
           SubmitElsewhere(c, a, f, x)
    PROVE  ProfileInv'
<1> DEFINE q == [op |-> "save", of |-> a, hearer |-> "nobody", step |-> "asked",
                 row |-> Blank, sent |-> [Blank EXCEPT ![f] = x]]
<1>1. q.sent \in Row /\ \A g \in Field : q.sent[g] \in Own(a) \cup {NoText}
  BY DEF SubmitElsewhere, Blank, Row, Value
<1>2. q \in Calls
  BY <1>1, BlankRow DEF Calls, SaveCall
<1>3. SoundNext(c, q)
  BY <1>1 DEF SoundNext, FitsNext, Blank
<1>4. StepOk
  BY ProfileAssumption DEF SubmitElsewhere, StepOk, ProfileInv, TypeOK, tab, history
<1>5. call' = [call EXCEPT ![c] = q] /\ UNCHANGED <<users, overtaken>>
  BY DEF SubmitElsewhere, history
<1> HIDE DEF q
<1>. QED
  BY <1>2, <1>3, <1>4, <1>5, SlotStep

-----------------------------------------------------------------------------
(* The server. *)

\* An answer is heard or is nothing.
LEMMA Answered ==
    ASSUME ProfileInv, NEW c \in Call, call[c] # Idle, call[c].of # NoOne, NEW row \in Row,
           Answers(c, row), FitsNext(call[c].of, row)
    PROVE  \E q \in {Idle} \cup Calls : /\ call' = [call EXCEPT ![c] = q]
                                        /\ q # Idle => q.step = "done" /\ SoundNext(c, q)
<1> DEFINE q == [call[c] EXCEPT !.step = "done", !.row = row, !.sent = Blank]
<1>1. call' = [call EXCEPT ![c] = IF call[c].hearer = "nobody" THEN Idle ELSE q]
  BY DEF Answers, ProfileInv, TypeOK
<1>2. call[c] \in LoadCall \cup SaveCall
  BY Kinds DEF ProfileInv, Calls
<1>3. FitsNext(call[c].of, Blank)
  BY DEF FitsNext, Blank
<1>4. /\ call[c].hearer # "nobody" => q \in Calls
      /\ q.of = call[c].of /\ q.step = "done" /\ q.row = row /\ q.sent = Blank
  BY <1>2, BlankRow DEF LoadCall, SaveCall, Calls
<1> HIDE DEF q
<1>5. SoundNext(c, q)
  BY <1>3, <1>4 DEF SoundNext
<1>. QED
  BY <1>1, <1>4, <1>5

LEMMA GetStep ==
    ASSUME ProfileInv, NEW c \in Call, GetProfile(c)
    PROVE  ProfileInv'
<1>1. call[c] # Idle /\ call[c].of \in Account
  BY Kinds DEF GetProfile, At, ProfileInv, Idle, LoadCall
<1>2. StepOk
  BY DEF GetProfile, StepOk, ProfileInv, TypeOK, tab, history
<1>3. users[call[c].of] \in Row /\ FitsNext(call[c].of, users[call[c].of])
  BY <1>1, <1>2, FitsStays DEF ProfileInv, TypeOK, ForeignTextOnlyByForm, StepOk
<1>4. PICK q \in {Idle} \cup Calls : /\ call' = [call EXCEPT ![c] = q]
                                     /\ q # Idle => q.step = "done" /\ SoundNext(c, q)
  BY <1>1, <1>3, Answered, ProfileAssumption DEF GetProfile
<1>. QED
  BY <1>2, <1>4, SlotStep DEF GetProfile, history

LEMMA FindStep ==
    ASSUME ProfileInv, NEW c \in Call, UpdateFind(c)
    PROVE  ProfileInv'
<1> DEFINE a == call[c].of
<1> DEFINE q == [call[c] EXCEPT !.step = "found", !.row = users[a]]
<1>1. call[c] \in SaveCall /\ call[c] # Idle /\ a \in Account
  BY Kinds DEF UpdateFind, At, ProfileInv, Idle, SaveCall
<1>2. users[a] \in Row /\ Fits(a, users[a]) /\ users[a]["nickname"] # NoText
  BY <1>1 DEF ProfileInv, TypeOK, ForeignTextOnlyByForm, NicknameStays
<1>3. q \in SaveCall /\ q.op = "save" /\ q.of = a /\ q.step = "found" /\ q.row = users[a]
      /\ q.sent = call[c].sent
  BY <1>1, <1>2 DEF SaveCall
<1>4. StepOk
  BY DEF UpdateFind, StepOk, ProfileInv, TypeOK, tab
<1>5. Fits(a, call[c].sent)
  BY <1>1 DEF ProfileInv, CarriedFits, SaveCall
<1>6. call' = [call EXCEPT ![c] = q] /\ users' = users /\ overtaken' = overtaken \ {c}
  BY DEF UpdateFind
<1> HIDE DEF q
<1>7. SoundNext(c, q)
  BY <1>1, <1>2, <1>3, <1>4, <1>5, <1>6, FitsStays, ProfileAssumption DEF SoundNext, StepOk
<1>. QED
  BY <1>3, <1>4, <1>6, <1>7, SlotStep DEF Calls

LEMMA SaveStep ==
    ASSUME ProfileInv, NEW c \in Call, UpdateSave(c)
    PROVE  ProfileInv'
<1> DEFINE a == call[c].of
<1> DEFINE row == Merged(call[c].row, call[c].sent)
<1>1. call[c] \in SaveCall /\ call[c] # Idle /\ At(c, "save", "found")
  BY Kinds DEF UpdateSave, At, ProfileInv, Idle
<1>2. a \in Account /\ call[c].row["nickname"] # NoText
  BY <1>1 DEF ProfileInv, FoundIsCurrent, SaveCall, At
<1>3. Fits(a, call[c].row) /\ Fits(a, call[c].sent)
  BY <1>1 DEF ProfileInv, CarriedFits, At
<1>4. row \in Row /\ row["nickname"] # NoText /\ \A f \in Field : row[f] \in {call[c].row[f], call[c].sent[f]}
  BY <1>1, <1>2, MergedRow DEF SaveCall
<1>5. /\ users' = [users EXCEPT ![a] = row] /\ Answers(c, row)
      /\ overtaken' = (overtaken \cup Others(c)) \ {c}
      /\ UNCHANGED <<saves, account, loggedIn, profile, page, exposed>>
  BY DEF UpdateSave, tab
<1> HIDE DEF row
<1>6. Fits(a, row) /\ FitsNext(a, row)
  BY <1>3, <1>4, <1>5 DEF Fits, FitsNext
<1>7. StepOk
  BY <1>2, <1>4, <1>5, <1>6 DEF StepOk, ProfileInv, TypeOK, Others
<1>8. PICK q \in {Idle} \cup Calls : /\ call' = [call EXCEPT ![c] = q]
                                     /\ q # Idle => q.step = "done" /\ SoundNext(c, q)
  BY <1>1, <1>2, <1>4, <1>5, <1>6, Answered, ProfileAssumption
<1>9. call \in [Call -> {Idle} \cup Calls]
  BY DEF ProfileInv, TypeOK, Calls
<1>10. ASSUME NEW d \in Call, call'[d] # Idle PROVE SoundNext(d, call'[d])
  <2>1. CASE d = c
    BY <1>8, <1>9, <1>10, <2>1
  <2>2. CASE d # c
    <3>1. call'[d] = call[d] /\ call[d] # Idle
      BY <1>8, <1>9, <1>10, <2>2
    <3>2. At(d, "save", "found") =>
              d \in overtaken' \/ (d \notin overtaken /\ users'[call[d].of] = users[call[d].of])
      BY <1>2, <1>5, <2>2 DEF Others, ProfileInv, TypeOK
    <3>. QED
      BY <1>5, <3>1, <3>2, StaysSound
  <2>. QED
    BY <2>1, <2>2
<1>11. call' \in [Call -> {Idle} \cup Calls]
  BY <1>8, <1>9
<1>. QED
  BY <1>7, <1>10, <1>11, InvNext

-----------------------------------------------------------------------------
LEMMA TabInv == ProfileInv /\ Tab => ProfileInv'
<1> SUFFICES ASSUME ProfileInv, Tab PROVE ProfileInv'
  OBVIOUS
<1>1. CASE \E a \in Account : LogIn(a)
  BY <1>1, ClosedStep DEF LogIn
<1>2. CASE LogOut
  BY <1>2, ClosedStep DEF LogOut
<1>3. CASE Leave
  BY <1>3, ClosedStep DEF Leave, ProfileInv, TypeOK
<1>4. CASE LoadPage
  BY <1>4, LoadPageStep
<1>5. CASE \E a \in Account \cup {NoOne} : OtherTab(a)
  BY <1>5, OtherTabStep
<1>. QED
  BY <1>1, <1>2, <1>3, <1>4, <1>5 DEF Tab

LEMMA RequestInv ==
    ASSUME ProfileInv, NEW c \in Call, Request(c)
    PROVE  ProfileInv'
BY OpenStep, SubmitStep, ElsewhereStep, GetStep, FindStep, SaveStep, RefuseStep, LoseStep,
   HearLoadStep, HearSaveStep DEF Request

LEMMA StutterInv == ProfileInv /\ UNCHANGED vars => ProfileInv'
BY DEF vars, tab, history, ProfileInv, TypeOK, ForeignTextOnlyByForm, Fits, NicknameStays,
       CarriedFits, FoundIsCurrent, At

\* The invariant, for any number of accounts, texts and requests: above all,
\* that what one account's holder typed comes into another's row only by a form
\* opened on another's profile or in another's session, and that a nickname
\* cannot be emptied.
THEOREM ProfileInvariant == Spec => []ProfileInv
<1>1. ProfileInv /\ [Next]_vars => ProfileInv'
  BY TabInv, RequestInv, StutterInv DEF Next
<1>. QED
  BY <1>1, InitInv, PTL DEF Spec

\* A save that no other has overtaken changes only the fields it carries.
THEOREM UnsaidKept == Spec => UnsaidChangesOnlyByOverlap
<1> DEFINE Kept ==
      \A a \in Account, f \in Field : users'[a][f] # users[a][f] =>
          \E c \in Call : /\ At(c, "save", "found") /\ call[c].of = a /\ call'[c] # call[c]
                          /\ \/ c \in overtaken
                             \/ call[c].sent[f] = users'[a][f] /\ call[c].sent[f] # NoText
<1>1. ASSUME ProfileInv, [Next]_vars PROVE Kept
  <2>1. ASSUME NEW c \in Call, UpdateSave(c) PROVE Kept
    <3>1. call[c] \in SaveCall /\ call[c] # Idle /\ At(c, "save", "found")
      BY <1>1, <2>1, Kinds DEF UpdateSave, At, ProfileInv, Idle
    <3>2. call[c].row \in Row /\ call[c].sent \in Row /\ call[c].of \in Account \cup {NoOne}
      BY <3>1 DEF SaveCall
    <3>3. c \in overtaken \/ call[c].row = users[call[c].of]
      BY <1>1, <3>1 DEF ProfileInv, FoundIsCurrent, At
    <3>4. users' = [users EXCEPT ![call[c].of] = Merged(call[c].row, call[c].sent)]
          /\ Answers(c, Merged(call[c].row, call[c].sent))
      BY <2>1 DEF UpdateSave
    <3>5. call'[c] # call[c]
      <4>1. call'[c] = Idle \/ call'[c].step = "done"
        BY <1>1, <3>1, <3>4 DEF Answers, SaveCall, ProfileInv, TypeOK
      <4>. QED
        BY <3>1, <4>1 DEF At
    <3>6. ASSUME NEW a \in Account, NEW f \in Field, users'[a][f] # users[a][f]
          PROVE  /\ call[c].of = a
                 /\ \/ c \in overtaken
                    \/ call[c].sent[f] = users'[a][f] /\ call[c].sent[f] # NoText
      <4>1. a = call[c].of /\ users'[a] = Merged(call[c].row, call[c].sent)
        BY <1>1, <3>4, <3>6 DEF ProfileInv, TypeOK
      <4>2. /\ users'[a][f] \in {call[c].row[f], call[c].sent[f]}
            /\ call[c].sent[f] = NoText => users'[a][f] = call[c].row[f]
        BY <3>2, <4>1, MergedRow
      <4>. QED
        BY <3>3, <3>6, <4>1, <4>2
    <3>. QED
      BY <3>1, <3>5, <3>6
  <2>2. (\A c \in Call : ~UpdateSave(c)) => UNCHANGED users
    BY <1>1 DEF Next, Tab, Request, LogIn, LogOut, Leave, LoadPage, OtherTab, OpenPage, Submit,
                SubmitElsewhere, GetProfile, UpdateFind, Refuse, LoseAnswer, HearLoad, HearSave, vars
  <2>. QED
    BY <2>1, <2>2
<1>2. ProfileInv /\ [Next]_vars => [Kept]_vars
  BY <1>1
<1>3. Spec => [][Kept]_vars
  BY <1>2, ProfileInvariant, PTL DEF Spec
<1>. QED
  BY <1>3 DEF UnsaidChangesOnlyByOverlap
=============================================================================
