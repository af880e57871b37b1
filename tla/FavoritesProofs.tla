--------------------------- MODULE FavoritesProofs ---------------------------
(***************************************************************************)
(* The favorites of an account, for any number of pets, pages and requests *)
(* under way: FavInv is inductive, and from it follows that a removal      *)
(* spares what was added since, and that a favorite left behind stays.     *)
(***************************************************************************)
EXTENDS Favorites, TLAPS

LEMMA CallKinds ==
    ASSUME TypeOK, NEW c \in Call
    PROVE  /\ call[c] # Idle <=> call[c] \in Toggle
           /\ call[c].op # "idle" => call[c] # Idle
           /\ call[c] # Idle => call[c].op \in {"add", "remove"}
BY DEF TypeOK, Idle, Toggle

\* What leaving a page does to a request of it.
LEMMA ToggleOrphaned ==
    ASSUME NEW q \in Toggle
    PROVE  /\ [q EXCEPT !.tab = NoTab] \in Toggle
           /\ [q EXCEPT !.tab = NoTab].op = q.op
           /\ [q EXCEPT !.tab = NoTab].pet = q.pet
           /\ [q EXCEPT !.tab = NoTab].tab = NoTab
           /\ [q EXCEPT !.tab = NoTab].step = q.step
           /\ [q EXCEPT !.tab = NoTab].fav = q.fav
BY DEF Toggle

\* What SpeaksOfItsPet and LeftOutOfReach say of one request after a step.
SpeaksNext(q) ==
    /\ q.fav <= lastFav'
    /\ q.fav # 0 => fav'[q.fav] \in {q.pet, NoPet}
    /\ q.step = "found" => q.op = "remove" /\ q.fav # 0
OutOfReachNext(q, f) ==
    /\ q.tab # NoTab => page'[q.tab] = q.pet
    /\ q.op = "remove" \/ q.step = "ok" => q.pet # fav'[f]

TypeNext ==
    /\ fav' \in [FavId -> Pet \cup {NoPet}] /\ lastFav' \in 0 .. MaxFav
    /\ page' \in [Tab -> Pet \cup {NoPet}] /\ starred' \in [Tab -> BOOLEAN]
    /\ call' \in [Call -> {Idle} \cup Toggle] /\ left' \subseteq FavId

LEMMA InvNext ==
    ASSUME TypeNext, OneRowPerPet',
           \A c \in Call : call'[c] # Idle => SpeaksNext(call'[c]),
           \A f \in left' : /\ fav'[f] # NoPet
                            /\ \A t \in Tab : starred'[t] => page'[t] # fav'[f]
                            /\ \A c \in Call : call'[c] # Idle => OutOfReachNext(call'[c], f)
    PROVE  FavInv'
<1>1. TypeOK'
  BY DEF TypeOK, TypeNext
<1>2. SpeaksOfItsPet'
  BY DEF SpeaksOfItsPet, SpeaksNext
<1>3. LeftOutOfReach'
  BY DEF LeftOutOfReach, OutOfReachNext
<1>. QED
  BY <1>1, <1>2, <1>3 DEF FavInv

\* Most steps change one request and no page: it is enough to look at that
\* request, and at the rows that were left before.
SlotOk(c, q) ==
    /\ Leaves /\ UNCHANGED page /\ starred' \in [Tab -> BOOLEAN]
    /\ call' = [call EXCEPT ![c] = q]
    /\ q # Idle => q \in Toggle /\ SpeaksNext(q)
    /\ fav' \in [FavId -> Pet \cup {NoPet}] /\ lastFav' \in 0 .. MaxFav
    /\ OneRowPerPet'
    /\ \A d \in Call \ {c} : call[d] # Idle => SpeaksNext(call[d])
    /\ \A f \in left : /\ fav'[f] \in {fav[f], NoPet}
                       /\ q # Idle => OutOfReachNext(q, f)
                       /\ \A t \in Tab : starred'[t] => page[t] # fav[f]

LEMMA SlotStep ==
    ASSUME FavInv, NEW c \in Call, NEW q, SlotOk(c, q)
    PROVE  FavInv'
<1>0. /\ Leaves /\ UNCHANGED page /\ starred' \in [Tab -> BOOLEAN]
      /\ call' = [call EXCEPT ![c] = q] /\ q \in {Idle} \cup Toggle
      /\ fav' \in [FavId -> Pet \cup {NoPet}] /\ lastFav' \in 0 .. MaxFav
      /\ OneRowPerPet'
      /\ \A f \in left : fav'[f] \in {fav[f], NoPet}
  BY DEF SlotOk
<1>1. call \in [Call -> {Idle} \cup Toggle] /\ page \in [Tab -> Pet \cup {NoPet}]
  BY DEF FavInv, TypeOK
<1>2. TypeNext
  BY <1>0, <1>1 DEF TypeNext, Leaves, FavInv, TypeOK
<1>3. \A d \in Call : call'[d] # Idle => SpeaksNext(call'[d])
  BY <1>0, <1>1 DEF SlotOk
<1>4. ASSUME NEW f \in left'
      PROVE  /\ fav'[f] # NoPet
             /\ \A t \in Tab : starred'[t] => page'[t] # fav'[f]
             /\ \A d \in Call : call'[d] # Idle => OutOfReachNext(call'[d], f)
  <2>1. f \in FavId /\ fav'[f] # NoPet /\ (f \in left \/ Quiet')
    BY <1>0, <1>4 DEF Leaves
  <2>2. CASE Quiet'
    BY <2>1, <2>2 DEF Quiet
  <2>3. CASE f \in left
    <3>1. fav'[f] = fav[f]
      BY <1>0, <2>1, <2>3
    <3>2. ASSUME NEW d \in Call, call'[d] # Idle PROVE OutOfReachNext(call'[d], f)
      <4>1. CASE d = c
        BY <1>0, <1>1, <2>3, <3>2, <4>1 DEF SlotOk
      <4>2. CASE d # c
        <5>1. call'[d] = call[d] /\ call[d] # Idle
          BY <1>0, <1>1, <3>2, <4>2
        <5>. QED
          BY <1>0, <5>1, <2>3, <3>1 DEF OutOfReachNext, FavInv, LeftOutOfReach
      <4>. QED
        BY <4>1, <4>2
    <3>. QED
      BY <1>0, <2>1, <2>3, <3>1, <3>2 DEF SlotOk
  <2>. QED
    BY <2>1, <2>2, <2>3
<1>. QED
  BY <1>0, <1>2, <1>3, <1>4, InvNext

\* A request that was sound stays so while its row stays or goes.
LEMMA StaysSound ==
    ASSUME FavInv, NEW c \in Call, call[c] # Idle, lastFav' \in Nat, lastFav <= lastFav',
           \A f \in FavId : f <= lastFav => fav'[f] \in {fav[f], NoPet}
    PROVE  SpeaksNext(call[c])
<1>1. call[c] \in Toggle /\ lastFav \in Nat
  BY CallKinds, FavoritesAssumption DEF FavInv, TypeOK
<1>2. call[c].fav \in 0 .. MaxFav /\ call[c].fav <= lastFav
  BY <1>1 DEF Toggle, FavInv, SpeaksOfItsPet
<1>3. call[c].fav # 0 => call[c].fav \in FavId
  BY <1>2, FavoritesAssumption DEF FavId
<1>. QED
  BY <1>1, <1>2, <1>3, FavoritesAssumption DEF SpeaksNext, FavInv, SpeaksOfItsPet

-----------------------------------------------------------------------------
LEMMA InitInv == Init => FavInv
BY FavoritesAssumption DEF Init, FavInv, TypeOK, OneRowPerPet, SpeaksOfItsPet, LeftOutOfReach, FavId

LEMMA ClickStep ==
    ASSUME FavInv, NEW t \in Tab, NEW c \in Call, Click(t, c)
    PROVE  FavInv'
<1> DEFINE q == [op |-> IF starred[t] THEN "remove" ELSE "add", pet |-> page[t],
                 tab |-> t, step |-> "asked", fav |-> 0]
<1>1. page[t] \in Pet /\ lastFav \in 0 .. MaxFav /\ lastFav \in Nat
  BY FavoritesAssumption DEF Click, FavInv, TypeOK
<1>2. q \in Toggle
  BY <1>1, FavoritesAssumption DEF Toggle
<1>3. call' = [call EXCEPT ![c] = q] /\ UNCHANGED <<fav, lastFav, page, starred>> /\ Leaves
  BY DEF Click, table
<1>4. SpeaksNext(q)
  BY <1>1, <1>3 DEF SpeaksNext
<1>5. \A f \in left : OutOfReachNext(q, f)
  BY <1>3 DEF OutOfReachNext, FavInv, LeftOutOfReach
<1>6. \A d \in Call \ {c} : call[d] # Idle => SpeaksNext(call[d])
  BY <1>1, <1>3, StaysSound
<1> HIDE DEF q
<1>7. fav' \in [FavId -> Pet \cup {NoPet}] /\ starred' \in [Tab -> BOOLEAN] /\ OneRowPerPet'
  BY <1>3 DEF FavInv, TypeOK, OneRowPerPet
<1>8. \A u \in Tab, f \in left : starred'[u] => page[u] # fav[f]
  BY <1>3 DEF FavInv, LeftOutOfReach
<1>9. SlotOk(c, q)
  BY <1>1, <1>2, <1>3, <1>4, <1>5, <1>6, <1>7, <1>8 DEF SlotOk
<1>. QED
  BY <1>9, SlotStep

\* A request that reaches a step the table and the pages do not show.
LEMMA ReachesStep ==
    ASSUME FavInv, NEW c \in Call, call[c] # Idle, NEW step \in {"found", "failed"},
           NEW f \in 0 .. MaxFav, Reaches(c, step, f), UNCHANGED <<table, page, starred>>, Leaves,
           f <= lastFav, f # 0 => fav[f] = call[c].pet,
           step = "found" => call[c].op = "remove" /\ f # 0
    PROVE  FavInv'
<1> DEFINE q == [call[c] EXCEPT !.step = step, !.fav = f]
<1>1. call[c] \in Toggle /\ lastFav \in 0 .. MaxFav /\ lastFav \in Nat
  BY CallKinds, FavoritesAssumption DEF FavInv, TypeOK
<1>2. /\ q \in Toggle /\ q.op = call[c].op /\ q.pet = call[c].pet /\ q.tab = call[c].tab
      /\ q.step = step /\ q.fav = f
  BY <1>1 DEF Toggle
<1>3. call' = [call EXCEPT ![c] = q]
  BY DEF Reaches
<1> HIDE DEF q
<1>4. SpeaksNext(q)
  BY <1>2 DEF SpeaksNext, table
<1>5. \A g \in left : OutOfReachNext(q, g)
  BY <1>2 DEF OutOfReachNext, FavInv, LeftOutOfReach, table
<1>6. \A d \in Call \ {c} : call[d] # Idle => SpeaksNext(call[d])
  BY <1>1, StaysSound DEF table
<1>7. fav' \in [FavId -> Pet \cup {NoPet}] /\ starred' \in [Tab -> BOOLEAN] /\ OneRowPerPet'
  BY DEF FavInv, TypeOK, OneRowPerPet, table
<1>8. \A u \in Tab, g \in left : starred'[u] => page[u] # fav[g]
  BY DEF FavInv, LeftOutOfReach
<1>9. SlotOk(c, q)
  BY <1>1, <1>2, <1>3, <1>4, <1>5, <1>6, <1>7, <1>8 DEF SlotOk, table
<1>. QED
  BY <1>9, SlotStep

LEMMA AddStep ==
    ASSUME FavInv, NEW c \in Call, AddRow(c)
    PROVE  FavInv'
<1> DEFINE new == lastFav + 1
<1> DEFINE q == [call[c] EXCEPT !.step = "ok", !.fav = new]
<1>1. call[c] # Idle /\ call[c] \in Toggle /\ call[c].op = "add" /\ call[c].pet \in Pet
  BY CallKinds DEF AddRow, At, FavInv, Toggle
<1>2. new \in FavId /\ new \in 0 .. MaxFav /\ lastFav \in Nat /\ lastFav' = new
  BY FavoritesAssumption DEF AddRow, FavInv, TypeOK, FavId
<1>3. /\ q \in Toggle /\ q.op = "add" /\ q.pet = call[c].pet /\ q.tab = call[c].tab
      /\ q.step = "ok" /\ q.fav = new
  BY <1>1, <1>2 DEF Toggle
<1>4. /\ call' = [call EXCEPT ![c] = q] /\ fav' = [fav EXCEPT ![new] = call[c].pet]
      /\ UNCHANGED <<page, starred>> /\ Leaves
  BY DEF AddRow, Reaches
<1> HIDE DEF q, new
<1>5. fav \in [FavId -> Pet \cup {NoPet}] /\ fav[new] = NoPet
  BY <1>2, FavoritesAssumption DEF FavInv, TypeOK, OneRowPerPet, FavId, new
<1>6. \A f \in FavId : fav[f] # call[c].pet
  BY DEF AddRow, RowsOf
<1>7. \A f \in FavId : f <= lastFav => fav'[f] = fav[f]
  BY <1>2, <1>4, <1>5, FavoritesAssumption DEF FavId, new
<1>8. SpeaksNext(q)
  BY <1>2, <1>3, <1>4, <1>5, FavoritesAssumption DEF SpeaksNext, FavId
<1>9. \A f \in left : f \in FavId /\ fav[f] # NoPet /\ fav'[f] = fav[f]
  BY <1>4, <1>5 DEF FavInv, LeftOutOfReach, TypeOK
<1>10. ASSUME NEW f \in left PROVE OutOfReachNext(q, f)
  BY <1>1, <1>3, <1>4, <1>6, <1>9 DEF OutOfReachNext, FavInv, LeftOutOfReach
<1>11. \A d \in Call \ {c} : call[d] # Idle => SpeaksNext(call[d])
  BY <1>2, <1>7, StaysSound, FavoritesAssumption DEF new
<1>12. OneRowPerPet'
  <2>1. \A f \in FavId : fav'[f] = IF f = new THEN call[c].pet ELSE fav[f]
    BY <1>4, <1>5
  <2>2. \A f \in FavId : fav'[f] # NoPet => f <= lastFav'
    BY <2>1, <1>2, FavoritesAssumption DEF FavInv, OneRowPerPet, FavId, new
  <2>3. \A f, g \in FavId : fav'[f] # NoPet /\ fav'[f] = fav'[g] => f = g
    BY <2>1, <1>6 DEF FavInv, OneRowPerPet
  <2>. QED
    BY <2>2, <2>3 DEF OneRowPerPet
<1>13. /\ fav' \in [FavId -> Pet \cup {NoPet}] /\ starred' \in [Tab -> BOOLEAN]
       /\ lastFav' \in 0 .. MaxFav /\ lastFav <= lastFav'
  BY <1>1, <1>2, <1>4, <1>5, FavoritesAssumption DEF FavInv, TypeOK, new
<1>14. \A t \in Tab, f \in left : starred'[t] => page[t] # fav[f]
  BY <1>4 DEF FavInv, LeftOutOfReach
<1>15. SlotOk(c, q)
  BY <1>3, <1>4, <1>8, <1>9, <1>10, <1>11, <1>12, <1>13, <1>14 DEF SlotOk
<1>. QED
  BY <1>15, SlotStep

LEMMA DeleteStep ==
    ASSUME FavInv, NEW c \in Call, DeleteRow(c)
    PROVE  FavInv'
<1> DEFINE gone == call[c].fav
<1> DEFINE q == [call[c] EXCEPT !.step = "ok", !.fav = gone]
<1>1. /\ call[c] # Idle /\ call[c] \in Toggle /\ call[c].op = "remove"
      /\ gone \in 0 .. MaxFav /\ gone # 0 /\ gone <= lastFav
  BY CallKinds DEF DeleteRow, At, FavInv, Toggle, SpeaksOfItsPet
<1>2. lastFav \in Nat /\ lastFav \in 0 .. MaxFav /\ gone \in FavId
  BY <1>1, FavoritesAssumption DEF FavInv, TypeOK, FavId
<1>3. /\ q \in Toggle /\ q.op = "remove" /\ q.pet = call[c].pet /\ q.tab = call[c].tab
      /\ q.step = "ok" /\ q.fav = gone
  BY <1>1 DEF Toggle
<1>4. /\ call' = [call EXCEPT ![c] = q] /\ fav' = [fav EXCEPT ![gone] = NoPet]
      /\ UNCHANGED <<lastFav, page, starred>> /\ Leaves
  BY DEF DeleteRow, Reaches
<1> HIDE DEF q, gone
<1>5. fav \in [FavId -> Pet \cup {NoPet}]
  BY DEF FavInv, TypeOK
<1>6. \A f \in FavId : fav'[f] \in {fav[f], NoPet}
  BY <1>4, <1>5
<1>7. SpeaksNext(q)
  BY <1>1, <1>2, <1>3, <1>4, <1>5 DEF SpeaksNext
<1>8. \A f \in left : f \in FavId /\ fav'[f] \in {fav[f], NoPet}
  BY <1>6 DEF FavInv, TypeOK
<1>9. ASSUME NEW f \in left PROVE OutOfReachNext(q, f)
  <2>1. call[c].pet # fav[f] /\ (call[c].tab # NoTab => page[call[c].tab] = call[c].pet)
    BY <1>1 DEF FavInv, LeftOutOfReach
  <2>2. call[c].pet # NoPet
    BY <1>1, FavoritesAssumption DEF Toggle
  <2>. QED
    BY <1>3, <1>4, <1>8, <2>1, <2>2 DEF OutOfReachNext
<1>10. \A d \in Call \ {c} : call[d] # Idle => SpeaksNext(call[d])
  BY <1>2, <1>4, <1>6, StaysSound
<1>11. OneRowPerPet'
  BY <1>4, <1>6 DEF FavInv, OneRowPerPet
<1>12. fav' \in [FavId -> Pet \cup {NoPet}] /\ starred' \in [Tab -> BOOLEAN]
  BY <1>2, <1>4, <1>5 DEF FavInv, TypeOK
<1>13. \A t \in Tab, f \in left : starred'[t] => page[t] # fav[f]
  BY <1>4 DEF FavInv, LeftOutOfReach
<1>14. SlotOk(c, q)
  BY <1>2, <1>3, <1>4, <1>7, <1>8, <1>9, <1>10, <1>11, <1>12, <1>13 DEF SlotOk
<1>. QED
  BY <1>14, SlotStep

\* An answer is heard, or nobody waits for it any more.
LEMMA HearStep ==
    ASSUME FavInv, NEW c \in Call, (\E t \in Tab : Hear(c, t)) \/ End(c)
    PROVE  FavInv'
<1>1. /\ call' = [call EXCEPT ![c] = Idle] /\ UNCHANGED <<fav, lastFav, page>> /\ Leaves
  BY DEF Hear, End, table
<1>2. lastFav \in 0 .. MaxFav /\ lastFav \in Nat /\ fav \in [FavId -> Pet \cup {NoPet}]
  BY FavoritesAssumption DEF FavInv, TypeOK
<1>3. starred' \in [Tab -> BOOLEAN]
  BY DEF Hear, End, FavInv, TypeOK
<1>4. ASSUME NEW u \in Tab, NEW f \in left, starred'[u] PROVE page[u] # fav[f]
  <2>1. CASE starred[u]
    BY <2>1 DEF FavInv, LeftOutOfReach
  <2>2. CASE ~starred[u]
    <3>1. Hear(c, u) /\ call[c] # Idle /\ call[c].step = "ok" /\ call[c].tab = u
      BY <1>4, <2>2 DEF Hear, End, FavInv, TypeOK
    <3>2. page[u] = call[c].pet /\ call[c].pet # fav[f]
      BY <3>1, FavoritesAssumption DEF FavInv, LeftOutOfReach
    <3>. QED
      BY <3>2
  <2>. QED
    BY <2>1, <2>2
<1>5. \A d \in Call \ {c} : call[d] # Idle => SpeaksNext(call[d])
  BY <1>1, <1>2, StaysSound
<1>6. OneRowPerPet'
  BY <1>1 DEF FavInv, OneRowPerPet
<1>7. SlotOk(c, Idle)
  BY <1>1, <1>2, <1>3, <1>4, <1>5, <1>6 DEF SlotOk
<1>. QED
  BY <1>7, SlotStep

LEMMA GiveUpStep ==
    ASSUME FavInv, NEW c \in Call, GiveUp(c)
    PROVE  FavInv'
<1> DEFINE q == [call[c] EXCEPT !.tab = NoTab]
<1>1. call[c] # Idle /\ call[c] \in Toggle /\ lastFav \in 0 .. MaxFav /\ lastFav \in Nat
  BY CallKinds, FavoritesAssumption DEF GiveUp, FavInv, TypeOK
<1>2. /\ q \in Toggle /\ q.op = call[c].op /\ q.pet = call[c].pet /\ q.tab = NoTab
      /\ q.step = call[c].step /\ q.fav = call[c].fav
  BY <1>1, ToggleOrphaned
<1>3. call' = [call EXCEPT ![c] = q] /\ UNCHANGED <<fav, lastFav, page, starred>> /\ Leaves
  BY DEF GiveUp, table
<1> HIDE DEF q
<1>4. \A d \in Call : call[d] # Idle => SpeaksNext(call[d])
  BY <1>1, <1>3, StaysSound
<1>5. SpeaksNext(q)
  BY <1>1, <1>2, <1>4 DEF SpeaksNext
<1>6. \A f \in left : OutOfReachNext(q, f)
  BY <1>1, <1>2, <1>3 DEF OutOfReachNext, FavInv, LeftOutOfReach
<1>7. fav' \in [FavId -> Pet \cup {NoPet}] /\ starred' \in [Tab -> BOOLEAN] /\ OneRowPerPet'
  BY <1>3 DEF FavInv, TypeOK, OneRowPerPet
<1>8. \A u \in Tab, f \in left : starred'[u] => page[u] # fav[f]
  BY <1>3 DEF FavInv, LeftOutOfReach
<1>9. SlotOk(c, q)
  BY <1>1, <1>2, <1>3, <1>4, <1>5, <1>6, <1>7, <1>8 DEF SlotOk
<1>. QED
  BY <1>9, SlotStep

LEMMA VisitStep ==
    ASSUME FavInv, NEW t \in Tab, NEW p \in Pet \cup {NoPet}, Visit(t, p)
    PROVE  FavInv'
<1>1. /\ lastFav \in Nat /\ call \in [Call -> {Idle} \cup Toggle] /\ UNCHANGED <<fav, lastFav>>
      /\ page' = [page EXCEPT ![t] = p] /\ starred' = [starred EXCEPT ![t] = FALSE] /\ Leaves
      /\ page \in [Tab -> Pet \cup {NoPet}] /\ starred \in [Tab -> BOOLEAN]
  BY FavoritesAssumption DEF Visit, table, FavInv, TypeOK
<1>2. ASSUME NEW c \in Call, call'[c] # Idle
      PROVE  /\ call[c] # Idle /\ call[c] \in Toggle /\ call'[c] \in Toggle
             /\ call'[c].op = call[c].op /\ call'[c].pet = call[c].pet
             /\ call'[c].step = call[c].step /\ call'[c].fav = call[c].fav
             /\ call'[c].tab = IF call[c].tab = t THEN NoTab ELSE call[c].tab
  <2>1. call'[c] = IF call[c] # Idle /\ call[c].tab = t
                   THEN [call[c] EXCEPT !.tab = NoTab] ELSE call[c]
    BY DEF Visit
  <2>2. call[c] # Idle /\ call[c] \in Toggle
    BY <1>1, <1>2, <2>1
  <2>. QED
    BY <2>1, <2>2, ToggleOrphaned
<1>3. TypeNext
  <2>1. \A c \in Call : call'[c] \in {Idle} \cup Toggle
    BY <1>2
  <2>2. call' \in [Call -> {Idle} \cup Toggle]
    BY <2>1 DEF Visit
  <2>. QED
    BY <1>1, <2>2 DEF TypeNext, FavInv, TypeOK, Leaves
<1>4. \A c \in Call : call'[c] # Idle => SpeaksNext(call'[c])
  <2>1. \A c \in Call : call[c] # Idle => SpeaksNext(call[c])
    BY <1>1, StaysSound
  <2>. QED
    BY <1>2, <2>1 DEF SpeaksNext
<1>5. ASSUME NEW f \in left'
      PROVE  /\ fav'[f] # NoPet
             /\ \A u \in Tab : starred'[u] => page'[u] # fav'[f]
             /\ \A c \in Call : call'[c] # Idle => OutOfReachNext(call'[c], f)
  <2>1. f \in FavId /\ fav'[f] # NoPet /\ (f \in left \/ Quiet')
    BY <1>1, <1>5 DEF Leaves
  <2>2. CASE Quiet'
    BY <2>1, <2>2 DEF Quiet
  <2>3. CASE f \in left
    <3>1. \A u \in Tab : starred'[u] => page'[u] # fav'[f]
      BY <1>1, <2>3 DEF FavInv, LeftOutOfReach
    <3>2. ASSUME NEW c \in Call, call'[c] # Idle PROVE OutOfReachNext(call'[c], f)
      <4>1. call[c].tab # NoTab => call[c].tab \in Tab
        BY <1>2, <3>2 DEF Toggle
      <4>. QED
        BY <1>1, <1>2, <2>3, <3>2, <4>1 DEF OutOfReachNext, FavInv, LeftOutOfReach
    <3>. QED
      BY <2>1, <3>1, <3>2
  <2>. QED
    BY <2>1, <2>2, <2>3
<1>6. OneRowPerPet'
  BY <1>1 DEF FavInv, OneRowPerPet
<1>. QED
  BY <1>3, <1>4, <1>5, <1>6, InvNext

LEMMA JumpStep ==
    ASSUME FavInv, NEW t \in Tab, NEW p \in Pet, Jump(t, p)
    PROVE  FavInv'
<1>1. /\ lastFav \in Nat /\ UNCHANGED <<fav, lastFav, starred, call>>
      /\ page' = [page EXCEPT ![t] = p] /\ page \in [Tab -> Pet \cup {NoPet}]
      /\ left' = IF starred[t] \/ Loading(t) THEN {} ELSE left
  BY FavoritesAssumption DEF Jump, table, FavInv, TypeOK
<1>2. TypeNext
  BY <1>1 DEF TypeNext, FavInv, TypeOK
<1>3. \A c \in Call : call'[c] # Idle => SpeaksNext(call'[c])
  BY <1>1, StaysSound
<1>4. ASSUME NEW f \in left'
      PROVE  /\ fav'[f] # NoPet
             /\ \A u \in Tab : starred'[u] => page'[u] # fav'[f]
             /\ \A c \in Call : call'[c] # Idle => OutOfReachNext(call'[c], f)
  <2>1. ~starred[t] /\ ~Loading(t) /\ f \in left
    BY <1>1, <1>4
  <2>2. \A u \in Tab : starred'[u] => page'[u] # fav'[f]
    BY <1>1, <2>1 DEF FavInv, LeftOutOfReach
  <2>3. \A c \in Call : call'[c] # Idle => OutOfReachNext(call'[c], f)
    BY <1>1, <2>1 DEF OutOfReachNext, Loading, FavInv, LeftOutOfReach
  <2>. QED
    BY <1>1, <2>1, <2>2, <2>3 DEF FavInv, LeftOutOfReach
<1>5. OneRowPerPet'
  BY <1>1 DEF FavInv, OneRowPerPet
<1>. QED
  BY <1>2, <1>3, <1>4, <1>5, InvNext

\* Requests that end without the table changing.
LEMMA AnswerStep ==
    ASSUME FavInv, NEW c \in Call,
           AddDuplicate(c) \/ Find(c) \/ FindNone(c) \/ RequestFails(c)
    PROVE  FavInv'
<1>1. /\ call[c] # Idle /\ lastFav \in 0 .. MaxFav /\ lastFav \in Nat
      /\ UNCHANGED <<table, page, starred>> /\ Leaves
  BY CallKinds, FavoritesAssumption
     DEF AddDuplicate, Find, FindNone, RequestFails, At, FavInv, TypeOK
<1>2. CASE Find(c)
  <2>1. PICK f \in RowsOf(call[c].pet) : Reaches(c, "found", f)
    BY <1>2 DEF Find
  <2>2. call[c].op = "remove" /\ call[c].pet \in Pet
    BY <1>1, <1>2, CallKinds DEF Find, At, FavInv, Toggle
  <2>3. f \in FavId /\ fav[f] = call[c].pet /\ f <= lastFav
    BY <2>2, FavoritesAssumption DEF RowsOf, FavInv, OneRowPerPet
  <2>4. f \in 0 .. MaxFav /\ f # 0
    BY <2>3, FavoritesAssumption DEF FavId
  <2>. QED
    BY <1>1, <2>1, <2>2, <2>3, <2>4, ReachesStep
<1>3. CASE Reaches(c, "failed", 0)
  <2>1. 0 \in 0 .. MaxFav /\ 0 <= lastFav
    BY <1>1, FavoritesAssumption
  <2>. QED
    BY <1>1, <1>3, <2>1, ReachesStep
<1>. QED
  BY <1>2, <1>3 DEF AddDuplicate, FindNone, RequestFails

LEMMA InvStep == FavInv /\ [Next]_vars => FavInv'
<1>. SUFFICES ASSUME FavInv, [Next]_vars PROVE FavInv'
  OBVIOUS
<1>1. ASSUME NEW t \in Tab, NEW p \in Pet \cup {NoPet}, Visit(t, p) PROVE FavInv'
  BY <1>1, VisitStep
<1>2. ASSUME NEW t \in Tab, NEW p \in Pet, Jump(t, p) PROVE FavInv'
  BY <1>2, JumpStep
<1>3. ASSUME NEW t \in Tab, NEW c \in Call, Click(t, c) \/ Hear(c, t) PROVE FavInv'
  BY <1>3, ClickStep, HearStep
<1>4. ASSUME NEW c \in Call, Serves(c) PROVE FavInv'
  BY <1>4, AddStep, DeleteStep, AnswerStep DEF Serves
<1>5. ASSUME NEW c \in Call, GiveUp(c) \/ End(c) PROVE FavInv'
  BY <1>5, GiveUpStep, HearStep
<1>6. CASE UNCHANGED vars
  BY <1>6 DEF vars, table, FavInv, TypeOK, OneRowPerPet, SpeaksOfItsPet, LeftOutOfReach
<1>. QED
  BY <1>1, <1>2, <1>3, <1>4, <1>5, <1>6 DEF Next

\* The tables, the pages and the requests agree as FavInv says, however many
\* pages toggle how many favorites at once.
THEOREM FavInvariant == Spec => []FavInv
<1>. QED
  BY InitInv, InvStep, PTL DEF Spec

-----------------------------------------------------------------------------
\* Only a removal takes a row away, and only the row it has found.
LEMMA RemovalStep ==
    ASSUME FavInv, [Next]_vars, NEW f \in FavId, fav[f] # NoPet, fav'[f] = NoPet
    PROVE  \E c \in Call : At(c, "remove", "found") /\ call[c].fav = f
<1>1. fav # fav' /\ fav \in [FavId -> Pet \cup {NoPet}]
  BY DEF FavInv, TypeOK
<1>2. ASSUME NEW c \in Call, AddRow(c) PROVE FALSE
  BY <1>1, <1>2, CallKinds, FavoritesAssumption DEF AddRow, At, FavInv, Toggle
<1>3. ASSUME NEW c \in Call, DeleteRow(c) PROVE At(c, "remove", "found") /\ call[c].fav = f
  BY <1>1, <1>3 DEF DeleteRow
<1>. QED
  BY <1>1, <1>2, <1>3
     DEF Next, Serves, vars, table, Visit, Jump, Click, Hear, GiveUp, End, AddDuplicate, Find,
         FindNone, RequestFails

\* A favorite made after a removal has looked is not its victim.
THEOREM RemovesFound == Spec => RemovesWhatItFound
<1>1. FavInv /\ [Next]_vars =>
         [\A f \in FavId : fav[f] # NoPet /\ fav'[f] = NoPet =>
             \E c \in Call : At(c, "remove", "found") /\ call[c].fav = f]_vars
  BY RemovalStep
<1>. QED
  BY <1>1, FavInvariant, PTL DEF Spec, RemovesWhatItFound

\* What the button of a page opened later cannot do: remove a favorite that no
\* page has shown since.
THEOREM LeftFavoriteStays == Spec => LeftStays
<1>1. FavInv /\ [Next]_vars => [\A f \in left : fav'[f] # NoPet]_vars
  <2>. SUFFICES ASSUME FavInv, [Next]_vars, NEW f \in left, fav'[f] = NoPet PROVE FALSE
    OBVIOUS
  <2>1. f \in FavId /\ fav[f] # NoPet
    BY DEF FavInv, TypeOK, LeftOutOfReach
  <2>2. PICK c \in Call : At(c, "remove", "found") /\ call[c].fav = f
    BY <2>1, RemovalStep
  <2>3. call[c] # Idle /\ f # 0
    BY <2>1, <2>2, CallKinds, FavoritesAssumption DEF At, FavInv, FavId
  <2>4. fav[f] = call[c].pet
    BY <2>1, <2>2, <2>3 DEF FavInv, SpeaksOfItsPet
  <2>. QED
    BY <2>2, <2>3, <2>4 DEF At, FavInv, LeftOutOfReach
<1>. QED
  BY <1>1, FavInvariant, PTL DEF Spec, LeftStays
=============================================================================
