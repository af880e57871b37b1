---------------------------- MODULE PagesProofs ----------------------------
(***************************************************************************)
(* Proofs about the pages (Pages), for tables, pages of a list and numbers *)
(* of calls of any size: the comments and likes the server keeps, the      *)
(* lists, an organization's page and a post's page.                        *)
(*                                                                         *)
(* The lists and a post's page hear the answers of their loads in any      *)
(* order and show the last they hear.  One argument serves both.  Of the   *)
(* loads of one kind, oldest first, those that a newer one has overtaken   *)
(* come first (LateFirst): so when the newest that nothing overtook is     *)
(* about what is selected, it stays so until it is heard, and what is      *)
(* shown once none is left is what it brought.  On top of that:            *)
(*   - the lists (ListInv) keep what each call has read, so that the count *)
(*     and the rows of one answer are compared, and each click on an       *)
(*     application keeps the status the click asked for;                   *)
(*   - a post's page (PostInv) keeps, for its newest load, that it has     *)
(*     every like and comment the page was told of.  The likes still       *)
(*     waited for are counted: those heard of and those waited for are     *)
(*     together no more than the counter, so a load asked for after the    *)
(*     answer has them all;                                                *)
(*   - an organization's page (OrgInv) has one chain, each of whose loads  *)
(*     is about the organization of the address.                           *)
(***************************************************************************)
EXTENDS Pages, FiniteSetTheorems, SequenceTheorems, TLAPS

(* Sequences. *)

IsASequence(s) == s \in Seq(Range(s))

LEMMA Indices ==
    ASSUME NEW s, IsASequence(s)
    PROVE  Len(s) \in Nat /\ DOMAIN s = 1 .. Len(s) /\ \A c \in DOMAIN s : c \in Nat
BY LenProperties DEF IsASequence

LEMMA Appended ==
    ASSUME NEW s, IsASequence(s), NEW e
    PROVE  /\ IsASequence(Append(s, e)) /\ Len(Append(s, e)) = Len(s) + 1
           /\ DOMAIN Append(s, e) = 1 .. Len(s) + 1
           /\ \A k \in 1 .. Len(s) + 1 : Append(s, e)[k] = IF k <= Len(s) THEN s[k] ELSE e
<1>. DEFINE S == Range(s) \cup {e}
<1>1. s \in Seq(S)
  BY SeqMonotonic DEF IsASequence
<1>2. Append(s, e) \in Seq(S)
  BY <1>1, AppendProperties
<1>3. Len(s) \in Nat /\ Len(Append(s, e)) = Len(s) + 1
  BY <1>1, AppendProperties
<1>4. DOMAIN Append(s, e) = 1 .. Len(s) + 1
  BY <1>2, <1>3, LenProperties
<1>5. \A k \in 1 .. Len(s) : Append(s, e)[k] = s[k]
  BY <1>1, AppendProperties
<1>6. Append(s, e)[Len(s) + 1] = e
  BY <1>1, AppendProperties
<1>7. \A k \in 1 .. Len(s) + 1 : Append(s, e)[k] = IF k <= Len(s) THEN s[k] ELSE e
  BY <1>3, <1>5, <1>6
<1>8. IsASequence(Append(s, e))
  BY <1>2, SeqOfRange DEF IsASequence
<1>. QED
  BY <1>3, <1>4, <1>7, <1>8

LEMMA Removed ==
    ASSUME NEW s, IsASequence(s), NEW i \in DOMAIN s
    PROVE  /\ IsASequence(RemoveAt(s, i)) /\ Len(RemoveAt(s, i)) = Len(s) - 1
           /\ DOMAIN RemoveAt(s, i) = 1 .. Len(s) - 1
           /\ \A k \in 1 .. Len(s) - 1 : RemoveAt(s, i)[k] = IF k < i THEN s[k] ELSE s[k + 1]
<1>. DEFINE S == Range(s)
            a == SubSeq(s, 1, i - 1)
            b == SubSeq(s, i + 1, Len(s))
<1>1. s \in Seq(S) /\ Len(s) \in Nat /\ i \in 1 .. Len(s)
  BY LenProperties DEF IsASequence
<1>2. \A k \in 1 .. Len(s) : s[k] \in S
  BY <1>1, ElementOfSeq
<1>3. /\ a \in Seq(S) /\ Len(a) = i - 1 /\ \A k \in 1 .. i - 1 : a[k] = s[k]
  BY <1>1, <1>2, SubSeqProperties
<1>4. /\ b \in Seq(S) /\ Len(b) = Len(s) - i
      /\ \A k \in 1 .. Len(s) - i : b[k] = s[k + i]
  BY <1>1, <1>2, SubSeqProperties
<1>. HIDE DEF S, a, b
<1>5. /\ a \o b \in Seq(S) /\ Len(a \o b) = Len(s) - 1
      /\ \A k \in 1 .. Len(s) - 1 : (a \o b)[k] = IF k <= i - 1 THEN a[k] ELSE b[k - (i - 1)]
  BY <1>1, <1>3, <1>4, ConcatProperties
<1>6. \A k \in 1 .. Len(s) - 1 : (a \o b)[k] = IF k < i THEN s[k] ELSE s[k + 1]
  <2>. TAKE k \in 1 .. Len(s) - 1
  <2>1. CASE k < i
    BY <1>1, <1>3, <1>5, <2>1
  <2>2. CASE ~(k < i)
    <3>1. k - (i - 1) \in 1 .. Len(s) - i /\ (k - (i - 1)) + i = k + 1 /\ ~(k <= i - 1)
      BY <1>1, <2>2
    <3>. QED
      BY <1>4, <1>5, <2>2, <3>1
  <2>. QED
    BY <2>1, <2>2
<1>7. RemoveAt(s, i) = a \o b
  BY DEF RemoveAt, a, b
<1>. QED
  BY <1>5, <1>6, <1>7, SeqOfRange, LenProperties DEF IsASequence

LEMMA Replaced ==
    ASSUME NEW s, IsASequence(s), NEW t, DOMAIN t = DOMAIN s, t = [k \in DOMAIN s |-> t[k]]
    PROVE  IsASequence(t) /\ Len(t) = Len(s)
<1>1. s \in Seq(Range(s)) /\ Len(s) \in Nat /\ DOMAIN s = 1 .. Len(s)
  BY LenProperties DEF IsASequence
<1>2. t \in [1 .. Len(s) -> Range(t)]
  BY <1>1 DEF Range
<1>3. t \in Seq(Range(t))
  BY <1>1, <1>2, SeqDef
<1>. QED
  BY <1>1, <1>3, LenProperties DEF IsASequence

-----------------------------------------------------------------------------
(* What is under way, oldest first.  The loads are those whose field f is  *)
(* in K: for the lists f is "at", for a post's page it is "part".          *)

NewestOf(f, K, s, c) == c \in DOMAIN s /\ s[c][f] \in K /\ \A b \in DOMAIN s : b > c => s[b][f] \notin K
LateFirst(f, K, s) ==
    \A b, c \in DOMAIN s : b < c /\ s[b][f] \in K /\ s[c][f] \in K /\ s[c].late => s[b].late
AllLate(f, K, s) == \A c \in DOMAIN s : s[c][f] \in K => s[c].late

\* A load with one more after it; the same load made late.
Added(s, e) == Append(s, e)
MadeLate(e) == [e EXCEPT !.late = TRUE]

\* A load is added: it is the newest.
LEMMA LoadAdded ==
    ASSUME NEW f, NEW K, NEW s, IsASequence(s), NEW l, l[f] \in K, ~l.late, NEW t, t = Added(s, l)
    PROVE  /\ LateFirst(f, K, s) => LateFirst(f, K, t)
           /\ \A c \in DOMAIN t : NewestOf(f, K, t, c) => t[c] = l
           /\ ~AllLate(f, K, t)
<1>1. /\ Len(s) \in Nat /\ DOMAIN s = 1 .. Len(s) /\ DOMAIN t = 1 .. Len(s) + 1
      /\ \A k \in 1 .. Len(s) + 1 : t[k] = IF k <= Len(s) THEN s[k] ELSE l
  BY Appended, Indices DEF Added
<1>2. Len(s) + 1 \in DOMAIN t /\ t[Len(s) + 1] = l
  BY <1>1
<1>3. ASSUME LateFirst(f, K, s), NEW b \in DOMAIN t, NEW c \in DOMAIN t,
             b < c, t[b][f] \in K, t[c][f] \in K, t[c].late
      PROVE  t[b].late
  <2>1. c # Len(s) + 1
    BY <1>2, <1>3
  <2>2. b \in DOMAIN s /\ c \in DOMAIN s /\ t[b] = s[b] /\ t[c] = s[c]
    BY <1>1, <1>3, <2>1
  <2>. QED
    BY <1>3, <2>2 DEF LateFirst
<1>4. ASSUME NEW c \in DOMAIN t, NewestOf(f, K, t, c) PROVE t[c] = l
  <2>1. ~(Len(s) + 1 > c)
    BY <1>2, <1>4 DEF NewestOf
  <2>. QED
    BY <1>1, <1>2, <2>1
<1>. QED
  BY <1>2, <1>3, <1>4 DEF LateFirst, AllLate

\* A call of another kind is added.
LEMMA OtherAdded ==
    ASSUME NEW f, NEW K, NEW s, IsASequence(s), NEW e, e[f] \notin K, NEW t, t = Added(s, e)
    PROVE  /\ LateFirst(f, K, s) => LateFirst(f, K, t)
           /\ \A c \in DOMAIN t : NewestOf(f, K, t, c) => NewestOf(f, K, s, c) /\ t[c] = s[c]
           /\ AllLate(f, K, t) => AllLate(f, K, s)
<1>1. /\ Len(s) \in Nat /\ DOMAIN s = 1 .. Len(s) /\ DOMAIN t = 1 .. Len(s) + 1
      /\ \A k \in 1 .. Len(s) + 1 : t[k] = IF k <= Len(s) THEN s[k] ELSE e
  BY Appended, Indices DEF Added
<1>2. ASSUME NEW c \in DOMAIN t, t[c][f] \in K PROVE c \in DOMAIN s /\ t[c] = s[c]
  BY <1>1, <1>2
<1>3. \A c \in DOMAIN s : c \in DOMAIN t /\ t[c] = s[c]
  BY <1>1
<1>. QED
  BY <1>2, <1>3 DEF LateFirst, AllLate, NewestOf

\* A call is replaced by one that is as much a load, and as late, as it was.
LEMMA CallReplaced ==
    ASSUME NEW f, NEW K, NEW s, NEW c \in DOMAIN s, NEW e,
           e[f] \in K <=> s[c][f] \in K, e[f] \in K => (e.late <=> s[c].late),
           NEW t, t = [s EXCEPT ![c] = e]
    PROVE  /\ LateFirst(f, K, s) => LateFirst(f, K, t)
           /\ \A d \in DOMAIN t : NewestOf(f, K, t, d) => NewestOf(f, K, s, d) /\ (t[d].late <=> s[d].late)
           /\ AllLate(f, K, t) => AllLate(f, K, s)
<1>1. DOMAIN t = DOMAIN s /\ \A d \in DOMAIN s : t[d] = IF d = c THEN e ELSE s[d]
  OBVIOUS
<1>2. \A d \in DOMAIN s : (t[d][f] \in K <=> s[d][f] \in K) /\ (t[d][f] \in K => (t[d].late <=> s[d].late))
  BY <1>1
<1>. QED
  BY <1>1, <1>2 DEF LateFirst, AllLate, NewestOf

\* What goes leaves the others in their order.
LEMMA Gone ==
    ASSUME NEW f, NEW K, NEW s, IsASequence(s), NEW c \in DOMAIN s, NEW t, t = RemoveAt(s, c)
    PROVE  /\ IsASequence(t)
           /\ \A d \in DOMAIN t : \E e \in DOMAIN s : e # c /\ t[d] = s[e] /\ e = IF d < c THEN d ELSE d + 1
           /\ \A e \in DOMAIN s : e # c =>
                 \E d \in DOMAIN t : t[d] = s[e] /\ e = IF d < c THEN d ELSE d + 1
           /\ \A d \in DOMAIN t : d \in Nat
           /\ LateFirst(f, K, s) => LateFirst(f, K, t)
<1>1. /\ IsASequence(t) /\ Len(s) \in Nat /\ DOMAIN s = 1 .. Len(s) /\ DOMAIN t = 1 .. Len(s) - 1
      /\ \A k \in 1 .. Len(s) - 1 : t[k] = IF k < c THEN s[k] ELSE s[k + 1]
      /\ c \in 1 .. Len(s)
  BY Removed, Indices
<1>2. ASSUME NEW d \in DOMAIN t
      PROVE  \E e \in DOMAIN s : e # c /\ t[d] = s[e] /\ e = IF d < c THEN d ELSE d + 1
  <2>1. CASE d < c
    BY <1>1, <2>1
  <2>2. CASE ~(d < c)
    BY <1>1, <2>2
  <2>. QED
    BY <2>1, <2>2
<1>3. ASSUME NEW e \in DOMAIN s, e # c
      PROVE  \E d \in DOMAIN t : t[d] = s[e] /\ e = IF d < c THEN d ELSE d + 1
  <2>1. CASE e < c
    BY <1>1, <2>1
  <2>2. CASE e > c
    <3>1. e - 1 \in DOMAIN t /\ ~(e - 1 < c) /\ e = (e - 1) + 1
      BY <1>1, <2>2
    <3>. QED
      BY <1>1, <3>1
  <2>. QED
    BY <1>1, <1>3, <2>1, <2>2
<1>4. ASSUME LateFirst(f, K, s) PROVE LateFirst(f, K, t)
  <2>. SUFFICES ASSUME NEW a \in DOMAIN t, NEW b \in DOMAIN t,
                       a < b, t[a][f] \in K, t[b][f] \in K, t[b].late
                PROVE  t[a].late
    BY DEF LateFirst
  <2>1. PICK e \in DOMAIN s : t[a] = s[e] /\ e = IF a < c THEN a ELSE a + 1
    BY <1>2
  <2>2. PICK h \in DOMAIN s : t[b] = s[h] /\ h = IF b < c THEN b ELSE b + 1
    BY <1>2
  <2>3. e < h
    BY <1>1, <2>1, <2>2
  <2>. QED
    BY <1>4, <2>1, <2>2, <2>3 DEF LateFirst
<1>5. \A d \in DOMAIN t : d \in Nat
  BY <1>1
<1>. QED
  BY <1>1, <1>2, <1>3, <1>4, <1>5

\* A call goes, and is not the newest load with nothing heard after it.
LEMMA CallGone ==
    ASSUME NEW f, NEW K, NEW s, IsASequence(s), LateFirst(f, K, s), NEW c \in DOMAIN s, NEW t, t = RemoveAt(s, c),
           NewestOf(f, K, s, c) => s[c].late
    PROVE  /\ IsASequence(t) /\ LateFirst(f, K, t)
           /\ \A d \in DOMAIN t : NewestOf(f, K, t, d) /\ ~t[d].late =>
                 \E e \in DOMAIN s : NewestOf(f, K, s, e) /\ s[e] = t[d]
           /\ AllLate(f, K, t) => AllLate(f, K, s)
<1>1. \A b \in DOMAIN s : b \in Nat
  BY Indices
<1>2. /\ \A d \in DOMAIN t : \E e \in DOMAIN s : e # c /\ t[d] = s[e] /\ e = IF d < c THEN d ELSE d + 1
      /\ \A e \in DOMAIN s : e # c =>
            \E d \in DOMAIN t : t[d] = s[e] /\ e = IF d < c THEN d ELSE d + 1
      /\ \A d \in DOMAIN t : d \in Nat
      /\ IsASequence(t) /\ LateFirst(f, K, t)
  BY Gone
<1>5. AllLate(f, K, t) => AllLate(f, K, s)
  <2>. SUFFICES ASSUME AllLate(f, K, t), NEW e \in DOMAIN s, s[e][f] \in K PROVE s[e].late
    BY DEF AllLate
  <2>1. CASE e # c
    BY <1>2, <2>1 DEF AllLate
  <2>2. CASE e = c /\ ~NewestOf(f, K, s, c)
    <3>1. PICK h \in DOMAIN s : h > c /\ s[h][f] \in K
      BY <2>2 DEF NewestOf
    <3>2. c < h /\ h # c
      BY <1>1, <3>1
    <3>3. s[h].late
      BY <1>2, <3>1, <3>2 DEF AllLate
    <3>. QED
      BY <2>2, <3>1, <3>2, <3>3 DEF LateFirst
  <2>. QED
    BY <2>1, <2>2
<1>6. ASSUME NEW d \in DOMAIN t, NewestOf(f, K, t, d), ~t[d].late
      PROVE  \E e \in DOMAIN s : NewestOf(f, K, s, e) /\ s[e] = t[d]
  <2>1. PICK e \in DOMAIN s : e # c /\ t[d] = s[e] /\ e = IF d < c THEN d ELSE d + 1
    BY <1>2
  <2>2. ASSUME NEW h \in DOMAIN s, h > e, h # c PROVE s[h][f] \notin K
    <3>1. PICK g \in DOMAIN t : t[g] = s[h] /\ h = IF g < c THEN g ELSE g + 1
      BY <1>2, <2>2
    <3>2. g > d
      BY <1>1, <1>2, <2>1, <2>2, <3>1
    <3>. QED
      BY <1>6, <3>1, <3>2 DEF NewestOf
  <2>3. ASSUME c > e PROVE s[c][f] \notin K
    <3>. SUFFICES ASSUME s[c][f] \in K PROVE FALSE
      OBVIOUS
    <3>1. \A h \in DOMAIN s : h > c => h > e /\ h # c
      BY <1>1, <2>3
    <3>2. NewestOf(f, K, s, c)
      BY <2>2, <3>1 DEF NewestOf
    <3>3. e < c /\ s[c].late
      BY <1>1, <2>3, <3>2
    <3>4. s[e].late
      BY <1>6, <2>1, <3>3 DEF LateFirst, NewestOf
    <3>. QED
      BY <1>6, <2>1, <3>4
  <2>4. s[e][f] \in K
    BY <1>6, <2>1 DEF NewestOf
  <2>5. NewestOf(f, K, s, e)
    BY <2>2, <2>3, <2>4 DEF NewestOf
  <2>. QED
    BY <2>1, <2>5
<1>. QED
  BY <1>2, <1>5, <1>6

\* A load is heard: the older loads are late from now on, and it is gone.
Marked(f, K, s, c) ==
    [b \in DOMAIN s |-> IF b < c /\ s[b][f] \in K THEN MadeLate(s[b]) ELSE s[b]]

LEMMA LoadHeard ==
    ASSUME NEW f, NEW K, NEW s, IsASequence(s), LateFirst(f, K, s), NEW c \in DOMAIN s, s[c][f] \in K,
           \A b \in DOMAIN s : s[b][f] \in K =>
              "late" \in DOMAIN s[b] /\ MadeLate(s[b])[f] \in K,
           NEW t, t = RemoveAt(Marked(f, K, s, c), c)
    PROVE  /\ IsASequence(t) /\ LateFirst(f, K, t)
           /\ \A d \in DOMAIN t : \E e \in DOMAIN s :
                 t[d] = s[e] \/ (s[e][f] \in K /\ t[d] = MadeLate(s[e]))
           /\ \A d \in DOMAIN t : NewestOf(f, K, t, d) /\ ~t[d].late =>
                 \E e \in DOMAIN s : NewestOf(f, K, s, e) /\ s[e] = t[d]
           /\ AllLate(f, K, t) /\ ~s[c].late => NewestOf(f, K, s, c)
<1>. DEFINE m == Marked(f, K, s, c)
<1>1. /\ DOMAIN m = DOMAIN s
      /\ \A b \in DOMAIN s : m[b] = IF b < c /\ s[b][f] \in K THEN MadeLate(s[b]) ELSE s[b]
      /\ m = [b \in DOMAIN m |-> m[b]]
  BY DEF Marked
<1>. HIDE DEF m
<1>2. IsASequence(m)
  BY <1>1, Replaced
<1>3. Len(s) \in Nat /\ DOMAIN s = 1 .. Len(s) /\ \A b \in DOMAIN s : b \in Nat
  BY Indices
<1>4. \A b \in DOMAIN s : /\ m[b][f] \in K <=> s[b][f] \in K
                          /\ s[b][f] \in K => (m[b].late <=> (b < c \/ s[b].late))
                          /\ b >= c => m[b] = s[b]
  <2>. TAKE b \in DOMAIN s
  <2>1. CASE b < c /\ s[b][f] \in K
    <3>1. m[b] = MadeLate(s[b]) /\ m[b][f] \in K /\ ~(b >= c)
      BY <1>1, <1>3, <2>1
    <3>2. m[b].late
      BY <2>1, <3>1 DEF MadeLate
    <3>. QED
      BY <2>1, <3>1, <3>2
  <2>2. CASE ~(b < c /\ s[b][f] \in K)
    BY <1>1, <2>2
  <2>. QED
    BY <2>1, <2>2
<1>5. LateFirst(f, K, m)
  <2>. SUFFICES ASSUME NEW a \in DOMAIN m, NEW b \in DOMAIN m, a < b, m[a][f] \in K, m[b][f] \in K, m[b].late
                PROVE  m[a].late
    BY DEF LateFirst
  <2>1. a \in DOMAIN s /\ b \in DOMAIN s /\ s[a][f] \in K /\ s[b][f] \in K
    BY <1>1, <1>4
  <2>2. CASE b < c
    BY <1>3, <1>4, <2>1, <2>2
  <2>3. CASE ~(b < c)
    <3>1. s[b].late
      BY <1>4, <2>1, <2>3
    <3>2. s[a].late
      BY <2>1, <3>1 DEF LateFirst
    <3>. QED
      BY <1>4, <2>1, <3>2
  <2>. QED
    BY <2>2, <2>3
<1>6. c \in DOMAIN m /\ t = RemoveAt(m, c)
  BY <1>1 DEF m
<1>7. /\ \A d \in DOMAIN t : \E e \in DOMAIN m : e # c /\ t[d] = m[e] /\ e = IF d < c THEN d ELSE d + 1
      /\ \A e \in DOMAIN m : e # c => \E d \in DOMAIN t : t[d] = m[e] /\ e = IF d < c THEN d ELSE d + 1
      /\ \A d \in DOMAIN t : d \in Nat
      /\ IsASequence(t) /\ LateFirst(f, K, t)
  BY <1>2, <1>5, <1>6, Gone
<1>8. ASSUME NEW d \in DOMAIN t
      PROVE  \E e \in DOMAIN s :
                t[d] = s[e] \/ (s[e][f] \in K /\ t[d] = MadeLate(s[e]))
  <2>1. PICK e \in DOMAIN m : t[d] = m[e]
    BY <1>7
  <2>. QED
    BY <1>1, <2>1
<1>9. ASSUME NEW d \in DOMAIN t, NewestOf(f, K, t, d), ~t[d].late
      PROVE  \E e \in DOMAIN s : NewestOf(f, K, s, e) /\ s[e] = t[d]
  <2>1. PICK e \in DOMAIN m : e # c /\ t[d] = m[e] /\ e = IF d < c THEN d ELSE d + 1
    BY <1>7
  <2>2. e \in DOMAIN s /\ s[e][f] \in K /\ e > c /\ s[e] = t[d]
    <3>1. e \in DOMAIN s /\ m[e][f] \in K /\ ~m[e].late
      BY <1>1, <1>9, <2>1 DEF NewestOf
    <3>2. e >= c
      BY <1>3, <1>4, <3>1
    <3>. QED
      BY <1>3, <1>4, <2>1, <3>1, <3>2
  <2>3. ASSUME NEW h \in DOMAIN s, h > e PROVE s[h][f] \notin K
    <3>1. h # c /\ h \in DOMAIN m /\ h >= c
      BY <1>1, <1>3, <2>2, <2>3
    <3>2. PICK g \in DOMAIN t : t[g] = m[h] /\ h = IF g < c THEN g ELSE g + 1
      BY <1>7, <3>1
    <3>3. g > d
      BY <1>3, <1>7, <2>1, <2>2, <2>3, <3>2
    <3>. QED
      BY <1>4, <1>9, <3>1, <3>2, <3>3 DEF NewestOf
  <2>. QED
    BY <2>2, <2>3 DEF NewestOf
<1>10. ASSUME AllLate(f, K, t), ~s[c].late PROVE NewestOf(f, K, s, c)
  <2>. SUFFICES ASSUME NEW h \in DOMAIN s, h > c, s[h][f] \in K PROVE FALSE
    BY DEF NewestOf
  <2>1. h # c /\ h \in DOMAIN m /\ m[h] = s[h] /\ c < h
    BY <1>1, <1>3
  <2>2. PICK g \in DOMAIN t : t[g] = m[h]
    BY <1>7, <2>1
  <2>3. s[h].late
    BY <1>10, <2>1, <2>2 DEF AllLate
  <2>. QED
    BY <1>10, <2>1, <2>3 DEF LateFirst
<1>. QED
  BY <1>7, <1>8, <1>9, <1>10

-----------------------------------------------------------------------------
(* The comments and likes. *)

CommentsInv ==
    /\ CommentInv /\ DeletedAtMostOnce
    /\ \A p \in Post : IsFiniteSet(CreatedOn(p))
    /\ \A c \in Comment : created[c] = NoRow => ~Exists(c) /\ deletedOk[c] = 0
    /\ \A r \in Req : req[r].op = "delete" => created[req[r].comment] # NoRow

LEMMA RequestIs ==
    ASSUME TypeOK, NEW r \in Req
    PROVE  /\ req[r].op = "create" => req[r] \in CreateReq /\ req[r].user \in User /\ req[r].post \in Post
           /\ req[r].op = "delete" => req[r] \in DeleteReq /\ req[r].comment \in Comment
<1>1. req[r] \in {Idle} \cup CreateReq \cup DeleteReq \cup LikeReq
  BY DEF TypeOK
<1>2. Idle.op = "idle"
  BY DEF Idle
<1>. QED
  BY <1>1, <1>2 DEF CreateReq, DeleteReq, LikeReq

LEMMA CommentsInit == Init => CommentsInv
<1>. SUFFICES ASSUME Init PROVE CommentsInv
  OBVIOUS
<1>. USE DEF Init
<1>1. TypeOK
  BY CommentAssumption DEF TypeOK
<1>2. \A p \in Post : CreatedOn(p) = {} /\ LiveOn(p) = {}
  <2>1. \A c \in Comment : created[c] = NoRow /\ ~Exists(c)
    BY DEF Exists
  <2>2. NoRow \notin Post
    BY NoRowAssumption
  <2>. QED
    BY <2>1, <2>2 DEF CreatedOn, LiveOn
<1>3. CounterCountsCreations /\ \A p \in Post : IsFiniteSet(CreatedOn(p))
  <2>. SUFFICES ASSUME NEW p \in Post
                PROVE  /\ commentCount[p] = SeedCount[p] + Cardinality(CreatedOn(p))
                       /\ LiveOn(p) \subseteq CreatedOn(p) /\ IsFiniteSet(CreatedOn(p))
    BY DEF CounterCountsCreations
  <2>1. Cardinality(CreatedOn(p)) = 0 /\ IsFiniteSet(CreatedOn(p))
    BY <1>2, FS_EmptySet
  <2>2. commentCount[p] = SeedCount[p] /\ SeedCount[p] \in Nat
    BY CommentAssumption
  <2>. QED
    BY <1>2, <2>1, <2>2
<1>. QED
  BY <1>1, <1>3 DEF CommentsInv, CommentInv, DeletedAtMostOnce, Exists, Idle

LEMMA CreateCommitKeeps ==
    ASSUME CommentsInv, NEW r \in Req, NEW c \in Comment, CreateCommit(r, c),
           NEW p \in Post, p = req[r].post
    PROVE  CommentsInv'
<1>. USE DEF CommentsInv, CommentInv, CreateCommit
<1>. DEFINE row == [user |-> req[r].user, post |-> p]
<1>1. row \in Row /\ row # NoRow /\ row.post = p /\ p # NoRow
  <2>1. row \in Row
    BY RequestIs DEF Row
  <2>2. p \in Post \cup Row /\ row \in Post \cup Row
    BY <2>1
  <2>. QED
    BY <2>1, <2>2, NoRowAssumption
<1>2. \A d \in Comment : /\ created'[d] = IF d = c THEN p ELSE created[d]
                         /\ comment'[d] = IF d = c THEN row ELSE comment[d]
  BY DEF TypeOK
<1>. HIDE DEF row
<1>3. ASSUME NEW q \in Post
      PROVE  /\ CreatedOn(q)' = IF q = p THEN CreatedOn(q) \cup {c} ELSE CreatedOn(q)
             /\ LiveOn(q)' = IF q = p THEN LiveOn(q) \cup {c} ELSE LiveOn(q)
             /\ c \notin CreatedOn(q)
  <2>1. ~Exists(c) /\ created[c] = NoRow /\ q # NoRow
    BY NoRowAssumption
  <2>. QED
    BY <1>1, <1>2, <2>1 DEF CreatedOn, LiveOn, Exists
<1>4. TypeOK'
  BY <1>1 DEF TypeOK, row
<1>5. CounterCountsCreations' /\ \A q \in Post : IsFiniteSet(CreatedOn(q))'
  <2>. SUFFICES ASSUME NEW q \in Post
                PROVE  /\ IsFiniteSet(CreatedOn(q)')
                       /\ commentCount'[q] = SeedCount[q] + Cardinality(CreatedOn(q)')
                       /\ LiveOn(q)' \subseteq CreatedOn(q)'
    BY DEF CounterCountsCreations
  <2>1. /\ IsFiniteSet(CreatedOn(q)) /\ LiveOn(q) \subseteq CreatedOn(q)
        /\ commentCount[q] = SeedCount[q] + Cardinality(CreatedOn(q))
        /\ Cardinality(CreatedOn(q)) \in Nat /\ SeedCount[q] \in Nat
    BY CommentAssumption, FS_CardinalityType DEF CounterCountsCreations
  <2>2. commentCount'[q] = IF q = p THEN commentCount[q] + 1 ELSE commentCount[q]
    BY DEF TypeOK
  <2>3. CASE q = p
    <3>1. /\ IsFiniteSet(CreatedOn(q) \cup {c})
          /\ Cardinality(CreatedOn(q) \cup {c}) = Cardinality(CreatedOn(q)) + 1
      BY <1>3, <2>1, FS_AddElement
    <3>2. CreatedOn(q)' = CreatedOn(q) \cup {c} /\ LiveOn(q)' = LiveOn(q) \cup {c}
      BY <1>3, <2>3
    <3>. QED
      BY <2>1, <2>2, <2>3, <3>1, <3>2
  <2>4. CASE q # p
    BY <1>3, <2>1, <2>2, <2>4
  <2>. QED
    BY <2>3, <2>4
<1>6. DeletedAtMostOnce' /\ \A d \in Comment : (created[d] = NoRow => ~Exists(d) /\ deletedOk[d] = 0)'
  BY <1>1, <1>2 DEF DeletedAtMostOnce, Exists
<1>7. \A q \in Req : (req[q].op = "delete" => created[req[q].comment] # NoRow)'
  <2>. SUFFICES ASSUME NEW q \in Req, req'[q].op = "delete"
                PROVE  created'[req'[q].comment] # NoRow
    OBVIOUS
  <2>1. req'[q] = req[q] /\ req[q].comment \in Comment
    BY RequestIs DEF TypeOK, Idle
  <2>. QED
    BY <1>1, <1>2, <2>1
<1>. QED
  BY <1>4, <1>5, <1>6, <1>7

LEMMA DeleteRowKeeps ==
    ASSUME CommentsInv, NEW r \in Req, DeleteRow(r),
           NEW c \in Comment, c = req[r].comment
    PROVE  CommentsInv'
<1>. USE DEF CommentsInv, CommentInv, DeleteRow
<1>1. \A d \in Comment : comment'[d] = IF d = c THEN NoRow ELSE comment[d]
  BY DEF TypeOK
<1>2. created[c] # NoRow /\ created' = created
  OBVIOUS
<1>3. \A d \in Comment : deletedOk'[d] = IF d = c /\ Exists(c) THEN deletedOk[d] + 1 ELSE deletedOk[d]
  BY DEF TypeOK
<1>4. TypeOK'
  BY DEF TypeOK
<1>5. CounterCountsCreations' /\ \A q \in Post : IsFiniteSet(CreatedOn(q))'
  <2>1. \A q \in Post : CreatedOn(q)' = CreatedOn(q) /\ LiveOn(q)' \subseteq LiveOn(q)
    BY <1>1, <1>2 DEF CreatedOn, LiveOn, Exists
  <2>. QED
    BY <2>1 DEF CounterCountsCreations
<1>6. DeletedAtMostOnce' /\ \A d \in Comment : (created[d] = NoRow => ~Exists(d) /\ deletedOk[d] = 0)'
  BY <1>1, <1>2, <1>3 DEF DeletedAtMostOnce, Exists
<1>7. \A q \in Req : (req[q].op = "delete" => created[req[q].comment] # NoRow)'
  BY <1>2 DEF TypeOK, Idle
<1>. QED
  BY <1>4, <1>5, <1>6, <1>7

\* The steps that leave the comments alone.
LEMMA OthersKeep ==
    ASSUME CommentsInv, UNCHANGED <<comment, commentCount, created, deletedOk>>,
           TypeOK',
           \A r \in Req : req'[r].op = "delete" =>
              req'[r] = req[r] \/ created[req'[r].comment] # NoRow
    PROVE  CommentsInv'
<1>1. CounterCountsCreations' /\ DeletedAtMostOnce'
  BY DEF CommentsInv, CommentInv, CounterCountsCreations, DeletedAtMostOnce, CreatedOn, LiveOn, Exists
<1>2. \A p \in Post : IsFiniteSet(CreatedOn(p))'
  BY DEF CommentsInv, CreatedOn
<1>3. \A c \in Comment : (created[c] = NoRow => ~Exists(c) /\ deletedOk[c] = 0)'
  BY DEF CommentsInv, Exists
<1>4. \A r \in Req : (req[r].op = "delete" => created[req[r].comment] # NoRow)'
  BY DEF CommentsInv, Exists
<1>. QED
  BY <1>1, <1>2, <1>3, <1>4 DEF CommentsInv, CommentInv

LEMMA CommentsStep == CommentsInv /\ [Next]_vars => CommentsInv'
<1>. SUFFICES ASSUME CommentsInv, [Next]_vars PROVE CommentsInv'
  OBVIOUS
<1>0. TypeOK
  BY DEF CommentsInv, CommentInv
<1>1. ASSUME NEW r \in Req, NEW u \in User, NEW p \in Post, CreateFindPost(r, u, p)
      PROVE  CommentsInv'
  <2>1. TypeOK'
    BY <1>0, <1>1 DEF CreateFindPost, TypeOK, CreateReq
  <2>2. \A q \in Req : req'[q].op = "delete" => req'[q] = req[q]
    BY <1>0, <1>1 DEF CreateFindPost, TypeOK
  <2>. QED
    BY <1>1, <2>1, <2>2, OthersKeep DEF CreateFindPost
<1>2. ASSUME NEW r \in Req, NEW c \in Comment, CreateCommit(r, c)
      PROVE  CommentsInv'
  <2>1. req[r].post \in Post
    BY <1>0, <1>2, RequestIs DEF CreateCommit
  <2>. QED
    BY <1>2, <2>1, CreateCommitKeeps
<1>3. ASSUME NEW r \in Req, NEW u \in User, NEW c \in Comment, DeleteFind(r, u, c)
      PROVE  CommentsInv'
  <2>1. TypeOK'
    BY <1>0, <1>3 DEF DeleteFind, TypeOK, DeleteReq
  <2>2. \A q \in Req : req'[q] = req[q] \/ req'[q].comment = c
    BY <1>0, <1>3 DEF DeleteFind, TypeOK
  <2>3. created[c] # NoRow
    BY <1>3 DEF DeleteFind, CommentsInv
  <2>. QED
    BY <1>3, <2>1, <2>2, <2>3, OthersKeep DEF DeleteFind
<1>4. ASSUME NEW r \in Req, DeleteRow(r)
      PROVE  CommentsInv'
  <2>1. req[r].comment \in Comment
    BY <1>0, <1>4, RequestIs DEF DeleteRow
  <2>. QED
    BY <1>4, <2>1, DeleteRowKeeps
<1>5. ASSUME NEW r \in Req, NEW p \in Post, LikeIncrement(r, p)
      PROVE  CommentsInv'
  <2>1. likeCount[p] \in 0 .. MaxLikes /\ MaxLikes \in Nat
    BY <1>0, CommentAssumption DEF TypeOK
  <2>2. likeCount[p] + 1 \in 0 .. MaxLikes
    BY <1>5, <2>1 DEF LikeIncrement
  <2>3. TypeOK'
    BY <1>0, <1>5, <2>2 DEF LikeIncrement, TypeOK, LikeReq
  <2>4. \A q \in Req : req'[q].op = "delete" => req'[q] = req[q]
    BY <1>0, <1>5 DEF LikeIncrement, TypeOK
  <2>. QED
    BY <1>5, <2>3, <2>4, OthersKeep DEF LikeIncrement
<1>6. ASSUME NEW r \in Req, LikeReadBack(r) \/ RequestFails(r)
      PROVE  CommentsInv'
  <2>1. TypeOK'
    BY <1>0, <1>6 DEF LikeReadBack, RequestFails, TypeOK
  <2>2. \A q \in Req : req'[q].op = "delete" => req'[q] = req[q]
    BY <1>0, <1>6 DEF LikeReadBack, RequestFails, TypeOK, Idle
  <2>. QED
    BY <1>6, <2>1, <2>2, OthersKeep DEF LikeReadBack, RequestFails
<1>7. CASE UNCHANGED vars
  <2>1. TypeOK'
    BY <1>0, <1>7 DEF vars, TypeOK
  <2>. QED
    BY <1>7, <2>1, OthersKeep DEF vars
<1>. QED
  BY <1>1, <1>2, <1>3, <1>4, <1>5, <1>6, <1>7 DEF Next, Step

-----------------------------------------------------------------------------
(* The lists. *)

\* The instance's operators are those of this module.
LEMMA SameOperators ==
    ASSUME NEW S, NEW s, NEW i
    PROVE  /\ Lists!Cardinality(S) = Cardinality(S)
           /\ Lists!RemoveAt(s, i) = RemoveAt(s, i)
BY DEF Lists!Cardinality, Cardinality, Lists!RemoveAt, RemoveAt

LEMMA IsBelow ==
    ASSUME NEW a \in Nat, NEW n \in Nat, a < n
    PROVE  a \in 0 .. n - 1
OBVIOUS

LEMMA CountBelow ==
    ASSUME NEW n \in Nat
    PROVE  IsFiniteSet(0 .. n - 1) /\ Cardinality(0 .. n - 1) = n
<1>1. PICK k \in Int : k = n - 1
  OBVIOUS
<1>2. IsFiniteSet(0 .. k) /\ Cardinality(0 .. k) = IF 0 > k THEN 0 ELSE k - 0 + 1
  BY FS_Interval
<1>3. (IF 0 > k THEN 0 ELSE k - 0 + 1) = n
  BY <1>1
<1>. QED
  BY <1>1, <1>2, <1>3

\* Those of a finite table that fewer than a page come after are a page, or
\* all there are: how many come after numbers them.
LEMMA NewestFillPage ==
    ASSUME NEW S \in SUBSET Nat, IsFiniteSet(S), NEW n, n = Cardinality(S),
           NEW m, m = IF n < PageSize THEN n ELSE PageSize
    PROVE  Cardinality(Lists!Newest(S)) = m
<1>. DEFINE Later(i) == {j \in S : j > i}
<1>1. n \in Nat /\ PageSize \in Nat /\ m \in Nat /\ m <= n /\ m <= PageSize /\ (m = n \/ m = PageSize)
  BY FS_CardinalityType, PagesAssumption
<1>2. PICK rank : rank = [i \in S |-> Cardinality(Later(i))]
  OBVIOUS
<1>3. ASSUME NEW i \in S
      PROVE  IsFiniteSet(Later(i)) /\ rank[i] \in Nat /\ rank[i] < n /\ rank[i] = Cardinality(Later(i))
  <2>1. Later(i) \subseteq S /\ i \in S /\ i \notin Later(i)
    OBVIOUS
  <2>2. IsFiniteSet(Later(i)) /\ Cardinality(Later(i)) <= n /\ Cardinality(Later(i)) # n
    BY <2>1, FS_Subset
  <2>3. Cardinality(Later(i)) \in Nat
    BY <2>2, FS_CardinalityType
  <2>4. rank[i] = Cardinality(Later(i))
    BY <1>2
  <2>. QED
    BY <1>1, <2>2, <2>3, <2>4
<1>4. ASSUME NEW i \in S, NEW j \in S, i < j
      PROVE  rank[j] < rank[i]
  <2>1. Later(j) \subseteq Later(i)
    <3>. SUFFICES ASSUME NEW k \in S, k > j PROVE k > i
      OBVIOUS
    <3>1. i \in Nat /\ j \in Nat /\ k \in Nat
      OBVIOUS
    <3>. QED
      BY <1>4, <3>1
  <2>2. j \in Later(i) /\ j \notin Later(j)
    BY <1>4
  <2>3. Cardinality(Later(j)) <= Cardinality(Later(i)) /\ Cardinality(Later(j)) # Cardinality(Later(i))
    BY <1>3, <2>1, <2>2, FS_Subset
  <2>. QED
    BY <1>3, <2>3
<1>5. rank \in Injection(S, 0 .. n - 1)
  <2>1. ASSUME NEW i \in S PROVE rank[i] \in 0 .. n - 1
    BY <1>1, <1>3, IsBelow
  <2>2. rank \in [S -> 0 .. n - 1]
    BY <1>2, <2>1
  <2>3. ASSUME NEW i \in S, NEW j \in S, rank[i] = rank[j] PROVE i = j
    <3>1. rank[i] \in Nat /\ rank[j] \in Nat
      BY <1>3
    <3>2. ~(i < j) /\ ~(j < i)
      BY <1>4, <2>3, <3>1
    <3>. QED
      BY <3>2
  <2>. QED
    BY <2>2, <2>3 DEF Injection, IsInjective
<1>6. rank \in Surjection(S, 0 .. n - 1)
  <2>1. IsFiniteSet(0 .. n - 1) /\ Cardinality(0 .. n - 1) = n
    BY <1>1, CountBelow
  <2>2. Cardinality(S) = Cardinality(0 .. n - 1)
    BY <2>1
  <2>. QED
    BY <1>5, <2>1, <2>2, FS_Injection
<1>7. PICK P : P = Lists!Newest(S)
  OBVIOUS
<1>8. P = {i \in S : rank[i] < PageSize}
  <2>1. \A i \in S : rank[i] = Lists!Cardinality({j \in S : j > i})
    BY <1>3, SameOperators
  <2>. QED
    BY <1>7, <2>1 DEF Lists!Newest
<1>9. PICK low : low = [i \in P |-> rank[i]]
  OBVIOUS
<1>10. low \in Bijection(P, 0 .. m - 1)
  <2>1. ASSUME NEW i \in P PROVE low[i] \in 0 .. m - 1
    <3>1. i \in S /\ rank[i] < PageSize
      BY <1>8
    <3>2. rank[i] \in Nat /\ rank[i] < m
      BY <1>1, <1>3, <3>1
    <3>. QED
      BY <1>1, <1>9, <3>2, IsBelow
  <2>2. low \in [P -> 0 .. m - 1]
    BY <1>9, <2>1
  <2>3. \A i, j \in P : low[i] = low[j] => i = j
    BY <1>5, <1>8, <1>9 DEF Injection, IsInjective
  <2>4. ASSUME NEW k \in 0 .. m - 1 PROVE \E i \in P : low[i] = k
    <3>1. k \in 0 .. n - 1 /\ k < PageSize
      BY <1>1
    <3>2. PICK i \in S : rank[i] = k
      BY <1>6, <3>1 DEF Surjection
    <3>. QED
      BY <1>8, <1>9, <3>1, <3>2
  <2>. QED
    BY <2>2, <2>3, <2>4 DEF Bijection, Injection, Surjection, IsInjective
<1>11. P \subseteq S /\ IsFiniteSet(P)
  BY <1>8, FS_Subset
<1>12. Cardinality(0 .. m - 1) = Cardinality(P)
  BY <1>10, <1>11, FS_Bijection DEF ExistsBijection
<1>13. Cardinality(0 .. m - 1) = m
  BY <1>1, CountBelow
<1>. QED
  BY <1>7, <1>12, <1>13

LoadAt == {"asked", "counted", "found"}

\* What a call carries; D are the rows there are, E those moved elsewhere.
CallSound(call, p, D, E) ==
    /\ "at" \in DOMAIN call
    /\ call.at \in LoadAt => "late" \in DOMAIN call
    /\ call.at \in {"clicked", "reading"} =>
          /\ p = "apps" /\ {"app", "next"} \subseteq DOMAIN call
          /\ call.app \in D /\ call.next \in {"org_review", "approved"}
    /\ call.at = "reading" => call.next = "org_review" \/ call.app \in E
    /\ call.at = "posting" => p = "posts"
    /\ call.at = "done" => p \in {"posts", "apps"}
    /\ call.at = "counted" =>
          /\ {"passed", "total"} \subseteq DOMAIN call
          /\ call.passed \in SUBSET Nat /\ IsFiniteSet(call.passed)
          /\ call.total = Cardinality(call.passed)
    /\ call.at = "found" /\ p = "apps" => "items" \in DOMAIN call /\ DOMAIN call.items \subseteq D
    /\ call.at = "found" /\ p # "apps" =>
          /\ {"moved", "found", "total"} \subseteq DOMAIN call
          /\ ~call.moved => Cardinality(call.found) =
                               IF call.total < PageSize THEN call.total ELSE PageSize

CallsSound == \A c \in DOMAIN calls : CallSound(calls[c], page, DOMAIN rows, elsewhere)

RowSound(row, away) ==
    "cat" \in DOMAIN row /\ (row.cat \in {"submitted", "org_review"} \/ away)

AppsSound ==
    page = "apps" =>
        /\ \A i \in DOMAIN rows : RowSound(rows[i], i \in elsewhere)
        /\ DOMAIN list.items \subseteq DOMAIN rows

Answers(q, p, s, w) == (p # "orgs" => q.cat = s) /\ (p = "pets" => q.word = w)

\* Unless the list is spoilt the newest load that nothing has made late asks
\* for what is selected; when there is none the list answers it already.
Answering ==
    mounted /\ ~spoilt =>
        /\ \A c \in DOMAIN calls : NewestOf("at", LoadAt, calls, c) /\ ~calls[c].late =>
              Answers(calls[c].query, page, sel, word)
        /\ AllLate("at", LoadAt, calls) => Answers(list.query, page, sel, word)

ListInv ==
    /\ page \in ListPage
    /\ IsASequence(rows) /\ IsASequence(calls)
    /\ LateFirst("at", LoadAt, calls)
    /\ CallsSound /\ AppsSound /\ Answering

LEMMA NothingYet == IsASequence(<<>>) /\ DOMAIN <<>> = {}
<1>1. <<>> \in Seq({}) /\ Len(<<>>) = 0
  BY EmptySeq
<1>. QED
  BY <1>1, SeqOfRange, LenProperties DEF IsASequence

LEMMA ListInit == page \in ListPage /\ Lists!Start => ListInv
<1>. SUFFICES ASSUME page \in ListPage, Lists!Start PROVE ListInv
  OBVIOUS
<1>1. IsASequence(<<>>) /\ DOMAIN <<>> = {}
  BY NothingYet
<1>. QED
  BY <1>1 DEF Lists!Start, ListInv, LateFirst, CallsSound, AppsSound, Answering

\* A load is added that asks for what is selected from then on.
LEMMA LoadKeeps ==
    ASSUME ListInv, NEW t, IsASequence(t), LateFirst("at", LoadAt, t),
           \A c \in DOMAIN t : CallSound(t[c], page, DOMAIN rows, elsewhere),
           NEW q, calls' = Append(t, Lists!Load(q)),
           Answers(q, page, sel', word') \/ spoilt',
           UNCHANGED <<page, rows, list, elsewhere>>
    PROVE  ListInv'
<1>. DEFINE l == Lists!Load(q)
<1>1. l.at \in LoadAt /\ ~l.late /\ l.query = q /\ CallSound(l, page, DOMAIN rows, elsewhere)
  BY DEF Lists!Load, LoadAt, CallSound
<1>. HIDE DEF l
<1>2. /\ IsASequence(calls') /\ Len(t) \in Nat /\ DOMAIN t = 1 .. Len(t)
      /\ DOMAIN calls' = 1 .. Len(t) + 1
      /\ \A c \in DOMAIN calls' : calls'[c] = IF c <= Len(t) THEN t[c] ELSE l
  BY Appended, Indices DEF l
<1>3. /\ LateFirst("at", LoadAt, calls')
      /\ \A c \in DOMAIN calls' : NewestOf("at", LoadAt, calls', c) => calls'[c] = l
      /\ ~AllLate("at", LoadAt, calls')
  <2>1. l["at"] \in LoadAt /\ ~l.late /\ calls' = Added(t, l)
    BY <1>1 DEF l, Added
  <2>2. \A s, u : IsASequence(s) /\ u = Added(s, l) =>
           /\ LateFirst("at", LoadAt, s) => LateFirst("at", LoadAt, u)
           /\ \A c \in DOMAIN u : NewestOf("at", LoadAt, u, c) => u[c] = l
           /\ ~AllLate("at", LoadAt, u)
    BY <2>1, LoadAdded
  <2>. QED
    BY <2>1, <2>2
<1>4. CallsSound'
  BY <1>1, <1>2 DEF ListInv, CallsSound
<1>5. Answering'
  BY <1>1, <1>3 DEF Answering
<1>. QED
  BY <1>2, <1>3, <1>4, <1>5 DEF ListInv, AppsSound

\* A call of another kind is added.
LEMMA ClickKeeps ==
    ASSUME ListInv, NEW e, calls' = Append(calls, e), e.at \notin LoadAt,
           CallSound(e, page, DOMAIN rows, elsewhere),
           UNCHANGED <<page, rows, sel, word, mounted, list, spoilt, elsewhere>>
    PROVE  ListInv'
<1>2. /\ IsASequence(calls') /\ Len(calls) \in Nat /\ DOMAIN calls = 1 .. Len(calls)
      /\ DOMAIN calls' = 1 .. Len(calls) + 1
      /\ \A c \in DOMAIN calls' : calls'[c] = IF c <= Len(calls) THEN calls[c] ELSE e
  BY Appended, Indices DEF ListInv
<1>3. /\ LateFirst("at", LoadAt, calls')
      /\ \A c \in DOMAIN calls' : NewestOf("at", LoadAt, calls', c) =>
            NewestOf("at", LoadAt, calls, c) /\ calls'[c] = calls[c]
      /\ AllLate("at", LoadAt, calls') => AllLate("at", LoadAt, calls)
  <2>1. e["at"] \notin LoadAt /\ calls' = Added(calls, e)
    BY DEF Added
  <2>2. \A s, t : IsASequence(s) /\ t = Added(s, e) =>
           /\ LateFirst("at", LoadAt, s) => LateFirst("at", LoadAt, t)
           /\ \A c \in DOMAIN t : NewestOf("at", LoadAt, t, c) =>
                 NewestOf("at", LoadAt, s, c) /\ t[c] = s[c]
           /\ AllLate("at", LoadAt, t) => AllLate("at", LoadAt, s)
    BY <2>1, OtherAdded
  <2>. QED
    BY <2>1, <2>2 DEF ListInv
<1>4. CallsSound'
  BY <1>2 DEF ListInv, CallsSound
<1>5. Answering'
  BY <1>3 DEF Answering, ListInv, NewestOf
<1>. QED
  BY <1>2, <1>3, <1>4, <1>5 DEF ListInv, AppsSound

\* The server makes of a call what is as much a load, with the same question.
LEMMA ServerKeeps ==
    ASSUME ListInv, NEW c \in DOMAIN calls, NEW e, Lists!ServerStep(c, e),
           e.at \in LoadAt <=> calls[c].at \in LoadAt,
           e.at \in LoadAt => (e.late <=> calls[c].late) /\ e.query = calls[c].query,
           CallSound(e, page, DOMAIN rows, elsewhere),
           IsASequence(rows'), DOMAIN rows \subseteq DOMAIN rows',
           page = "apps" => \A i \in DOMAIN rows' : RowSound(rows'[i], i \in elsewhere),
           UNCHANGED page
    PROVE  ListInv'
<1>1. calls' = [calls EXCEPT ![c] = e] /\ UNCHANGED <<sel, word, mounted, list, spoilt, elsewhere>>
  BY DEF Lists!ServerStep
<1>2. /\ DOMAIN calls' = DOMAIN calls /\ calls' = [d \in DOMAIN calls |-> calls'[d]]
      /\ \A d \in DOMAIN calls : calls'[d] = IF d = c THEN e ELSE calls[d]
  BY <1>1
<1>3. IsASequence(calls')
  BY <1>2, Replaced DEF ListInv
<1>4. /\ LateFirst("at", LoadAt, calls')
      /\ \A d \in DOMAIN calls' : NewestOf("at", LoadAt, calls', d) =>
            NewestOf("at", LoadAt, calls, d) /\ (calls'[d].late <=> calls[d].late)
      /\ AllLate("at", LoadAt, calls') => AllLate("at", LoadAt, calls)
  BY <1>1, CallReplaced DEF ListInv
<1>5. CallsSound'
  <2>. SUFFICES ASSUME NEW d \in DOMAIN calls
                PROVE  CallSound(calls'[d], page, DOMAIN rows', elsewhere)
    BY <1>1, <1>2 DEF CallsSound
  <2>1. CallSound(calls'[d], page, DOMAIN rows, elsewhere)
    BY <1>2 DEF ListInv, CallsSound
  <2>. QED
    BY <2>1 DEF CallSound
<1>6. Answering'
  <2>. SUFFICES ASSUME mounted, ~spoilt
                PROVE  /\ \A d \in DOMAIN calls' : NewestOf("at", LoadAt, calls', d) /\ ~calls'[d].late =>
                             Answers(calls'[d].query, page, sel, word)
                       /\ AllLate("at", LoadAt, calls') => Answers(list.query, page, sel, word)
    BY <1>1 DEF Answering
  <2>1. ASSUME NEW d \in DOMAIN calls', NewestOf("at", LoadAt, calls', d), ~calls'[d].late
        PROVE  Answers(calls'[d].query, page, sel, word)
    <3>1. NewestOf("at", LoadAt, calls, d) /\ d \in DOMAIN calls /\ ~calls[d].late
      BY <1>2, <1>4, <2>1
    <3>2. Answers(calls[d].query, page, sel, word)
      BY <3>1 DEF ListInv, Answering
    <3>3. calls'[d].query = calls[d].query
      BY <1>2, <3>1 DEF NewestOf
    <3>. QED
      BY <3>2, <3>3
  <2>. QED
    BY <1>4, <2>1 DEF ListInv, Answering
<1>7. AppsSound'
  BY <1>1 DEF ListInv, AppsSound
<1>. QED
  BY <1>3, <1>4, <1>5, <1>6, <1>7 DEF ListInv

\* A call stays what it was when it is marked late.
LEMMA LateIsSound ==
    ASSUME NEW e, NEW p, NEW D, NEW E, CallSound(e, p, D, E), e.at \in LoadAt,
           NEW m, m = MadeLate(e)
    PROVE  CallSound(m, p, D, E) /\ m.at \in LoadAt /\ "late" \in DOMAIN e
<1>1. "at" \in DOMAIN e /\ "late" \in DOMAIN e
  BY DEF CallSound
<1>2. DOMAIN m = DOMAIN e /\ \A x \in DOMAIN e : x # "late" => m[x] = e[x]
  BY DEF MadeLate
<1>3. m.at = e.at /\ m.at \in LoadAt
  BY <1>1, <1>2
<1>4. e.at = "counted" => m.passed = e.passed /\ m.total = e.total
  BY <1>2 DEF CallSound
<1>5. e.at = "found" /\ p = "apps" => m.items = e.items
  BY <1>2 DEF CallSound
<1>6. e.at = "found" /\ p # "apps" => m.moved = e.moved /\ m.found = e.found /\ m.total = e.total
  BY <1>2 DEF CallSound
<1>. QED
  BY <1>1, <1>2, <1>3, <1>4, <1>5, <1>6 DEF CallSound, LoadAt

\* An answer is heard: unless it was late nothing newer has been asked, or what
\* has is still to come.
LEMMA HearKeeps ==
    ASSUME ListInv, NEW c \in DOMAIN calls, Lists!Hear(c), UNCHANGED page
    PROVE  ListInv'
<1>. USE DEF Lists!Hear
<1>1. /\ calls[c].at \in LoadAt
      /\ \A b \in DOMAIN calls : calls[b]["at"] \in LoadAt =>
            "late" \in DOMAIN calls[b] /\ MadeLate(calls[b])["at"] \in LoadAt
  <2>1. ASSUME NEW b \in DOMAIN calls, calls[b].at \in LoadAt, NEW m, m = MadeLate(calls[b])
        PROVE  "late" \in DOMAIN calls[b] /\ m["at"] \in LoadAt
    <3>1. CallSound(calls[b], page, DOMAIN rows, elsewhere)
      BY DEF ListInv, CallsSound
    <3>. QED
      BY <2>1, <3>1, LateIsSound
  <2>. QED
    BY <2>1 DEF LoadAt
<1>2. calls' = RemoveAt(Marked("at", LoadAt, calls, c), c)
  BY SameOperators DEF Marked, MadeLate, Lists!IsLoad, LoadAt
<1>3. /\ IsASequence(calls') /\ LateFirst("at", LoadAt, calls')
      /\ \A d \in DOMAIN calls' : \E e \in DOMAIN calls :
            \/ calls'[d] = calls[e]
            \/ calls[e]["at"] \in LoadAt /\ calls'[d] = MadeLate(calls[e])
      /\ \A d \in DOMAIN calls' : NewestOf("at", LoadAt, calls', d) /\ ~calls'[d].late =>
            \E e \in DOMAIN calls : NewestOf("at", LoadAt, calls, e) /\ calls[e] = calls'[d]
      /\ AllLate("at", LoadAt, calls') /\ ~calls[c].late => NewestOf("at", LoadAt, calls, c)
  <2>1. \A t : t = RemoveAt(Marked("at", LoadAt, calls, c), c) =>
           /\ IsASequence(t) /\ LateFirst("at", LoadAt, t)
           /\ \A d \in DOMAIN t : \E e \in DOMAIN calls :
                 \/ t[d] = calls[e]
                 \/ calls[e]["at"] \in LoadAt /\ t[d] = MadeLate(calls[e])
           /\ \A d \in DOMAIN t : NewestOf("at", LoadAt, t, d) /\ ~t[d].late =>
                 \E e \in DOMAIN calls : NewestOf("at", LoadAt, calls, e) /\ calls[e] = t[d]
           /\ AllLate("at", LoadAt, t) /\ ~calls[c].late => NewestOf("at", LoadAt, calls, c)
    <3>1. IsASequence(calls) /\ LateFirst("at", LoadAt, calls) /\ calls[c]["at"] \in LoadAt
      BY <1>1 DEF ListInv
    <3>. QED
      BY <1>1, <3>1, LoadHeard
  <2>. QED
    BY <1>2, <2>1
<1>4. CallsSound'
  <2>. SUFFICES ASSUME NEW d \in DOMAIN calls'
                PROVE  CallSound(calls'[d], page, DOMAIN rows, elsewhere)
    BY DEF CallsSound
  <2>1. PICK e \in DOMAIN calls :
           \/ calls'[d] = calls[e]
           \/ calls[e].at \in LoadAt /\ calls'[d] = MadeLate(calls[e])
    BY <1>3
  <2>2. CallSound(calls[e], page, DOMAIN rows, elsewhere)
    BY DEF ListInv, CallsSound
  <2>. QED
    BY <2>1, <2>2, LateIsSound
<1>5. AppsSound'
  <2>. SUFFICES ASSUME page = "apps" PROVE DOMAIN calls[c].items \subseteq DOMAIN rows
    BY DEF ListInv, AppsSound
  <2>. QED
    BY DEF ListInv, CallsSound, CallSound
<1>6. Answering'
  <2>. SUFFICES ASSUME mounted, ~spoilt, ~calls[c].late
                PROVE  /\ \A d \in DOMAIN calls' : NewestOf("at", LoadAt, calls', d) /\ ~calls'[d].late =>
                             Answers(calls'[d].query, page, sel, word)
                       /\ AllLate("at", LoadAt, calls') => Answers(calls[c].query, page, sel, word)
    BY DEF Answering
  <2>1. \A e \in DOMAIN calls : NewestOf("at", LoadAt, calls, e) /\ ~calls[e].late =>
           Answers(calls[e].query, page, sel, word)
    BY DEF ListInv, Answering
  <2>. QED
    BY <1>3, <2>1
<1>. QED
  BY <1>3, <1>4, <1>5, <1>6 DEF ListInv

\* What goes away other than by being heard.
LEMMA CallGoes ==
    ASSUME ListInv, NEW c \in DOMAIN calls, NEW t, t = RemoveAt(calls, c)
    PROVE  /\ IsASequence(t) /\ LateFirst("at", LoadAt, t)
           /\ \A d \in DOMAIN t : CallSound(t[d], page, DOMAIN rows, elsewhere)
           /\ (NewestOf("at", LoadAt, calls, c) => calls[c].late) /\ mounted /\ ~spoilt =>
                 /\ \A d \in DOMAIN t : NewestOf("at", LoadAt, t, d) /\ ~t[d].late =>
                       Answers(t[d].query, page, sel, word)
                 /\ AllLate("at", LoadAt, t) => Answers(list.query, page, sel, word)
<1>1. IsASequence(calls) /\ LateFirst("at", LoadAt, calls)
  BY DEF ListInv
<1>2. /\ IsASequence(t) /\ LateFirst("at", LoadAt, t)
      /\ \A d \in DOMAIN t : \E e \in DOMAIN calls : t[d] = calls[e]
  BY <1>1, Gone
<1>3. ASSUME NewestOf("at", LoadAt, calls, c) => calls[c].late
      PROVE  /\ \A d \in DOMAIN t : NewestOf("at", LoadAt, t, d) /\ ~t[d].late =>
                   \E e \in DOMAIN calls : NewestOf("at", LoadAt, calls, e) /\ calls[e] = t[d]
             /\ AllLate("at", LoadAt, t) => AllLate("at", LoadAt, calls)
  BY <1>1, <1>3, CallGone
<1>4. \A d \in DOMAIN t : CallSound(t[d], page, DOMAIN rows, elsewhere)
  BY <1>2 DEF ListInv, CallsSound
<1>5. mounted /\ ~spoilt =>
         /\ \A e \in DOMAIN calls : NewestOf("at", LoadAt, calls, e) /\ ~calls[e].late =>
               Answers(calls[e].query, page, sel, word)
         /\ AllLate("at", LoadAt, calls) => Answers(list.query, page, sel, word)
  BY DEF ListInv, Answering
<1>. QED
  BY <1>2, <1>3, <1>4, <1>5

LEMMA LoseKeeps ==
    ASSUME ListInv, NEW c \in DOMAIN calls, Lists!Lose(c), UNCHANGED page
    PROVE  ListInv'
<1>1. calls' = RemoveAt(calls, c)
  BY SameOperators DEF Lists!Lose
<1>2. ~spoilt' => ~spoilt /\ (NewestOf("at", LoadAt, calls, c) => calls[c].late)
  BY DEF Lists!Lose, Lists!IsLoad, NewestOf, LoadAt
<1>3. PICK t : t = RemoveAt(calls, c)
  OBVIOUS
<1>4. /\ IsASequence(t) /\ LateFirst("at", LoadAt, t)
      /\ \A d \in DOMAIN t : CallSound(t[d], page, DOMAIN rows, elsewhere)
      /\ mounted /\ ~spoilt' =>
            /\ \A d \in DOMAIN t : NewestOf("at", LoadAt, t, d) /\ ~t[d].late =>
                  Answers(t[d].query, page, sel, word)
            /\ AllLate("at", LoadAt, t) => Answers(list.query, page, sel, word)
  BY <1>2, <1>3, CallGoes
<1>5. calls' = t /\ UNCHANGED <<rows, sel, word, mounted, list, elsewhere>>
  BY <1>1, <1>3 DEF Lists!Lose
<1>. QED
  BY <1>4, <1>5 DEF ListInv, CallsSound, Answering, AppsSound

LEMMA HearDoneKeeps ==
    ASSUME ListInv, NEW c \in DOMAIN calls, Lists!HearDone(c), UNCHANGED page
    PROVE  ListInv'
<1>1. PICK t : t = RemoveAt(calls, c)
  OBVIOUS
<1>2. /\ IsASequence(t) /\ LateFirst("at", LoadAt, t)
      /\ \A d \in DOMAIN t : CallSound(t[d], page, DOMAIN rows, elsewhere)
  BY <1>1, CallGoes
<1>3. page \in {"posts", "apps"}
  BY DEF Lists!HearDone, ListInv, CallsSound, CallSound
<1>4. Answers(calls[c].query, page, sel', word') \/ spoilt'
  BY <1>3 DEF Lists!HearDone, Answers
<1>5. calls' = Append(t, Lists!Load(calls[c].query)) /\ UNCHANGED <<rows, list, elsewhere>>
  BY <1>1, SameOperators DEF Lists!HearDone
<1>. QED
  BY <1>2, <1>4, <1>5, LoadKeeps

\* The visitor opens the page or chooses: the load asks for what is selected.
LEMMA ChoiceKeeps ==
    ASSUME ListInv, NEW q, calls' = Append(calls, Lists!Load(q)),
           Answers(q, page, sel', word'), UNCHANGED <<page, rows, list, elsewhere>>
    PROVE  ListInv'
<1>1. /\ IsASequence(calls) /\ LateFirst("at", LoadAt, calls)
      /\ \A c \in DOMAIN calls : CallSound(calls[c], page, DOMAIN rows, elsewhere)
  BY DEF ListInv, CallsSound
<1>. QED
  BY <1>1, LoadKeeps

LEMMA OpenKeeps ==
    ASSUME ListInv, NEW w, Lists!Open(w), UNCHANGED page
    PROVE  ListInv'
<1>. DEFINE q == [cat |-> sel', word |-> w]
<1>1. /\ calls' = Append(calls, Lists!Load(q)) /\ UNCHANGED <<rows, list, elsewhere>>
      /\ word' = w
  BY DEF Lists!Open
<1>2. Answers(q, page, sel', word')
  BY <1>1 DEF Answers
<1>. QED
  BY <1>1, <1>2, ChoiceKeeps

LEMMA SelectKeeps ==
    ASSUME ListInv, UNCHANGED page, NEW s, NEW w, Lists!Select(s, [cat |-> s, word |-> w]),
           page = "pets" => word' = w
    PROVE  ListInv'
<1>. DEFINE q == [cat |-> s, word |-> w]
<1>1. /\ calls' = Append(calls, Lists!Load(q)) /\ UNCHANGED <<rows, list, elsewhere>>
      /\ sel' = s
  BY DEF Lists!Select
<1>2. Answers(q, page, sel', word')
  BY <1>1 DEF Answers
<1>. QED
  BY <1>1, <1>2, ChoiceKeeps

LEMMA SelectOrgsKeeps ==
    ASSUME ListInv, UNCHANGED page, page = "orgs", NEW s, NEW q, Lists!Select(s, q)
    PROVE  ListInv'
<1>1. /\ calls' = Append(calls, Lists!Load(q)) /\ UNCHANGED <<rows, list, elsewhere>>
  BY DEF Lists!Select
<1>2. Answers(q, page, sel', word')
  BY DEF Answers
<1>. QED
  BY <1>1, <1>2, ChoiceKeeps

\* A button clicked, a post sent.
LEMMA AdvanceKeeps ==
    ASSUME ListInv, UNCHANGED page, NEW i, Lists!Advance(i)
    PROVE  ListInv'
<1>. DEFINE e == [at |-> "clicked", app |-> i, next |-> Lists!Button(list.items[i]),
                  query |-> [cat |-> sel, word |-> Lists!NoWord]]
<1>1. i \in DOMAIN rows /\ e.next \in {"org_review", "approved"} /\ page = "apps"
  BY DEF Lists!Advance, Lists!Button, ListInv, AppsSound
<1>2. e.at \notin LoadAt /\ CallSound(e, page, DOMAIN rows, elsewhere)
  BY <1>1 DEF CallSound, LoadAt
<1>3. /\ calls' = Append(calls, e)
      /\ UNCHANGED <<page, rows, sel, word, mounted, list, spoilt, elsewhere>>
  BY DEF Lists!Advance
<1>. QED
  BY <1>2, <1>3, ClickKeeps

LEMMA PublishKeeps ==
    ASSUME ListInv, UNCHANGED page, NEW s, Lists!Publish(s)
    PROVE  ListInv'
<1>. DEFINE e == [at |-> "posting", cat |-> s,
                  query |-> [cat |-> sel, word |-> Lists!NoWord]]
<1>1. page = "posts"
  BY DEF Lists!Publish
<1>2. e.at \notin LoadAt /\ CallSound(e, page, DOMAIN rows, elsewhere)
  BY <1>1 DEF CallSound, LoadAt
<1>3. /\ calls' = Append(calls, e)
      /\ UNCHANGED <<page, rows, sel, word, mounted, list, spoilt, elsewhere>>
  BY DEF Lists!Publish
<1>. QED
  BY <1>2, <1>3, ClickKeeps

-----------------------------------------------------------------------------
\* The rows a filter passes are some of the table.
LEMMA WhereOfRows ==
    ASSUME page \in ListPage, IsASequence(rows), NEW q, NEW P, P = Lists!Where(q)
    PROVE  P \subseteq DOMAIN rows /\ P \in SUBSET Nat /\ IsFiniteSet(P)
<1>1. P \subseteq DOMAIN rows
  BY DEF Lists!Where, Lists!PetsWhere, Lists!PostsWhere, Lists!OrgsWhere, Lists!AppsWhere,
         Lists!InCategory, Lists!HasWord, ListPage
<1>2. DOMAIN rows = 1 .. Len(rows) /\ Len(rows) \in Nat
  BY Indices
<1>3. IsFiniteSet(1 .. Len(rows))
  BY <1>2, FS_Interval
<1>. QED
  BY <1>1, <1>2, <1>3, FS_Subset

\* The steps that leave the rows alone.
LEMMA ServerReads ==
    ASSUME ListInv, NEW c \in DOMAIN calls, NEW e, Lists!ServerStep(c, e),
           e.at \in LoadAt <=> calls[c].at \in LoadAt,
           e.at \in LoadAt => (e.late <=> calls[c].late) /\ e.query = calls[c].query,
           CallSound(e, page, DOMAIN rows, elsewhere), UNCHANGED <<page, rows>>
    PROVE  ListInv'
<1>1. /\ IsASequence(rows') /\ DOMAIN rows \subseteq DOMAIN rows'
      /\ page = "apps" => \A i \in DOMAIN rows' : RowSound(rows'[i], i \in elsewhere)
  BY DEF ListInv, AppsSound
<1>. QED
  BY <1>1, ServerKeeps

LEMMA CountKeeps ==
    ASSUME ListInv, NEW c \in DOMAIN calls, Lists!Count(c), UNCHANGED page
    PROVE  ListInv'
<1>1. PICK P : P = Lists!Where(calls[c].query)
  OBVIOUS
<1>. DEFINE e == [at |-> "counted", query |-> calls[c].query, late |-> calls[c].late,
                  total |-> Lists!Counted(calls[c].query), passed |-> P]
<1>2. P \in SUBSET Nat /\ IsFiniteSet(P)
  BY <1>1, WhereOfRows DEF ListInv
<1>3. e.total = Cardinality(P)
  BY <1>1, SameOperators DEF Lists!Counted
<1>4. CallSound(e, page, DOMAIN rows, elsewhere)
  BY <1>2, <1>3 DEF CallSound, LoadAt
<1>5. Lists!ServerStep(c, e) /\ UNCHANGED rows /\ calls[c].at = "asked"
  BY <1>1 DEF Lists!Count
<1>. QED
  BY <1>4, <1>5, ServerReads DEF LoadAt

LEMMA FindKeeps ==
    ASSUME ListInv, NEW c \in DOMAIN calls, Lists!Find(c), UNCHANGED page
    PROVE  ListInv'
<1>1. PICK P : P = Lists!Where(calls[c].query)
  OBVIOUS
<1>. DEFINE e == [at |-> "found", query |-> calls[c].query, late |-> calls[c].late,
                  items |-> <<>>, total |-> calls[c].total,
                  found |-> Lists!Newest(P), moved |-> calls[c].passed # P]
<1>2. P \in SUBSET Nat /\ IsFiniteSet(P)
  BY <1>1, WhereOfRows DEF ListInv
<1>3. calls[c].at = "counted" /\ Lists!ServerStep(c, e) /\ UNCHANGED rows
  BY <1>1 DEF Lists!Find
<1>4. calls[c].total = Cardinality(calls[c].passed)
  BY <1>3 DEF ListInv, CallsSound, CallSound
<1>5. calls[c].passed = P => Cardinality(Lists!Newest(P)) =
                               IF calls[c].total < PageSize THEN calls[c].total ELSE PageSize
  BY <1>2, <1>4, NewestFillPage
<1>6. DOMAIN <<>> = {}
  BY NothingYet
<1>7. CallSound(e, page, DOMAIN rows, elsewhere)
  BY <1>5, <1>6 DEF CallSound, LoadAt
<1>. QED
  BY <1>3, <1>7, ServerReads DEF LoadAt

LEMMA FindAppsKeeps ==
    ASSUME ListInv, NEW c \in DOMAIN calls, Lists!FindApps(c), UNCHANGED page
    PROVE  ListInv'
<1>1. PICK P : P = Lists!Where(calls[c].query)
  OBVIOUS
<1>. DEFINE e == [at |-> "found", query |-> calls[c].query, late |-> calls[c].late,
                  items |-> [i \in P |-> rows[i].cat]]
<1>2. P \subseteq DOMAIN rows
  BY <1>1, WhereOfRows DEF ListInv
<1>3. calls[c].at = "asked" /\ Lists!ServerStep(c, e) /\ UNCHANGED rows /\ page = "apps"
  BY <1>1 DEF Lists!FindApps
<1>4. CallSound(e, page, DOMAIN rows, elsewhere)
  BY <1>2, <1>3 DEF CallSound, LoadAt
<1>. QED
  BY <1>3, <1>4, ServerReads DEF LoadAt

\* The edge found from the row's status: an application nobody else has moved
\* goes to its review or nowhere.
LEMMA ChangeFindKeeps ==
    ASSUME ListInv, NEW c \in DOMAIN calls, Lists!ChangeFind(c), UNCHANGED page
    PROVE  ListInv'
<1>. DEFINE e == [calls[c] EXCEPT !.at = "reading"]
            a == calls[c].app
<1>1. calls[c].at = "clicked" /\ Lists!ServerStep(c, e) /\ UNCHANGED rows
      /\ calls[c].next \in Lists!NextApplicationStatuses(rows[a].cat)
  BY DEF Lists!ChangeFind
<1>2. /\ page = "apps" /\ {"at", "app", "next"} \subseteq DOMAIN calls[c]
      /\ a \in DOMAIN rows /\ calls[c].next \in {"org_review", "approved"}
  BY <1>1 DEF ListInv, CallsSound, CallSound
<1>3. rows[a].cat \in {"submitted", "org_review"} \/ a \in elsewhere
  BY <1>2 DEF ListInv, AppsSound, RowSound
<1>4. calls[c].next = "org_review" \/ a \in elsewhere
  BY <1>1, <1>2, <1>3 DEF Lists!NextApplicationStatuses, Lists!AppEdge
<1>5. e.at = "reading" /\ e.app = a /\ e.next = calls[c].next /\ DOMAIN e = DOMAIN calls[c]
  BY <1>2
<1>6. CallSound(e, page, DOMAIN rows, elsewhere) /\ e.at \notin LoadAt
  BY <1>2, <1>4, <1>5 DEF CallSound, LoadAt
<1>7. calls[c].at \notin LoadAt
  BY <1>1 DEF LoadAt
<1>. HIDE DEF e
<1>. QED
  BY <1>1, <1>6, <1>7, ServerReads

\* The rows after a status is written, by this page or elsewhere.
LEMMA StatusWritten ==
    ASSUME ListInv, NEW i \in DOMAIN rows, NEW v, rows' = [rows EXCEPT ![i].cat = v],
           NEW E, elsewhere \subseteq E, page = "apps" => v = "org_review" \/ i \in E
    PROVE  /\ IsASequence(rows') /\ DOMAIN rows' = DOMAIN rows
           /\ page = "apps" => \A j \in DOMAIN rows' : RowSound(rows'[j], j \in E)
<1>1. /\ DOMAIN rows' = DOMAIN rows /\ rows' = [j \in DOMAIN rows |-> rows'[j]]
      /\ \A j \in DOMAIN rows : rows'[j] = IF j = i THEN [rows[j] EXCEPT !.cat = v] ELSE rows[j]
  OBVIOUS
<1>2. /\ IsASequence(rows') /\ DOMAIN rows' = DOMAIN rows
      /\ \A j \in DOMAIN rows : j # i => rows'[j] = rows[j]
      /\ "cat" \in DOMAIN rows[i] => rows'[i].cat = v /\ "cat" \in DOMAIN rows'[i]
  BY <1>1, Replaced DEF ListInv
<1>3. ASSUME page = "apps", NEW j \in DOMAIN rows' PROVE RowSound(rows'[j], j \in E)
  <2>1. RowSound(rows[j], j \in elsewhere) /\ RowSound(rows[i], i \in elsewhere)
    BY <1>2, <1>3 DEF ListInv, AppsSound
  <2>. QED
    BY <1>2, <1>3, <2>1 DEF RowSound
<1>. QED
  BY <1>2, <1>3

\* The rows after one more has come in.
LEMMA RowAdded ==
    ASSUME ListInv, NEW r, rows' = Append(rows, r), page = "apps" => RowSound(r, FALSE)
    PROVE  /\ IsASequence(rows') /\ DOMAIN rows \subseteq DOMAIN rows'
           /\ page = "apps" => \A j \in DOMAIN rows' : RowSound(rows'[j], j \in elsewhere)
<1>1. /\ IsASequence(rows') /\ Len(rows) \in Nat /\ DOMAIN rows = 1 .. Len(rows)
      /\ DOMAIN rows' = 1 .. Len(rows) + 1
      /\ \A j \in DOMAIN rows' : rows'[j] = IF j <= Len(rows) THEN rows[j] ELSE r
  BY Appended, Indices DEF ListInv
<1>2. \A j \in DOMAIN rows' : j \in DOMAIN rows \/ rows'[j] = r
  BY <1>1
<1>3. DOMAIN rows \subseteq DOMAIN rows' /\ \A j \in DOMAIN rows : rows'[j] = rows[j]
  BY <1>1
<1>. QED
  BY <1>1, <1>2, <1>3 DEF ListInv, AppsSound, RowSound

LEMMA ChangeSaveKeeps ==
    ASSUME ListInv, NEW c \in DOMAIN calls, Lists!ChangeSave(c), UNCHANGED page
    PROVE  ListInv'
<1>. DEFINE e == [at |-> "done", query |-> calls[c].query]
            a == calls[c].app
<1>1. /\ calls[c].at = "reading" /\ Lists!ServerStep(c, e)
      /\ rows' = [rows EXCEPT ![a].cat = calls[c].next]
  BY DEF Lists!ChangeSave
<1>2. page = "apps" /\ a \in DOMAIN rows /\ (calls[c].next = "org_review" \/ a \in elsewhere)
  BY <1>1 DEF ListInv, CallsSound, CallSound
<1>3. /\ IsASequence(rows') /\ DOMAIN rows \subseteq DOMAIN rows'
      /\ page = "apps" => \A j \in DOMAIN rows' : RowSound(rows'[j], j \in elsewhere)
  BY <1>1, <1>2, StatusWritten
<1>4. CallSound(e, page, DOMAIN rows, elsewhere) /\ e.at \notin LoadAt /\ calls[c].at \notin LoadAt
  BY <1>1, <1>2 DEF CallSound, LoadAt
<1>. QED
  BY <1>1, <1>3, <1>4, ServerKeeps

LEMMA PostCreateKeeps ==
    ASSUME ListInv, NEW c \in DOMAIN calls, Lists!PostCreate(c), UNCHANGED page
    PROVE  ListInv'
<1>. DEFINE e == [at |-> "done", query |-> calls[c].query]
<1>1. /\ calls[c].at = "posting" /\ Lists!ServerStep(c, e)
      /\ rows' = Append(rows, [cat |-> calls[c].cat, word |-> Lists!NoWord])
  BY DEF Lists!PostCreate
<1>2. page = "posts"
  BY <1>1 DEF ListInv, CallsSound, CallSound
<1>3. /\ IsASequence(rows') /\ DOMAIN rows \subseteq DOMAIN rows'
      /\ page = "apps" => \A j \in DOMAIN rows' : RowSound(rows'[j], j \in elsewhere)
  BY <1>1, <1>2, RowAdded
<1>4. CallSound(e, page, DOMAIN rows, elsewhere) /\ e.at \notin LoadAt /\ calls[c].at \notin LoadAt
  BY <1>1, <1>2 DEF CallSound, LoadAt
<1>. QED
  BY <1>1, <1>3, <1>4, ServerKeeps

\* Another client writes the table.
LEMMA TableKeeps ==
    ASSUME ListInv, IsASequence(rows'), DOMAIN rows \subseteq DOMAIN rows',
           elsewhere \subseteq elsewhere',
           page = "apps" => \A j \in DOMAIN rows' : RowSound(rows'[j], j \in elsewhere'),
           UNCHANGED <<page, sel, word, mounted, list, calls, spoilt>>
    PROVE  ListInv'
<1>1. CallsSound'
  <2>. SUFFICES ASSUME NEW c \in DOMAIN calls
                PROVE  CallSound(calls[c], page, DOMAIN rows', elsewhere')
    BY DEF CallsSound
  <2>1. CallSound(calls[c], page, DOMAIN rows, elsewhere)
    BY DEF ListInv, CallsSound
  <2>. QED
    BY <2>1 DEF CallSound
<1>2. AppsSound'
  BY DEF ListInv, AppsSound
<1>3. Answering'
  BY DEF ListInv, Answering
<1>. QED
  BY <1>1, <1>2, <1>3 DEF ListInv

LEMMA AppearKeeps ==
    ASSUME ListInv, NEW s, NEW w, Lists!Appear(s, w), UNCHANGED page
    PROVE  ListInv'
<1>1. rows' = Append(rows, [cat |-> s, word |-> w]) /\ (page = "apps" => s = "submitted")
  BY DEF Lists!Appear
<1>2. page = "apps" => RowSound([cat |-> s, word |-> w], FALSE)
  BY <1>1 DEF RowSound
<1>3. /\ IsASequence(rows') /\ DOMAIN rows \subseteq DOMAIN rows'
      /\ page = "apps" => \A j \in DOMAIN rows' : RowSound(rows'[j], j \in elsewhere)
  BY <1>1, <1>2, RowAdded
<1>. QED
  BY <1>3, TableKeeps DEF Lists!Appear

LEMMA ChangeKeeps ==
    ASSUME ListInv, NEW i \in DOMAIN rows, NEW s, Lists!Change(i, s), UNCHANGED page
    PROVE  ListInv'
<1>1. /\ rows' = [rows EXCEPT ![i].cat = s] /\ elsewhere \subseteq elsewhere'
      /\ page = "apps" => i \in elsewhere'
  BY DEF Lists!Change
<1>2. PICK E : E = elsewhere'
  OBVIOUS
<1>3. /\ IsASequence(rows') /\ DOMAIN rows \subseteq DOMAIN rows'
      /\ page = "apps" => \A j \in DOMAIN rows' : RowSound(rows'[j], j \in E)
  BY <1>1, <1>2, StatusWritten
<1>. QED
  BY <1>1, <1>2, <1>3, TableKeeps DEF Lists!Change

LEMMA ListStep ==
    ASSUME ListInv, [Lists!ListNext]_listVars, UNCHANGED page
    PROVE  ListInv'
<1>1. CASE Lists!LeavePets
  <2>1. UNCHANGED <<page, rows, sel, word, list, calls, spoilt, elsewhere>> /\ ~mounted'
    BY <1>1 DEF Lists!LeavePets
  <2>. QED
    BY <2>1 DEF ListInv, CallsSound, AppsSound, Answering
<1>2. ASSUME NEW s, Lists!PickPets(s) \/ Lists!PickPosts(s) \/ Lists!PickApps(s)
      PROVE  ListInv'
  <2>1. \E w : Lists!Select(s, [cat |-> s, word |-> w]) /\ (page = "pets" => word' = w)
    BY <1>2 DEF Lists!PickPets, Lists!PickPosts, Lists!PickApps
  <2>. QED
    BY <2>1, SelectKeeps
<1>3. ASSUME NEW s, Lists!PickOrgs(s) PROVE ListInv'
  BY <1>3, SelectOrgsKeeps DEF Lists!PickOrgs
<1>4. ASSUME NEW w, Lists!Open(w) PROVE ListInv'
  BY <1>4, OpenKeeps
<1>5. ASSUME NEW w, Lists!SearchPets(w) \/ Lists!SearchPosts(w) PROVE ListInv'
  <2>1. Lists!Select(sel, [cat |-> sel, word |-> w]) /\ (page = "pets" => word' = w)
    BY <1>5 DEF Lists!SearchPets, Lists!SearchPosts
  <2>. QED
    BY <2>1, SelectKeeps
<1>6. ASSUME NEW w, Lists!SearchOrgs(w) PROVE ListInv'
  BY <1>6, SelectOrgsKeeps DEF Lists!SearchOrgs
<1>7. CASE Lists!Recognise
  <2>1. /\ Lists!Select(Lists!All, [cat |-> Lists!All, word |-> Lists!NoWord])
        /\ page # "pets"
    BY <1>7 DEF Lists!Recognise
  <2>. QED
    BY <2>1, SelectKeeps
<1>8. ASSUME NEW i, Lists!Advance(i) PROVE ListInv'
  BY <1>8, AdvanceKeeps
<1>9. ASSUME NEW s, Lists!Publish(s) PROVE ListInv'
  BY <1>9, PublishKeeps
<1>10. ASSUME NEW c \in DOMAIN calls,
              \/ Lists!Count(c) \/ Lists!Find(c) \/ Lists!FindApps(c)
              \/ Lists!ChangeFind(c) \/ Lists!ChangeSave(c) \/ Lists!PostCreate(c)
       PROVE  ListInv'
  BY <1>10, CountKeeps, FindKeeps, FindAppsKeeps, ChangeFindKeeps, ChangeSaveKeeps, PostCreateKeeps
<1>11. ASSUME NEW c \in DOMAIN calls, Lists!Hear(c) \/ Lists!HearDone(c) \/ Lists!Lose(c)
       PROVE  ListInv'
  BY <1>11, HearKeeps, HearDoneKeeps, LoseKeeps
<1>12. ASSUME NEW s, NEW w, Lists!Appear(s, w) PROVE ListInv'
  BY <1>12, AppearKeeps
<1>13. ASSUME NEW i \in DOMAIN rows, NEW s, Lists!Change(i, s) PROVE ListInv'
  BY <1>13, ChangeKeeps
<1>14. CASE UNCHANGED listVars
  <2>1. UNCHANGED <<page, rows, sel, word, mounted, list, calls, spoilt, elsewhere>>
    BY <1>14 DEF listVars
  <2>. QED
    BY <2>1 DEF ListInv, CallsSound, AppsSound, Answering
<1>. QED
  BY <1>1, <1>2, <1>3, <1>4, <1>5, <1>6, <1>7, <1>8, <1>9, <1>10, <1>11, <1>12, <1>13, <1>14
     DEF Lists!ListNext

\* At rest nothing is left to make the list answer something else.
LEMMA ListsSettle ==
    ListInv => Lists!ListAnswersFilter /\ Lists!CountMatchesList /\ Lists!PageStopsAtReview
<1>. SUFFICES ASSUME ListInv
              PROVE  Lists!ListAnswersFilter /\ Lists!CountMatchesList /\ Lists!PageStopsAtReview
  OBVIOUS
<1>1. Lists!ListAnswersFilter
  <2>1. ~Lists!Loading => AllLate("at", LoadAt, calls)
    BY DEF Lists!Loading, Lists!IsLoad, AllLate, LoadAt
  <2>. QED
    BY <2>1 DEF ListInv, Answering, Answers, Lists!ListAnswersFilter
<1>2. Lists!CountMatchesList
  BY SameOperators DEF ListInv, CallsSound, CallSound, Lists!CountMatchesList
<1>3. Lists!PageStopsAtReview
  BY DEF ListInv, AppsSound, RowSound, Lists!PageStopsAtReview
<1>. QED
  BY <1>1, <1>2, <1>3

-----------------------------------------------------------------------------
(* An organization's page. *)

Shown == [of : Org \cup {NoOrg}, donations : SUBSET Donation]
Asked == [of : Org, at : Orgs!Part, answer : Shown]

OrgTypeOK ==
    /\ orgRoute \in Org \cup {NoOrg}
    /\ given \in [Donation -> Org \cup {NoOrg}]
    /\ used \in SUBSET Donation
    /\ part \in [Orgs!Part -> Shown]
    /\ chain \in [Chain -> {Orgs!Quiet} \cup Asked]
    /\ mixed \in BOOLEAN

\* The parts that are asked for before one.
Before(p) == CASE p = "org"    -> {}
               [] p = "pets"   -> {"org"}
               [] p = "usages" -> {"org", "pets"}
               [] p = "stats"  -> {"org", "pets", "usages"}

\* What a chain has filled shows its organization, and its usage records are of
\* money that the total it has yet to bring will count.
ChainFills(c) ==
    /\ chain[c].of = orgRoute
    /\ \A p \in Before(chain[c].at) : part[p].of = orgRoute
    /\ chain[c].answer # Orgs!NoAnswer => chain[c].answer.of = orgRoute
    /\ chain[c].answer # Orgs!NoAnswer /\ chain[c].at = "usages" =>
          chain[c].answer.donations \subseteq Orgs!SumByOrg(orgRoute)
    /\ chain[c].at = "stats" => part["usages"].donations \subseteq Orgs!SumByOrg(orgRoute)
    /\ chain[c].answer # Orgs!NoAnswer /\ chain[c].at = "stats" =>
          part["usages"].donations \subseteq chain[c].answer.donations

OneChain ==
    orgRoute # NoOrg /\ ~mixed =>
        /\ \A a, b \in Chain : chain[a] # Orgs!Quiet /\ chain[b] # Orgs!Quiet => a = b
        /\ \A c \in Chain : chain[c] # Orgs!Quiet => ChainFills(c)
        /\ (\A c \in Chain : chain[c] = Orgs!Quiet) =>
              /\ \A p \in Orgs!Part : part[p].of = orgRoute
              /\ part["usages"].donations \subseteq part["stats"].donations

OrgInv == OrgTypeOK /\ OneChain /\ (orgRoute = NoOrg => \A c \in Chain : chain[c] = Orgs!Quiet)

LEMMA OrgInit == Orgs!OrgStart => OrgInv
<1>. SUFFICES ASSUME Orgs!OrgStart PROVE OrgInv
  OBVIOUS
<1>1. Orgs!NoAnswer \in Shown
  BY DEF Orgs!NoAnswer, Shown
<1>. QED
  BY <1>1 DEF Orgs!OrgStart, OrgInv, OrgTypeOK, OneChain

\* A chain under way asks for a part of an organization.
LEMMA UnderWay ==
    ASSUME OrgTypeOK, NEW c \in Chain
    PROVE  /\ chain[c] # Orgs!Quiet => chain[c] \in Asked /\ chain[c].of \in Org
                                       /\ chain[c].at \in Orgs!Part /\ chain[c].answer \in Shown
           /\ chain[c] \in Asked => chain[c] # Orgs!Quiet
<1>1. chain[c] \in {Orgs!Quiet} \cup Asked
  BY DEF OrgTypeOK
<1>2. chain[c] \in Asked => chain[c].of \in Org
  BY DEF Asked
<1>3. Orgs!Quiet.of = NoOrg
  BY DEF Orgs!Quiet
<1>4. chain[c] \in Asked => chain[c] # Orgs!Quiet
  BY <1>2, <1>3, PagesAssumption
<1>. QED
  BY <1>1, <1>4 DEF Asked

LEMMA NewlyAsked ==
    ASSUME NEW o \in Org, NEW p \in Orgs!Part
    PROVE  /\ Orgs!Asking(o, p) \in Asked /\ Orgs!Asking(o, p) # Orgs!Quiet
           /\ Orgs!Asking(o, p).of = o /\ Orgs!Asking(o, p).at = p
           /\ Orgs!Asking(o, p).answer = Orgs!NoAnswer
<1>1. Orgs!NoAnswer \in Shown
  BY DEF Orgs!NoAnswer, Shown
<1>2. /\ Orgs!Asking(o, p) \in Asked
      /\ Orgs!Asking(o, p).of = o /\ Orgs!Asking(o, p).at = p
      /\ Orgs!Asking(o, p).answer = Orgs!NoAnswer
  BY <1>1 DEF Orgs!Asking, Asked
<1>3. Orgs!Quiet.of = NoOrg
  BY DEF Orgs!Quiet
<1>. QED
  BY <1>2, <1>3, PagesAssumption

\* A donation or a usage record comes in.
LEMMA OrgDonateKeeps ==
    ASSUME OrgInv, NEW d \in Donation, NEW o \in Org, Orgs!Donate(d, o)
    PROVE  OrgInv'
<1>. USE DEF OrgInv, Orgs!Donate
<1>1. OrgTypeOK'
  BY DEF OrgTypeOK
<1>2. orgRoute # NoOrg => Orgs!SumByOrg(orgRoute) \subseteq Orgs!SumByOrg(orgRoute)'
  BY DEF Orgs!SumByOrg, OrgTypeOK
<1>3. ASSUME NEW c \in Chain, orgRoute # NoOrg, ChainFills(c) PROVE ChainFills(c)'
  BY <1>2, <1>3 DEF ChainFills
<1>. QED
  BY <1>1, <1>3 DEF OneChain

LEMMA OrgReportKeeps ==
    ASSUME OrgInv, NEW d \in Donation, Orgs!ReportUsage(d)
    PROVE  OrgInv'
<1>. USE DEF OrgInv, Orgs!ReportUsage
<1>1. OrgTypeOK'
  BY DEF OrgTypeOK
<1>2. ASSUME NEW c \in Chain, ChainFills(c) PROVE ChainFills(c)'
  BY <1>2 DEF ChainFills, Orgs!SumByOrg
<1>. QED
  BY <1>1, <1>2 DEF OneChain

LEMMA OrgServeKeeps ==
    ASSUME OrgInv, NEW c \in Chain, Orgs!Serve(c)
    PROVE  OrgInv'
<1>. USE DEF OrgInv, Orgs!Serve
<1>. DEFINE o == chain[c].of
            p == chain[c].at
            a == Orgs!Answer(o, p)
<1>1. chain[c] \in Asked /\ o \in Org /\ p \in Orgs!Part /\ chain[c] # Orgs!Quiet
  BY UnderWay
<1>2. a \in Shown /\ a.of = o /\ (p = "stats" => a.donations = Orgs!SumByOrg(o))
      /\ (p = "usages" => a.donations \subseteq Orgs!SumByOrg(o))
  BY <1>1 DEF Orgs!Answer, Shown, OrgTypeOK, Orgs!ListUsage, Orgs!SumByOrg
<1>. HIDE DEF a
<1>3. chain' = [chain EXCEPT ![c] = [chain[c] EXCEPT !.answer = a]]
  BY DEF a
<1>4. /\ [chain[c] EXCEPT !.answer = a] \in Asked
      /\ [chain[c] EXCEPT !.answer = a].of = o
      /\ [chain[c] EXCEPT !.answer = a].at = p
      /\ [chain[c] EXCEPT !.answer = a].answer = a
  BY <1>1, <1>2 DEF Asked
<1>5. OrgTypeOK'
  BY <1>3, <1>4 DEF OrgTypeOK
<1>6. /\ chain'[c] # Orgs!Quiet /\ chain'[c].of = o /\ chain'[c].at = p /\ chain'[c].answer = a
      /\ \A b \in Chain : b # c => chain'[b] = chain[b]
  <2>1. chain'[c] = [chain[c] EXCEPT !.answer = a] /\ \A b \in Chain : b # c => chain'[b] = chain[b]
    BY <1>3 DEF OrgTypeOK
  <2>2. Orgs!Quiet.of = NoOrg /\ o # NoOrg
    BY <1>1, PagesAssumption DEF Orgs!Quiet
  <2>3. chain'[c].of = o /\ chain'[c].at = p /\ chain'[c].answer = a
    BY <1>4, <2>1
  <2>. QED
    BY <2>1, <2>2, <2>3
<1>7. ASSUME orgRoute # NoOrg, ~mixed PROVE ChainFills(c)'
  <2>1. ChainFills(c) /\ o = orgRoute
    BY <1>1, <1>7 DEF OneChain, ChainFills
  <2>2. Orgs!SumByOrg(orgRoute)' = Orgs!SumByOrg(orgRoute)
    BY DEF Orgs!SumByOrg
  <2>. QED
    BY <1>2, <1>6, <2>1, <2>2 DEF ChainFills
<1>8. OneChain'
  <2>. SUFFICES ASSUME orgRoute # NoOrg, ~mixed PROVE OneChain'
    BY DEF OneChain
  <2>1. \A b \in Chain : b # c => chain'[b] = Orgs!Quiet
    BY <1>1, <1>6 DEF OneChain
  <2>. QED
    BY <1>6, <1>7, <2>1 DEF OneChain
<1>. QED
  BY <1>1, <1>5, <1>8

LEMMA OrgHearKeeps ==
    ASSUME OrgInv, NEW c \in Chain, Orgs!Hear(c)
    PROVE  OrgInv'
<1>. USE DEF OrgInv, Orgs!Hear
<1>. DEFINE o == chain[c].of
            p == chain[c].at
            a == chain[c].answer
<1>1. chain[c] \in Asked /\ o \in Org /\ p \in Orgs!Part /\ a \in Shown /\ chain[c] # Orgs!Quiet
  BY UnderWay
<1>2. p \in {"org", "pets", "usages", "stats"}
  BY <1>1 DEF Orgs!Part
<1>3. \A q \in Orgs!Part : part'[q] = IF q = p THEN a ELSE part[q]
  BY <1>1 DEF OrgTypeOK
<1>4. /\ p = "stats" => chain'[c] = Orgs!Quiet
      /\ p # "stats" => /\ chain'[c] = Orgs!Asking(o, Orgs!Following[p])
                        /\ Orgs!Following[p] \in Orgs!Part
                        /\ Before(Orgs!Following[p]) = Before(p) \cup {p}
                        /\ Orgs!Following[p] = "stats" => p = "usages"
  BY <1>1, <1>2 DEF OrgTypeOK, Orgs!Following, Orgs!Part, Before
<1>5. \A b \in Chain : b # c => chain'[b] = chain[b]
  BY DEF OrgTypeOK
<1>6. OrgTypeOK'
  <2>1. chain'[c] \in {Orgs!Quiet} \cup Asked
    BY <1>1, <1>4, NewlyAsked
  <2>. QED
    BY <1>1, <2>1 DEF OrgTypeOK
<1>. HIDE DEF o, p, a
<1>7. OneChain'
  <2>. SUFFICES ASSUME orgRoute # NoOrg, ~mixed PROVE OneChain'
    BY DEF OneChain
  <2>1. \A b \in Chain : b # c => chain'[b] = Orgs!Quiet
    BY <1>1, <1>5 DEF OneChain
  <2>2. ChainFills(c)
    BY <1>1 DEF OneChain
  <2>3. o = orgRoute /\ a.of = orgRoute /\ \A q \in Before(p) \cup {p} : part'[q].of = orgRoute
    BY <1>1, <1>2, <1>3, <2>2 DEF ChainFills, o, p, a, Before, Orgs!Part
  <2>4. CASE p = "stats"
    <3>1. chain'[c] = Orgs!Quiet
      BY <1>4, <2>4
    <3>2. \A q \in Orgs!Part : part'[q].of = orgRoute
      BY <2>3, <2>4 DEF Before, Orgs!Part
    <3>3. part'["usages"].donations \subseteq part'["stats"].donations
      BY <1>1, <1>3, <2>2, <2>4 DEF ChainFills, Orgs!Part, p, a
    <3>. QED
      BY <2>1, <3>1, <3>2, <3>3 DEF OneChain
  <2>5. CASE p # "stats"
    <3>1. /\ chain'[c] # Orgs!Quiet /\ chain'[c].of = o /\ chain'[c].at = Orgs!Following[p]
          /\ chain'[c].answer = Orgs!NoAnswer
      BY <1>1, <1>4, <2>5, NewlyAsked
    <3>2. Orgs!SumByOrg(orgRoute)' = Orgs!SumByOrg(orgRoute)
      BY DEF Orgs!SumByOrg
    <3>3. p = "usages" => part'["usages"].donations \subseteq Orgs!SumByOrg(orgRoute)
      BY <1>1, <1>3, <2>2 DEF ChainFills, Orgs!Part, p, a
    <3>4. ChainFills(c)'
      BY <1>4, <2>3, <2>5, <3>1, <3>2, <3>3 DEF ChainFills
    <3>. QED
      BY <2>1, <3>1, <3>4 DEF OneChain
  <2>. QED
    BY <2>4, <2>5
<1>. QED
  BY <1>1, <1>6, <1>7

LEMMA OrgBreakOffKeeps ==
    ASSUME OrgInv, NEW c \in Chain, Orgs!BreakOff(c)
    PROVE  OrgInv'
BY DEF OrgInv, Orgs!BreakOff, OrgTypeOK, OneChain

LEMMA OrgJumpKeeps ==
    ASSUME OrgInv, NEW c \in Chain, NEW o \in Org, Orgs!Jump(c, o)
    PROVE  OrgInv'
<1>. USE DEF OrgInv, Orgs!Jump
<1>1. "org" \in Orgs!Part /\ Before("org") = {}
  BY DEF Orgs!Part, Before
<1>2. /\ Orgs!Asking(o, "org") \in Asked /\ Orgs!Asking(o, "org") # Orgs!Quiet
      /\ Orgs!Asking(o, "org").of = o /\ Orgs!Asking(o, "org").at = "org"
      /\ Orgs!Asking(o, "org").answer = Orgs!NoAnswer
  BY <1>1, NewlyAsked
<1>3. OrgTypeOK'
  BY <1>2 DEF OrgTypeOK
<1>4. chain'[c] = Orgs!Asking(o, "org") /\ \A b \in Chain : b # c => chain'[b] = chain[b]
  BY DEF OrgTypeOK
<1>5. ChainFills(c)'
  BY <1>1, <1>2, <1>4 DEF ChainFills
<1>6. OneChain'
  BY <1>2, <1>4, <1>5 DEF OneChain
<1>. QED
  BY <1>3, <1>6, PagesAssumption

LEMMA OrgStep == OrgInv /\ [Orgs!OrgNext]_orgVars => OrgInv'
<1>1. ASSUME OrgInv, UNCHANGED orgVars PROVE OrgInv'
  BY <1>1 DEF orgVars, OrgInv, OrgTypeOK, OneChain, ChainFills, Orgs!SumByOrg
<1>. QED
  BY <1>1, OrgDonateKeeps, OrgReportKeeps, OrgServeKeeps, OrgHearKeeps, OrgBreakOffKeeps, OrgJumpKeeps DEF Orgs!OrgNext

LEMMA OrgPageSettles == OrgInv => SettledPageIsOneOrg /\ UseShownIsOfMoneyShown
BY PagesAssumption
   DEF OrgInv, OneChain, SettledPageIsOneOrg, UseShownIsOfMoneyShown, Orgs!SettledPageIsOneOrg,
       Orgs!UseShownIsOfMoneyShown, Orgs!Settled

\* Hearing a load leaves those of the other kinds as they were.
LEMMA OtherHeard ==
    ASSUME NEW f, NEW J, NEW K, J \cap K = {}, NEW s, IsASequence(s), LateFirst(f, K, s),
           NEW c \in DOMAIN s, s[c][f] \in J,
           \A b \in DOMAIN s : s[b][f] \in J => MadeLate(s[b])[f] \in J,
           NEW t, t = RemoveAt(Marked(f, J, s, c), c)
    PROVE  /\ LateFirst(f, K, t)
           /\ \A d \in DOMAIN t : NewestOf(f, K, t, d) /\ ~t[d].late =>
                 \E e \in DOMAIN s : NewestOf(f, K, s, e) /\ s[e] = t[d]
           /\ AllLate(f, K, t) => AllLate(f, K, s)
<1>1. PICK m : m = Marked(f, J, s, c)
  OBVIOUS
<1>2. /\ DOMAIN m = DOMAIN s /\ m = [b \in DOMAIN m |-> m[b]]
      /\ \A b \in DOMAIN s : m[b] = IF b < c /\ s[b][f] \in J THEN MadeLate(s[b]) ELSE s[b]
  BY <1>1 DEF Marked
<1>3. \A b \in DOMAIN s : (m[b][f] \in K <=> s[b][f] \in K) /\ (s[b][f] \in K => m[b] = s[b])
  BY <1>2
<1>4. IsASequence(m) /\ LateFirst(f, K, m) /\ c \in DOMAIN m /\ ~NewestOf(f, K, m, c)
  BY <1>2, <1>3, Replaced DEF LateFirst, NewestOf
<1>5. /\ LateFirst(f, K, t)
      /\ \A d \in DOMAIN t : NewestOf(f, K, t, d) /\ ~t[d].late =>
            \E e \in DOMAIN m : NewestOf(f, K, m, e) /\ m[e] = t[d]
      /\ AllLate(f, K, t) => AllLate(f, K, m)
  BY <1>1, <1>4, CallGone
<1>6. \A e \in DOMAIN m : NewestOf(f, K, m, e) => NewestOf(f, K, s, e) /\ m[e] = s[e]
  BY <1>2, <1>3 DEF NewestOf
<1>7. AllLate(f, K, m) => AllLate(f, K, s)
  BY <1>2, <1>3 DEF AllLate
<1>. QED
  BY <1>2, <1>5, <1>6, <1>7

-----------------------------------------------------------------------------
(* A post's page. *)

\* The loads of one part.
Only(k) == {k}

\* A load of the page, and what it has been answered.
LoadSound(e) ==
    /\ {"part", "of", "answer", "late"} \subseteq DOMAIN e
    /\ e.part \in PagePart
    /\ e.answer # NothingShown => e.answer.of = e.of

\* An answer for part k that is about post p, has its n likes and the comments S.
EnoughFor(k, a, p, n, S) ==
    a.of = p /\ (k = "post" => a.likes >= n) /\ (k = "comments" => S \subseteq a.comments)

\* Of the loads s of part k the newest that nothing made late is about p, and
\* has enough once it is answered; when there is none what is shown has enough.
PartSound(k, s, sh, p, n, S) ==
    /\ \A l \in DOMAIN s : NewestOf("part", Only(k), s, l) /\ ~s[l].late =>
          s[l].of = p /\ (s[l].answer # NothingShown => EnoughFor(k, s[l].answer, p, n, S))
    /\ AllLate("part", Only(k), s) => EnoughFor(k, sh, p, n, S)

LEMMA PartAsked ==
    ASSUME NEW k, NEW s, IsASequence(s), NEW l, l.part = k, ~l.late, l.answer = NothingShown,
           NEW t, t = Added(s, l), NEW sh, NEW n, NEW S, NEW p, l.of = p
    PROVE  PartSound(k, t, sh, p, n, S)
<1>1. PICK K : K = Only(k)
  OBVIOUS
<1>2. l["part"] \in K
  BY <1>1 DEF Only
<1>3. /\ \A c \in DOMAIN t : NewestOf("part", K, t, c) => t[c] = l
      /\ ~AllLate("part", K, t)
  BY <1>2, LoadAdded
<1>. QED
  BY <1>1, <1>3 DEF PartSound

LEMMA OtherAsked ==
    ASSUME NEW k, NEW s, IsASequence(s), NEW l, l.part # k, NEW t, t = Added(s, l),
           NEW sh, NEW p, NEW n, NEW S, PartSound(k, s, sh, p, n, S)
    PROVE  PartSound(k, t, sh, p, n, S)
<1>1. PICK K : K = Only(k)
  OBVIOUS
<1>2. l["part"] \notin K
  BY <1>1 DEF Only
<1>3. /\ \A c \in DOMAIN t : NewestOf("part", K, t, c) => NewestOf("part", K, s, c) /\ t[c] = s[c]
      /\ AllLate("part", K, t) => AllLate("part", K, s)
  BY <1>2, OtherAdded
<1>4. \A c : NewestOf("part", K, s, c) => c \in DOMAIN s
  BY DEF NewestOf
<1>. QED
  BY <1>1, <1>3, <1>4 DEF PartSound

\* The loads with an answer to one of them.
Answered(s, c, a) == [s EXCEPT ![c].answer = a]

LEMMA PartServed ==
    ASSUME NEW k, NEW s, NEW c \in DOMAIN s, LoadSound(s[c]), NEW a,
           NEW t, t = Answered(s, c, a), NEW sh, NEW p, NEW n, NEW S,
           s[c].part = k /\ s[c].of = p => EnoughFor(k, a, p, n, S), PartSound(k, s, sh, p, n, S)
    PROVE  PartSound(k, t, sh, p, n, S)
<1>1. PICK K : K = Only(k)
  OBVIOUS
<1>2. PICK e : e = [s[c] EXCEPT !.answer = a]
  OBVIOUS
<1>3. e.part = s[c].part /\ e.of = s[c].of /\ e.late = s[c].late /\ e.answer = a
  BY <1>2 DEF LoadSound
<1>4. t = [s EXCEPT ![c] = e]
  BY <1>2 DEF Answered
<1>5. /\ e["part"] \in K <=> s[c]["part"] \in K
      /\ e["part"] \in K => (e.late <=> s[c].late)
  BY <1>3
<1>6. /\ \A d \in DOMAIN t : NewestOf("part", K, t, d) =>
            NewestOf("part", K, s, d) /\ (t[d].late <=> s[d].late)
      /\ AllLate("part", K, t) => AllLate("part", K, s)
  BY <1>4, <1>5, CallReplaced
<1>7. DOMAIN t = DOMAIN s /\ \A d \in DOMAIN s : t[d] = IF d = c THEN e ELSE s[d]
  BY <1>4
<1>8. NewestOf("part", K, s, c) => s[c].part = k
  BY <1>1 DEF NewestOf, Only
<1>9. ASSUME NEW d \in DOMAIN t, NewestOf("part", K, t, d), ~t[d].late
      PROVE  t[d].of = p /\ (t[d].answer # NothingShown => EnoughFor(k, t[d].answer, p, n, S))
  <2>1. /\ NewestOf("part", K, s, d) /\ d \in DOMAIN s /\ ~s[d].late
        /\ s[d].of = p /\ (s[d].answer # NothingShown => EnoughFor(k, s[d].answer, p, n, S))
    BY <1>1, <1>6, <1>7, <1>9 DEF PartSound
  <2>. QED
    BY <1>3, <1>7, <1>8, <2>1
<1>. QED
  BY <1>1, <1>6, <1>9 DEF PartSound

LEMMA PartGone ==
    ASSUME NEW k, NEW s, IsASequence(s), LateFirst("part", Only(k), s), NEW c \in DOMAIN s,
           NEW t, t = RemoveAt(s, c), NEW sh, NEW p, NEW n, NEW S,
           NewestOf("part", Only(k), s, c) => s[c].late, PartSound(k, s, sh, p, n, S)
    PROVE  PartSound(k, t, sh, p, n, S)
<1>1. PICK K : K = Only(k)
  OBVIOUS
<1>2. LateFirst("part", K, s) /\ (NewestOf("part", K, s, c) => s[c].late)
  BY <1>1
<1>3. /\ \A d \in DOMAIN t : NewestOf("part", K, t, d) /\ ~t[d].late =>
            \E e \in DOMAIN s : NewestOf("part", K, s, e) /\ s[e] = t[d]
      /\ AllLate("part", K, t) => AllLate("part", K, s)
  BY <1>2, CallGone
<1>. QED
  BY <1>1, <1>3 DEF PartSound

\* What a load of part j is once it is marked.
LEMMA MarkedLoad ==
    ASSUME NEW e, LoadSound(e)
    PROVE  LoadSound(MadeLate(e)) /\ "late" \in DOMAIN e /\ MadeLate(e)["part"] = e["part"]
<1>1. PICK m : m = [e EXCEPT !.late = TRUE]
  OBVIOUS
<1>2. /\ DOMAIN m = DOMAIN e /\ m.part = e.part /\ m.of = e.of /\ m.answer = e.answer
      /\ "late" \in DOMAIN e
  BY <1>1 DEF LoadSound
<1>3. MadeLate(e) = m
  BY <1>1 DEF MadeLate
<1>4. LoadSound(m)
  BY <1>2 DEF LoadSound
<1>. QED
  BY <1>2, <1>3, <1>4

LEMMA PartHeard ==
    ASSUME NEW k, NEW s, IsASequence(s), LateFirst("part", Only(k), s), NEW c \in DOMAIN s,
           s[c].part = k, s[c].answer # NothingShown,
           \A b \in DOMAIN s : LoadSound(s[b]),
           NEW t, t = RemoveAt(Marked("part", Only(k), s, c), c)
    PROVE  /\ IsASequence(t) /\ LateFirst("part", Only(k), t)
           /\ \A d \in DOMAIN t : LoadSound(t[d])
           /\ \A sh, p, n, S : ~s[c].late /\ PartSound(k, s, sh, p, n, S) =>
                 PartSound(k, t, s[c].answer, p, n, S)
<1>1. PICK K : K = Only(k)
  OBVIOUS
<1>2. s[c]["part"] \in K /\ t = RemoveAt(Marked("part", K, s, c), c) /\ LateFirst("part", K, s)
  BY <1>1 DEF Only
<1>3. \A b \in DOMAIN s : s[b]["part"] \in K =>
         "late" \in DOMAIN s[b] /\ MadeLate(s[b])["part"] \in K
  BY MarkedLoad
<1>4. /\ IsASequence(t) /\ LateFirst("part", K, t)
      /\ \A d \in DOMAIN t : \E e \in DOMAIN s :
            t[d] = s[e] \/ (s[e]["part"] \in K /\ t[d] = MadeLate(s[e]))
      /\ \A d \in DOMAIN t : NewestOf("part", K, t, d) /\ ~t[d].late =>
            \E e \in DOMAIN s : NewestOf("part", K, s, e) /\ s[e] = t[d]
      /\ AllLate("part", K, t) /\ ~s[c].late => NewestOf("part", K, s, c)
  BY <1>2, <1>3, LoadHeard
<1>5. \A d \in DOMAIN t : LoadSound(t[d])
  BY <1>4, MarkedLoad
<1>6. ASSUME ~s[c].late, NEW sh, NEW p, NEW n, NEW S, PartSound(k, s, sh, p, n, S)
      PROVE  PartSound(k, t, s[c].answer, p, n, S)
  BY <1>1, <1>4, <1>6 DEF PartSound
<1>. QED
  BY <1>1, <1>4, <1>5, <1>6

LEMMA OtherPartHeard ==
    ASSUME NEW j, NEW k, j # k, NEW s, IsASequence(s), LateFirst("part", Only(k), s), NEW c \in DOMAIN s,
           s[c].part = j, \A b \in DOMAIN s : LoadSound(s[b]),
           NEW t, t = RemoveAt(Marked("part", Only(j), s, c), c)
    PROVE  /\ LateFirst("part", Only(k), t)
           /\ \A sh, p, n, S : PartSound(k, s, sh, p, n, S) => PartSound(k, t, sh, p, n, S)
<1>1. PICK J, K : J = Only(j) /\ K = Only(k)
  OBVIOUS
<1>2. /\ s[c]["part"] \in J /\ J \cap K = {} /\ LateFirst("part", K, s)
      /\ t = RemoveAt(Marked("part", J, s, c), c)
  BY <1>1 DEF Only
<1>3. \A b \in DOMAIN s : s[b]["part"] \in J => MadeLate(s[b])["part"] \in J
  BY MarkedLoad
<1>4. /\ LateFirst("part", K, t)
      /\ \A d \in DOMAIN t : NewestOf("part", K, t, d) /\ ~t[d].late =>
            \E e \in DOMAIN s : NewestOf("part", K, s, e) /\ s[e] = t[d]
      /\ AllLate("part", K, t) => AllLate("part", K, s)
  BY <1>2, <1>3, OtherHeard
<1>5. ASSUME NEW sh, NEW p, NEW n, NEW S, PartSound(k, s, sh, p, n, S)
      PROVE  PartSound(k, t, sh, p, n, S)
  BY <1>1, <1>4, <1>5 DEF PartSound
<1>. QED
  BY <1>1, <1>4, <1>5

\* The comments' count of likes and the post's comments do not matter, and
\* fewer comments to show are shown all the more.
LEMMA PartFewer ==
    ASSUME NEW k, NEW s, NEW sh, NEW p, NEW n, NEW S, NEW m, NEW R,
           k = "post" => m = n, k = "comments" => R \subseteq S,
           PartSound(k, s, sh, p, n, S)
    PROVE  PartSound(k, s, sh, p, m, R)
BY DEF PartSound, EnoughFor

LoadsOK(s) ==
    /\ IsASequence(s)
    /\ \A l \in DOMAIN s : LoadSound(s[l])
    /\ \A k \in PagePart : LateFirst("part", Only(k), s)

LoadsSound == LoadsOK(loads) /\ DOMAIN shown = PagePart

\* The comments of post p that the page was told are made and nobody deleted.
Kept(p) == said.comments \cap LiveOn(p)

PartsSound ==
    \A k \in PagePart, p \in Post :
        k \notin stale /\ Target(k) = p =>
            PartSound(k, loads, shown[k], p, said.likes[p], Kept(p))

\* What a request that the page waits for has done, or is about to do.
AwaitsSound ==
    /\ DOMAIN awaited = Req
    /\ \A r \in Req : Waiting(r) =>
          /\ {"part", "of", "on", "made"} \subseteq DOMAIN awaited[r]
          /\ awaited[r].part \in PagePart /\ awaited[r].on \in Post
          /\ awaited[r].part = "comments" =>
                IF req[r] = Idle THEN awaited[r].made \in Comment /\ created[awaited[r].made] # NoRow
                ELSE req[r].op = "create"

\* The likes of post p that are in the table and not yet heard of.
LikesWaiting(p) == {r \in Req : Waiting(r) /\ awaited[r].part = "post" /\ awaited[r].on = p}

LikesSaid ==
    \A p \in Post : /\ IsFiniteSet(LikesWaiting(p))
                    /\ said.likes[p] + Cardinality(LikesWaiting(p)) <= likeCount[p]

SaidSound ==
    /\ said \in [likes : [Post -> Nat], comments : SUBSET Comment]
    /\ \A c \in said.comments : created[c] # NoRow

SaidInv == SaidSound /\ AwaitsSound /\ LikesSaid

PostInv == LoadsSound /\ PartsSound /\ SaidInv

LEMMA PostInit == Init /\ PageStart => PostInv
<1>. SUFFICES ASSUME Init, PageStart PROVE PostInv
  OBVIOUS
<1>. USE DEF PageStart
<1>1. IsASequence(<<>>) /\ DOMAIN <<>> = {}
  <2>1. <<>> \in Seq({}) /\ Len(<<>>) = 0
    BY EmptySeq
  <2>. QED
    BY <2>1, SeqOfRange, LenProperties DEF IsASequence
<1>2. LoadsSound
  BY <1>1 DEF LoadsSound, LoadsOK, LateFirst
<1>3. PartsSound
  <2>1. \A k \in PagePart : Target(k) = NoRow
    BY DEF Target, NothingShown, PagePart
  <2>. QED
    BY <2>1, NoRowAssumption DEF PartsSound
<1>4. \A r \in Req : ~Waiting(r)
  BY DEF Waiting
<1>5. SaidSound /\ AwaitsSound
  BY <1>4 DEF SaidSound, AwaitsSound
<1>6. LikesSaid
  <2>. SUFFICES ASSUME NEW p \in Post
                PROVE  IsFiniteSet(LikesWaiting(p)) /\ said.likes[p] + Cardinality(LikesWaiting(p)) <= likeCount[p]
    BY DEF LikesSaid
  <2>1. LikesWaiting(p) = {}
    BY <1>4 DEF LikesWaiting
  <2>2. said.likes[p] = 0 /\ likeCount[p] = 0
    BY DEF Init
  <2>. QED
    BY <2>1, <2>2, FS_EmptySet
<1>. QED
  BY <1>2, <1>3, <1>5, <1>6 DEF PostInv, SaidInv

\* Steps that touch neither the server nor what the page was told.
LEMMA SaidKeeps ==
    ASSUME SaidInv, UNCHANGED <<vars, awaited, said>>
    PROVE  SaidInv'
BY DEF vars, SaidInv, SaidSound, AwaitsSound, LikesSaid, LikesWaiting, Waiting

LEMMA KeptStays ==
    ASSUME UNCHANGED <<vars, said>>, NEW p \in Post
    PROVE  Kept(p)' = Kept(p) /\ said' = said
BY DEF vars, Kept, LiveOn, Exists

\* A load is added.
LEMMA AddedSound ==
    ASSUME NEW s, LoadsOK(s), NEW l, LoadSound(l), ~l.late, NEW t, t = Added(s, l)
    PROVE  LoadsOK(t)
<1>1. /\ IsASequence(t) /\ Len(s) \in Nat /\ DOMAIN s = 1 .. Len(s)
      /\ DOMAIN t = 1 .. Len(s) + 1
      /\ \A c \in DOMAIN t : t[c] = IF c <= Len(s) THEN s[c] ELSE l
  BY Appended, Indices DEF LoadsOK, Added
<1>2. \A c \in DOMAIN t : LoadSound(t[c])
  BY <1>1 DEF LoadsOK
<1>3. ASSUME NEW k \in PagePart PROVE LateFirst("part", Only(k), t)
  <2>1. PICK K : K = Only(k)
    OBVIOUS
  <2>2. LateFirst("part", K, s) /\ IsASequence(s)
    BY <2>1 DEF LoadsOK
  <2>3. CASE l["part"] \in K
    BY <2>1, <2>2, <2>3, LoadAdded
  <2>4. CASE l["part"] \notin K
    BY <2>1, <2>2, <2>4, OtherAdded
  <2>. QED
    BY <2>3, <2>4
<1>. QED
  BY <1>1, <1>2, <1>3 DEF LoadsOK

LEMMA LoadIs ==
    ASSUME NEW k \in PagePart, NEW p
    PROVE  /\ LoadSound(Load(k, p)) /\ ~Load(k, p).late /\ Load(k, p).answer = NothingShown
           /\ Load(k, p).part = k /\ Load(k, p).of = p
BY DEF Load, LoadSound

LEMMA JumpKeeps ==
    ASSUME PostInv, NEW p \in Post, Jump(p), UNCHANGED vars
    PROVE  PostInv'
<1>. DEFINE l == Load("post", p)
<1>1. /\ LoadSound(l) /\ ~l.late /\ l.answer = NothingShown /\ l.part = "post" /\ l.of = p
      /\ loads' = Added(loads, l)
  BY LoadIs DEF Jump, PagePart, Added
<1>2. UNCHANGED <<shown, awaited, said>> /\ stale' = stale \ {"post"} /\ route' = p
  BY DEF Jump
<1>. HIDE DEF l
<1>3. LoadsSound'
  BY <1>1, <1>2, AddedSound DEF PostInv, LoadsSound, LoadsOK
<1>4. PartsSound'
  <2>. SUFFICES ASSUME NEW k \in PagePart, NEW q \in Post, k \notin stale', Target(k)' = q
                PROVE  PartSound(k, loads', shown'[k], q, said'.likes[q], Kept(q)')
    BY DEF PartsSound
  <2>0. IsASequence(loads)
    BY DEF PostInv, LoadsSound, LoadsOK
  <2>1. CASE k = "post"
    <3>1. q = p
      BY <1>2, <2>1 DEF Target
    <3>. QED
      BY <1>1, <2>0, <2>1, <3>1, PartAsked
  <2>2. CASE k = "comments"
    <3>1. Target(k) = q /\ k \notin stale /\ shown' = shown
      BY <1>2, <2>2 DEF Target
    <3>2. PartSound(k, loads, shown[k], q, said.likes[q], Kept(q))
      BY <3>1 DEF PostInv, PartsSound
    <3>3. PartSound(k, loads', shown[k], q, said.likes[q], Kept(q))
      BY <1>1, <2>0, <2>2, <3>2, OtherAsked
    <3>. QED
      BY <1>2, <3>1, <3>3, KeptStays
  <2>. QED
    BY <2>1, <2>2 DEF PagePart
<1>. QED
  BY <1>2, <1>3, <1>4, SaidKeeps DEF PostInv

\* The answer is what there is to show.
LEMMA ServeKeeps ==
    ASSUME PostInv, TypeOK, NEW c \in DOMAIN loads, Serve(c), UNCHANGED vars
    PROVE  PostInv'
<1>. DEFINE a == IF loads[c].part = "post" THEN GetPost(loads[c].of) ELSE ListComments(loads[c].of)
            e == [loads[c] EXCEPT !.answer = a]
<1>0. LoadSound(loads[c]) /\ IsASequence(loads)
  BY DEF PostInv, LoadsSound, LoadsOK
<1>1. /\ loads' = Answered(loads, c, a) /\ loads' = [loads EXCEPT ![c] = e]
      /\ UNCHANGED <<route, shown, awaited, said, stale>>
  BY DEF Serve, Answered
<1>2. /\ a.of = loads[c].of
      /\ loads[c].part = "post" => a.likes = likeCount[loads[c].of]
      /\ loads[c].part = "comments" => a.comments = LiveOn(loads[c].of)
  BY DEF GetPost, ListComments
<1>. HIDE DEF a
<1>3. LoadSound(e) /\ e.part = loads[c].part /\ e.late = loads[c].late
  BY <1>0, <1>2 DEF LoadSound
<1>. HIDE DEF e
<1>4. LoadsSound'
  <2>1. /\ DOMAIN loads' = DOMAIN loads /\ loads' = [d \in DOMAIN loads |-> loads'[d]]
        /\ \A d \in DOMAIN loads : loads'[d] = IF d = c THEN e ELSE loads[d]
    BY <1>1
  <2>2. IsASequence(loads') /\ \A d \in DOMAIN loads' : LoadSound(loads'[d])
    BY <1>3, <2>1, Replaced DEF PostInv, LoadsSound, LoadsOK
  <2>3. ASSUME NEW k \in PagePart PROVE LateFirst("part", Only(k), loads')
    <3>1. PICK K : K = Only(k)
      OBVIOUS
    <3>2. LateFirst("part", K, loads)
      BY <3>1 DEF PostInv, LoadsSound, LoadsOK
    <3>. QED
      BY <1>3, <2>1, <3>1, <3>2 DEF LateFirst
  <2>. QED
    BY <1>1, <2>2, <2>3 DEF PostInv, LoadsSound, LoadsOK
<1>5. PartsSound'
  <2>. SUFFICES ASSUME NEW k \in PagePart, NEW q \in Post, k \notin stale', Target(k)' = q
                PROVE  PartSound(k, loads', shown'[k], q, said'.likes[q], Kept(q)')
    BY DEF PartsSound
  <2>1. Target(k) = q /\ k \notin stale
    BY <1>1 DEF Target
  <2>2. PartSound(k, loads, shown[k], q, said.likes[q], Kept(q))
    BY <2>1 DEF PostInv, PartsSound
  <2>3. likeCount[q] >= said.likes[q]
    <3>1. /\ IsFiniteSet(LikesWaiting(q))
          /\ said.likes[q] + Cardinality(LikesWaiting(q)) <= likeCount[q]
          /\ said.likes[q] \in Nat
      BY DEF PostInv, SaidInv, LikesSaid, SaidSound
    <3>2. Cardinality(LikesWaiting(q)) \in Nat
      BY <3>1, FS_CardinalityType
    <3>3. likeCount[q] \in Nat
      BY CommentAssumption DEF TypeOK
    <3>. QED
      BY <3>1, <3>2, <3>3
  <2>4. loads[c].part = k /\ loads[c].of = q => EnoughFor(k, a, q, said.likes[q], Kept(q))
    BY <1>2, <2>3 DEF EnoughFor, Kept
  <2>5. PartSound(k, loads', shown[k], q, said.likes[q], Kept(q))
    <3>1. PICK sh, n, S : sh = shown[k] /\ n = said.likes[q] /\ S = Kept(q)
      OBVIOUS
    <3>2. PICK s, t : s = loads /\ t = loads'
      OBVIOUS
    <3>3. PartSound(k, s, sh, q, n, S) /\ t = Answered(s, c, a) /\ c \in DOMAIN s /\ LoadSound(s[c])
      BY <1>0, <1>1, <2>2, <3>1, <3>2
    <3>4. s[c].part = k /\ s[c].of = q => EnoughFor(k, a, q, n, S)
      BY <2>4, <3>1, <3>2
    <3>5. PartSound(k, t, sh, q, n, S)
      BY <3>3, <3>4, PartServed
    <3>. QED
      BY <3>1, <3>2, <3>5
  <2>. QED
    BY <1>1, <2>5, KeptStays
<1>. QED
  BY <1>1, <1>4, <1>5, SaidKeeps DEF PostInv

LEMMA Joined ==
    ASSUME NEW s, IsASequence(s), NEW e
    PROVE  s \o <<>> = s /\ s \o <<e>> = Added(s, e)
<1>. DEFINE S == Range(s) \cup {e}
<1>1. s \in Seq(S)
  BY SeqMonotonic DEF IsASequence
<1>. HIDE DEF S
<1>2. s \o <<>> = s
  BY <1>1, ConcatEmptySeq
<1>3. e \in Range(s) \cup {e}
  OBVIOUS
<1>4. e \in S
  BY <1>3 DEF S
<1>5. Append(s, e) = s \o <<e>>
  BY <1>1, <1>4, AppendProperties
<1>. QED
  BY <1>2, <1>5 DEF Added

\* The loads after one of them is heard.
LEMMA HeardIs ==
    ASSUME LoadsSound, NEW c \in DOMAIN loads, loads[c].answer # NothingShown, NEW t, t = Heard(c)
    PROVE  /\ t = RemoveAt(Marked("part", Only(loads[c].part), loads, c), c)
           /\ IsASequence(t) /\ \A d \in DOMAIN t : LoadSound(t[d])
           /\ \A k \in PagePart : LateFirst("part", Only(k), t)
<1>1. PICK j : j = loads[c].part
  OBVIOUS
<1>2. t = RemoveAt(Marked("part", Only(j), loads, c), c)
  BY <1>1 DEF Heard, Marked, Only, MadeLate
<1>3. PICK s : s = loads
  OBVIOUS
<1>4. /\ IsASequence(s) /\ c \in DOMAIN s /\ s[c].part = j /\ s[c].answer # NothingShown
      /\ \A b \in DOMAIN s : LoadSound(s[b])
      /\ \A k \in PagePart : LateFirst("part", Only(k), s)
      /\ t = RemoveAt(Marked("part", Only(j), s, c), c)
      /\ j \in PagePart
  BY <1>1, <1>2, <1>3 DEF LoadsSound, LoadsOK, LoadSound
<1>5. IsASequence(t) /\ LateFirst("part", Only(j), t) /\ \A d \in DOMAIN t : LoadSound(t[d])
  BY <1>4, PartHeard
<1>6. \A k \in PagePart : k # j => LateFirst("part", Only(k), t)
  BY <1>4, OtherPartHeard
<1>. QED
  BY <1>1, <1>2, <1>5, <1>6

\* What is sound of part k stays so; the part heard of shows the answer.
LEMMA HeardSound ==
    ASSUME LoadsSound, NEW c \in DOMAIN loads, loads[c].answer # NothingShown, NEW t, t = Heard(c),
           NEW k \in PagePart, NEW sh, NEW p, NEW n, NEW S, PartSound(k, loads, sh, p, n, S)
    PROVE  /\ k # loads[c].part => PartSound(k, t, sh, p, n, S)
           /\ k = loads[c].part /\ ~loads[c].late => PartSound(k, t, loads[c].answer, p, n, S)
<1>1. PICK s, j : s = loads /\ j = loads[c].part
  OBVIOUS
<1>2. /\ IsASequence(s) /\ c \in DOMAIN s /\ s[c].part = j /\ s[c].answer # NothingShown
      /\ \A b \in DOMAIN s : LoadSound(s[b])
      /\ \A i \in PagePart : LateFirst("part", Only(i), s)
      /\ t = RemoveAt(Marked("part", Only(j), s, c), c)
      /\ j \in PagePart
      /\ PartSound(k, s, sh, p, n, S)
  BY <1>1, HeardIs DEF LoadsSound, LoadsOK, LoadSound
<1>3. k # j => PartSound(k, t, sh, p, n, S)
  BY <1>2, OtherPartHeard
<1>4. k = j /\ ~s[c].late => PartSound(k, t, s[c].answer, p, n, S)
  BY <1>2, PartHeard
<1>. QED
  BY <1>1, <1>3, <1>4

LEMMA HearCommentsKeeps ==
    ASSUME PostInv, NEW c \in DOMAIN loads, HearComments(c), UNCHANGED vars
    PROVE  PostInv'
<1>1. /\ loads[c].part = "comments" /\ loads[c].answer # NothingShown
      /\ loads' = Heard(c) /\ stale' = stale \cup Late(c)
      /\ shown' = [shown EXCEPT !["comments"] = loads[c].answer]
      /\ UNCHANGED <<route, awaited, said>>
  BY DEF HearComments, Show
<1>2. LoadsSound /\ DOMAIN shown = PagePart
  BY DEF PostInv, LoadsSound, LoadsOK
<1>3. LoadsSound'
  BY <1>1, <1>2, HeardIs DEF LoadsSound, LoadsOK
<1>4. PartsSound'
  <2>. SUFFICES ASSUME NEW k \in PagePart, NEW q \in Post, k \notin stale', Target(k)' = q
                PROVE  PartSound(k, loads', shown'[k], q, said'.likes[q], Kept(q)')
    BY DEF PartsSound
  <2>1. Target(k) = q /\ k \notin stale /\ (k = "comments" => ~loads[c].late)
    BY <1>1 DEF Target, Late
  <2>2. PartSound(k, loads, shown[k], q, said.likes[q], Kept(q))
    BY <2>1 DEF PostInv, PartsSound
  <2>3. PICK t, sh, n, S : t = Heard(c) /\ sh = shown[k] /\ n = said.likes[q] /\ S = Kept(q)
    OBVIOUS
  <2>4. /\ k # "comments" => PartSound(k, t, sh, q, n, S)
        /\ k = "comments" => PartSound(k, t, loads[c].answer, q, n, S)
    BY <1>1, <1>2, <2>1, <2>2, <2>3, HeardSound
  <2>5. shown'[k] = IF k = "comments" THEN loads[c].answer ELSE sh
    BY <1>1, <1>2, <2>3
  <2>. QED
    BY <1>1, <2>3, <2>4, <2>5, KeptStays
<1>. QED
  BY <1>1, <1>3, <1>4, SaidKeeps DEF PostInv

LEMMA HearPostKeeps ==
    ASSUME PostInv, NEW c \in DOMAIN loads, HearPost(c), UNCHANGED vars
    PROVE  PostInv'
<1>1. PICK t, l, other : /\ t = Heard(c) /\ l = Load("comments", loads[c].of)
                         /\ other = (shown["post"].of # loads[c].of)
  OBVIOUS
<1>2. /\ loads[c].part = "post" /\ loads[c].answer # NothingShown
      /\ loads' = t \o IF other THEN <<l>> ELSE <<>>
      /\ stale' = (stale \ IF other THEN {"comments"} ELSE {}) \cup Late(c)
      /\ shown' = [shown EXCEPT !["post"] = loads[c].answer]
      /\ UNCHANGED <<route, awaited, said>>
  BY <1>1 DEF HearPost, Show
<1>3. LoadsSound /\ DOMAIN shown = PagePart /\ loads[c].answer.of = loads[c].of
  BY <1>2 DEF PostInv, LoadsSound, LoadsOK, LoadSound
<1>4. IsASequence(t) /\ (\A d \in DOMAIN t : LoadSound(t[d]))
      /\ \A k \in PagePart : LateFirst("part", Only(k), t)
  BY <1>1, <1>2, <1>3, HeardIs
<1>5. /\ other => loads' = Added(t, l)
      /\ ~other => loads' = t
  BY <1>2, <1>4, Joined
<1>6. LoadSound(l) /\ ~l.late /\ l.answer = NothingShown /\ l.part = "comments" /\ l.of = loads[c].of
  BY <1>1, LoadIs DEF PagePart
<1>7. DOMAIN shown' = PagePart /\ shown'["post"] = loads[c].answer /\ shown'["comments"] = shown["comments"]
  BY <1>2, <1>3 DEF PagePart
<1>8. LoadsOK(t)
  BY <1>4 DEF LoadsOK
<1>9. LoadsSound'
  BY <1>5, <1>6, <1>7, <1>8, AddedSound DEF LoadsSound, LoadsOK
<1>10. PartsSound'
  <2>. SUFFICES ASSUME NEW k \in PagePart, NEW q \in Post, k \notin stale', Target(k)' = q
                PROVE  PartSound(k, loads', shown'[k], q, said'.likes[q], Kept(q)')
    BY DEF PartsSound
  <2>1. PICK n, S, sh, u : n = said.likes[q] /\ S = Kept(q) /\ sh = shown'[k] /\ u = loads'
    OBVIOUS
  <2>2. PartSound(k, u, sh, q, n, S)
    <3>1. CASE k = "post"
      <4>1. Target(k) = q /\ k \notin stale /\ ~loads[c].late
        BY <1>2, <3>1 DEF Target, Late
      <4>2. PartSound(k, loads, shown[k], q, n, S)
        BY <2>1, <4>1 DEF PostInv, PartsSound
      <4>3. PartSound(k, t, sh, q, n, S)
        BY <1>1, <1>2, <1>3, <1>7, <2>1, <3>1, <4>1, <4>2, HeardSound
      <4>. QED
        BY <1>4, <1>5, <1>6, <2>1, <3>1, <4>3, OtherAsked
    <3>2. CASE k = "comments" /\ other
      <4>1. l.of = q
        BY <1>3, <1>6, <1>7, <3>2 DEF Target
      <4>. QED
        BY <1>4, <1>5, <1>6, <2>1, <3>2, <4>1, PartAsked
    <3>3. CASE k = "comments" /\ ~other
      <4>1. Target(k) = q /\ k \notin stale /\ sh = shown[k]
        BY <1>1, <1>2, <1>3, <1>7, <2>1, <3>3 DEF Target
      <4>2. PartSound(k, loads, sh, q, n, S)
        BY <2>1, <4>1 DEF PostInv, PartsSound
      <4>. QED
        BY <1>1, <1>2, <1>3, <1>5, <2>1, <3>3, <4>2, HeardSound
    <3>. QED
      BY <3>1, <3>2, <3>3 DEF PagePart
  <2>. QED
    BY <1>2, <2>1, <2>2, KeptStays
<1>. QED
  BY <1>2, <1>9, <1>10, SaidKeeps DEF PostInv

LEMMA LoseLoadKeeps ==
    ASSUME PostInv, NEW c \in DOMAIN loads, LoseLoad(c), UNCHANGED vars
    PROVE  PostInv'
<1>1. PICK s, t : s = loads /\ t = RemoveAt(loads, c)
  OBVIOUS
<1>2. /\ loads' = t /\ t = RemoveAt(s, c) /\ UNCHANGED <<route, shown, awaited, said>>
      /\ LoadsOK(s) /\ IsASequence(s) /\ c \in DOMAIN s
  BY <1>1 DEF LoseLoad, PostInv, LoadsSound, LoadsOK
<1>3. LoadsOK(t)
  <2>1. IsASequence(t) /\ \A d \in DOMAIN t : \E e \in DOMAIN s : t[d] = s[e]
    BY <1>2, Gone
  <2>2. ASSUME NEW k \in PagePart PROVE LateFirst("part", Only(k), t)
    <3>1. LateFirst("part", Only(k), s)
      BY <1>2 DEF LoadsOK
    <3>2. PICK K : K = Only(k)
      OBVIOUS
    <3>. QED
      BY <1>2, <3>1, <3>2, Gone
  <2>. QED
    BY <1>2, <2>1, <2>2 DEF LoadsOK
<1>4. PartsSound'
  <2>. SUFFICES ASSUME NEW k \in PagePart, NEW q \in Post, k \notin stale', Target(k)' = q
                PROVE  PartSound(k, loads', shown'[k], q, said'.likes[q], Kept(q)')
    BY DEF PartsSound
  <2>1. Target(k) = q /\ k \notin stale
    BY <1>2 DEF Target, LoseLoad
  <2>2. NewestOf("part", Only(k), s, c) => s[c].late
    BY <1>1 DEF LoseLoad, NewestOf, Only
  <2>3. PICK sh, n, S : sh = shown[k] /\ n = said.likes[q] /\ S = Kept(q)
    OBVIOUS
  <2>4. PartSound(k, s, sh, q, n, S) /\ LateFirst("part", Only(k), s)
    BY <1>1, <1>2, <2>1, <2>3 DEF PostInv, PartsSound, LoadsOK
  <2>5. PartSound(k, t, sh, q, n, S)
    BY <1>2, <2>2, <2>4, PartGone
  <2>. QED
    BY <1>2, <2>3, <2>5, KeptStays
<1>. QED
  BY <1>2, <1>3, <1>4, SaidKeeps DEF PostInv, LoadsSound, LoadsOK

\* What a step of the server leaves as it was.
LEMMA StepIs ==
    ASSUME TypeOK, NEW r \in Req, Step(r)
    PROVE  /\ \A q \in Req : q # r => req'[q] = req[q]
           /\ \A p \in Post : likeCount[p] \in Nat /\ likeCount'[p] \in Nat /\ likeCount[p] <= likeCount'[p]
           /\ \A c \in Comment : created[c] # NoRow => created'[c] # NoRow
           /\ \A c \in Comment, p \in Post : created[c] # NoRow /\ c \in LiveOn(p)' => c \in LiveOn(p)
<1>1. \A q \in Req : q # r => req'[q] = req[q]
  BY DEF Step, TypeOK, CreateFindPost, CreateCommit, DeleteFind, DeleteRow, LikeIncrement,
         LikeReadBack, RequestFails
<1>2. \A p \in Post : likeCount[p] \in Nat /\ likeCount'[p] \in Nat /\ likeCount[p] <= likeCount'[p]
  <2>1. \A p \in Post : likeCount[p] \in Nat
    BY CommentAssumption DEF TypeOK
  <2>2. likeCount' = likeCount \/ \E p \in Post : likeCount' = [likeCount EXCEPT ![p] = @ + 1]
    BY DEF Step, CreateFindPost, CreateCommit, DeleteFind, DeleteRow, LikeIncrement,
           LikeReadBack, RequestFails
  <2>3. DOMAIN likeCount = Post
    BY DEF TypeOK
  <2>. QED
    BY <2>1, <2>2, <2>3
<1>3. /\ \A c \in Comment : created[c] # NoRow => created'[c] = created[c]
      /\ \A c \in Comment : created[c] # NoRow => comment'[c] \in {comment[c], NoRow}
  BY DEF Step, TypeOK, CreateFindPost, CreateCommit, DeleteFind, DeleteRow, LikeIncrement,
         LikeReadBack, RequestFails
<1>. QED
  BY <1>1, <1>2, <1>3 DEF LiveOn, Exists

\* A step of the server leaves what the page has to show.
LEMMA StepKeepsParts ==
    ASSUME PostInv, TypeOK, NEW r \in Req, Step(r), UNCHANGED <<route, shown, loads, said, stale>>
    PROVE  LoadsSound' /\ PartsSound' /\ SaidSound'
<1>1. LoadsSound' /\ SaidSound'
  BY StepIs DEF PostInv, LoadsSound, LoadsOK, SaidInv, SaidSound
<1>2. PartsSound'
  <2>. SUFFICES ASSUME NEW k \in PagePart, NEW q \in Post, k \notin stale, Target(k) = q
                PROVE  PartSound(k, loads, shown[k], q, said.likes[q], Kept(q)')
    BY DEF PartsSound, Target
  <2>1. PartSound(k, loads, shown[k], q, said.likes[q], Kept(q))
    BY DEF PostInv, PartsSound
  <2>2. Kept(q)' \subseteq Kept(q)
    BY StepIs DEF PostInv, SaidInv, SaidSound, Kept
  <2>3. PICK s, sh, n, S, R : s = loads /\ sh = shown[k] /\ n = said.likes[q] /\ S = Kept(q) /\ R = Kept(q)'
    OBVIOUS
  <2>4. PartSound(k, s, sh, q, n, S) /\ R \subseteq S
    BY <2>1, <2>2, <2>3
  <2>5. PartSound(k, s, sh, q, n, R)
    BY <2>4 DEF PartSound, EnoughFor
  <2>. QED
    BY <2>3, <2>5
<1>. QED
  BY <1>1, <1>2

LEMMA Counted ==
    ASSUME NEW A, IsFiniteSet(A), NEW B, NEW m \in Nat, NEW n \in Nat, m + Cardinality(A) <= n
    PROVE  /\ B \subseteq A => IsFiniteSet(B) /\ m + Cardinality(B) <= n
           /\ \A r : B \subseteq A \cup {r} => IsFiniteSet(B) /\ m + Cardinality(B) <= n + 1
           /\ \A r : r \in A /\ B \subseteq A \ {r} => IsFiniteSet(B) /\ (m + 1) + Cardinality(B) <= n
<1>0. Cardinality(A) \in Nat
  BY FS_CardinalityType
<1>1. ASSUME B \subseteq A PROVE IsFiniteSet(B) /\ m + Cardinality(B) <= n
  <2>1. IsFiniteSet(B) /\ Cardinality(B) <= Cardinality(A) /\ Cardinality(B) \in Nat
    BY <1>1, FS_Subset, FS_CardinalityType
  <2>. QED
    BY <1>0, <2>1
<1>2. ASSUME NEW r, B \subseteq A \cup {r} PROVE IsFiniteSet(B) /\ m + Cardinality(B) <= n + 1
  <2>1. /\ IsFiniteSet(A \cup {r}) /\ Cardinality(A \cup {r}) \in Nat
        /\ Cardinality(A \cup {r}) <= Cardinality(A) + 1
    <3>1. /\ IsFiniteSet(A \cup {r})
          /\ Cardinality(A \cup {r}) = IF r \in A THEN Cardinality(A) ELSE Cardinality(A) + 1
      BY FS_AddElement
    <3>. QED
      BY <1>0, <3>1
  <2>2. IsFiniteSet(B) /\ Cardinality(B) <= Cardinality(A \cup {r}) /\ Cardinality(B) \in Nat
    BY <1>2, <2>1, FS_Subset, FS_CardinalityType
  <2>. QED
    BY <1>0, <2>1, <2>2
<1>3. ASSUME NEW r \in A, B \subseteq A \ {r} PROVE IsFiniteSet(B) /\ (m + 1) + Cardinality(B) <= n
  <2>1. IsFiniteSet(A \ {r}) /\ Cardinality(A \ {r}) = Cardinality(A) - 1
    BY FS_RemoveElement
  <2>2. IsFiniteSet(B) /\ Cardinality(B) <= Cardinality(A \ {r}) /\ Cardinality(B) \in Nat
    BY <1>3, <2>1, FS_Subset, FS_CardinalityType
  <2>. QED
    BY <1>0, <2>1, <2>2
<1>. QED
  BY <1>1, <1>2, <1>3

\* The likes of a step after which no more are waited for.
LEMMA LikesKeep ==
    ASSUME PostInv, NEW p \in Post, LikesWaiting(p)' \subseteq LikesWaiting(p),
           said'.likes[p] = said.likes[p], likeCount'[p] \in Nat, likeCount[p] \in Nat,
           likeCount[p] <= likeCount'[p]
    PROVE  IsFiniteSet(LikesWaiting(p)') /\ said'.likes[p] + Cardinality(LikesWaiting(p)') <= likeCount'[p]
<1>1. PICK A, B, m, n : A = LikesWaiting(p) /\ B = LikesWaiting(p)' /\ m = said.likes[p] /\ n = likeCount[p]
  OBVIOUS
<1>2. IsFiniteSet(A) /\ m \in Nat /\ n \in Nat /\ m + Cardinality(A) <= n /\ B \subseteq A
  BY <1>1 DEF PostInv, SaidInv, SaidSound, LikesSaid
<1>3. IsFiniteSet(B) /\ m + Cardinality(B) <= n
  BY <1>2, Counted
<1>4. Cardinality(B) \in Nat
  BY <1>3, FS_CardinalityType
<1>5. m + Cardinality(B) <= likeCount'[p]
  BY <1>1, <1>2, <1>3, <1>4
<1>. QED
  BY <1>1, <1>3, <1>5

LEMMA ElsewhereKeeps ==
    ASSUME PostInv, TypeOK, NEW r \in Req, Elsewhere(r)
    PROVE  PostInv'
<1>1. ~Waiting(r) /\ Step(r) /\ UNCHANGED <<route, shown, loads, awaited, said, stale>>
  BY DEF Elsewhere, pageVars
<1>2. LoadsSound' /\ PartsSound' /\ SaidSound'
  BY <1>1, StepKeepsParts
<1>3. AwaitsSound'
  <2>. SUFFICES ASSUME NEW q \in Req, Waiting(q), awaited[q].part = "comments"
                PROVE  IF req'[q] = Idle THEN awaited[q].made \in Comment /\ created'[awaited[q].made] # NoRow
                       ELSE req'[q].op = "create"
    BY <1>1 DEF PostInv, SaidInv, AwaitsSound, Waiting
  <2>1. req'[q] = req[q]
    BY <1>1, StepIs
  <2>. QED
    BY <1>1, <2>1, StepIs DEF PostInv, SaidInv, AwaitsSound
<1>4. LikesSaid'
  <2>. SUFFICES ASSUME NEW p \in Post
                PROVE  IsFiniteSet(LikesWaiting(p)') /\ said'.likes[p] + Cardinality(LikesWaiting(p)') <= likeCount'[p]
    BY DEF LikesSaid
  <2>1. LikesWaiting(p)' = LikesWaiting(p)
    BY <1>1 DEF LikesWaiting, Waiting
  <2>. QED
    BY <1>1, <2>1, StepIs, LikesKeep
<1>. QED
  BY <1>2, <1>3, <1>4 DEF PostInv, SaidInv

\* The page's own request is made, goes on or ends: the others wait as before.
LEMMA OwnKeeps ==
    ASSUME PostInv, TypeOK, NEW r \in Req, Step(r), UNCHANGED <<route, shown, loads, said, stale>>,
           DOMAIN awaited' = Req, \A q \in Req : q # r => awaited'[q] = awaited[q],
           Waiting(r)' =>
              /\ {"part", "of", "on", "made"} \subseteq DOMAIN awaited'[r]
              /\ awaited'[r].part \in PagePart /\ awaited'[r].on \in Post
              /\ awaited'[r].part = "comments" =>
                    IF req'[r] = Idle THEN awaited'[r].made \in Comment /\ created'[awaited'[r].made] # NoRow
                    ELSE req'[r].op = "create",
           LikesSaid'
    PROVE  PostInv'
<1>1. LoadsSound' /\ PartsSound' /\ SaidSound'
  BY StepKeepsParts
<1>2. AwaitsSound'
  <2>. SUFFICES ASSUME NEW q \in Req, q # r, Waiting(q)'
                PROVE  /\ {"part", "of", "on", "made"} \subseteq DOMAIN awaited'[q]
                       /\ awaited'[q].part \in PagePart /\ awaited'[q].on \in Post
                       /\ awaited'[q].part = "comments" =>
                             IF req'[q] = Idle
                             THEN awaited'[q].made \in Comment /\ created'[awaited'[q].made] # NoRow
                             ELSE req'[q].op = "create"
    BY DEF AwaitsSound
  <2>1. awaited'[q] = awaited[q] /\ Waiting(q) /\ req'[q] = req[q]
    BY StepIs DEF Waiting
  <2>. QED
    BY <2>1, StepIs DEF PostInv, SaidInv, AwaitsSound
<1>. QED
  BY <1>1, <1>2 DEF PostInv, SaidInv

LEMMA ClickLikeKeeps ==
    ASSUME PostInv, TypeOK, NEW r \in Req, ClickLike(r)
    PROVE  PostInv'
<1>1. PICK p, a : /\ p \in Post /\ p = shown["post"].of /\ a = Awaits("post", route, p)
                  /\ LikeIncrement(r, p) /\ awaited' = [awaited EXCEPT ![r] = a]
                  /\ UNCHANGED <<route, shown, loads, said, stale>>
  BY DEF ClickLike
<1>2. Step(r) /\ DOMAIN awaited = Req
  BY <1>1 DEF Step, PostInv, SaidInv, AwaitsSound
<1>3. /\ DOMAIN awaited' = Req
      /\ \A q \in Req : awaited'[q] = IF q = r THEN a ELSE awaited[q]
  BY <1>1, <1>2
<1>4. {"part", "of", "on", "made"} \subseteq DOMAIN a /\ a.part = "post" /\ a.on = p
  BY <1>1 DEF Awaits
<1>5. LikesSaid'
  <2>. SUFFICES ASSUME NEW q \in Post
                PROVE  IsFiniteSet(LikesWaiting(q)') /\ said'.likes[q] + Cardinality(LikesWaiting(q)') <= likeCount'[q]
    BY DEF LikesSaid
  <2>1. CASE q # p
    <3>1. LikesWaiting(q)' \subseteq LikesWaiting(q)
      BY <1>3, <1>4, <2>1 DEF LikesWaiting, Waiting
    <3>. QED
      BY <1>1, <1>2, <3>1, StepIs, LikesKeep
  <2>2. CASE q = p
    <3>1. PICK A, B, m, n : A = LikesWaiting(q) /\ B = LikesWaiting(q)' /\ m = said.likes[q] /\ n = likeCount[q]
      OBVIOUS
    <3>2. B \subseteq A \cup {r}
      BY <1>3, <3>1 DEF LikesWaiting, Waiting
    <3>3. IsFiniteSet(A) /\ m \in Nat /\ n \in Nat /\ m + Cardinality(A) <= n
      BY <1>2, <3>1, StepIs DEF PostInv, SaidInv, SaidSound, LikesSaid
    <3>4. likeCount'[q] = n + 1
      BY <1>1, <2>2, <3>1 DEF LikeIncrement, TypeOK
    <3>5. IsFiniteSet(B) /\ m + Cardinality(B) <= n + 1
      BY <3>2, <3>3, Counted
    <3>. QED
      BY <1>1, <3>1, <3>4, <3>5
  <2>. QED
    BY <2>1, <2>2
<1>. QED
  BY <1>1, <1>2, <1>3, <1>4, <1>5, OwnKeeps DEF PagePart

LEMMA ClickSubmitKeeps ==
    ASSUME PostInv, TypeOK, NEW r \in Req, NEW u \in User, ClickSubmit(r, u)
    PROVE  PostInv'
<1>1. PICK p, a : /\ p \in Post /\ p = shown["post"].of /\ a = Awaits("comments", p, p)
                  /\ CreateFindPost(r, u, p) /\ awaited' = [awaited EXCEPT ![r] = a]
                  /\ UNCHANGED <<route, shown, loads, said, stale>>
  BY DEF ClickSubmit
<1>2. Step(r) /\ DOMAIN awaited = Req
  BY <1>1 DEF Step, PostInv, SaidInv, AwaitsSound
<1>3. /\ DOMAIN awaited' = Req
      /\ \A q \in Req : awaited'[q] = IF q = r THEN a ELSE awaited[q]
  BY <1>1, <1>2
<1>4. {"part", "of", "on", "made"} \subseteq DOMAIN a /\ a.part = "comments" /\ a.on = p
  BY <1>1 DEF Awaits
<1>5. req'[r].op = "create" /\ req'[r] # Idle
  <2>1. req'[r].op = "create"
    BY <1>1 DEF CreateFindPost, TypeOK
  <2>2. Idle.op = "idle"
    BY DEF Idle
  <2>. QED
    BY <2>1, <2>2
<1>6. LikesSaid'
  <2>. SUFFICES ASSUME NEW q \in Post
                PROVE  IsFiniteSet(LikesWaiting(q)') /\ said'.likes[q] + Cardinality(LikesWaiting(q)') <= likeCount'[q]
    BY DEF LikesSaid
  <2>1. LikesWaiting(q)' \subseteq LikesWaiting(q)
    BY <1>3, <1>4 DEF LikesWaiting, Waiting
  <2>. QED
    BY <1>1, <1>2, <2>1, StepIs, LikesKeep
<1>. QED
  BY <1>1, <1>2, <1>3, <1>4, <1>5, <1>6, OwnKeeps DEF PagePart

LEMMA TakeKeeps ==
    ASSUME PostInv, TypeOK, NEW r \in Req, Take(r)
    PROVE  PostInv'
<1>0. /\ DOMAIN awaited = Req /\ Waiting(r)
      /\ {"part", "of", "on", "made"} \subseteq DOMAIN awaited[r]
      /\ awaited[r].part \in PagePart /\ awaited[r].on \in Post
      /\ awaited[r].part = "comments" =>
            IF req[r] = Idle THEN awaited[r].made \in Comment /\ created[awaited[r].made] # NoRow
            ELSE req[r].op = "create"
      /\ UNCHANGED <<route, shown, loads, said, stale>>
  BY DEF Take, PostInv, SaidInv, AwaitsSound
<1>1. Step(r)
  BY DEF Take, Step
<1>2. ASSUME \A q \in Req : q # r => awaited'[q] = awaited[q], DOMAIN awaited' = Req,
             Waiting(r)' => awaited'[r].part = awaited[r].part /\ awaited'[r].on = awaited[r].on
      PROVE  LikesSaid'
  <2>. SUFFICES ASSUME NEW q \in Post
                PROVE  IsFiniteSet(LikesWaiting(q)') /\ said'.likes[q] + Cardinality(LikesWaiting(q)') <= likeCount'[q]
    BY DEF LikesSaid
  <2>1. LikesWaiting(q)' \subseteq LikesWaiting(q)
    BY <1>0, <1>2 DEF LikesWaiting, Waiting
  <2>. QED
    BY <1>0, <1>1, <2>1, StepIs, LikesKeep
<1>3. ASSUME NEW c \in Comment, CreateCommit(r, c), awaited' = [awaited EXCEPT ![r].made = c]
      PROVE  PostInv'
  <2>1. PICK a : a = [awaited[r] EXCEPT !.made = c]
    OBVIOUS
  <2>2. DOMAIN a = DOMAIN awaited[r] /\ a.part = awaited[r].part /\ a.on = awaited[r].on /\ a.made = c
    BY <1>0, <2>1
  <2>3. DOMAIN awaited' = Req /\ \A q \in Req : awaited'[q] = IF q = r THEN a ELSE awaited[q]
    BY <1>0, <1>3, <2>1
  <2>4. req'[r] = Idle
    BY <1>3 DEF CreateCommit, TypeOK
  <2>5. created'[c] # NoRow
    <3>1. created'[c] = req[r].post
      BY <1>3 DEF CreateCommit, TypeOK
    <3>2. req[r].post \in Post
      BY <1>3, RequestIs DEF CreateCommit
    <3>. QED
      BY <3>1, <3>2, NoRowAssumption
  <2>6. LikesSaid'
    BY <1>2, <2>2, <2>3
  <2>. QED
    BY <1>0, <1>1, <2>2, <2>3, <2>4, <2>5, <2>6, OwnKeeps
<1>4. CASE LikeReadBack(r) /\ UNCHANGED awaited
  <2>1. awaited[r].part # "comments"
    BY <1>0, <1>4 DEF LikeReadBack, Idle
  <2>2. LikesSaid'
    BY <1>0, <1>2, <1>4
  <2>. QED
    BY <1>0, <1>1, <1>4, <2>1, <2>2, OwnKeeps
<1>5. CASE RequestFails(r) /\ awaited' = [awaited EXCEPT ![r] = NoRow]
  <2>1. DOMAIN awaited' = Req /\ \A q \in Req : awaited'[q] = IF q = r THEN NoRow ELSE awaited[q]
    BY <1>0, <1>5
  <2>2. ~Waiting(r)'
    BY <2>1 DEF Waiting
  <2>3. LikesSaid'
    BY <1>2, <2>1, <2>2
  <2>. QED
    BY <1>0, <1>1, <2>1, <2>2, <2>3, OwnKeeps
<1>. QED
  BY <1>3, <1>4, <1>5 DEF Take

\* An answer that is lost is waited for no more.
LEMMA LoseTakenKeeps ==
    ASSUME PostInv, TypeOK, NEW r \in Req, LoseTaken(r)
    PROVE  PostInv'
<1>1. /\ awaited' = [awaited EXCEPT ![r] = NoRow] /\ DOMAIN awaited = Req
      /\ UNCHANGED <<vars, route, shown, loads, said, stale>>
  BY DEF LoseTaken, PostInv, SaidInv, AwaitsSound
<1>2. DOMAIN awaited' = Req /\ \A q \in Req : awaited'[q] = IF q = r THEN NoRow ELSE awaited[q]
  BY <1>1
<1>3. \A q \in Req : Waiting(q)' => Waiting(q) /\ awaited'[q] = awaited[q]
  BY <1>2 DEF Waiting
<1>4. AwaitsSound'
  BY <1>1, <1>2, <1>3 DEF PostInv, SaidInv, AwaitsSound, vars
<1>5. LikesSaid'
  <2>. SUFFICES ASSUME NEW q \in Post
                PROVE  IsFiniteSet(LikesWaiting(q)') /\ said'.likes[q] + Cardinality(LikesWaiting(q)') <= likeCount'[q]
    BY DEF LikesSaid
  <2>1. LikesWaiting(q)' \subseteq LikesWaiting(q)
    BY <1>3 DEF LikesWaiting
  <2>2. likeCount'[q] = likeCount[q] /\ likeCount[q] \in Nat
    BY <1>1, CommentAssumption DEF vars, TypeOK
  <2>. QED
    BY <1>1, <2>1, <2>2, LikesKeep
<1>6. LoadsSound' /\ SaidSound'
  BY <1>1 DEF PostInv, LoadsSound, LoadsOK, SaidInv, SaidSound, vars
<1>7. PartsSound'
  <2>. SUFFICES ASSUME NEW k \in PagePart, NEW q \in Post, k \notin stale, Target(k) = q
                PROVE  PartSound(k, loads, shown[k], q, said.likes[q], Kept(q)')
    BY <1>1 DEF PartsSound, Target
  <2>. QED
    BY <1>1, KeptStays DEF PostInv, PartsSound
<1>. QED
  BY <1>4, <1>5, <1>6, <1>7 DEF PostInv, SaidInv

\* What the page is told it counts, and asks for what shows it.
LEMMA HearTakenKeeps ==
    ASSUME PostInv, TypeOK, NEW r \in Req, HearTaken(r)
    PROVE  PostInv'
<1>1. PICK w, l : w = awaited[r] /\ l = Load(w.part, w.of)
  OBVIOUS
<1>2. /\ Waiting(r) /\ req[r] = Idle /\ loads' = Added(loads, l)
      /\ stale' = IF w.of = Target(w.part) THEN stale ELSE stale \cup {w.part}
      /\ said' = IF w.part = "post" THEN [said EXCEPT !.likes[w.on] = @ + 1]
                 ELSE [said EXCEPT !.comments = @ \cup {w.made}]
      /\ awaited' = [awaited EXCEPT ![r] = NoRow]
      /\ UNCHANGED <<vars, route, shown>>
  BY <1>1 DEF HearTaken, Say, Taken, Added
<1>3. /\ DOMAIN awaited = Req /\ w.part \in PagePart /\ w.on \in Post
      /\ w.part = "comments" => w.made \in Comment /\ created[w.made] # NoRow
  BY <1>1, <1>2 DEF PostInv, SaidInv, AwaitsSound
<1>4. DOMAIN awaited' = Req /\ \A q \in Req : awaited'[q] = IF q = r THEN NoRow ELSE awaited[q]
  BY <1>2, <1>3
<1>5. \A q \in Req : Waiting(q)' => Waiting(q) /\ awaited'[q] = awaited[q] /\ q # r
  BY <1>4 DEF Waiting
<1>6. LoadSound(l) /\ ~l.late /\ l.answer = NothingShown /\ l.part = w.part /\ l.of = w.of
  BY <1>1, <1>3, LoadIs
<1>7. LoadsSound'
  BY <1>2, <1>6, AddedSound DEF PostInv, LoadsSound
<1>8. /\ said \in [likes : [Post -> Nat], comments : SUBSET Comment]
      /\ w.part = "post" => /\ said'.comments = said.comments
                            /\ \A p \in Post : said'.likes[p] = IF p = w.on THEN said.likes[p] + 1
                                                                ELSE said.likes[p]
      /\ w.part = "comments" => /\ said'.likes = said.likes
                                /\ said'.comments = said.comments \cup {w.made}
      /\ said' \in [likes : [Post -> Nat], comments : SUBSET Comment]
  BY <1>2, <1>3 DEF PostInv, SaidInv, SaidSound, PagePart
<1>9. SaidSound'
  BY <1>2, <1>3, <1>8 DEF PostInv, SaidInv, SaidSound, vars, PagePart
<1>10. AwaitsSound'
  BY <1>2, <1>4, <1>5 DEF PostInv, SaidInv, AwaitsSound, vars
<1>11. LikesSaid'
  <2>. SUFFICES ASSUME NEW q \in Post
                PROVE  IsFiniteSet(LikesWaiting(q)') /\ said'.likes[q] + Cardinality(LikesWaiting(q)') <= likeCount'[q]
    BY DEF LikesSaid
  <2>1. likeCount'[q] = likeCount[q] /\ likeCount[q] \in Nat
    BY <1>2, CommentAssumption DEF vars, TypeOK
  <2>2. LikesWaiting(q)' \subseteq LikesWaiting(q) \ {r}
    BY <1>5 DEF LikesWaiting
  <2>3. CASE said'.likes[q] = said.likes[q]
    BY <2>1, <2>2, <2>3, LikesKeep
  <2>4. CASE said'.likes[q] # said.likes[q]
    <3>1. r \in LikesWaiting(q) /\ said'.likes[q] = said.likes[q] + 1
      BY <1>1, <1>2, <1>3, <1>8, <2>4 DEF LikesWaiting, PagePart
    <3>2. PICK A, B, m, n : A = LikesWaiting(q) /\ B = LikesWaiting(q)' /\ m = said.likes[q] /\ n = likeCount[q]
      OBVIOUS
    <3>3. IsFiniteSet(A) /\ m \in Nat /\ n \in Nat /\ m + Cardinality(A) <= n /\ r \in A /\ B \subseteq A \ {r}
      BY <2>1, <2>2, <3>1, <3>2 DEF PostInv, SaidInv, SaidSound, LikesSaid
    <3>4. IsFiniteSet(B) /\ (m + 1) + Cardinality(B) <= n
      BY <3>3, Counted
    <3>. QED
      BY <2>1, <3>1, <3>2, <3>4
  <2>. QED
    BY <2>3, <2>4
<1>12. PartsSound'
  <2>. SUFFICES ASSUME NEW k \in PagePart, NEW q \in Post, k \notin stale', Target(k)' = q
                PROVE  PartSound(k, loads', shown'[k], q, said'.likes[q], Kept(q)')
    BY DEF PartsSound
  <2>1. Target(k) = q /\ k \notin stale
    BY <1>2 DEF Target
  <2>2. PICK s, t, sh, n, S, m, R :
           /\ s = loads /\ t = loads' /\ sh = shown[k] /\ n = said.likes[q] /\ S = Kept(q)
           /\ m = said'.likes[q] /\ R = Kept(q)'
    OBVIOUS
  <2>3. IsASequence(s) /\ t = Added(s, l)
    BY <1>2, <2>2 DEF PostInv, LoadsSound, LoadsOK
  <2>4. CASE k = w.part
    <3>1. l.of = q
      BY <1>2, <1>6, <2>1, <2>4
    <3>2. PartSound(k, t, sh, q, m, R)
      BY <1>6, <2>3, <2>4, <3>1, PartAsked
    <3>. QED
      BY <1>2, <2>2, <3>2
  <2>5. CASE k # w.part
    <3>1. PartSound(k, s, sh, q, n, S)
      BY <2>1, <2>2 DEF PostInv, PartsSound
    <3>2. k = "post" => m = n
      BY <1>3, <1>8, <2>2, <2>5 DEF PagePart
    <3>3. k = "comments" => R \subseteq S
      BY <1>2, <1>3, <1>8, <2>2, <2>5 DEF PagePart, Kept, LiveOn, Exists, vars
    <3>4. PartSound(k, t, sh, q, n, S)
      BY <1>6, <2>3, <2>5, <3>1, OtherAsked
    <3>5. PartSound(k, t, sh, q, m, R)
      BY <3>2, <3>3, <3>4, PartFewer
    <3>. QED
      BY <1>2, <2>2, <3>5
  <2>. QED
    BY <2>4, <2>5
<1>. QED
  BY <1>7, <1>9, <1>10, <1>11, <1>12 DEF PostInv, SaidInv

LEMMA PostStep ==
    ASSUME PostInv, TypeOK, PageNext
    PROVE  PostInv'
<1>1. ASSUME NEW p \in Post, Jump(p), UNCHANGED vars PROVE PostInv'
  BY <1>1, JumpKeeps
<1>2. ASSUME NEW c \in DOMAIN loads, Serve(c) \/ HearPost(c) \/ HearComments(c) \/ LoseLoad(c),
             UNCHANGED vars
      PROVE  PostInv'
  BY <1>2, ServeKeeps, HearPostKeeps, HearCommentsKeeps, LoseLoadKeeps
<1>3. ASSUME NEW r \in Req, ClickLike(r) \/ (\E u \in User : ClickSubmit(r, u)) PROVE PostInv'
  BY <1>3, ClickLikeKeeps, ClickSubmitKeeps
<1>4. ASSUME NEW r \in Req, Take(r) \/ Elsewhere(r) \/ HearTaken(r) \/ LoseTaken(r) PROVE PostInv'
  BY <1>4, TakeKeeps, ElsewhereKeeps, HearTakenKeeps, LoseTakenKeeps
<1>. QED
  BY <1>1, <1>2, <1>3, <1>4 DEF PageNext

\* At rest no load is left to fill a part, so what is shown has enough.
LEMMA PostSettles == PostInv => OwnActionShows
<1>. SUFFICES ASSUME PostInv PROVE OwnActionShows
  OBVIOUS
<1>1. ASSUME NEW k \in PagePart, NEW p \in Post, AtRest(k), Target(k) = p
      PROVE  EnoughFor(k, shown[k], p, said.likes[p], Kept(p))
  <2>1. PartSound(k, loads, shown[k], p, said.likes[p], Kept(p))
    BY <1>1 DEF AtRest, PostInv, PartsSound
  <2>2. DOMAIN loads = {}
    BY <1>1 DEF AtRest
  <2>. QED
    BY <2>1, <2>2 DEF PartSound, AllLate
<1>2. AtRest("post") /\ route \in Post =>
         shown["post"].of = route /\ shown["post"].likes >= said.likes[route]
  BY <1>1 DEF Target, PagePart, EnoughFor
<1>3. AtRest("comments") /\ shown["post"].of \in Post =>
         /\ shown["comments"].of = shown["post"].of
         /\ said.comments \cap LiveOn(shown["post"].of) \subseteq shown["comments"].comments
  BY <1>1 DEF Target, PagePart, EnoughFor, Kept
<1>. QED
  BY <1>2, <1>3 DEF OwnActionShows

LEMMA NothingChanges ==
    ASSUME PostInv, UNCHANGED <<vars, pageVars>>
    PROVE  PostInv'
<1>1. UNCHANGED <<vars, route, shown, loads, awaited, said, stale>>
  BY DEF pageVars
<1>2. SaidInv'
  BY <1>1, SaidKeeps DEF PostInv
<1>3. LoadsSound'
  BY <1>1 DEF PostInv, LoadsSound
<1>4. PartsSound'
  BY <1>1 DEF PostInv, PartsSound, Target, Kept, LiveOn, Exists, vars
<1>. QED
  BY <1>2, <1>3, <1>4 DEF PostInv

-----------------------------------------------------------------------------
(* All the pages: one is open and the tables that it does not read stand still. *)

PagesInv ==
    /\ page \in ListPage \cup {"org", "post", "none"}
    /\ CommentsInv /\ OrgInv
    /\ page \in ListPage => ListInv
    /\ IF page = "post" THEN PostInv ELSE PageStart

LEMMA PagesStart == PagesInit => PagesInv
<1>. SUFFICES ASSUME PagesInit PROVE PagesInv
  OBVIOUS
<1>. QED
  BY CommentsInit, OrgInit, ListInit, PostInit DEF PagesInit, PagesInv

\* To the server a step of a post's page is a step of a request, or none.
LEMMA PageStepIsServers == PageNext => [Next]_vars
<1>1. ASSUME NEW r \in Req, ClickLike(r) PROVE Next
  <2>1. shown["post"].of \in Post /\ LikeIncrement(r, shown["post"].of)
    BY <1>1 DEF ClickLike
  <2>. QED
    BY <2>1 DEF Next, Step
<1>2. ASSUME NEW r \in Req, NEW u \in User, ClickSubmit(r, u) PROVE Next
  <2>1. shown["post"].of \in Post /\ CreateFindPost(r, u, shown["post"].of)
    BY <1>2 DEF ClickSubmit
  <2>. QED
    BY <2>1 DEF Next, Step
<1>3. ASSUME NEW r \in Req, Take(r) PROVE Next
  BY <1>3 DEF Take, Next, Step
<1>4. ASSUME NEW r \in Req, Elsewhere(r) PROVE Next
  BY <1>4 DEF Elsewhere, Next
<1>5. ASSUME NEW r \in Req, HearTaken(r) \/ LoseTaken(r) PROVE UNCHANGED vars
  BY <1>5 DEF HearTaken, Say, LoseTaken
<1>. QED
  BY <1>1, <1>2, <1>3, <1>4, <1>5 DEF PageNext

LEMMA PagesStep == PagesInv /\ [PagesNext]_allVars => PagesInv'
<1>. SUFFICES ASSUME PagesInv, [PagesNext]_allVars PROVE PagesInv'
  OBVIOUS
<1>0. TypeOK /\ UNCHANGED page
  BY DEF PagesInv, CommentsInv, CommentInv, PagesNext, allVars
<1>1. CommentsInv'
  <2>1. [Next]_vars
    BY PageStepIsServers DEF PagesNext, allVars, postVars
  <2>. QED
    BY <2>1, CommentsStep DEF PagesInv
<1>2. OrgInv'
  <2>1. [Orgs!OrgNext]_orgVars
    BY DEF PagesNext, allVars
  <2>. QED
    BY <2>1, OrgStep DEF PagesInv
<1>3. ASSUME page \in ListPage PROVE ListInv'
  <2>1. [Lists!ListNext]_listVars
    BY <1>3 DEF PagesNext, allVars
  <2>. QED
    BY <1>0, <1>3, <2>1, ListStep DEF PagesInv
<1>4. ASSUME page = "post" PROVE PostInv'
  <2>1. PageNext \/ UNCHANGED postVars
    BY <1>4 DEF PagesNext, ListPage, allVars
  <2>2. CASE PageNext
    BY <1>0, <1>4, <2>2, PostStep DEF PagesInv
  <2>3. CASE UNCHANGED postVars
    BY <1>4, <2>3, NothingChanges DEF PagesInv, postVars
  <2>. QED
    BY <2>1, <2>2, <2>3
<1>5. ASSUME page # "post" PROVE PageStart'
  <2>1. UNCHANGED pageVars
    BY <1>5 DEF PagesNext, allVars, postVars
  <2>. QED
    BY <1>5, <2>1 DEF PagesInv, PageStart, pageVars
<1>. QED
  BY <1>0, <1>1, <1>2, <1>3, <1>4, <1>5 DEF PagesInv

LEMMA PagesInvariant == PagesSpec => []PagesInv
BY PagesStart, PagesStep, PTL DEF PagesSpec

\* What the counters of posts say is what was created and removed: a post's
\* commentCount is its seeded one with its creations (CreateComment counts up,
\* DeleteComment never down), whatever requests overlap or fail (CommentInv).
THEOREM PagesComments == PagesSpec => []CommentInv
<1>1. PagesInv => CommentInv
  BY DEF PagesInv, CommentsInv
<1>. QED
  BY <1>1, PagesInvariant, PTL

\* Of two requests that delete one comment, both having found it, at most one
\* removes a row and is told so (DeletedAtMostOnce).
THEOREM PagesDeleteOnce == PagesSpec => []DeletedAtMostOnce
<1>1. PagesInv => DeletedAtMostOnce
  BY DEF PagesInv, CommentsInv
<1>. QED
  BY <1>1, PagesInvariant, PTL

\* An organization's page at rest shows one organization in all its parts, and
\* it is that of the address: unless two chains of loads mixed (SettledPageIsOneOrg).
THEOREM PagesOneOrg == PagesSpec => []SettledPageIsOneOrg
<1>1. PagesInv => SettledPageIsOneOrg
  BY OrgPageSettles DEF PagesInv
<1>. QED
  BY <1>1, PagesInvariant, PTL

\* The chain of OrgDetail.tsx asks for the total after the usage records, so no
\* record is shown of a donation that the total leaves out (UseShownIsOfMoneyShown).
THEOREM PagesUseOfMoneyShown == PagesSpec => []UseShownIsOfMoneyShown
<1>1. PagesInv => UseShownIsOfMoneyShown
  BY OrgPageSettles DEF PagesInv
<1>. QED
  BY <1>1, PagesInvariant, PTL

\* A list with no load under way answers the filter and the word selected, but
\* when an older answer or a failure spoilt it (ListAnswersFilter).
THEOREM PagesListAnswers == PagesSpec => []ListAnswersFilter
<1>1. PagesInv => ListAnswersFilter
  BY ListsSettle DEF PagesInv, ListAnswersFilter
<1>. QED
  BY <1>1, PagesInvariant, PTL

\* The total of a page counts the rows whose newest fill it, except where a row
\* moved between the count and the find of the same call (CountMatchesList).
THEOREM PagesCountMatches == PagesSpec => []CountMatchesList
<1>1. PagesInv => CountMatchesList
  BY ListsSettle DEF PagesInv, CountMatchesList
<1>. QED
  BY <1>1, PagesInvariant, PTL

\* The buttons of the applications page bring no application beyond the review,
\* however clicks, answers and reloads overlap (PageStopsAtReview).
THEOREM PagesStopAtReview == PagesSpec => []PageStopsAtReview
<1>1. PagesInv => PageStopsAtReview
  BY ListsSettle DEF PagesInv, PageStopsAtReview, Lists!PageStopsAtReview, ListPage
<1>. QED
  BY <1>1, PagesInvariant, PTL

\* A post's page at rest shows each like and each comment that it was told had
\* been taken and nobody deleted: every answer to them is followed by a load,
\* and no older load is the last to be heard (OwnActionShows).
THEOREM PagesOwnActionShows == PagesSpec => []OwnActionShows
<1>1. PageStart => OwnActionShows
  BY NoRowAssumption DEF PageStart, OwnActionShows, AtRest, NothingShown, PagePart
<1>2. PagesInv => OwnActionShows
  BY <1>1, PostSettles DEF PagesInv
<1>. QED
  BY <1>2, PagesInvariant, PTL
=============================================================================
