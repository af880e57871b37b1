---------------------------- MODULE ServerProofs ----------------------------
(***************************************************************************)
(* Proofs about what the server keeps outside its tables' handlers, for    *)
(* any number of clients and requests and any configuration: the limiter's *)
(* buckets (RateLimiter), the cached home page (HomeCache, which reads the *)
(* same clock) and the start-up of the process (Startup).                  *)
(*                                                                         *)
(*   - The limiter: WindowInv counts, for every window of every address,   *)
(*     what has been let through by when the address's bucket opened.      *)
(*   - The home page: HomeInv is inductive; the freshness of what is       *)
(*     served and the limit on going back in time follow from it.          *)
(*   - The start-up: BootInv says what each phase finds done by the phases *)
(*     before it, whatever process did them.                               *)
(***************************************************************************)
EXTENDS RateLimiter, HomeCache, Startup, FiniteSetTheorems, SequenceTheorems, TLAPS

-----------------------------------------------------------------------------
(* The limiter. *)

\* A call that has read the clock.
LEMMA Clocked ==
    ASSUME TypeOK, NEW c \in Call, call[c].phase = "clocked"
    PROVE  call[c] \in ClockedCall /\ call[c].ip \in IP /\ call[c].now \in 0 .. MaxTime
<1>1. call[c] \in {IdleCall} \cup ClockedCall
  BY DEF TypeOK
<1>2. call[c] # IdleCall
  BY DEF IdleCall
<1>. QED
  BY <1>1, <1>2 DEF ClockedCall

\* The bucket a call is counted in is the one it found, or a fresh one that
\* outlasts the one it found by more than a window.
LEMMA CurrentBucketApart ==
    ASSUME TypeOK, NEW ip \in IP, NEW now \in 0 .. MaxTime
    PROVE  /\ CurrentBucket(ip, now) \in Bucket
           /\ limits[ip] # NoBucket =>
                \/ CurrentBucket(ip, now).resetAt = limits[ip].resetAt
                \/ CurrentBucket(ip, now).resetAt > limits[ip].resetAt + Window
<1>1. /\ Reqs \in Nat /\ Window \in Nat /\ MaxTime \in Nat
      /\ limits[ip] \in Bucket \cup {NoBucket}
  BY LimiterAssumption DEF TypeOK
<1>2. [count |-> 0, resetAt |-> now + Window] \in Bucket
  BY <1>1 DEF Bucket
<1>3. CASE limits[ip] = NoBucket
  BY <1>2, <1>3 DEF CurrentBucket
<1>4. CASE limits[ip] # NoBucket
  <2>1. limits[ip] \in Bucket /\ limits[ip].resetAt \in 0 .. MaxTime + Window
    BY <1>1, <1>4 DEF Bucket
  <2>2. CASE now > limits[ip].resetAt
    BY <1>1, <1>2, <1>4, <2>1, <2>2 DEF CurrentBucket
  <2>3. CASE ~(now > limits[ip].resetAt)
    BY <1>1, <1>4, <2>1, <2>3 DEF CurrentBucket
  <2>. QED
    BY <2>2, <2>3
<1>. QED
  BY <1>3, <1>4

LEMMA BucketCounted ==
    ASSUME NEW b \in Bucket, NEW n \in 0 .. Reqs + 1
    PROVE  /\ [b EXCEPT !.count = n] \in Bucket
           /\ [b EXCEPT !.count = n].resetAt = b.resetAt
           /\ [b EXCEPT !.count = n] # NoBucket
<1>1. /\ [b EXCEPT !.count = n] \in Bucket
      /\ [b EXCEPT !.count = n].resetAt = b.resetAt
  BY DEF Bucket
<1>2. Bucket \subseteq [count : Nat, resetAt : Nat]
  BY LimiterAssumption DEF Bucket
<1>. QED
  BY <1>1, <1>2, NoBucketAssumption

\* A reading counts for the windows it is in.
CountIn(f, now) ==
    [t \in 0 .. MaxTime |-> IF now \in t .. t + Window THEN f[t] + 1 ELSE f[t]]

LEMMA CountUp ==
    ASSUME NEW f \in [0 .. MaxTime -> Nat], NEW n \in 0 .. MaxTime
    PROVE  CountIn(f, n) \in [0 .. MaxTime -> Nat]
BY DEF CountIn

\* What a call does in the critical section, in terms of its bucket.
LEMMA CountCallEffect ==
    ASSUME TypeOK, NEW c \in Call, CountCall(c)
    PROVE  /\ TypeOK'
           /\ \A ip \in IP : limits[ip] # NoBucket =>
                 /\ limits'[ip] # NoBucket
                 /\ \/ limits'[ip].resetAt = limits[ip].resetAt
                    \/ limits'[ip].resetAt > limits[ip].resetAt + Window
<1>. DEFINE ip == call[c].ip
            now == call[c].now
            b == CurrentBucket(ip, now)
            count == IF b.count <= Reqs THEN b.count + 1 ELSE b.count
            new == [b EXCEPT !.count = count]
<1>1. ip \in IP /\ now \in 0 .. MaxTime
  BY Clocked DEF CountCall
<1>2. /\ limits' = [limits EXCEPT ![ip] = new]
      /\ admitted' = IF count > Reqs THEN admitted
                         ELSE [admitted EXCEPT ![ip] = CountIn(admitted[ip], now)]
      /\ call' = [call EXCEPT ![c] = IdleCall]
      /\ clock' = clock
  BY <1>1 DEF CountCall, CountIn, TypeOK
<1>3. /\ b \in Bucket
      /\ limits[ip] # NoBucket =>
            \/ b.resetAt = limits[ip].resetAt
            \/ b.resetAt > limits[ip].resetAt + Window
  BY <1>1, CurrentBucketApart
<1>4. count \in 0 .. Reqs + 1
  BY <1>3, LimiterAssumption DEF Bucket
<1>5. new \in Bucket /\ new.resetAt = b.resetAt /\ new # NoBucket
  BY <1>3, <1>4, BucketCounted
<1>. HIDE DEF new, count, b, ip, now
<1>6. admitted' \in [IP -> [0 .. MaxTime -> Nat]]
  <2>1. admitted \in [IP -> [0 .. MaxTime -> Nat]] /\ admitted[ip] \in [0 .. MaxTime -> Nat]
    BY <1>1 DEF TypeOK
  <2>2. CountIn(admitted[ip], now) \in [0 .. MaxTime -> Nat]
    BY <1>1, <2>1, CountUp
  <2>. QED
    BY <1>2, <2>1, <2>2
<1>7. TypeOK'
  BY <1>1, <1>2, <1>5, <1>6 DEF TypeOK
<1>8. ASSUME NEW i \in IP, limits[i] # NoBucket
      PROVE  /\ limits'[i] # NoBucket
             /\ \/ limits'[i].resetAt = limits[i].resetAt
                \/ limits'[i].resetAt > limits[i].resetAt + Window
  <2>1. CASE i = ip
    <3>1. limits'[i] = new
      BY <2>1, <1>1, <1>2 DEF TypeOK
    <3>. QED
      BY <3>1, <2>1, <1>3, <1>5, <1>8
  <2>2. CASE i # ip
    BY <2>2, <1>2, <1>8 DEF TypeOK
  <2>. QED
    BY <2>1, <2>2
<1>. QED
  BY <1>7, <1>8

LEMMA InitType == Init => TypeOK
BY LimiterAssumption DEF Init, TypeOK

LEMMA NextType ==
    ASSUME TypeOK, [Next]_vars
    PROVE  /\ TypeOK'
           /\ \A ip \in IP : limits[ip] # NoBucket =>
                 /\ limits'[ip] # NoBucket
                 /\ \/ limits'[ip].resetAt = limits[ip].resetAt
                    \/ limits'[ip].resetAt > limits[ip].resetAt + Window
<1>1. CASE Tick /\ UNCHANGED <<limits, call, admitted>>
  BY <1>1, LimiterAssumption DEF Tick, TypeOK
<1>2. ASSUME NEW c \in Call, NEW ip \in IP, ReadClock(c, ip)
      PROVE  TypeOK' /\ limits' = limits
  <2>1. [phase |-> "clocked", ip |-> ip, now |-> clock] \in ClockedCall
    BY DEF ClockedCall, TypeOK
  <2>. QED
    BY <1>2, <2>1 DEF ReadClock, TypeOK
<1>3. CASE \E c \in Call : CountCall(c)
  BY <1>3, CountCallEffect
<1>4. CASE UNCHANGED vars
  BY <1>4 DEF vars, TypeOK
<1>. QED
  BY <1>1, <1>2, <1>3, <1>4 DEF Next

\* The limiter's state keeps its types, the count its cap.
THEOREM LimiterTypeCorrect == Spec => []TypeOK
<1>1. TypeOK /\ [Next]_vars => TypeOK'
  BY NextType
<1>. QED
  BY <1>1, InitType, PTL DEF Spec

\* However stale the readings calls bring to the mutex, an address's buckets
\* follow each other more than a window apart.
THEOREM BucketsFollowApart == Spec => BucketsApart
<1>1. TypeOK /\ [Next]_vars
         => [\A ip \in IP :
               limits[ip] # NoBucket =>
                  /\ limits'[ip] # NoBucket
                  /\ \/ limits'[ip].resetAt = limits[ip].resetAt
                     \/ limits'[ip].resetAt > limits[ip].resetAt + Window]_vars
  BY NextType
<1>. QED
  BY <1>1, LimiterTypeCorrect, PTL DEF Spec, BucketsApart

-----------------------------------------------------------------------------
(* The bound on a window.  Two buckets at most open before the window has    *)
(* ended and reach into it; a bucket that opens after it counts only calls   *)
(* that were under way when the window ended.                                *)

\* The calls a bucket has let through.
LetThrough(b) == IF b.count <= Reqs THEN b.count ELSE Reqs

\* The calls under way whose reading is in the window that begins at t.
Within(ip, t) ==
    {c \in Call : /\ call[c].phase = "clocked" /\ call[c].ip = ip
                  /\ call[c].now \in t .. t + Window}

\* What a window has let through, by when the address's bucket opened: before
\* the window, in it, or after it.
WindowSoFar(ip, t) ==
    /\ limits[ip] = NoBucket => admitted[ip][t] = 0
    /\ limits[ip] # NoBucket =>
          /\ limits[ip].count >= 1 /\ limits[ip].resetAt <= clock + Window
          /\ limits[ip].resetAt < t => admitted[ip][t] = 0
          /\ limits[ip].resetAt < t + Window => admitted[ip][t] + 1 <= LetThrough(limits[ip])
          /\ limits[ip].resetAt <= t + 2 * Window =>
                admitted[ip][t] + 1 <= Reqs + LetThrough(limits[ip])
          /\ limits[ip].resetAt > t + 2 * Window =>
                admitted[ip][t] + Cardinality(Within(ip, t)) + 2 <= 2 * Reqs + Cardinality(Call)

ReadingsPast == \A c \in Call : call[c].phase = "clocked" => call[c].now <= clock

WindowInv == TypeOK /\ ReadingsPast /\ \A ip \in IP, t \in 0 .. MaxTime : WindowSoFar(ip, t)

LEMMA Parameters ==
    /\ Reqs \in Nat /\ Reqs >= 1 /\ Window \in Nat /\ Window >= 1 /\ MaxTime \in Nat
    /\ IsFiniteSet(Call) /\ Cardinality(Call) \in Nat /\ Cardinality(Call) >= 1
<1>1. Cardinality(Call) \in Nat /\ Cardinality(Call) # 0
  BY LimiterAssumption, FS_CardinalityType, FS_EmptySet
<1>. QED
  BY <1>1, LimiterAssumption

LEMMA WithinFinite ==
    ASSUME NEW ip, NEW t
    PROVE  /\ IsFiniteSet(Within(ip, t)) /\ Cardinality(Within(ip, t)) \in Nat
           /\ Cardinality(Within(ip, t)) <= Cardinality(Call)
<1>1. Within(ip, t) \subseteq Call
  BY DEF Within
<1>. QED
  BY <1>1, Parameters, FS_Subset, FS_CardinalityType

\* The two ways a call is counted: in a bucket it opens, or in the one it finds.
LEMMA CallCounted ==
    ASSUME TypeOK, NEW c \in Call, CountCall(c), NEW ip, NEW now,
           ip = call[c].ip, now = call[c].now
    PROVE  /\ clock' = clock /\ call' = [call EXCEPT ![c] = IdleCall]
           /\ \A i \in IP \ {ip} : limits'[i] = limits[i] /\ admitted'[i] = admitted[i]
           /\ \/ /\ limits[ip] # NoBucket => now > limits[ip].resetAt
                 /\ limits'[ip] # NoBucket
                 /\ limits'[ip].resetAt = now + Window /\ limits'[ip].count = 1
                 /\ admitted'[ip] = CountIn(admitted[ip], now)
              \/ /\ limits[ip] # NoBucket /\ now <= limits[ip].resetAt
                 /\ limits'[ip] # NoBucket
                 /\ limits'[ip].resetAt = limits[ip].resetAt
                 /\ \/ /\ limits[ip].count < Reqs /\ limits'[ip].count = limits[ip].count + 1
                       /\ admitted'[ip] = CountIn(admitted[ip], now)
                    \/ /\ limits[ip].count >= Reqs /\ limits'[ip].count = Reqs + 1
                       /\ admitted'[ip] = admitted[ip]
<1>. DEFINE b == CurrentBucket(ip, now)
            count == IF b.count <= Reqs THEN b.count + 1 ELSE b.count
            new == [b EXCEPT !.count = count]
<1>1. ip \in IP /\ now \in 0 .. MaxTime
  BY Clocked DEF CountCall
<1>2. /\ limits' = [limits EXCEPT ![ip] = new]
      /\ admitted' = IF count > Reqs THEN admitted
                         ELSE [admitted EXCEPT ![ip] = CountIn(admitted[ip], now)]
      /\ call' = [call EXCEPT ![c] = IdleCall]
      /\ clock' = clock
  BY <1>1 DEF CountCall, CountIn, TypeOK
<1>3. b \in Bucket
  BY <1>1, CurrentBucketApart
<1>4. count \in 0 .. Reqs + 1
  BY <1>3, Parameters DEF Bucket
<1>5. new.resetAt = b.resetAt /\ new.count = count /\ new # NoBucket
  BY <1>3, <1>4, BucketCounted DEF Bucket
<1>6. \/ /\ limits[ip] # NoBucket => now > limits[ip].resetAt
         /\ b = [count |-> 0, resetAt |-> now + Window]
      \/ limits[ip] # NoBucket /\ ~(now > limits[ip].resetAt) /\ b = limits[ip]
  BY DEF CurrentBucket
<1>7. b.count \in 0 .. Reqs + 1 /\ b.resetAt \in Nat
  BY <1>3, Parameters DEF Bucket
<1>8. limits'[ip] = new /\ \A i \in IP \ {ip} : limits'[i] = limits[i] /\ admitted'[i] = admitted[i]
  BY <1>1, <1>2 DEF TypeOK
<1>9. admitted'[ip] = IF count > Reqs THEN admitted[ip] ELSE CountIn(admitted[ip], now)
  BY <1>1, <1>2 DEF TypeOK
<1>. HIDE DEF new
<1>10. CASE /\ limits[ip] # NoBucket => now > limits[ip].resetAt
            /\ b = [count |-> 0, resetAt |-> now + Window]
  <2>1. b.count = 0 /\ b.resetAt = now + Window
    BY <1>10
  <2>2. count = 1 /\ ~(count > Reqs)
    BY <2>1, Parameters
  <2>. HIDE DEF b, count
  <2>. QED
    BY <1>2, <1>5, <1>8, <1>9, <1>10, <2>1, <2>2
<1>11. CASE limits[ip] # NoBucket /\ ~(now > limits[ip].resetAt) /\ b = limits[ip]
  <2>1. /\ b.count < Reqs => count = b.count + 1 /\ ~(count > Reqs)
        /\ ~(b.count < Reqs) => b.count >= Reqs /\ count = Reqs + 1 /\ count > Reqs
    BY <1>7, Parameters
  <2>2. now <= limits[ip].resetAt
    BY <1>1, <1>7, <1>11, Parameters
  <2>. HIDE DEF b, count
  <2>. QED
    BY <1>2, <1>5, <1>8, <1>9, <1>11, <2>1, <2>2
<1>. QED
  BY <1>6, <1>10, <1>11

\* A call that is counted is under way no longer.
LEMMA WithinAfterCount ==
    ASSUME TypeOK, NEW c \in Call, call[c].phase = "clocked",
           call' = [call EXCEPT ![c] = IdleCall], NEW ip \in IP, NEW t \in 0 .. MaxTime
    PROVE  Within(ip, t)' = Within(ip, t) \ {c}
<1>1. \A d \in Call : call'[d] = IF d = c THEN IdleCall ELSE call[d]
  BY DEF TypeOK
<1>. QED
  BY <1>1 DEF Within, IdleCall

\* Counting a call keeps the account of every window of its address.
LEMMA CountedStep ==
    ASSUME WindowInv, NEW c \in Call, CountCall(c), NEW t \in 0 .. MaxTime,
           NEW ip \in IP, ip = call[c].ip
    PROVE  WindowSoFar(ip, t)'
<1>. DEFINE now == call[c].now
            old == limits[ip]
            new == limits'[ip]
            a == admitted[ip][t]
            w == Cardinality(Within(ip, t))
            v == Cardinality(Within(ip, t)')
<1>1. TypeOK /\ TypeOK' /\ call[c].phase = "clocked"
  BY CountCallEffect DEF WindowInv, CountCall
<1>2. ip \in IP /\ now \in 0 .. MaxTime /\ now <= clock /\ clock \in Nat
  BY <1>1, Clocked, Parameters DEF WindowInv, ReadingsPast, TypeOK
<1>3. /\ clock' = clock /\ call' = [call EXCEPT ![c] = IdleCall]
      /\ \/ /\ old # NoBucket => now > old.resetAt
            /\ new # NoBucket /\ new.resetAt = now + Window /\ new.count = 1
            /\ admitted'[ip] = CountIn(admitted[ip], now)
         \/ /\ old # NoBucket /\ now <= old.resetAt
            /\ new # NoBucket /\ new.resetAt = old.resetAt
            /\ \/ /\ old.count < Reqs /\ new.count = old.count + 1
                  /\ admitted'[ip] = CountIn(admitted[ip], now)
               \/ /\ old.count >= Reqs /\ new.count = Reqs + 1
                  /\ admitted'[ip] = admitted[ip]
  BY <1>1, CallCounted
<1>4. a \in Nat /\ CountIn(admitted[ip], now)[t] = IF now \in t .. t + Window THEN a + 1 ELSE a
  BY <1>1, <1>2 DEF TypeOK, CountIn
<1>5. old # NoBucket => old.count \in 0 .. Reqs + 1 /\ old.resetAt \in Nat
  BY <1>1, <1>2, Parameters DEF TypeOK, Bucket
<1>6. Within(ip, t)' = Within(ip, t) \ {c}
  BY <1>1, <1>2, <1>3, WithinAfterCount
<1>7. /\ w \in Nat /\ v \in Nat /\ v <= w /\ w <= Cardinality(Call)
      /\ now \in t .. t + Window => v + 1 <= w
      /\ v + 1 <= Cardinality(Call)
  <2>1. w \in Nat /\ IsFiniteSet(Within(ip, t)) /\ w <= Cardinality(Call)
    BY WithinFinite
  <2>2. IsFiniteSet(Call \ {c}) /\ Cardinality(Call \ {c}) = Cardinality(Call) - 1
    BY Parameters, FS_RemoveElement
  <2>3. Within(ip, t)' \subseteq Call \ {c} /\ Within(ip, t)' \subseteq Within(ip, t)
    BY <1>6 DEF Within
  <2>4. v \in Nat /\ v <= Cardinality(Call) - 1 /\ v <= w
    BY <2>1, <2>2, <2>3, FS_Subset, FS_CardinalityType
  <2>5. now \in t .. t + Window => c \in Within(ip, t)
    BY <1>1 DEF Within
  <2>6. c \in Within(ip, t) => v = w - 1
    BY <1>6, <2>1, FS_RemoveElement
  <2>. QED
    BY <2>1, <2>4, <2>5, <2>6, Parameters
<1>8. WindowSoFar(ip, t)
  BY <1>2 DEF WindowInv
<1>9. /\ old = NoBucket => a = 0
      /\ old # NoBucket =>
            /\ old.count >= 1 /\ old.resetAt <= clock + Window
            /\ old.resetAt < t => a = 0
            /\ old.resetAt < t + Window => a + 1 <= LetThrough(old)
            /\ old.resetAt <= t + 2 * Window => a + 1 <= Reqs + LetThrough(old)
            /\ old.resetAt > t + 2 * Window => a + w + 2 <= 2 * Reqs + Cardinality(Call)
  BY <1>8 DEF WindowSoFar
<1>10. SUFFICES /\ new.count >= 1 /\ new.resetAt <= clock + Window
                /\ new.resetAt < t => admitted'[ip][t] = 0
                /\ new.resetAt < t + Window => admitted'[ip][t] + 1 <= LetThrough(new)
                /\ new.resetAt <= t + 2 * Window => admitted'[ip][t] + 1 <= Reqs + LetThrough(new)
                /\ new.resetAt > t + 2 * Window =>
                      admitted'[ip][t] + v + 2 <= 2 * Reqs + Cardinality(Call)
  BY <1>3 DEF WindowSoFar, LetThrough
<1>. HIDE DEF old, new, a, w, v, now
<1>11. t \in Nat
  BY Parameters
<1>12. CASE /\ old # NoBucket => now > old.resetAt
            /\ new # NoBucket /\ new.resetAt = now + Window /\ new.count = 1
            /\ admitted'[ip] = CountIn(admitted[ip], now)
  <2>1. LetThrough(new) = 1
    BY <1>12, Parameters DEF LetThrough
  <2>2. old # NoBucket => LetThrough(old) \in Nat /\ LetThrough(old) <= Reqs
    BY <1>5, Parameters DEF LetThrough
  <2>3. CASE now < t
    BY <1>2, <1>4, <1>5, <1>7, <1>9, <1>11, <1>12, <2>1, <2>2, <2>3, Parameters
  <2>4. CASE t <= now /\ now <= t + Window
    BY <1>2, <1>4, <1>5, <1>7, <1>9, <1>11, <1>12, <2>1, <2>2, <2>4, Parameters
  <2>5. CASE t + Window < now
    BY <1>2, <1>4, <1>5, <1>7, <1>9, <1>11, <1>12, <2>1, <2>2, <2>5, Parameters
  <2>. QED
    BY <1>2, <1>11, <2>3, <2>4, <2>5, Parameters
<1>13. CASE /\ old # NoBucket /\ now <= old.resetAt
            /\ new # NoBucket /\ new.resetAt = old.resetAt
            /\ old.count < Reqs /\ new.count = old.count + 1
            /\ admitted'[ip] = CountIn(admitted[ip], now)
  <2>1. LetThrough(new) = LetThrough(old) + 1 /\ LetThrough(old) \in Nat
    BY <1>5, <1>13, Parameters DEF LetThrough
  <2>. QED
    BY <1>2, <1>4, <1>5, <1>7, <1>9, <1>11, <1>13, <2>1, Parameters
<1>14. CASE /\ old # NoBucket /\ now <= old.resetAt
            /\ new # NoBucket /\ new.resetAt = old.resetAt
            /\ old.count >= Reqs /\ new.count = Reqs + 1
            /\ admitted'[ip] = admitted[ip]
  <2>1. LetThrough(new) = LetThrough(old) /\ LetThrough(old) \in Nat
    BY <1>5, <1>14, Parameters DEF LetThrough
  <2>2. admitted'[ip][t] = a
    BY <1>14 DEF a
  <2>. QED
    BY <1>2, <1>4, <1>5, <1>7, <1>9, <1>11, <1>14, <2>1, <2>2, Parameters
<1>. QED
  BY <1>3, <1>12, <1>13, <1>14

LEMMA InitWindow == Init => WindowInv
<1>1. Init => TypeOK
  BY InitType
<1>2. Init => ReadingsPast
  BY DEF Init, ReadingsPast, IdleCall
<1>. QED
  BY <1>1, <1>2 DEF Init, WindowInv, WindowSoFar

LEMMA WindowStep == WindowInv /\ [Next]_vars => WindowInv'
<1>. SUFFICES ASSUME WindowInv, [Next]_vars PROVE WindowInv'
  OBVIOUS
<1>1. TypeOK /\ TypeOK' /\ clock \in Nat
  BY NextType, Parameters DEF WindowInv, TypeOK
<1>2. \A c \in Call : call[c].phase = "clocked" => call[c].now \in Nat /\ call[c].now <= clock
  BY <1>1, Clocked, Parameters DEF WindowInv, ReadingsPast
<1>3. CASE Tick /\ UNCHANGED <<limits, call, admitted>>
  <2>1. ReadingsPast'
    BY <1>1, <1>2, <1>3 DEF Tick, ReadingsPast
  <2>2. ASSUME NEW ip \in IP, NEW t \in 0 .. MaxTime PROVE WindowSoFar(ip, t)'
    <3>1. WindowSoFar(ip, t) /\ clock' = clock + 1 /\ UNCHANGED <<limits, call, admitted>>
      BY <1>3 DEF WindowInv, Tick
    <3>2. limits[ip] # NoBucket => limits[ip].resetAt \in Nat
      BY <1>1, Parameters DEF TypeOK, Bucket
    <3>. QED
      BY <1>1, <3>1, <3>2, Parameters DEF WindowSoFar, Within, LetThrough
  <2>. QED
    BY <1>1, <2>1, <2>2 DEF WindowInv
<1>4. ASSUME NEW c \in Call, NEW i \in IP, ReadClock(c, i)
      PROVE  WindowInv'
  <2>1. \A d \in Call : call'[d] = IF d = c THEN [phase |-> "clocked", ip |-> i, now |-> clock]
                                            ELSE call[d]
    BY <1>1, <1>4 DEF ReadClock, TypeOK
  <2>2. UNCHANGED <<clock, limits, admitted>>
    BY <1>4 DEF ReadClock
  <2>3. ReadingsPast'
    BY <1>1, <1>2, <2>1, <2>2 DEF ReadingsPast
  <2>4. ASSUME NEW ip \in IP, NEW t \in 0 .. MaxTime PROVE WindowSoFar(ip, t)'
    <3>1. WindowSoFar(ip, t) /\ t \in Nat
      BY Parameters DEF WindowInv
    <3>2. limits[ip] # NoBucket => limits[ip].resetAt \in Nat
      BY <1>1, Parameters DEF TypeOK, Bucket
    <3>3. CASE clock > t + Window
      <4>1. clock \notin t .. t + Window
        BY <1>1, <3>1, <3>3, Parameters
      <4>2. Within(ip, t)' = Within(ip, t)
        BY <1>4, <2>1, <4>1 DEF Within, ReadClock, IdleCall
      <4>. QED
        BY <2>2, <3>1, <4>2 DEF WindowSoFar, LetThrough
    <3>4. CASE ~(clock > t + Window)
      <4>1. limits[ip] # NoBucket => ~(limits[ip].resetAt > t + 2 * Window)
        BY <1>1, <3>1, <3>2, <3>4, Parameters DEF WindowSoFar
      <4>. QED
        BY <2>2, <3>1, <4>1 DEF WindowSoFar, LetThrough
    <3>. QED
      BY <3>3, <3>4
  <2>. QED
    BY <1>1, <2>3, <2>4 DEF WindowInv
<1>5. ASSUME NEW c \in Call, CountCall(c)
      PROVE  WindowInv'
  <2>1. call[c].phase = "clocked" /\ call[c].ip \in IP
    BY <1>1, <1>5, Clocked DEF CountCall
  <2>2. /\ clock' = clock /\ call' = [call EXCEPT ![c] = IdleCall]
        /\ \A i \in IP \ {call[c].ip} : limits'[i] = limits[i] /\ admitted'[i] = admitted[i]
    BY <1>1, <1>5, CallCounted
  <2>3. ReadingsPast'
    BY <1>1, <2>2 DEF WindowInv, ReadingsPast, TypeOK, IdleCall
  <2>4. ASSUME NEW ip \in IP, NEW t \in 0 .. MaxTime, ip # call[c].ip
        PROVE  WindowSoFar(ip, t)'
    <3>1. WindowSoFar(ip, t) /\ limits'[ip] = limits[ip] /\ admitted'[ip] = admitted[ip]
      BY <2>2, <2>4 DEF WindowInv
    <3>2. Within(ip, t)' = Within(ip, t) \ {c}
      BY <1>1, <2>1, <2>2, WithinAfterCount
    <3>3. Within(ip, t)' = Within(ip, t)
      BY <2>4, <3>2 DEF Within
    <3>. QED
      BY <2>2, <3>1, <3>3 DEF WindowSoFar, LetThrough
  <2>5. ASSUME NEW ip \in IP, NEW t \in 0 .. MaxTime, ip = call[c].ip
        PROVE  WindowSoFar(ip, t)'
    BY <1>5, <2>5, CountedStep
  <2>6. ASSUME NEW ip \in IP, NEW t \in 0 .. MaxTime PROVE WindowSoFar(ip, t)'
    BY <2>4, <2>5
  <2>. QED
    BY <1>1, <2>3, <2>6 DEF WindowInv
<1>6. CASE UNCHANGED vars
  BY <1>1, <1>6 DEF vars, WindowInv, ReadingsPast, WindowSoFar, Within, LetThrough
<1>. QED
  BY <1>3, <1>4, <1>5, <1>6 DEF Next

\* Whatever the limit, the window and the number of concurrent calls, a window
\* lets through at most two buckets' worth less one, and the calls it overtook.
THEOREM WindowIsBounded == Spec => []WindowBound
<1>1. WindowInv => WindowBound
  <2>. SUFFICES ASSUME WindowInv, NEW ip \in IP, NEW t \in 0 .. MaxTime
                PROVE  admitted[ip][t] <= 2 * Reqs + Cardinality(Call) - 2
    BY DEF WindowBound
  <2>1. WindowSoFar(ip, t) /\ admitted[ip][t] \in Nat /\ t \in Nat
    BY Parameters DEF WindowInv, TypeOK
  <2>2. limits[ip] # NoBucket => limits[ip].count \in Nat /\ limits[ip].resetAt \in Nat
    BY Parameters DEF WindowInv, TypeOK, Bucket
  <2>3. Cardinality(Within(ip, t)) \in Nat
    BY WithinFinite
  <2>4. CASE limits[ip] = NoBucket
    BY <2>1, <2>4, Parameters DEF WindowSoFar
  <2>5. CASE limits[ip] # NoBucket /\ limits[ip].resetAt <= t + 2 * Window
    BY <2>1, <2>2, <2>5, Parameters DEF WindowSoFar, LetThrough
  <2>6. CASE limits[ip] # NoBucket /\ ~(limits[ip].resetAt <= t + 2 * Window)
    BY <2>1, <2>2, <2>3, <2>6, Parameters DEF WindowSoFar
  <2>. QED
    BY <2>4, <2>5, <2>6
<1>. QED
  BY <1>1, InitWindow, WindowStep, PTL DEF Spec

-----------------------------------------------------------------------------
(* The home page. *)

LEMMA Building ==
    ASSUME HomeTypeOK, NEW r \in Req, req[r].phase = "build"
    PROVE  /\ req[r] \in BuildReq
           /\ req[r].start \in Time
           /\ req[r].next \in 1 .. Lists + 1
           /\ req[r].readAt \in [List -> Time]
<1>1. req[r] \in {IdleReq} \cup BuildReq
  BY DEF HomeTypeOK
<1>2. req[r] # IdleReq
  BY DEF IdleReq
<1>. QED
  BY <1>1, <1>2 DEF BuildReq

LEMMA OnItsWay ==
    ASSUME HomeTypeOK, NEW c \in Conn, sent[c] # NoEntry
    PROVE  sent[c].readAt \in [List -> Time] /\ sent[c].begun \in Time
BY DEF HomeTypeOK, Sent

LEMMA Entries ==
    ASSUME HomeTypeOK, cached # NoEntry
    PROVE  cached.readAt \in [List -> Time] /\ cached.lag \in Time /\ cached.expires \in Nat
BY HomeAssumption DEF HomeTypeOK, Entry

\* What reading a list does to the record of the request.
LEMMA ListRead ==
    ASSUME NEW b \in BuildReq, b.next \in List, NEW now \in Time
    PROVE  LET b2 == [b EXCEPT !.readAt[b.next] = now, !.next = b.next + 1]
           IN  /\ b2 \in BuildReq
               /\ b2.start = b.start
               /\ b2.next = b.next + 1
               /\ b2.readAt = [b.readAt EXCEPT ![b.next] = now]
<1>. DEFINE g == [b.readAt EXCEPT ![b.next] = now]
            n == b.next + 1
<1>1. g \in [List -> Time] /\ n \in 1 .. Lists + 1
  BY HomeAssumption DEF BuildReq, List
<1>2. [b EXCEPT !.readAt[b.next] = now, !.next = b.next + 1] = [b EXCEPT !.readAt = g, !.next = n]
  OBVIOUS
<1>. HIDE DEF g, n
<1>. DEFINE b2 == [b EXCEPT !.readAt = g, !.next = n]
<1>3. b2 \in BuildReq
  BY <1>1 DEF BuildReq
<1>4. b2.start = b.start /\ b2.next = n /\ b2.readAt = g
  BY <1>1 DEF BuildReq
<1>. QED
  BY <1>2, <1>3, <1>4 DEF g, n

LEMMA HomeStarts == HomeInit => HomeInv
BY HomeAssumption DEF HomeInit, HomeInv, HomeTypeOK, Time, IdleReq, ReadsInOrder,
   CachedIsCoherent, ServedIsFresh

\* What was read stays read as time passes.
LEMMA TickKeeps ==
    ASSUME HomeInv, Tick, UNCHANGED <<cached, sent, req, servedAge>>
    PROVE  HomeInv'
<1>. USE HomeAssumption DEF HomeInv, Tick
<1>1. clock \in Nat /\ clock' \in Time /\ clock' = clock + 1
  BY DEF HomeTypeOK, Time
<1>2. HomeTypeOK'
  BY <1>1 DEF HomeTypeOK
<1>3. ASSUME NEW r \in Req, req[r].phase = "build" PROVE BuildInOrder(req[r])'
  <2>1. req[r].start \in Nat /\ \A l \in List : req[r].readAt[l] \in Nat
    BY <1>3, Building DEF Time
  <2>. QED
    BY <1>1, <1>3, <2>1 DEF ReadsInOrder, BuildInOrder
<1>4. ASSUME NEW c \in Conn, sent[c] # NoEntry PROVE SetInOrder(sent[c])'
  <2>1. sent[c].begun \in Nat
    BY <1>4, OnItsWay DEF Time
  <2>. QED
    BY <1>1, <1>4, <2>1 DEF ReadsInOrder, SetInOrder
<1>5. ASSUME cached # NoEntry PROVE EntryInOrder(cached)'
  <2>1. cached.lag \in Nat /\ \A l \in List : cached.readAt[l] \in Nat
    BY <1>5, Entries DEF Time
  <2>. QED
    BY <1>1, <1>5, <2>1 DEF ReadsInOrder, EntryInOrder
<1>6. ReadsInOrder'
  BY <1>3, <1>4, <1>5 DEF ReadsInOrder
<1>7. CachedIsCoherent' /\ ServedIsFresh'
  BY DEF CachedIsCoherent, ServedIsFresh
<1>. QED
  BY <1>2, <1>6, <1>7

LEMMA ServeKeeps ==
    ASSUME HomeInv, NEW r \in Req, ServeCached(r)
    PROVE  HomeInv'
<1>. USE HomeAssumption DEF HomeInv, ServeCached
<1>1. cached # NoEntry /\ clock <= cached.expires
  BY DEF Live
<1>2. /\ cached.readAt[1] \in Nat /\ cached.lag \in Nat /\ cached.expires \in Nat
      /\ clock \in 0 .. MaxTime
      /\ cached.readAt[1] + cached.lag <= clock
      /\ cached.expires <= cached.readAt[1] + TTL + Timeout + cached.lag
  <2>1. 1 \in List
    BY DEF List
  <2>2. cached.readAt \in [List -> Time] /\ cached.lag \in Time /\ cached.expires \in Nat
    BY <1>1, Entries
  <2>3. EntryInOrder(cached)
    BY <1>1 DEF ReadsInOrder
  <2>. QED
    BY <2>1, <2>2, <2>3 DEF HomeTypeOK, Time, EntryInOrder
<1>3. servedAge' \in Time /\ servedAge' <= TTL + Timeout
  BY <1>1, <1>2 DEF Time
<1>4. HomeTypeOK' /\ ServedIsFresh'
  BY <1>3 DEF HomeTypeOK, ServedIsFresh
<1>5. ReadsInOrder' /\ CachedIsCoherent'
  BY DEF ReadsInOrder, BuildInOrder, SetInOrder, EntryInOrder, CachedIsCoherent
<1>. QED
  BY <1>4, <1>5

\* A step that only moves a request on, to a record read in order.
LEMMA RequestMoves ==
    ASSUME HomeInv, NEW r \in Req, NEW b \in {IdleReq} \cup BuildReq,
           req' = [req EXCEPT ![r] = b], UNCHANGED <<clock, cached, sent, servedAge>>,
           b # IdleReq => BuildInOrder(b)
    PROVE  HomeInv'
<1>. USE DEF HomeInv
<1>1. HomeTypeOK'
  BY DEF HomeTypeOK
<1>2. ASSUME NEW q \in Req, req'[q].phase = "build" PROVE BuildInOrder(req[q])'
  <2>1. CASE q = r
    <3>1. req'[q] = b /\ b # IdleReq
      BY <1>2, <2>1 DEF HomeTypeOK, IdleReq
    <3>. QED
      BY <3>1 DEF BuildInOrder
  <2>2. CASE q # r
    BY <1>2, <2>2 DEF HomeTypeOK, ReadsInOrder, BuildInOrder
  <2>. QED
    BY <2>1, <2>2
<1>3. ReadsInOrder'
  BY <1>2 DEF ReadsInOrder, SetInOrder, EntryInOrder
<1>4. CachedIsCoherent' /\ ServedIsFresh'
  BY DEF CachedIsCoherent, ServedIsFresh
<1>. QED
  BY <1>1, <1>3, <1>4

LEMMA MissKeeps ==
    ASSUME HomeInv, NEW r \in Req, Miss(r)
    PROVE  HomeInv'
<1>. DEFINE b == [phase |-> "build", start |-> clock, next |-> 1,
                  readAt |-> [l \in List |-> clock]]
<1>1. clock \in Time /\ clock \in Nat
  BY DEF HomeInv, HomeTypeOK, Time
<1>2. b \in BuildReq
  BY <1>1, HomeAssumption DEF BuildReq, List
<1>3. req' = [req EXCEPT ![r] = b] /\ UNCHANGED <<clock, cached, sent, servedAge>>
  BY DEF Miss
<1>4. BuildInOrder(b)
  BY <1>1 DEF BuildInOrder
<1>. HIDE DEF b
<1>. QED
  BY <1>2, <1>3, <1>4, RequestMoves

LEMMA ReadKeeps ==
    ASSUME HomeInv, NEW r \in Req, ReadList(r)
    PROVE  HomeInv'
<1>. DEFINE b  == req[r]
            b2 == [b EXCEPT !.readAt[b.next] = clock, !.next = b.next + 1]
<1>1. clock \in Time /\ clock \in Nat
  BY DEF HomeInv, HomeTypeOK, Time
<1>2. b \in BuildReq /\ b.next \in List /\ b.phase = "build"
  BY Building DEF HomeInv, ReadList
<1>3. /\ b2 \in BuildReq /\ b2.start = b.start /\ b2.next = b.next + 1
      /\ b2.readAt = [b.readAt EXCEPT ![b.next] = clock]
  BY <1>1, <1>2, ListRead
<1>4. req' = [req EXCEPT ![r] = b2] /\ UNCHANGED <<clock, cached, sent, servedAge>>
  BY DEF ReadList
<1>5. /\ b.start \in Nat /\ b.start <= clock /\ b.readAt \in [List -> Nat]
      /\ \A l \in List : b.start <= b.readAt[l] /\ b.readAt[l] <= clock
      /\ \A l, m \in List : l <= m /\ m < b.next => b.readAt[l] <= b.readAt[m]
  BY <1>2 DEF HomeInv, ReadsInOrder, BuildInOrder, BuildReq, Time
<1>. HIDE DEF b, b2
<1>6. BuildInOrder(b2)
  <2>1. b.next \in Int /\ List \subseteq Int
    BY <1>2 DEF List
  <2>2. \A l \in List : b2.readAt[l] = IF l = b.next THEN clock ELSE b.readAt[l]
    BY <1>3, <1>5
  <2>3. ASSUME NEW l \in List, NEW m \in List, l <= m, m < b2.next
        PROVE  b2.readAt[l] <= b2.readAt[m]
    <3>1. m = b.next \/ m < b.next
      BY <1>3, <2>1, <2>3
    <3>2. CASE m = b.next
      BY <1>1, <1>5, <2>2, <3>2
    <3>3. CASE m < b.next
      BY <1>5, <2>1, <2>2, <2>3, <3>3
    <3>. QED
      BY <3>1, <3>2, <3>3
  <2>4. \A l \in List : b2.start <= b2.readAt[l] /\ b2.readAt[l] <= clock
    BY <1>1, <1>3, <1>5, <2>2
  <2>. QED
    BY <1>3, <1>5, <2>3, <2>4 DEF BuildInOrder
<1>. QED
  BY <1>3, <1>4, <1>6, RequestMoves

\* Forgetting the entry, and a request that ends.
LEMMA EndKeeps ==
    ASSUME HomeInv, NEW r \in Req, Finish(r) \/ ReadFails(r)
    PROVE  HomeInv'
BY RequestMoves DEF Finish, ReadFails

LEMMA LostKeeps ==
    ASSUME HomeInv, UNCHANGED <<clock, sent, req, servedAge>>,
           cached' = cached \/ cached' = NoEntry
    PROVE  HomeInv'
<1>1. HomeTypeOK'
  BY DEF HomeInv, HomeTypeOK
<1>2. ReadsInOrder'
  BY DEF HomeInv, ReadsInOrder, BuildInOrder, SetInOrder, EntryInOrder
<1>3. CachedIsCoherent' /\ ServedIsFresh'
  BY DEF HomeInv, CachedIsCoherent, ServedIsFresh
<1>. QED
  BY <1>1, <1>2, <1>3 DEF HomeInv

\* A connection takes a SET read in order, or is rid of one.
LEMMA SentMoves ==
    ASSUME HomeInv, NEW c \in Conn, NEW s \in Sent \cup {NoEntry},
           sent' = [sent EXCEPT ![c] = s], UNCHANGED clock,
           s # NoEntry => SetInOrder(s)
    PROVE  /\ sent' \in [Conn -> Sent \cup {NoEntry}]
           /\ \A d \in Conn : sent'[d] # NoEntry => SetInOrder(sent[d])'
<1>1. sent' \in [Conn -> Sent \cup {NoEntry}] /\ \A d \in Conn : sent'[d] = IF d = c THEN s ELSE sent[d]
  BY DEF HomeInv, HomeTypeOK
<1>2. ASSUME NEW d \in Conn, sent'[d] # NoEntry PROVE SetInOrder(sent'[d])
  BY <1>1, <1>2 DEF HomeInv, ReadsInOrder
<1>. QED
  BY <1>1, <1>2 DEF SetInOrder

\* A SET is begun within a deadline of any list it carries.
LEMMA BeginKeeps ==
    ASSUME HomeInv, NEW r \in Req, NEW c \in Conn, BeginSet(r, c)
    PROVE  HomeInv'
<1>. DEFINE s == [readAt |-> req[r].readAt, begun |-> clock]
<1>. USE HomeAssumption
<1>1. clock \in Time /\ clock \in Nat /\ HomeTypeOK
  BY DEF HomeInv, HomeTypeOK, Time
<1>2. /\ req[r].start \in Nat /\ req[r].readAt \in [List -> Time] /\ req[r].next = Lists + 1
      /\ clock <= req[r].start + Timeout
  BY <1>1, Building DEF BeginSet, List, Time
<1>3. \A l \in List : req[r].readAt[l] \in Nat
  BY <1>2 DEF Time
<1>4. /\ \A l \in List : req[r].start <= req[r].readAt[l] /\ req[r].readAt[l] <= clock
      /\ \A l, m \in List : l <= m => req[r].readAt[l] <= req[r].readAt[m]
  <2>1. BuildInOrder(req[r]) /\ \A m \in List : m < req[r].next
    BY <1>2 DEF BeginSet, List, HomeInv, ReadsInOrder
  <2>. QED
    BY <2>1 DEF BuildInOrder
<1>5. s \in Sent /\ s.readAt = req[r].readAt /\ s.begun = clock
  BY <1>1, <1>2 DEF Sent
<1>6. sent' = [sent EXCEPT ![c] = s] /\ UNCHANGED <<clock, cached, req, servedAge>>
  BY DEF BeginSet
<1>. HIDE DEF s
<1>7. SetInOrder(s)
  BY <1>1, <1>2, <1>3, <1>4, <1>5 DEF SetInOrder
<1>8. /\ sent' \in [Conn -> Sent \cup {NoEntry}]
      /\ \A d \in Conn : sent'[d] # NoEntry => SetInOrder(sent[d])'
  BY <1>5, <1>6, <1>7, SentMoves
<1>9. HomeTypeOK'
  BY <1>6, <1>8 DEF HomeInv, HomeTypeOK
<1>10. ReadsInOrder'
  BY <1>6, <1>8 DEF HomeInv, ReadsInOrder, BuildInOrder, EntryInOrder
<1>11. CachedIsCoherent' /\ ServedIsFresh'
  BY <1>6 DEF HomeInv, CachedIsCoherent, ServedIsFresh
<1>. QED
  BY <1>9, <1>10, <1>11 DEF HomeInv

\* The entry a SET leaves: its lists were read, in order, before the SET was
\* begun, and a deadline before it at most.
LEMMA Arrival ==
    ASSUME HomeInv, NEW c \in Conn, SetArrives(c)
    PROVE  /\ cached' \in Entry /\ cached' # NoEntry
           /\ \A l \in List : /\ cached'.readAt[l] \in Nat
                              /\ clock <= cached'.readAt[l] + Timeout + cached'.lag
           /\ \A l, m \in List : l <= m => cached'.readAt[l] <= cached'.readAt[m]
           /\ cached'.readAt[Lists] <= cached'.readAt[1] + Timeout
           /\ EntryInOrder(cached)'
<1>. USE HomeAssumption
<1>. DEFINE f == sent[c].readAt
            g == sent[c].begun
<1>1. /\ clock \in Time /\ clock \in Nat /\ clock' = clock
      /\ HomeTypeOK /\ sent[c] # NoEntry
      /\ cached' = [readAt |-> f, lag |-> clock - g, expires |-> clock + TTL]
  BY DEF HomeInv, HomeTypeOK, Time, SetArrives
<1>2. f \in [List -> Time] /\ g \in Time /\ g \in Nat
  BY <1>1, OnItsWay DEF Time
<1>3. /\ g <= clock
      /\ \A l \in List : f[l] <= g /\ g <= f[l] + Timeout
      /\ \A l, m \in List : l <= m => f[l] <= f[m]
  BY <1>1 DEF HomeInv, ReadsInOrder, SetInOrder
<1>4. \A l \in List : f[l] \in Nat
  BY <1>2 DEF Time
<1>. HIDE DEF f, g
<1>5. clock - g \in Time /\ clock + TTL \in 0 .. MaxTime + TTL
  BY <1>1, <1>2, <1>3 DEF Time
<1>6. /\ cached' \in Entry
      /\ cached'.readAt = f /\ cached'.lag = clock - g /\ cached'.expires = clock + TTL
  BY <1>1, <1>2, <1>5 DEF Entry
<1>7. cached' # NoEntry
  BY <1>6, NoEntryAssumption
<1>8. \A l \in List : clock <= f[l] + Timeout + (clock - g)
  BY <1>1, <1>2, <1>3, <1>4
<1>9. f[Lists] <= f[1] + Timeout
  <2>1. 1 \in List /\ Lists \in List
    BY DEF List
  <2>. QED
    BY <2>1, <1>2, <1>3, <1>4
<1>10. EntryInOrder(cached)'
  BY <1>1, <1>2, <1>3, <1>4, <1>6 DEF EntryInOrder
<1>. QED
  BY <1>3, <1>4, <1>6, <1>7, <1>8, <1>9, <1>10

LEMMA ArriveKeeps ==
    ASSUME HomeInv, NEW c \in Conn, SetArrives(c)
    PROVE  HomeInv'
<1>1. sent' = [sent EXCEPT ![c] = NoEntry] /\ UNCHANGED <<clock, req, servedAge>>
  BY DEF SetArrives
<1>2. /\ sent' \in [Conn -> Sent \cup {NoEntry}]
      /\ \A d \in Conn : sent'[d] # NoEntry => SetInOrder(sent[d])'
  BY <1>1, SentMoves
<1>3. HomeTypeOK'
  BY <1>1, <1>2, Arrival DEF HomeInv, HomeTypeOK
<1>4. ReadsInOrder'
  BY <1>1, <1>2, Arrival DEF HomeInv, ReadsInOrder, BuildInOrder
<1>5. CachedIsCoherent' /\ ServedIsFresh'
  BY <1>1, Arrival DEF HomeInv, CachedIsCoherent, ServedIsFresh
<1>. QED
  BY <1>3, <1>4, <1>5 DEF HomeInv

LEMMA SetLostKeeps ==
    ASSUME HomeInv, NEW c \in Conn, SetLost(c)
    PROVE  HomeInv'
<1>1. sent' = [sent EXCEPT ![c] = NoEntry] /\ UNCHANGED <<clock, cached, req, servedAge>>
  BY DEF SetLost
<1>2. /\ sent' \in [Conn -> Sent \cup {NoEntry}]
      /\ \A d \in Conn : sent'[d] # NoEntry => SetInOrder(sent[d])'
  BY <1>1, SentMoves
<1>3. HomeTypeOK'
  BY <1>1, <1>2 DEF HomeInv, HomeTypeOK
<1>4. ReadsInOrder'
  BY <1>1, <1>2 DEF HomeInv, ReadsInOrder, BuildInOrder, EntryInOrder
<1>5. CachedIsCoherent' /\ ServedIsFresh'
  BY <1>1 DEF HomeInv, CachedIsCoherent, ServedIsFresh
<1>. QED
  BY <1>3, <1>4, <1>5 DEF HomeInv

LEMMA HomeStepKeeps == HomeInv /\ [HomeNext]_homeVars => HomeInv'
<1>. SUFFICES ASSUME HomeInv, [HomeNext]_homeVars PROVE HomeInv'
  OBVIOUS
<1>1. CASE Tick /\ UNCHANGED <<cached, sent, req, servedAge>>
  BY <1>1, TickKeeps
<1>2. CASE EntryLost
  BY <1>2, LostKeeps DEF EntryLost
<1>3. CASE UNCHANGED homeVars
  BY <1>3, LostKeeps DEF homeVars
<1>. QED
  BY <1>1, <1>2, <1>3, ServeKeeps, MissKeeps, ReadKeeps, EndKeeps, BeginKeeps, ArriveKeeps,
     SetLostKeeps DEF HomeNext

\* The inductive invariant: builds read in order between start and now, a SET
\* begins within a deadline of what it carries, and an entry never outlives its
\* oldest list by more than its life, a deadline and the time it took to arrive.
THEOREM HomeInvariant == HomeSpec => []HomeInv
<1>1. HomeInit => HomeInv
  BY HomeStarts
<1>2. HomeInv /\ [HomeNext]_homeVars => HomeInv'
  BY HomeStepKeeps
<1>. QED
  BY <1>1, <1>2, PTL DEF HomeSpec

\* Nothing served from Redis is older than the entry's life, the deadline and
\* the time its SET was on its way.
THEOREM ServedFresh == HomeSpec => []ServedIsFresh
<1>1. HomeInv => ServedIsFresh
  BY DEF HomeInv
<1>. QED
  BY <1>1, HomeInvariant, PTL

\* The lists of a cached page are read in order, within a deadline.
THEOREM CachedCoherent == HomeSpec => []CachedIsCoherent
<1>1. HomeInv => CachedIsCoherent
  BY DEF HomeInv
<1>. QED
  BY <1>1, HomeInvariant, PTL

\* A slow builder takes the page back in time by a deadline, and the time its
\* SET was on its way, at most.
THEOREM SlipsBack == HomeSpec => SlipsBackAtMostTimeout
<1>. DEFINE Slip == cached # NoEntry /\ cached' # NoEntry =>
                      \A l \in List : cached.readAt[l] <= cached'.readAt[l] + Timeout + cached'.lag
<1>1. HomeInv /\ [HomeNext]_homeVars => [Slip]_homeVars
  <2>. SUFFICES ASSUME HomeInv, HomeNext, cached # NoEntry, cached' # NoEntry, NEW l \in List
                PROVE  cached.readAt[l] <= cached'.readAt[l] + Timeout + cached'.lag
    OBVIOUS
  <2>1. /\ cached.readAt[l] \in Nat /\ cached.lag \in Nat /\ cached.readAt[l] + cached.lag <= clock
        /\ clock \in Nat /\ Timeout \in Nat
    BY Entries, HomeAssumption DEF HomeInv, ReadsInOrder, EntryInOrder, HomeTypeOK, Time
  <2>2. CASE cached' = cached
    BY <2>1, <2>2
  <2>3. CASE cached' # cached
    <3>1. PICK c \in Conn : SetArrives(c)
      BY <2>3 DEF HomeNext, Tick, EntryLost, ServeCached, Miss, ReadList, Finish, ReadFails,
                  BeginSet, SetLost
    <3>2. /\ cached'.readAt[l] \in Nat /\ cached'.lag \in Nat
          /\ clock <= cached'.readAt[l] + Timeout + cached'.lag
      BY <3>1, Arrival DEF Entry, Time
    <3>. QED
      BY <2>1, <3>2
  <2>. QED
    BY <2>2, <2>3
<1>. QED
  BY <1>1, HomeInvariant, PTL DEF HomeSpec, SlipsBackAtMostTimeout

-----------------------------------------------------------------------------
(* The start-up.  What a phase finds done by the phases before it, whatever  *)
(* process did them.                                                         *)

AfterMigration == {"counting", "seeding", "redis", "minio", "serving", "draining"}
AfterSeed == {"redis", "minio", "serving", "draining"}
Statements == {Statement[i] : i \in 1 .. Len(Statement)}

DoneBefore ==
    /\ seeded \in Seq(Statements)
    /\ phase = "migrating" => \A i \in 1 .. Len(Table) : i < at => Table[i] \in tables
    /\ phase \in AfterMigration => tables = TableNames
    /\ phase = "seeding" => Len(seeded) + 1 = at
    /\ phase \in AfterSeed => Len(seeded) >= 1
    /\ phase = "serving" => bucket

BootInv == StartupTypeOK /\ SeededInOrder /\ DoneBefore

LEMMA SeedData ==
    /\ Len(Table) = 10 /\ Len(Statement) = 12
    /\ Statement \in Seq(Statements) /\ <<>> \in Seq(Statements) /\ Len(<<>>) = 0
    /\ Statement[1] = "admin"
<1>1. Len(Table) = 10
  BY DEF Table
<1>2. Len(Statement) = 12 /\ Statement[1] = "admin"
  BY DEF Statement
<1>3. Statement \in Seq(Statements)
  <2>1. Statement = [i \in 1 .. 12 |-> Statement[i]]
    BY DEF Statement
  <2>2. \A i \in 1 .. 12 : Statement[i] \in Statements
    BY <1>2 DEF Statements
  <2>3. Statement \in [1 .. 12 -> Statements]
    BY <2>1, <2>2
  <2>. QED
    BY <2>3, SeqDef
<1>. QED
  BY <1>1, <1>2, <1>3

LEMMA BootInit == ASSUME StartupInit PROVE BootInv
<1>. USE StartupAssumption DEF StartupInit
<1>1. seeded \in Seq(Statements) /\ (seeded = <<>> \/ seeded = Statement)
  BY SeedData
<1>2. \A i \in 1 .. Len(seeded) : i <= Len(Statement) /\ seeded[i] = Statement[i]
  <2>1. CASE seeded = <<>>
    BY <2>1, SeedData
  <2>2. CASE seeded = Statement
    BY <2>2, SeedData
  <2>. QED
    BY <1>1, <2>1, <2>2
<1>3. Committed \subseteq {Statement[i] : i \in 1 .. Len(Statement)}
  BY <1>1, <1>2 DEF Committed
<1>4. StartupTypeOK
  <2>1. phase \in Phase /\ phase # "migrating" /\ phase # "seeding"
        /\ phase # "serving" /\ phase # "draining" /\ at = 0
    BY DEF Phase
  <2>2. tables \subseteq TableNames /\ bucket \in BOOLEAN /\ handling = {}
    OBVIOUS
  <2>3. faults \in 0 .. MaxFaults
    OBVIOUS
  <2>. QED
    BY <1>3, <2>1, <2>2, <2>3 DEF StartupTypeOK
<1>. QED
  BY <1>1, <1>2, <1>4 DEF BootInv, SeededInOrder, DoneBefore, AfterMigration, AfterSeed

\* What is seeded is a beginning of the seed: its first statement is the admin.
LEMMA AdminFirst ==
    ASSUME BootInv
    PROVE  /\ Len(seeded) \in Nat /\ Len(seeded) <= 12
           /\ Len(seeded) >= 1 <=> "admin" \in Committed
           /\ Committed \cap DefaultAccount = {} => Len(seeded) = 0
<1>1. Len(seeded) \in Nat
  BY DEF BootInv, DoneBefore
<1>2. \A i \in 1 .. Len(seeded) : i <= 12 /\ seeded[i] = Statement[i]
  BY SeedData DEF BootInv, SeededInOrder
<1>3. Len(seeded) <= 12
  BY <1>1, <1>2
<1>4. Len(seeded) >= 1 => seeded[1] = "admin" /\ "admin" \in Committed
  BY <1>1, <1>2, SeedData DEF Committed
<1>5. Len(seeded) < 1 => Committed = {}
  BY <1>1 DEF Committed
<1>6. "admin" \in DefaultAccount
  BY DEF DefaultAccount
<1>8. Len(seeded) >= 1 <=> "admin" \in Committed
  BY <1>1, <1>4, <1>5
<1>. QED
  BY <1>1, <1>3, <1>6, <1>8

\* The step from one phase to the next, whose tables and seed stay.
LEMMA Moves ==
    ASSUME BootInv, UNCHANGED <<tables, seeded>>,
           bucket' \in BOOLEAN, bucket => bucket', faults' \in 0 .. MaxFaults,
           phase' \in Phase, handling' \subseteq IF phase' \in {"serving", "draining"} THEN Request ELSE {},
           at' \in CASE phase' = "migrating" -> {1} [] phase' = "seeding" -> {1} [] OTHER -> {0},
           phase' \in AfterMigration => tables = TableNames,
           phase' = "seeding" => Len(seeded) = 0,
           phase' \in AfterSeed => Len(seeded) >= 1,
           phase' = "serving" => bucket'
    PROVE  BootInv'
<1>1. StartupTypeOK'
  <2>1. Committed' = Committed
    BY DEF Committed
  <2>2. at' \in CASE phase' = "migrating" -> 1 .. Len(Table) + 1
                  [] phase' = "seeding"   -> 1 .. Len(Statement) + 1
                  [] OTHER                -> {0}
    BY SeedData
  <2>. QED
    BY <2>1, <2>2 DEF BootInv, StartupTypeOK
<1>2. DoneBefore'
  BY SeedData DEF BootInv, DoneBefore, AfterMigration, AfterSeed
<1>. QED
  BY <1>1, <1>2 DEF BootInv, SeededInOrder

LEMMA TableMigrated ==
    ASSUME BootInv, MigrateTable
    PROVE  BootInv'
<1>. USE DEF MigrateTable, BootInv
<1>1. at \in 1 .. 10 /\ at' = at + 1 /\ phase = "migrating" /\ phase' = "migrating"
  BY SeedData DEF StartupTypeOK
<1>2. tables' = tables \cup {Table[at]} /\ tables' \subseteq TableNames
  BY <1>1, SeedData DEF StartupTypeOK, TableNames
<1>3. StartupTypeOK'
  BY <1>1, <1>2, SeedData DEF StartupTypeOK, Committed
<1>4. \A i \in 1 .. Len(Table) : i < at' => Table[i] \in tables'
  BY <1>1, <1>2, SeedData DEF DoneBefore
<1>. QED
  BY <1>1, <1>3, <1>4 DEF DoneBefore, AfterMigration, AfterSeed, SeededInOrder

LEMMA StatementSeeded ==
    ASSUME BootInv, SeedStatement, seeded' # seeded
    PROVE  BootInv'
<1>. USE DEF SeedStatement, BootInv
<1>1. at \in 1 .. 12 /\ at' = at + 1 /\ phase = "seeding" /\ phase' = "seeding" /\ Len(seeded) + 1 = at
  BY SeedData DEF StartupTypeOK, DoneBefore
<1>2. seeded \in Seq(Statements) /\ seeded' = Append(seeded, Statement[at])
      /\ Statement[at] \in Statements
  BY <1>1, SeedData DEF DoneBefore, Statements
<1>3. seeded' \in Seq(Statements) /\ Len(seeded') = at
  BY <1>1, <1>2
<1>4. \A i \in 1 .. Len(seeded') : i <= 12 /\ seeded'[i] = Statement[i]
  BY <1>1, <1>2, SeedData DEF SeededInOrder
<1>5. StartupTypeOK'
  <2>1. Committed' \subseteq Statements
    BY <1>3, <1>4, SeedData DEF Committed, Statements
  <2>. QED
    BY <1>1, <2>1, SeedData DEF StartupTypeOK, Statements
<1>. QED
  BY <1>1, <1>3, <1>4, <1>5, SeedData DEF DoneBefore, AfterMigration, AfterSeed, SeededInOrder

LEMMA BootStep ==
    ASSUME BootInv, [StartupNext]_startupVars
    PROVE  BootInv'
<1>. USE StartupAssumption
<1>1. /\ bucket \in BOOLEAN /\ faults \in 0 .. MaxFaults /\ phase \in Phase
      /\ handling \subseteq IF phase \in {"serving", "draining"} THEN Request ELSE {}
      /\ at \in CASE phase = "migrating" -> 1 .. Len(Table) + 1
                  [] phase = "seeding"   -> 1 .. Len(Statement) + 1
                  [] OTHER               -> {0}
      /\ DoneBefore
  BY DEF BootInv, StartupTypeOK
<1>2. CASE Start
  BY <1>1, <1>2, Moves DEF Start, Phase, AfterMigration, AfterSeed
<1>3. CASE MigrateTable
  BY <1>3, TableMigrated
<1>4. CASE Migrated
  <2>1. tables = TableNames
    BY <1>1, <1>4, SeedData DEF Migrated, DoneBefore, BootInv, StartupTypeOK, TableNames
  <2>. QED
    BY <1>1, <1>4, <2>1, Moves DEF Migrated, Phase, AfterMigration, AfterSeed
<1>5. CASE CountUsers
  <2>1. CASE Committed \cap DefaultAccount = {}
    BY <1>1, <1>5, <2>1, AdminFirst, Moves
       DEF CountUsers, Phase, AfterMigration, AfterSeed, DoneBefore
  <2>2. CASE Committed \cap DefaultAccount # {}
    <3>1. Len(seeded) >= 1
      BY <2>2, AdminFirst DEF Committed
    <3>. QED
      BY <1>1, <1>5, <2>2, <3>1, Moves
         DEF CountUsers, Phase, AfterMigration, AfterSeed, DoneBefore
  <2>. QED
    BY <2>1, <2>2
<1>6. CASE SeedStatement
  <2>1. CASE seeded' # seeded
    BY <1>6, <2>1, StatementSeeded
  <2>2. CASE seeded' = seeded
    <3>1. phase' = "down" /\ at' = 0
      <4>1. seeded \in Seq(Statements) /\ Statement[at] \in Statements
        BY <1>1, <1>6, SeedData DEF DoneBefore, Statements, SeedStatement, BootInv, StartupTypeOK
      <4>2. Append(seeded, Statement[at]) # seeded
        BY <4>1
      <4>. QED
        BY <1>6, <2>2, <4>2 DEF SeedStatement
    <3>. QED
      BY <1>1, <1>6, <2>2, <3>1, Moves DEF SeedStatement, Phase, AfterMigration, AfterSeed
  <2>. QED
    BY <2>1, <2>2
<1>7. CASE Seeded
  <2>1. Len(seeded) >= 1
    BY <1>1, <1>7, SeedData DEF Seeded, DoneBefore, BootInv, StartupTypeOK
  <2>. QED
    BY <1>1, <1>7, <2>1, Moves DEF Seeded, Phase, AfterMigration, AfterSeed, DoneBefore
<1>8. CASE ConnectRedis
  BY <1>1, <1>8, Moves DEF ConnectRedis, Phase, AfterMigration, AfterSeed, DoneBefore
<1>9. CASE EnsureBucket
  BY <1>1, <1>9, Moves DEF EnsureBucket, Phase, AfterMigration, AfterSeed, DoneBefore
<1>10. CASE Listen
  BY <1>1, <1>10, Moves DEF Listen, Phase, AfterMigration, AfterSeed, DoneBefore
<1>11. CASE Shutdown
  BY <1>1, <1>11, Moves DEF Shutdown, Phase, AfterMigration, AfterSeed, DoneBefore
<1>12. CASE Fail
  BY <1>1, <1>12, Moves DEF Fail, Phase, AfterMigration, AfterSeed, DoneBefore
<1>13. CASE Signal
  BY <1>1, <1>13, Moves DEF Signal, Phase, AfterMigration, AfterSeed, DoneBefore
<1>14. ASSUME NEW r \in Request, Accept(r) \/ Answer(r)
       PROVE  BootInv'
  <2>1. StartupTypeOK'
    BY <1>14 DEF Accept, Answer, BootInv, StartupTypeOK, Committed
  <2>2. DoneBefore' /\ SeededInOrder'
    BY <1>1, <1>14 DEF Accept, Answer, BootInv, SeededInOrder, DoneBefore
  <2>. QED
    BY <2>1, <2>2 DEF BootInv
<1>15. CASE UNCHANGED startupVars
  BY <1>15 DEF startupVars, BootInv, DoneBefore, SeededInOrder, StartupTypeOK, Committed
<1>. QED
  BY <1>2, <1>3, <1>4, <1>5, <1>6, <1>7, <1>8, <1>9, <1>10, <1>11, <1>12, <1>13, <1>14, <1>15
     DEF StartupNext, Proceed

\* Whatever fails and however often the process dies, what is seeded is a
\* beginning of the seed and each phase finds the ones before it done.
THEOREM BootInvariant == StartupSpec => []BootInv
<1>. QED
  BY BootInit, BootStep, PTL DEF StartupSpec

\* What one process leaves committed another finds: the tables that are there
\* are those of the migration, the seed is a beginning of the seed whatever was
\* lost, and requests are handled by a process that listens (StartupInv).
THEOREM StartupSound == StartupSpec => []StartupInv
<1>1. BootInv => StartupInv
  BY DEF BootInv, StartupInv
<1>. QED
  BY <1>1, BootInvariant, PTL

\* A process that listens has its tables, its administrator and its bucket,
\* though an earlier one may have died in the middle of any of them
\* (main, AutoMigrate, SeedData, EnsureBucket; ServingIsReady).
THEOREM ListensReady == StartupSpec => []ServingIsReady
<1>1. BootInv => ServingIsReady
  BY AdminFirst DEF BootInv, DoneBefore, ServingIsReady, AfterMigration, AfterSeed
<1>. QED
  BY <1>1, BootInvariant, PTL

\* A seed that was cut short is never finished: the next process counts the
\* users already there and leaves the seed as it is (CutShortStaysShort).
THEOREM StaysCutShort == StartupSpec => CutShortStaysShort
<1>1. ASSUME NEW n \in 1 .. Len(Statement)
      PROVE  StartupSpec => [](Len(seeded) = n /\ phase # "seeding" => [](Len(seeded) = n))
  <2>. DEFINE Cut == Len(seeded) = n /\ phase # "seeding"
              Short == Len(seeded) = n
  <2>1. BootInv /\ Cut /\ [StartupNext]_startupVars => Cut'
    <3>. SUFFICES ASSUME BootInv, Cut, [StartupNext]_startupVars PROVE Cut'
      OBVIOUS
    <3>1. n >= 1
      BY SeedData
    <3>2. Committed \cap DefaultAccount # {}
      BY <3>1, AdminFirst
    <3>. QED
      BY <3>2 DEF StartupNext, Proceed, startupVars, Start, MigrateTable, Migrated,
         CountUsers, SeedStatement, Seeded, ConnectRedis, EnsureBucket,
         Listen, Shutdown, Fail, Signal, Accept, Answer
  <2>2. Cut => Short
    OBVIOUS
  <2>3. StartupSpec => [](Cut => []Short)
    <3>. HIDE DEF Cut, Short
    <3>. QED
      BY <2>1, <2>2, BootInvariant, PTL DEF StartupSpec
  <2>. QED
    BY <2>3
<1>. QED
  BY <1>1 DEF CutShortStaysShort
=============================================================================
