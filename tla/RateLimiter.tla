----------------------------- MODULE RateLimiter -----------------------------
(***************************************************************************)
(* middleware/rate_limiter.go: the one limiter all rate-limited endpoints  *)
(* of the server share.  A call reads the clock, then takes the mutex;     *)
(* between the two other calls may run and the clock may move, so a call   *)
(* can enter the critical section with a reading older than the bucket it  *)
(* finds.                                                                  *)
(***************************************************************************)
EXTENDS Clock, FiniteSets

CONSTANTS
    IP,         \* client addresses
    Call,       \* calls in flight at once
    Reqs,       \* calls a bucket admits (RATE_LIMIT_REQUESTS)
    Window,     \* life of a bucket, in ticks (RATE_LIMIT_WINDOW_SECONDS)
    NoBucket    \* marks an address without a bucket

ASSUME LimiterAssumption ==
    /\ Reqs \in Nat \ {0} /\ Window \in Nat \ {0} /\ MaxTime \in Nat
    /\ IsFiniteSet(Call) /\ Call # {}

\* NoBucket is told apart from a bucket, as nil is from a pointer.
ASSUME NoBucketAssumption == NoBucket \notin [count : Nat, resetAt : Nat]

VARIABLES
    limits,     \* the map of buckets, per address
    call,       \* what each call has read
    admitted    \* history: per address and time, the calls let through whose
                \* reading is in the window that begins then

vars == <<clock, limits, call, admitted>>

\* count stops at Reqs + 1: every larger value is refused alike.
Bucket == [count : 0 .. Reqs + 1, resetAt : 0 .. MaxTime + Window]
IdleCall == [phase |-> "idle"]
ClockedCall == [phase : {"clocked"}, ip : IP, now : 0 .. MaxTime]

TypeOK ==
    /\ clock \in 0 .. MaxTime
    /\ limits \in [IP -> Bucket \cup {NoBucket}]
    /\ call \in [Call -> {IdleCall} \cup ClockedCall]
    /\ admitted \in [IP -> [0 .. MaxTime -> Nat]]

Init ==
    /\ clock = 0
    /\ limits = [ip \in IP |-> NoBucket]
    /\ call = [c \in Call |-> IdleCall]
    /\ admitted = [ip \in IP |-> [t \in 0 .. MaxTime |-> 0]]

\* now := time.Now(), before the lock.
ReadClock(c, ip) ==
    /\ call[c] = IdleCall
    /\ call' = [call EXCEPT ![c] = [phase |-> "clocked", ip |-> ip, now |-> clock]]
    /\ UNCHANGED <<clock, limits, admitted>>

\* Deliberately wrong: a bucket already ends at resetAt itself.
CurrentBucketEarly(ip, now) ==
    LET b == limits[ip]
    IN  IF b = NoBucket \/ (b # NoBucket /\ now >= b.resetAt)
        THEN [count |-> 0, resetAt |-> now + Window]
        ELSE b

\* Deliberately wrong: a full bucket is replaced.
CurrentBucketWhenFull(ip, now) ==
    LET b == limits[ip]
    IN  IF b = NoBucket \/ (b # NoBucket /\ (now > b.resetAt \/ b.count >= Reqs))
        THEN [count |-> 0, resetAt |-> now + Window]
        ELSE b

\* The bucket a call is counted in: the one it finds, unless there is none or
\* the reading is past its end.
CurrentBucket(ip, now) ==
    LET b == limits[ip]
    IN  IF b = NoBucket \/ (b # NoBucket /\ now > b.resetAt)
        THEN [count |-> 0, resetAt |-> now + Window]
        ELSE b

\* The critical section: count the call, admit it or answer 429.
CountCall(c) ==
    /\ call[c].phase = "clocked"
    /\ LET ip    == call[c].ip
           now   == call[c].now
           b     == CurrentBucket(ip, now)
           count == IF b.count <= Reqs THEN b.count + 1 ELSE b.count
       IN  /\ limits' = [limits EXCEPT ![ip] = [b EXCEPT !.count = count]]
           /\ admitted' = IF count > Reqs THEN admitted
                           ELSE [admitted EXCEPT ![ip] = [t \in 0 .. MaxTime |->
                                    IF now \in t .. t + Window THEN @[t] + 1 ELSE @[t]]]
    /\ call' = [call EXCEPT ![c] = IdleCall]
    /\ UNCHANGED clock

Next ==
    \/ Tick /\ UNCHANGED <<limits, call, admitted>>
    \/ \E c \in Call, ip \in IP : ReadClock(c, ip)
    \/ \E c \in Call : CountCall(c)

Spec == Init /\ [][Next]_vars

-----------------------------------------------------------------------------
\* In any closed window at most two buckets' worth less one is admitted (the
\* call that opens the first of the two reads the clock before the window),
\* plus the calls a reset overtook between their reading and the lock, which
\* are counted in a later bucket.  The clock is read before the lock, so the
\* bound is on readings.
WindowBound ==
    \A ip \in IP, t \in 0 .. MaxTime :
        admitted[ip][t] <= 2 * Reqs + Cardinality(Call) - 2

\* Whatever order stale readings take the mutex in, an address's buckets
\* follow each other more than a window apart: a window is never moved back,
\* shortened or restarted while it runs.
BucketsApart ==
    [][\A ip \in IP :
          limits[ip] # NoBucket =>
             /\ limits'[ip] # NoBucket
             /\ \/ limits'[ip].resetAt = limits[ip].resetAt
                \/ limits'[ip].resetAt > limits[ip].resetAt + Window]_vars
=============================================================================
