------------------------------ MODULE HomeCache ------------------------------
(***************************************************************************)
(* handler/home_handler.go: the home page aggregate.  A request serves the *)
(* cached overview if Redis has one; otherwise it reads its lists from the *)
(* database one after the other and caches what it built.  Nothing         *)
(* invalidates the entry: it only expires, and any number of requests may  *)
(* be building one at the same time.                                       *)
(*                                                                         *)
(* The request's deadline binds the taking of a Redis connection and       *)
(* nothing after it: the client (go-redis 9.6.1, used with its default     *)
(* options) does not apply the context to a command on its way.  So a SET  *)
(* is begun in one step and reaches Redis in another, or never.            *)
(*                                                                         *)
(* A list is known by the time it was read: how old what a visitor sees    *)
(* may be is all that is asked here.  The clock is coarse, so two events   *)
(* at one reading may be almost a tick apart and a limit of n ticks is met *)
(* up to and including reading start + n.                                  *)
(***************************************************************************)
EXTENDS Clock

CONSTANTS
    Req,        \* requests for the page in flight at once
    Lists,      \* how many lists the overview has (3)
    TTL,        \* life of the cached entry (30 s)
    Timeout,    \* life of the request's Redis context (5 s)
    Conn,       \* connections to Redis, each with one SET on its way at most
    NoEntry     \* the cache without an entry, a connection without a SET

ASSUME HomeAssumption ==
    TTL \in Nat /\ Timeout \in Nat /\ MaxTime \in Nat /\ Lists \in Nat \ {0}

\* hot pets, latest posts, certified organizations, read in this order
List == 1 .. Lists
Time == 0 .. MaxTime

\* A SET on its way, and what it leaves: lag is history, the time it was on
\* its way.
Sent == [readAt : [List -> Time], begun : Time]
Entry == [readAt : [List -> Time], lag : Time, expires : 0 .. MaxTime + TTL]
IdleReq == [phase |-> "idle"]
\* A request that missed the cache; lists before next have been read.
BuildReq == [phase : {"build"}, start : Time, next : 1 .. Lists + 1, readAt : [List -> Time]]

ASSUME NoEntryAssumption == NoEntry \notin Entry \cup Sent

VARIABLES
    cached,     \* the Redis entry
    sent,       \* the SET on its way on each connection
    req,        \* what each request has read
    servedAge   \* history: how old the hot pets were in the last page served
                \* from Redis, the time its SET was on its way left out

homeVars == <<clock, cached, sent, req, servedAge>>

HomeTypeOK ==
    /\ clock \in Time
    /\ cached \in Entry \cup {NoEntry}
    /\ sent \in [Conn -> Sent \cup {NoEntry}]
    /\ req \in [Req -> {IdleReq} \cup BuildReq]
    /\ servedAge \in Time

HomeInit ==
    /\ clock = 0
    /\ cached = NoEntry
    /\ sent = [c \in Conn |-> NoEntry]
    /\ req = [r \in Req |-> IdleReq]
    /\ servedAge = 0

\* Redis still returns the entry.
Live ==
    /\ cached # NoEntry
    /\ clock <= cached.expires

\* Deliberately wrong: a hit gives the entry a new life.
ServeCachedProlonging(r) ==
    /\ req[r] = IdleReq
    /\ Live
    /\ servedAge' = clock - cached.lag - cached.readAt[1]
    /\ cached' = [cached EXCEPT !.expires = clock + TTL]
    /\ UNCHANGED <<clock, sent, req>>

\* A hit answers with the entry as it is and does not prolong it.
ServeCached(r) ==
    /\ req[r] = IdleReq
    /\ Live
    /\ servedAge' = clock - cached.lag - cached.readAt[1]
    /\ UNCHANGED <<clock, cached, sent, req>>

\* A miss, or a Redis error, which is treated alike.
Miss(r) ==
    /\ req[r] = IdleReq
    /\ req' = [req EXCEPT ![r] = [phase |-> "build", start |-> clock, next |-> 1,
                                  readAt |-> [l \in List |-> clock]]]
    /\ UNCHANGED <<clock, cached, sent, servedAge>>

\* The next list is read from the database; the deadline does not bind it.
ReadList(r) ==
    /\ req[r].phase = "build" /\ req[r].next \in List
    /\ req' = [req EXCEPT ![r].readAt[req[r].next] = clock, ![r].next = @ + 1]
    /\ UNCHANGED <<clock, cached, sent, servedAge>>

\* Deliberately wrong: the SET is begun on a context without a deadline.
BeginSetLate(r, c) ==
    /\ req[r].phase = "build" /\ req[r].next \notin List
    /\ sent[c] = NoEntry
    /\ sent' = [sent EXCEPT ![c] = [readAt |-> req[r].readAt, begun |-> clock]]
    /\ UNCHANGED <<clock, cached, req, servedAge>>

\* The overview is built: its SET is begun if a connection is had before the
\* deadline, and may be begun again when it fails.
BeginSet(r, c) ==
    /\ req[r].phase = "build" /\ req[r].next \notin List
    /\ clock <= req[r].start + Timeout
    /\ sent[c] = NoEntry
    /\ sent' = [sent EXCEPT ![c] = [readAt |-> req[r].readAt, begun |-> clock]]
    /\ UNCHANGED <<clock, cached, req, servedAge>>

\* The overview is answered whatever became of its SET, which may still be on
\* its way when the client gives it up.
Finish(r) ==
    /\ req[r].phase = "build" /\ req[r].next \notin List
    /\ req' = [req EXCEPT ![r] = IdleReq]
    /\ UNCHANGED <<clock, cached, sent, servedAge>>

\* Redis executes a SET: the entry lives from this moment.
SetArrives(c) ==
    /\ sent[c] # NoEntry
    /\ cached' = [readAt  |-> sent[c].readAt,
                  lag     |-> clock - sent[c].begun,
                  expires |-> clock + TTL]
    /\ sent' = [sent EXCEPT ![c] = NoEntry]
    /\ UNCHANGED <<clock, req, servedAge>>

\* A SET never reaches Redis, or is refused.
SetLost(c) ==
    /\ sent[c] # NoEntry
    /\ sent' = [sent EXCEPT ![c] = NoEntry]
    /\ UNCHANGED <<clock, cached, req, servedAge>>

\* A list fails to load: the request answers an error and caches nothing.
ReadFails(r) ==
    /\ req[r].phase = "build" /\ req[r].next \in List
    /\ req' = [req EXCEPT ![r] = IdleReq]
    /\ UNCHANGED <<clock, cached, sent, servedAge>>

\* Redis drops the entry, by a restart or under memory pressure.
EntryLost ==
    /\ cached # NoEntry
    /\ cached' = NoEntry
    /\ UNCHANGED <<clock, sent, req, servedAge>>

HomeNext ==
    \/ Tick /\ UNCHANGED <<cached, sent, req, servedAge>>
    \/ EntryLost
    \/ \E r \in Req : ServeCached(r) \/ Miss(r) \/ ReadList(r) \/ Finish(r) \/ ReadFails(r)
    \/ \E r \in Req, c \in Conn : BeginSet(r, c)
    \/ \E c \in Conn : SetArrives(c) \/ SetLost(c)

HomeSpec == HomeInit /\ [][HomeNext]_homeVars

-----------------------------------------------------------------------------
\* However builders overlap, a page served from Redis shows nothing older than
\* the entry's life, the request deadline and the time its SET was on its way
\* (which servedAge leaves out) together: an adoption or a revoked organization
\* stays hidden from visitors no longer than that.
ServedIsFresh == servedAge <= TTL + Timeout

\* The lists of a cached page come from moments a deadline apart at
\* most, and each was read after the one before it.
CachedIsCoherent ==
    cached # NoEntry =>
        /\ \A l, m \in List : l <= m => cached.readAt[l] <= cached.readAt[m]
        /\ cached.readAt[Lists] <= cached.readAt[1] + Timeout

\* A slow builder may overwrite a newer entry with the older lists it read,
\* and then the page goes back in time, by a deadline and the time the SET was
\* on its way at most.
SlipsBackAtMostTimeout ==
    [][cached # NoEntry /\ cached' # NoEntry =>
          \A l \in List : cached.readAt[l] <= cached'.readAt[l] + Timeout + cached'.lag]_homeVars

\* What makes these hold while a page is being built: its lists were read in
\* order, between the request's start and now; a SET was begun after its lists
\* were read, by a deadline at most; an entry lives TTL from its arrival.
BuildInOrder(b) ==
    /\ b.start <= clock
    /\ \A l \in List : b.start <= b.readAt[l] /\ b.readAt[l] <= clock
    /\ \A l, m \in List : l <= m /\ m < b.next => b.readAt[l] <= b.readAt[m]
SetInOrder(s) ==
    /\ s.begun <= clock
    /\ \A l \in List : s.readAt[l] <= s.begun /\ s.begun <= s.readAt[l] + Timeout
    /\ \A l, m \in List : l <= m => s.readAt[l] <= s.readAt[m]
EntryInOrder(e) ==
    \A l \in List : /\ e.readAt[l] + e.lag <= clock
                    /\ e.expires <= e.readAt[l] + TTL + Timeout + e.lag

ReadsInOrder ==
    /\ \A r \in Req : req[r].phase = "build" => BuildInOrder(req[r])
    /\ \A c \in Conn : sent[c] # NoEntry => SetInOrder(sent[c])
    /\ cached # NoEntry => EntryInOrder(cached)

HomeInv == HomeTypeOK /\ ReadsInOrder /\ CachedIsCoherent /\ ServedIsFresh
=============================================================================
