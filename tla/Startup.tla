------------------------------- MODULE Startup -------------------------------
(***************************************************************************)
(* cmd/server: what the backend does from exec to exit.  It migrates ten   *)
(* tables, seeds twelve statements if there is no user, connects to Redis  *)
(* and to MinIO, and listens; any error ends the process and Docker starts *)
(* it again.  No transaction spans two statements, so whatever was         *)
(* committed when the process ended is there at the next start.  Told to   *)
(* stop, a server that listens takes no more requests and waits for those  *)
(* it has, at most five seconds.                                           *)
(***************************************************************************)
EXTENDS Naturals, Sequences

CONSTANTS
    MaxFaults,      \* bound on the failures and stops of one behaviour
    Request         \* requests the server may be handling at once

ASSUME StartupAssumption == MaxFaults \in Nat

\* The arguments of AutoMigrate.
Table == <<"users", "organizations", "pets", "adoption_applications", "visit_reviews",
           "community_posts", "post_comments", "donations", "donation_usages", "favorites">>

\* The INSERTs of seed, each committed on its own.
Statement == <<"admin", "adopter", "shelter", "org", "org2", "pets", "posts",
               "comments", "donations", "usages", "apps", "reviews">>

DefaultAccount == {"admin", "adopter", "shelter"}

VARIABLES
    phase,      \* what the server process is doing
    at,         \* the table or statement it has come to
    tables,     \* tables in the database
    seeded,     \* statements committed, in the order they were
    bucket,     \* whether the MinIO bucket exists
    handling,   \* requests the server is handling
    faults      \* failures and stops so far

startupVars == <<phase, at, tables, seeded, bucket, handling, faults>>

Phase == {"down", "migrating", "counting", "seeding", "redis", "minio",
          "serving", "draining"}
Committed == {seeded[i] : i \in 1 .. Len(seeded)}
TableNames == {Table[i] : i \in 1 .. Len(Table)}

StartupTypeOK ==
    /\ phase \in Phase
    /\ at \in CASE phase = "migrating" -> 1 .. Len(Table) + 1
               [] phase = "seeding"   -> 1 .. Len(Statement) + 1
               [] OTHER               -> {0}
    /\ tables \subseteq TableNames
    /\ Committed \subseteq {Statement[i] : i \in 1 .. Len(Statement)}
    /\ bucket \in BOOLEAN
    /\ handling \subseteq IF phase \in {"serving", "draining"} THEN Request ELSE {}
    /\ faults \in 0 .. MaxFaults

\* The database is empty (go run), or init.sql has made the tables and the
\* same rows (docker compose).
StartupInit ==
    /\ phase = "down" /\ at = 0
    /\ \/ tables = {} /\ seeded = <<>>
       \/ tables = TableNames /\ seeded = Statement
    /\ bucket = FALSE /\ handling = {}
    /\ faults = 0

Start ==
    /\ phase = "down"
    /\ phase' = "migrating" /\ at' = 1
    /\ UNCHANGED <<tables, seeded, bucket, handling, faults>>

\* Deliberately wrong: a table that cannot be created is passed over.
MigrateTableOrSkip ==
    /\ phase = "migrating" /\ at <= Len(Table)
    /\ tables' = tables \cup {Table[at]} \/ tables' = tables
    /\ at' = at + 1
    /\ UNCHANGED <<phase, seeded, bucket, handling, faults>>

\* AutoMigrate creates the table, or finds it.
MigrateTable ==
    /\ phase = "migrating" /\ at <= Len(Table)
    /\ tables' = tables \cup {Table[at]}
    /\ at' = at + 1
    /\ UNCHANGED <<phase, seeded, bucket, handling, faults>>

Migrated ==
    /\ phase = "migrating" /\ at > Len(Table)
    /\ phase' = "counting" /\ at' = 0
    /\ UNCHANGED <<tables, seeded, bucket, handling, faults>>

\* Deliberately wrong: the users already there are not looked at.
CountUsersIgnored ==
    /\ phase = "counting"
    /\ phase' = "seeding" /\ at' = 1
    /\ UNCHANGED <<tables, seeded, bucket, handling, faults>>

\* Deliberately wrong: a later start takes the seed up where it stopped.
CountUsersResuming ==
    /\ phase = "counting"
    /\ phase' = "seeding" /\ at' = Len(seeded) + 1
    /\ UNCHANGED <<tables, seeded, bucket, handling, faults>>

\* Any user at all ends the seed.
CountUsers ==
    /\ phase = "counting"
    /\ IF Committed \cap DefaultAccount = {}
       THEN phase' = "seeding" /\ at' = 1
       ELSE phase' = "redis" /\ at' = 0
    /\ UNCHANGED <<tables, seeded, bucket, handling, faults>>

\* Deliberately wrong: the error of an INSERT is not returned.
SeedStatementOrSkip ==
    /\ phase = "seeding" /\ at <= Len(Statement)
    /\ seeded' = Append(seeded, Statement[at]) \/ seeded' = seeded
    /\ at' = at + 1
    /\ UNCHANGED <<phase, tables, bucket, handling, faults>>

\* The next INSERT; user names are unique, so an account already there is an
\* error and ends the process.
SeedStatement ==
    /\ phase = "seeding" /\ at <= Len(Statement)
    /\ IF Statement[at] \in Committed \cap DefaultAccount
       THEN /\ phase' = "down" /\ at' = 0
            /\ UNCHANGED seeded
       ELSE /\ seeded' = Append(seeded, Statement[at])
            /\ at' = at + 1
            /\ UNCHANGED phase
    /\ UNCHANGED <<tables, bucket, handling, faults>>

Seeded ==
    /\ phase = "seeding" /\ at > Len(Statement)
    /\ phase' = "redis" /\ at' = 0
    /\ UNCHANGED <<tables, seeded, bucket, handling, faults>>

ConnectRedis ==
    /\ phase = "redis"
    /\ phase' = "minio"
    /\ UNCHANGED <<at, tables, seeded, bucket, handling, faults>>

\* The bucket is made if it does not exist.
EnsureBucket ==
    /\ phase = "minio" /\ ~bucket
    /\ bucket' = TRUE
    /\ UNCHANGED <<phase, at, tables, seeded, handling, faults>>

Listen ==
    /\ phase = "minio" /\ bucket
    /\ phase' = "serving"
    /\ UNCHANGED <<at, tables, seeded, bucket, handling, faults>>

\* A request comes in; it may take any time, and need never be answered.
Accept(r) ==
    /\ phase = "serving" /\ r \notin handling
    /\ handling' = handling \cup {r}
    /\ UNCHANGED <<phase, at, tables, seeded, bucket, faults>>

Answer(r) ==
    /\ r \in handling
    /\ handling' = handling \ {r}
    /\ UNCHANGED <<phase, at, tables, seeded, bucket, faults>>

\* SIGINT or SIGTERM reaches a server that listens.
Signal ==
    /\ phase = "serving" /\ faults < MaxFaults
    /\ phase' = "draining"
    /\ faults' = faults + 1
    /\ UNCHANGED <<at, tables, seeded, bucket, handling>>

\* Deliberately wrong: Shutdown is given a context without a deadline.
ShutdownPatient ==
    /\ phase = "draining" /\ handling = {}
    /\ phase' = "down"
    /\ UNCHANGED <<at, tables, seeded, bucket, handling, faults>>

\* Shutdown returns once the requests are answered, or five seconds later;
\* those it leaves are cut.
Shutdown ==
    /\ phase = "draining"
    /\ phase' = "down" /\ handling' = {}
    /\ UNCHANGED <<at, tables, seeded, bucket, faults>>

\* A call to the database, Redis or MinIO fails, the process dies, or it is
\* told to stop before it listens.
Fail ==
    /\ phase # "down" /\ faults < MaxFaults
    /\ phase' = "down" /\ at' = 0 /\ handling' = {}
    /\ faults' = faults + 1
    /\ UNCHANGED <<tables, seeded, bucket>>

Proceed ==
    \/ Start \/ MigrateTable \/ Migrated \/ CountUsers \/ SeedStatement \/ Seeded
    \/ ConnectRedis \/ EnsureBucket \/ Listen \/ Shutdown

StartupNext == Proceed \/ Fail \/ Signal \/ \E r \in Request : Accept(r) \/ Answer(r)

\* Docker restarts the container (restart: unless-stopped; a stop is half of a
\* restart or of an upgrade), every call the start-up makes returns, with a
\* result or with an error, and the deadline of a stop passes.  Nothing says
\* that a request is ever answered.
StartupSpec == StartupInit /\ [][StartupNext]_startupVars /\ WF_startupVars(Proceed)

-----------------------------------------------------------------------------
\* However often the process dies, a seeded row comes after every row it
\* refers to and none is inserted twice: what is there is the beginning of
\* the seed.
SeededInOrder ==
    \A i \in 1 .. Len(seeded) : i <= Len(Statement) /\ seeded[i] = Statement[i]

\* The process is where its phase says, and the seed is such a beginning.
StartupInv == StartupTypeOK /\ SeededInOrder

\* A server that listens has its tables, its bucket and at least an admin.
ServingIsReady ==
    phase = "serving" => tables = TableNames /\ bucket /\ "admin" \in Committed

\* Once failures stop, the server is up for good, whatever a failed start has
\* left behind.
EventuallyServing == <>[](phase = "serving")

\* A server told to stop does, whatever a request it is handling waits for.
StopEnds == phase = "draining" ~> phase = "down"

\* A seed cut short stays short: once a start has died after the first account,
\* no later start adds a row, the other default accounts included.
CutShortStaysShort ==
    \A n \in 1 .. Len(Statement) :
        [](Len(seeded) = n /\ phase # "seeding" => [](Len(seeded) = n))
=============================================================================
