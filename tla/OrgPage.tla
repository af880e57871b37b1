------------------------------- MODULE OrgPage -------------------------------
(***************************************************************************)
(* An organization's page (pages/OrgDetail.tsx): four requests one after   *)
(* the other, each part shown as it arrives, and nothing cancelled when    *)
(* the route changes; with the donations and usage records that two of     *)
(* the requests read.                                                      *)
(***************************************************************************)
EXTENDS Naturals

CONSTANTS
    Org, Donation,
    NoOrg,
    Chain       \* chains of requests that may be under way at once

VARIABLES
    orgRoute,   \* the organization in the address
    given,      \* given[d], the organization donation d went to
    used,       \* donations with a usage record
    part,       \* what each part of the page shows
    chain,      \* the chains under way: the part asked for and its answer
    mixed       \* history: a chain was overtaken, or broke off

orgVars == <<orgRoute, given, used, part, chain, mixed>>

Part == {"org", "pets", "usages", "stats"}
NoAnswer == [of |-> NoOrg, donations |-> {}]
Quiet == [of |-> NoOrg]

Asking(o, p) == [of |-> o, at |-> p, answer |-> NoAnswer]

OrgStart ==
    /\ orgRoute = NoOrg
    /\ given = [d \in Donation |-> NoOrg] /\ used = {}
    /\ part = [p \in Part |-> NoAnswer]
    /\ chain = [c \in Chain |-> Quiet]
    /\ mixed = FALSE

-----------------------------------------------------------------------------
\* POST /donations: one row, successful from the start.
Donate(d, o) ==
    /\ given[d] = NoOrg
    /\ given' = [given EXCEPT ![d] = o]
    /\ UNCHANGED <<orgRoute, used, part, chain, mixed>>

\* POST /donations/usage, by the organization the donation went to.
ReportUsage(d) ==
    /\ given[d] # NoOrg
    /\ used' = used \cup {d}
    /\ UNCHANGED <<orgRoute, given, part, chain, mixed>>

\* The usage records of an organization, known by the donations they are of.
ListUsage(o) == {d \in used : given[d] = o}

\* The donations counted in an organization's total.
SumByOrg(o) == {d \in Donation : given[d] = o}

Answer(o, p) == [of |-> o, donations |-> CASE p = "usages" -> ListUsage(o)
                                          [] p = "stats"  -> SumByOrg(o)
                                          [] OTHER        -> {}]

\* The server answers the request a chain has come to.
Serve(c) ==
    /\ chain[c] # Quiet /\ chain[c].answer = NoAnswer
    /\ chain' = [chain EXCEPT ![c].answer = Answer(chain[c].of, chain[c].at)]
    /\ UNCHANGED <<orgRoute, given, used, part, mixed>>

\* Deliberately wrong: the total is asked for before the usage records.
FollowingStatsFirst == [org |-> "pets", pets |-> "stats", stats |-> "usages"]

\* The request a chain makes when one is answered; the rest of a chain asks
\* for the organization that its first answer brought.
Following == [org |-> "pets", pets |-> "usages", usages |-> "stats"]

\* The page shows the part that arrives, whatever its route is by then.
Hear(c) ==
    /\ chain[c] # Quiet /\ chain[c].answer # NoAnswer
    /\ part' = [part EXCEPT ![chain[c].at] = chain[c].answer]
    /\ chain' = [chain EXCEPT ![c] = IF chain[c].at \in DOMAIN Following
                                     THEN Asking(chain[c].of, Following[chain[c].at])
                                     ELSE Quiet]
    /\ UNCHANGED <<orgRoute, given, used, mixed>>

\* A request fails: the rest of its chain is not made.
BreakOff(c) ==
    /\ chain[c] # Quiet
    /\ chain' = [chain EXCEPT ![c] = Quiet]
    /\ mixed' = TRUE
    /\ UNCHANGED <<orgRoute, given, used, part>>

\* Deliberately wrong: the effect runs on the first render only.
JumpUnloaded(c, o) ==
    /\ o # orgRoute /\ chain[c] = Quiet
    /\ orgRoute' = o
    /\ chain' = IF orgRoute = NoOrg THEN [chain EXCEPT ![c] = Asking(o, "org")] ELSE chain
    /\ UNCHANGED <<given, used, part, mixed>>

\* The page is opened, or its address changes to another organization's: the
\* parts stay until they are replaced, and a chain under way goes on.
Jump(c, o) ==
    /\ o # orgRoute /\ chain[c] = Quiet
    /\ orgRoute' = o
    /\ mixed' = \E b \in Chain : chain[b] # Quiet
    /\ chain' = [chain EXCEPT ![c] = Asking(o, "org")]
    /\ UNCHANGED <<given, used, part>>

OrgNext ==
    \/ \E d \in Donation, o \in Org : Donate(d, o)
    \/ \E d \in Donation : ReportUsage(d)
    \/ \E c \in Chain :
          \/ Serve(c) \/ Hear(c) \/ BreakOff(c)
          \/ \E o \in Org : Jump(c, o)

-----------------------------------------------------------------------------
Settled == orgRoute \in Org /\ ~mixed /\ \A c \in Chain : chain[c] = Quiet

\* A page whose chains have ended, none overtaken and none broken off, shows
\* one organization throughout, and it is the one in the address.
SettledPageIsOneOrg == Settled => \A p \in Part : part[p].of = orgRoute

\* Such a page never reports the use of a donation that its total leaves out,
\* though donations and usage records come in between its requests: the usage
\* records are read before the total.
UseShownIsOfMoneyShown == Settled => part["usages"].donations \subseteq part["stats"].donations
=============================================================================
