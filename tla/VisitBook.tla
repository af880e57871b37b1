------------------------------- MODULE VisitBook -------------------------------
(***************************************************************************)
(* What the follow-up visits promise, whatever requests overlap: a visit   *)
(* is scheduled with days to spare, turns overdue only once its due date   *)
(* has passed and nobody has submitted it, can be submitted at any time,   *)
(* and stays submitted.  Nothing here is read and written later.           *)
(***************************************************************************)
CONSTANT Review

VARIABLES
    status,     \* status[v], "none" before visit v is scheduled
    late        \* late[v], whether its due date has passed

vars == <<status, late>>

Init ==
    /\ status = [v \in Review |-> "none"]
    /\ late = [v \in Review |-> FALSE]

Schedule(v) ==
    /\ status[v] = "none"
    /\ status' = [status EXCEPT ![v] = "pending"]
    /\ UNCHANGED late

\* Due dates pass, of scheduled visits, and never come back.
DayPasses ==
    /\ late' \in [Review -> BOOLEAN]
    /\ \A v \in Review : (late[v] => late'[v]) /\ (late'[v] => status[v] # "none")
    /\ UNCHANGED status

\* Some of the visits that are late and were not submitted turn overdue.
Mark(S) ==
    /\ \A v \in S : status[v] = "pending" /\ late[v]
    /\ status' = [v \in Review |-> IF v \in S THEN "overdue" ELSE status[v]]
    /\ UNCHANGED late

Submit(v) ==
    /\ status[v] # "none"
    /\ status' = [status EXCEPT ![v] = "submitted"]
    /\ UNCHANGED late

Next ==
    \/ \E v \in Review : Schedule(v) \/ Submit(v)
    \/ DayPasses
    \/ \E S \in SUBSET Review : Mark(S)

Spec == Init /\ [][Next]_vars

-----------------------------------------------------------------------------
\* Only a visit whose due date has passed is overdue: the day it is due is
\* still the adopter's.
OverdueOnlyPastDue == \A v \in Review : status[v] = "overdue" => late[v]

\* A submitted visit stays submitted, and none goes back to pending.
KeepsSubmitted ==
    \A v \in Review :
        /\ status[v] = "submitted" => status'[v] = "submitted"
        /\ status[v] = "overdue" => status'[v] \in {"overdue", "submitted"}
SubmittedStays == [][KeepsSubmitted]_vars
=============================================================================
