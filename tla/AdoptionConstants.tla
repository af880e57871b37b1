-------------------------- MODULE AdoptionConstants --------------------------
(***************************************************************************)
(* The status vocabulary of backend/internal/constants: the states of an   *)
(* adoption application with their forward transitions, and the states of  *)
(* a pet.  Every other module of the adoption flow is built on these.      *)
(***************************************************************************)

\* The seven application statuses.
AppStatus == {"submitted", "org_review", "communicating", "confirmed",
              "offline_interview", "approved", "rejected"}

\* The forward edges of the application state machine.
AppEdge == {<<"submitted", "org_review">>, <<"submitted", "rejected">>,
            <<"org_review", "communicating">>, <<"org_review", "rejected">>,
            <<"communicating", "confirmed">>, <<"communicating", "rejected">>,
            <<"confirmed", "offline_interview">>,
            <<"offline_interview", "approved">>,
            <<"offline_interview", "rejected">>}

\* The statuses a handler may move an application to from status s; a status
\* without outgoing edges (approved, rejected) has none.
NextApplicationStatuses(s) == {t \in AppStatus : <<s, t>> \in AppEdge}

\* The three pet statuses.
PetStatus == {"available", "pending", "adopted"}

\* The stages an application has to have been through before it may hold
\* status s; the abstract reading of the edges above.
StagesBefore(s) ==
    CASE s = "submitted"         -> {}
      [] s = "org_review"        -> {"submitted"}
      [] s = "communicating"     -> {"submitted", "org_review"}
      [] s = "confirmed"         -> {"submitted", "org_review", "communicating"}
      [] s = "offline_interview" -> {"submitted", "org_review", "communicating",
                                     "confirmed"}
      [] s = "approved"          -> {"submitted", "org_review", "communicating",
                                     "confirmed", "offline_interview"}
      [] s = "rejected"          -> {"submitted"}
=============================================================================
