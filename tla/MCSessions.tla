------------------------------- MODULE MCSessions -------------------------------
(***************************************************************************)
(* Instances of Sessions for TLC: the sessions of a guest under the        *)
(* strategy that evicts, and beside them those of a Microsoft user under   *)
(* the one that rejects, with a limit of its own, as                       *)
(* auth_microsoft_max_sessions is.  A user is one or the other for good,   *)
(* so the run takes both in turn.                                          *)
(***************************************************************************)
EXTENDS Sessions

CONSTANTS
    MicrosoftMaxSessions

VARIABLE login

ForMicrosoft ==
    INSTANCE Sessions WITH Guest <- FALSE, Strategy <- "reject",
                           MaxSessions <- MicrosoftMaxSessions

LoginInit == login \in {"guest", "microsoft"} /\ Init

LoginNext ==
    /\ \/ login = "guest" /\ Next
       \/ login = "microsoft" /\ ForMicrosoft!Next
    /\ UNCHANGED login

LoginSpec == LoginInit /\ [][LoginNext]_<<login, vars>>

AnyGoesOn(r) == \/ login = "guest" /\ GoesOn(r)
                \/ login = "microsoft" /\ ForMicrosoft!GoesOn(r)

LoginFairSpec ==
    /\ LoginSpec
    /\ \A r \in Request : WF_vars(AnyGoesOn(r))
    /\ WF_vars(SweepWrites)
================================================================================
