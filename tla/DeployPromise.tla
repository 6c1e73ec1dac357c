--------------------------- MODULE DeployPromise ---------------------------
(***************************************************************************)
(* What a deploying action promises the workflow that runs it, whatever    *)
(* resource it deploys: it ends; it reports success only when the thing    *)
(* it was asked to deploy is in the cloud; what it asked for may still     *)
(* come into being after it failed or was killed, because the cloud        *)
(* carries out operations on its own.                                      *)
(***************************************************************************)
VARIABLES
    status,   \* "idle", "running" or how the run ended
    deployed  \* what the run asked for has come into being

vars == <<status, deployed>>

Init == status = "idle" /\ deployed = FALSE

Start ==
    /\ status = "idle"
    /\ status' \in {"running", "failed"}
    /\ UNCHANGED deployed

Deploy ==
    /\ status # "idle"
    /\ deployed' = TRUE
    /\ UNCHANGED status

Succeed ==
    /\ status = "running"
    /\ deployed
    /\ status' = "done"
    /\ UNCHANGED deployed

Fail ==
    /\ status = "running"
    /\ status' \in {"failed", "killed"}
    /\ UNCHANGED deployed

Next == Start \/ Deploy \/ Succeed \/ Fail

Spec ==
    /\ Init
    /\ [][Next]_vars
    /\ (status = "running") ~> (status # "running")
=============================================================================
