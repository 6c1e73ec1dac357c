--------------------------- MODULE MCApigwDeploy ---------------------------
(***************************************************************************)
(* Four runs for one gateway name, one of them with inputs that are        *)
(* refused, so that three race or follow each other.                       *)
(***************************************************************************)
EXTENDS ApigwDeploy

CONSTANTS r1, r2, r3, r4

MCRuns == {r1, r2, r3, r4}
MCValid == {r1, r2, r3}

FirstPromise == INSTANCE DeployPromise
    WITH status <- Status(r1), deployed <- applied[r1] # None

(***************************************************************************)
(* A run of the apigw action reports success only when its specification   *)
(* has been put on the gateway, and it ends.  The other valid runs are     *)
(* alike.                                                                  *)
(***************************************************************************)
DeploysAsPromised == FirstPromise!Spec
=============================================================================
