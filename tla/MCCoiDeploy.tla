---------------------------- MODULE MCCoiDeploy ----------------------------
(***************************************************************************)
(* Two runs for one VM name: refused inputs, files that cannot be read,    *)
(* and inputs that are all right.                                          *)
(***************************************************************************)
EXTENDS CoiDeploy

CONSTANTS r1, r2

MCRuns == {r1, r2}

MCInputs ==
    { [valid |-> FALSE, files |-> TRUE],
      [valid |-> TRUE,  files |-> FALSE],
      [valid |-> TRUE,  files |-> TRUE] }

FirstPromise == INSTANCE DeployPromise
    WITH status <- Status(r1), deployed <- operation[r1] = "ready"

(***************************************************************************)
(* A run of the coi action reports success only when its operation has     *)
(* been carried out, and it ends.  Both runs take all inputs, so one       *)
(* stands for the other.                                                   *)
(***************************************************************************)
DeploysAsPromised == FirstPromise!Spec
=============================================================================
