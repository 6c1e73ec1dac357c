------------------------- MODULE MCContainerDeploy -------------------------
(***************************************************************************)
(* Two runs for one container name: refused inputs, private, public.       *)
(***************************************************************************)
EXTENDS ContainerDeploy

CONSTANTS r1, r2

MCRuns == {r1, r2}

MCInputs ==
    { [valid |-> FALSE, public |-> TRUE],
      [valid |-> TRUE,  public |-> FALSE],
      [valid |-> TRUE,  public |-> TRUE] }

FirstPromise == INSTANCE DeployPromise
    WITH status <- Status(r1), deployed <- revision[r1] # None

(***************************************************************************)
(* A run of the container action reports success only when its revision    *)
(* exists, and it ends.  Both runs take all inputs, so one stands for the  *)
(* other.                                                                  *)
(***************************************************************************)
DeploysAsPromised == FirstPromise!Spec
=============================================================================
