-------------------------- MODULE MCFunctionDeploy --------------------------
(***************************************************************************)
(* Two runs for one function and two commits.  The inputs are those that   *)
(* differ for the code: refused; complete with and without a package       *)
(* bucket; no commit; a request that cannot be made.                       *)
(***************************************************************************)
EXTENDS FunctionDeploy

CONSTANTS r1, r2, c1, c2

MCRuns == {r1, r2}
MCCommits == {c1, c2}

MCInputs ==
    { [valid |-> FALSE, bucket |-> TRUE,  sha |-> c1,    complete |-> TRUE],
      [valid |-> TRUE,  bucket |-> TRUE,  sha |-> c1,    complete |-> TRUE],
      [valid |-> TRUE,  bucket |-> TRUE,  sha |-> c2,    complete |-> TRUE],
      [valid |-> TRUE,  bucket |-> TRUE,  sha |-> NoSha, complete |-> TRUE],
      [valid |-> TRUE,  bucket |-> FALSE, sha |-> c1,    complete |-> TRUE],
      [valid |-> TRUE,  bucket |-> FALSE, sha |-> c1,    complete |-> FALSE] }

FirstPromise == INSTANCE DeployPromise
    WITH status <- Status(r1), deployed <- version[r1] # NoVersion

(***************************************************************************)
(* A run of the function action keeps what a deploying action promises:    *)
(* it reports success only when its version exists, and it ends.  Both     *)
(* runs take all inputs, so one stands for the other.                      *)
(***************************************************************************)
DeploysAsPromised == FirstPromise!Spec
=============================================================================
