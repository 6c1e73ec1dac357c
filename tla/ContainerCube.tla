--------------------------- MODULE ContainerCube ---------------------------
(***************************************************************************)
(* A workflow whose first cube is the container action, followed over its  *)
(* data: the action parses its inputs (RevisionOptions), asks for a        *)
(* revision and sets its outputs (Outputs); the cubes after it set theirs  *)
(* and read those set before.  What the cloud makes of the request, and of *)
(* other runs, is in ContainerDeploy.                                      *)
(***************************************************************************)
EXTENDS RevisionOptions, Outputs

CONSTANT Scenarios   \* what varies together: inputs, cubes and failures

ASSUME ScenariosAssumption ==
    Scenarios \subseteq [environ : Environs, workflow : Workflows, failing : BOOLEAN]

cubeVars == <<parsing, writing>>

CubeTypeOK == OptionsTypeOK /\ OutputsTypeOK

CubeInit ==
    /\ \E s \in Scenarios :
          environ = s.environ /\ workflow = s.workflow /\ failing = s.failing
    /\ OptionsInit /\ OutputsInit
-----------------------------------------------------------------------------
(***************************************************************************)
(* A faulty variant of the definition below, for the mutation checks.      *)
(***************************************************************************)
\* The outputs are set before the inputs are looked at.
NoGuard == TRUE
-----------------------------------------------------------------------------
\* main of the first cube, up to the answer to its request.
Action ==
    /\ at.cube = 1
    /\ ParseRevOptions \/ CreateRevision
    /\ UNCHANGED writing

\* main sets the outputs once it has a revision.
HasRevision == parser = "sent"

SetOutputs ==
    /\ at.cube = 1 => HasRevision
    /\ NextOutput
    /\ UNCHANGED parsing

\* The process may be killed at any point, which ends its cube too.
CubeEnds == NextCube /\ UNCHANGED parsing

CubeNext == Action \/ SetOutputs \/ CubeEnds

CubeSpec == CubeInit /\ [][CubeNext]_cubeVars
-----------------------------------------------------------------------------
(***************************************************************************)
(* What does not parse is refused: no revision is asked for and no output  *)
(* is set unless all inputs of the run were understood, the last of them   *)
(* too (ParseRevOptions and its parsers, which SetFailed or return an      *)
(* error).                                                                 *)
(***************************************************************************)
RefusedUnlessUnderstood ==
    revision # Unset \/ (\E i \in DOMAIN calls : calls[i].of[1] = 1) => Understood
=============================================================================
