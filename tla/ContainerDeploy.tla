-------------------------- MODULE ContainerDeploy --------------------------
(***************************************************************************)
(* Runs of the container action (cmd/container/main.go) for one container  *)
(* name: find the container or create it, deploy a revision, set the       *)
(* outputs, make the container public if asked to.  Every request starts   *)
(* an operation that the cloud carries out on its own and the run waits    *)
(* for.  A container and a revision are known by the run that asked for    *)
(* them.                                                                   *)
(***************************************************************************)
EXTENDS Naturals

CONSTANTS
    Runs,
    Inputs,       \* do the inputs of a run parse, is PUBLIC set
    Preexisting,  \* a container of the name that was there before all runs
    Elsewhere,    \* a container of another name
    Stranger,     \* a subject that somebody else allowed to invoke
    None

ASSUME InputsAssumption == Inputs \subseteq [valid : BOOLEAN, public : BOOLEAN]
ASSUME NamesAssumption ==
    /\ None \notin Runs \cup {Preexisting, Elsewhere}
    /\ Preexisting \notin Runs \cup {Elsewhere}
    /\ Elsewhere \notin Runs
    /\ None \notin {"create", "deploy", "publish", "ready", "error"}
    /\ Stranger # "allUsers"

VARIABLES
    inputs,       \* the inputs of every run
    pc,           \* where a run is
    containerID,  \* containerID of main
    output,       \* CONTAINER_ID and REVISION_ID as the workflow gets them
    container,    \* the container that has the name now
    revision,     \* the container that the revision of a run went to
    invokers,     \* who may invoke a container
    operation,    \* the operation a run asked for last
    existed,      \* history: the containers of the name there have been
    opened        \* history: the container that the publication of a run opened

run == <<inputs, pc, containerID, output>>
vars == <<inputs, pc, containerID, output, container, revision, invokers,
          operation, existed, opened>>

AllUsers == "allUsers"
Named == Runs \cup {Preexisting}
Containers == Named \cup {Elsewhere}
Running == {"list", "create", "waitCreate", "deploy", "waitDeploy",
            "publish", "waitPublish"}
Ended == {"done", "failed", "killed"}

TypeOK ==
    /\ inputs \in [Runs -> Inputs]
    /\ pc \in [Runs -> {"inputs"} \cup Running \cup Ended]
    /\ containerID \in [Runs -> Named \cup {None}]
    /\ output \in [Runs -> [CONTAINER_ID : Named \cup {None},
                            REVISION_ID : Runs \cup {None}]]
    /\ container \in Named \cup {None}
    /\ revision \in [Runs -> Containers \cup {None}]
    /\ invokers \in [Containers -> SUBSET {AllUsers, Stranger}]
    /\ operation \in [Runs -> {None, "create", "deploy", "publish", "ready", "error"}]
    /\ existed \subseteq Named
    /\ opened \in [Runs -> Containers \cup {None}]

Init ==
    /\ inputs \in [Runs -> Inputs]
    /\ pc = [r \in Runs |-> "inputs"]
    /\ containerID = [r \in Runs |-> None]
    /\ output = [r \in Runs |-> [CONTAINER_ID |-> None, REVISION_ID |-> None]]
    /\ container \in {None, Preexisting}
    /\ revision = [r \in Runs |-> None]
    /\ invokers = [c \in Containers |-> IF c = Preexisting THEN {Stranger} ELSE {}]
    /\ operation = [r \in Runs |-> None]
    /\ existed = {container} \ {None}
    /\ opened = [r \in Runs |-> None]
-----------------------------------------------------------------------------
(***************************************************************************)
(* Faulty variants of the definitions below, for the mutation checks.      *)
(***************************************************************************)
\* The error of the publication is logged only, as the outputs are set.
PublishErrorLogged(r) == IF pc[r] = "waitPublish" THEN "done" ELSE "failed"
\* A container that is there is made public before it has the revision.
PublishFound(r) ==
    CASE container = None -> "create"
      [] container # None /\ inputs[r].public -> "publish"
      [] container # None /\ ~inputs[r].public -> "deploy"
\* The operation is not waited for.
NoWait(r) == operation[r] # "error"
\* Wait does not see that an operation has ended.
NeverSucceeds(r) == FALSE
\* A container is looked for under another name.
OtherName == IF container = None THEN None ELSE Elsewhere
-----------------------------------------------------------------------------
Goto(r, label) == pc' = [pc EXCEPT ![r] = label]

Ask(r, what) == operation' = [operation EXCEPT ![r] = what]

\* op.Wait returned without an error.
Succeeded(r) == operation[r] = "ready"

\* findContainerByName
ByName == container

\* The id in the answer to the create operation.
CreatedID(r) == r

\* options.ContainerID: no code sets it, so the request names no container.
RequestContainer(r) == None

AfterChecks(r) == IF inputs[r].valid THEN "list" ELSE "failed"

AfterSearch(r) == IF ByName = None THEN "create" ELSE "deploy"

AfterRevision(r) == IF inputs[r].public THEN "publish" ELSE "done"

\* main calls SetFailed on the error of any step, though outputs are set.
OnOperationError(r) == "failed"

\* main: inputs, credentials and the revision options are checked.
Start(r) ==
    /\ pc[r] = "inputs"
    /\ Goto(r, AfterChecks(r))
    /\ UNCHANGED <<inputs, containerID, output, container, revision, invokers,
                   operation, existed, opened>>

FindContainer(r) ==
    /\ pc[r] = "list"
    /\ containerID' = [containerID EXCEPT ![r] = ByName]
    /\ Goto(r, AfterSearch(r))
    /\ UNCHANGED <<inputs, output, container, revision, invokers, operation,
                   existed, opened>>

\* The name may have been taken since it was looked for.
CreateContainer(r) ==
    /\ pc[r] = "create"
    /\ IF container = None
       THEN Ask(r, "create") /\ Goto(r, "waitCreate")
       ELSE Goto(r, "failed") /\ UNCHANGED operation
    /\ UNCHANGED <<inputs, containerID, output, container, revision, invokers,
                   existed, opened>>

ContainerCreated(r) ==
    /\ pc[r] = "waitCreate"
    /\ Succeeded(r)
    /\ containerID' = [containerID EXCEPT ![r] = CreatedID(r)]
    /\ Goto(r, "deploy")
    /\ UNCHANGED <<inputs, output, container, revision, invokers, operation,
                   existed, opened>>

DeployRevision(r) ==
    /\ pc[r] = "deploy"
    /\ Ask(r, "deploy")
    /\ Goto(r, "waitDeploy")
    /\ UNCHANGED <<inputs, containerID, output, container, revision, invokers,
                   existed, opened>>

RevisionDeployed(r) ==
    /\ pc[r] = "waitDeploy"
    /\ Succeeded(r)
    /\ output' = [output EXCEPT ![r] =
                     [CONTAINER_ID |-> containerID[r], REVISION_ID |-> r]]
    /\ Goto(r, AfterRevision(r))
    /\ UNCHANGED <<inputs, containerID, container, revision, invokers,
                   operation, existed, opened>>

\* makeContainerPublic
SetAccessBindings(r) ==
    /\ pc[r] = "publish"
    /\ Ask(r, "publish")
    /\ Goto(r, "waitPublish")
    /\ UNCHANGED <<inputs, containerID, output, container, revision, invokers,
                   existed, opened>>

Published(r) ==
    /\ pc[r] = "waitPublish"
    /\ Succeeded(r)
    /\ Goto(r, "done")
    /\ UNCHANGED <<inputs, containerID, output, container, revision, invokers,
                   operation, existed, opened>>

\* The operation a run waits for has failed.
OperationFailed(r) ==
    /\ pc[r] \in {"waitCreate", "waitDeploy", "waitPublish"}
    /\ operation[r] = "error"
    /\ Goto(r, OnOperationError(r))
    /\ UNCHANGED <<inputs, containerID, output, container, revision, invokers,
                   operation, existed, opened>>

\* A request fails, or the process ends; an operation goes on all the same.
Breaks(r) ==
    /\ pc[r] \in Running
    /\ \E label \in {"failed", "killed"} : Goto(r, label)
    /\ UNCHANGED <<inputs, containerID, output, container, revision, invokers,
                   operation, existed, opened>>

Run(r) ==
    \/ FindContainer(r) \/ CreateContainer(r) \/ ContainerCreated(r)
    \/ DeployRevision(r) \/ RevisionDeployed(r)
    \/ SetAccessBindings(r) \/ Published(r) \/ OperationFailed(r)
-----------------------------------------------------------------------------
(***************************************************************************)
(* The cloud and its other clients.  What it does with a revision for no   *)
(* container is not known here: refuse it, or choose a container.          *)
(***************************************************************************)
CarryOutCreate(r) ==
    /\ operation[r] = "create"
    /\ container = None
    /\ container' = r
    /\ existed' = existed \cup {r}
    /\ Ask(r, "ready")
    /\ UNCHANGED <<run, revision, invokers, opened>>

Targets(r) ==
    IF RequestContainer(r) = None
    THEN {container, Elsewhere} \ {None}
    ELSE {RequestContainer(r)} \cap {container}

CarryOutDeploy(r) ==
    /\ operation[r] = "deploy"
    /\ \E c \in Targets(r) : revision' = [revision EXCEPT ![r] = c]
    /\ Ask(r, "ready")
    /\ UNCHANGED <<run, container, invokers, existed, opened>>

\* The bindings are set anew: who was allowed before is not any more.
CarryOutPublish(r) ==
    /\ operation[r] = "publish"
    /\ containerID[r] = container
    /\ invokers' = [invokers EXCEPT ![containerID[r]] = {AllUsers}]
    /\ opened' = [opened EXCEPT ![r] = containerID[r]]
    /\ Ask(r, "ready")
    /\ UNCHANGED <<run, container, revision, existed>>

CarryOutFails(r) ==
    /\ operation[r] \in {"create", "deploy", "publish"}
    /\ Ask(r, "error")
    /\ UNCHANGED <<run, container, revision, invokers, existed, opened>>

DeleteContainer ==
    /\ container # None
    /\ container' = None
    /\ UNCHANGED <<run, revision, invokers, operation, existed, opened>>

\* Somebody allows another to invoke the container.
AllowInvoker ==
    /\ container # None
    /\ Stranger \notin invokers[container]
    /\ invokers' = [invokers EXCEPT ![container] = @ \cup {Stranger}]
    /\ UNCHANGED <<run, container, revision, operation, existed, opened>>

\* Somebody takes an invoker away, all users included.
RevokeInvoker ==
    /\ container # None
    /\ \E x \in invokers[container] :
          invokers' = [invokers EXCEPT ![container] = @ \ {x}]
    /\ UNCHANGED <<run, container, revision, operation, existed, opened>>

CarryOut(r) ==
    \/ CarryOutCreate(r) \/ CarryOutDeploy(r) \/ CarryOutPublish(r)
    \/ CarryOutFails(r)

Next ==
    \/ \E r \in Runs : Start(r) \/ Run(r) \/ Breaks(r) \/ CarryOut(r)
    \/ DeleteContainer
    \/ AllowInvoker
    \/ RevokeInvoker

(***************************************************************************)
(* A process that was started goes on, and the cloud finishes every        *)
(* operation one way or the other; op.Wait has no limit of its own.        *)
(***************************************************************************)
Spec ==
    /\ Init
    /\ [][Next]_vars
    /\ \A r \in Runs : WF_vars(Run(r)) /\ WF_vars(CarryOut(r))
-----------------------------------------------------------------------------
(***************************************************************************)
(* The outputs of a run name a container that had the name, and a revision *)
(* that was deployed, even when making it public fails afterwards.         *)
(***************************************************************************)
OutputsTruthful ==
    \A r \in Runs :
       output[r].REVISION_ID # None =>
          /\ output[r].CONTAINER_ID \in existed
          /\ revision[output[r].REVISION_ID] # None

(***************************************************************************)
(* A container is open to all users only if a run was asked to publish it, *)
(* and not before that run has deployed its revision (order of main).      *)
(***************************************************************************)
OpenOnlyIfAsked ==
    \A c \in Containers :
       AllUsers \in invokers[c] =>
          \E r \in Runs : /\ inputs[r].public
                          /\ containerID[r] = c
                          /\ revision[r] # None

(***************************************************************************)
(* A run that was asked to publish succeeds only if the container it put   *)
(* out was opened by its own operation.  The outputs are set before that   *)
(* (main.go:415-431), so a workflow sees them also when the publication    *)
(* fails, is never carried out, or finds the container deleted: then the   *)
(* run must fail.  Others may have shut the container again since.         *)
(***************************************************************************)
DoneMeansOpened ==
    \A r \in Runs :
       pc[r] = "done" /\ inputs[r].public =>
          /\ opened[r] # None
          /\ opened[r] = output[r].CONTAINER_ID

(***************************************************************************)
(* "createRevision creates a new revision for a container." (main.go:25):  *)
(* the request names the container that main found or created.             *)
(***************************************************************************)
RequestNamesContainer ==
    \A r \in Runs : operation[r] = "deploy" => RequestContainer(r) = containerID[r]

\* What the workflow sees of a run.
Status(r) ==
    CASE pc[r] = "inputs" -> "idle"
      [] pc[r] \in Running -> "running"
      [] OTHER -> pc[r]
=============================================================================
