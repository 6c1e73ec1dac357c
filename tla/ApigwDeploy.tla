---------------------------- MODULE ApigwDeploy ----------------------------
(***************************************************************************)
(* Runs of the apigw action (cmd/apigw/main.go) for one gateway name: find *)
(* the gateway by name; create it with the specification, or update it;    *)
(* wait for the operation, which the cloud carries out on its own; set the *)
(* outputs.  A gateway is known by the run that asked for it.              *)
(***************************************************************************)
EXTENDS Naturals

CONSTANTS
    Runs,
    Valid,        \* runs whose inputs, credentials and specification are right
    Preexisting,  \* a gateway of the name that was there before all runs
    None

ASSUME ValidAssumption == Valid \subseteq Runs
ASSUME NamesAssumption ==
    /\ None \notin Runs \cup {Preexisting}
    /\ Preexisting \notin Runs
    /\ None \notin {"create", "update", "ready", "error"}

VARIABLES
    pc,         \* where a run is
    gatewayID,  \* gateway.ID of main
    output,     \* GATEWAY_ID as the workflow gets it
    gateway,    \* the gateway that has the name now
    spec,       \* whose specification a gateway serves
    applied,    \* history: the gateway that took a run's specification
    operation,  \* the operation a run asked for
    earlier     \* history: the runs that had succeeded when a run began

run == <<pc, gatewayID, output>>
cloud == <<gateway, spec, applied, operation>>
vars == <<pc, gatewayID, output, gateway, spec, applied, operation, earlier>>

Gateways == Runs \cup {Preexisting}
Running == {"list", "create", "update", "waitCreate", "waitUpdate"}
Ended == {"done", "failed", "killed"}

TypeOK ==
    /\ pc \in [Runs -> {"inputs"} \cup Running \cup Ended]
    /\ gatewayID \in [Runs -> Gateways \cup {None}]
    /\ output \in [Runs -> Gateways \cup {None}]
    /\ gateway \in Gateways \cup {None}
    /\ spec \in [Gateways -> Runs \cup {None}]
    /\ applied \in [Runs -> Gateways \cup {None}]
    /\ operation \in [Runs -> {None, "create", "update", "ready", "error"}]
    /\ earlier \in [Runs -> SUBSET Runs]

Init ==
    /\ pc = [r \in Runs |-> "inputs"]
    /\ gatewayID = [r \in Runs |-> None]
    /\ output = [r \in Runs |-> None]
    /\ gateway \in {None, Preexisting}
    /\ spec = [g \in Gateways |-> None]
    /\ applied = [r \in Runs |-> None]
    /\ operation = [r \in Runs |-> None]
    /\ earlier = [r \in Runs |-> {}]
-----------------------------------------------------------------------------
(***************************************************************************)
(* Faulty variants of the definitions below, for the mutation checks.      *)
(***************************************************************************)
\* The operation is not waited for.
NoWait(r) == operation[r] # "error"
\* The id of the operation is taken for the gateway's.
IdOfOperation(r) == [operationOf |-> r]
\* The id of the gateway found is forgotten when one is created.
IdOfList(r) == Preexisting
-----------------------------------------------------------------------------
Goto(r, label) == pc' = [pc EXCEPT ![r] = label]

Ask(r, what) == operation' = [operation EXCEPT ![r] = what]

AfterChecks(r) == IF r \in Valid THEN "list" ELSE "failed"

\* metaOp.Wait returned without an error.
Succeeded(r) == operation[r] = "ready"

\* createdGateway.Id, from the response of the operation.
CreatedID(r) == r

\* main: inputs, credentials, the specification file and its variables.
Start(r) ==
    /\ pc[r] = "inputs"
    /\ Goto(r, AfterChecks(r))
    /\ earlier' = [earlier EXCEPT ![r] = {s \in Runs : pc[s] = "done"}]
    /\ UNCHANGED <<gatewayID, output, cloud>>

ListGateways(r) ==
    /\ pc[r] = "list"
    /\ gatewayID' = [gatewayID EXCEPT ![r] = gateway]
    /\ Goto(r, IF gateway = None THEN "create" ELSE "update")
    /\ UNCHANGED <<output, cloud, earlier>>

\* The request is refused when the name has been taken since.
CreateGateway(r) ==
    /\ pc[r] = "create"
    /\ IF gateway = None
       THEN Ask(r, "create") /\ Goto(r, "waitCreate")
       ELSE Goto(r, "failed") /\ UNCHANGED operation
    /\ UNCHANGED <<gatewayID, output, gateway, spec, applied, earlier>>

\* The request is refused when the gateway has been deleted since.
UpdateGateway(r) ==
    /\ pc[r] = "update"
    /\ IF gateway = gatewayID[r]
       THEN Ask(r, "update") /\ Goto(r, "waitUpdate")
       ELSE Goto(r, "failed") /\ UNCHANGED operation
    /\ UNCHANGED <<gatewayID, output, gateway, spec, applied, earlier>>

GatewayCreated(r) ==
    /\ pc[r] = "waitCreate"
    /\ Succeeded(r)
    /\ gatewayID' = [gatewayID EXCEPT ![r] = CreatedID(r)]
    /\ output' = [output EXCEPT ![r] = CreatedID(r)]
    /\ Goto(r, "done")
    /\ UNCHANGED <<cloud, earlier>>

GatewayUpdated(r) ==
    /\ pc[r] = "waitUpdate"
    /\ Succeeded(r)
    /\ output' = [output EXCEPT ![r] = gatewayID[r]]
    /\ Goto(r, "done")
    /\ UNCHANGED <<gatewayID, cloud, earlier>>

OperationFailed(r) ==
    /\ pc[r] \in {"waitCreate", "waitUpdate"}
    /\ operation[r] = "error"
    /\ Goto(r, "failed")
    /\ UNCHANGED <<gatewayID, output, cloud, earlier>>

\* A request fails, or the process ends; an operation goes on all the same.
Breaks(r) ==
    /\ pc[r] \in Running
    /\ \E label \in {"failed", "killed"} : Goto(r, label)
    /\ UNCHANGED <<gatewayID, output, cloud, earlier>>

Run(r) ==
    \/ ListGateways(r) \/ CreateGateway(r) \/ UpdateGateway(r)
    \/ GatewayCreated(r) \/ GatewayUpdated(r) \/ OperationFailed(r)
-----------------------------------------------------------------------------
(***************************************************************************)
(* The cloud and its other clients.                                        *)
(***************************************************************************)
Apply(r, g) ==
    /\ spec' = [spec EXCEPT ![g] = r]
    /\ applied' = [applied EXCEPT ![r] = g]
    /\ Ask(r, "ready")

CarryOutCreate(r) ==
    /\ operation[r] = "create"
    /\ gateway = None
    /\ gateway' = r
    /\ Apply(r, r)
    /\ UNCHANGED <<run, earlier>>

CarryOutUpdate(r) ==
    /\ operation[r] = "update"
    /\ gateway = gatewayID[r]
    /\ Apply(r, gateway)
    /\ UNCHANGED <<run, gateway, earlier>>

CarryOutFails(r) ==
    /\ operation[r] \in {"create", "update"}
    /\ Ask(r, "error")
    /\ UNCHANGED <<run, gateway, spec, applied, earlier>>

DeleteGateway ==
    /\ gateway # None
    /\ gateway' = None
    /\ UNCHANGED <<run, spec, applied, operation, earlier>>

CarryOut(r) == CarryOutCreate(r) \/ CarryOutUpdate(r) \/ CarryOutFails(r)

Next ==
    \/ \E r \in Runs : Start(r) \/ Run(r) \/ Breaks(r) \/ CarryOut(r)
    \/ DeleteGateway

(***************************************************************************)
(* A process that was started goes on, and the cloud finishes every        *)
(* operation one way or the other; metaOp.Wait has no limit of its own.    *)
(***************************************************************************)
Spec ==
    /\ Init
    /\ [][Next]_vars
    /\ \A r \in Runs : WF_vars(Run(r)) /\ WF_vars(CarryOut(r))
-----------------------------------------------------------------------------
(***************************************************************************)
(* GATEWAY_ID of a run is the gateway that took the run's specification,   *)
(* not one that had the name before or after.                              *)
(***************************************************************************)
OutputIsServedGateway ==
    \A r \in Runs : output[r] # None => applied[r] = output[r]

(***************************************************************************)
(* Runs that follow each other are not undone: a gateway that has taken a  *)
(* run's specification never serves again that of a run that had succeeded *)
(* before that run began, whoever else races for the gateway, replaces it, *)
(* fails or is killed, because success waits for the operation             *)
(* (metaOp.Wait).  Runs that overlap, or that follow one that was killed   *)
(* while its operation went on, may be undone.                             *)
(***************************************************************************)
NoRollback ==
    \A r \in Runs :
       applied[r] # None => spec[applied[r]] \notin earlier[r]

\* What the workflow sees of a run.
Status(r) ==
    CASE pc[r] = "inputs" -> "idle"
      [] pc[r] \in Running -> "running"
      [] OTHER -> pc[r]
=============================================================================
