----------------------------- MODULE CoiDeploy -----------------------------
(***************************************************************************)
(* Runs of the coi action (cmd/coi/main.go) for one VM name: find the VM;  *)
(* create it, or check its metadata and put the new docker-compose file    *)
(* there.  Unlike the other actions this one does not wait: an operation   *)
(* that is not done in the first answer ends the run, and the cloud goes   *)
(* on with it.  A VM is known by the run that asked for it, an operation   *)
(* by a record of its run: operations and VMs have different ids.          *)
(***************************************************************************)
EXTENDS Naturals

CONSTANTS
    Runs,
    Inputs,       \* do the inputs of a run pass the checks, can its files be read
    Preexisting,  \* a VM of the name that was there before all runs
    Foreign,      \* a VM that somebody else creates under the name
    None

ASSUME InputsAssumption == Inputs \subseteq [valid : BOOLEAN, files : BOOLEAN]
ASSUME NamesAssumption ==
    /\ None \notin Runs \cup {Preexisting, Foreign}
    /\ Preexisting \notin Runs \cup {Foreign}
    /\ Foreign \notin Runs
    /\ None \notin {"create", "update", "ready", "error"}
    /\ \A r \in Runs : [operationOf |-> r] \notin Runs \cup {Preexisting, Foreign, None}

VARIABLES
    inputs,      \* the inputs of every run
    pc,          \* where a run is
    instanceID,  \* the VM id a run works with
    output,      \* VM_CREATED, "created" and INSTANCE_ID of the workflow
    vm,          \* the VM that has the name now
    compose,     \* the run whose docker-compose file a VM's metadata holds
    declared,    \* VMs whose metadata hold a docker-container-declaration
    operation,   \* the operation a run has asked for
    existed,     \* history: the VMs of the name there have been
    overtaken    \* history: runs whose VM another client has declared a
                 \* container on since they checked or made it

run == <<inputs, pc, instanceID, output>>
cloud == <<vm, compose, declared, operation, existed, overtaken>>
vars == <<inputs, pc, instanceID, output, vm, compose, declared, operation, existed,
          overtaken>>

VMs == Runs \cup {Preexisting, Foreign}
Operations == {[operationOf |-> r] : r \in Runs}
Running == {"list", "announce", "create", "check", "update", "get"}
Ended == {"done", "failed", "killed"}

TypeOK ==
    /\ inputs \in [Runs -> Inputs]
    /\ pc \in [Runs -> {"inputs"} \cup Running \cup Ended]
    /\ instanceID \in [Runs -> VMs \cup Operations \cup {None}]
    /\ output \in [Runs -> [vmCreated : BOOLEAN, created : {"false", None},
                            INSTANCE_ID : VMs \cup {None}]]
    /\ vm \in VMs \cup {None}
    /\ compose \in [VMs -> Runs \cup {None}]
    /\ declared \subseteq VMs
    /\ operation \in [Runs -> {None, "create", "update", "ready", "error"}]
    /\ existed \subseteq VMs
    /\ overtaken \subseteq Runs

Init ==
    /\ inputs \in [Runs -> Inputs]
    /\ pc = [r \in Runs |-> "inputs"]
    /\ instanceID = [r \in Runs |-> None]
    /\ output = [r \in Runs |->
                    [vmCreated |-> FALSE, created |-> None, INSTANCE_ID |-> None]]
    /\ vm \in {None, Preexisting}
    /\ compose = [v \in VMs |-> None]
    /\ existed = {vm} \ {None}
    /\ declared \in SUBSET existed
    /\ operation = [r \in Runs |-> None]
    /\ overtaken = {}
-----------------------------------------------------------------------------
(***************************************************************************)
(* Faulty variants of the definitions below, for the mutation checks.      *)
(***************************************************************************)
\* The metadata of the VM are not looked at.
NoConflict(v) == FALSE
\* An operation is taken for done when it was accepted.
TakenForDone(r) == operation[r] # "error"
\* An operation that is not done is asked for again.
RetriesForEver == "check"
\* Nobody handles an operation that is not done.
Unhandled == "notDone"
-----------------------------------------------------------------------------
Goto(r, label) == pc' = [pc EXCEPT ![r] = label]

\* findVM
ByName == vm

\* detectMetadataConflict
Conflict(v) == v \in declared

\* op.Done in the first answer.
Done(r) == operation[r] = "ready"

\* instanceID := op.GetId(): the id of the operation.
InstanceIDFrom(r) == [operationOf |-> r]

AfterChecks(r) == IF inputs[r].valid THEN "list" ELSE "failed"

\* "operation is not done"
NotDone == "failed"

\* main: inputs, credentials, service account.
Start(r) ==
    /\ pc[r] = "inputs"
    /\ Goto(r, AfterChecks(r))
    /\ UNCHANGED <<inputs, instanceID, output, cloud>>

FindVM(r) ==
    /\ pc[r] = "list"
    /\ instanceID' = [instanceID EXCEPT ![r] = ByName]
    /\ Goto(r, IF ByName = None THEN "announce" ELSE "check")
    /\ UNCHANGED <<inputs, output, cloud>>

\* createVM up to the request: VM_CREATED is put out first.
PrepareVM(r) ==
    /\ pc[r] = "announce"
    /\ output' = [output EXCEPT ![r].vmCreated = TRUE]
    /\ Goto(r, IF inputs[r].files THEN "create" ELSE "failed")
    /\ UNCHANGED <<inputs, instanceID, cloud>>

CheckMetadata(r) ==
    /\ pc[r] = "check"
    /\ IF instanceID[r] # vm \/ Conflict(instanceID[r])
       THEN Goto(r, "failed") /\ UNCHANGED output
       ELSE /\ output' = [output EXCEPT ![r].created = "false"]
            /\ Goto(r, IF inputs[r].files THEN "update" ELSE "failed")
    /\ UNCHANGED <<inputs, instanceID, cloud>>

(***************************************************************************)
(* The cloud's part of an operation, with or without an immediate answer.  *)
(***************************************************************************)
MakeVM(r) ==
    /\ vm = None
    /\ vm' = r
    /\ compose' = [compose EXCEPT ![r] = r]
    /\ existed' = existed \cup {r}
    /\ operation' = [operation EXCEPT ![r] = "ready"]
    /\ UNCHANGED <<declared, overtaken>>

PutMetadata(r) ==
    /\ vm = instanceID[r]
    /\ compose' = [compose EXCEPT ![vm] = r]
    /\ operation' = [operation EXCEPT ![r] = "ready"]
    /\ UNCHANGED <<vm, declared, existed, overtaken>>

Accept(r, what) ==
    /\ operation' = [operation EXCEPT ![r] = what]
    /\ UNCHANGED <<vm, compose, declared, existed, overtaken>>

\* instanceService.Create, the test of op.Done, and the id for what follows.
CreateInstance(r) ==
    /\ pc[r] = "create"
    /\ MakeVM(r) \/ (vm = None /\ Accept(r, "create"))
    /\ IF Done(r)'
       THEN /\ instanceID' = [instanceID EXCEPT ![r] = InstanceIDFrom(r)]
            /\ Goto(r, "get")
       ELSE Goto(r, NotDone) /\ UNCHANGED instanceID
    /\ UNCHANGED <<inputs, output>>

UpdateMetadata(r) ==
    /\ pc[r] = "update"
    /\ PutMetadata(r) \/ (vm = instanceID[r] /\ Accept(r, "update"))
    /\ Goto(r, IF Done(r)' THEN "get" ELSE NotDone)
    /\ UNCHANGED <<inputs, instanceID, output>>

\* The name is taken by now, or the VM is gone: the request is refused.
RequestRefused(r) ==
    /\ \/ pc[r] = "create" /\ vm # None
       \/ pc[r] = "update" /\ vm # instanceID[r]
    /\ Goto(r, "failed")
    /\ UNCHANGED <<inputs, instanceID, output, cloud>>

\* instanceService.Get and setOutputs; there may be no VM of that id.
GetInstance(r) ==
    /\ pc[r] = "get"
    /\ IF instanceID[r] = vm
       THEN /\ output' = [output EXCEPT ![r].INSTANCE_ID = instanceID[r]]
            /\ Goto(r, "done")
       ELSE Goto(r, "failed") /\ UNCHANGED output
    /\ UNCHANGED <<inputs, instanceID, cloud>>

\* A request fails, or the process ends.
Breaks(r) ==
    /\ pc[r] \in Running
    /\ \E label \in {"failed", "killed"} : Goto(r, label)
    /\ UNCHANGED <<inputs, instanceID, output, cloud>>

Run(r) ==
    \/ FindVM(r) \/ PrepareVM(r) \/ CreateInstance(r)
    \/ CheckMetadata(r) \/ UpdateMetadata(r) \/ RequestRefused(r)
    \/ GetInstance(r)
-----------------------------------------------------------------------------
(***************************************************************************)
(* The cloud goes on with operations nobody waits for, and has other       *)
(* clients: one may delete the VM and make its own under the name, or      *)
(* change the metadata of a VM at any time.                                *)
(***************************************************************************)
CarryOut(r) ==
    /\ \/ operation[r] = "create" /\ MakeVM(r)
       \/ operation[r] = "update" /\ PutMetadata(r)
       \/ operation[r] \in {"create", "update"} /\ Accept(r, "error")
    /\ UNCHANGED run

DeleteVM ==
    /\ vm # None
    /\ vm' = None
    /\ UNCHANGED <<run, compose, declared, operation, existed, overtaken>>

CreateForeign ==
    /\ vm = None
    /\ Foreign \notin existed
    /\ vm' = Foreign
    /\ existed' = existed \cup {Foreign}
    /\ declared' \in {declared, declared \cup {Foreign}}
    /\ UNCHANGED <<run, compose, operation, overtaken>>

\* The run has seen that the metadata of its VM hold no declaration.
HasChecked(r) == output[r].created = "false"

Declare ==
    /\ vm # None
    /\ vm \notin declared
    /\ declared' = declared \cup {vm}
    /\ overtaken' = overtaken \cup
          {r \in Runs : compose[vm] = r \/ (instanceID[r] = vm /\ HasChecked(r))}
    /\ UNCHANGED <<run, vm, compose, operation, existed>>

Undeclare ==
    /\ vm \in declared
    /\ declared' = declared \ {vm}
    /\ UNCHANGED <<run, vm, compose, operation, existed, overtaken>>

Next ==
    \/ \E r \in Runs : Start(r) \/ Run(r) \/ Breaks(r) \/ CarryOut(r)
    \/ DeleteVM
    \/ CreateForeign
    \/ Declare
    \/ Undeclare

(***************************************************************************)
(* A process that was started goes on: requests are answered or fail.      *)
(* Nothing is assumed of the operations.                                   *)
(***************************************************************************)
Spec == Init /\ [][Next]_vars /\ \A r \in Runs : WF_vars(Run(r))
-----------------------------------------------------------------------------
(***************************************************************************)
(* A VM has a docker-compose file beside a docker-container-declaration    *)
(* only if another client declared the container after the run whose file  *)
(* it is had checked the VM or made it: between the check and the update   *)
(* nothing holds the metadata, and an operation nobody waits for may be    *)
(* carried out much later; but no conflict that detectMetadataConflict     *)
(* could see is passed over, though VMs are replaced and changed.          *)
(***************************************************************************)
NoMetadataConflict == \A v \in declared : compose[v] \in overtaken \cup {None}

(***************************************************************************)
(* A run that reports success puts out an INSTANCE_ID, and INSTANCE_ID is  *)
(* a VM that had the name and on which the run's own operation has put its *)
(* docker-compose file; another run may have put its own there since.      *)
(***************************************************************************)
SuccessMeansUpdated ==
    \A r \in Runs :
       /\ pc[r] = "done" => output[r].INSTANCE_ID # None
       /\ output[r].INSTANCE_ID # None =>
             /\ output[r].INSTANCE_ID \in existed
             /\ compose[output[r].INSTANCE_ID] # None
             /\ operation[r] = "ready"

(***************************************************************************)
(* A run whose inputs or files are refused changes no VM.                  *)
(***************************************************************************)
NothingOfRejected ==
    \A r \in Runs :
       ~inputs[r].valid \/ ~inputs[r].files =>
          r \notin existed /\ \A v \in VMs : compose[v] # r

(***************************************************************************)
(* "Get instance ID directly from the operation" (main.go:241): what       *)
(* createVM looks up after the creation is the VM that was created.        *)
(***************************************************************************)
LooksUpCreatedVM ==
    \A r \in Runs : pc[r] = "get" /\ output[r].vmCreated => instanceID[r] = r

\* What the workflow sees of a run.
Status(r) ==
    CASE pc[r] = "inputs" -> "idle"
      [] pc[r] \in Running -> "running"
      [] OTHER -> pc[r]
=============================================================================
