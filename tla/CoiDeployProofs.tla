-------------------------- MODULE CoiDeployProofs --------------------------
(***************************************************************************)
(* Proofs about CoiDeploy for any number of runs of any inputs, and that   *)
(* each run takes only the steps that DeployPromise allows.                *)
(***************************************************************************)
EXTENDS CoiDeploy, TLAPS

\* What has the name, holds a docker-compose file or a declaration, or was
\* found by a run has been there; a VM of a run is there by its operation.
Known ==
    /\ vm # None => vm \in existed
    /\ \A v \in VMs : compose[v] # None => v \in existed
    /\ \A r \in Runs : instanceID[r] \in VMs => instanceID[r] \in existed
    /\ declared \subseteq existed
    /\ \A r \in Runs : r \in existed => operation[r] = "ready"

\* The VM that a run updates, now or by an operation nobody waits for, is
\* the one whose metadata it has checked; a declaration there came later.
Checked ==
    \A r \in Runs :
       pc[r] = "update" \/ operation[r] = "update" =>
          /\ instanceID[r] \in VMs
          /\ HasChecked(r)
          /\ instanceID[r] \in declared => r \in overtaken

\* A run asks for one operation, when its inputs and files were all right,
\* and goes on only if it is done at once.
OperationAsked ==
    \A r \in Runs :
       /\ pc[r] \in Running => inputs[r].valid
       /\ pc[r] \in {"create", "update"} \/ operation[r] # None => inputs[r].files
       /\ operation[r] # None => inputs[r].valid
       /\ pc[r] \in {"inputs", "list", "announce", "check", "create", "update"} =>
             operation[r] = None
       /\ operation[r] \in {"create", "update"} => pc[r] \in {"failed", "killed"}
       /\ pc[r] \in {"get", "done"} => operation[r] = "ready"

\* What a run looks up is the id of an operation or of a VM it has updated.
LooksUp ==
    \A r \in Runs :
       /\ pc[r] \in {"check", "get"} => instanceID[r] # None
       /\ pc[r] = "check" => instanceID[r] \in VMs
       /\ pc[r] = "get" /\ instanceID[r] \in VMs => compose[instanceID[r]] # None
       /\ output[r].INSTANCE_ID # None => pc[r] = "done"

IInv ==
    /\ TypeOK /\ Known /\ Checked /\ OperationAsked /\ LooksUp
    /\ NoMetadataConflict /\ SuccessMeansUpdated /\ NothingOfRejected

\* Nothing is asked for at first.
LEMMA InitIInv == Init => IInv
<1> SUFFICES ASSUME Init PROVE IInv
    OBVIOUS
<1> USE NamesAssumption DEF Init, VMs, Running
<1>1. TypeOK
    BY DEF TypeOK
<1>2. Known /\ Checked /\ OperationAsked /\ LooksUp
    BY DEF Known, Checked, OperationAsked, LooksUp
<1>3. NoMetadataConflict /\ SuccessMeansUpdated /\ NothingOfRejected
    BY DEF NoMetadataConflict, SuccessMeansUpdated, NothingOfRejected
<1> QED
    BY <1>1, <1>2, <1>3 DEF IInv
-----------------------------------------------------------------------------
(***************************************************************************)
(* The steps of a run and of the cloud keep the invariant.                 *)
(***************************************************************************)
\* The checks of main.
LEMMA StartStep ==
    ASSUME IInv, NEW r \in Runs, Start(r)
    PROVE  IInv'
<1> USE NamesAssumption DEF IInv, Start, AfterChecks, cloud, Goto, VMs
<1>1. TypeOK'
    BY DEF TypeOK, Running, Ended
<1>2. Known' /\ Checked'
    BY DEF TypeOK, Known, Checked, LooksUp, HasChecked
<1>3. OperationAsked' /\ LooksUp'
    BY DEF TypeOK, OperationAsked, LooksUp, Running
<1>4. NoMetadataConflict' /\ SuccessMeansUpdated' /\ NothingOfRejected'
    BY DEF TypeOK, Known, OperationAsked, LooksUp, NoMetadataConflict, SuccessMeansUpdated,
           NothingOfRejected
<1> QED
    BY <1>1, <1>2, <1>3, <1>4

\* The VM is found or not.
LEMMA FindVMStep ==
    ASSUME IInv, NEW r \in Runs, FindVM(r)
    PROVE  IInv'
<1> USE NamesAssumption DEF IInv, FindVM, ByName, cloud, Goto, VMs
<1>1. TypeOK'
    BY DEF TypeOK, Running, Ended
<1>2. Known' /\ Checked'
    BY DEF TypeOK, Known, Checked, OperationAsked, HasChecked
<1>3. OperationAsked' /\ LooksUp'
    BY DEF TypeOK, OperationAsked, LooksUp, Running
<1>4. NoMetadataConflict' /\ SuccessMeansUpdated' /\ NothingOfRejected'
    BY DEF TypeOK, Known, OperationAsked, LooksUp, NoMetadataConflict, SuccessMeansUpdated,
           NothingOfRejected
<1> QED
    BY <1>1, <1>2, <1>3, <1>4

\* The run announces that it creates a VM.
LEMMA PrepareVMStep ==
    ASSUME IInv, NEW r \in Runs, PrepareVM(r)
    PROVE  IInv'
<1> USE NamesAssumption DEF IInv, PrepareVM, cloud, Goto, VMs
<1>1. TypeOK'
  <2> DEFINE type == [vmCreated : BOOLEAN, created : {"false", None},
                      INSTANCE_ID : VMs \cup {None}]
  <2>1. output[r] \in type
      BY DEF TypeOK
  <2>2. [output[r] EXCEPT !.vmCreated = TRUE] \in type
      BY <2>1
  <2>3. output' \in [Runs -> type]
      BY <2>2 DEF TypeOK
  <2> QED
      BY <2>3 DEF TypeOK, Running, Ended
<1>2. Known' /\ Checked'
    BY DEF TypeOK, Known, Checked, LooksUp, HasChecked
<1>3. OperationAsked' /\ LooksUp'
    BY DEF TypeOK, OperationAsked, LooksUp, Running
<1>4. NoMetadataConflict' /\ SuccessMeansUpdated' /\ NothingOfRejected'
    BY DEF TypeOK, Known, OperationAsked, LooksUp, NoMetadataConflict, SuccessMeansUpdated,
           NothingOfRejected
<1> QED
    BY <1>1, <1>2, <1>3, <1>4

\* The metadata are in conflict or not.
LEMMA CheckMetadataStep ==
    ASSUME IInv, NEW r \in Runs, CheckMetadata(r)
    PROVE  IInv'
<1> USE NamesAssumption DEF IInv, CheckMetadata, Conflict, cloud, Goto, VMs
<1>1. TypeOK'
  <2> DEFINE type == [vmCreated : BOOLEAN, created : {"false", None},
                      INSTANCE_ID : VMs \cup {None}]
  <2>1. output[r] \in type
      BY DEF TypeOK
  <2>2. [output[r] EXCEPT !.created = "false"] \in type
      BY <2>1
  <2>3. output' \in [Runs -> type]
      BY <2>2 DEF TypeOK
  <2> QED
      BY <2>3 DEF TypeOK, Running, Ended
<1>2. Known' /\ Checked'
    BY DEF TypeOK, Known, Checked, LooksUp, HasChecked
<1>3. OperationAsked' /\ LooksUp'
    BY DEF TypeOK, OperationAsked, LooksUp, Running
<1>4. NoMetadataConflict' /\ SuccessMeansUpdated' /\ NothingOfRejected'
    BY DEF TypeOK, Known, OperationAsked, LooksUp, NoMetadataConflict, SuccessMeansUpdated,
           NothingOfRejected
<1> QED
    BY <1>1, <1>2, <1>3, <1>4

\* The VM is not as it was when the run looked.
LEMMA RequestRefusedStep ==
    ASSUME IInv, NEW r \in Runs, RequestRefused(r)
    PROVE  IInv'
<1> USE NamesAssumption DEF IInv, RequestRefused, cloud, Goto, VMs
<1>1. TypeOK'
    BY DEF TypeOK, Running, Ended
<1>2. Known' /\ Checked'
    BY DEF TypeOK, Known, Checked, LooksUp, HasChecked
<1>3. OperationAsked' /\ LooksUp'
    BY DEF TypeOK, OperationAsked, LooksUp, Running
<1>4. NoMetadataConflict' /\ SuccessMeansUpdated' /\ NothingOfRejected'
    BY DEF TypeOK, Known, OperationAsked, LooksUp, NoMetadataConflict, SuccessMeansUpdated,
           NothingOfRejected
<1> QED
    BY <1>1, <1>2, <1>3, <1>4

\* The VM is asked for by the id the run has.
LEMMA GetInstanceStep ==
    ASSUME IInv, NEW r \in Runs, GetInstance(r)
    PROVE  IInv'
<1> USE NamesAssumption DEF IInv, GetInstance, cloud, Goto, VMs
<1>1. TypeOK'
    BY DEF TypeOK, Running, Ended
<1>2. Known' /\ Checked'
    BY DEF TypeOK, Known, Checked, LooksUp, HasChecked
<1>3. OperationAsked' /\ LooksUp'
    BY DEF TypeOK, OperationAsked, LooksUp, Running
<1>4. NoMetadataConflict' /\ SuccessMeansUpdated' /\ NothingOfRejected'
    BY DEF TypeOK, Known, OperationAsked, LooksUp, NoMetadataConflict, SuccessMeansUpdated,
           NothingOfRejected
<1> QED
    BY <1>1, <1>2, <1>3, <1>4

\* A request fails or the process ends.
LEMMA BreaksStep ==
    ASSUME IInv, NEW r \in Runs, Breaks(r)
    PROVE  IInv'
<1> USE NamesAssumption DEF IInv, Breaks, cloud, Goto, VMs
<1>1. TypeOK'
    BY DEF TypeOK, Running, Ended
<1>2. Known' /\ Checked'
    BY DEF TypeOK, Known, Checked, LooksUp, HasChecked
<1>3. OperationAsked' /\ LooksUp'
    BY DEF TypeOK, OperationAsked, LooksUp, Running
<1>4. NoMetadataConflict' /\ SuccessMeansUpdated' /\ NothingOfRejected'
    BY DEF TypeOK, Known, OperationAsked, LooksUp, NoMetadataConflict, SuccessMeansUpdated,
           NothingOfRejected
<1> QED
    BY <1>1, <1>2, <1>3, <1>4

\* The VM is made, at once or later: the run goes on to look it up under
\* the id of the operation, or has ended before.
LEMMA MakeVMStep ==
    ASSUME IInv, NEW r \in Runs, MakeVM(r),
           UNCHANGED <<inputs, output>>,
           \/ /\ pc[r] = "create"
              /\ instanceID' = [instanceID EXCEPT ![r] = InstanceIDFrom(r)]
              /\ Goto(r, "get")
           \/ operation[r] = "create" /\ UNCHANGED <<pc, instanceID>>
    PROVE  IInv'
<1> USE NamesAssumption DEF IInv, MakeVM, Goto, InstanceIDFrom, VMs
<1>1. TypeOK'
    BY DEF TypeOK, Running, Operations
<1>2. Known' /\ Checked'
  <2>1. Known'
      BY DEF TypeOK, Known, OperationAsked
  <2>2. Checked'
      BY DEF TypeOK, Checked, OperationAsked, HasChecked
  <2> QED
      BY <2>1, <2>2
<1>3. OperationAsked' /\ LooksUp'
    BY DEF TypeOK, OperationAsked, LooksUp, Running
<1>4. r \notin declared
    BY DEF Known, OperationAsked
<1>5. NoMetadataConflict'
    BY <1>4 DEF TypeOK, NoMetadataConflict
<1>6. SuccessMeansUpdated'
    BY DEF TypeOK, OperationAsked, LooksUp, SuccessMeansUpdated
<1>7. NothingOfRejected'
    BY DEF TypeOK, OperationAsked, Running, NothingOfRejected
<1> QED
    BY <1>1, <1>2, <1>3, <1>5, <1>6, <1>7

\* The docker-compose file is put on the VM the run has checked.
LEMMA PutMetadataStep ==
    ASSUME IInv, NEW r \in Runs, PutMetadata(r),
           UNCHANGED <<inputs, instanceID, output>>,
           \/ pc[r] = "update" /\ Goto(r, "get")
           \/ operation[r] = "update" /\ UNCHANGED pc
    PROVE  IInv'
<1> USE NamesAssumption DEF IInv, PutMetadata, Goto
<1>1. /\ vm = instanceID[r] /\ vm \in VMs /\ vm # None
      /\ vm \in declared => r \in overtaken
    BY DEF Checked, VMs
<1>2. TypeOK'
    BY <1>1 DEF TypeOK, Running
<1>3. Known' /\ Checked'
    BY <1>1 DEF TypeOK, Known, Checked, OperationAsked, HasChecked
<1>4. OperationAsked' /\ LooksUp'
    BY <1>1 DEF TypeOK, OperationAsked, LooksUp, Running, VMs
<1>5. NoMetadataConflict'
    BY <1>1 DEF TypeOK, NoMetadataConflict
<1>6. SuccessMeansUpdated'
    BY <1>1 DEF TypeOK, OperationAsked, LooksUp, SuccessMeansUpdated, VMs
<1>7. NothingOfRejected'
    BY <1>1 DEF TypeOK, OperationAsked, Running, NothingOfRejected
<1> QED
    BY <1>2, <1>3, <1>4, <1>5, <1>6, <1>7

\* The cloud has an operation under way, or gives it up; the run has ended.
LEMMA AcceptStep ==
    ASSUME IInv, NEW r \in Runs, NEW what \in {"create", "update", "error"}, Accept(r, what),
           UNCHANGED <<inputs, instanceID, output>>,
           \/ pc[r] \in {"create", "update"} /\ what = pc[r] /\ Goto(r, NotDone)
           \/ operation[r] \in {"create", "update"} /\ what = "error" /\ UNCHANGED pc
    PROVE  IInv'
<1> USE NamesAssumption DEF IInv, Accept, Goto, NotDone
<1>1. TypeOK'
    BY DEF TypeOK, Ended
<1>2. Known' /\ Checked'
    BY DEF TypeOK, Known, Checked, OperationAsked, HasChecked
<1>3. OperationAsked' /\ LooksUp'
    BY DEF TypeOK, OperationAsked, LooksUp, Running
<1>4. NoMetadataConflict' /\ SuccessMeansUpdated' /\ NothingOfRejected'
    BY DEF TypeOK, OperationAsked, LooksUp, NoMetadataConflict, SuccessMeansUpdated,
           NothingOfRejected
<1> QED
    BY <1>1, <1>2, <1>3, <1>4

\* The request for a VM, with or without an immediate answer.
LEMMA CreateInstanceStep ==
    ASSUME IInv, NEW r \in Runs, CreateInstance(r)
    PROVE  IInv'
<1>1. r \in DOMAIN operation
    BY DEF IInv, TypeOK
<1>2. CASE MakeVM(r)
  <2>1. Done(r)'
      BY <1>1, <1>2 DEF MakeVM, Done
  <2> QED
      BY <1>2, <2>1, MakeVMStep DEF CreateInstance
<1>3. CASE Accept(r, "create")
  <2>1. ~Done(r)'
      BY <1>1, <1>3 DEF Accept, Done
  <2> QED
      BY <1>3, <2>1, AcceptStep DEF CreateInstance
<1> QED
    BY <1>2, <1>3 DEF CreateInstance

\* The request for new metadata, with or without an immediate answer.
LEMMA UpdateMetadataStep ==
    ASSUME IInv, NEW r \in Runs, UpdateMetadata(r)
    PROVE  IInv'
<1>1. r \in DOMAIN operation
    BY DEF IInv, TypeOK
<1>2. CASE PutMetadata(r)
  <2>1. Done(r)'
      BY <1>1, <1>2 DEF PutMetadata, Done
  <2> QED
      BY <1>2, <2>1, PutMetadataStep DEF UpdateMetadata
<1>3. CASE Accept(r, "update")
  <2>1. ~Done(r)'
      BY <1>1, <1>3 DEF Accept, Done
  <2> QED
      BY <1>3, <2>1, AcceptStep DEF UpdateMetadata
<1> QED
    BY <1>2, <1>3 DEF UpdateMetadata

\* The cloud goes on with an operation nobody waits for.
LEMMA CarryOutStep ==
    ASSUME IInv, NEW r \in Runs, CarryOut(r)
    PROVE  IInv'
<1>1. CASE operation[r] = "create" /\ MakeVM(r)
    BY <1>1, MakeVMStep DEF CarryOut, run
<1>2. CASE operation[r] = "update" /\ PutMetadata(r)
    BY <1>2, PutMetadataStep DEF CarryOut, run
<1>3. CASE operation[r] \in {"create", "update"} /\ Accept(r, "error")
    BY <1>3, AcceptStep DEF CarryOut, run
<1> QED
    BY <1>1, <1>2, <1>3 DEF CarryOut

\* Others delete the VM, make their own, which no run can have checked, or
\* declare a container on it, which overtakes the runs that have.
LEMMA OthersStep ==
    ASSUME IInv, DeleteVM \/ CreateForeign \/ Declare \/ Undeclare
    PROVE  IInv'
<1> USE NamesAssumption DEF IInv, run
<1>1. CASE DeleteVM
    BY <1>1 DEF DeleteVM, TypeOK, Known, Checked, OperationAsked, LooksUp,
                HasChecked, NoMetadataConflict, SuccessMeansUpdated, NothingOfRejected
<1>2. CASE CreateForeign
  <2> USE <1>2 DEF CreateForeign
  <2>1. TypeOK'
      BY DEF TypeOK, VMs
  <2>2. Known' /\ Checked'
      BY DEF TypeOK, Known, Checked, HasChecked, VMs
  <2>3. OperationAsked' /\ LooksUp'
      BY DEF OperationAsked, LooksUp
  <2>4. compose[Foreign] = None
      BY DEF Known, VMs
  <2>5. NoMetadataConflict' /\ SuccessMeansUpdated' /\ NothingOfRejected'
      BY <2>4 DEF NoMetadataConflict, SuccessMeansUpdated, NothingOfRejected
  <2> QED
      BY <2>1, <2>2, <2>3, <2>5
<1>3. CASE Declare
  <2> USE <1>3 DEF Declare
  <2>1. TypeOK'
      BY DEF TypeOK
  <2>2. Known' /\ Checked'
      BY DEF TypeOK, Known, Checked, OperationAsked, HasChecked
  <2>3. OperationAsked' /\ LooksUp'
      BY DEF OperationAsked, LooksUp
  <2>4. NoMetadataConflict' /\ SuccessMeansUpdated' /\ NothingOfRejected'
      BY DEF TypeOK, NoMetadataConflict, SuccessMeansUpdated, NothingOfRejected
  <2> QED
      BY <2>1, <2>2, <2>3, <2>4
<1>4. CASE Undeclare
  <2> USE <1>4 DEF Undeclare
  <2>1. TypeOK' /\ Known' /\ Checked' /\ OperationAsked' /\ LooksUp'
      BY DEF TypeOK, Known, Checked, HasChecked, OperationAsked, LooksUp
  <2>2. NoMetadataConflict' /\ SuccessMeansUpdated' /\ NothingOfRejected'
      BY DEF NoMetadataConflict, SuccessMeansUpdated, NothingOfRejected
  <2> QED
      BY <2>1, <2>2
<1> QED
    BY <1>1, <1>2, <1>3, <1>4

\* Every step keeps the invariant.
LEMMA StepIInv == IInv /\ [Next]_vars => IInv'
<1> SUFFICES ASSUME IInv, [Next]_vars PROVE IInv'
    OBVIOUS
<1>1. ASSUME NEW r \in Runs, Start(r) \/ Run(r) \/ Breaks(r) \/ CarryOut(r)
      PROVE  IInv'
    BY <1>1, StartStep, FindVMStep, PrepareVMStep, CheckMetadataStep, CreateInstanceStep,
       UpdateMetadataStep, RequestRefusedStep, GetInstanceStep, BreaksStep, CarryOutStep
       DEF Run
<1>2. CASE UNCHANGED vars
    BY <1>2 DEF vars, IInv, TypeOK, Known, Checked, HasChecked, OperationAsked, LooksUp,
                NoMetadataConflict, SuccessMeansUpdated, NothingOfRejected
<1> QED
    BY <1>1, <1>2, OthersStep DEF Next
-----------------------------------------------------------------------------
(***************************************************************************)
(* What ties the runs, their operations and the VMs together.              *)
(***************************************************************************)
THEOREM DeployInvariant == Spec => []IInv
BY InitIInv, StepIInv, PTL DEF Spec

(***************************************************************************)
(* The types of the runs and the cloud (TypeOK).                           *)
(***************************************************************************)
THEOREM TypeCorrect == Spec => []TypeOK
<1>1. IInv => TypeOK
    BY DEF IInv
<1> QED
    BY <1>1, DeployInvariant, PTL

(***************************************************************************)
(* A docker-compose file is beside a declaration only if that was put      *)
(* there after the run had checked or made the VM (NoMetadataConflict).    *)
(***************************************************************************)
THEOREM ConflictCameLater == Spec => []NoMetadataConflict
<1>1. IInv => NoMetadataConflict
    BY DEF IInv
<1> QED
    BY <1>1, DeployInvariant, PTL

(***************************************************************************)
(* A run that reports success has put its docker-compose file on the VM    *)
(* whose id it puts out (SuccessMeansUpdated).                             *)
(***************************************************************************)
THEOREM SuccessIsUpdate == Spec => []SuccessMeansUpdated
<1>1. IInv => SuccessMeansUpdated
    BY DEF IInv
<1> QED
    BY <1>1, DeployInvariant, PTL

(***************************************************************************)
(* A run whose inputs or files are refused changes no VM, also by no       *)
(* operation that goes on after it has failed (NothingOfRejected).         *)
(***************************************************************************)
THEOREM RejectedLeavesNothing == Spec => []NothingOfRejected
<1>1. IInv => NothingOfRejected
    BY DEF IInv
<1> QED
    BY <1>1, DeployInvariant, PTL
-----------------------------------------------------------------------------
Promise(r) == INSTANCE DeployPromise
    WITH status <- Status(r), deployed <- operation[r] = "ready"

\* What a step does to one run: nothing, or it starts, goes on, fails,
\* succeeds with its operation done, or has it done.
LEMMA StepOfOne ==
    ASSUME IInv, [Next]_vars, NEW r \in Runs
    PROVE  LET same == (operation'[r] = "ready") = (operation[r] = "ready") IN
           \/ pc'[r] = pc[r] /\ same
           \/ pc[r] = "inputs" /\ pc'[r] \in {"list", "failed"} /\ same
           \/ pc[r] \in Running /\ pc'[r] \in Running \cup {"failed", "killed"} /\ same
           \/ pc[r] \in Running /\ pc'[r] = "done" /\ operation[r] = "ready" /\ same
           \/ /\ pc[r] # "inputs" /\ operation'[r] = "ready"
              /\ pc'[r] = pc[r] \/ (pc[r] \in Running /\ pc'[r] \in Running)
<1> USE NamesAssumption DEF IInv, TypeOK, Goto, cloud, run, Running
<1>1. ASSUME NEW s \in Runs, Start(s) \/ Breaks(s)
      PROVE  /\ UNCHANGED operation
             /\ \/ pc'[r] = pc[r]
                \/ pc[r] = "inputs" /\ pc'[r] \in {"list", "failed"}
                \/ pc[r] \in Running /\ pc'[r] \in {"failed", "killed"}
    BY <1>1 DEF Start, AfterChecks, Breaks
<1>2. ASSUME NEW s \in Runs,
             \/ FindVM(s) \/ PrepareVM(s) \/ CheckMetadata(s) \/ RequestRefused(s)
             \/ GetInstance(s)
      PROVE  /\ UNCHANGED operation
             /\ \/ pc'[r] = pc[r]
                \/ pc[r] \in Running /\ pc'[r] \in Running \cup {"failed"}
                \/ pc[r] \in Running /\ pc'[r] = "done" /\ operation[r] = "ready"
    BY <1>2 DEF FindVM, PrepareVM, CheckMetadata, RequestRefused, GetInstance, OperationAsked
<1>3. ASSUME NEW s \in Runs, CreateInstance(s) \/ UpdateMetadata(s)
      PROVE  \/ pc'[r] = pc[r] /\ operation'[r] = operation[r]
             \/ /\ pc[r] \in Running /\ pc'[r] \in Running
                /\ operation'[r] = "ready"
             \/ /\ pc[r] \in Running /\ pc'[r] = "failed"
                /\ operation[r] = None /\ operation'[r] # "ready"
    BY <1>3 DEF CreateInstance, UpdateMetadata, MakeVM, PutMetadata, Accept, Done, NotDone,
                OperationAsked
<1>4. ASSUME NEW s \in Runs, CarryOut(s)
      PROVE  /\ UNCHANGED pc
             /\ \/ operation'[r] = operation[r]
                \/ operation'[r] = "ready" /\ pc[r] # "inputs"
                \/ operation[r] \in {"create", "update"} /\ operation'[r] = "error"
    BY <1>4 DEF CarryOut, MakeVM, PutMetadata, Accept, OperationAsked
<1>5. CASE DeleteVM \/ CreateForeign \/ Declare \/ Undeclare \/ UNCHANGED vars
    BY <1>5 DEF DeleteVM, CreateForeign, Declare, Undeclare, vars
<1> QED
    BY <1>1, <1>2, <1>3, <1>4, <1>5 DEF Next, Run

(***************************************************************************)
(* The safety of DeployPromise for any run among any number: each step of  *)
(* the cloud and of all runs is a step of the promise or a stutter, so     *)
(* success is reported only when the run's operation was carried out.      *)
(***************************************************************************)
THEOREM KeepsPromise ==
    ASSUME NEW r \in Runs
    PROVE  Spec => Promise(r)!Init /\ [][Promise(r)!Next]_(Promise(r)!vars)
<1>1. Init => Promise(r)!Init
  <2> SUFFICES ASSUME Init PROVE Promise(r)!Init
      OBVIOUS
  <2>1. Status(r) = "idle"
      BY DEF Init, Status, Running
  <2>2. operation[r] = None /\ None # "ready"
      BY NamesAssumption DEF Init
  <2> QED
      BY <2>1, <2>2 DEF Promise!Init
<1>2. IInv /\ [Next]_vars => [Promise(r)!Next]_(Promise(r)!vars)
  <2> SUFFICES ASSUME IInv, [Next]_vars
               PROVE  [Promise(r)!Next]_(Promise(r)!vars)
      OBVIOUS
  <2> DEFINE same == (operation'[r] = "ready") = (operation[r] = "ready")
  <2> USE DEF Status, Running
  <2>1. CASE pc'[r] = pc[r] /\ same
      BY <2>1 DEF Promise!vars
  <2>2. CASE pc[r] = "inputs" /\ pc'[r] \in {"list", "failed"} /\ same
      BY <2>2 DEF Promise!Next, Promise!Start
  <2>3. CASE pc[r] \in Running /\ pc'[r] \in Running \cup {"failed", "killed"} /\ same
      BY <2>3 DEF Promise!Next, Promise!Fail, Promise!vars
  <2>4. CASE pc[r] \in Running /\ pc'[r] = "done" /\ operation[r] = "ready" /\ same
      BY <2>4 DEF Promise!Next, Promise!Succeed
  <2>5. CASE /\ pc[r] # "inputs" /\ operation'[r] = "ready"
             /\ pc'[r] = pc[r] \/ (pc[r] \in Running /\ pc'[r] \in Running)
    <3>1. Status(r) # "idle" /\ Status(r)' = Status(r)
        BY <2>5 DEF IInv, TypeOK, Ended
    <3> QED
        BY <2>5, <3>1, Zenon DEF Promise!Next, Promise!Deploy
  <2> QED
      BY StepOfOne, <2>1, <2>2, <2>3, <2>4, <2>5
<1> QED
    BY <1>1, <1>2, DeployInvariant, PTL DEF Spec
=============================================================================
