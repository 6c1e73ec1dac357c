----------------------- MODULE ContainerDeployProofs -----------------------
(***************************************************************************)
(* Proofs about ContainerDeploy for any number of runs of any inputs, and  *)
(* that each run takes only the steps that DeployPromise allows.           *)
(***************************************************************************)
EXTENDS ContainerDeploy, TLAPS

Early == {"inputs", "list", "create", "waitCreate"}
Deployed == {"publish", "waitPublish", "done"}

\* Main knows its container from the search or the creation on, and then
\* it has been there; what has the name has been there too.
ContainerKnown ==
    /\ container # None => container \in existed
    /\ \A r \in Runs :
          /\ containerID[r] # None => containerID[r] \in existed
          /\ pc[r] \in {"deploy", "waitDeploy"} \cup Deployed => containerID[r] # None
          /\ pc[r] = "waitCreate" /\ operation[r] = "ready" => r \in existed

\* Operations are asked for in their order, each when the one before is done.
OperationAsked ==
    \A r \in Runs :
       /\ pc[r] \in {"waitDeploy", "waitPublish"} => operation[r] # "create"
       /\ operation[r] \in {"deploy", "publish"} => pc[r] \notin Early
       /\ operation[r] = "deploy" => pc[r] # "waitPublish"
       /\ operation[r] = "publish" =>
             /\ inputs[r].public
             /\ containerID[r] # None
             /\ revision[r] # None
             /\ pc[r] \in {"waitPublish", "failed", "killed"}
       /\ pc[r] \in {"publish", "waitPublish"} => inputs[r].public

\* A revision is there before the run goes on, and not before it is asked for.
RevisionMade ==
    \A r \in Runs :
       /\ revision[r] # None => pc[r] \notin Early
       /\ pc[r] \in Deployed => revision[r] # None
       /\ pc[r] = "waitDeploy" /\ operation[r] = "ready" => revision[r] # None

\* The outputs are set together, with the run's own ids.
OutputOwn ==
    \A r \in Runs :
       /\ output[r].REVISION_ID \in {None, r}
       /\ output[r].REVISION_ID # None =>
             /\ pc[r] \notin Early
             /\ revision[r] # None
             /\ output[r].CONTAINER_ID = containerID[r]
             /\ containerID[r] # None

\* The operation that a run waits for opens the container it has put out.
Opening ==
    \A r \in Runs :
       /\ pc[r] \in Deployed => output[r].CONTAINER_ID = containerID[r]
       /\ pc[r] = "waitPublish" /\ operation[r] = "ready" => opened[r] = containerID[r]
       /\ pc[r] = "done" /\ inputs[r].public => opened[r] = containerID[r]

IInv ==
    /\ TypeOK /\ ContainerKnown /\ OperationAsked /\ RevisionMade /\ OutputOwn
    /\ Opening /\ OpenOnlyIfAsked

\* Nothing is asked for and nothing is open at first.
LEMMA InitIInv == Init => IInv
<1> SUFFICES ASSUME Init PROVE IInv
    OBVIOUS
<1> USE NamesAssumption DEF Init, Named, Containers, Running, Early, Deployed
<1>1. TypeOK
    BY DEF TypeOK
<1>2. ContainerKnown /\ OperationAsked /\ RevisionMade /\ OutputOwn /\ Opening
    BY DEF ContainerKnown, OperationAsked, RevisionMade, OutputOwn, Opening
<1>3. OpenOnlyIfAsked
    BY DEF OpenOnlyIfAsked, AllUsers
<1> QED
    BY <1>1, <1>2, <1>3 DEF IInv

\* A step that leaves the bindings alone, and the containers of runs that
\* have a revision, opens none.
LEMMA OpenFrame ==
    ASSUME OpenOnlyIfAsked, UNCHANGED <<inputs, invokers>>,
           \A r \in Runs : revision[r] # None =>
              revision'[r] # None /\ containerID'[r] = containerID[r]
    PROVE  OpenOnlyIfAsked'
BY DEF OpenOnlyIfAsked

\* The revision of a run goes to some container.
LEMMA TargetType ==
    ASSUME TypeOK, NEW r \in Runs, NEW c \in Targets(r)
    PROVE  c \in Containers /\ c # None
BY NamesAssumption DEF TypeOK, Targets, RequestContainer, Containers, Named

-----------------------------------------------------------------------------
(***************************************************************************)
(* The steps of a run and of the cloud keep the invariant.                 *)
(***************************************************************************)
\* The checks of main.
LEMMA StartStep ==
    ASSUME IInv, NEW r \in Runs, Start(r)
    PROVE  IInv'
<1> USE NamesAssumption DEF IInv, Start, AfterChecks, Goto, Ask, Named
<1>1. TypeOK'
    BY DEF TypeOK, Running, Ended, Containers
<1>2. ContainerKnown' /\ OperationAsked'
    BY DEF TypeOK, ContainerKnown, OperationAsked, RevisionMade, Early, Deployed
<1>3. RevisionMade' /\ OutputOwn'
    BY DEF TypeOK, ContainerKnown, OperationAsked, RevisionMade, OutputOwn, Early, Deployed,
           Running, Ended
<1>4. OpenOnlyIfAsked'
    BY OpenFrame DEF TypeOK, RevisionMade, Early
<1>5. Opening'
    BY DEF TypeOK, OperationAsked, Opening, Early, Deployed, Running
<1> QED
    BY <1>1, <1>2, <1>3, <1>4, <1>5

\* The container is found or not.
LEMMA FindContainerStep ==
    ASSUME IInv, NEW r \in Runs, FindContainer(r)
    PROVE  IInv'
<1> USE NamesAssumption DEF IInv, FindContainer, ByName, AfterSearch, Goto, Ask, Named
<1>1. TypeOK'
    BY DEF TypeOK, Running, Ended, Containers
<1>2. ContainerKnown' /\ OperationAsked'
    BY DEF TypeOK, ContainerKnown, OperationAsked, RevisionMade, Early, Deployed
<1>3. RevisionMade' /\ OutputOwn'
    BY DEF TypeOK, ContainerKnown, OperationAsked, RevisionMade, OutputOwn, Early, Deployed,
           Running, Ended
<1>4. OpenOnlyIfAsked'
    BY OpenFrame DEF TypeOK, RevisionMade, Early
<1>5. Opening'
    BY DEF TypeOK, OperationAsked, Opening, Early, Deployed, Running
<1> QED
    BY <1>1, <1>2, <1>3, <1>4, <1>5

\* The container is asked for.
LEMMA CreateContainerStep ==
    ASSUME IInv, NEW r \in Runs, CreateContainer(r)
    PROVE  IInv'
<1> USE NamesAssumption DEF IInv, CreateContainer, Goto, Ask, Named
<1>1. TypeOK'
    BY DEF TypeOK, Running, Ended, Containers
<1>2. ContainerKnown' /\ OperationAsked'
    BY DEF TypeOK, ContainerKnown, OperationAsked, RevisionMade, Early, Deployed
<1>3. RevisionMade' /\ OutputOwn'
    BY DEF TypeOK, ContainerKnown, OperationAsked, RevisionMade, OutputOwn, Early, Deployed,
           Running, Ended
<1>4. OpenOnlyIfAsked'
    BY OpenFrame DEF TypeOK, RevisionMade, Early
<1>5. Opening'
    BY DEF TypeOK, OperationAsked, Opening, Early, Deployed, Running
<1> QED
    BY <1>1, <1>2, <1>3, <1>4, <1>5

\* The run learns of its container.
LEMMA ContainerCreatedStep ==
    ASSUME IInv, NEW r \in Runs, ContainerCreated(r)
    PROVE  IInv'
<1> USE NamesAssumption DEF IInv, ContainerCreated, Succeeded, CreatedID, Goto, Ask, Named
<1>1. TypeOK'
    BY DEF TypeOK, Running, Ended, Containers
<1>2. ContainerKnown' /\ OperationAsked'
    BY DEF TypeOK, ContainerKnown, OperationAsked, RevisionMade, Early, Deployed
<1>3. RevisionMade' /\ OutputOwn'
    BY DEF TypeOK, ContainerKnown, OperationAsked, RevisionMade, OutputOwn, Early, Deployed,
           Running, Ended
<1>4. OpenOnlyIfAsked'
    BY OpenFrame DEF TypeOK, RevisionMade, Early
<1>5. Opening'
    BY DEF TypeOK, OperationAsked, Opening, Early, Deployed, Running
<1> QED
    BY <1>1, <1>2, <1>3, <1>4, <1>5

\* The revision is asked for.
LEMMA DeployRevisionStep ==
    ASSUME IInv, NEW r \in Runs, DeployRevision(r)
    PROVE  IInv'
<1> USE NamesAssumption DEF IInv, DeployRevision, Goto, Ask, Named
<1>1. TypeOK'
    BY DEF TypeOK, Running, Ended, Containers
<1>2. ContainerKnown' /\ OperationAsked'
    BY DEF TypeOK, ContainerKnown, OperationAsked, RevisionMade, Early, Deployed
<1>3. RevisionMade' /\ OutputOwn'
    BY DEF TypeOK, ContainerKnown, OperationAsked, RevisionMade, OutputOwn, Early, Deployed,
           Running, Ended
<1>4. OpenOnlyIfAsked'
    BY OpenFrame DEF TypeOK, RevisionMade, Early
<1>5. Opening'
    BY DEF TypeOK, OperationAsked, Opening, Early, Deployed, Running
<1> QED
    BY <1>1, <1>2, <1>3, <1>4, <1>5

\* The revision is there, and the outputs are set.
LEMMA RevisionDeployedStep ==
    ASSUME IInv, NEW r \in Runs, RevisionDeployed(r)
    PROVE  IInv'
<1> USE NamesAssumption DEF IInv, RevisionDeployed, Succeeded, AfterRevision, Goto, Ask, Named
<1>1. TypeOK'
    BY DEF TypeOK, Running, Ended, Containers
<1>2. ContainerKnown' /\ OperationAsked'
    BY DEF TypeOK, ContainerKnown, OperationAsked, RevisionMade, Early, Deployed
<1>3. RevisionMade' /\ OutputOwn'
    BY DEF TypeOK, ContainerKnown, OperationAsked, RevisionMade, OutputOwn, Early, Deployed,
           Running, Ended
<1>4. OpenOnlyIfAsked'
    BY OpenFrame DEF TypeOK, RevisionMade, Early
<1>5. Opening'
    BY DEF TypeOK, OperationAsked, Opening, Early, Deployed, Running
<1> QED
    BY <1>1, <1>2, <1>3, <1>4, <1>5

\* The bindings are asked for.
LEMMA SetAccessBindingsStep ==
    ASSUME IInv, NEW r \in Runs, SetAccessBindings(r)
    PROVE  IInv'
<1> USE NamesAssumption DEF IInv, SetAccessBindings, Goto, Ask, Named
<1>1. TypeOK'
    BY DEF TypeOK, Running, Ended, Containers
<1>2. ContainerKnown' /\ OperationAsked'
    BY DEF TypeOK, ContainerKnown, OperationAsked, RevisionMade, Early, Deployed
<1>3. RevisionMade' /\ OutputOwn'
    BY DEF TypeOK, ContainerKnown, OperationAsked, RevisionMade, OutputOwn, Early, Deployed,
           Running, Ended
<1>4. OpenOnlyIfAsked'
    BY OpenFrame DEF TypeOK, RevisionMade, Early
<1>5. Opening'
    BY DEF TypeOK, OperationAsked, Opening, Early, Deployed, Running
<1> QED
    BY <1>1, <1>2, <1>3, <1>4, <1>5

\* The bindings are set.
LEMMA PublishedStep ==
    ASSUME IInv, NEW r \in Runs, Published(r)
    PROVE  IInv'
<1> USE NamesAssumption DEF IInv, Published, Succeeded, Goto, Ask, Named
<1>1. TypeOK'
    BY DEF TypeOK, Running, Ended, Containers
<1>2. ContainerKnown' /\ OperationAsked'
    BY DEF TypeOK, ContainerKnown, OperationAsked, RevisionMade, Early, Deployed
<1>3. RevisionMade' /\ OutputOwn'
    BY DEF TypeOK, ContainerKnown, OperationAsked, RevisionMade, OutputOwn, Early, Deployed,
           Running, Ended
<1>4. OpenOnlyIfAsked'
    BY OpenFrame DEF TypeOK, RevisionMade, Early
<1>5. Opening'
    BY DEF TypeOK, OperationAsked, Opening, Early, Deployed, Running
<1> QED
    BY <1>1, <1>2, <1>3, <1>4, <1>5

\* An operation has failed.
LEMMA OperationFailedStep ==
    ASSUME IInv, NEW r \in Runs, OperationFailed(r)
    PROVE  IInv'
<1> USE NamesAssumption DEF IInv, OperationFailed, OnOperationError, Goto, Ask, Named
<1>1. TypeOK'
    BY DEF TypeOK, Running, Ended, Containers
<1>2. ContainerKnown' /\ OperationAsked'
    BY DEF TypeOK, ContainerKnown, OperationAsked, RevisionMade, Early, Deployed
<1>3. RevisionMade' /\ OutputOwn'
    BY DEF TypeOK, ContainerKnown, OperationAsked, RevisionMade, OutputOwn, Early, Deployed,
           Running, Ended
<1>4. OpenOnlyIfAsked'
    BY OpenFrame DEF TypeOK, RevisionMade, Early
<1>5. Opening'
    BY DEF TypeOK, OperationAsked, Opening, Early, Deployed, Running
<1> QED
    BY <1>1, <1>2, <1>3, <1>4, <1>5

\* A request fails or the process ends.
LEMMA BreaksStep ==
    ASSUME IInv, NEW r \in Runs, Breaks(r)
    PROVE  IInv'
<1> USE NamesAssumption DEF IInv, Breaks, Goto, Ask, Named
<1>1. TypeOK'
    BY DEF TypeOK, Running, Ended, Containers
<1>2. ContainerKnown' /\ OperationAsked'
    BY DEF TypeOK, ContainerKnown, OperationAsked, RevisionMade, Early, Deployed
<1>3. RevisionMade' /\ OutputOwn'
    BY DEF TypeOK, ContainerKnown, OperationAsked, RevisionMade, OutputOwn, Early, Deployed,
           Running, Ended
<1>4. OpenOnlyIfAsked'
    BY OpenFrame DEF TypeOK, RevisionMade, Early
<1>5. Opening'
    BY DEF TypeOK, OperationAsked, Opening, Early, Deployed, Running
<1> QED
    BY <1>1, <1>2, <1>3, <1>4, <1>5

\* The cloud creates the container.
LEMMA CarryOutCreateStep ==
    ASSUME IInv, NEW r \in Runs, CarryOutCreate(r)
    PROVE  IInv'
<1> USE NamesAssumption DEF IInv, CarryOutCreate, run, Goto, Ask, Named
<1>1. TypeOK'
    BY DEF TypeOK, Running, Ended, Containers
<1>2. ContainerKnown' /\ OperationAsked'
    BY DEF TypeOK, ContainerKnown, OperationAsked, RevisionMade, Early, Deployed
<1>3. RevisionMade' /\ OutputOwn'
    BY DEF TypeOK, ContainerKnown, OperationAsked, RevisionMade, OutputOwn, Early, Deployed,
           Running, Ended
<1>4. OpenOnlyIfAsked'
    BY OpenFrame DEF TypeOK, RevisionMade, Early
<1>5. Opening'
    BY DEF TypeOK, OperationAsked, Opening, Early, Deployed, Running
<1> QED
    BY <1>1, <1>2, <1>3, <1>4, <1>5

\* The cloud gives an operation up.
LEMMA CarryOutFailsStep ==
    ASSUME IInv, NEW r \in Runs, CarryOutFails(r)
    PROVE  IInv'
<1> USE NamesAssumption DEF IInv, CarryOutFails, run, Goto, Ask, Named
<1>1. TypeOK'
    BY DEF TypeOK, Running, Ended, Containers
<1>2. ContainerKnown' /\ OperationAsked'
    BY DEF TypeOK, ContainerKnown, OperationAsked, RevisionMade, Early, Deployed
<1>3. RevisionMade' /\ OutputOwn'
    BY DEF TypeOK, ContainerKnown, OperationAsked, RevisionMade, OutputOwn, Early, Deployed,
           Running, Ended
<1>4. OpenOnlyIfAsked'
    BY OpenFrame DEF TypeOK, RevisionMade, Early
<1>5. Opening'
    BY DEF TypeOK, OperationAsked, Opening, Early, Deployed, Running
<1> QED
    BY <1>1, <1>2, <1>3, <1>4, <1>5

\* The cloud puts the revision on some container.
LEMMA CarryOutDeployStep ==
    ASSUME IInv, NEW r \in Runs, CarryOutDeploy(r)
    PROVE  IInv'
<1> USE NamesAssumption DEF IInv, CarryOutDeploy, Ask, run
<1>1. PICK c \in Targets(r) : revision' = [revision EXCEPT ![r] = c]
    OBVIOUS
<1>2. c \in Containers /\ c # None
    BY <1>1, TargetType
<1>3. TypeOK'
    BY <1>1, <1>2 DEF TypeOK
<1>4. ContainerKnown' /\ OperationAsked'
    BY <1>1, <1>2 DEF TypeOK, ContainerKnown, OperationAsked, Early, Deployed
<1>5. RevisionMade' /\ OutputOwn'
    BY <1>1, <1>2 DEF TypeOK, OperationAsked, RevisionMade, OutputOwn, Early
<1>6. OpenOnlyIfAsked'
    BY <1>1, <1>2, OpenFrame DEF TypeOK
<1>7. Opening'
    BY DEF TypeOK, OperationAsked, Opening, Early, Deployed
<1> QED
    BY <1>3, <1>4, <1>5, <1>6, <1>7

\* The cloud sets the bindings of the container of a run that was asked to
\* publish it and has deployed.
LEMMA CarryOutPublishStep ==
    ASSUME IInv, NEW r \in Runs, CarryOutPublish(r)
    PROVE  IInv'
<1> USE NamesAssumption DEF IInv, CarryOutPublish, Ask, run
<1>1. TypeOK'
    BY DEF TypeOK, AllUsers, Containers
<1>2. ContainerKnown' /\ OperationAsked'
    BY DEF TypeOK, ContainerKnown, OperationAsked, Early, Deployed
<1>3. RevisionMade' /\ OutputOwn'
    BY DEF TypeOK, OperationAsked, RevisionMade, OutputOwn, Early
<1>4. OpenOnlyIfAsked'
  <2>1. /\ inputs[r].public /\ revision[r] # None
        /\ containerID[r] \in Containers
      BY DEF TypeOK, OperationAsked, Containers
  <2> QED
      BY <2>1 DEF TypeOK, OpenOnlyIfAsked
<1>5. Opening'
    BY DEF TypeOK, OperationAsked, Opening, Deployed
<1> QED
    BY <1>1, <1>2, <1>3, <1>4, <1>5

\* Others delete the container, or change who may invoke it.
LEMMA OthersStep ==
    ASSUME IInv, DeleteContainer \/ AllowInvoker \/ RevokeInvoker
    PROVE  IInv'
<1> USE DEF IInv, run
<1>1. CASE DeleteContainer
    BY <1>1 DEF DeleteContainer, TypeOK, ContainerKnown, OperationAsked, RevisionMade,
                OutputOwn, Opening, OpenOnlyIfAsked
<1>2. CASE AllowInvoker \/ RevokeInvoker
  <2>1. TypeOK'
      BY <1>2 DEF AllowInvoker, RevokeInvoker, TypeOK, Containers
  <2>2. ContainerKnown' /\ OperationAsked' /\ RevisionMade' /\ OutputOwn' /\ Opening'
      BY <1>2 DEF AllowInvoker, RevokeInvoker, ContainerKnown, OperationAsked,
                  RevisionMade, OutputOwn, Opening
  <2>3. \A c \in Containers : AllUsers \in invokers'[c] => AllUsers \in invokers[c]
      BY <1>2, NamesAssumption DEF AllowInvoker, RevokeInvoker, TypeOK, AllUsers
  <2>4. OpenOnlyIfAsked'
      BY <1>2, <2>3 DEF AllowInvoker, RevokeInvoker, OpenOnlyIfAsked
  <2> QED
      BY <2>1, <2>2, <2>4
<1> QED
    BY <1>1, <1>2

\* Every step keeps the invariant.
LEMMA StepIInv == IInv /\ [Next]_vars => IInv'
<1> SUFFICES ASSUME IInv, [Next]_vars PROVE IInv'
    OBVIOUS
<1>1. ASSUME NEW r \in Runs, Start(r) \/ Run(r) \/ Breaks(r) \/ CarryOut(r)
      PROVE  IInv'
    BY <1>1, StartStep, FindContainerStep, CreateContainerStep, ContainerCreatedStep,
       DeployRevisionStep, RevisionDeployedStep, SetAccessBindingsStep, PublishedStep,
       OperationFailedStep, BreaksStep, CarryOutCreateStep, CarryOutDeployStep,
       CarryOutPublishStep, CarryOutFailsStep DEF Run, CarryOut
<1>2. CASE UNCHANGED vars
    BY <1>2 DEF vars, IInv, TypeOK, ContainerKnown, OperationAsked, RevisionMade,
                OutputOwn, Opening, OpenOnlyIfAsked
<1> QED
    BY <1>1, <1>2, OthersStep DEF Next
-----------------------------------------------------------------------------
(***************************************************************************)
(* What ties the runs, their operations and the containers together.       *)
(***************************************************************************)
THEOREM DeployInvariant == Spec => []IInv
BY InitIInv, StepIInv, PTL DEF Spec

(***************************************************************************)
(* The types of the runs and the cloud (TypeOK).                           *)
(***************************************************************************)
THEOREM TypeCorrect == Spec => []TypeOK
<1>1. IInv => TypeOK
    BY DEF IInv
<1> QED
    BY <1>1, DeployInvariant, PTL

(***************************************************************************)
(* The outputs of a run name a container that had the name and a revision  *)
(* that was deployed (OutputsTruthful).                                    *)
(***************************************************************************)
THEOREM OutputsAreTrue == Spec => []OutputsTruthful
<1>1. IInv => OutputsTruthful
    BY DEF IInv, TypeOK, ContainerKnown, OutputOwn, OutputsTruthful
<1> QED
    BY <1>1, DeployInvariant, PTL

(***************************************************************************)
(* No container is open to all unless a run was asked to publish it and    *)
(* has deployed its revision (OpenOnlyIfAsked).                            *)
(***************************************************************************)
THEOREM OpenIsAsked == Spec => []OpenOnlyIfAsked
<1>1. IInv => OpenOnlyIfAsked
    BY DEF IInv
<1> QED
    BY <1>1, DeployInvariant, PTL

(***************************************************************************)
(* Success of a run that publishes means that the container in its outputs *)
(* was opened by its own operation (DoneMeansOpened).                      *)
(***************************************************************************)
THEOREM DoneIsOpened == Spec => []DoneMeansOpened
<1>1. IInv => DoneMeansOpened
    BY DEF IInv, ContainerKnown, Opening, DoneMeansOpened, Deployed
<1> QED
    BY <1>1, DeployInvariant, PTL
-----------------------------------------------------------------------------
Promise(r) == INSTANCE DeployPromise
    WITH status <- Status(r), deployed <- revision[r] # None

\* What a step does to one run: nothing, or it starts, goes on, fails,
\* succeeds with its revision made, or has it made.
LEMMA StepOfOne ==
    ASSUME IInv, [Next]_vars, NEW r \in Runs
    PROVE  \/ pc'[r] = pc[r] /\ revision'[r] = revision[r]
           \/ /\ pc[r] = "inputs" /\ pc'[r] \in {"list", "failed"}
              /\ revision'[r] = revision[r]
           \/ /\ pc[r] \in Running /\ pc'[r] \in Running \cup {"failed", "killed"}
              /\ revision'[r] = revision[r]
           \/ /\ pc[r] \in Running /\ pc'[r] = "done"
              /\ revision[r] # None /\ revision'[r] = revision[r]
           \/ /\ pc[r] # "inputs" /\ pc'[r] = pc[r] /\ revision'[r] # None
<1> USE NamesAssumption DEF IInv, TypeOK, Goto, Ask, run, Running
<1>1. ASSUME NEW s \in Runs, Start(s) \/ Breaks(s)
      PROVE  /\ revision'[r] = revision[r]
             /\ \/ pc'[r] = pc[r]
                \/ pc[r] = "inputs" /\ pc'[r] \in {"list", "failed"}
                \/ pc[r] \in Running /\ pc'[r] \in {"failed", "killed"}
    BY <1>1 DEF Start, AfterChecks, Breaks
<1>2. ASSUME NEW s \in Runs, Run(s)
      PROVE  /\ revision'[r] = revision[r]
             /\ \/ pc'[r] = pc[r]
                \/ pc[r] \in Running /\ pc'[r] \in Running \cup {"failed"}
                \/ pc[r] \in Running /\ pc'[r] = "done" /\ revision[r] # None
    BY <1>2 DEF Run, FindContainer, CreateContainer, ContainerCreated, DeployRevision,
                RevisionDeployed, SetAccessBindings, Published, OperationFailed,
                OnOperationError, AfterSearch, AfterRevision, Succeeded, RevisionMade, Deployed
<1>3. ASSUME NEW s \in Runs, CarryOutCreate(s) \/ CarryOutPublish(s) \/ CarryOutFails(s)
      PROVE  UNCHANGED <<pc, revision>>
    BY <1>3 DEF CarryOutCreate, CarryOutPublish, CarryOutFails
<1>4. ASSUME NEW s \in Runs, CarryOutDeploy(s)
      PROVE  /\ UNCHANGED pc
             /\ \/ revision'[r] = revision[r]
                \/ pc[r] # "inputs" /\ revision'[r] # None
  <2>1. PICK c \in Targets(s) : revision' = [revision EXCEPT ![s] = c]
      BY <1>4 DEF CarryOutDeploy
  <2>2. c # None
      BY <2>1, TargetType
  <2>3. pc[s] # "inputs"
      BY <1>4 DEF CarryOutDeploy, OperationAsked, Early
  <2> QED
      BY <1>4, <2>1, <2>2, <2>3 DEF CarryOutDeploy
<1>5. CASE DeleteContainer \/ AllowInvoker \/ RevokeInvoker \/ UNCHANGED vars
    BY <1>5 DEF DeleteContainer, AllowInvoker, RevokeInvoker, vars
<1> QED
    BY <1>1, <1>2, <1>3, <1>4, <1>5 DEF Next, CarryOut

(***************************************************************************)
(* The safety of DeployPromise for any run among any number: each step of  *)
(* the cloud and of all runs is a step of the promise or a stutter, so     *)
(* success is reported only when the revision was made.                    *)
(***************************************************************************)
THEOREM KeepsPromise ==
    ASSUME NEW r \in Runs
    PROVE  Spec => Promise(r)!Init /\ [][Promise(r)!Next]_(Promise(r)!vars)
<1>1. Init => Promise(r)!Init
  <2> SUFFICES ASSUME Init PROVE Promise(r)!Init
      OBVIOUS
  <2>1. Status(r) = "idle"
      BY DEF Init, Status, Running
  <2>2. revision[r] = None
      BY DEF Init
  <2> QED
      BY <2>1, <2>2, Zenon DEF Promise!Init
<1>2. IInv /\ [Next]_vars => [Promise(r)!Next]_(Promise(r)!vars)
  <2> SUFFICES ASSUME IInv, [Next]_vars
               PROVE  [Promise(r)!Next]_(Promise(r)!vars)
      OBVIOUS
  <2> USE DEF Status, Running
  <2>1. CASE pc'[r] = pc[r] /\ revision'[r] = revision[r]
      BY <2>1 DEF Promise!vars
  <2>2. CASE /\ pc[r] = "inputs" /\ pc'[r] \in {"list", "failed"}
             /\ revision'[r] = revision[r]
      BY <2>2 DEF Promise!Next, Promise!Start
  <2>3. CASE /\ pc[r] \in Running /\ pc'[r] \in Running \cup {"failed", "killed"}
             /\ revision'[r] = revision[r]
      BY <2>3 DEF Promise!Next, Promise!Fail, Promise!vars
  <2>4. CASE /\ pc[r] \in Running /\ pc'[r] = "done"
             /\ revision[r] # None /\ revision'[r] = revision[r]
      BY <2>4 DEF Promise!Next, Promise!Succeed
  <2>5. CASE pc[r] # "inputs" /\ pc'[r] = pc[r] /\ revision'[r] # None
    <3>1. Status(r) # "idle" /\ Status(r)' = Status(r)
        BY <2>5 DEF IInv, TypeOK, Ended
    <3> QED
        BY <2>5, <3>1, Zenon DEF Promise!Next, Promise!Deploy
  <2> QED
      BY StepOfOne, <2>1, <2>2, <2>3, <2>4, <2>5
<1> QED
    BY <1>1, <1>2, DeployInvariant, PTL DEF Spec
=============================================================================
