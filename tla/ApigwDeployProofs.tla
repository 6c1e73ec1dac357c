------------------------- MODULE ApigwDeployProofs -------------------------
(***************************************************************************)
(* Proofs about ApigwDeploy for any number of runs, any of them valid, and *)
(* that each run takes only the steps that DeployPromise allows.           *)
(***************************************************************************)
EXTENDS ApigwDeploy, TLAPS

Asked == {"create", "update", "ready", "error"}

\* An operation is asked for once and by a run that was let through; until
\* it is carried out nothing is applied.
AskedOnce ==
    \A r \in Runs :
       /\ pc[r] \in {"inputs", "list", "create", "update"} => operation[r] = None
       /\ pc[r] \in {"waitCreate", "waitUpdate"} => operation[r] # None
       /\ pc[r] \in Running \/ operation[r] # None => r \in Valid
       /\ operation[r] # "ready" => applied[r] = None

\* What an operation is applied to is the gateway the run knows or makes.
AppliedAsAsked ==
    \A r \in Runs :
       /\ pc[r] \in {"update", "waitUpdate"} => gatewayID[r] # None
       /\ operation[r] = "update" => gatewayID[r] # None
       /\ operation[r] = "update" => pc[r] \notin {"waitCreate"}
       /\ operation[r] = "create" => pc[r] \notin {"waitUpdate"}
       /\ operation[r] = "ready" => applied[r] # None
       /\ pc[r] = "waitCreate" /\ operation[r] = "ready" => applied[r] = r
       /\ pc[r] = "waitUpdate" /\ operation[r] = "ready" => applied[r] = gatewayID[r]

\* Only a run that is done has put out a gateway.
PutOutAtEnd ==
    \A r \in Runs :
       /\ output[r] # None => pc[r] = "done"
       /\ pc[r] = "done" => operation[r] = "ready"

\* The runs before a run are over, and it is none of them.
EarlierAreDone ==
    \A r \in Runs :
       /\ r \notin earlier[r]
       /\ \A s \in earlier[r] : pc[s] = "done"

IInv ==
    /\ TypeOK /\ AskedOnce /\ AppliedAsAsked /\ PutOutAtEnd
    /\ OutputIsServedGateway /\ EarlierAreDone /\ NoRollback

\* Nothing is asked for at first.
LEMMA InitIInv == Init => IInv
BY NamesAssumption
   DEF Init, IInv, TypeOK, AskedOnce, AppliedAsAsked, PutOutAtEnd, OutputIsServedGateway,
       EarlierAreDone, NoRollback, Gateways, Running

\* A step of the run itself: nothing of the cloud changes but what it asks.
LEMMA RunStep ==
    ASSUME IInv, NEW r \in Runs, Start(r) \/ Run(r) \/ Breaks(r)
    PROVE  IInv'
<1> USE NamesAssumption, ValidAssumption
    DEF IInv, AskedOnce, AppliedAsAsked, PutOutAtEnd, OutputIsServedGateway,
        EarlierAreDone, NoRollback, Goto, Ask, cloud, TypeOK, Gateways, Running, Ended
<1>1. CASE Start(r)
    BY <1>1 DEF Start, AfterChecks
<1>2. CASE ListGateways(r)
    BY <1>2 DEF ListGateways
<1>3. CASE CreateGateway(r)
    BY <1>3 DEF CreateGateway
<1>4. CASE UpdateGateway(r)
    BY <1>4 DEF UpdateGateway
<1>5. CASE GatewayCreated(r)
    BY <1>5 DEF GatewayCreated, Succeeded, CreatedID
<1>6. CASE GatewayUpdated(r)
    BY <1>6 DEF GatewayUpdated, Succeeded
<1>7. CASE OperationFailed(r)
    BY <1>7 DEF OperationFailed
<1>8. CASE Breaks(r)
    BY <1>8 DEF Breaks
<1> QED
    BY <1>1, <1>2, <1>3, <1>4, <1>5, <1>6, <1>7, <1>8 DEF Run

\* The cloud carries out an operation, once, on a gateway it was asked for.
LEMMA CloudStep ==
    ASSUME IInv, NEW r \in Runs, CarryOut(r)
    PROVE  IInv'
<1> USE NamesAssumption, ValidAssumption
    DEF IInv, AskedOnce, AppliedAsAsked, PutOutAtEnd, OutputIsServedGateway,
        EarlierAreDone, NoRollback, Ask, run, TypeOK, Gateways, Running, Ended
<1>1. CASE CarryOutCreate(r)
    BY <1>1 DEF CarryOutCreate, Apply
<1>2. CASE CarryOutUpdate(r)
    BY <1>2 DEF CarryOutUpdate, Apply
<1>3. CASE CarryOutFails(r)
    BY <1>3 DEF CarryOutFails
<1> QED
    BY <1>1, <1>2, <1>3 DEF CarryOut

\* Every step keeps the invariant.
LEMMA StepIInv == IInv /\ [Next]_vars => IInv'
<1> SUFFICES ASSUME IInv, [Next]_vars PROVE IInv'
    OBVIOUS
<1> USE DEF IInv, AskedOnce, AppliedAsAsked, PutOutAtEnd, OutputIsServedGateway,
            EarlierAreDone, NoRollback, TypeOK
<1>1. CASE DeleteGateway
    BY <1>1 DEF DeleteGateway, run
<1>2. CASE UNCHANGED vars
    BY <1>2 DEF vars
<1> QED
    BY <1>1, <1>2, RunStep, CloudStep DEF Next

(***************************************************************************)
(* What ties the runs, their operations and the gateways together.         *)
(***************************************************************************)
THEOREM DeployInvariant == Spec => []IInv
BY InitIInv, StepIInv, PTL DEF Spec

(***************************************************************************)
(* The types of the runs and the cloud (TypeOK).                           *)
(***************************************************************************)
THEOREM TypeCorrect == Spec => []TypeOK
<1>1. IInv => TypeOK
    BY DEF IInv
<1> QED
    BY <1>1, DeployInvariant, PTL

(***************************************************************************)
(* GATEWAY_ID of a run is the gateway that took its specification, however *)
(* many runs race for the name (OutputIsServedGateway).                    *)
(***************************************************************************)
THEOREM OutputIsServed == Spec => []OutputIsServedGateway
<1>1. IInv => OutputIsServedGateway
    BY DEF IInv
<1> QED
    BY <1>1, DeployInvariant, PTL

(***************************************************************************)
(* However many runs race for a gateway, none of them is undone by a run   *)
(* that had succeeded before it began (NoRollback).                        *)
(***************************************************************************)
THEOREM NeverRolledBack == Spec => []NoRollback
<1>1. IInv => NoRollback
    BY DEF IInv
<1> QED
    BY <1>1, DeployInvariant, PTL
-----------------------------------------------------------------------------
Promise(r) == INSTANCE DeployPromise
    WITH status <- Status(r), deployed <- applied[r] # None

\* What a step does to one run: nothing, or it starts, goes on, fails,
\* succeeds with its specification applied, or has it applied.
LEMMA StepOfOne ==
    ASSUME IInv, [Next]_vars, NEW r \in Runs
    PROVE  \/ pc'[r] = pc[r] /\ applied'[r] = applied[r]
           \/ /\ pc[r] = "inputs" /\ pc'[r] \in {"list", "failed"}
              /\ applied'[r] = applied[r]
           \/ /\ pc[r] \in Running /\ pc'[r] \in Running \cup {"failed", "killed"}
              /\ applied'[r] = applied[r]
           \/ /\ pc[r] \in Running /\ pc'[r] = "done"
              /\ applied[r] # None /\ applied'[r] = applied[r]
           \/ /\ pc[r] # "inputs" /\ pc'[r] = pc[r]
              /\ applied[r] = None /\ applied'[r] # None
<1> USE NamesAssumption DEF IInv, TypeOK, Goto, Ask, cloud, run, Gateways, Running
<1>1. ASSUME NEW s \in Runs, Start(s) \/ Breaks(s)
      PROVE  \/ pc'[r] = pc[r] /\ applied'[r] = applied[r]
             \/ /\ pc[r] = "inputs" /\ pc'[r] \in {"list", "failed"}
                /\ applied'[r] = applied[r]
             \/ /\ pc[r] \in Running /\ pc'[r] \in {"failed", "killed"}
                /\ applied'[r] = applied[r]
    BY <1>1 DEF Start, AfterChecks, Breaks
<1>2. ASSUME NEW s \in Runs, Run(s)
      PROVE  /\ applied'[r] = applied[r]
             /\ \/ pc'[r] = pc[r]
                \/ pc[r] \in Running /\ pc'[r] \in Running \cup {"failed"}
                \/ pc[r] \in Running /\ pc'[r] = "done" /\ applied[r] # None
    BY <1>2 DEF Run, ListGateways, CreateGateway, UpdateGateway, GatewayCreated,
                GatewayUpdated, OperationFailed, Succeeded, AppliedAsAsked
<1>3. ASSUME NEW s \in Runs, CarryOut(s)
      PROVE  /\ pc'[r] = pc[r]
             /\ \/ applied'[r] = applied[r]
                \/ pc[r] # "inputs" /\ applied[r] = None /\ applied'[r] # None
    BY <1>3 DEF CarryOut, CarryOutCreate, CarryOutUpdate, CarryOutFails, Apply,
                AskedOnce, AppliedAsAsked
<1>4. CASE DeleteGateway \/ UNCHANGED vars
    BY <1>4 DEF DeleteGateway, vars
<1> QED
    BY <1>1, <1>2, <1>3, <1>4 DEF Next

(***************************************************************************)
(* The safety of DeployPromise for any run among any number: each step of  *)
(* the gateways and of all runs is a step of the promise or a stutter, so  *)
(* success is reported only when the specification was applied.            *)
(***************************************************************************)
THEOREM KeepsPromise ==
    ASSUME NEW r \in Runs
    PROVE  Spec => Promise(r)!Init /\ [][Promise(r)!Next]_(Promise(r)!vars)
<1>1. Init => Promise(r)!Init
  <2> SUFFICES ASSUME Init PROVE Promise(r)!Init
      OBVIOUS
  <2>1. Status(r) = "idle"
      BY DEF Init, Status, Running
  <2>2. applied[r] = None
      BY DEF Init
  <2> QED
      BY <2>1, <2>2, Zenon DEF Promise!Init
<1>2. IInv /\ [Next]_vars => [Promise(r)!Next]_(Promise(r)!vars)
  <2> SUFFICES ASSUME IInv, [Next]_vars
               PROVE  [Promise(r)!Next]_(Promise(r)!vars)
      OBVIOUS
  <2> USE DEF Status, Running
  <2>1. CASE pc'[r] = pc[r] /\ applied'[r] = applied[r]
      BY <2>1 DEF Promise!vars
  <2>2. CASE /\ pc[r] = "inputs" /\ pc'[r] \in {"list", "failed"}
             /\ applied'[r] = applied[r]
      BY <2>2 DEF Promise!Next, Promise!Start
  <2>3. CASE /\ pc[r] \in Running /\ pc'[r] \in Running \cup {"failed", "killed"}
             /\ applied'[r] = applied[r]
      BY <2>3 DEF Promise!Next, Promise!Fail, Promise!vars
  <2>4. CASE /\ pc[r] \in Running /\ pc'[r] = "done"
             /\ applied[r] # None /\ applied'[r] = applied[r]
      BY <2>4 DEF Promise!Next, Promise!Succeed
  <2>5. CASE /\ pc[r] # "inputs" /\ pc'[r] = pc[r]
             /\ applied[r] = None /\ applied'[r] # None
    <3>1. Status(r) # "idle" /\ Status(r)' = Status(r)
        BY <2>5 DEF IInv, TypeOK, Ended
    <3> QED
        BY <2>5, <3>1, Zenon DEF Promise!Next, Promise!Deploy
  <2> QED
      BY StepOfOne, <2>1, <2>2, <2>3, <2>4, <2>5
<1> QED
    BY <1>1, <1>2, DeployInvariant, PTL DEF Spec
=============================================================================
