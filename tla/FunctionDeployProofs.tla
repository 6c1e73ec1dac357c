------------------------ MODULE FunctionDeployProofs ------------------------
(***************************************************************************)
(* Proofs about FunctionDeploy for any number of runs and commits, and any *)
(* inputs the runs may be given.                                           *)
(***************************************************************************)
EXTENDS FunctionDeploy, TLAPS

\* The id of the function is known from getOrCreateFunctionID on, and put out.
IdKnown ==
    \A r \in Runs :
       /\ pc[r] \in {"inputs", "list", "create", "waitCreate"} => functionID[r] = None
       /\ pc[r] \in {"upload", "version", "waitVersion"} => functionID[r] # None
       /\ output[r].FUNCTION_ID = functionID[r]
       /\ functionID[r] # None => functionID[r] \in existed

\* What a run waits for is what it has asked for.
OperationAsked ==
    \A r \in Runs :
       /\ pc[r] = "waitCreate" => operation[r] \in {"create", "created", "error"}
       /\ pc[r] = "waitVersion" => operation[r] \in {"version", "ready", "error"}
       /\ operation[r] \in {"version", "ready"} => functionID[r] # None
       /\ operation[r] = "created" => r \in existed

\* A package object has the name of its run's function and commit.
PackagesInPlace ==
    \A key \in Functions \X Commits :
       package[key] # None =>
          /\ functionID[package[key]] = key[1]
          /\ inputs[package[key]].sha = key[2]

\* A run that has put its package had a commit to name it by.
CommitKnown ==
    \A r \in Runs :
       inputs[r].bucket /\ (pc[r] = "version" \/ operation[r] = "version")
          => inputs[r].sha # NoSha

\* A version is of the function its run was asked for, and is made before
\* the run says so.
VersionsMade ==
    \A r \in Runs :
       /\ version[r] # NoVersion =>
             functionID[r] # None /\ version[r].of = functionID[r]
       /\ operation[r] = "ready" => version[r] # NoVersion
       /\ output[r].VERSION_ID \in {None, r}
       /\ output[r].VERSION_ID # None => version[r] # NoVersion

FunctionExisted == function # None => function \in existed

IInv ==
    /\ TypeOK /\ IdKnown /\ OperationAsked /\ PackagesInPlace
    /\ CommitKnown /\ VersionsMade /\ FunctionExisted /\ CodeOfSameCommit

\* The invariant holds before any run starts.
LEMMA InitIInv == Init => IInv
<1> SUFFICES ASSUME Init PROVE IInv
    OBVIOUS
<1> USE NamesAssumption DEF Init, Functions
<1>1. TypeOK
    BY DEF TypeOK, NoVersion
<1>2. IdKnown /\ OperationAsked /\ PackagesInPlace
    BY DEF IdKnown, OperationAsked, PackagesInPlace
<1>3. CommitKnown /\ VersionsMade /\ FunctionExisted /\ CodeOfSameCommit
    BY DEF CommitKnown, VersionsMade, FunctionExisted, CodeOfSameCommit
<1> QED
    BY <1>1, <1>2, <1>3 DEF IInv

\* The package object of a run that has a function and a commit.
LEMMA ObjectNameType ==
    ASSUME TypeOK, NEW r \in Runs, functionID[r] # None, inputs[r].sha # NoSha
    PROVE  ObjectName(r) \in Functions \X Commits
<1>1. inputs[r].sha \in Commits
    BY InputsAssumption DEF TypeOK
<1> QED
    BY <1>1 DEF TypeOK, ObjectName

\* The code of a version is that of its run or, from the bucket, that of a
\* run of the same commit for the same function.
LEMMA CodeFound ==
    ASSUME IInv, NEW r \in Runs, operation[r] = "version", Code(r) # None
    PROVE  /\ Code(r) \in Runs
           /\ \/ Code(r) = r
              \/ /\ inputs[r].bucket
                 /\ inputs[Code(r)].sha = inputs[r].sha
                 /\ functionID[Code(r)] = functionID[r]
<1>1. CASE ~inputs[r].bucket
    BY <1>1 DEF Code
<1>2. CASE inputs[r].bucket
  <2>1. ObjectName(r) \in Functions \X Commits
      BY <1>2, ObjectNameType DEF IInv, OperationAsked, CommitKnown
  <2>2. Code(r) = package[ObjectName(r)]
      BY <1>2 DEF Code
  <2>3. Code(r) \in Runs
      BY <2>1, <2>2 DEF IInv, TypeOK
  <2>4. /\ functionID[Code(r)] = ObjectName(r)[1]
        /\ inputs[Code(r)].sha = ObjectName(r)[2]
      BY <2>1, <2>2 DEF IInv, PackagesInPlace
  <2> QED
      BY <1>2, <2>3, <2>4 DEF ObjectName
<1> QED
    BY <1>1, <1>2

-----------------------------------------------------------------------------
(***************************************************************************)
(* The steps of a run and of the cloud keep the invariant.                 *)
(***************************************************************************)
\* The checks of main.
LEMMA StartStep ==
    ASSUME IInv, NEW r \in Runs, Start(r)
    PROVE  IInv'
<1> USE NamesAssumption DEF IInv, Start, AfterChecks, Goto, cloud, Functions
<1>1. TypeOK'
    BY DEF TypeOK, Running, Ended
<1>2. IdKnown' /\ OperationAsked' /\ FunctionExisted'
    BY DEF TypeOK, IdKnown, OperationAsked, FunctionExisted
<1>3. PackagesInPlace' /\ CodeOfSameCommit'
    BY DEF TypeOK, IdKnown, PackagesInPlace, CodeOfSameCommit, VersionsMade, OperationAsked
<1>4. CommitKnown' /\ VersionsMade'
    BY DEF TypeOK, CommitKnown, VersionsMade, IdKnown, OperationAsked
<1> QED
    BY <1>1, <1>2, <1>3, <1>4

\* The function is asked for.
LEMMA CreateFunctionStep ==
    ASSUME IInv, NEW r \in Runs, CreateFunction(r)
    PROVE  IInv'
<1> USE NamesAssumption DEF IInv, CreateFunction, Goto, Functions
<1>1. TypeOK'
    BY DEF TypeOK, Running, Ended
<1>2. IdKnown' /\ OperationAsked' /\ FunctionExisted'
    BY DEF TypeOK, IdKnown, OperationAsked, FunctionExisted
<1>3. PackagesInPlace' /\ CodeOfSameCommit'
    BY DEF TypeOK, IdKnown, PackagesInPlace, CodeOfSameCommit, VersionsMade, OperationAsked
<1>4. CommitKnown' /\ VersionsMade'
    BY DEF TypeOK, CommitKnown, VersionsMade, IdKnown, OperationAsked
<1> QED
    BY <1>1, <1>2, <1>3, <1>4

\* The package cannot be named.
LEMMA NoCommitShaStep ==
    ASSUME IInv, NEW r \in Runs, NoCommitSha(r)
    PROVE  IInv'
<1> USE NamesAssumption DEF IInv, NoCommitSha, Goto, cloud, Functions
<1>1. TypeOK'
    BY DEF TypeOK, Running, Ended
<1>2. IdKnown' /\ OperationAsked' /\ FunctionExisted'
    BY DEF TypeOK, IdKnown, OperationAsked, FunctionExisted
<1>3. PackagesInPlace' /\ CodeOfSameCommit'
    BY DEF TypeOK, IdKnown, PackagesInPlace, CodeOfSameCommit, VersionsMade, OperationAsked
<1>4. CommitKnown' /\ VersionsMade'
    BY DEF TypeOK, CommitKnown, VersionsMade, IdKnown, OperationAsked
<1> QED
    BY <1>1, <1>2, <1>3, <1>4

\* The version is asked for.
LEMMA CreateVersionStep ==
    ASSUME IInv, NEW r \in Runs, CreateVersion(r)
    PROVE  IInv'
<1> USE NamesAssumption DEF IInv, CreateVersion, Goto, Functions
<1>1. TypeOK'
    BY DEF TypeOK, Running, Ended
<1>2. IdKnown' /\ OperationAsked' /\ FunctionExisted'
    BY DEF TypeOK, IdKnown, OperationAsked, FunctionExisted
<1>3. PackagesInPlace' /\ CodeOfSameCommit'
    BY DEF TypeOK, IdKnown, PackagesInPlace, CodeOfSameCommit, VersionsMade, OperationAsked
<1>4. CommitKnown' /\ VersionsMade'
    BY DEF TypeOK, CommitKnown, VersionsMade, IdKnown, OperationAsked
<1> QED
    BY <1>1, <1>2, <1>3, <1>4

\* The run learns of its version.
LEMMA VersionReturnsStep ==
    ASSUME IInv, NEW r \in Runs, VersionReturns(r)
    PROVE  IInv'
<1> USE NamesAssumption DEF IInv, VersionReturns, SetOutput, Succeeded, Failed, Goto, cloud, Functions
<1>1. TypeOK'
    BY DEF TypeOK, Running, Ended
<1>2. IdKnown' /\ OperationAsked' /\ FunctionExisted'
    BY DEF TypeOK, IdKnown, OperationAsked, FunctionExisted
<1>3. PackagesInPlace' /\ CodeOfSameCommit'
    BY DEF TypeOK, IdKnown, PackagesInPlace, CodeOfSameCommit, VersionsMade, OperationAsked
<1>4. CommitKnown' /\ VersionsMade'
    BY DEF TypeOK, CommitKnown, VersionsMade, IdKnown, OperationAsked
<1> QED
    BY <1>1, <1>2, <1>3, <1>4

\* The cloud creates a function, or not.
LEMMA CarryOutCreateStep ==
    ASSUME IInv, NEW r \in Runs, CarryOutCreate(r)
    PROVE  IInv'
<1> USE NamesAssumption DEF IInv, CarryOutCreate, run, Functions
<1>1. TypeOK'
    BY DEF TypeOK, Running, Ended
<1>2. IdKnown' /\ OperationAsked' /\ FunctionExisted'
    BY DEF TypeOK, IdKnown, OperationAsked, FunctionExisted
<1>3. PackagesInPlace' /\ CodeOfSameCommit'
    BY DEF TypeOK, IdKnown, PackagesInPlace, CodeOfSameCommit, VersionsMade, OperationAsked
<1>4. CommitKnown' /\ VersionsMade'
    BY DEF TypeOK, CommitKnown, VersionsMade, IdKnown, OperationAsked
<1> QED
    BY <1>1, <1>2, <1>3, <1>4

\* getOrCreateFunctionID returns a function that has been there.
LEMMA FoundStep ==
    ASSUME IInv, NEW r \in Runs, pc[r] \in {"list", "waitCreate"},
           NEW id \in Functions, id \in existed, Found(r, id), UNCHANGED <<inputs, cloud>>
    PROVE  IInv'
<1> USE NamesAssumption DEF IInv, Found, SetOutput, Goto, cloud, Functions
<1>1. functionID[r] = None /\ id # None
    BY DEF IdKnown
<1>2. TypeOK'
  <2>1. output' \in [Runs -> [FUNCTION_ID : Functions \cup {None},
                            VERSION_ID : Runs \cup {None}]]
    <3>1. output[r] \in [FUNCTION_ID : Functions \cup {None}, VERSION_ID : Runs \cup {None}]
        BY DEF TypeOK
    <3>2. [output[r] EXCEPT !.FUNCTION_ID = id]
             \in [FUNCTION_ID : Functions \cup {None}, VERSION_ID : Runs \cup {None}]
        BY <3>1
    <3> QED
        BY <3>2 DEF TypeOK
  <2> QED
      BY <2>1 DEF TypeOK, Running, Ended
<1>3. /\ \A s \in Runs : output'[s].FUNCTION_ID = IF s = r THEN id ELSE output[s].FUNCTION_ID
      /\ \A s \in Runs : output'[s].VERSION_ID = output[s].VERSION_ID
    BY DEF TypeOK
<1>4. /\ functionID' = [functionID EXCEPT ![r] = id]
      /\ pc' = [pc EXCEPT ![r] = IF inputs[r].bucket THEN "upload" ELSE "version"]
      /\ UNCHANGED <<inputs, function, package, operation, version, existed>>
    OBVIOUS
<1>5. IdKnown' /\ OperationAsked' /\ FunctionExisted'
    BY <1>1, <1>3, <1>4 DEF TypeOK, IdKnown, OperationAsked, FunctionExisted
<1>6. PackagesInPlace'
    BY <1>1, <1>4 DEF TypeOK, PackagesInPlace
<1>7. CommitKnown' /\ VersionsMade'
    BY <1>1, <1>3, <1>4 DEF TypeOK, CommitKnown, VersionsMade, OperationAsked
<1>8. CodeOfSameCommit'
  <2>1. \A s \in Runs : version[s] # NoVersion => version[s].of \in Functions
      BY DEF TypeOK, VersionsMade
  <2> QED
      BY <1>1, <1>4, <2>1 DEF TypeOK, CodeOfSameCommit
<1> QED
    BY <1>2, <1>5, <1>6, <1>7, <1>8

\* Looking the function up puts out an id that the name has or had.
LEMMA ListStep ==
    ASSUME IInv, NEW r \in Runs, List(r)
    PROVE  IInv'
<1>1. CASE function # None
  <2>1. function \in Functions /\ function \in existed
      BY <1>1 DEF IInv, TypeOK, FunctionExisted
  <2> QED
      BY <1>1, <2>1, FoundStep DEF List
<1>2. CASE function = None
  <2> USE <1>2, NamesAssumption DEF IInv, List, Goto, cloud, Functions
  <2>1. TypeOK'
      BY DEF TypeOK, Running, Ended
  <2>2. IdKnown' /\ OperationAsked' /\ FunctionExisted' /\ PackagesInPlace'
      BY DEF TypeOK, IdKnown, OperationAsked, FunctionExisted, PackagesInPlace
  <2>3. CommitKnown' /\ VersionsMade' /\ CodeOfSameCommit'
      BY DEF TypeOK, CommitKnown, VersionsMade, CodeOfSameCommit
  <2> QED
      BY <2>1, <2>2, <2>3
<1> QED
    BY <1>1, <1>2

\* The answer to a creation puts out the id of the function it made.
LEMMA CreateReturnsStep ==
    ASSUME IInv, NEW r \in Runs, CreateReturns(r)
    PROVE  IInv'
<1>1. CASE Succeeded(r) /\ Found(r, CreatedID(r))
  <2>1. r \in Functions /\ r \in existed
      BY <1>1 DEF IInv, OperationAsked, Succeeded, CreateReturns, Functions
  <2> QED
      BY <1>1, <2>1, FoundStep DEF CreateReturns, CreatedID
<1>2. CASE Failed(r) /\ Goto(r, "failed") /\ UNCHANGED <<functionID, output>>
  <2> USE <1>2, NamesAssumption DEF IInv, CreateReturns, Goto, cloud, Functions
  <2>1. TypeOK'
      BY DEF TypeOK, Running, Ended
  <2>2. IdKnown' /\ OperationAsked' /\ FunctionExisted' /\ PackagesInPlace'
      BY DEF TypeOK, IdKnown, OperationAsked, FunctionExisted, PackagesInPlace
  <2>3. CommitKnown' /\ VersionsMade' /\ CodeOfSameCommit'
      BY DEF TypeOK, CommitKnown, VersionsMade, CodeOfSameCommit
  <2> QED
      BY <2>1, <2>2, <2>3
<1> QED
    BY <1>1, <1>2 DEF CreateReturns

\* A put of the package, and what comes after it; the run that puts it has
\* a function and a commit.
LEMMA PutStep ==
    ASSUME IInv, NEW r \in Runs, pc[r] = "upload", inputs[r].sha # NoSha,
           package' = [package EXCEPT ![ObjectName(r)] = r],
           NEW label \in {"version", "failed", "killed"}, Goto(r, label),
           UNCHANGED <<inputs, functionID, output, function, operation, version, existed>>
    PROVE  IInv'
<1> USE NamesAssumption DEF IInv, Goto, Functions
<1>1. ObjectName(r) \in Functions \X Commits
    BY ObjectNameType DEF IdKnown
<1>2. TypeOK'
    BY <1>1 DEF TypeOK, Running, Ended
<1>3. IdKnown' /\ OperationAsked' /\ FunctionExisted'
    BY DEF TypeOK, IdKnown, OperationAsked, FunctionExisted
<1>4. PackagesInPlace'
    BY <1>1 DEF TypeOK, PackagesInPlace, ObjectName
<1>5. CommitKnown' /\ VersionsMade' /\ CodeOfSameCommit'
    BY DEF TypeOK, CommitKnown, VersionsMade, CodeOfSameCommit
<1> QED
    BY <1>2, <1>3, <1>4, <1>5

\* A run that breaks has ended, and may have put its package before.
LEMMA BreaksStep ==
    ASSUME IInv, NEW r \in Runs, Breaks(r)
    PROVE  IInv'
<1>1. PICK label \in {"failed", "killed"} : Goto(r, label)
    BY DEF Breaks
<1>2. CASE UNCHANGED package
  <2> USE <1>1, <1>2, NamesAssumption DEF IInv, Breaks, Goto, Functions
  <2>1. TypeOK'
      BY DEF TypeOK, Running, Ended
  <2>2. IdKnown' /\ OperationAsked' /\ FunctionExisted' /\ PackagesInPlace'
      BY DEF TypeOK, IdKnown, OperationAsked, FunctionExisted, PackagesInPlace
  <2>3. CommitKnown' /\ VersionsMade' /\ CodeOfSameCommit'
      BY DEF TypeOK, CommitKnown, VersionsMade, CodeOfSameCommit
  <2> QED
      BY <2>1, <2>2, <2>3
<1>3. CASE ~UNCHANGED package
    BY <1>1, <1>3, PutStep DEF Breaks
<1> QED
    BY <1>2, <1>3

\* The cloud makes a version, of the code that it finds then, or does not.
LEMMA CarryOutVersionStep ==
    ASSUME IInv, NEW r \in Runs, CarryOutVersion(r)
    PROVE  IInv'
<1> USE NamesAssumption DEF IInv, CarryOutVersion, run, Functions
<1> DEFINE made == [of |-> functionID[r], code |-> Code(r)]
<1>1. CASE UNCHANGED version /\ operation' = [operation EXCEPT ![r] = "error"]
    BY <1>1 DEF TypeOK, IdKnown, OperationAsked, FunctionExisted, PackagesInPlace,
                CommitKnown, VersionsMade, CodeOfSameCommit
<1>2. CASE /\ functionID[r] = function /\ Code(r) # None
           /\ version' = [version EXCEPT ![r] = made]
           /\ operation' = [operation EXCEPT ![r] = "ready"]
  <2> HIDE DEF made
  <2>1. /\ version' = [version EXCEPT ![r] = made]
        /\ operation' = [operation EXCEPT ![r] = "ready"]
        /\ made.of = functionID[r] /\ made.code = Code(r)
        /\ made = [of |-> functionID[r], code |-> Code(r)]
      BY <1>2 DEF made
  <2>2. /\ functionID[r] \in Functions
        /\ Code(r) \in Runs
        /\ made # NoVersion
    <3>1. functionID[r] # None
        BY DEF OperationAsked
    <3>2. Code(r) \in Runs
        BY <1>2, CodeFound
    <3> QED
        BY <2>1, <3>1, <3>2 DEF TypeOK, NoVersion
  <2>3. TypeOK'
    <3>1. made \in [of : Functions \cup {None}, code : Runs \cup {None}]
        BY <2>1, <2>2
    <3> QED
        BY <2>1, <3>1 DEF TypeOK
  <2>4. IdKnown' /\ OperationAsked' /\ FunctionExisted' /\ PackagesInPlace'
      BY <2>1, <2>2 DEF TypeOK, IdKnown, OperationAsked, FunctionExisted, PackagesInPlace
  <2>5. CommitKnown' /\ VersionsMade'
      BY <2>1, <2>2 DEF TypeOK, CommitKnown, VersionsMade
  <2>6. CodeOfSameCommit'
      BY <1>2, <2>1, <2>2, CodeFound DEF TypeOK, CodeOfSameCommit
  <2> QED
      BY <2>3, <2>4, <2>5, <2>6
<1> QED
    BY <1>1, <1>2

\* Others take the function or a package away.
LEMMA OthersStep ==
    ASSUME IInv, Others
    PROVE  IInv'
<1> USE DEF IInv, run
<1>1. CASE DeleteFunction
    BY <1>1 DEF DeleteFunction, TypeOK, IdKnown, OperationAsked, FunctionExisted,
                PackagesInPlace, CommitKnown, VersionsMade, CodeOfSameCommit
<1>2. CASE \E key \in Functions \X Commits : DeletePackage(key)
    BY <1>2 DEF DeletePackage, TypeOK, IdKnown, OperationAsked, FunctionExisted,
                PackagesInPlace, CommitKnown, VersionsMade, CodeOfSameCommit
<1> QED
    BY <1>1, <1>2 DEF Others

\* Every step of the runs, of the cloud and of its clients keeps it.
LEMMA StepIInv == IInv /\ [Next]_vars => IInv'
<1> SUFFICES ASSUME IInv, [Next]_vars PROVE IInv'
    OBVIOUS
<1>1. ASSUME NEW r \in Runs, Start(r) \/ Run(r) \/ Breaks(r) \/ CarryOut(r)
      PROVE  IInv'
  <2>1. CASE UploadToS3(r)
      BY <2>1, PutStep DEF UploadToS3
  <2> QED
      BY <1>1, <2>1, StartStep, ListStep, CreateFunctionStep, CreateReturnsStep,
         NoCommitShaStep, CreateVersionStep, VersionReturnsStep, BreaksStep,
         CarryOutCreateStep, CarryOutVersionStep DEF Run, CarryOut
<1>2. CASE Others
    BY <1>2, OthersStep
<1>3. CASE UNCHANGED vars
    BY <1>3 DEF vars, IInv, TypeOK, IdKnown, OperationAsked, FunctionExisted,
                PackagesInPlace, CommitKnown, VersionsMade, CodeOfSameCommit
<1> QED
    BY <1>1, <1>2, <1>3 DEF Next
-----------------------------------------------------------------------------
(***************************************************************************)
(* All that ties the runs, the packages, the operations and the versions   *)
(* together, for any number of runs of any commits.                        *)
(***************************************************************************)
THEOREM DeployInvariant == Spec => []IInv
BY InitIInv, StepIInv, PTL DEF Spec

(***************************************************************************)
(* The types of the runs and the cloud (TypeOK).                           *)
(***************************************************************************)
THEOREM TypeCorrect == Spec => []TypeOK
<1>1. IInv => TypeOK
    BY DEF IInv
<1> QED
    BY <1>1, DeployInvariant, PTL

(***************************************************************************)
(* Concurrent deployments of different commits never exchange their code   *)
(* (CodeOfSameCommit), as the name of a package object has the commit.     *)
(***************************************************************************)
THEOREM CodeIsOfCommit == Spec => []CodeOfSameCommit
<1>1. IInv => CodeOfSameCommit
    BY DEF IInv
<1> QED
    BY <1>1, DeployInvariant, PTL

(***************************************************************************)
(* What a run has put out is true, whether it succeeded, failed or was     *)
(* killed afterwards (OutputsTruthful).                                    *)
(***************************************************************************)
THEOREM OutputsAreTrue == Spec => []OutputsTruthful
<1>1. IInv => OutputsTruthful
    BY DEF IInv, TypeOK, IdKnown, VersionsMade, OutputsTruthful
<1> QED
    BY <1>1, DeployInvariant, PTL
-----------------------------------------------------------------------------
Promise(r) == INSTANCE DeployPromise
    WITH status <- Status(r), deployed <- version[r] # NoVersion

\* What a step does to one run: nothing, or it starts, goes on, fails,
\* succeeds with its version made, or has it made.
LEMMA StepOfOne ==
    ASSUME IInv, [Next]_vars, NEW r \in Runs
    PROVE  \/ pc'[r] = pc[r] /\ version'[r] = version[r]
           \/ /\ pc[r] = "inputs" /\ pc'[r] \in {"list", "failed"}
              /\ version'[r] = version[r]
           \/ /\ pc[r] \in Running /\ pc'[r] \in Running \cup {"failed", "killed"}
              /\ version'[r] = version[r]
           \/ /\ pc[r] \in Running /\ pc'[r] = "done"
              /\ version[r] # NoVersion /\ version'[r] = version[r]
           \/ /\ pc[r] # "inputs" /\ pc'[r] = pc[r] /\ version'[r] # NoVersion
<1> USE NamesAssumption DEF IInv, TypeOK, Goto, run, cloud, Running
<1>1. ASSUME NEW s \in Runs, Start(s) \/ Breaks(s)
      PROVE  /\ version'[r] = version[r]
             /\ \/ pc'[r] = pc[r]
                \/ pc[r] = "inputs" /\ pc'[r] \in {"list", "failed"}
                \/ pc[r] \in Running /\ pc'[r] \in {"failed", "killed"}
    BY <1>1 DEF Start, AfterChecks, Breaks
<1>2. ASSUME NEW s \in Runs, Run(s)
      PROVE  /\ version'[r] = version[r]
             /\ \/ pc'[r] = pc[r]
                \/ pc[r] \in Running /\ pc'[r] \in Running \cup {"failed"}
                \/ pc[r] \in Running /\ pc'[r] = "done" /\ version[r] # NoVersion
    BY <1>2 DEF Run, List, CreateFunction, CreateReturns, Found, UploadToS3, NoCommitSha,
                CreateVersion, VersionReturns, Succeeded, OperationAsked, VersionsMade
<1>3. ASSUME NEW s \in Runs, CarryOut(s)
      PROVE  /\ UNCHANGED pc
             /\ \/ version'[r] = version[r]
                \/ pc[r] # "inputs" /\ version'[r] # NoVersion
  <2>1. CASE CarryOutCreate(s) \/ UNCHANGED version
      BY <1>3, <2>1 DEF CarryOut, CarryOutCreate, CarryOutVersion
  <2>2. CASE /\ CarryOutVersion(s) /\ functionID[s] = function
             /\ version' = [version EXCEPT ![s] = [of |-> function, code |-> Code(s)]]
    <3>1. functionID[s] # None /\ pc[s] # "inputs"
        BY <2>2 DEF CarryOutVersion, OperationAsked, IdKnown
    <3>2. [of |-> function, code |-> Code(s)] # NoVersion
        BY <2>2, <3>1 DEF NoVersion
    <3> QED
        BY <2>2, <3>1, <3>2 DEF CarryOutVersion
  <2> QED
      BY <1>3, <2>1, <2>2 DEF CarryOut, CarryOutVersion
<1>4. CASE Others \/ UNCHANGED vars
    BY <1>4 DEF Others, DeleteFunction, DeletePackage, vars
<1> QED
    BY <1>1, <1>2, <1>3, <1>4 DEF Next

(***************************************************************************)
(* The safety of DeployPromise for any run among any number: each step of  *)
(* the cloud and of all runs is a step of the promise or a stutter, so     *)
(* success is reported only when the version was made.                     *)
(***************************************************************************)
THEOREM KeepsPromise ==
    ASSUME NEW r \in Runs
    PROVE  Spec => Promise(r)!Init /\ [][Promise(r)!Next]_(Promise(r)!vars)
<1>1. Init => Promise(r)!Init
  <2> SUFFICES ASSUME Init PROVE Promise(r)!Init
      OBVIOUS
  <2>1. Status(r) = "idle"
      BY DEF Init, Status, Running
  <2>2. version[r] = NoVersion
      BY DEF Init
  <2> QED
      BY <2>1, <2>2, Zenon DEF Promise!Init
<1>2. IInv /\ [Next]_vars => [Promise(r)!Next]_(Promise(r)!vars)
  <2> SUFFICES ASSUME IInv, [Next]_vars
               PROVE  [Promise(r)!Next]_(Promise(r)!vars)
      OBVIOUS
  <2> USE DEF Status, Running
  <2>1. CASE pc'[r] = pc[r] /\ version'[r] = version[r]
      BY <2>1 DEF Promise!vars, NoVersion
  <2>2. CASE /\ pc[r] = "inputs" /\ pc'[r] \in {"list", "failed"}
             /\ version'[r] = version[r]
      BY <2>2 DEF Promise!Next, Promise!Start, NoVersion
  <2>3. CASE /\ pc[r] \in Running /\ pc'[r] \in Running \cup {"failed", "killed"}
             /\ version'[r] = version[r]
      BY <2>3 DEF Promise!Next, Promise!Fail, Promise!vars, NoVersion
  <2>4. CASE /\ pc[r] \in Running /\ pc'[r] = "done"
             /\ version[r] # NoVersion /\ version'[r] = version[r]
      BY <2>4 DEF Promise!Next, Promise!Succeed, NoVersion
  <2>5. CASE pc[r] # "inputs" /\ pc'[r] = pc[r] /\ version'[r] # NoVersion
    <3>1. Status(r) # "idle" /\ Status(r)' = Status(r)
        BY <2>5 DEF IInv, TypeOK, Ended
    <3>2. (version[r] # NoVersion)' = TRUE
        BY <2>5 DEF NoVersion
    <3> QED
        BY <3>1, <3>2, Zenon DEF Promise!Next, Promise!Deploy
  <2> QED
      BY StepOfOne, <2>1, <2>2, <2>3, <2>4, <2>5
<1> QED
    BY <1>1, <1>2, DeployInvariant, PTL DEF Spec
=============================================================================
