--------------------------- MODULE FunctionDeploy ---------------------------
(***************************************************************************)
(* Runs of the function action (cmd/function/main.go) that deploy the same *)
(* function: find it by name or create it, put the zipped sources into the *)
(* package bucket if there is one, ask for a version, wait for it.  The    *)
(* cloud carries out the operations on its own, also for a run that was    *)
(* killed; others may delete the function or the packages at any time.     *)
(* A function and a version are known by the run that asked for them.      *)
(***************************************************************************)
EXTENDS Naturals

CONSTANTS
    Runs,
    Commits,      \* values of SOURCECRAFT_COMMIT_SHA
    NoSha,        \* SOURCECRAFT_COMMIT_SHA is not set
    Inputs,       \* what a run may be given: do its inputs pass the checks of
                  \* main and its sources zip, is there a BUCKET, the commit,
                  \* can a request be made of the rest (service accounts,
                  \* asynchronous invocation, secrets, size of an inline zip)
    Preexisting,  \* a function that was there before all runs
    None

ASSUME InputsAssumption ==
    Inputs \subseteq [valid : BOOLEAN, bucket : BOOLEAN,
                      sha : Commits \cup {NoSha}, complete : BOOLEAN]
ASSUME NamesAssumption ==
    /\ None \notin Runs \cup {Preexisting}
    /\ Preexisting \notin Runs
    /\ NoSha \notin Commits
    /\ None \notin {"create", "created", "version", "ready", "error"}

VARIABLES
    inputs,      \* the inputs of every run
    pc,          \* where a run is
    functionID,  \* what getOrCreateFunctionID returned
    output,      \* FUNCTION_ID and VERSION_ID as the workflow gets them
    function,    \* the function that has the name now
    package,     \* whose zip a package object holds
    operation,   \* the state of the operation a run asked for last
    version,     \* the version a run has made: of which function, whose code
    existed      \* history: the functions there have been

run == <<inputs, pc, functionID, output>>
cloud == <<function, package, operation, version, existed>>
vars == <<inputs, pc, functionID, output, function, package, operation, version,
          existed>>

Functions == Runs \cup {Preexisting}
Running == {"list", "create", "waitCreate", "upload", "version", "waitVersion"}
Ended == {"done", "failed", "killed"}

TypeOK ==
    /\ inputs \in [Runs -> Inputs]
    /\ pc \in [Runs -> {"inputs"} \cup Running \cup Ended]
    /\ functionID \in [Runs -> Functions \cup {None}]
    /\ output \in [Runs -> [FUNCTION_ID : Functions \cup {None},
                            VERSION_ID : Runs \cup {None}]]
    /\ function \in Functions \cup {None}
    /\ package \in [Functions \X Commits -> Runs \cup {None}]
    /\ operation \in [Runs -> {None, "create", "created", "version", "ready", "error"}]
    /\ version \in [Runs -> [of : Functions \cup {None}, code : Runs \cup {None}]]
    /\ existed \subseteq Functions

NoVersion == [of |-> None, code |-> None]

Init ==
    /\ inputs \in [Runs -> Inputs]
    /\ pc = [r \in Runs |-> "inputs"]
    /\ functionID = [r \in Runs |-> None]
    /\ output = [r \in Runs |-> [FUNCTION_ID |-> None, VERSION_ID |-> None]]
    /\ function \in {None, Preexisting}
    /\ package = [key \in Functions \X Commits |-> None]
    /\ operation = [r \in Runs |-> None]
    /\ version = [r \in Runs |-> NoVersion]
    /\ existed = {function} \ {None}
-----------------------------------------------------------------------------
(***************************************************************************)
(* Faulty variants of the definitions below, for the mutation checks.      *)
(***************************************************************************)
\* The package object is named by the function alone.
KeyWithoutSha(r) == <<functionID[r], CHOOSE c \in Commits : TRUE>>
\* The operation is not waited for.
NoWait(r) == operation[r] # "error"
\* Wait goes on when the operation has failed.
WaitsForEver(r) == FALSE
\* The operation's id is taken for the function's.
IdOfOperation(r) == [operationOf |-> r]
-----------------------------------------------------------------------------
Goto(r, label) == pc' = [pc EXCEPT ![r] = label]

\* objectName := functionID/sha.zip
ObjectName(r) == <<functionID[r], inputs[r].sha>>

\* op.Wait returned without or with an error.
Succeeded(r) == operation[r] \in {"created", "ready"}
Failed(r) == operation[r] = "error"

\* The function id in the metadata of the create operation.
CreatedID(r) == r

AfterChecks(r) == IF inputs[r].valid THEN "list" ELSE "failed"

\* The output file takes the value (SetOutput only logs it when it cannot).
SetOutput(r, name, value) == output' = [output EXCEPT ![r][name] = value]

\* getOrCreateFunctionID returns.
Found(r, id) ==
    /\ functionID' = [functionID EXCEPT ![r] = id]
    /\ SetOutput(r, "FUNCTION_ID", id)
    /\ Goto(r, IF inputs[r].bucket THEN "upload" ELSE "version")

\* main: credentials and inputs are checked, the sources are zipped.
Start(r) ==
    /\ pc[r] = "inputs"
    /\ Goto(r, AfterChecks(r))
    /\ UNCHANGED <<inputs, functionID, output, cloud>>

List(r) ==
    /\ pc[r] = "list"
    /\ IF function = None
       THEN Goto(r, "create") /\ UNCHANGED <<functionID, output>>
       ELSE Found(r, function)
    /\ UNCHANGED <<inputs, cloud>>

\* The name may have been taken since it was looked for.
CreateFunction(r) ==
    /\ pc[r] = "create"
    /\ IF function = None
       THEN /\ operation' = [operation EXCEPT ![r] = "create"]
            /\ Goto(r, "waitCreate")
       ELSE Goto(r, "failed") /\ UNCHANGED operation
    /\ UNCHANGED <<inputs, functionID, output, function, package, version, existed>>

CreateReturns(r) ==
    /\ pc[r] = "waitCreate"
    /\ \/ Succeeded(r) /\ Found(r, CreatedID(r))
       \/ Failed(r) /\ Goto(r, "failed") /\ UNCHANGED <<functionID, output>>
    /\ UNCHANGED <<inputs, cloud>>

UploadToS3(r) ==
    /\ pc[r] = "upload"
    /\ inputs[r].sha # NoSha
    /\ package' = [package EXCEPT ![ObjectName(r)] = r]
    /\ Goto(r, "version")
    /\ UNCHANGED <<inputs, functionID, output, function, operation, version, existed>>

NoCommitSha(r) ==
    /\ pc[r] = "upload"
    /\ inputs[r].sha = NoSha
    /\ Goto(r, "failed")
    /\ UNCHANGED <<inputs, functionID, output, cloud>>

\* The request is put together and sent.
CreateVersion(r) ==
    /\ pc[r] = "version"
    /\ IF inputs[r].complete /\ functionID[r] = function
       THEN /\ operation' = [operation EXCEPT ![r] = "version"]
            /\ Goto(r, "waitVersion")
       ELSE Goto(r, "failed") /\ UNCHANGED operation
    /\ UNCHANGED <<inputs, functionID, output, function, package, version, existed>>

VersionReturns(r) ==
    /\ pc[r] = "waitVersion"
    /\ \/ Succeeded(r) /\ SetOutput(r, "VERSION_ID", r) /\ Goto(r, "done")
       \/ Failed(r) /\ Goto(r, "failed") /\ UNCHANGED output
    /\ UNCHANGED <<inputs, functionID, cloud>>

\* Any request may fail, a put with or without effect; the process may end.
Breaks(r) ==
    /\ pc[r] \in Running
    /\ \E label \in {"failed", "killed"} : Goto(r, label)
    /\ \/ UNCHANGED package
       \/ /\ pc[r] = "upload"
          /\ inputs[r].sha # NoSha
          /\ package' = [package EXCEPT ![ObjectName(r)] = r]
    /\ UNCHANGED <<inputs, functionID, output, function, operation, version, existed>>

Run(r) ==
    \/ List(r) \/ CreateFunction(r) \/ CreateReturns(r)
    \/ UploadToS3(r) \/ NoCommitSha(r)
    \/ CreateVersion(r) \/ VersionReturns(r)
-----------------------------------------------------------------------------
(***************************************************************************)
(* The cloud and its other clients.                                        *)
(***************************************************************************)
\* Of several creates for one name only one succeeds.
CarryOutCreate(r) ==
    /\ operation[r] = "create"
    /\ \/ /\ function = None
          /\ function' = r
          /\ existed' = existed \cup {r}
          /\ operation' = [operation EXCEPT ![r] = "created"]
       \/ /\ UNCHANGED <<function, existed>>
          /\ operation' = [operation EXCEPT ![r] = "error"]
    /\ UNCHANGED <<run, package, version>>

\* The package is read when the operation is carried out.
Code(r) == IF inputs[r].bucket THEN package[ObjectName(r)] ELSE r

CarryOutVersion(r) ==
    /\ operation[r] = "version"
    /\ \/ /\ functionID[r] = function
          /\ Code(r) # None
          /\ version' = [version EXCEPT ![r] = [of |-> function, code |-> Code(r)]]
          /\ operation' = [operation EXCEPT ![r] = "ready"]
       \/ /\ UNCHANGED version
          /\ operation' = [operation EXCEPT ![r] = "error"]
    /\ UNCHANGED <<run, function, package, existed>>

DeleteFunction ==
    /\ function # None
    /\ function' = None
    /\ UNCHANGED <<run, package, operation, version, existed>>

DeletePackage(key) ==
    /\ package[key] # None
    /\ package' = [package EXCEPT ![key] = None]
    /\ UNCHANGED <<run, function, operation, version, existed>>

CarryOut(r) == CarryOutCreate(r) \/ CarryOutVersion(r)

Others == DeleteFunction \/ \E key \in Functions \X Commits : DeletePackage(key)

Next == (\E r \in Runs : Start(r) \/ Run(r) \/ Breaks(r) \/ CarryOut(r)) \/ Others

(***************************************************************************)
(* A process that was started goes on, and the cloud finishes every        *)
(* operation one way or the other; op.Wait has no limit of its own.        *)
(***************************************************************************)
Spec ==
    /\ Init
    /\ [][Next]_vars
    /\ \A r \in Runs : WF_vars(Run(r)) /\ WF_vars(CarryOut(r))
-----------------------------------------------------------------------------
(***************************************************************************)
(* A version runs the code of its own run or, when packages go through a   *)
(* bucket, of a run of the same commit for the same function (uploadToS3): *)
(* concurrent deployments of two commits never exchange their code.        *)
(***************************************************************************)
CodeOfSameCommit ==
    \A r \in Runs :
       version[r] # NoVersion =>
          \/ version[r].code = r
          \/ /\ inputs[r].bucket
             /\ inputs[version[r].code].sha = inputs[r].sha
             /\ functionID[version[r].code] = version[r].of

(***************************************************************************)
(* The outputs of a run, whenever it ended, are true: FUNCTION_ID is a     *)
(* function that existed, VERSION_ID a version of that function.           *)
(***************************************************************************)
OutputsTruthful ==
    \A r \in Runs :
       /\ output[r].FUNCTION_ID # None => output[r].FUNCTION_ID \in existed
       /\ output[r].VERSION_ID # None =>
             /\ version[output[r].VERSION_ID] # NoVersion
             /\ output[r].FUNCTION_ID = version[output[r].VERSION_ID].of

\* What the workflow sees of a run.
Status(r) ==
    CASE pc[r] = "inputs" -> "idle"
      [] pc[r] \in Running -> "running"
      [] OTHER -> pc[r]
=============================================================================
