-------------------------- MODULE ObjStorageUpload --------------------------
(***************************************************************************)
(* Runs of the obj-storage-upload action (cmd/obj-storage-upload/main.go   *)
(* and internal/objstore/upload.go) that share one bucket.  A run checks   *)
(* its inputs, clears the bucket when CLEAR is set, then visits the files  *)
(* its INCLUDE patterns match and puts those no EXCLUDE pattern matches.   *)
(* A file stands for the object key made of its path; the content of an    *)
(* object is known by the run that put it.  Clearing is taken at the level *)
(* of ClearPromise, which ClearBucket implements.                          *)
(***************************************************************************)
EXTENDS Naturals, Sequences

CONSTANTS
    Keys,     \* object keys of the files and of what is in the bucket
    Runs,     \* runs of the action
    Inputs,   \* what a run may be given: inputs that pass the checks or not,
              \* CLEAR, the files INCLUDE visits in order, those to EXCLUDE
    Earlier,  \* content put before any of the runs
    Absent    \* no object

ASSUME InputsAssumption ==
    Inputs \subseteq
        [valid : BOOLEAN, clear : BOOLEAN, visits : Seq(Keys), exclude : SUBSET Keys]
ASSUME ContentAssumption ==
    Earlier \notin Runs /\ Absent \notin Runs /\ Earlier # Absent

VARIABLES
    inputs,    \* the inputs of every run
    pc,        \* where a run is
    objects,   \* content of every key of the bucket
    next,      \* position of a run in its visits
    owed,      \* objects the clear of a run still has to remove
    leftover,  \* history: objects the service refused to delete for a run
    disturbed, \* history: keys other runs put or deleted since a run put them
    alone      \* history: no other run has been active since this one began

vars == <<inputs, pc, objects, next, owed, leftover, disturbed, alone>>

\* A request whose answer did not arrive, because of an error or because the
\* process was killed, may still take effect later.
Lost == {"deleting", "putting"}
Active == {"clear", "upload"} \cup Lost
Over == {"rejected", "done", "clearBroken", "uploadBroken"}

TypeOK ==
    /\ inputs \in [Runs -> Inputs]
    /\ pc \in [Runs -> {"inputs"} \cup Active \cup Over]
    /\ objects \in [Keys -> Runs \cup {Earlier, Absent}]
    /\ next \in [Runs -> Nat]
    /\ \A r \in Runs : next[r] \in 1 .. Len(inputs[r].visits) + 1
    /\ owed \in [Runs -> SUBSET Keys]
    /\ leftover \in [Runs -> SUBSET Keys]
    /\ disturbed \in [Runs -> SUBSET Keys]
    /\ alone \in [Runs -> BOOLEAN]

Init ==
    /\ inputs \in [Runs -> Inputs]
    /\ pc = [r \in Runs |-> "inputs"]
    /\ objects \in [Keys -> {Earlier, Absent}]
    /\ next = [r \in Runs |-> 1]
    /\ owed = [r \in Runs |-> {}]
    /\ leftover = [r \in Runs |-> {}]
    /\ disturbed = [r \in Runs |-> {}]
    /\ alone = [r \in Runs |-> FALSE]
-----------------------------------------------------------------------------
(***************************************************************************)
(* Faulty variants of the definitions below, for the mutation checks.      *)
(***************************************************************************)
\* A failed clear is only logged.
UploadAnyway == {"upload", "deleting"}
\* The exclude patterns are not looked at.
NeverSkip(r, k) == FALSE
\* The walk passes over every second file.
SkipVisit(i) == i + 2
\* CLEAR is not looked at.
NeverClear(r) == "upload"
-----------------------------------------------------------------------------
Present == {k \in Keys : objects[k] # Absent}

Visit(r) == inputs[r].visits[next[r]]

\* Does the run put the file, or does an EXCLUDE pattern match it?
Skip(r, k) == k \in inputs[r].exclude

\* The walk goes on with the next file.
NextVisit(i) == i + 1

\* main: clear first if asked to.
FirstPhase(r) == IF inputs[r].clear THEN "clear" ELSE "upload"

\* A clear that fails ends the run.
AfterClearError == {"clearBroken", "deleting"}

\* An error of Upload ends the run.
AfterPutError == {"uploadBroken", "putting"}

\* Run r puts its file for key k.
Write(r, k) ==
    /\ objects' = [objects EXCEPT ![k] = r]
    /\ owed' = [s \in Runs |-> owed[s] \ {k}]
    /\ disturbed' = [s \in Runs |-> IF s = r THEN disturbed[s] \ {k}
                                             ELSE disturbed[s] \cup {k}]

\* A deletion asked for by run r removes the objects gone.
Erase(r, gone) ==
    /\ objects' = [k \in Keys |-> IF k \in gone THEN Absent ELSE objects[k]]
    /\ disturbed' = [s \in Runs |-> IF s = r THEN disturbed[s]
                                             ELSE disturbed[s] \cup gone]

Goto(r, label) == pc' = [pc EXCEPT ![r] = label]

\* No bucket, no root or no credentials: nothing is asked of the service.
Reject(r) ==
    /\ pc[r] = "inputs"
    /\ ~inputs[r].valid
    /\ Goto(r, "rejected")
    /\ UNCHANGED <<inputs, objects, next, owed, leftover, disturbed, alone>>

Begin(r) ==
    /\ pc[r] = "inputs"
    /\ inputs[r].valid
    /\ Goto(r, FirstPhase(r))
    /\ owed' = [owed EXCEPT ![r] = IF inputs[r].clear THEN Present ELSE {}]
    /\ alone' = [s \in Runs |->
                    s = r /\ \A other \in Runs \ {r} : pc[other] \notin Active]
    /\ UNCHANGED <<inputs, objects, next, leftover, disturbed>>

(***************************************************************************)
(* ClearBucket removes objects, new ones too when they come on a page; the *)
(* service may refuse some of a page.                                      *)
(***************************************************************************)
Sweep(r) ==
    /\ pc[r] = "clear"
    /\ \E gone \in SUBSET Present : \E no \in SUBSET (Present \ gone) :
          /\ Erase(r, gone)
          /\ leftover' = [leftover EXCEPT ![r] = @ \cup no]
          /\ owed' = [s \in Runs |-> owed[s] \ (IF s = r THEN gone \cup no ELSE gone)]
    /\ UNCHANGED <<inputs, pc, next, alone>>

ClearReturns(r) ==
    /\ pc[r] = "clear"
    /\ owed[r] = {}
    /\ Goto(r, "upload")
    /\ UNCHANGED <<inputs, objects, next, owed, leftover, disturbed, alone>>

\* An error, or the end of the process; the last deletion may come later.
ClearBreaks(r) ==
    /\ pc[r] = "clear"
    /\ \E label \in AfterClearError : Goto(r, label)
    /\ UNCHANGED <<inputs, objects, next, owed, leftover, disturbed, alone>>

SkipFile(r) ==
    /\ pc[r] = "upload"
    /\ next[r] <= Len(inputs[r].visits)
    /\ Skip(r, Visit(r))
    /\ next' = [next EXCEPT ![r] = NextVisit(@)]
    /\ UNCHANGED <<inputs, pc, objects, owed, leftover, disturbed, alone>>

PutFile(r) ==
    /\ pc[r] = "upload"
    /\ next[r] <= Len(inputs[r].visits)
    /\ ~Skip(r, Visit(r))
    /\ Write(r, Visit(r))
    /\ next' = [next EXCEPT ![r] = NextVisit(@)]
    /\ UNCHANGED <<inputs, pc, leftover, alone>>

(***************************************************************************)
(* A bad pattern, a file that cannot be read, a put that fails, or the end *)
(* of the process: the first error ends the run.                           *)
(***************************************************************************)
UploadBreaks(r) ==
    /\ pc[r] = "upload"
    /\ \E label \in AfterPutError :
          /\ label = "putting" => /\ next[r] <= Len(inputs[r].visits)
                                  /\ ~Skip(r, Visit(r))
          /\ Goto(r, label)
    /\ UNCHANGED <<inputs, objects, next, owed, leftover, disturbed, alone>>

UploadReturns(r) ==
    /\ pc[r] = "upload"
    /\ next[r] > Len(inputs[r].visits)
    /\ Goto(r, "done")
    /\ UNCHANGED <<inputs, objects, next, owed, leftover, disturbed, alone>>
-----------------------------------------------------------------------------
\* The request left behind is lost after all.
Vanish(r) ==
    /\ pc[r] \in Lost
    /\ Goto(r, IF pc[r] = "putting" THEN "uploadBroken" ELSE "clearBroken")
    /\ UNCHANGED <<inputs, objects, next, owed, leftover, disturbed, alone>>

LatePut(r) ==
    /\ pc[r] = "putting"
    /\ Write(r, Visit(r))
    /\ Goto(r, "uploadBroken")
    /\ UNCHANGED <<inputs, next, leftover, alone>>

LateDelete(r) ==
    /\ pc[r] = "deleting"
    /\ \E gone \in SUBSET Present :
          /\ Erase(r, gone)
          /\ owed' = [s \in Runs |-> owed[s] \ gone]
    /\ Goto(r, "clearBroken")
    /\ UNCHANGED <<inputs, next, leftover, alone>>

Run(r) ==
    \/ Reject(r) \/ Begin(r)
    \/ Sweep(r) \/ ClearReturns(r) \/ ClearBreaks(r)
    \/ SkipFile(r) \/ PutFile(r) \/ UploadBreaks(r) \/ UploadReturns(r)
    \/ Vanish(r) \/ LatePut(r) \/ LateDelete(r)

Next == \E r \in Runs : Run(r)

Spec == Init /\ [][Next]_vars
-----------------------------------------------------------------------------
\* What the inputs of a run select, and the part of it the walk has put.
Selected(r) == {inputs[r].visits[i] : i \in 1 .. Len(inputs[r].visits)}
                   \ inputs[r].exclude

Uploaded(r) == {inputs[r].visits[i] : i \in 1 .. next[r] - 1}
                   \ inputs[r].exclude

\* The file of the put that ended the run, if it ended that way.
LastPut(r) ==
    IF pc[r] \in {"putting", "uploadBroken"} /\ next[r] <= Len(inputs[r].visits)
    THEN {Visit(r)} \ inputs[r].exclude
    ELSE {}

(***************************************************************************)
(* The bucket and the walk of every run agree: a file the walk has put is  *)
(* in the bucket unless another run put or deleted its key since, so a     *)
(* run never deletes what it uploaded; and nothing of a run is there that  *)
(* its walk has not reached or that is excluded, whenever it failed.       *)
(***************************************************************************)
UploadProgress ==
    \A r \in Runs :
       /\ \A k \in Uploaded(r) \ disturbed[r] : objects[k] = r
       /\ \A k \in Keys : objects[k] = r => k \in Uploaded(r) \cup LastPut(r)

(***************************************************************************)
(* A run with CLEAR puts its first file only after everything that was in  *)
(* the bucket before any run is gone or was refused by the service: no     *)
(* run that succeeds leaves a mix of the former content and its own.       *)
(***************************************************************************)
NoMixWithFormer ==
    \A r \in Runs, k \in Keys :
       /\ inputs[r].clear
       /\ pc[r] \in {"upload", "done", "putting", "uploadBroken"}
       /\ objects[k] = Earlier
       => k \in leftover[r]

(***************************************************************************)
(* A successful run that no other run overlaps repairs whatever failed or  *)
(* killed runs left behind: its objects are exactly its selected files,    *)
(* and with CLEAR there is nothing else except what the service refused    *)
(* to delete.                                                              *)
(***************************************************************************)
ExactWhenAlone ==
    \A r \in Runs :
       pc[r] = "done" /\ alone[r] =>
          /\ {k \in Keys : objects[k] = r} = Selected(r)
          /\ inputs[r].clear =>
                \A k \in Present : objects[k] = r \/ k \in leftover[r]

\* Where the walk stands in each phase of a run.
WalkPhase ==
    \A r \in Runs :
       /\ pc[r] \in {"inputs", "rejected", "clear", "deleting", "clearBroken"}
             => next[r] = 1
       /\ pc[r] = "putting" =>
             next[r] <= Len(inputs[r].visits) /\ Visit(r) \notin inputs[r].exclude
       /\ pc[r] = "done" => next[r] = Len(inputs[r].visits) + 1

\* While a run clears, former content is owed or was refused.
FormerOwed ==
    \A r \in Runs, k \in Keys :
       pc[r] = "clear" /\ objects[k] = Earlier => k \in owed[r] \cup leftover[r]

\* What a run knows of the bucket as long as it is alone.
AloneSoFar ==
    \A r \in Runs :
       alone[r] =>
          /\ pc[r] # "inputs"
          /\ \A s \in Runs \ {r} : pc[s] \notin Active
          /\ Uploaded(r) \cap disturbed[r] = {}
          /\ pc[r] = "clear" => Present \subseteq owed[r] \cup leftover[r]
          /\ pc[r] \in {"upload", "done"} /\ inputs[r].clear =>
                \A k \in Present : objects[k] = r \/ k \in leftover[r]

(***************************************************************************)
(* The inductive invariant: what each phase of main and Upload may rely    *)
(* on, with the other runs at work on the bucket.                          *)
(***************************************************************************)
RunsInv ==
    WalkPhase /\ UploadProgress /\ FormerOwed /\ NoMixWithFormer /\ AloneSoFar

-----------------------------------------------------------------------------
\* What a run shows of its clear, in the words of ClearPromise.
ClearStatus(r) ==
    IF ~inputs[r].clear \/ pc[r] \in {"inputs", "rejected"} THEN "idle"
    ELSE IF pc[r] = "clear" THEN "running"
    ELSE IF pc[r] \in {"deleting", "clearBroken"} THEN "failed"
    ELSE "done"

=============================================================================
