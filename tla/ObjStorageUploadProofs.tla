----------------------- MODULE ObjStorageUploadProofs -----------------------
(***************************************************************************)
(* Proofs about ObjStorageUpload for any number of runs, keys and inputs.  *)
(***************************************************************************)
EXTENDS ObjStorageUpload, TLAPS

\* The inputs of a run have their parts.
LEMMA InputsTypes ==
    ASSUME TypeOK, NEW r \in Runs
    PROVE  /\ inputs[r].valid \in BOOLEAN
           /\ inputs[r].clear \in BOOLEAN
           /\ inputs[r].visits \in Seq(Keys)
           /\ inputs[r].exclude \in SUBSET Keys
           /\ Len(inputs[r].visits) \in Nat
BY InputsAssumption DEF TypeOK

\* The walk stands at a file of the run.
LEMMA VisitIsKey ==
    ASSUME TypeOK, NEW r \in Runs, next[r] <= Len(inputs[r].visits)
    PROVE  Visit(r) \in Keys
<1>1. next[r] \in 1 .. Len(inputs[r].visits)
    BY InputsTypes DEF TypeOK
<1> QED
    BY <1>1, InputsTypes DEF Visit

\* A step of a run keeps the types.
LEMMA TypeStep ==
    ASSUME TypeOK, WalkPhase, NEW r \in Runs, Run(r)
    PROVE  TypeOK'
<1> USE InputsTypes DEF TypeOK, Goto, Active, Over, Lost
<1>1. CASE Reject(r)
    BY <1>1 DEF Reject
<1>2. CASE Begin(r)
  <2>1. Present \in SUBSET Keys
      BY DEF Present
  <2> QED
      BY <1>2, <2>1 DEF Begin, FirstPhase
<1>3. CASE Sweep(r)
    BY <1>3 DEF Sweep, Erase, Present
<1>4. CASE ClearReturns(r)
    BY <1>4 DEF ClearReturns
<1>5. CASE ClearBreaks(r)
    BY <1>5 DEF ClearBreaks, AfterClearError
<1>6. CASE SkipFile(r)
    BY <1>6 DEF SkipFile, NextVisit
<1>7. CASE PutFile(r)
  <2>1. Visit(r) \in Keys
      BY <1>7, VisitIsKey DEF PutFile
  <2> QED
      BY <1>7, <2>1 DEF PutFile, Write, NextVisit
<1>8. CASE UploadBreaks(r)
    BY <1>8 DEF UploadBreaks, AfterPutError
<1>9. CASE UploadReturns(r)
    BY <1>9 DEF UploadReturns
<1>10. CASE Vanish(r)
    BY <1>10 DEF Vanish
<1>11. CASE LatePut(r)
  <2>1. Visit(r) \in Keys
      BY <1>11, VisitIsKey DEF LatePut, WalkPhase
  <2> QED
      BY <1>11, <2>1 DEF LatePut, Write
<1>12. CASE LateDelete(r)
    BY <1>12 DEF LateDelete, Erase, Present
<1> QED
    BY <1>1, <1>2, <1>3, <1>4, <1>5, <1>6, <1>7, <1>8, <1>9, <1>10,
       <1>11, <1>12 DEF Run

\* A step of a run keeps the phases of all runs.
LEMMA WalkStep ==
    ASSUME TypeOK, WalkPhase, NEW r \in Runs, Run(r)
    PROVE  WalkPhase'
<1> USE InputsTypes DEF TypeOK, WalkPhase, Goto, Visit
<1>1. CASE Reject(r)
    BY <1>1 DEF Reject
<1>2. CASE Begin(r)
    BY <1>2 DEF Begin, FirstPhase
<1>3. CASE Sweep(r)
    BY <1>3 DEF Sweep
<1>4. CASE ClearReturns(r)
    BY <1>4 DEF ClearReturns
<1>5. CASE ClearBreaks(r)
    BY <1>5 DEF ClearBreaks, AfterClearError
<1>6. CASE SkipFile(r)
    BY <1>6 DEF SkipFile, NextVisit
<1>7. CASE PutFile(r)
    BY <1>7 DEF PutFile, NextVisit
<1>8. CASE UploadBreaks(r)
    BY <1>8 DEF UploadBreaks, AfterPutError, Skip
<1>9. CASE UploadReturns(r)
    BY <1>9 DEF UploadReturns
<1>10. CASE Vanish(r)
    BY <1>10 DEF Vanish, Lost
<1>11. CASE LatePut(r)
    BY <1>11 DEF LatePut
<1>12. CASE LateDelete(r)
    BY <1>12 DEF LateDelete
<1> QED
    BY <1>1, <1>2, <1>3, <1>4, <1>5, <1>6, <1>7, <1>8, <1>9, <1>10,
       <1>11, <1>12 DEF Run

\* Before a run begins nothing of its walk is done.
LEMMA WalkInit ==
    ASSUME Init
    PROVE  TypeOK /\ WalkPhase
<1>1. \A r \in Runs : Len(inputs[r].visits) \in Nat
    BY InputsAssumption DEF Init
<1> QED
    BY <1>1 DEF Init, TypeOK, WalkPhase

(***************************************************************************)
(* The types of the runs and of the bucket, and that no walk passes the    *)
(* end of its visits (TypeOK), together with the phases of main and Upload *)
(* in which a run is still at its first file or has visited all of them.   *)
(***************************************************************************)
THEOREM TypeCorrect == Spec => [](TypeOK /\ WalkPhase)
<1>1. TypeOK /\ WalkPhase /\ [Next]_vars => (TypeOK /\ WalkPhase)'
  <2>1. CASE UNCHANGED vars
      BY <2>1 DEF vars, TypeOK, WalkPhase, Visit
  <2>2. CASE Next
      BY <2>2, TypeStep, WalkStep DEF Next
  <2> QED
      BY <2>1, <2>2
<1> QED
    BY <1>1, WalkInit, PTL DEF Spec

\* A step that leaves the bucket and the walks alone.
LEMMA ProgressFrame ==
    ASSUME UploadProgress,
           UNCHANGED <<inputs, objects, next, disturbed>>,
           \A s \in Runs : LastPut(s) \subseteq LastPut(s)'
    PROVE  UploadProgress'
<1>1. \A s \in Runs : Uploaded(s)' = Uploaded(s)
    BY DEF Uploaded
<1> QED
    BY <1>1 DEF UploadProgress

(***************************************************************************)
(* Every step keeps the bucket in agreement with the walks of all runs.    *)
(***************************************************************************)
LEMMA ProgressStep ==
    ASSUME TypeOK, WalkPhase, UploadProgress, NEW r \in Runs, Run(r)
    PROVE  UploadProgress'
<1> USE InputsTypes, ContentAssumption
    DEF TypeOK, WalkPhase, Goto
<1>1. CASE Reject(r)
  <2>1. \A s \in Runs : LastPut(s) \subseteq LastPut(s)'
      BY <1>1 DEF Reject, LastPut, Visit
  <2> QED
      BY <1>1, <2>1, ProgressFrame DEF Reject
<1>2. CASE Begin(r)
  <2>1. \A s \in Runs : LastPut(s) \subseteq LastPut(s)'
      BY <1>2 DEF Begin, FirstPhase, LastPut, Visit
  <2> QED
      BY <1>2, <2>1, ProgressFrame DEF Begin
<1>3. CASE Sweep(r)
  <2>1. PICK gone \in SUBSET Keys : Erase(r, gone)
      BY <1>3 DEF Sweep, Present
  <2>2. /\ pc[r] = "clear"
        /\ UNCHANGED <<inputs, pc, next>>
      BY <1>3 DEF Sweep
  <2>3. ASSUME NEW s \in Runs
        PROVE  /\ Uploaded(s)' = Uploaded(s)
               /\ LastPut(s)' = LastPut(s)
               /\ Uploaded(s) \in SUBSET Keys
      BY <2>2 DEF Uploaded, LastPut, Visit
  <2>4. Uploaded(r) = {}
      BY <2>2 DEF Uploaded
  <2>5. ASSUME NEW s \in Runs, NEW k \in Uploaded(s)' \ disturbed'[s]
        PROVE  objects'[k] = s
    <3>1. s # r
        BY <2>3, <2>4
    <3>2. k \notin gone /\ k \notin disturbed[s]
        BY <2>1, <3>1 DEF Erase
    <3>3. k \in Keys
        BY <2>3
    <3> QED
        BY <2>1, <2>3, <3>2, <3>3 DEF Erase, UploadProgress
  <2>6. ASSUME NEW s \in Runs, NEW k \in Keys, objects'[k] = s
        PROVE  k \in Uploaded(s)' \cup LastPut(s)'
    <3>1. objects[k] = s
        BY <2>1, <2>6 DEF Erase
    <3> QED
        BY <2>3, <3>1 DEF UploadProgress
  <2> QED
      BY <2>5, <2>6 DEF UploadProgress
<1>4. CASE ClearReturns(r)
  <2>1. \A s \in Runs : LastPut(s) \subseteq LastPut(s)'
      BY <1>4 DEF ClearReturns, LastPut, Visit
  <2> QED
      BY <1>4, <2>1, ProgressFrame DEF ClearReturns
<1>5. CASE ClearBreaks(r)
  <2>1. \A s \in Runs : LastPut(s) \subseteq LastPut(s)'
      BY <1>5 DEF ClearBreaks, AfterClearError, LastPut, Visit
  <2> QED
      BY <1>5, <2>1, ProgressFrame DEF ClearBreaks
<1>6. CASE SkipFile(r)
    BY <1>6 DEF SkipFile, UploadProgress, Uploaded, LastPut, Visit, NextVisit, Skip
<1>7. CASE PutFile(r)
    BY SMTT(60), <1>7 DEF PutFile, UploadProgress, Uploaded, LastPut, Visit, NextVisit, Skip, Write
<1>8. CASE UploadBreaks(r)
  <2>1. \A s \in Runs : LastPut(s) \subseteq LastPut(s)'
      BY <1>8 DEF UploadBreaks, AfterPutError, LastPut, Visit
  <2> QED
      BY <1>8, <2>1, ProgressFrame DEF UploadBreaks
<1>9. CASE UploadReturns(r)
  <2>1. \A s \in Runs : LastPut(s) \subseteq LastPut(s)'
      BY <1>9 DEF UploadReturns, LastPut, Visit
  <2> QED
      BY <1>9, <2>1, ProgressFrame DEF UploadReturns
<1>10. CASE Vanish(r)
  <2>1. \A s \in Runs : LastPut(s) \subseteq LastPut(s)'
      BY <1>10 DEF Vanish, Lost, LastPut, Visit
  <2> QED
      BY <1>10, <2>1, ProgressFrame DEF Vanish
<1>11. CASE LatePut(r)
    BY <1>11 DEF LatePut, UploadProgress, Uploaded, LastPut, Visit, Write
<1>12. CASE LateDelete(r)
    BY <1>12 DEF LateDelete, UploadProgress, Uploaded, LastPut, Visit, Erase, Present
<1> QED
    BY <1>1, <1>2, <1>3, <1>4, <1>5, <1>6, <1>7, <1>8, <1>9, <1>10,
       <1>11, <1>12 DEF Run

\* Every step keeps the former content owed, refused or gone.
LEMMA FormerStep ==
    ASSUME TypeOK, FormerOwed, NoMixWithFormer, NEW r \in Runs, Run(r)
    PROVE  FormerOwed' /\ NoMixWithFormer'
<1> USE InputsTypes, ContentAssumption
    DEF TypeOK, FormerOwed, NoMixWithFormer, Goto
<1>1. CASE Reject(r)
    BY <1>1 DEF Reject
<1>2. CASE Begin(r)
    BY <1>2 DEF Begin, FirstPhase, Present
<1>3. CASE Sweep(r)
    BY <1>3 DEF Sweep, Erase, Present
<1>4. CASE ClearReturns(r)
    BY <1>4 DEF ClearReturns
<1>5. CASE ClearBreaks(r)
    BY <1>5 DEF ClearBreaks, AfterClearError
<1>6. CASE SkipFile(r)
    BY <1>6 DEF SkipFile, NextVisit, Skip
<1>7. CASE PutFile(r)
    BY <1>7 DEF PutFile, Write
<1>8. CASE UploadBreaks(r)
    BY <1>8 DEF UploadBreaks, AfterPutError, Skip
<1>9. CASE UploadReturns(r)
    BY <1>9 DEF UploadReturns
<1>10. CASE Vanish(r)
    BY <1>10 DEF Vanish, Lost
<1>11. CASE LatePut(r)
    BY <1>11 DEF LatePut, Write
<1>12. CASE LateDelete(r)
    BY <1>12 DEF LateDelete, Erase, Present
<1> QED
    BY <1>1, <1>2, <1>3, <1>4, <1>5, <1>6, <1>7, <1>8, <1>9, <1>10,
       <1>11, <1>12 DEF Run

\* Every step keeps what a run that is alone knows of the bucket.
LEMMA AloneStep ==
    ASSUME TypeOK, WalkPhase, UploadProgress, AloneSoFar, NEW r \in Runs, Run(r)
    PROVE  AloneSoFar'
<1> USE InputsTypes, ContentAssumption
    DEF TypeOK, WalkPhase, UploadProgress, AloneSoFar, Uploaded, Visit, Present, Goto, Active, Lost
<1>1. CASE Reject(r)
    BY <1>1 DEF Reject
<1>2. CASE Begin(r)
    BY <1>2 DEF Begin, FirstPhase
<1>3. CASE Sweep(r)
    BY <1>3 DEF Sweep, Erase
<1>4. CASE ClearReturns(r)
    BY <1>4 DEF ClearReturns
<1>5. CASE ClearBreaks(r)
    BY <1>5 DEF ClearBreaks, AfterClearError
<1>6. CASE SkipFile(r)
    BY <1>6 DEF SkipFile, NextVisit, Skip
<1>7. CASE PutFile(r)
    BY <1>7 DEF PutFile, NextVisit, Skip, Write
<1>8. CASE UploadBreaks(r)
    BY <1>8 DEF UploadBreaks, AfterPutError, Skip
<1>9. CASE UploadReturns(r)
    BY <1>9 DEF UploadReturns
<1>10. CASE Vanish(r)
    BY <1>10 DEF Vanish
<1>11. CASE LatePut(r)
    BY <1>11 DEF LatePut, Write
<1>12. CASE LateDelete(r)
    BY <1>12 DEF LateDelete, Erase
<1> QED
    BY <1>1, <1>2, <1>3, <1>4, <1>5, <1>6, <1>7, <1>8, <1>9, <1>10,
       <1>11, <1>12 DEF Run

(***************************************************************************)
(* The invariant of all runs: the walks and the bucket agree               *)
(* (UploadProgress), and a run with CLEAR puts nothing beside former       *)
(* content (NoMixWithFormer), whatever the other runs do and whichever of  *)
(* them fail, are killed, or have requests that take effect late.          *)
(***************************************************************************)
THEOREM RunsInvariant == Spec => []RunsInv
<1> DEFINE I == TypeOK /\ RunsInv
<1>1. Init => I
  <2>1. Init => UploadProgress /\ FormerOwed /\ NoMixWithFormer /\ AloneSoFar
      BY ContentAssumption DEF Init, UploadProgress, Uploaded, FormerOwed,
         NoMixWithFormer, AloneSoFar
  <2> QED
      BY <2>1, WalkInit DEF RunsInv
<1>2. I /\ [Next]_vars => I'
  <2>1. CASE UNCHANGED vars
      BY <2>1 DEF vars, TypeOK, RunsInv, WalkPhase, UploadProgress, FormerOwed,
         NoMixWithFormer, AloneSoFar, Uploaded, LastPut, Visit, Present
  <2>2. CASE Next
      BY <2>2, TypeStep, WalkStep, ProgressStep, FormerStep, AloneStep
      DEF Next, RunsInv
  <2> QED
      BY <2>1, <2>2
<1> QED
    BY <1>1, <1>2, PTL DEF Spec

(***************************************************************************)
(* The bucket agrees with the walk of every run: what a walk has put stays *)
(* until another run touches its key, and nothing is there of a run that   *)
(* its walk has not reached or has excluded (UploadProgress).              *)
(***************************************************************************)
THEOREM WalkAgrees == Spec => []UploadProgress
<1>1. RunsInv => UploadProgress
    BY DEF RunsInv
<1> QED
    BY <1>1, RunsInvariant, PTL

(***************************************************************************)
(* A run with CLEAR never leaves its files beside former content that the  *)
(* service would have let it delete (NoMixWithFormer).                     *)
(***************************************************************************)
THEOREM NothingFormerBeside == Spec => []NoMixWithFormer
<1>1. RunsInv => NoMixWithFormer
    BY DEF RunsInv
<1> QED
    BY <1>1, RunsInvariant, PTL

(***************************************************************************)
(* A successful run that no other run overlapped has made the bucket what  *)
(* its inputs say, whatever earlier runs left behind.                      *)
(***************************************************************************)
THEOREM AloneIsExact == Spec => []ExactWhenAlone
<1>1. TypeOK /\ RunsInv => ExactWhenAlone
  <2> SUFFICES ASSUME TypeOK, RunsInv, NEW r \in Runs, pc[r] = "done", alone[r]
               PROVE  /\ {k \in Keys : objects[k] = r} = Selected(r)
                      /\ inputs[r].clear =>
                            \A k \in Present : objects[k] = r \/ k \in leftover[r]
      BY DEF ExactWhenAlone
  <2>1. next[r] = Len(inputs[r].visits) + 1
      BY DEF RunsInv, WalkPhase
  <2>2. Uploaded(r) = Selected(r)
      BY <2>1, InputsTypes DEF Uploaded, Selected
  <2>3. Selected(r) \in SUBSET Keys
      BY InputsTypes DEF Selected
  <2>4. LastPut(r) = {} /\ Uploaded(r) \cap disturbed[r] = {}
      BY DEF LastPut, RunsInv, AloneSoFar
  <2>5. {k \in Keys : objects[k] = r} = Selected(r)
      BY <2>2, <2>3, <2>4 DEF RunsInv, UploadProgress
  <2> QED
      BY <2>5 DEF RunsInv, AloneSoFar
<1> QED
    BY <1>1, TypeCorrect, RunsInvariant, PTL
-----------------------------------------------------------------------------
(***************************************************************************)
(* What the runs show of their clears is what ClearPromise says of one.    *)
(***************************************************************************)
Clear(r) == INSTANCE ClearPromise WITH owed <- owed[r], status <- ClearStatus(r)

\* What a run owes grows in one step only, the beginning of its own clear.
LEMMA OwedShrinks ==
    ASSUME TypeOK, NEW r \in Runs, NEW s \in Runs, Run(s), ~(s = r /\ Begin(s))
    PROVE  owed'[r] \in SUBSET owed[r] /\ inputs' = inputs
<1> USE DEF TypeOK
<1>1. CASE Begin(s)
    BY <1>1 DEF Begin
<1>2. CASE PutFile(s) \/ LatePut(s)
    BY <1>2 DEF PutFile, LatePut, Write
<1>3. CASE Sweep(s)
    BY <1>3 DEF Sweep
<1>4. CASE LateDelete(s)
    BY <1>4 DEF LateDelete
<1>5. CASE Reject(s) \/ ClearReturns(s) \/ ClearBreaks(s) \/ SkipFile(s)
              \/ UploadBreaks(s) \/ UploadReturns(s) \/ Vanish(s)
    BY <1>5 DEF Reject, ClearReturns, ClearBreaks, SkipFile, UploadBreaks,
                UploadReturns, Vanish
<1> QED
    BY <1>1, <1>2, <1>3, <1>4, <1>5 DEF Run

\* The steps of a run that its clear takes part in.
LEMMA StatusMoves ==
    ASSUME TypeOK, NEW r \in Runs, NEW s \in Runs, Run(s)
    PROVE  \/ ClearStatus(r)' = ClearStatus(r) /\ ~(s = r /\ Begin(s))
           \/ s = r /\ Begin(s)
           \/ s = r /\ ClearReturns(s)
           \/ s = r /\ ClearBreaks(s)
<1> USE DEF TypeOK, Goto
<1>1. CASE s # r
  <2>1. pc'[r] = pc[r] /\ inputs' = inputs
      BY <1>1 DEF Run, Reject, Begin, Sweep, ClearReturns, ClearBreaks, SkipFile, PutFile,
                  UploadBreaks, UploadReturns, Vanish, LatePut, LateDelete
  <2> QED
      BY <1>1, <2>1 DEF ClearStatus
<1>2. CASE s = r /\ (Sweep(r) \/ SkipFile(r) \/ PutFile(r))
    BY <1>2 DEF Sweep, SkipFile, PutFile, ClearStatus, Begin
<1>3. CASE s = r /\ (Reject(r) \/ UploadBreaks(r) \/ UploadReturns(r))
    BY <1>3 DEF Reject, UploadBreaks, UploadReturns, AfterPutError, ClearStatus, Begin
<1>4. CASE s = r /\ (Vanish(r) \/ LatePut(r) \/ LateDelete(r))
    BY <1>4 DEF Vanish, LatePut, LateDelete, Lost, ClearStatus, Begin
<1> QED
    BY <1>1, <1>2, <1>3, <1>4 DEF Run

(***************************************************************************)
(* ClearPromise is kept for any run among any number: what happens         *)
(* to the bucket during its clear, by its own requests, those of others    *)
(* and those that come late, is a step of a clear among other clients.     *)
(* With PromiseIsKept of ClearBucketProofs the two modules speak of         *)
(* one and the same call of ClearBucket.                                   *)
(***************************************************************************)
THEOREM ClearKeepsPromise ==
    ASSUME NEW r \in Runs
    PROVE  Spec => Clear(r)!Spec
<1>1. Init => Clear(r)!Init
  <2> SUFFICES ASSUME Init PROVE Clear(r)!Init
      OBVIOUS
  <2>1. ClearStatus(r) = "idle" /\ owed[r] = {}
      BY DEF Init, ClearStatus
  <2> QED
      BY <2>1, Zenon DEF Clear!Init
<1>2. TypeOK /\ [Next]_vars => [Clear(r)!Next]_(Clear(r)!vars)
  <2> SUFFICES ASSUME TypeOK, [Next]_vars
               PROVE  [Clear(r)!Next]_(Clear(r)!vars)
      OBVIOUS
  <2>1. CASE UNCHANGED vars
    <3>1. ClearStatus(r)' = ClearStatus(r) /\ owed'[r] = owed[r]
        BY <2>1 DEF vars, ClearStatus
    <3> QED
        BY <3>1 DEF Clear!vars
  <2>2. ASSUME NEW s \in Runs, Run(s)
        PROVE  Clear(r)!Next
    <3>1. CASE ClearStatus(r)' = ClearStatus(r) /\ ~(s = r /\ Begin(s))
      <4>1. owed'[r] \in SUBSET owed[r]
          BY <2>2, <3>1, OwedShrinks
      <4> QED
          BY <3>1, <4>1, Zenon DEF Clear!Next, Clear!Shrink
    <3>2. CASE s = r /\ Begin(s)
      <4>1. CASE inputs[r].clear
        <5>1. ClearStatus(r) = "idle" /\ ClearStatus(r)' = "running"
            BY <3>2, <4>1 DEF Begin, Goto, FirstPhase, ClearStatus, TypeOK
        <5>2. owed'[r] \in SUBSET Keys
            BY <3>2 DEF Begin, Present, TypeOK
        <5> QED
            BY <5>1, <5>2, Zenon DEF Clear!Next, Clear!Start
      <4>2. CASE ~inputs[r].clear
        <5>1. ClearStatus(r)' = ClearStatus(r)
            BY <3>2, <4>2 DEF Begin, ClearStatus
        <5>2. owed'[r] \in SUBSET owed[r]
            BY <3>2, <4>2 DEF Begin, TypeOK
        <5> QED
            BY <5>1, <5>2, Zenon DEF Clear!Next, Clear!Shrink
      <4> QED
          BY <4>1, <4>2
    <3>3. CASE s = r /\ ClearReturns(s)
      <4>1. CASE inputs[r].clear
        <5>1. ClearStatus(r) = "running" /\ ClearStatus(r)' = "done"
            BY <3>3, <4>1 DEF ClearReturns, Goto, ClearStatus, TypeOK
        <5>2. owed'[r] = {}
            BY <3>3 DEF ClearReturns
        <5> QED
            BY <5>1, <5>2, Zenon DEF Clear!Next, Clear!Succeed
      <4>2. CASE ~inputs[r].clear
        <5>1. ClearStatus(r)' = ClearStatus(r) /\ owed'[r] \in SUBSET owed[r]
            BY <3>3, <4>2 DEF ClearReturns, ClearStatus
        <5> QED
            BY <5>1, Zenon DEF Clear!Next, Clear!Shrink
      <4> QED
          BY <4>1, <4>2
    <3>4. CASE s = r /\ ClearBreaks(s)
      <4>1. CASE inputs[r].clear
        <5>1. ClearStatus(r) = "running" /\ ClearStatus(r)' = "failed"
            BY <3>4, <4>1 DEF ClearBreaks, AfterClearError, Goto, ClearStatus, TypeOK
        <5>2. owed'[r] \in SUBSET owed[r]
            BY <3>4 DEF ClearBreaks
        <5> QED
            BY <5>1, <5>2 DEF Clear!Next, Clear!Fail
      <4>2. CASE ~inputs[r].clear
        <5>1. ClearStatus(r)' = ClearStatus(r) /\ owed'[r] \in SUBSET owed[r]
            BY <3>4, <4>2 DEF ClearBreaks, ClearStatus
        <5> QED
            BY <5>1, Zenon DEF Clear!Next, Clear!Shrink
      <4> QED
          BY <4>1, <4>2
    <3> QED
        BY <2>2, <3>1, <3>2, <3>3, <3>4, StatusMoves
  <2> QED
      BY <2>1, <2>2 DEF Next
<1> QED
    BY <1>1, <1>2, TypeCorrect, PTL DEF Spec, Clear!Spec
=============================================================================
