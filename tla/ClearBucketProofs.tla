------------------------- MODULE ClearBucketProofs -------------------------
(***************************************************************************)
(* Proofs about ClearBucket for every set of names and every page limit:   *)
(* its types, the invariant of its loop, what keeps it going, and that     *)
(* every step is one of ClearPromise or a stutter.                         *)
(***************************************************************************)
EXTENDS ClearBucket, FiniteSetTheorems, TLAPS

(***************************************************************************)
(* What ListObjects tells of the rest of a bucket: everything after the    *)
(* token asked for is in the page, or the answer is truncated and names a  *)
(* token before it.                                                        *)
(***************************************************************************)
LEMMA PageCovers ==
    ASSUME NEW objects \in SUBSET Keys, NEW token \in Tokens,
           NEW answer \in Listings(objects, token),
           NEW k \in objects, k > token
    PROVE  k \in answer.keys \/ (answer.truncated /\ k > answer.token)
<1> SUFFICES ASSUME k \notin answer.keys
             PROVE  answer.truncated /\ k > answer.token
    OBVIOUS
<1>1. /\ answer \in Listing
      /\ IsListing(answer, After(objects, token))
    BY DEF Listings
<1>2. k \in After(objects, token) \ answer.keys
    BY DEF After
<1>3. answer.truncated
    BY <1>1, <1>2 DEF IsListing, Listing
<1>4. answer.token \in answer.keys
    BY <1>1, <1>3 DEF IsListing
<1>5. answer.token < k
    BY <1>1, <1>2, <1>4 DEF IsListing
<1> QED
    BY <1>3, <1>4, <1>5, <1>1, KeysAssumption DEF Listing

\* An answer has the types the caller expects of it.
LEMMA PageTypes ==
    ASSUME NEW objects, NEW token, NEW answer \in Listings(objects, token)
    PROVE  /\ answer.keys \in SUBSET Keys
           /\ answer.token \in Tokens
           /\ answer.truncated \in BOOLEAN
BY DEF Listings, Listing

(***************************************************************************)
(* The types of ClearBucket's variables: its loop variables always hold a  *)
(* page of keys, a token of the service and a flag.                        *)
(***************************************************************************)
THEOREM TypeCorrect == Spec => []TypeOK
<1>1. Init => TypeOK
  <2>1. ASSUME Init PROVE passes \in Nat /\ continuationToken \in Tokens
      BY <2>1 DEF Init, Tokens, NoToken
  <2>2. ASSUME Init PROVE bucket \subseteq Keys /\ IsFiniteSet(bucket)
      BY <2>2 DEF Init
  <2> QED
      BY <2>1, <2>2, Zenon DEF Init, TypeOK
<1>2. TypeOK /\ [Next]_vars => TypeOK'
  <2> SUFFICES ASSUME TypeOK, [Next]_vars
               PROVE  TypeOK'
      OBVIOUS
  <2> USE DEF TypeOK, Ended, history
  <2>1. CASE Call
      BY <2>1 DEF Call, Tokens
  <2>2. CASE ListPage
    <3>1. PICK answer \in Listings(bucket, continuationToken) :
             /\ keys' = answer.keys
             /\ continuationToken' = answer.token
             /\ isTruncated' = answer.truncated
        BY <2>2 DEF ListPage, NextToken
    <3> QED
        BY <2>2, <3>1, PageTypes DEF ListPage
  <2>3. CASE ListEmpty
      BY <2>3 DEF ListEmpty
  <2>4. CASE ListFails
      BY <2>4 DEF ListFails, OnError, Broken
  <2>5. CASE DeletePage
      BY <2>5, FS_Subset DEF DeletePage, Removals, LoopAgain
  <2>6. CASE DeleteFails
      BY <2>6, FS_Subset DEF DeleteFails, Removals, OnError, Broken
  <2>7. ASSUME NEW k \in Keys, Put(k)
        PROVE  TypeOK'
      BY <2>7, FS_AddElement DEF Put
  <2>8. ASSUME NEW gone \in SUBSET bucket, Remove(gone)
        PROVE  TypeOK'
      BY <2>8, FS_Subset DEF Remove
  <2>9. CASE UNCHANGED vars
      BY <2>9 DEF vars
  <2> QED
      BY <2>1, <2>2, <2>3, <2>4, <2>5, <2>6, <2>7, <2>8, <2>9
      DEF Next, Step, Others
<1> QED
    BY <1>1, <1>2, PTL DEF Spec

\* Whatever others do to the bucket, the call owes no more than before.
LEMMA OthersShrink ==
    ASSUME Others
    PROVE  /\ (bucket \cap old)' \subseteq bucket \cap old
           /\ UNCHANGED <<pc, keys, continuationToken, isTruncated, refused>>
BY DEF Others, Put, Remove, history

(***************************************************************************)
(* The invariant of the loop: no page is skipped, whoever writes and       *)
(* deletes objects between the requests.                                   *)
(***************************************************************************)
THEOREM LoopInvariant == Spec => []SweptInv
<1>1. Init => SweptInv
    BY DEF Init, SweptInv, OnlyRefusedSurvive
<1>2. TypeOK /\ SweptInv /\ [Next]_vars => SweptInv'
  <2> SUFFICES ASSUME TypeOK, SweptInv, [Next]_vars
               PROVE  SweptInv'
      OBVIOUS
  <2> USE DEF TypeOK, SweptInv, OnlyRefusedSurvive, history
  <2>1. CASE Call
    <3>1. \A k \in Keys : k > NoToken
        BY KeysAssumption DEF NoToken
    <3> QED
        BY <2>1, <3>1 DEF Call
  <2>2. CASE ListPage
    <3>1. PICK answer \in Listings(bucket, continuationToken) :
             /\ keys' = answer.keys
             /\ continuationToken' = answer.token
             /\ isTruncated' = answer.truncated
        BY <2>2 DEF ListPage, NextToken
    <3>2. pc = "list" /\ pc' = "delete" /\ UNCHANGED <<bucket, old, refused>>
        BY <2>2 DEF ListPage
    <3>3. ASSUME NEW k \in (bucket \cap old) \ refused
          PROVE  k \in keys' \/ (isTruncated' /\ k > continuationToken')
      <4>1. k > continuationToken
          BY <3>2
      <4> QED
          BY <4>1, <3>1, PageCovers
    <3> QED
        BY <3>2, <3>3
  <2>3. CASE ListEmpty
    <3>1. After(bucket, continuationToken) = {}
        BY <2>3 DEF ListEmpty, Listings, IsListing
    <3>2. (bucket \cap old) \ refused = {}
        BY <2>3, <3>1 DEF ListEmpty, After
    <3> QED
        BY <2>3, <3>2 DEF ListEmpty
  <2>4. CASE ListFails
      BY <2>4 DEF ListFails, OnError, Broken
  <2>5. CASE DeletePage
      BY <2>5 DEF DeletePage, LoopAgain, Removals
  <2>6. CASE DeleteFails
      BY <2>6 DEF DeleteFails, OnError, Broken
  <2>7. CASE Others
      BY <2>7, OthersShrink
  <2>8. CASE UNCHANGED vars
      BY <2>8 DEF vars
  <2> QED
      BY <2>1, <2>2, <2>3, <2>4, <2>5, <2>6, <2>7, <2>8 DEF Next, Step
<1> QED
    BY <1>1, <1>2, TypeCorrect, PTL DEF Spec

(***************************************************************************)
(* ClearBucket implements ClearPromise: the call starts without debt, and  *)
(* each step of it or of another client of the bucket is a step of the     *)
(* promise or leaves debt and status alone.                                *)
(***************************************************************************)
THEOREM PromiseIsKept == Spec => KeepsPromise
<1> USE DEF Owed, Status, history
<1>1. Init => Promise!Init
    BY DEF Init, Promise!Init
<1>2. TypeOK /\ SweptInv /\ SweptInv' /\ [Next]_vars
      => [Promise!Next]_(Promise!vars)
  <2> SUFFICES ASSUME TypeOK, SweptInv, SweptInv', [Next]_vars
               PROVE  Promise!Next \/ UNCHANGED Promise!vars
      OBVIOUS
  <2> USE DEF Promise!Next, Promise!vars
  <2>1. CASE Call
      BY <2>1 DEF Call, TypeOK, Promise!Start
  <2>2. CASE ListPage
      BY <2>2 DEF ListPage
  <2>3. CASE ListEmpty
    <3>1. Owed' = {} /\ Status = "running" /\ Status' = "done"
        BY <2>3 DEF ListEmpty, SweptInv, OnlyRefusedSurvive
    <3> QED
        BY <3>1 DEF Promise!Succeed
  <2>4. CASE ListFails
      BY <2>4 DEF ListFails, OnError, Broken, Promise!Fail
  <2>5. CASE DeletePage
    <3>1. Owed' \in SUBSET Owed
        BY <2>5 DEF DeletePage, LoopAgain
    <3>2. CASE isTruncated
        BY <2>5, <3>1, <3>2 DEF DeletePage, LoopAgain, Promise!Shrink
    <3>3. CASE ~isTruncated
      <4>1. Owed' = {} /\ Status = "running" /\ Status' = "done"
          BY <2>5, <3>3 DEF DeletePage, LoopAgain, SweptInv, OnlyRefusedSurvive
      <4> QED
          BY <4>1 DEF Promise!Succeed
    <3> QED
        BY <3>2, <3>3
  <2>6. CASE DeleteFails
      BY <2>6 DEF DeleteFails, OnError, Broken, Removals, Promise!Fail
  <2>7. CASE Others
      BY <2>7, OthersShrink DEF Promise!Shrink
  <2>8. CASE UNCHANGED vars
      BY <2>8 DEF vars
  <2> QED
      BY <2>1, <2>2, <2>3, <2>4, <2>5, <2>6, <2>7, <2>8 DEF Next, Step
<1> QED
    BY <1>1, <1>2, TypeCorrect, LoopInvariant, PTL DEF Spec, KeepsPromise, Promise!Spec
-----------------------------------------------------------------------------
Passed == {k \in ahead : k <= continuationToken}

(***************************************************************************)
(* While the loop goes on, each page so far has a name of its own behind   *)
(* the token, and all that the next listing can return is in ahead.        *)
(***************************************************************************)
EarnedInv ==
    /\ IsFiniteSet(ahead)
    /\ pc = "idle" => passes = 0
    /\ GoingOn =>
          /\ After(bucket, continuationToken) \subseteq ahead
          /\ passes <= Cardinality(Passed)
    /\ PassesAreEarned

\* One name more than the passed ones pays for one page more.
LEMMA OneMoreName ==
    ASSUME NEW few, NEW many, IsFiniteSet(many), few \subseteq many,
           NEW k \in many \ few, NEW n \in Nat, n <= Cardinality(few)
    PROVE  n + 1 <= Cardinality(many)
<1>1. IsFiniteSet(few)
    BY FS_Subset
<1>2. /\ IsFiniteSet(few \cup {k})
      /\ Cardinality(few \cup {k}) = Cardinality(few) + 1
    BY <1>1, FS_AddElement
<1>3. few \cup {k} \subseteq many
    OBVIOUS
<1>4. Cardinality(few \cup {k}) <= Cardinality(many)
    BY <1>3, FS_Subset
<1>5. Cardinality(few) \in Nat /\ Cardinality(many) \in Nat
    BY <1>1, FS_CardinalityType
<1> QED
    BY <1>2, <1>4, <1>5

(***************************************************************************)
(* For any number of names, the loop lists no more pages than there were   *)
(* names when the call began or that others wrote ahead of it since        *)
(* (PassesAreEarned): the call can be kept going by others only.           *)
(***************************************************************************)
THEOREM LoopIsEarned == Spec => []PassesAreEarned
<1>1. Init => EarnedInv
  <2> SUFFICES ASSUME Init PROVE EarnedInv
      OBVIOUS
  <2>1. IsFiniteSet(ahead) /\ Cardinality(ahead) = 0
      BY FS_EmptySet DEF Init
  <2> QED
      BY <2>1 DEF Init, EarnedInv, PassesAreEarned, GoingOn
<1>2. TypeOK /\ EarnedInv /\ [Next]_vars => EarnedInv'
  <2> SUFFICES ASSUME TypeOK, EarnedInv, [Next]_vars
               PROVE  EarnedInv'
      OBVIOUS
  <2> USE DEF history
  <2>0. /\ passes \in Nat /\ continuationToken \in Nat /\ Keys \subseteq Nat
        /\ IsFiniteSet(ahead) /\ Cardinality(ahead) \in Nat
        /\ passes <= Cardinality(ahead)
      BY KeysAssumption, FS_CardinalityType
         DEF TypeOK, EarnedInv, PassesAreEarned, Tokens, NoToken
  <2>1. CASE Call
    <3>1. ahead' = bucket /\ passes' = 0 /\ IsFiniteSet(bucket)
        BY <2>1 DEF Call, EarnedInv, TypeOK
    <3>2. Cardinality(ahead') \in Nat
        BY <3>1, FS_CardinalityType
    <3>3. Passed' = {}
      <4>1. continuationToken' = 0 /\ ahead' \subseteq Keys
          BY <2>1, <3>1 DEF Call, NoToken, TypeOK
      <4>2. \A k \in Keys : ~(k <= 0)
          BY KeysAssumption
      <4> QED
          BY <4>1, <4>2 DEF Passed
    <3>4. Cardinality(Passed') = 0
        BY <3>3, FS_EmptySet
    <3> QED
        BY <2>1, <3>1, <3>2, <3>4 DEF Call, EarnedInv, PassesAreEarned, After, GoingOn
  <2>2. CASE ListPage
    <3>1. PICK answer \in Listings(bucket, continuationToken) :
             /\ answer.keys # {}
             /\ continuationToken' = answer.token
             /\ isTruncated' = answer.truncated
        BY <2>2 DEF ListPage, NextToken
    <3>2. /\ pc = "list" /\ pc' = "delete" /\ passes' = passes + 1
          /\ UNCHANGED <<bucket, ahead>>
        BY <2>2 DEF ListPage
    <3>3. IsListing(answer, After(bucket, continuationToken))
        BY DEF Listings
    <3>4. /\ After(bucket, continuationToken) \subseteq ahead
          /\ passes <= Cardinality(Passed)
        BY <3>2 DEF EarnedInv, GoingOn
    <3>5. PICK k \in answer.keys : TRUE
        BY <3>1
    <3>6. k \in ahead \ Passed
      <4>1. k \in bucket /\ k > continuationToken
          BY <3>3, <3>5 DEF IsListing, After
      <4>2. k \in Nat
          BY <4>1, <2>0 DEF TypeOK
      <4>3. k \in ahead
          BY <3>3, <3>4, <3>5 DEF IsListing
      <4> QED
          BY <4>1, <4>2, <4>3, <2>0 DEF Passed
    <3>7. passes' <= Cardinality(ahead')
      <4>1. Passed \subseteq ahead
          BY DEF Passed
      <4> QED
          BY <4>1, <3>6, <3>4, <2>0, <3>2, OneMoreName
    <3>8. ASSUME isTruncated'
          PROVE  /\ After(bucket, continuationToken') \subseteq ahead
                 /\ passes' <= Cardinality(Passed')
      <4>1. answer.token \in answer.keys
          BY <3>8, <3>1, <3>3 DEF IsListing
      <4>2. /\ answer.token \in bucket /\ answer.token \in Nat
            /\ answer.token > continuationToken
          BY <4>1, <3>3, <2>0 DEF IsListing, After, TypeOK
      <4>3. After(bucket, continuationToken') \subseteq After(bucket, continuationToken)
        <5>1. ASSUME NEW j \in bucket, j > continuationToken'
              PROVE  j > continuationToken
          <6>1. j \in Nat
              BY <2>0 DEF TypeOK
          <6> QED
              BY <6>1, <5>1, <4>2, <3>1, <2>0
        <5> QED
            BY <5>1 DEF After
      <4>4. answer.token \in Passed' \ Passed
          BY <4>1, <4>2, <3>1, <3>2, <3>3, <3>4, <2>0 DEF IsListing, After, Passed, TypeOK
      <4>5. Passed \subseteq Passed'
        <5>1. ASSUME NEW j \in ahead, j <= continuationToken
              PROVE  j <= continuationToken'
          <6>1. j \in Nat
              BY <2>0 DEF TypeOK
          <6> QED
              BY <6>1, <5>1, <4>2, <3>1, <2>0
        <5> QED
            BY <5>1, <3>2 DEF Passed
      <4>6. IsFiniteSet(Passed')
          BY <3>2, <2>0, FS_Subset DEF Passed
      <4>7. passes + 1 <= Cardinality(Passed')
          BY <4>4, <4>5, <4>6, <3>4, <2>0, OneMoreName
      <4> QED
          BY <4>3, <4>7, <3>2, <3>4
    <3> QED
        BY <3>2, <3>7, <3>8, <2>0 DEF EarnedInv, PassesAreEarned, GoingOn
  <2>3. CASE ListEmpty \/ ListFails \/ DeleteFails
    <3>1. UNCHANGED <<ahead, passes>> /\ ~GoingOn' /\ pc' # "idle"
        BY <2>3 DEF ListEmpty, ListFails, DeleteFails, OnError, Broken, GoingOn
    <3> QED
        BY <3>1 DEF EarnedInv, PassesAreEarned
  <2>4. CASE DeletePage
    <3>1. /\ UNCHANGED <<ahead, passes, continuationToken>>
          /\ bucket' \subseteq bucket /\ pc' # "idle"
          /\ GoingOn' => GoingOn
        BY <2>4 DEF DeletePage, LoopAgain, GoingOn
    <3>2. Passed' = Passed
        BY <3>1 DEF Passed
    <3> QED
        BY <3>1, <3>2 DEF EarnedInv, PassesAreEarned, After
  <2>5. ASSUME NEW k \in Keys, Put(k)
        PROVE  EarnedInv'
    <3>1. /\ UNCHANGED <<pc, continuationToken, isTruncated, passes>>
          /\ bucket' = bucket \cup {k}
          /\ ahead' = IF GoingOn /\ k > continuationToken THEN ahead \cup {k} ELSE ahead
          /\ GoingOn' = GoingOn
        BY <2>5 DEF Put, GoingOn
    <3>2. IsFiniteSet(ahead') /\ ahead \subseteq ahead'
        BY <3>1, <2>0, FS_AddElement
    <3>3. Cardinality(ahead) <= Cardinality(ahead') /\ Cardinality(ahead') \in Nat
        BY <3>2, FS_Subset, FS_CardinalityType
    <3>4. Passed' = Passed
        BY <3>1, <2>0 DEF Passed
    <3>5. GoingOn => After(bucket', continuationToken) \subseteq ahead'
        BY <3>1 DEF After, EarnedInv
    <3> QED
        BY <3>1, <3>2, <3>3, <3>4, <3>5, <2>0 DEF EarnedInv, PassesAreEarned
  <2>6. ASSUME NEW gone \in SUBSET bucket, Remove(gone)
        PROVE  EarnedInv'
    <3>1. /\ UNCHANGED <<pc, continuationToken, isTruncated, ahead, passes>>
          /\ bucket' \subseteq bucket
        BY <2>6 DEF Remove
    <3>2. Passed' = Passed /\ GoingOn' = GoingOn
        BY <3>1 DEF Passed, GoingOn
    <3> QED
        BY <3>1, <3>2 DEF EarnedInv, PassesAreEarned, After
  <2>7. CASE UNCHANGED vars
      BY <2>7 DEF vars, EarnedInv, PassesAreEarned, GoingOn, Passed, After
  <2> QED
      BY <2>1, <2>2, <2>3, <2>4, <2>5, <2>6, <2>7 DEF Next, Step, Others
<1>3. EarnedInv => PassesAreEarned
    BY DEF EarnedInv
<1> QED
    BY <1>1, <1>2, <1>3, TypeCorrect, PTL DEF Spec
=============================================================================
