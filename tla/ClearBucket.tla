---------------------------- MODULE ClearBucket ----------------------------
(***************************************************************************)
(* StorageServiceImpl.ClearBucket (pkg/storage/storage.go): list a page,   *)
(* delete it, go on from the continuation token while the listing was      *)
(* truncated.  Every request is a step of its own, and between two of them *)
(* other clients of the bucket write and delete objects.                   *)
(***************************************************************************)
EXTENDS ObjectStore

VARIABLES
    bucket,             \* keys of the objects in the bucket
    pc,                 \* where the call is
    keys,               \* page listed last
    continuationToken,  \* where the next listing starts
    isTruncated,        \* the listing before was not the last one
    old,                \* history: objects that were there when the call began
                        \* and were not written again since
    refused,            \* history: keys of a page whose deletion the service
                        \* declined in an otherwise successful answer
    ahead,              \* history: names that were there when the call began
                        \* or were written after its token since
    passes              \* history: pages the call has listed

history == <<old, refused, ahead, passes>>
vars == <<bucket, pc, keys, continuationToken, isTruncated, old, refused, ahead, passes>>

Ended == {"done", "failed", "killed"}

\* Returned an error, or the process was killed before the answer arrived.
Broken == {"failed", "killed"}

TypeOK ==
    /\ bucket \subseteq Keys /\ IsFiniteSet(bucket)
    /\ pc \in {"idle", "list", "delete"} \cup Ended
    /\ keys \subseteq Keys
    /\ continuationToken \in Tokens
    /\ isTruncated \in BOOLEAN
    /\ old \subseteq Keys
    /\ refused \subseteq Keys
    /\ ahead \subseteq Keys
    /\ passes \in Nat

Init ==
    /\ bucket \in SUBSET Keys /\ IsFiniteSet(bucket)
    /\ pc = "idle"
    /\ keys = {}
    /\ continuationToken = NoToken
    /\ isTruncated = FALSE
    /\ old = {}
    /\ refused = {}
    /\ ahead = {}
    /\ passes = 0
-----------------------------------------------------------------------------
(***************************************************************************)
(* Faulty variants of the definitions below, for the mutation checks.      *)
(***************************************************************************)
\* The token of the answer is dropped.
TokenDropped(answer) == NoToken
\* The next listing skips the key that follows the page.
TokenOffByOne(answer) == answer.token + 1
\* One page is taken for the whole bucket.
SinglePage == "done"
\* An error of the delete request is swallowed.
ErrorSwallowed == {"done", "killed"}
-----------------------------------------------------------------------------
\* continuationToken = nextContinuationToken
NextToken(answer) == answer.token

\* The loop test: for isTruncated { ... }
LoopAgain == IF isTruncated THEN "list" ELSE "done"

\* What is left of the call when a request fails.
OnError == Broken

\* The call: the loop variables are set and the loop test holds.
Call ==
    /\ pc = "idle"
    /\ pc' = "list"
    /\ continuationToken' = NoToken
    /\ isTruncated' = TRUE
    /\ old' = bucket
    /\ ahead' = bucket
    /\ UNCHANGED <<bucket, keys, refused, passes>>

\* ListObjects answers with a page: remember it and where to go on.
ListPage ==
    /\ pc = "list"
    /\ \E answer \in Listings(bucket, continuationToken) :
          /\ answer.keys # {}
          /\ keys' = answer.keys
          /\ continuationToken' = NextToken(answer)
          /\ isTruncated' = answer.truncated
    /\ pc' = "delete"
    /\ passes' = passes + 1
    /\ UNCHANGED <<bucket, old, refused, ahead>>

\* len(keys) == 0: leave the loop.
ListEmpty ==
    /\ pc = "list"
    /\ \E answer \in Listings(bucket, continuationToken) : answer.keys = {}
    /\ pc' = "done"
    /\ UNCHANGED <<bucket, keys, continuationToken, isTruncated, history>>

\* ListObjects fails: ClearBucket returns the error.
ListFails ==
    /\ pc = "list"
    /\ pc' \in OnError
    /\ UNCHANGED <<bucket, keys, continuationToken, isTruncated, history>>

\* DeleteObjects answers; what it says of single keys is only counted.
DeletePage ==
    /\ pc = "delete"
    /\ \E gone \in Removals(keys) :
          /\ bucket' = bucket \ gone
          /\ refused' = refused \cup (keys \ gone)
    /\ pc' = LoopAgain
    /\ UNCHANGED <<keys, continuationToken, isTruncated, old, ahead, passes>>

\* DeleteObjects fails, with or without effect on the bucket.
DeleteFails ==
    /\ pc = "delete"
    /\ \E gone \in Removals(keys) : bucket' = bucket \ gone
    /\ pc' \in OnError
    /\ UNCHANGED <<keys, continuationToken, isTruncated, history>>

Step == ListPage \/ ListEmpty \/ ListFails \/ DeletePage \/ DeleteFails
-----------------------------------------------------------------------------
(***************************************************************************)
(* Other clients of the bucket.                                            *)
(***************************************************************************)
\* The call is to list the names after its token.
GoingOn == pc = "list" \/ (pc = "delete" /\ isTruncated)

Put(k) ==
    /\ bucket' = bucket \cup {k}
    /\ old' = old \ {k}
    /\ ahead' = IF GoingOn /\ k > continuationToken THEN ahead \cup {k} ELSE ahead
    /\ UNCHANGED <<pc, keys, continuationToken, isTruncated, refused, passes>>

Remove(gone) ==
    /\ bucket' = bucket \ gone
    /\ UNCHANGED <<pc, keys, continuationToken, isTruncated, history>>

Others == (\E k \in Keys : Put(k)) \/ (\E gone \in SUBSET bucket : Remove(gone))

Next == Call \/ Step \/ Others

Spec == Init /\ [][Next]_vars
-----------------------------------------------------------------------------
(***************************************************************************)
(* A call that reports success has removed every object it found, except   *)
(* those the service refused to delete; objects it leaves besides these    *)
(* were written while it ran.  (Loop of ClearBucket: no page is skipped.)  *)
(***************************************************************************)
OnlyRefusedSurvive == pc = "done" => bucket \cap old \subseteq refused

(***************************************************************************)
(* "Loop until all objects are deleted" (storage.go:203): a call that      *)
(* reports success has removed every object it found.                      *)
(***************************************************************************)
SuccessMeansCleared == pc = "done" => bucket \cap old = {}

(***************************************************************************)
(* What the loop maintains.  While listing, all that is left at or before  *)
(* the token was refused; while deleting, what is owed is in the page or   *)
(* after the token.                                                        *)
(***************************************************************************)
SweptInv ==
    /\ pc = "list" =>
          \A k \in (bucket \cap old) \ refused : k > continuationToken
    /\ pc = "delete" =>
          \A k \in (bucket \cap old) \ refused :
             k \in keys \/ (isTruncated /\ k > continuationToken)
    /\ OnlyRefusedSurvive

(***************************************************************************)
(* The loop has no limit (for isTruncated): others who go on writing after *)
(* its token keep it going.  Nothing else does: for each page it lists     *)
(* there is a name of its own that was there when the call began or that   *)
(* others have written ahead of it since, whatever is refused and whatever *)
(* is written behind the token.                                            *)
(***************************************************************************)
PassesAreEarned == passes <= Cardinality(ahead)

-----------------------------------------------------------------------------
(***************************************************************************)
(* The objects the call still has to remove, and what it promises of them. *)
(***************************************************************************)
Owed == IF pc = "idle" THEN {} ELSE (bucket \cap old) \ refused

Status == IF pc \in {"list", "delete"} THEN "running" ELSE pc

Promise == INSTANCE ClearPromise WITH owed <- Owed, status <- Status

(***************************************************************************)
(* ClearBucket implements ClearPromise: it starts owing what is there, the *)
(* debt only shrinks, and success is reported only when nothing is owed.   *)
(***************************************************************************)
KeepsPromise == Promise!Spec
=============================================================================
