---------------------------- MODULE ObjectStore ----------------------------
(***************************************************************************)
(* The object storage service as pkg/storage/storage.go sees it: the       *)
(* answers that ListObjects and DeleteObjects can get for the objects a    *)
(* bucket holds.  A bucket is a set of keys; a key is a number, numbers    *)
(* being ordered as the service orders names.  A continuation token is     *)
(* opaque to the client; it stands for the last key of the page before.    *)
(***************************************************************************)
EXTENDS Naturals, FiniteSets

CONSTANTS
    Keys,     \* the object names that matter
    MaxKeys   \* the page limit ClearBucket asks for (1000 in the code)

ASSUME KeysAssumption == Keys \subseteq Nat \ {0}
ASSUME MaxKeysAssumption == MaxKeys \in Nat \ {0}

\* The empty continuation token: list from the first key.
NoToken == 0

Tokens == Keys \cup {NoToken}

Listing == [keys : SUBSET Keys, token : Tokens, truncated : BOOLEAN]

After(objects, token) == {k \in objects : k > token}

(***************************************************************************)
(* One page: the least keys after the token, at most MaxKeys of them (the  *)
(* service may return fewer, but an empty page only when nothing is left), *)
(* the truncation flag, and a next token only with a truncated page.       *)
(***************************************************************************)
IsListing(answer, rest) ==
    /\ answer.keys \subseteq rest
    /\ Cardinality(answer.keys) <= MaxKeys
    /\ answer.keys = {} => rest = {}
    /\ \A k \in answer.keys, j \in rest \ answer.keys : k < j
    /\ answer.truncated <=> answer.keys # rest
    /\ IF answer.truncated
       THEN /\ answer.token \in answer.keys
            /\ \A k \in answer.keys : k <= answer.token
       ELSE answer.token = NoToken

\* The answers of ListObjects(bucket, maxKeys, continuationToken).
Listings(objects, token) ==
    {answer \in Listing : IsListing(answer, After(objects, token))}

(***************************************************************************)
(* A multi-object delete request answers for each key on its own: any part *)
(* of the page may be removed.  The caller is told of an error only when   *)
(* the request as a whole fails.                                           *)
(***************************************************************************)
Removals(page) == SUBSET page
=============================================================================
