---------------------------- MODULE ClearPromise ----------------------------
(***************************************************************************)
(* What clearing a bucket promises its caller (StorageService.ClearBucket, *)
(* pkg/storage/storage.go), whatever the pages and whoever else uses the   *)
(* bucket: the call owes the removal of the objects it found; the debt     *)
(* only shrinks, because an object is removed, written anew by somebody,   *)
(* or refused by the service; success is reported without debt only.       *)
(* That the call ends is not promised: the loop has no limit of its own.   *)
(***************************************************************************)
CONSTANT Keys

VARIABLES
    owed,    \* objects the call still has to remove
    status   \* "idle", "running" or how the call ended

vars == <<owed, status>>

Init == owed = {} /\ status = "idle"

Start ==
    /\ status = "idle"
    /\ status' = "running"
    /\ owed' \in SUBSET Keys

Shrink ==
    /\ owed' \in SUBSET owed
    /\ status' = status

Succeed ==
    /\ status = "running"
    /\ status' = "done"
    /\ owed' = {}

Fail ==
    /\ status = "running"
    /\ status' \in {"failed", "killed"}
    /\ owed' \in SUBSET owed

Next == Start \/ Shrink \/ Succeed \/ Fail

Spec == Init /\ [][Next]_vars
=============================================================================
