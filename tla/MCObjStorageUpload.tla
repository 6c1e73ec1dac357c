------------------------- MODULE MCObjStorageUpload -------------------------
(***************************************************************************)
(* Two runs on a bucket of three keys.  The inputs are those that differ   *)
(* for the code: rejected; two sites with and without CLEAR that overlap   *)
(* in key 2; a file excluded; a file that two INCLUDE patterns visit.      *)
(***************************************************************************)
EXTENDS ObjStorageUpload

CONSTANTS r1, r2

MCKeys == {1, 2, 3}
MCRuns == {r1, r2}

MCInputs ==
    { [valid |-> FALSE, clear |-> TRUE,  visits |-> <<1>>,       exclude |-> {}],
      [valid |-> TRUE,  clear |-> TRUE,  visits |-> <<1, 2>>,    exclude |-> {}],
      [valid |-> TRUE,  clear |-> FALSE, visits |-> <<2, 3, 2>>, exclude |-> {3}] }

FirstClear == INSTANCE ClearPromise
    WITH owed <- owed[r1], status <- ClearStatus(r1)

(***************************************************************************)
(* Seen from one run, what happens to the bucket is what ClearPromise says *)
(* of a clear among other clients; the uploads of the other run and its    *)
(* own are those clients.  Both runs take all inputs, so one stands for    *)
(* the other.                                                              *)
(***************************************************************************)
ClearsAsPromised == FirstClear!Spec
=============================================================================
