--------------------------- MODULE MCClearBucket ---------------------------
(***************************************************************************)
(* A bucket of three names with gaps between them, listed in pages of at   *)
(* most two: a full clear takes two or three pages.                        *)
(***************************************************************************)
EXTENDS ClearBucket

MCKeys == {1, 3, 5}
=============================================================================
