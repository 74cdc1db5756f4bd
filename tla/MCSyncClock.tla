---------------------------- MODULE MCSyncClock ----------------------------
(***************************************************************************)
(* SyncClock with two devices, on which the same rows travel both ways.    *)
(***************************************************************************)
EXTENDS SyncClock, TLC

\* The rows are interchangeable.
Symmetry == Permutations(Items)
=============================================================================
