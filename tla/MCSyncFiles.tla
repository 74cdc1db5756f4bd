---------------------------- MODULE MCSyncFiles ----------------------------
(***************************************************************************)
(* SyncFiles with a small new document and a bigger old one.               *)
(***************************************************************************)
EXTENDS SyncFiles

MCSizes == <<2, 1>>
=============================================================================
