---------------------------- MODULE MCSyncService ----------------------------
(***************************************************************************)
(* The small instance of module SyncService: one desktop with one kind of  *)
(* trouble at a time, or both desktops with none. The theorems of          *)
(* SyncServiceProofs are about any desktops with all of it together.       *)
(***************************************************************************)
EXTENDS SyncService

SomeScopes ==
  {[run |-> {"desk"}, besides |-> {kind}] : kind \in {"lock", "break", "remove", "write", "stranger", "seen"}}
    \cup {[run |-> Desktops, besides |-> {}]}
=============================================================================
