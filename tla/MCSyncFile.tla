----------------------------- MODULE MCSyncFile ------------------------------
(***************************************************************************)
(* SyncFile for TLC.                                                       *)
(***************************************************************************)
EXTENDS SyncFile

SecondUnobserved == {2}
==============================================================================
