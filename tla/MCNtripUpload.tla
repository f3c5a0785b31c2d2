--------------------------- MODULE MCNtripUpload ---------------------------
(***************************************************************************)
(* NtripUpload for TLC.  The slots of chains are model values; they are    *)
(* interchangeable, but symmetry is unsound for the liveness properties.   *)
(***************************************************************************)
EXTENDS NtripUpload
============================================================================
