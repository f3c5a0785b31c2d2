-------------------------- MODULE MCSsrCorrections ---------------------------
(***************************************************************************)
(* SsrCorrections for TLC.                                                 *)
(***************************************************************************)
EXTENDS SsrCorrections

CONSTANTS s1, s2

TwoSatellites == {s1, s2}

(* Each is in sight every other epoch. *)
Rising == [s \in TwoSatellites |-> IF s = s1 THEN {2, 4} ELSE {1, 3, 5}]

(* The precise ephemeris of the first one has a gap. *)
WithGap == [s \in TwoSatellites |-> IF s = s1 THEN {2, 6} ELSE {1, 3, 5, 7}]

(* The network may be without a broadcast ephemeris of the first one. *)
MayLack == [s \in TwoSatellites |-> IF s = s1 THEN {0, 1} ELSE {1}]
==============================================================================
