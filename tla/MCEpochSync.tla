----------------------------- MODULE MCEpochSync -----------------------------
(***************************************************************************)
(* EpochSync for TLC: the streams of the runs.  A second has four ticks in *)
(* the run of the files and five in the others.                            *)
(***************************************************************************)
EXTENDS EpochSync

Source(station, kind, obs) ==
    [station |-> station, kind |-> kind, obs |-> obs, truncated |-> FALSE]

(* RINEX files of one epoch a second that begin and end at different       *)
(* epochs, and the files of two days of one station.                       *)
DenseFiles ==
    << Source("ALIC", "rinex", << 8, 12, 16 >>),
       Source("ALIC", "rinex", << 20, 24 >>),
       Source("HOB2", "rinex", << 12, 16 >>),
       Source("YAR2", "rinex", << 4, 8, 12, 16, 20 >>) >>

(* Receivers that observe up to two fifths of a second early or late, one  *)
(* on a caster, one in an RTCM file.                                       *)
Jittering ==
    << Source("ALIC", "ntrip", << 6, 8, 17, 19 >>),
       Source("HOB2", "rtcm", << 5, 11, 14, 20 >>) >>

(* The hypotheses of the theorems about what the runs check.               *)
ASSUME FileAssumptions ==
    Streams = DenseFiles =>
        /\ TicksPerSecond <= EpochInterval /\ ObsAscend /\ OnSeconds
        /\ FilesWithoutGaps /\ FilesGoOn

ASSUME JitterAssumptions ==
    Streams = Jittering =>
        TicksPerSecond <= EpochInterval /\ 2 * Delta < Step /\ OneStreamEach /\ ObsAscend
==============================================================================
