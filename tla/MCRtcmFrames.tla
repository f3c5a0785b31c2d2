---------------------------- MODULE MCRtcmFrames ----------------------------
(***************************************************************************)
(* RtcmFrames for TLC: a timestamp and two epochs of two messages.  The    *)
(* preamble is a byte that, as part of a length, does not make a frame     *)
(* longer than the stream; it also occurs in messages and checksums.       *)
(***************************************************************************)
EXTENDS RtcmFrames

PreambleByte == 4

AllBytes ==
    << 4, 0, 0,         9, 9, 9,
       4, 0, 1,  9,     9, 9, 4,
       4, 0, 2,  9, 4,  0, 1, 9,
       4, 0, 1,  9,     9, 9, 9,
       4, 0, 0,         9, 9, 9 >>

Frame(kind, first, last, time, more) ==
    [kind |-> kind, first |-> first, last |-> last, time |-> time,
     obs |-> IF kind = "msm" THEN 1 ELSE 0, more |-> more]

AllFrames ==
    << Frame("timestamp",  1,  6, 0, FALSE),
       Frame("msm",        7, 13, 1, TRUE),
       Frame("msm",       14, 21, 1, FALSE),
       Frame("msm",       22, 28, 2, TRUE),
       Frame("msm",       29, 34, 2, FALSE) >>

(* Messages up to a frame: each has one observation.                        *)
Messages == [f \in 0 .. 5 |-> IF f = 0 THEN 0 ELSE f - 1]

ASSUME EpochAssumptions == EpochsAscend /\ NoneEmpty /\ WithinLimit(Messages)
=============================================================================
