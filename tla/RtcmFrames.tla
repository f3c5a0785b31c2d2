------------------------------ MODULE RtcmFrames ------------------------------
(***************************************************************************)
(* NtripRtcmStream of the PEA: the bytes that the io_service thread takes  *)
(* from a caster's chunks (dataChunkDownloaded), their hand-over to the    *)
(* main thread (getData), and the parser that finds the RTCM frames in     *)
(* them and collects the observations of an epoch from several messages    *)
(* (getObs, getNav of common/acsStream.hpp, RtcmStream::parseRTCM of       *)
(* common/acsStream.cpp).                                                  *)
(*                                                                         *)
(* A byte is told by its position in the caster's stream, so that it is    *)
(* known of everything in a buffer where it comes from.  A chunk that was  *)
(* dropped, or lost with a connection, leaves a gap, and frames cut off.   *)
(***************************************************************************)
EXTENDS Integers, Sequences

CONSTANTS
    Stream,            \* the caster's bytes
    Frames,            \* its frames in order: records [first, last, kind,
                       \* time, obs, more] with the positions of the first
                       \* and last byte; for kind "msm" the time, the number
                       \* of observations and the multiple message bit
    Preamble,          \* RTCM_PREAMBLE
    SimulateRealTime,  \* simulate_real_time
    SuperLimit,        \* observations in SuperList from which it is dropped
    ChunkSizes,        \* bound: the sizes of chunks
    MaxLost            \* bound on the chunks lost

(* RtcmDecoder::message_length(): ten bits.                                *)
MessageLength(high, low) == 256 * (high % 4) + low

ASSUME ConstantsAssumption ==
    /\ Stream \in Seq(0 .. 255)
    /\ Preamble \in 0 .. 255
    /\ Frames \in Seq([first : Nat \ {0}, last : Nat, time : Nat, obs : Nat,
                       kind : {"msm", "timestamp", "other"}, more : BOOLEAN])
    /\ \A f \in DOMAIN Frames :
          /\ Frames[f].first + 5 <= Frames[f].last
          /\ Frames[f].last <= Len(Stream)
          /\ Stream[Frames[f].first] = Preamble
          /\ Frames[f].last - Frames[f].first - 5 =
                 MessageLength(Stream[Frames[f].first + 1],
                               Stream[Frames[f].first + 2])
          /\ \A g \in DOMAIN Frames : g < f => Frames[g].last < Frames[f].first
    /\ SimulateRealTime \in BOOLEAN
    /\ SuperLimit \in Nat
    /\ ChunkSizes \subseteq Nat \ {0}
    /\ MaxLost \in Nat

VARIABLES
    sent,                \* bytes that left the caster
    delivered,           \* those handed to dataChunkDownloaded (history)
    lost,                \* chunks lost
    receivedDataBuffer,  \* filled by the io_service thread
    receivedData,        \* of the main thread
    pc,                  \* "idle", or "parse": the main thread in parseRTCM
    read,                \* bytes of receivedData read by parseRTCM
    decoded,             \* frames decoded (history)
    SuperList,           \* observations of the epoch begun, by their frame
    obsListList          \* epochs handed over, none of them eaten

caster == <<sent, delivered, lost>>
obsVars == <<decoded, SuperList, obsListList>>
vars == <<caster, receivedDataBuffer, receivedData, pc, read, obsVars>>

Ids == DOMAIN Frames
Positions == 1 .. Len(Stream)

(* Of the messages of a caster, where theorems need more than the above.    *)

(* A caster sends the messages of an epoch after those of the epoch before, *)
(* and the one without the multiple message bit as the last of its epoch.  *)
EpochsAscend ==
    \A f, g \in Ids :
        f < g /\ Frames[f].kind = "msm" /\ Frames[g].kind = "msm"
            => /\ Frames[f].time <= Frames[g].time
               /\ ~Frames[f].more => Frames[f].time < Frames[g].time

(* Observations are counted by `total', and an epoch has no more of them   *)
(* than are collected before all are dropped.                              *)
WithinLimit(total) ==
    /\ total \in [0 .. Len(Frames) -> Nat]
    /\ \A m \in 0 .. Len(Frames), f \in Ids :
          m < f => total[m] + Frames[f].obs <= total[f]
    /\ \A f, g \in Ids :
          f <= g /\ Frames[f].time = Frames[g].time
              => total[g] - total[f - 1] <= SuperLimit

(* Every message has observations.                                         *)
NoneEmpty == \A f \in Ids : Frames[f].kind = "msm" => Frames[f].obs > 0

TypeOK ==
    /\ sent \in 0 .. Len(Stream)
    /\ delivered \in Seq(Positions)
    /\ lost \in 0 .. MaxLost
    /\ receivedDataBuffer \in Seq(Positions)
    /\ receivedData \in Seq(Positions)
    /\ pc \in {"idle", "parse"}
    /\ read \in 0 .. Len(receivedData)
    /\ decoded \in Seq(Ids)
    /\ SuperList \in Seq(Ids)
    /\ obsListList \in Seq(Seq(Ids))

Init ==
    /\ sent = 0
    /\ delivered = << >>
    /\ lost = 0
    /\ receivedDataBuffer = << >>
    /\ receivedData = << >>
    /\ pc = "idle"
    /\ read = 0
    /\ decoded = << >>
    /\ SuperList = << >>
    /\ obsListList = << >>

------------------------------------------------------------------------------
(* The io_service thread.                                                  *)
Bytes(from, to) == [k \in 1 .. to - from + 1 |-> from + k - 1]

Sends(size) == sent + size <= Len(Stream) /\ sent' = sent + size

DataChunkDownloaded(size) ==
    /\ Sends(size)
    /\ receivedDataBuffer' = receivedDataBuffer \o Bytes(sent + 1, sent + size)
    /\ delivered' = delivered \o Bytes(sent + 1, sent + size)
    /\ UNCHANGED <<lost, receivedData, pc, read, obsVars>>

LoseChunk(size) ==
    /\ Sends(size)
    /\ lost < MaxLost
    /\ lost' = lost + 1
    /\ UNCHANGED <<delivered, receivedDataBuffer, receivedData, pc, read, obsVars>>

------------------------------------------------------------------------------
(* The main thread.                                                        *)
GetData ==
    /\ pc = "idle"
    /\ receivedData' = receivedData \o receivedDataBuffer
    /\ receivedDataBuffer' = << >>
    /\ read' = 0
    /\ pc' = "parse"
    /\ UNCHANGED <<caster, obsVars>>

Byte(k) == Stream[receivedData[k]]

Left == Len(receivedData) - read

(* Mutants: the position outlives the bytes erased; nothing is erased.     *)
KeepPosition(pos) ==
    /\ receivedData' = SubSeq(receivedData, pos + 1, Len(receivedData))
    /\ read' = pos
    /\ pc' = "idle"
    /\ UNCHANGED <<caster, receivedDataBuffer>>

EraseNothing(pos) ==
    /\ read' = 0
    /\ pc' = "idle"
    /\ UNCHANGED <<caster, receivedDataBuffer, receivedData>>

(* parseRTCM returns at `pos'; what lies before is erased.                 *)
Return(pos) ==
    /\ receivedData' = SubSeq(receivedData, pos + 1, Len(receivedData))
    /\ read' = 0
    /\ pc' = "idle"
    /\ UNCHANGED <<caster, receivedDataBuffer>>

GoOn(pos) ==
    /\ read' = pos
    /\ UNCHANGED <<caster, receivedDataBuffer, receivedData, pc>>

EndOfData ==
    /\ pc = "parse"
    /\ Left = 0
    /\ Return(Len(receivedData))
    /\ UNCHANGED obsVars

SkipByte ==
    /\ pc = "parse"
    /\ Left > 0
    /\ Byte(read + 1) # Preamble
    /\ GoOn(read + 1)
    /\ UNCHANGED obsVars

AtPreamble ==
    /\ pc = "parse"
    /\ Left > 0
    /\ Byte(read + 1) = Preamble

FrameSize == 6 + MessageLength(Byte(read + 2), Byte(read + 3))

Complete == Left >= 3 /\ Left >= FrameSize

(* Mutant: the beginning of the frame is not put back.                     *)
ForgetFrame ==
    /\ AtPreamble
    /\ ~Complete
    /\ Return(Len(receivedData))
    /\ UNCHANGED obsVars

WaitForFrame ==
    /\ AtPreamble
    /\ ~Complete
    /\ Return(read)
    /\ UNCHANGED obsVars

(* The checksum of the frame read is right: taken to be so exactly when    *)
(* all its bytes are those of a frame of the caster.                       *)
PassesCRC(f) ==
    /\ AtPreamble
    /\ Complete
    /\ FrameSize = Frames[f].last - Frames[f].first + 1
    /\ \A k \in 1 .. FrameSize :
          receivedData[read + k] = Frames[f].first + k - 1

BadFrame ==
    /\ AtPreamble
    /\ Complete
    /\ \A f \in Ids : ~PassesCRC(f)

(* Mutant: a bad frame is put back.                                        *)
PutBadFrameBack ==
    /\ BadFrame
    /\ Return(read)
    /\ UNCHANGED obsVars

(* Go back behind the length of the frame, and search there.               *)
FailsCRC ==
    /\ BadFrame
    /\ GoOn(read + 3)
    /\ UNCHANGED obsVars

Decoding(f) ==
    /\ PassesCRC(f)
    /\ decoded' = Append(decoded, f)

DecodeOther(f) ==
    /\ Decoding(f)
    /\ Frames[f].kind # "msm"
    /\ GoOn(read + FrameSize)
    /\ UNCHANGED <<SuperList, obsListList>>

(* A timestamp that is not due yet: go back to its frame.                  *)
HoldBack(f) ==
    /\ PassesCRC(f)
    /\ Frames[f].kind = "timestamp"
    /\ SimulateRealTime
    /\ Return(read)
    /\ UNCHANGED obsVars

Observations(f) == [k \in 1 .. Frames[f].obs |-> f]

(* Mutant: the messages before the last one are dropped.                   *)
LastMessageAlone(f) ==
    /\ Decoding(f)
    /\ Frames[f].kind = "msm"
    /\ ~Frames[f].more
    /\ obsListList' = Append(obsListList, Observations(f))
    /\ SuperList' = << >>
    /\ Return(read + FrameSize)

(* The last message of an epoch.                                           *)
LastMessage(f) ==
    /\ Decoding(f)
    /\ Frames[f].kind = "msm"
    /\ ~Frames[f].more
    /\ obsListList' = Append(obsListList, SuperList \o Observations(f))
    /\ SuperList' = << >>
    /\ Return(read + FrameSize)

NeverOfNewEpoch(f) == FALSE         \* mutant: times are not compared

OfNewEpoch(f) ==
    /\ SuperList # << >>
    /\ Frames[f].obs > 0
    /\ Frames[f].time # Frames[Head(SuperList)].time

Limited(list) == IF Len(list) > SuperLimit THEN << >> ELSE list

MoreToCome(f) ==
    /\ Decoding(f)
    /\ Frames[f].kind = "msm"
    /\ Frames[f].more
    /\ GoOn(read + FrameSize)

FirstOfEpoch(f) ==
    /\ MoreToCome(f)
    /\ OfNewEpoch(f)
    /\ obsListList' = Append(obsListList, SuperList)
    /\ SuperList' = Limited(Observations(f))

OfEpoch(f) ==
    /\ MoreToCome(f)
    /\ ~OfNewEpoch(f)
    /\ SuperList' = Limited(SuperList \o Observations(f))
    /\ UNCHANGED obsListList

ParseRTCM ==
    \/ EndOfData
    \/ SkipByte
    \/ WaitForFrame
    \/ FailsCRC
    \/ \E f \in Ids : \/ DecodeOther(f)
                      \/ HoldBack(f)
                      \/ LastMessage(f)
                      \/ FirstOfEpoch(f)
                      \/ OfEpoch(f)

IoThread == \E size \in ChunkSizes : DataChunkDownloaded(size) \/ LoseChunk(size)

Next == IoThread \/ GetData \/ ParseRTCM

Spec == Init /\ [][Next]_vars

(* The epoch loop asks the stream again and again; a timestamp is due at   *)
(* some time.                                                              *)
FairSpec ==
    /\ Spec
    /\ WF_vars(GetData)
    /\ WF_vars(ParseRTCM)
    /\ \A f \in {g \in Ids : Frames[g].kind = "timestamp"} :
          SF_vars(DecodeOther(f))

------------------------------------------------------------------------------
(* Safety.                                                                 *)

(* Each frame is decoded at most once and none before an earlier one,      *)
(* whatever is cut, lost, put back or looked at again.                     *)
DecodedInOrder ==
    \A j, k \in DOMAIN decoded : j < k => decoded[j] < decoded[k]

IsDecoded(f) == \E k \in DOMAIN decoded : decoded[k] = f

(* Bytes of `delivered' that the parser is done with.                      *)
Passed == Len(delivered) - Len(receivedDataBuffer) - Len(receivedData) + read

OfDecoded(position) ==
    \E k \in DOMAIN decoded :
        position \in Frames[decoded[k]].first .. Frames[decoded[k]].last

(* The byte of `delivered' is taken for a preamble and is none.            *)
FalsePreamble(k) ==
    k \in DOMAIN delivered
        /\ Stream[delivered[k]] = Preamble
        /\ ~OfDecoded(delivered[k])

(* A frame that arrived is never lost for what else was lost or cut, but   *)
(* in one case: its preamble is one of the two bytes behind a false one,   *)
(* which are not searched again.                                           *)
NoFrameSkipped ==
    \A f \in Ids : \A k \in 1 .. Passed :
        /\ delivered[k] = Frames[f].first
        /\ k + Frames[f].last - Frames[f].first <= Len(delivered)
        /\ delivered[k + Frames[f].last - Frames[f].first] = Frames[f].last
        => IsDecoded(f) \/ FalsePreamble(k - 1) \/ FalsePreamble(k - 2)

Observes(f, time) == Frames[f].kind = "msm" /\ Frames[f].time = time

InList(list, f) == \E k \in DOMAIN list : list[k] = f

(* When the last message of an epoch is decoded, the epoch is handed over  *)
(* with the observations of all its messages that were decoded.            *)
EpochsWhole ==
    \A j \in DOMAIN decoded :
        Frames[decoded[j]].kind = "msm" /\ ~Frames[decoded[j]].more =>
            \E n \in DOMAIN obsListList : \A k \in DOMAIN decoded :
                /\ Observes(decoded[k], Frames[decoded[j]].time)
                /\ Frames[decoded[k]].obs > 0
                => InList(obsListList[n], decoded[k])

(* Observations of two epochs get into one list only when the last message *)
(* of the former was not decoded, and of the latter nothing but the last.  *)
EpochsApart ==
    \A n \in DOMAIN obsListList : \A j, k \in DOMAIN obsListList[n] :
        LET f == obsListList[n][j]
            g == obsListList[n][k]
        IN  Frames[f].time < Frames[g].time =>
                \A h \in Ids : IsDecoded(h) =>
                    /\ Observes(h, Frames[f].time) => Frames[h].more
                    /\ Observes(h, Frames[g].time) => h = g

------------------------------------------------------------------------------
(* Liveness: when the caster has sent everything, all of it is parsed, but *)
(* for a frame whose rest did not come; no call that stops at the end of   *)
(* an epoch leaves anything behind.                                        *)
WaitsForRest ==
    /\ receivedDataBuffer = << >>
    /\ receivedData # << >> => Byte(1) = Preamble /\ ~(read = 0 /\ Complete)

AllIsParsed == <>[](sent = Len(Stream)) => <>[]WaitsForRest
==============================================================================
