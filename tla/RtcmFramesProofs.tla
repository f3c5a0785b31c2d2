-------------------------- MODULE RtcmFramesProofs --------------------------
(***************************************************************************)
(* Proofs about RtcmFrames, for any stream, frames and chunks.             *)
(***************************************************************************)
EXTENDS RtcmFrames, TLAPS

(* Sequences.                                                              *)
LEMMA ElementType ==
    ASSUME NEW S, NEW s \in Seq(S), NEW k \in 1 .. Len(s)
    PROVE  s[k] \in S
  OBVIOUS

LEMMA AppendType ==
    ASSUME NEW S, NEW s \in Seq(S), NEW e \in S
    PROVE  Append(s, e) \in Seq(S)
  OBVIOUS

LEMMA ConcatParts ==
    ASSUME NEW S, NEW s \in Seq(S), NEW t \in Seq(S)
    PROVE  /\ Len(s \o t) = Len(s) + Len(t)
           /\ \A k \in 1 .. Len(s) : (s \o t)[k] = s[k]
           /\ \A k \in Len(s) + 1 .. Len(s) + Len(t) : (s \o t)[k] = t[k - Len(s)]
  OBVIOUS

(* The constants.                                                          *)
LEMMA FrameTypes ==
    /\ Stream \in Seq(0 .. 255)
    /\ Preamble \in 0 .. 255
    /\ Ids = 1 .. Len(Frames)
    /\ Len(Stream) \in Nat
    /\ Len(Frames) \in Nat
    /\ SimulateRealTime \in BOOLEAN
    /\ SuperLimit \in Nat
    /\ ChunkSizes \subseteq Nat \ {0}
    /\ MaxLost \in Nat
    /\ \A f \in Ids :
          /\ Frames[f].first \in Nat \ {0}
          /\ Frames[f].last \in Nat
          /\ Frames[f].obs \in Nat
          /\ Frames[f].first + 5 <= Frames[f].last
          /\ Frames[f].last <= Len(Stream)
    /\ \A f, g \in Ids : g < f => Frames[g].last < Frames[f].first
<1> DEFINE FrameRecord == [first : Nat \ {0}, last : Nat, time : Nat, obs : Nat,
                           kind : {"msm", "timestamp", "other"}, more : BOOLEAN]
<1>1. Frames \in Seq(FrameRecord)
  BY ConstantsAssumption DEF ConstantsAssumption
<1>2. Ids = 1 .. Len(Frames) /\ Len(Frames) \in Nat
  BY <1>1 DEF Ids
<1>3. \A f \in Ids : Frames[f] \in FrameRecord
  <2> HIDE DEF FrameRecord
  <2> QED
    BY <1>1, <1>2
<1>4. \A f \in Ids : /\ Frames[f].first \in Nat \ {0}
                     /\ Frames[f].last \in Nat
                     /\ Frames[f].obs \in Nat
  BY <1>3
<1>5. /\ Stream \in Seq(0 .. 255)
      /\ Preamble \in 0 .. 255
      /\ SimulateRealTime \in BOOLEAN
      /\ SuperLimit \in Nat
      /\ ChunkSizes \subseteq Nat \ {0}
      /\ MaxLost \in Nat
  BY ConstantsAssumption DEF ConstantsAssumption
<1>6. /\ \A f \in Ids : /\ Frames[f].first + 5 <= Frames[f].last
                        /\ Frames[f].last <= Len(Stream)
      /\ \A f, g \in Ids : g < f => Frames[g].last < Frames[f].first
  BY ConstantsAssumption, Zenon DEF ConstantsAssumption, Ids
<1>7. Len(Stream) \in Nat
  BY <1>5
<1> HIDE DEF FrameRecord
<1> QED
  BY <1>2, <1>4, <1>5, <1>6, <1>7, Zenon

(* Sequences of positions.                                                 *)
LEMMA BytesType ==
    ASSUME NEW from \in Nat \ {0}, NEW to \in Nat, from <= to + 1,
           to <= Len(Stream)
    PROVE  /\ Bytes(from, to) \in Seq(Positions)
           /\ Len(Bytes(from, to)) = to - from + 1
           /\ \A k \in 1 .. to - from + 1 : Bytes(from, to)[k] = from + k - 1
<1>1. to - from + 1 \in Nat
  OBVIOUS
<1>2. \A k \in 1 .. to - from + 1 : from + k - 1 \in Positions
  BY FrameTypes DEF Positions
<1> QED
  BY <1>1, <1>2 DEF Bytes

LEMMA HeaderType ==
    ASSUME TypeOK, AtPreamble, Complete
    PROVE  FrameSize \in Nat /\ FrameSize >= 6 /\ read + FrameSize <= Len(receivedData)
<1>1. /\ receivedData \in Seq(Positions)
      /\ read \in Nat
      /\ Len(receivedData) \in Nat
      /\ read + 3 <= Len(receivedData)
  BY DEF TypeOK, Complete, Left
<1>2. \A k \in 1 .. 3 : Byte(read + k) \in 0 .. 255
  <2> SUFFICES ASSUME NEW k \in 1 .. 3 PROVE Byte(read + k) \in 0 .. 255
    OBVIOUS
  <2>1. receivedData[read + k] \in Positions
    BY <1>1
  <2>2. \A position \in Positions : Stream[position] \in 0 .. 255
    <3>1. Stream \in Seq(0 .. 255)
      BY FrameTypes
    <3> QED
      BY <3>1, ElementType DEF Positions
  <2> QED
    BY <2>1, <2>2, Zenon DEF Byte
<1>3. \A high, low \in 0 .. 255 : MessageLength(high, low) \in Nat
  BY DEF MessageLength
<1>4. FrameSize \in Nat /\ FrameSize >= 6
  <2>1. Byte(read + 2) \in 0 .. 255 /\ Byte(read + 3) \in 0 .. 255
    BY <1>2
  <2>2. MessageLength(Byte(read + 2), Byte(read + 3)) \in Nat
    BY <2>1, <1>3, Zenon
  <2> QED
    BY <2>2 DEF FrameSize
<1> QED
  BY <1>1, <1>4 DEF Complete, Left

------------------------------------------------------------------------------
(* Type correctness.                                                       *)
LEMMA InitTypes == Init => TypeOK
  BY FrameTypes DEF Init, TypeOK

LEMMA IoThreadTypes == TypeOK /\ IoThread => TypeOK'
<1> SUFFICES ASSUME TypeOK,
                    NEW size \in ChunkSizes,
                    DataChunkDownloaded(size) \/ LoseChunk(size)
             PROVE  TypeOK'
  BY DEF IoThread
<1>1. /\ sent \in Nat
      /\ size \in Nat \ {0}
      /\ sent' = sent + size
      /\ sent' \in 0 .. Len(Stream)
  BY FrameTypes DEF TypeOK, DataChunkDownloaded, LoseChunk, Sends
<1>2. Bytes(sent + 1, sent + size) \in Seq(Positions)
  <2>1. /\ sent + 1 \in Nat \ {0}
        /\ sent + size \in Nat
        /\ sent + 1 <= sent + size + 1
        /\ sent + size <= Len(Stream)
    BY <1>1
  <2> QED
    BY <2>1, BytesType
<1>3. CASE DataChunkDownloaded(size)
  BY <1>1, <1>2, <1>3 DEF DataChunkDownloaded, TypeOK, obsVars
<1>4. CASE LoseChunk(size)
  BY <1>1, <1>4, FrameTypes DEF LoseChunk, TypeOK, obsVars
<1> QED
  BY <1>3, <1>4

LEMMA GetDataTypes == TypeOK /\ GetData => TypeOK'
<1> SUFFICES ASSUME TypeOK, GetData PROVE TypeOK'
  OBVIOUS
<1>1. receivedData' \in Seq(Positions) /\ Len(receivedData') \in Nat
  BY DEF GetData, TypeOK
<1> QED
  BY <1>1 DEF GetData, TypeOK, caster, obsVars

LEMMA ReturnTypes ==
    ASSUME TypeOK, NEW pos \in 0 .. Len(receivedData), Return(pos)
    PROVE  /\ receivedData' \in Seq(Positions)
           /\ Len(receivedData') = Len(receivedData) - pos
           /\ \A k \in 1 .. Len(receivedData) - pos :
                 receivedData'[k] = receivedData[pos + k]
           /\ read' \in 0 .. Len(receivedData')
           /\ pc' \in {"idle", "parse"}
<1>1. receivedData \in Seq(Positions) /\ Len(receivedData) \in Nat
  BY DEF TypeOK
<1>2. \A k \in pos + 1 .. Len(receivedData) : receivedData[k] \in Positions
  BY <1>1
<1> QED
  BY <1>1, <1>2 DEF Return

LEMMA ObservationTypes ==
    \A f \in Ids : Observations(f) \in Seq(Ids) /\ Limited(Observations(f)) \in Seq(Ids)
<1> SUFFICES ASSUME NEW f \in Ids
             PROVE  /\ Observations(f) \in Seq(Ids)
                    /\ Limited(Observations(f)) \in Seq(Ids)
  OBVIOUS
<1>1. Frames[f].obs \in Nat
  BY FrameTypes
<1>2. Observations(f) \in Seq(Ids)
  BY <1>1 DEF Observations
<1> QED
  BY <1>2 DEF Limited

LEMMA ParseTypes == TypeOK /\ ParseRTCM => TypeOK'
<1> SUFFICES ASSUME TypeOK, ParseRTCM PROVE TypeOK'
  OBVIOUS
<1>0. read \in 0 .. Len(receivedData) /\ Len(receivedData) \in Nat
  BY DEF TypeOK
<1>1. CASE EndOfData
  BY <1>0, <1>1, ReturnTypes DEF EndOfData, Return, TypeOK, caster, obsVars
<1>2. CASE SkipByte
  BY <1>0, <1>2 DEF SkipByte, GoOn, Left, TypeOK, caster, obsVars
<1>3. CASE WaitForFrame
  BY <1>0, <1>3, ReturnTypes DEF WaitForFrame, Return, TypeOK, caster, obsVars
<1>4. CASE FailsCRC
  BY <1>0, <1>4 DEF FailsCRC, BadFrame, GoOn, Complete, Left, TypeOK, caster, obsVars
<1>5. ASSUME NEW f \in Ids, HoldBack(f)
      PROVE  TypeOK'
  BY <1>0, <1>5, ReturnTypes DEF HoldBack, Return, TypeOK, caster, obsVars
<1>6. ASSUME NEW f \in Ids, Decoding(f)
      PROVE  /\ read + FrameSize \in 0 .. Len(receivedData)
             /\ decoded' \in Seq(Ids)
  <2>1. AtPreamble /\ Complete
    BY <1>6 DEF Decoding, PassesCRC
  <2> QED
    BY <1>0, <1>6, <2>1, HeaderType DEF Decoding, TypeOK
<1>7. ASSUME NEW f \in Ids, DecodeOther(f)
      PROVE  TypeOK'
  BY <1>0, <1>6, <1>7 DEF DecodeOther, GoOn, TypeOK, caster
<1>8. ASSUME NEW f \in Ids, LastMessage(f)
      PROVE  TypeOK'
  <2>1. SuperList \o Observations(f) \in Seq(Ids)
    BY ObservationTypes DEF TypeOK
  <2>2. obsListList' \in Seq(Seq(Ids)) /\ SuperList' \in Seq(Ids)
    BY <1>8, <2>1 DEF LastMessage, TypeOK
  <2>3. Decoding(f) /\ Return(read + FrameSize)
    BY <1>8 DEF LastMessage
  <2>4. /\ receivedData' \in Seq(Positions)
        /\ read' \in 0 .. Len(receivedData')
        /\ pc' \in {"idle", "parse"}
    BY <2>3, <1>6, ReturnTypes
  <2> QED
    BY <1>6, <2>2, <2>3, <2>4 DEF TypeOK, Return, caster
<1>9. ASSUME NEW f \in Ids, FirstOfEpoch(f) \/ OfEpoch(f)
      PROVE  TypeOK'
  <2>1. Decoding(f) /\ GoOn(read + FrameSize)
    BY <1>9 DEF FirstOfEpoch, OfEpoch, MoreToCome
  <2>2. SuperList \o Observations(f) \in Seq(Ids)
    BY ObservationTypes DEF TypeOK
  <2>3. SuperList' \in Seq(Ids)
    <3>1. \/ SuperList' = Limited(Observations(f))
          \/ SuperList' = Limited(SuperList \o Observations(f))
      BY <1>9 DEF FirstOfEpoch, OfEpoch
    <3>2. \A list \in Seq(Ids) : Limited(list) \in Seq(Ids)
      BY DEF Limited
    <3> QED
      BY <2>2, <3>1, <3>2, ObservationTypes, Zenon
  <2>4. obsListList' \in Seq(Seq(Ids))
    <3>1. obsListList' = obsListList \/ obsListList' = Append(obsListList, SuperList)
      BY <1>9 DEF FirstOfEpoch, OfEpoch
    <3>2. SuperList \in Seq(Ids) /\ obsListList \in Seq(Seq(Ids))
      BY DEF TypeOK
    <3>3. Append(obsListList, SuperList) \in Seq(Seq(Ids))
      BY <3>2, AppendType
    <3> QED
      BY <3>1, <3>2, <3>3
  <2> QED
    BY <1>6, <2>1, <2>3, <2>4 DEF GoOn, TypeOK, caster
<1> QED
  BY <1>1, <1>2, <1>3, <1>4, <1>5, <1>7, <1>8, <1>9 DEF ParseRTCM

LEMMA NextTypes == TypeOK /\ [Next]_vars => TypeOK'
<1> SUFFICES ASSUME TypeOK, [Next]_vars PROVE TypeOK'
  OBVIOUS
<1>1. CASE Next
  BY <1>1, IoThreadTypes, GetDataTypes, ParseTypes DEF Next
<1>2. CASE UNCHANGED vars
  BY <1>2 DEF vars, caster, obsVars, TypeOK
<1> QED
  BY <1>1, <1>2

(* The state of a stream and its parser is always well typed: the position *)
(* in the data never runs past its end.                                    *)
THEOREM TypeCorrect == Spec => []TypeOK
  BY InitTypes, NextTypes, PTL DEF Spec

------------------------------------------------------------------------------
(* Order.                                                                  *)

(* What waits in the two buffers is in the order of the stream, each byte  *)
(* once, and was sent.                                                     *)
Waiting ==
    /\ \A k, l \in 1 .. Len(receivedData) :
          k < l => receivedData[k] < receivedData[l]
    /\ \A k, l \in 1 .. Len(receivedDataBuffer) :
          k < l => receivedDataBuffer[k] < receivedDataBuffer[l]
    /\ \A k \in 1 .. Len(receivedData), l \in 1 .. Len(receivedDataBuffer) :
          receivedData[k] < receivedDataBuffer[l]
    /\ \A k \in 1 .. Len(receivedData) : receivedData[k] <= sent
    /\ \A l \in 1 .. Len(receivedDataBuffer) : receivedDataBuffer[l] <= sent

(* What was decoded lies before all that is still to be read.              *)
BehindFrames ==
    \A j \in 1 .. Len(decoded) :
        /\ Frames[decoded[j]].last <= sent
        /\ \A k \in read + 1 .. Len(receivedData) :
              Frames[decoded[j]].last < receivedData[k]
        /\ \A l \in 1 .. Len(receivedDataBuffer) :
              Frames[decoded[j]].last < receivedDataBuffer[l]

(* Between two calls nothing is read.                                      *)
ReadFromStart == pc = "idle" => read = 0

OrderInv == TypeOK /\ Waiting /\ BehindFrames /\ ReadFromStart /\ DecodedInOrder

LEMMA DataTypes ==
    ASSUME TypeOK
    PROVE  /\ Len(receivedData) \in Nat
           /\ Len(receivedDataBuffer) \in Nat
           /\ read \in 0 .. Len(receivedData)
           /\ sent \in Nat
           /\ \A k \in 1 .. Len(receivedData) : receivedData[k] \in Nat
           /\ \A l \in 1 .. Len(receivedDataBuffer) : receivedDataBuffer[l] \in Nat
<1>1. /\ receivedData \in Seq(Positions)
      /\ receivedDataBuffer \in Seq(Positions)
      /\ read \in 0 .. Len(receivedData)
      /\ sent \in 0 .. Len(Stream)
  BY DEF TypeOK
<1>2. Positions \subseteq Nat
  BY FrameTypes DEF Positions
<1>3. \A k \in 1 .. Len(receivedData) : receivedData[k] \in Positions
  BY <1>1, ElementType
<1>4. \A l \in 1 .. Len(receivedDataBuffer) : receivedDataBuffer[l] \in Positions
  BY <1>1, ElementType
<1>5. Len(receivedData) \in Nat /\ Len(receivedDataBuffer) \in Nat /\ sent \in Nat
  BY <1>1, FrameTypes
<1> QED
  BY <1>1, <1>2, <1>3, <1>4, <1>5

LEMMA DecodedTypes ==
    ASSUME TypeOK
    PROVE  /\ Len(decoded) \in Nat
           /\ DOMAIN decoded = 1 .. Len(decoded)
           /\ \A j \in 1 .. Len(decoded) :
                 /\ decoded[j] \in Ids
                 /\ Frames[decoded[j]].first \in Nat
                 /\ Frames[decoded[j]].last \in Nat
<1>1. decoded \in Seq(Ids)
  BY DEF TypeOK
<1>2. \A j \in 1 .. Len(decoded) : decoded[j] \in Ids
  BY <1>1, ElementType
<1>3. \A f \in Ids : Frames[f].first \in Nat /\ Frames[f].last \in Nat
  BY FrameTypes
<1>4. Len(decoded) \in Nat /\ DOMAIN decoded = 1 .. Len(decoded)
  BY <1>1
<1> QED
  BY <1>2, <1>3, <1>4

LEMMA InitOrder == Init => OrderInv
<1> SUFFICES ASSUME Init PROVE OrderInv
  OBVIOUS
<1>1. /\ Len(receivedData) = 0
      /\ Len(receivedDataBuffer) = 0
      /\ Len(decoded) = 0
      /\ DOMAIN decoded = 1 .. 0
      /\ read = 0
  BY DEF Init
<1>2. Waiting /\ BehindFrames /\ ReadFromStart /\ DecodedInOrder
  BY <1>1 DEF Waiting, BehindFrames, ReadFromStart, DecodedInOrder
<1> QED
  BY <1>2, InitTypes DEF OrderInv

LEMMA ChunkOrder ==
    ASSUME OrderInv, NEW size \in ChunkSizes, DataChunkDownloaded(size)
    PROVE  Waiting' /\ BehindFrames'
<1> DEFINE new == Bytes(sent + 1, sent + size)
<1>1. /\ size \in Nat \ {0}
      /\ sent' = sent + size
      /\ sent + size <= Len(Stream)
      /\ receivedDataBuffer' = receivedDataBuffer \o new
      /\ UNCHANGED <<receivedData, read, decoded>>
  BY FrameTypes DEF DataChunkDownloaded, Sends, obsVars
<1>2. TypeOK /\ Waiting /\ BehindFrames
  BY DEF OrderInv
<1>3. /\ sent \in Nat
      /\ Len(receivedData) \in Nat
      /\ Len(receivedDataBuffer) \in Nat
      /\ \A k \in 1 .. Len(receivedData) : receivedData[k] \in Nat
      /\ \A l \in 1 .. Len(receivedDataBuffer) : receivedDataBuffer[l] \in Nat
  BY <1>2, DataTypes
<1>4. /\ new \in Seq(Positions)
      /\ Len(new) = size
      /\ \A k \in 1 .. size : new[k] = sent + k
  <2>1. /\ sent + 1 \in Nat \ {0}
        /\ sent + size \in Nat
        /\ sent + 1 <= (sent + size) + 1
    BY <1>1, <1>3
  <2> HIDE DEF new
  <2>2. /\ new \in Seq(Positions)
        /\ Len(new) = (sent + size) - (sent + 1) + 1
        /\ \A k \in 1 .. (sent + size) - (sent + 1) + 1 :
              new[k] = (sent + 1) + k - 1
    BY <1>1, <2>1, BytesType DEF new
  <2>3. (sent + size) - (sent + 1) + 1 = size
    BY <1>1, <1>3
  <2>4. \A k \in 1 .. size : (sent + 1) + k - 1 = sent + k
    BY <1>1, <1>3
  <2> QED
    BY <2>2, <2>3, <2>4
<1> HIDE DEF new
<1>5. /\ Len(receivedDataBuffer') = Len(receivedDataBuffer) + size
      /\ \A l \in 1 .. Len(receivedDataBuffer) :
            receivedDataBuffer'[l] = receivedDataBuffer[l]
      /\ \A l \in Len(receivedDataBuffer) + 1 .. Len(receivedDataBuffer) + size :
            receivedDataBuffer'[l] = new[l - Len(receivedDataBuffer)]
  <2>1. receivedDataBuffer \in Seq(Positions)
    BY <1>2 DEF TypeOK
  <2> QED
    BY <1>1, <1>4, <2>1, ConcatParts
<1>6. \A l \in 1 .. Len(receivedDataBuffer') :
          \/ /\ l \in 1 .. Len(receivedDataBuffer)
             /\ receivedDataBuffer'[l] = receivedDataBuffer[l]
          \/ /\ l \notin 1 .. Len(receivedDataBuffer)
             /\ receivedDataBuffer'[l] = sent + (l - Len(receivedDataBuffer))
             /\ sent < receivedDataBuffer'[l]
             /\ receivedDataBuffer'[l] <= sent + size
  <2> SUFFICES ASSUME NEW l \in 1 .. Len(receivedDataBuffer'),
                      l \notin 1 .. Len(receivedDataBuffer)
               PROVE  /\ receivedDataBuffer'[l] = sent + (l - Len(receivedDataBuffer))
                      /\ sent < receivedDataBuffer'[l]
                      /\ receivedDataBuffer'[l] <= sent + size
    BY <1>5
  <2>1. /\ l \in Len(receivedDataBuffer) + 1 .. Len(receivedDataBuffer) + size
        /\ l - Len(receivedDataBuffer) \in 1 .. size
    BY <1>1, <1>3, <1>5
  <2>2. receivedDataBuffer'[l] = sent + (l - Len(receivedDataBuffer))
    BY <1>4, <1>5, <2>1
  <2> QED
    BY <1>1, <1>3, <2>1, <2>2
<1>7. Waiting'
  <2>1. \A k, l \in 1 .. Len(receivedDataBuffer') :
            k < l => receivedDataBuffer'[k] < receivedDataBuffer'[l]
    <3> SUFFICES ASSUME NEW k \in 1 .. Len(receivedDataBuffer'),
                        NEW l \in 1 .. Len(receivedDataBuffer'), k < l
                 PROVE  receivedDataBuffer'[k] < receivedDataBuffer'[l]
      OBVIOUS
    <3>1. CASE l \in 1 .. Len(receivedDataBuffer)
      <4>1. k \in 1 .. Len(receivedDataBuffer)
        BY <1>3, <1>5, <1>1, <3>1
      <4> QED
        BY <1>2, <1>6, <3>1, <4>1 DEF Waiting
    <3>2. CASE l \notin 1 .. Len(receivedDataBuffer)
      <4>1. CASE k \in 1 .. Len(receivedDataBuffer)
        <5>1. receivedDataBuffer[k] <= sent
          BY <1>2, <4>1 DEF Waiting
        <5> QED
          BY <1>1, <1>3, <1>5, <1>6, <3>2, <4>1, <5>1
      <4>2. CASE k \notin 1 .. Len(receivedDataBuffer)
        BY <1>1, <1>3, <1>5, <1>6, <3>2, <4>2
      <4> QED
        BY <4>1, <4>2
    <3> QED
      BY <3>1, <3>2
  <2>2. \A k \in 1 .. Len(receivedData), l \in 1 .. Len(receivedDataBuffer') :
            receivedData[k] < receivedDataBuffer'[l]
    <3> SUFFICES ASSUME NEW k \in 1 .. Len(receivedData),
                        NEW l \in 1 .. Len(receivedDataBuffer')
                 PROVE  receivedData[k] < receivedDataBuffer'[l]
      OBVIOUS
    <3>1. receivedData[k] <= sent
      BY <1>2 DEF Waiting
    <3>2. CASE l \in 1 .. Len(receivedDataBuffer)
      BY <1>2, <1>6, <3>2 DEF Waiting
    <3>3. CASE l \notin 1 .. Len(receivedDataBuffer)
      BY <1>1, <1>3, <1>5, <1>6, <3>1, <3>3
    <3> QED
      BY <3>2, <3>3
  <2>3. \A k \in 1 .. Len(receivedData) : receivedData[k] <= sent + size
    <3> SUFFICES ASSUME NEW k \in 1 .. Len(receivedData)
                 PROVE  receivedData[k] <= sent + size
      OBVIOUS
    <3>1. receivedData[k] <= sent
      BY <1>2 DEF Waiting
    <3> QED
      BY <1>1, <1>3, <3>1
  <2>4. \A l \in 1 .. Len(receivedDataBuffer') : receivedDataBuffer'[l] <= sent + size
    <3> SUFFICES ASSUME NEW l \in 1 .. Len(receivedDataBuffer')
                 PROVE  receivedDataBuffer'[l] <= sent + size
      OBVIOUS
    <3>1. CASE l \in 1 .. Len(receivedDataBuffer)
      <4>1. receivedDataBuffer[l] <= sent
        BY <1>2, <3>1 DEF Waiting
      <4> QED
        BY <1>1, <1>3, <1>6, <3>1, <4>1
    <3>2. CASE l \notin 1 .. Len(receivedDataBuffer)
      BY <1>6, <3>2
    <3> QED
      BY <3>1, <3>2
  <2> QED
    BY <1>1, <1>2, <2>1, <2>2, <2>3, <2>4 DEF Waiting
<1>8. BehindFrames'
  <2> SUFFICES ASSUME NEW j \in 1 .. Len(decoded)
               PROVE  /\ Frames[decoded[j]].last <= sent + size
                      /\ \A k \in read + 1 .. Len(receivedData) :
                            Frames[decoded[j]].last < receivedData[k]
                      /\ \A l \in 1 .. Len(receivedDataBuffer') :
                            Frames[decoded[j]].last < receivedDataBuffer'[l]
    BY <1>1 DEF BehindFrames
  <2>1. /\ Frames[decoded[j]].last <= sent
        /\ \A k \in read + 1 .. Len(receivedData) :
              Frames[decoded[j]].last < receivedData[k]
        /\ \A l \in 1 .. Len(receivedDataBuffer) :
              Frames[decoded[j]].last < receivedDataBuffer[l]
    BY <1>2 DEF BehindFrames
  <2>2. Frames[decoded[j]].last \in Nat
    BY <1>2, DecodedTypes
  <2>3. Frames[decoded[j]].last <= sent + size
    BY <1>1, <1>3, <2>1, <2>2
  <2>4. ASSUME NEW l \in 1 .. Len(receivedDataBuffer')
        PROVE  Frames[decoded[j]].last < receivedDataBuffer'[l]
    <3>1. CASE l \in 1 .. Len(receivedDataBuffer)
      BY <1>6, <2>1, <3>1
    <3>2. CASE l \notin 1 .. Len(receivedDataBuffer)
      <4>1. /\ receivedDataBuffer'[l] = sent + (l - Len(receivedDataBuffer))
            /\ sent < receivedDataBuffer'[l]
        BY <1>6, <3>2
      <4>2. l \in Int
        BY <1>1, <1>3, <1>5
      <4>3. receivedDataBuffer'[l] \in Int
        BY <1>3, <4>1, <4>2
      <4> QED
        BY <1>3, <2>1, <2>2, <4>1, <4>3
    <3> QED
      BY <3>1, <3>2
  <2> QED
    BY <2>1, <2>3, <2>4
<1> QED
  BY <1>7, <1>8

LEMMA GetDataOrder ==
    ASSUME OrderInv, GetData
    PROVE  Waiting' /\ BehindFrames'
<1> DEFINE both == receivedData \o receivedDataBuffer
           n == Len(receivedData)
<1>1. /\ receivedData' = both
      /\ receivedDataBuffer' = << >>
      /\ read' = 0
      /\ UNCHANGED <<sent, decoded>>
  BY DEF GetData, caster, obsVars
<1>2. TypeOK /\ Waiting /\ BehindFrames
  BY DEF OrderInv
<1>3. /\ Len(both) = n + Len(receivedDataBuffer)
      /\ \A k \in 1 .. n : both[k] = receivedData[k]
      /\ \A k \in n + 1 .. n + Len(receivedDataBuffer) :
            both[k] = receivedDataBuffer[k - n]
  <2>1. receivedData \in Seq(Positions) /\ receivedDataBuffer \in Seq(Positions)
    BY <1>2 DEF TypeOK
  <2> QED
    BY <2>1, ConcatParts
<1>4. read = 0
  BY DEF OrderInv, ReadFromStart, GetData
<1>5. /\ n \in Nat
      /\ Len(receivedDataBuffer) \in Nat
      /\ sent \in Nat
      /\ \A k \in 1 .. n : receivedData[k] \in Nat
      /\ \A l \in 1 .. Len(receivedDataBuffer) : receivedDataBuffer[l] \in Nat
  BY <1>2, DataTypes
<1> HIDE DEF both
<1>6. \A k \in 1 .. Len(both) :
          \/ k \in 1 .. n /\ both[k] = receivedData[k]
          \/ /\ k > n
             /\ k - n \in 1 .. Len(receivedDataBuffer)
             /\ both[k] = receivedDataBuffer[k - n]
  BY <1>3, <1>5
<1> HIDE DEF n
<1>7. \A k \in 1 .. Len(both) : both[k] <= sent
  BY <1>2, <1>6 DEF Waiting, n
<1>8. \A k, l \in 1 .. Len(both) : k < l => both[k] < both[l]
  <2> SUFFICES ASSUME NEW k \in 1 .. Len(both), NEW l \in 1 .. Len(both), k < l
               PROVE  both[k] < both[l]
    OBVIOUS
  <2>1. CASE l \in 1 .. n
    <3>1. k \in 1 .. n
      BY <1>3, <1>5, <2>1
    <3> QED
      BY <1>2, <1>3, <2>1, <3>1 DEF Waiting, n
  <2>2. CASE k \in 1 .. n /\ l \notin 1 .. n
    BY <1>2, <1>6, <2>2 DEF Waiting, n
  <2>3. CASE k \notin 1 .. n
    <3>1. l \notin 1 .. n
      BY <1>3, <1>5, <2>3
    <3>2. /\ k - n \in 1 .. Len(receivedDataBuffer)
          /\ l - n \in 1 .. Len(receivedDataBuffer)
          /\ both[k] = receivedDataBuffer[k - n]
          /\ both[l] = receivedDataBuffer[l - n]
      BY <1>6, <2>3, <3>1
    <3>3. k - n < l - n
      BY <1>3, <1>5
    <3> QED
      BY <1>2, <3>2, <3>3 DEF Waiting
  <2> QED
    BY <2>1, <2>2, <2>3
<1>9. Waiting'
  BY <1>1, <1>7, <1>8 DEF Waiting
<1>10. BehindFrames'
  <2> SUFFICES ASSUME NEW j \in 1 .. Len(decoded)
               PROVE  /\ Frames[decoded[j]].last <= sent
                      /\ \A k \in 1 .. Len(both) : Frames[decoded[j]].last < both[k]
    BY <1>1 DEF BehindFrames
  <2>1. /\ Frames[decoded[j]].last <= sent
        /\ \A k \in 0 + 1 .. n : Frames[decoded[j]].last < receivedData[k]
        /\ \A l \in 1 .. Len(receivedDataBuffer) :
              Frames[decoded[j]].last < receivedDataBuffer[l]
    BY <1>2, <1>4 DEF BehindFrames, n
  <2> QED
    BY <1>6, <2>1
<1> QED
  BY <1>9, <1>10

(* parseRTCM goes on, or returns, at a later position.                     *)
LEMMA ParseOn ==
    ASSUME OrderInv, NEW pos \in read .. Len(receivedData),
           GoOn(pos) \/ Return(pos)
    PROVE  /\ Waiting'
           /\ sent' = sent
           /\ receivedDataBuffer' = receivedDataBuffer
           /\ \A k \in read' + 1 .. Len(receivedData') :
                 \E l \in pos + 1 .. Len(receivedData) :
                     receivedData'[k] = receivedData[l]
<1>1. TypeOK /\ Waiting
  BY DEF OrderInv
<1>2. /\ Len(receivedData) \in Nat
      /\ read \in 0 .. Len(receivedData)
      /\ pos \in 0 .. Len(receivedData)
  BY <1>1, DataTypes
<1>3. CASE GoOn(pos)
  <2>1. UNCHANGED <<sent, receivedDataBuffer, receivedData>> /\ read' = pos
    BY <1>3 DEF GoOn, caster
  <2>2. Waiting'
    BY <1>1, <2>1 DEF Waiting
  <2> QED
    BY <2>1, <2>2
<1>4. CASE Return(pos)
  <2>1. /\ Len(receivedData') = Len(receivedData) - pos
        /\ \A k \in 1 .. Len(receivedData) - pos :
              receivedData'[k] = receivedData[pos + k]
    BY <1>1, <1>2, <1>4, ReturnTypes
  <2>2. read' = 0 /\ UNCHANGED <<sent, receivedDataBuffer>>
    BY <1>4 DEF Return, caster
  <2>3. \A k \in 1 .. Len(receivedData') :
            /\ pos + k \in 1 .. Len(receivedData)
            /\ pos + k \in pos + 1 .. Len(receivedData)
            /\ receivedData'[k] = receivedData[pos + k]
    BY <1>2, <2>1
  <2>4. \A k, l \in 1 .. Len(receivedData') :
            k < l => receivedData'[k] < receivedData'[l]
    <3> SUFFICES ASSUME NEW k \in 1 .. Len(receivedData'),
                        NEW l \in 1 .. Len(receivedData'), k < l
                 PROVE  receivedData'[k] < receivedData'[l]
      OBVIOUS
    <3>1. pos + k < pos + l
      BY <1>2, <2>1
    <3> QED
      BY <1>1, <2>3, <3>1 DEF Waiting
  <2>5. Waiting'
    BY <1>1, <2>2, <2>3, <2>4 DEF Waiting
  <2>6. \A k \in read' + 1 .. Len(receivedData') : k \in 1 .. Len(receivedData')
    BY <2>2
  <2> QED
    BY <2>2, <2>3, <2>5, <2>6
<1> QED
  BY <1>3, <1>4

LEMMA ParseNothing ==
    ASSUME OrderInv, NEW pos \in read .. Len(receivedData),
           GoOn(pos) \/ Return(pos), decoded' = decoded
    PROVE  Waiting' /\ BehindFrames'
<1>1. TypeOK /\ BehindFrames
  BY DEF OrderInv
<1>2. /\ Waiting'
      /\ sent' = sent
      /\ receivedDataBuffer' = receivedDataBuffer
      /\ \A k \in read' + 1 .. Len(receivedData') :
            \E l \in pos + 1 .. Len(receivedData) :
                receivedData'[k] = receivedData[l]
  BY ParseOn
<1>3. \A l \in pos + 1 .. Len(receivedData) : l \in read + 1 .. Len(receivedData)
  BY <1>1, DataTypes
<1>4. BehindFrames'
  BY <1>1, <1>2, <1>3 DEF BehindFrames
<1> QED
  BY <1>2, <1>4

(* A frame decoded lies behind all frames before it, and before all that   *)
(* is left.                                                                *)
LEMMA ParseFrame ==
    ASSUME OrderInv, NEW f \in Ids, Decoding(f),
           GoOn(read + FrameSize) \/ Return(read + FrameSize)
    PROVE  Waiting' /\ BehindFrames' /\ DecodedInOrder'
<1> DEFINE size == FrameSize
           pos == read + size
<1>1. TypeOK /\ Waiting /\ BehindFrames /\ DecodedInOrder
  BY DEF OrderInv
<1>2. /\ AtPreamble
      /\ Complete
      /\ size = Frames[f].last - Frames[f].first + 1
      /\ \A k \in 1 .. size : receivedData[read + k] = Frames[f].first + k - 1
  BY DEF Decoding, PassesCRC
<1>3. size \in Nat /\ size >= 6 /\ read + size <= Len(receivedData)
  BY <1>1, <1>2, HeaderType
<1>4. GoOn(pos) \/ Return(pos)
  OBVIOUS
<1> HIDE DEF size
<1>5. Frames[f].first \in Nat /\ Frames[f].last \in Nat
  BY FrameTypes
<1>6. read \in 0 .. Len(receivedData) /\ Len(receivedData) \in Nat
  BY <1>1, DataTypes
<1>7. receivedData[read + 1] = Frames[f].first /\ receivedData[pos] = Frames[f].last
  <2>1. 1 \in 1 .. size /\ size \in 1 .. size
    BY <1>3
  <2>2. /\ receivedData[read + 1] = Frames[f].first + 1 - 1
        /\ receivedData[read + size] = Frames[f].first + size - 1
    BY <1>2, <2>1
  <2> QED
    BY <1>2, <1>3, <1>5, <2>2
<1>8. /\ pos \in read .. Len(receivedData)
      /\ pos \in 1 .. Len(receivedData)
      /\ read + 1 \in read + 1 .. Len(receivedData)
      /\ \A l \in pos + 1 .. Len(receivedData) :
            /\ l \in 1 .. Len(receivedData)
            /\ l \in read + 1 .. Len(receivedData)
            /\ pos < l
  BY <1>3, <1>6
<1> HIDE DEF pos
<1>9. /\ Waiting'
      /\ sent' = sent
      /\ receivedDataBuffer' = receivedDataBuffer
      /\ \A k \in read' + 1 .. Len(receivedData') :
            \E l \in pos + 1 .. Len(receivedData) :
                receivedData'[k] = receivedData[l]
  BY <1>4, <1>8, ParseOn
<1>10. /\ Len(decoded) \in Nat
       /\ Len(decoded') = Len(decoded) + 1
       /\ decoded'[Len(decoded) + 1] = f
       /\ \A j \in 1 .. Len(decoded) : decoded'[j] = decoded[j]
       /\ DOMAIN decoded' = 1 .. Len(decoded) + 1
       /\ DOMAIN decoded = 1 .. Len(decoded)
  <2>1. decoded \in Seq(Ids) /\ decoded' = Append(decoded, f)
    BY <1>1 DEF Decoding, TypeOK
  <2> QED
    BY <2>1
<1>11. /\ Frames[f].last <= sent
       /\ \A l \in pos + 1 .. Len(receivedData) : Frames[f].last < receivedData[l]
       /\ \A l \in 1 .. Len(receivedDataBuffer) :
             Frames[f].last < receivedDataBuffer[l]
  BY <1>1, <1>7, <1>8 DEF Waiting
<1>12. \A j \in 1 .. Len(decoded) : decoded[j] < f
  <2> SUFFICES ASSUME NEW j \in 1 .. Len(decoded) PROVE decoded[j] < f
    OBVIOUS
  <2>1. Frames[decoded[j]].last < Frames[f].first
    <3>1. Frames[decoded[j]].last < receivedData[read + 1]
      BY <1>1, <1>8 DEF BehindFrames
    <3> QED
      BY <1>7, <3>1
  <2>2. /\ decoded[j] \in Ids
        /\ Frames[decoded[j]].first \in Nat
        /\ Frames[decoded[j]].last \in Nat
    BY <1>1, DecodedTypes
  <2>3. decoded[j] \in Nat /\ f \in Nat
    BY <2>2, FrameTypes
  <2>4. Frames[decoded[j]].first <= Frames[decoded[j]].last
    <3>1. Frames[decoded[j]].first + 5 <= Frames[decoded[j]].last
      BY <2>2, FrameTypes
    <3> QED
      BY <2>2, <3>1
  <2>5. decoded[j] # f
    BY <1>5, <2>1, <2>2, <2>4
  <2>6. ~(f < decoded[j])
    <3> SUFFICES ASSUME f < decoded[j] PROVE FALSE
      OBVIOUS
    <3>1. Frames[f].last < Frames[decoded[j]].first
      BY <2>2, FrameTypes
    <3>2. Frames[f].first + 5 <= Frames[f].last
      BY FrameTypes
    <3> QED
      BY <1>5, <2>1, <2>2, <2>4, <3>1, <3>2
  <2> QED
    BY <2>3, <2>5, <2>6
<1>13. BehindFrames'
  <2> SUFFICES ASSUME NEW j \in 1 .. Len(decoded) + 1
               PROVE  /\ Frames[decoded'[j]].last <= sent
                      /\ \A k \in read' + 1 .. Len(receivedData') :
                            Frames[decoded'[j]].last < receivedData'[k]
                      /\ \A l \in 1 .. Len(receivedDataBuffer) :
                            Frames[decoded'[j]].last < receivedDataBuffer[l]
    BY <1>9, <1>10 DEF BehindFrames
  <2>1. CASE j \in 1 .. Len(decoded)
    <3>1. decoded'[j] = decoded[j]
      BY <1>10, <2>1
    <3>2. /\ Frames[decoded[j]].last <= sent
          /\ \A k \in read + 1 .. Len(receivedData) :
                Frames[decoded[j]].last < receivedData[k]
          /\ \A l \in 1 .. Len(receivedDataBuffer) :
                Frames[decoded[j]].last < receivedDataBuffer[l]
      BY <1>1, <2>1 DEF BehindFrames
    <3> QED
      BY <1>8, <1>9, <3>1, <3>2
  <2>2. CASE j = Len(decoded) + 1
    BY <1>9, <1>10, <1>11, <2>2
  <2> QED
    BY <1>10, <2>1, <2>2
<1>14. DecodedInOrder'
  <2> SUFFICES ASSUME NEW j \in 1 .. Len(decoded) + 1,
                      NEW k \in 1 .. Len(decoded) + 1, j < k
               PROVE  decoded'[j] < decoded'[k]
    BY <1>10 DEF DecodedInOrder
  <2>1. j \in 1 .. Len(decoded) /\ decoded'[j] = decoded[j]
    BY <1>10
  <2>2. CASE k \in 1 .. Len(decoded)
    BY <1>1, <1>10, <2>1, <2>2 DEF DecodedInOrder
  <2>3. CASE k = Len(decoded) + 1
    BY <1>10, <1>12, <2>1, <2>3
  <2> QED
    BY <1>10, <2>2, <2>3
<1> QED
  BY <1>9, <1>13, <1>14

LEMMA ParseOrder ==
    ASSUME OrderInv, ParseRTCM
    PROVE  Waiting' /\ BehindFrames' /\ ReadFromStart' /\ DecodedInOrder'
<1>0. TypeOK /\ read \in 0 .. Len(receivedData) /\ Len(receivedData) \in Nat
  BY DataTypes DEF OrderInv
<1>1. ReadFromStart'
  BY <1>0 DEF ParseRTCM, EndOfData, SkipByte, WaitForFrame, FailsCRC, BadFrame,
              DecodeOther, HoldBack, LastMessage, FirstOfEpoch, OfEpoch,
              MoreToCome, Decoding, PassesCRC, AtPreamble, GoOn, Return,
              ReadFromStart
<1>2. CASE EndOfData \/ SkipByte \/ WaitForFrame \/ FailsCRC
           \/ \E f \in Ids : HoldBack(f)
  <2>1. UNCHANGED decoded
    BY <1>2 DEF EndOfData, SkipByte, WaitForFrame, FailsCRC, HoldBack, obsVars
  <2>2. \E pos \in read .. Len(receivedData) : GoOn(pos) \/ Return(pos)
    BY <1>0, <1>2 DEF EndOfData, SkipByte, WaitForFrame, FailsCRC, BadFrame,
                      HoldBack, Complete, Left
  <2>3. Waiting' /\ BehindFrames'
    BY <2>1, <2>2, ParseNothing
  <2> QED
    BY <1>1, <2>1, <2>3 DEF OrderInv, DecodedInOrder
<1>3. ASSUME NEW f \in Ids,
             DecodeOther(f) \/ LastMessage(f) \/ FirstOfEpoch(f) \/ OfEpoch(f)
      PROVE  Waiting' /\ BehindFrames' /\ DecodedInOrder'
  <2>1. Decoding(f) /\ (GoOn(read + FrameSize) \/ Return(read + FrameSize))
    BY <1>3 DEF DecodeOther, LastMessage, FirstOfEpoch, OfEpoch, MoreToCome
  <2> QED
    BY <2>1, ParseFrame
<1> QED
  BY <1>1, <1>2, <1>3 DEF ParseRTCM

LEMMA NextOrder == OrderInv /\ [Next]_vars => OrderInv'
<1> SUFFICES ASSUME OrderInv, [Next]_vars PROVE OrderInv'
  OBVIOUS
<1>1. TypeOK'
  BY NextTypes DEF OrderInv
<1>2. CASE GetData
  <2>1. DecodedInOrder' /\ ReadFromStart'
    BY <1>2 DEF OrderInv, GetData, obsVars, DecodedInOrder, ReadFromStart
  <2> QED
    BY <1>1, <1>2, <2>1, GetDataOrder DEF OrderInv
<1>3. CASE ParseRTCM
  BY <1>1, <1>3, ParseOrder DEF OrderInv
<1>4. ASSUME NEW size \in ChunkSizes, DataChunkDownloaded(size)
      PROVE  OrderInv'
  <2>1. DecodedInOrder' /\ ReadFromStart'
    BY <1>4 DEF OrderInv, DataChunkDownloaded, obsVars, DecodedInOrder,
                ReadFromStart
  <2> QED
    BY <1>1, <1>4, <2>1, ChunkOrder DEF OrderInv
<1>5. ASSUME NEW size \in ChunkSizes, LoseChunk(size)
      PROVE  OrderInv'
  <2>1. /\ sent' = sent + size
        /\ size \in Nat
        /\ UNCHANGED <<receivedDataBuffer, receivedData, pc, read, decoded>>
    BY <1>5, FrameTypes DEF LoseChunk, Sends, obsVars
  <2>2. TypeOK /\ Waiting /\ BehindFrames /\ ReadFromStart /\ DecodedInOrder
    BY DEF OrderInv
  <2>3. Waiting' /\ BehindFrames'
    BY <2>1, <2>2, DataTypes, DecodedTypes DEF Waiting, BehindFrames
  <2> QED
    BY <1>1, <2>1, <2>2, <2>3 DEF OrderInv, ReadFromStart, DecodedInOrder
<1>6. CASE UNCHANGED vars
  BY <1>1, <1>6 DEF vars, caster, obsVars, OrderInv, Waiting, BehindFrames,
                    ReadFromStart, DecodedInOrder
<1> QED
  BY <1>2, <1>3, <1>4, <1>5, <1>6 DEF Next, IoThread

(* Each frame is decoded at most once and in the caster's order, however   *)
(* the chunks cut the stream, whichever are lost, and wherever parseRTCM   *)
(* goes back to or starts again.                                           *)
THEOREM FramesInOrder == Spec => []DecodedInOrder
<1>1. Spec => []OrderInv
  BY InitOrder, NextOrder, PTL DEF Spec
<1>2. OrderInv => DecodedInOrder
  BY DEF OrderInv
<1> QED
  BY <1>1, <1>2, PTL
------------------------------------------------------------------------------
(* No frame is skipped.                                                    *)

(* What was delivered is in the order of the stream, and what is still to  *)
(* be parsed is its end.                                                   *)
DeliveredAscends ==
    /\ \A k, l \in 1 .. Len(delivered) :
          k < l => l - k <= delivered[l] - delivered[k]
    /\ \A k \in 1 .. Len(delivered) : delivered[k] <= sent

Ahead == Passed - read

WaitingIsEnd ==
    /\ Ahead \in Nat
    /\ \A k \in 1 .. Len(receivedData) : delivered[Ahead + k] = receivedData[k]
    /\ \A l \in 1 .. Len(receivedDataBuffer) :
          delivered[Ahead + Len(receivedData) + l] = receivedDataBuffer[l]

(* A byte of the frame that begins with the k-th byte delivered is missing. *)
Cut(f, k) ==
    \E j \in 1 .. Frames[f].last - Frames[f].first :
        k + j <= Len(delivered) /\ delivered[k + j] # Frames[f].first + j

(* The parser is past a frame because it decoded it, because it looked for *)
(* it in the wrong place, or because part of it will never come.           *)
PassedFrames ==
    \A f \in Ids : \A k \in 1 .. Passed :
        delivered[k] = Frames[f].first =>
            IsDecoded(f) \/ FalsePreamble(k - 1) \/ FalsePreamble(k - 2) \/ Cut(f, k)

SkipInv == OrderInv /\ DeliveredAscends /\ WaitingIsEnd /\ PassedFrames

LEMMA DeliveredTypes ==
    ASSUME TypeOK
    PROVE  /\ Len(delivered) \in Nat
           /\ DOMAIN delivered = 1 .. Len(delivered)
           /\ \A k \in 1 .. Len(delivered) : delivered[k] \in Nat
<1>1. delivered \in Seq(Positions)
  BY DEF TypeOK
<1>2. \A k \in 1 .. Len(delivered) : delivered[k] \in Positions
  BY <1>1, ElementType
<1>3. Positions \subseteq Nat
  BY FrameTypes DEF Positions
<1>4. Len(delivered) \in Nat /\ DOMAIN delivered = 1 .. Len(delivered)
  BY <1>1
<1> QED
  BY <1>2, <1>3, <1>4

(* The numbers of bytes.                                                   *)
LEMMA PassedTypes ==
    ASSUME TypeOK, WaitingIsEnd
    PROVE  /\ Passed \in Nat
           /\ Ahead \in Nat
           /\ Passed = Ahead + read
           /\ Ahead + Len(receivedData) + Len(receivedDataBuffer) = Len(delivered)
           /\ Passed <= Len(delivered)
<1>1. /\ Len(delivered) \in Nat
      /\ Len(receivedData) \in Nat
      /\ Len(receivedDataBuffer) \in Nat
      /\ read \in 0 .. Len(receivedData)
  BY DataTypes, DeliveredTypes
<1> QED
  BY <1>1 DEF Passed, Ahead, WaitingIsEnd

LEMMA InitSkip == Init => SkipInv
<1> SUFFICES ASSUME Init PROVE SkipInv
  OBVIOUS
<1>1. /\ Len(receivedData) = 0
      /\ Len(receivedDataBuffer) = 0
      /\ Len(delivered) = 0
      /\ read = 0
  BY DEF Init
<1>2. Passed = 0 /\ Ahead = 0
  BY <1>1 DEF Passed, Ahead
<1>3. DeliveredAscends /\ WaitingIsEnd /\ PassedFrames
  BY <1>1, <1>2 DEF DeliveredAscends, WaitingIsEnd, PassedFrames
<1> QED
  BY <1>3, InitOrder DEF SkipInv

(* Frames that were decoded do not reach into what is still to be parsed.  *)
LEMMA UnparsedNotDecoded ==
    ASSUME OrderInv, WaitingIsEnd, NEW k \in Passed + 1 .. Len(delivered)
    PROVE  ~OfDecoded(delivered[k])
<1>1. TypeOK /\ BehindFrames
  BY DEF OrderInv
<1>2. /\ Len(receivedData) \in Nat
      /\ Len(receivedDataBuffer) \in Nat
      /\ read \in 0 .. Len(receivedData)
      /\ Ahead \in Nat
      /\ Passed = Ahead + read
      /\ Ahead + Len(receivedData) + Len(receivedDataBuffer) = Len(delivered)
  BY <1>1, DataTypes, PassedTypes
<1>3. \A j \in 1 .. Len(decoded) : Frames[decoded[j]].last < delivered[k]
  <2> SUFFICES ASSUME NEW j \in 1 .. Len(decoded)
               PROVE  Frames[decoded[j]].last < delivered[k]
    OBVIOUS
  <2>1. CASE k <= Ahead + Len(receivedData)
    <3>1. /\ k - Ahead \in 1 .. Len(receivedData)
          /\ k - Ahead \in read + 1 .. Len(receivedData)
          /\ Ahead + (k - Ahead) = k
      BY <1>2, <2>1
    <3>2. delivered[k] = receivedData[k - Ahead]
      BY <3>1 DEF WaitingIsEnd
    <3> QED
      BY <1>1, <3>1, <3>2 DEF BehindFrames
  <2>2. CASE k > Ahead + Len(receivedData)
    <3> DEFINE l == k - Ahead - Len(receivedData)
    <3>1. /\ l \in 1 .. Len(receivedDataBuffer)
          /\ Ahead + Len(receivedData) + l = k
      BY <1>2, <2>2
    <3> HIDE DEF l
    <3>2. delivered[k] = receivedDataBuffer[l]
      BY <3>1 DEF WaitingIsEnd
    <3> QED
      BY <1>1, <3>1, <3>2 DEF BehindFrames
  <2> QED
    BY <1>2, <2>1, <2>2
<1>4. delivered[k] \in Nat
  BY <1>1, <1>2, DeliveredTypes
<1>5. \A j \in 1 .. Len(decoded) :
          delivered[k] \notin Frames[decoded[j]].first .. Frames[decoded[j]].last
  BY <1>1, <1>3, <1>4, DecodedTypes
<1> QED
  BY <1>1, <1>5, DecodedTypes DEF OfDecoded

(* A later position of the parser.                                         *)
LEMMA ParsePassed ==
    ASSUME OrderInv, DeliveredAscends, WaitingIsEnd,
           NEW pos \in read .. Len(receivedData), GoOn(pos) \/ Return(pos)
    PROVE  /\ delivered' = delivered
           /\ DeliveredAscends'
           /\ WaitingIsEnd'
           /\ Passed' = Ahead + pos
<1>1. TypeOK
  BY DEF OrderInv
<1>2. /\ Len(receivedData) \in Nat
      /\ Len(receivedDataBuffer) \in Nat
      /\ Len(delivered) \in Nat
      /\ read \in 0 .. Len(receivedData)
      /\ Ahead \in Nat
      /\ Ahead + Len(receivedData) + Len(receivedDataBuffer) = Len(delivered)
  BY <1>1, DataTypes, DeliveredTypes, PassedTypes
<1>3. UNCHANGED <<delivered, sent, receivedDataBuffer>>
  BY DEF GoOn, Return, caster
<1>4. DeliveredAscends'
  BY <1>3 DEF DeliveredAscends
<1>5. CASE GoOn(pos)
  <2>1. receivedData' = receivedData /\ read' = pos
    BY <1>5 DEF GoOn
  <2>2. Passed' = Ahead + pos /\ Ahead' = Ahead
    BY <1>2, <1>3, <2>1 DEF Passed, Ahead
  <2>3. WaitingIsEnd'
    BY <1>3, <2>1, <2>2 DEF WaitingIsEnd
  <2> QED
    BY <1>3, <1>4, <2>2, <2>3
<1>6. CASE Return(pos)
  <2>1. /\ Len(receivedData') = Len(receivedData) - pos
        /\ \A k \in 1 .. Len(receivedData) - pos :
              receivedData'[k] = receivedData[pos + k]
    BY <1>1, <1>2, <1>6, ReturnTypes
  <2>2. read' = 0
    BY <1>6 DEF Return
  <2>3. Passed' = Ahead + pos /\ Ahead' = Ahead + pos
    BY <1>2, <1>3, <2>1, <2>2 DEF Passed, Ahead
  <2>4. ASSUME NEW k \in 1 .. Len(receivedData')
        PROVE  delivered'[Ahead' + k] = receivedData'[k]
    <3>1. pos + k \in 1 .. Len(receivedData) /\ Ahead' + k = Ahead + (pos + k)
      BY <1>2, <2>1, <2>3
    <3>2. receivedData'[k] = receivedData[pos + k]
      BY <2>1
    <3> QED
      BY <1>3, <3>1, <3>2 DEF WaitingIsEnd
  <2>5. ASSUME NEW l \in 1 .. Len(receivedDataBuffer')
        PROVE  delivered'[Ahead' + Len(receivedData') + l] = receivedDataBuffer'[l]
    <3>1. Ahead' + Len(receivedData') + l = Ahead + Len(receivedData) + l
      BY <1>2, <2>1, <2>3
    <3> QED
      BY <1>3, <3>1 DEF WaitingIsEnd
  <2>6. WaitingIsEnd'
    BY <1>2, <2>3, <2>4, <2>5 DEF WaitingIsEnd
  <2> QED
    BY <1>3, <1>4, <2>3, <2>6
<1> QED
  BY <1>5, <1>6

(* Without a frame decoded, what was said of the frames that were passed   *)
(* stays true; what is passed now must be looked at.                       *)
LEMMA KeepPassed ==
    ASSUME SkipInv, TypeOK', decoded' = decoded, delivered' = delivered, Passed' \in Nat,
           \A f \in Ids : \A k \in Passed + 1 .. Passed' :
               delivered[k] = Frames[f].first =>
                   FalsePreamble(k - 1) \/ FalsePreamble(k - 2) \/ Cut(f, k)
    PROVE  PassedFrames'
<1>1. \A f \in Ids : IsDecoded(f)' <=> IsDecoded(f)
  BY DEF IsDecoded
<1>2. \A k : FalsePreamble(k)' <=> FalsePreamble(k)
  BY DEF FalsePreamble, OfDecoded
<1>3. \A f, k : Cut(f, k)' <=> Cut(f, k)
  BY DEF Cut
<1>4. Passed \in Nat
  BY PassedTypes DEF SkipInv, OrderInv
<1>5. \A k \in 1 .. Passed' : k \in 1 .. Passed \/ k \in Passed + 1 .. Passed'
  BY <1>4
<1> QED
  BY <1>1, <1>2, <1>3, <1>5 DEF SkipInv, PassedFrames

LEMMA NothingPassed ==
    ASSUME SkipInv, TypeOK', GoOn(read) \/ Return(read), decoded' = decoded
    PROVE  DeliveredAscends' /\ WaitingIsEnd' /\ PassedFrames'
<1>1. OrderInv /\ DeliveredAscends /\ WaitingIsEnd /\ TypeOK
  BY DEF SkipInv, OrderInv
<1>2. read \in read .. Len(receivedData)
  BY <1>1, DataTypes
<1>3. /\ delivered' = delivered
      /\ DeliveredAscends'
      /\ WaitingIsEnd'
      /\ Passed' = Ahead + read
  BY <1>1, <1>2, ParsePassed
<1>4. Passed' = Passed /\ Passed \in Nat
  BY <1>1, <1>3, PassedTypes
<1>5. PassedFrames'
  BY <1>3, <1>4, KeepPassed
<1> QED
  BY <1>3, <1>5

LEMMA SkipByteSkip ==
    ASSUME SkipInv, TypeOK', SkipByte
    PROVE  DeliveredAscends' /\ WaitingIsEnd' /\ PassedFrames'
<1>1. /\ OrderInv /\ DeliveredAscends /\ WaitingIsEnd /\ TypeOK
      /\ Left > 0 /\ Byte(read + 1) # Preamble
      /\ GoOn(read + 1) /\ decoded' = decoded
  BY DEF SkipInv, OrderInv, SkipByte, obsVars
<1>2. /\ read + 1 \in read .. Len(receivedData)
      /\ read + 1 \in 1 .. Len(receivedData)
      /\ read \in Nat
  BY <1>1, DataTypes DEF Left
<1>3. /\ delivered' = delivered
      /\ DeliveredAscends'
      /\ WaitingIsEnd'
      /\ Passed' = Ahead + (read + 1)
  BY <1>1, <1>2, ParsePassed
<1>4. /\ Passed' = Passed + 1 /\ Passed \in Nat /\ Ahead \in Nat
      /\ Passed + 1 = Ahead + (read + 1)
  BY <1>1, <1>2, <1>3, PassedTypes
<1>5. Stream[delivered[Passed + 1]] # Preamble
  BY <1>1, <1>2, <1>3, <1>4 DEF WaitingIsEnd, Byte
<1>6. \A f \in Ids : Stream[Frames[f].first] = Preamble
  BY ConstantsAssumption DEF ConstantsAssumption, Ids
<1>7. PassedFrames'
  BY <1>1, <1>3, <1>4, <1>5, <1>6, KeepPassed
<1> QED
  BY <1>3, <1>7

(* A bad frame at the first byte of a frame: that frame is cut.            *)
LEMMA BadFrameIsCut ==
    ASSUME SkipInv, BadFrame, NEW f \in Ids, delivered[Passed + 1] = Frames[f].first
    PROVE  Cut(f, Passed + 1)
<1> DEFINE first == Frames[f].first
           span == Frames[f].last - Frames[f].first
<1>1. /\ OrderInv /\ DeliveredAscends /\ WaitingIsEnd /\ TypeOK
      /\ AtPreamble /\ Complete /\ ~PassesCRC(f)
  BY DEF SkipInv, OrderInv, BadFrame
<1>2. /\ FrameSize \in Nat /\ FrameSize >= 6
      /\ read + FrameSize <= Len(receivedData)
  BY <1>1, HeaderType
<1>3. /\ first \in Nat /\ span \in Nat /\ span >= 5
      /\ span + 1 = Frames[f].last - Frames[f].first + 1
  BY FrameTypes
<1>4. span - 5 = MessageLength(Stream[first + 1], Stream[first + 2])
  BY ConstantsAssumption DEF ConstantsAssumption, Ids
<1>5. /\ Passed \in Nat /\ Ahead \in Nat /\ Passed = Ahead + read
      /\ Len(receivedData) \in Nat
      /\ Len(receivedDataBuffer) \in Nat
      /\ read \in 0 .. Len(receivedData)
      /\ Ahead + Len(receivedData) + Len(receivedDataBuffer) = Len(delivered)
  BY <1>1, DataTypes, PassedTypes
<1>6. ASSUME NEW k \in 1 .. Len(receivedData) - read
      PROVE  delivered[Passed + k] = receivedData[read + k]
  <2>1. read + k \in 1 .. Len(receivedData) /\ Passed + k = Ahead + (read + k)
    BY <1>5
  <2> QED
    BY <1>1, <2>1 DEF WaitingIsEnd
<1> HIDE DEF first, span
<1>7. SUFFICES ASSUME \A j \in 1 .. span :
                          (Passed + 1) + j <= Len(delivered)
                              => delivered[(Passed + 1) + j] = first + j
               PROVE  FALSE
  BY DEF Cut, first, span
<1>8. ASSUME NEW k \in 1 .. span + 1, k <= Len(receivedData) - read
      PROVE  receivedData[read + k] = first + k - 1
  <2>1. receivedData[read + k] = delivered[Passed + k]
    BY <1>3, <1>5, <1>6, <1>8
  <2>2. CASE k = 1
    BY <1>3, <2>1, <2>2 DEF first
  <2>3. CASE k # 1
    <3>1. /\ k - 1 \in 1 .. span
          /\ (Passed + 1) + (k - 1) = Passed + k
          /\ (Passed + 1) + (k - 1) <= Len(delivered)
      BY <1>3, <1>5, <1>8, <2>3
    <3>2. delivered[(Passed + 1) + (k - 1)] = first + (k - 1)
      BY <1>7, <3>1
    <3> QED
      BY <1>3, <2>1, <3>1, <3>2
  <2> QED
    BY <2>2, <2>3
<1>9. FrameSize = span + 1
  <2>1. 2 <= Len(receivedData) - read /\ 3 <= Len(receivedData) - read
    BY <1>2, <1>5
  <2>2. receivedData[read + 2] = first + 1 /\ receivedData[read + 3] = first + 2
    <3>1. 2 \in 1 .. span + 1 /\ 3 \in 1 .. span + 1
      BY <1>3
    <3>2. receivedData[read + 2] = first + 2 - 1 /\ receivedData[read + 3] = first + 3 - 1
      BY <1>8, <2>1, <3>1
    <3> QED
      BY <1>3, <3>2
  <2> QED
    BY <1>3, <1>4, <2>2 DEF FrameSize, Byte
<1>10. \A k \in 1 .. FrameSize : receivedData[read + k] = first + k - 1
  BY <1>2, <1>5, <1>8, <1>9
<1> QED
  BY <1>1, <1>3, <1>9, <1>10 DEF PassesCRC, first, span

LEMMA FailsCRCSkip ==
    ASSUME SkipInv, TypeOK', FailsCRC
    PROVE  DeliveredAscends' /\ WaitingIsEnd' /\ PassedFrames'
<1>1. /\ OrderInv /\ DeliveredAscends /\ WaitingIsEnd /\ TypeOK
      /\ BadFrame /\ AtPreamble /\ Complete
      /\ GoOn(read + 3) /\ decoded' = decoded
  BY DEF SkipInv, OrderInv, FailsCRC, BadFrame, obsVars
<1>2. /\ read + 3 \in read .. Len(receivedData)
      /\ read + 1 \in 1 .. Len(receivedData)
      /\ read \in Nat
      /\ Len(receivedData) \in Nat
      /\ Len(receivedDataBuffer) \in Nat
  BY <1>1, DataTypes DEF Complete, Left
<1>3. /\ delivered' = delivered
      /\ DeliveredAscends'
      /\ WaitingIsEnd'
      /\ Passed' = Ahead + (read + 3)
  BY <1>1, <1>2, ParsePassed
<1>4. /\ Passed' = Passed + 3 /\ Passed \in Nat /\ Ahead \in Nat
      /\ Passed + 1 = Ahead + (read + 1)
      /\ Passed + 1 \in Passed + 1 .. Len(delivered)
      /\ Passed + 1 \in DOMAIN delivered
  BY <1>1, <1>2, <1>3, PassedTypes, DeliveredTypes
<1>5. Stream[delivered[Passed + 1]] = Preamble
  BY <1>1, <1>2, <1>4 DEF WaitingIsEnd, Byte, AtPreamble
<1>6. FalsePreamble(Passed + 1)
  BY <1>1, <1>4, <1>5, UnparsedNotDecoded DEF FalsePreamble
<1>7. ASSUME NEW f \in Ids, NEW k \in Passed + 1 .. Passed',
             delivered[k] = Frames[f].first
      PROVE  FalsePreamble(k - 1) \/ FalsePreamble(k - 2) \/ Cut(f, k)
  <2>1. \/ k = Passed + 1
        \/ k - 1 = Passed + 1
        \/ k - 2 = Passed + 1
    BY <1>4
  <2>2. CASE k = Passed + 1
    BY <1>1, <1>7, <2>2, BadFrameIsCut
  <2> QED
    BY <1>6, <2>1, <2>2
<1>8. PassedFrames'
  BY <1>1, <1>3, <1>4, <1>7, KeepPassed
<1> QED
  BY <1>3, <1>8

(* A frame that is decoded: the only frame that begins in it is the one    *)
(* decoded, and it lies behind every false preamble seen before.           *)
LEMMA DecodingSkip ==
    ASSUME SkipInv, TypeOK', NEW f \in Ids, Decoding(f),
           GoOn(read + FrameSize) \/ Return(read + FrameSize)
    PROVE  DeliveredAscends' /\ WaitingIsEnd' /\ PassedFrames'
<1> DEFINE size == FrameSize
<1>1. /\ OrderInv /\ DeliveredAscends /\ WaitingIsEnd /\ PassedFrames /\ TypeOK
      /\ AtPreamble /\ Complete
      /\ size = Frames[f].last - Frames[f].first + 1
      /\ \A k \in 1 .. size : receivedData[read + k] = Frames[f].first + k - 1
      /\ decoded' = Append(decoded, f)
  BY DEF SkipInv, OrderInv, Decoding, PassesCRC
<1>2. size \in Nat /\ size >= 6 /\ read + size <= Len(receivedData)
  BY <1>1, HeaderType
<1>3. GoOn(read + size) \/ Return(read + size)
  OBVIOUS
<1> HIDE DEF size
<1>4. /\ Len(receivedData) \in Nat
      /\ Len(receivedDataBuffer) \in Nat
      /\ Len(delivered) \in Nat
      /\ read \in 0 .. Len(receivedData)
      /\ Passed \in Nat /\ Ahead \in Nat /\ Passed = Ahead + read
      /\ Ahead + Len(receivedData) + Len(receivedDataBuffer) = Len(delivered)
  BY <1>1, DataTypes, DeliveredTypes, PassedTypes
<1>5. read + size \in read .. Len(receivedData)
  BY <1>2, <1>4
<1>6. /\ delivered' = delivered
      /\ DeliveredAscends'
      /\ WaitingIsEnd'
      /\ Passed' = Ahead + (read + size)
  BY <1>1, <1>3, <1>5, ParsePassed
<1>7. Passed' = Passed + size
  BY <1>2, <1>4, <1>6
<1>8. Frames[f].first \in Nat /\ Frames[f].last \in Nat
  BY FrameTypes
<1>9. \A k \in 1 .. size : delivered[Passed + k] = Frames[f].first + k - 1
  <2> SUFFICES ASSUME NEW k \in 1 .. size
               PROVE  delivered[Passed + k] = Frames[f].first + k - 1
    OBVIOUS
  <2>1. read + k \in 1 .. Len(receivedData) /\ Passed + k = Ahead + (read + k)
    BY <1>2, <1>4
  <2> QED
    BY <1>1, <2>1 DEF WaitingIsEnd
<1>10. /\ DOMAIN decoded = 1 .. Len(decoded) /\ Len(decoded) \in Nat
       /\ DOMAIN decoded' = 1 .. Len(decoded) + 1
       /\ decoded'[Len(decoded) + 1] = f
       /\ \A j \in 1 .. Len(decoded) : decoded'[j] = decoded[j]
  <2>1. decoded \in Seq(Ids)
    BY <1>1 DEF TypeOK
  <2> QED
    BY <1>1, <2>1
<1>11. ASSUME NEW k \in 1 .. Passed, FalsePreamble(k)
       PROVE  FalsePreamble(k)'
  <2>1. k \in DOMAIN delivered /\ Stream[delivered[k]] = Preamble /\ ~OfDecoded(delivered[k])
    BY <1>11 DEF FalsePreamble
  <2>2. delivered[k] < Frames[f].first
    <3>1. /\ k \in 1 .. Len(delivered)
          /\ Passed + 1 \in 1 .. Len(delivered)
          /\ 1 \in 1 .. size
          /\ (Passed + 1) - k > 0
          /\ k < Passed + 1
      BY <1>2, <1>4
    <3>2. (Passed + 1) - k <= delivered[Passed + 1] - delivered[k]
      BY <1>1, <3>1 DEF DeliveredAscends
    <3>3. delivered[Passed + 1] = Frames[f].first + 1 - 1
      BY <1>9, <3>1
    <3>4. delivered[k] \in Nat /\ k \in Nat
      BY <1>1, <3>1, DeliveredTypes
    <3> QED
      BY <1>4, <1>8, <3>1, <3>2, <3>3, <3>4
  <2>3. delivered[k] \in Nat
    BY <1>1, <2>1, DeliveredTypes
  <2>4. ~OfDecoded(delivered[k])'
    <3> SUFFICES ASSUME NEW j \in 1 .. Len(decoded) + 1,
                        delivered[k] \in Frames[decoded'[j]].first .. Frames[decoded'[j]].last
                 PROVE  FALSE
      BY <1>6, <1>10 DEF OfDecoded
    <3>1. CASE j = Len(decoded) + 1
      BY <1>8, <1>10, <2>2, <2>3, <3>1
    <3>2. CASE j # Len(decoded) + 1
      <4>1. j \in 1 .. Len(decoded) /\ decoded'[j] = decoded[j]
        BY <1>10, <3>2
      <4> QED
        BY <1>10, <2>1, <4>1 DEF OfDecoded
    <3> QED
      BY <3>1, <3>2
  <2> QED
    BY <1>6, <2>1, <2>4 DEF FalsePreamble
<1>12. ASSUME NEW g \in Ids, IsDecoded(g)
       PROVE  IsDecoded(g)'
  <2>1. PICK j \in 1 .. Len(decoded) : decoded[j] = g
    BY <1>10, <1>12 DEF IsDecoded
  <2>2. j \in 1 .. Len(decoded) + 1 /\ decoded'[j] = g
    BY <1>10, <2>1
  <2> QED
    BY <1>10, <2>2 DEF IsDecoded
<1>13. ASSUME NEW g \in Ids, NEW k \in Passed + 1 .. Passed',
              delivered[k] = Frames[g].first
       PROVE  IsDecoded(g)'
  <2>1. k - Passed \in 1 .. size /\ Passed + (k - Passed) = k
    BY <1>2, <1>4, <1>7
  <2>2. delivered[k] = Frames[f].first + (k - Passed) - 1
    BY <1>9, <2>1
  <2>3. Frames[f].first <= Frames[g].first /\ Frames[g].first <= Frames[f].last
    <3> DEFINE m == k - Passed
    <3>1. m \in 1 .. size
      BY <2>1
    <3> HIDE DEF m
    <3>2. Frames[g].first = Frames[f].first + m - 1
      BY <1>13, <2>2 DEF m
    <3>3. size = Frames[f].last - Frames[f].first + 1
      BY <1>1
    <3> QED
      BY <1>8, <3>1, <3>2, <3>3
  <2>4. /\ f \in Nat /\ g \in Nat
        /\ Frames[g].first \in Nat /\ Frames[g].last \in Nat
        /\ Frames[g].first + 5 <= Frames[g].last
        /\ g < f => Frames[g].last < Frames[f].first
        /\ f < g => Frames[f].last < Frames[g].first
    BY FrameTypes
  <2>5. g = f
    BY <1>8, <2>3, <2>4
  <2>6. Len(decoded) + 1 \in DOMAIN decoded'
    BY <1>10
  <2> QED
    BY <1>10, <2>5, <2>6 DEF IsDecoded
<1>14. PassedFrames'
  <2> SUFFICES ASSUME NEW g \in Ids, NEW k \in 1 .. Passed',
                      delivered[k] = Frames[g].first
               PROVE  \/ IsDecoded(g)'
                      \/ FalsePreamble(k - 1)' \/ FalsePreamble(k - 2)'
                      \/ Cut(g, k)'
    BY <1>6 DEF PassedFrames
  <2>1. CASE k \in 1 .. Passed
    <3>1. IsDecoded(g) \/ FalsePreamble(k - 1) \/ FalsePreamble(k - 2) \/ Cut(g, k)
      BY <1>1, <2>1 DEF PassedFrames
    <3>2. Cut(g, k) => Cut(g, k)'
      BY <1>6 DEF Cut
    <3>3. \A l \in {k - 1, k - 2} : FalsePreamble(l) => l \in 1 .. Passed
      BY <1>1, <1>4, <2>1, DeliveredTypes DEF FalsePreamble
    <3> QED
      BY <1>11, <1>12, <3>1, <3>2, <3>3
  <2>2. CASE k \notin 1 .. Passed
    <3>1. k \in Passed + 1 .. Passed'
      BY <1>4, <1>7, <2>2
    <3> QED
      BY <1>13, <3>1
  <2> QED
    BY <2>1, <2>2
<1> QED
  BY <1>6, <1>14

LEMMA ParseSkip ==
    ASSUME SkipInv, TypeOK', ParseRTCM
    PROVE  DeliveredAscends' /\ WaitingIsEnd' /\ PassedFrames'
<1>1. CASE EndOfData \/ WaitForFrame \/ \E f \in Ids : HoldBack(f)
  <2>1. decoded' = decoded
    BY <1>1 DEF EndOfData, WaitForFrame, HoldBack, obsVars
  <2>2. EndOfData => Return(read)
    <3>1. TypeOK
      BY DEF SkipInv, OrderInv
    <3>2. EndOfData => Len(receivedData) = read
      BY <3>1, DataTypes DEF EndOfData, Left
    <3> QED
      BY <3>2 DEF EndOfData
  <2>3. Return(read)
    BY <1>1, <2>2 DEF WaitForFrame, HoldBack
  <2> QED
    BY <2>1, <2>3, NothingPassed
<1>2. ASSUME NEW f \in Ids,
             DecodeOther(f) \/ LastMessage(f) \/ FirstOfEpoch(f) \/ OfEpoch(f)
      PROVE  DeliveredAscends' /\ WaitingIsEnd' /\ PassedFrames'
  <2>1. Decoding(f) /\ (GoOn(read + FrameSize) \/ Return(read + FrameSize))
    BY <1>2 DEF DecodeOther, LastMessage, FirstOfEpoch, OfEpoch, MoreToCome
  <2> QED
    BY <2>1, DecodingSkip
<1> QED
  BY <1>1, <1>2, SkipByteSkip, FailsCRCSkip DEF ParseRTCM

LEMMA GetDataSkip ==
    ASSUME SkipInv, GetData
    PROVE  DeliveredAscends' /\ WaitingIsEnd' /\ PassedFrames'
<1> DEFINE both == receivedData \o receivedDataBuffer
           n == Len(receivedData)
<1>1. /\ OrderInv /\ DeliveredAscends /\ WaitingIsEnd /\ PassedFrames /\ TypeOK
      /\ read = 0
      /\ receivedData' = both
      /\ receivedDataBuffer' = << >>
      /\ read' = 0
      /\ UNCHANGED <<delivered, sent, decoded>>
  BY DEF SkipInv, OrderInv, ReadFromStart, GetData, caster, obsVars
<1>2. /\ Len(both) = n + Len(receivedDataBuffer)
      /\ \A k \in 1 .. n : both[k] = receivedData[k]
      /\ \A k \in n + 1 .. n + Len(receivedDataBuffer) :
            both[k] = receivedDataBuffer[k - n]
  <2>1. receivedData \in Seq(Positions) /\ receivedDataBuffer \in Seq(Positions)
    BY <1>1 DEF TypeOK
  <2> QED
    BY <2>1, ConcatParts
<1> HIDE DEF both
<1>3. /\ n \in Nat
      /\ Len(receivedDataBuffer) \in Nat
      /\ Len(delivered) \in Nat
      /\ Ahead \in Nat /\ Passed = Ahead + read
  BY <1>1, DataTypes, DeliveredTypes, PassedTypes
<1>4. Len(receivedDataBuffer') = 0
  BY <1>1
<1>5. Passed' = Passed /\ Ahead' = Ahead
  BY <1>1, <1>2, <1>3, <1>4 DEF Passed, Ahead
<1>6. ASSUME NEW k \in 1 .. Len(receivedData')
      PROVE  delivered'[Ahead' + k] = receivedData'[k]
  <2>1. CASE k <= n
    BY <1>1, <1>2, <1>3, <1>5, <2>1 DEF WaitingIsEnd
  <2>2. CASE k > n
    <3>1. /\ k - n \in 1 .. Len(receivedDataBuffer)
          /\ Ahead + n + (k - n) = Ahead + k
          /\ k \in n + 1 .. n + Len(receivedDataBuffer)
      BY <1>1, <1>2, <1>3, <2>2
    <3> QED
      BY <1>1, <1>2, <1>5, <3>1 DEF WaitingIsEnd
  <2> QED
    BY <1>1, <1>2, <1>3, <2>1, <2>2
<1>7. WaitingIsEnd'
  BY <1>3, <1>4, <1>5, <1>6 DEF WaitingIsEnd
<1>8. DeliveredAscends' /\ PassedFrames'
  BY <1>1, <1>5 DEF DeliveredAscends, PassedFrames, IsDecoded, FalsePreamble, OfDecoded, Cut
<1> QED
  BY <1>7, <1>8

LEMMA ChunkSkip ==
    ASSUME SkipInv, NEW size \in ChunkSizes, DataChunkDownloaded(size)
    PROVE  DeliveredAscends' /\ WaitingIsEnd' /\ PassedFrames'
<1> DEFINE new == Bytes(sent + 1, sent + size)
           n == Len(delivered)
           b == Len(receivedDataBuffer)
<1>1. /\ OrderInv /\ DeliveredAscends /\ WaitingIsEnd /\ PassedFrames /\ TypeOK
      /\ size \in Nat \ {0}
      /\ sent' = sent + size
      /\ sent + size <= Len(Stream)
      /\ receivedDataBuffer' = receivedDataBuffer \o new
      /\ delivered' = delivered \o new
      /\ UNCHANGED <<receivedData, read, decoded>>
  BY FrameTypes DEF SkipInv, OrderInv, DataChunkDownloaded, Sends, obsVars
<1>2. /\ sent \in Nat
      /\ n \in Nat /\ b \in Nat
      /\ Len(receivedData) \in Nat
      /\ DOMAIN delivered = 1 .. n
      /\ \A k \in 1 .. n : delivered[k] \in Nat
      /\ Ahead \in Nat /\ Passed \in Nat /\ Passed <= n
      /\ Ahead + Len(receivedData) + b = n
      /\ read \in Nat
  BY <1>1, DataTypes, DeliveredTypes, PassedTypes
<1>3. /\ new \in Seq(Positions)
      /\ Len(new) = size
      /\ \A k \in 1 .. size : new[k] = sent + k
  <2>1. /\ sent + 1 \in Nat \ {0}
        /\ sent + size \in Nat
        /\ sent + 1 <= (sent + size) + 1
    BY <1>1, <1>2
  <2> HIDE DEF new
  <2>2. /\ new \in Seq(Positions)
        /\ Len(new) = (sent + size) - (sent + 1) + 1
        /\ \A k \in 1 .. (sent + size) - (sent + 1) + 1 :
              new[k] = (sent + 1) + k - 1
    BY <1>1, <2>1, BytesType DEF new
  <2>3. (sent + size) - (sent + 1) + 1 = size
    BY <1>1, <1>2
  <2>4. \A k \in 1 .. size : (sent + 1) + k - 1 = sent + k
    BY <1>1, <1>2
  <2> QED
    BY <2>2, <2>3, <2>4
<1> HIDE DEF new
<1>4. /\ Len(delivered') = n + size
      /\ \A k \in 1 .. n : delivered'[k] = delivered[k]
      /\ \A k \in n + 1 .. n + size : delivered'[k] = sent + (k - n)
  <2>1. delivered \in Seq(Positions)
    BY <1>1 DEF TypeOK
  <2>2. /\ Len(delivered') = n + Len(new)
        /\ \A k \in 1 .. n : delivered'[k] = delivered[k]
        /\ \A k \in n + 1 .. n + Len(new) : delivered'[k] = new[k - n]
    BY <1>1, <1>3, <2>1, ConcatParts
  <2>3. \A k \in n + 1 .. n + size : k - n \in 1 .. size
    BY <1>1, <1>2
  <2> QED
    BY <1>3, <2>2, <2>3
<1>5. /\ Len(receivedDataBuffer') = b + size
      /\ \A l \in 1 .. b : receivedDataBuffer'[l] = receivedDataBuffer[l]
      /\ \A l \in b + 1 .. b + size : receivedDataBuffer'[l] = sent + (l - b)
  <2>1. receivedDataBuffer \in Seq(Positions)
    BY <1>1 DEF TypeOK
  <2>2. /\ Len(receivedDataBuffer') = b + Len(new)
        /\ \A l \in 1 .. b : receivedDataBuffer'[l] = receivedDataBuffer[l]
        /\ \A l \in b + 1 .. b + Len(new) : receivedDataBuffer'[l] = new[l - b]
    BY <1>1, <1>3, <2>1, ConcatParts
  <2>3. \A l \in b + 1 .. b + size : l - b \in 1 .. size
    BY <1>1, <1>2
  <2> QED
    BY <1>3, <2>2, <2>3
<1>6. Passed' = Passed /\ Ahead' = Ahead
  BY <1>1, <1>2, <1>4, <1>5 DEF Passed, Ahead
<1> HIDE DEF n, b
<1>7. \A k \in 1 .. n + size : k \in 1 .. n \/ k \in n + 1 .. n + size
  BY <1>1, <1>2
<1>8. \A k \in 1 .. n : delivered[k] <= sent
  BY <1>1 DEF DeliveredAscends, n
<1>9. ASSUME NEW k \in 1 .. n + size, NEW l \in 1 .. n + size, k < l
      PROVE  l - k <= delivered'[l] - delivered'[k]
  <2>1. CASE l \in 1 .. n
    <3>1. k \in 1 .. n
      BY <1>2, <1>9, <2>1
    <3>2. l - k <= delivered[l] - delivered[k]
      BY <1>1, <1>9, <2>1, <3>1 DEF DeliveredAscends, n
    <3> QED
      BY <1>4, <2>1, <3>1, <3>2
  <2>2. CASE k \in 1 .. n /\ l \in n + 1 .. n + size
    <3>1. delivered[k] \in Nat /\ delivered[k] <= sent
      BY <1>2, <1>8, <2>2
    <3>2. delivered'[k] = delivered[k] /\ delivered'[l] = sent + (l - n)
      BY <1>4, <2>2
    <3>3. n - k <= sent - delivered[k]
      <4>1. CASE k = n
        BY <1>2, <3>1, <4>1
      <4>2. CASE k # n
        <5>1. n \in 1 .. n /\ k < n
          BY <1>2, <2>2, <4>2
        <5>2. n - k <= delivered[n] - delivered[k]
          BY <1>1, <2>2, <5>1 DEF DeliveredAscends, n
        <5>3. delivered[n] <= sent /\ delivered[n] \in Nat
          BY <1>2, <1>8, <5>1
        <5> QED
          BY <1>2, <2>2, <3>1, <5>2, <5>3
      <4> QED
        BY <4>1, <4>2
    <3> QED
      BY <1>1, <1>2, <2>2, <3>1, <3>2, <3>3
  <2>3. CASE k \in n + 1 .. n + size
    <3>1. l \in n + 1 .. n + size
      BY <1>1, <1>2, <1>9, <2>3
    <3>2. delivered'[k] = sent + (k - n) /\ delivered'[l] = sent + (l - n)
      BY <1>4, <2>3, <3>1
    <3> QED
      BY <1>1, <1>2, <3>1, <3>2, <2>3
  <2> QED
    BY <1>7, <2>1, <2>2, <2>3
<1>10. ASSUME NEW k \in 1 .. n + size
       PROVE  delivered'[k] <= sent + size
  <2>1. CASE k \in 1 .. n
    BY <1>1, <1>2, <1>4, <1>8, <2>1
  <2>2. CASE k \in n + 1 .. n + size
    BY <1>1, <1>2, <1>4, <2>2
  <2> QED
    BY <1>7, <2>1, <2>2
<1>11. DeliveredAscends'
  BY <1>1, <1>4, <1>9, <1>10 DEF DeliveredAscends
<1>12. ASSUME NEW k \in 1 .. Len(receivedData)
       PROVE  delivered'[Ahead + k] = receivedData[k]
  <2>1. Ahead + k \in 1 .. n
    BY <1>2
  <2> QED
    BY <1>1, <1>4, <2>1 DEF WaitingIsEnd
<1>13. ASSUME NEW l \in 1 .. b + size
       PROVE  delivered'[Ahead + Len(receivedData) + l] = receivedDataBuffer'[l]
  <2>1. CASE l \in 1 .. b
    <3>1. Ahead + Len(receivedData) + l \in 1 .. n
      BY <1>2, <2>1
    <3>2. delivered[Ahead + Len(receivedData) + l] = receivedDataBuffer[l]
      BY <1>1, <2>1 DEF WaitingIsEnd, b
    <3> QED
      BY <1>4, <1>5, <2>1, <3>1, <3>2
  <2>2. CASE l \notin 1 .. b
    <3>1. /\ l \in b + 1 .. b + size
          /\ Ahead + Len(receivedData) + l \in n + 1 .. n + size
          /\ (Ahead + Len(receivedData) + l) - n = l - b
      <4>1. l \in Nat /\ l > b /\ l <= b + size /\ size \in Nat
        BY <1>1, <1>2, <2>2
      <4>2. /\ Ahead + Len(receivedData) + b = n
            /\ Ahead \in Nat /\ Len(receivedData) \in Nat /\ b \in Nat /\ n \in Nat
        BY <1>2
      <4> QED
        BY <4>1, <4>2
    <3> QED
      BY <1>4, <1>5, <3>1
  <2> QED
    BY <2>1, <2>2
<1>14. WaitingIsEnd'
  BY <1>1, <1>2, <1>5, <1>6, <1>12, <1>13 DEF WaitingIsEnd
<1>15. PassedFrames'
  <2> SUFFICES ASSUME NEW f \in Ids, NEW k \in 1 .. Passed,
                      delivered'[k] = Frames[f].first
               PROVE  \/ IsDecoded(f)'
                      \/ FalsePreamble(k - 1)' \/ FalsePreamble(k - 2)'
                      \/ Cut(f, k)'
    BY <1>6 DEF PassedFrames
  <2>1. k \in 1 .. n /\ delivered[k] = Frames[f].first
    BY <1>2, <1>4
  <2>2. IsDecoded(f) \/ FalsePreamble(k - 1) \/ FalsePreamble(k - 2) \/ Cut(f, k)
    BY <1>1, <2>1 DEF PassedFrames
  <2>3. IsDecoded(f) => IsDecoded(f)'
    BY <1>1 DEF IsDecoded
  <2>4. DOMAIN delivered' = 1 .. n + size
    <3>1. delivered \in Seq(Positions)
      BY <1>1 DEF TypeOK
    <3>2. delivered' \in Seq(Positions)
      BY <1>1, <1>3, <3>1
    <3> QED
      BY <1>4, <3>2
  <2>5. \A l : FalsePreamble(l) => FalsePreamble(l)'
    <3> SUFFICES ASSUME NEW l, FalsePreamble(l) PROVE FalsePreamble(l)'
      OBVIOUS
    <3>1. l \in 1 .. n /\ Stream[delivered[l]] = Preamble /\ ~OfDecoded(delivered[l])
      BY <1>2 DEF FalsePreamble
    <3>2. l \in DOMAIN delivered'
      <4>1. \A i \in 1 .. n : i \in 1 .. n + size
        BY <1>1, <1>2
      <4> QED
        BY <2>4, <3>1, <4>1, Zenon
    <3>3. delivered'[l] = delivered[l]
      BY <1>4, <3>1, Zenon
    <3>4. \A position : OfDecoded(position)' => OfDecoded(position)
      BY <1>1, Zenon DEF OfDecoded
    <3> QED
      BY <3>1, <3>2, <3>3, <3>4, Zenon DEF FalsePreamble, OfDecoded
  <2>6. Cut(f, k) => Cut(f, k)'
    <3> SUFFICES ASSUME Cut(f, k) PROVE Cut(f, k)'
      OBVIOUS
    <3>1. PICK j \in 1 .. Frames[f].last - Frames[f].first :
              k + j <= n /\ delivered[k + j] # Frames[f].first + j
      BY DEF Cut, n
    <3>2. k + j \in 1 .. n /\ k + j <= n + size
      <4>1. j \in Nat /\ k \in Nat /\ 1 <= k /\ n \in Nat /\ size \in Nat
        BY <1>1, <1>2, <2>1, FrameTypes
      <4> QED
        BY <3>1, <4>1
    <3>3. delivered'[k + j] # Frames[f].first + j
      BY <1>4, <3>1, <3>2
    <3> QED
      BY <1>4, <3>2, <3>3 DEF Cut
  <2> QED
    BY <2>2, <2>3, <2>5, <2>6
<1> QED
  BY <1>11, <1>14, <1>15

LEMMA NextSkip == SkipInv /\ [Next]_vars => SkipInv'
<1> SUFFICES ASSUME SkipInv, [Next]_vars PROVE SkipInv'
  OBVIOUS
<1>1. OrderInv' /\ TypeOK'
  BY NextOrder DEF SkipInv, OrderInv
<1>2. CASE GetData
  BY <1>1, <1>2, GetDataSkip DEF SkipInv
<1>3. CASE ParseRTCM
  BY <1>1, <1>3, ParseSkip DEF SkipInv
<1>4. ASSUME NEW size \in ChunkSizes, DataChunkDownloaded(size)
      PROVE  SkipInv'
  BY <1>1, <1>4, ChunkSkip DEF SkipInv
<1>5. ASSUME NEW size \in ChunkSizes, LoseChunk(size)
      PROVE  SkipInv'
  <2>1. /\ sent' = sent + size
        /\ size \in Nat
        /\ UNCHANGED <<delivered, receivedDataBuffer, receivedData, pc, read, decoded>>
    BY <1>5, FrameTypes DEF LoseChunk, Sends, obsVars
  <2>2. TypeOK /\ sent \in Nat
    BY DataTypes DEF SkipInv, OrderInv
  <2>3. DeliveredAscends'
    BY <2>1, <2>2, DeliveredTypes DEF SkipInv, DeliveredAscends
  <2>4. /\ Passed' = Passed
        /\ \A f \in Ids : IsDecoded(f)' <=> IsDecoded(f)
        /\ \A k : FalsePreamble(k)' <=> FalsePreamble(k)
        /\ \A f \in Ids, k \in 1 .. Passed : Cut(f, k)' <=> Cut(f, k)
    BY <2>1, Zenon DEF Passed, IsDecoded, FalsePreamble, OfDecoded, Cut
  <2>5. WaitingIsEnd'
    BY <2>1, <2>4 DEF SkipInv, WaitingIsEnd, Ahead
  <2>6. PassedFrames'
    BY <2>1, <2>4, Zenon DEF SkipInv, PassedFrames
  <2> QED
    BY <1>1, <2>3, <2>5, <2>6 DEF SkipInv
<1>6. CASE UNCHANGED vars
  BY <1>1, <1>6 DEF vars, caster, obsVars, SkipInv, DeliveredAscends, WaitingIsEnd,
                    PassedFrames, Ahead, Passed, IsDecoded, FalsePreamble, OfDecoded, Cut
<1> QED
  BY <1>2, <1>3, <1>4, <1>5, <1>6 DEF Next, IoThread

(* Whatever chunks are lost and wherever the others are cut, a frame that  *)
(* arrived whole is decoded by the time the parser is past its first byte, *)
(* but for the two bytes behind a false preamble.                          *)
THEOREM FramesAreFound == Spec => []NoFrameSkipped
<1>1. Spec => []SkipInv
  BY InitSkip, NextSkip, PTL DEF Spec
<1>2. SkipInv => NoFrameSkipped
  <2> SUFFICES ASSUME SkipInv,
                      NEW f \in Ids, NEW k \in 1 .. Passed,
                      delivered[k] = Frames[f].first,
                      k + Frames[f].last - Frames[f].first <= Len(delivered),
                      delivered[k + Frames[f].last - Frames[f].first] = Frames[f].last
               PROVE  IsDecoded(f) \/ FalsePreamble(k - 1) \/ FalsePreamble(k - 2)
    BY DEF NoFrameSkipped
  <2> DEFINE first == Frames[f].first
             last == Frames[f].last
  <2>1. TypeOK /\ DeliveredAscends /\ PassedFrames /\ WaitingIsEnd
    BY DEF SkipInv, OrderInv
  <2>2. /\ first \in Nat /\ last \in Nat /\ first + 5 <= last
        /\ k \in 1 .. Len(delivered) /\ Len(delivered) \in Nat
        /\ \A l \in 1 .. Len(delivered) : delivered[l] \in Nat
    BY <2>1, FrameTypes, DeliveredTypes, PassedTypes
  <2>3. delivered[k] = first /\ delivered[k + (last - first)] = last
    <3>1. k + (last - first) = k + last - first
      BY <2>2
    <3> QED
      BY <3>1
  <2>4. k + (last - first) <= Len(delivered)
    BY <2>2
  <2> HIDE DEF first, last
  <2>5. ~Cut(f, k)
    <3> SUFFICES ASSUME NEW j \in 1 .. last - first,
                        k + j <= Len(delivered),
                        delivered[k + j] # first + j
                 PROVE  FALSE
      BY DEF Cut, first, last
    <3>0. delivered[k + j] # first + j
      OBVIOUS
    <3>1. /\ k + j \in 1 .. Len(delivered)
          /\ k + (last - first) \in 1 .. Len(delivered)
          /\ k < k + j
          /\ (k + j) - k = j
      BY <2>2, <2>4
    <3>2. j <= delivered[k + j] - first
      BY <2>1, <2>2, <2>3, <3>1 DEF DeliveredAscends
    <3>3. CASE j = last - first
      BY <2>2, <2>3, <3>3
    <3>4. CASE j # last - first
      <4>1. k + j < k + (last - first)
        BY <2>2, <3>4
      <4>2. (k + (last - first)) - (k + j) <= last - delivered[k + j]
        BY <2>1, <2>3, <3>1, <4>1 DEF DeliveredAscends
      <4>3. delivered[k + j] \in Nat /\ k \in Nat /\ j \in Nat
        <5>1. delivered[k + j] \in Nat
          BY <2>2, <3>1
        <5>2. k \in Nat
          BY <2>2
        <5>3. j \in Nat
          BY <2>2
        <5> QED
          BY <5>1, <5>2, <5>3
      <4>4. (k + (last - first)) - (k + j) = (last - first) - j
        BY <2>2, <4>3
      <4>5. delivered[k + j] = first + j
        <5>1. first \in Nat /\ last \in Nat
          BY <2>2
        <5>2. (last - first) - j <= last - delivered[k + j]
          BY <4>2, <4>4
        <5>3. \A a, b, c, d \in Nat : b - a - c <= b - d /\ c <= d - a => d = a + c
          OBVIOUS
        <5> QED
          BY <3>2, <4>3, <5>1, <5>2, <5>3
      <4> QED
        BY <4>5, <3>0
    <3> QED
      BY <3>3, <3>4
  <2> QED
    BY <2>1, <2>5 DEF PassedFrames
<1> QED
  BY <1>1, <1>2, PTL
------------------------------------------------------------------------------
(* Epochs.                                                                 *)

(* What is collected comes from messages of one epoch that are not its last. *)
CollectedOfEpoch ==
    \A k \in 1 .. Len(SuperList) :
        /\ IsDecoded(SuperList[k])
        /\ Frames[SuperList[k]].kind = "msm"
        /\ Frames[SuperList[k]].more
        /\ Frames[SuperList[k]].time = Frames[SuperList[1]].time

(* The messages of the latest epoch, while its last one is not decoded, are *)
(* collected.                                                              *)
Latest(f) ==
    /\ IsDecoded(f) /\ Frames[f].kind = "msm" /\ Frames[f].obs > 0
    /\ \A h \in Ids : IsDecoded(h) =>
          /\ Frames[h].kind = "msm" => Frames[h].time <= Frames[f].time
          /\ Observes(h, Frames[f].time) => Frames[h].more

LatestCollected == \A f \in Ids : Latest(f) => InList(SuperList, f)

(* What is collected is no more than the observations of its epoch.        *)
CollectedFits(total) ==
    SuperList # << >> =>
        /\ SuperList[1] <= SuperList[Len(SuperList)]
        /\ Len(SuperList) <= total[SuperList[Len(SuperList)]] - total[SuperList[1] - 1]

(* EpochsWhole, of frames.                                                 *)
WholeFor(f) ==
    \E n \in 1 .. Len(obsListList) : \A h \in Ids :
        IsDecoded(h) /\ Observes(h, Frames[f].time) /\ Frames[h].obs > 0
            => InList(obsListList[n], h)

LastWhole ==
    \A f \in Ids :
        IsDecoded(f) /\ Frames[f].kind = "msm" /\ ~Frames[f].more => WholeFor(f)

EpochInv(total) ==
    OrderInv /\ CollectedOfEpoch /\ LatestCollected /\ CollectedFits(total) /\ LastWhole

LEMMA FrameValues ==
    \A f \in Ids : /\ f \in Nat /\ f \in 1 .. Len(Frames)
                   /\ f - 1 \in 0 .. Len(Frames)
                   /\ Frames[f].time \in Nat
                   /\ Frames[f].obs \in Nat
                   /\ Frames[f].more \in BOOLEAN
<1> DEFINE FrameRecord == [first : Nat \ {0}, last : Nat, time : Nat, obs : Nat,
                           kind : {"msm", "timestamp", "other"}, more : BOOLEAN]
<1>1. Frames \in Seq(FrameRecord)
  BY ConstantsAssumption DEF ConstantsAssumption
<1>2. Ids = 1 .. Len(Frames) /\ Len(Frames) \in Nat
  BY <1>1 DEF Ids
<1>3. \A f \in Ids : Frames[f] \in FrameRecord
  <2> HIDE DEF FrameRecord
  <2> QED
    BY <1>1, <1>2
<1>4. \A f \in Ids : /\ Frames[f].time \in Nat
                     /\ Frames[f].obs \in Nat
                     /\ Frames[f].more \in BOOLEAN
  BY <1>3
<1>5. \A f \in Ids : f \in Nat /\ f \in 1 .. Len(Frames) /\ f - 1 \in 0 .. Len(Frames)
  BY <1>2
<1> HIDE DEF FrameRecord
<1> QED
  BY <1>4, <1>5, Zenon

LEMMA InConcat ==
    ASSUME NEW S, NEW s \in Seq(S), NEW t \in Seq(S)
    PROVE  \A f : InList(s \o t, f) <=> InList(s, f) \/ InList(t, f)
<1> DEFINE st == s \o t
<1>1. /\ Len(s) \in Nat /\ Len(t) \in Nat
      /\ DOMAIN s = 1 .. Len(s) /\ DOMAIN t = 1 .. Len(t)
      /\ DOMAIN st = 1 .. Len(s) + Len(t)
      /\ \A k \in 1 .. Len(s) : st[k] = s[k]
      /\ \A k \in Len(s) + 1 .. Len(s) + Len(t) : st[k] = t[k - Len(s)]
  <2>1. st \in Seq(S) /\ Len(st) = Len(s) + Len(t)
    OBVIOUS
  <2> QED
    BY <2>1, ConcatParts
<1> HIDE DEF st
<1>2. \A k \in 1 .. Len(t) : /\ k + Len(s) \in 1 .. Len(s) + Len(t)
                             /\ k + Len(s) \in Len(s) + 1 .. Len(s) + Len(t)
                             /\ (k + Len(s)) - Len(s) = k
  BY <1>1
<1>3. \A k \in 1 .. Len(s) + Len(t) :
          \/ k \in 1 .. Len(s)
          \/ /\ k \in Len(s) + 1 .. Len(s) + Len(t)
             /\ k - Len(s) \in 1 .. Len(t)
  BY <1>1
<1>4. \A k \in 1 .. Len(s) : k \in 1 .. Len(s) + Len(t)
  BY <1>1
<1>5. ASSUME NEW f PROVE InList(st, f) <=> InList(s, f) \/ InList(t, f)
  <2>1. InList(st, f) => InList(s, f) \/ InList(t, f)
    BY <1>1, <1>3 DEF InList
  <2>2. InList(s, f) => InList(st, f)
    BY <1>1, <1>4 DEF InList
  <2>3. InList(t, f) => InList(st, f)
    <3> SUFFICES ASSUME NEW k \in 1 .. Len(t), t[k] = f PROVE InList(st, f)
      BY <1>1 DEF InList
    <3>1. k + Len(s) \in DOMAIN st /\ st[k + Len(s)] = f
      BY <1>1, <1>2
    <3> QED
      BY <3>1 DEF InList
  <2> QED
    BY <2>1, <2>2, <2>3
<1> QED
  BY <1>5 DEF st

LEMMA ListConcat ==
    \A s, t \in Seq(Ids) :
        /\ Len(s \o t) = Len(s) + Len(t)
        /\ \A k \in 1 .. Len(s) : (s \o t)[k] = s[k]
        /\ \A k \in Len(s) + 1 .. Len(s) + Len(t) : (s \o t)[k] = t[k - Len(s)]
  OBVIOUS

LEMMA InObservations ==
    ASSUME NEW f \in Ids
    PROVE  /\ Observations(f) \in Seq(Ids)
           /\ Len(Observations(f)) = Frames[f].obs
           /\ \A k \in 1 .. Frames[f].obs : Observations(f)[k] = f
           /\ \A h : InList(Observations(f), h) <=> h = f /\ Frames[f].obs > 0
<1>1. Frames[f].obs \in Nat
  BY FrameTypes
<1>2. /\ Observations(f) \in Seq(Ids)
      /\ Len(Observations(f)) = Frames[f].obs
      /\ DOMAIN Observations(f) = 1 .. Frames[f].obs
      /\ \A k \in 1 .. Frames[f].obs : Observations(f)[k] = f
  BY <1>1 DEF Observations
<1>3. Frames[f].obs > 0 => 1 \in 1 .. Frames[f].obs
  BY <1>1
<1>4. \A k \in 1 .. Frames[f].obs : Frames[f].obs > 0
  BY <1>1
<1> QED
  BY <1>2, <1>3, <1>4 DEF InList

(* A frame decoded is behind all those decoded before.                     *)
LEMMA NewFrame ==
    ASSUME OrderInv, OrderInv', NEW f \in Ids, Decoding(f)
    PROVE  /\ \A h : IsDecoded(h)' <=> IsDecoded(h) \/ h = f
           /\ \A h \in Ids : IsDecoded(h) => h < f
<1>1. /\ decoded \in Seq(Ids)
      /\ decoded' = Append(decoded, f)
      /\ DecodedInOrder'
  BY DEF OrderInv, TypeOK, Decoding
<1>2. /\ DOMAIN decoded = 1 .. Len(decoded) /\ Len(decoded) \in Nat
      /\ DOMAIN decoded' = 1 .. Len(decoded) + 1
      /\ decoded'[Len(decoded) + 1] = f
      /\ \A j \in 1 .. Len(decoded) : decoded'[j] = decoded[j]
  BY <1>1
<1>3. \A j \in 1 .. Len(decoded) + 1 : j \in 1 .. Len(decoded) \/ j = Len(decoded) + 1
  BY <1>2
<1>4. \A j \in 1 .. Len(decoded) :
          /\ j \in 1 .. Len(decoded) + 1
          /\ Len(decoded) + 1 \in 1 .. Len(decoded) + 1
          /\ j < Len(decoded) + 1
  BY <1>2
<1>5. Len(decoded) + 1 \in 1 .. Len(decoded) + 1
  BY <1>2
<1>6. \A h : IsDecoded(h)' <=> IsDecoded(h) \/ h = f
  BY <1>2, <1>3, <1>4, <1>5 DEF IsDecoded
<1>7. \A h \in Ids : IsDecoded(h) => h < f
  BY <1>1, <1>2, <1>4 DEF IsDecoded, DecodedInOrder
<1> QED
  BY <1>6, <1>7

LEMMA SuperTypes ==
    ASSUME TypeOK
    PROVE  /\ SuperList \in Seq(Ids)
           /\ Len(SuperList) \in Nat
           /\ DOMAIN SuperList = 1 .. Len(SuperList)
           /\ \A k \in 1 .. Len(SuperList) : SuperList[k] \in Ids
           /\ obsListList \in Seq(Seq(Ids))
           /\ Len(obsListList) \in Nat
           /\ DOMAIN obsListList = 1 .. Len(obsListList)
<1>1. SuperList \in Seq(Ids) /\ obsListList \in Seq(Seq(Ids))
  BY DEF TypeOK
<1>2. \A k \in 1 .. Len(SuperList) : SuperList[k] \in Ids
  BY <1>1, ElementType
<1> QED
  BY <1>1, <1>2

LEMMA LaterFrame ==
    ASSUME EpochsAscend, OrderInv, OrderInv', NEW f \in Ids, Decoding(f),
           Frames[f].kind = "msm"
    PROVE  \A h \in Ids :
              IsDecoded(h) /\ Frames[h].kind = "msm" =>
                  /\ Frames[h].time <= Frames[f].time
                  /\ ~Frames[h].more => Frames[h].time < Frames[f].time
  BY NewFrame DEF EpochsAscend

(* Nothing is decoded.                                                     *)
LEMMA UnchangedEpochs ==
    ASSUME NEW total, EpochInv(total), OrderInv', UNCHANGED obsVars
    PROVE  EpochInv(total)'
<1>1. /\ SuperList' = SuperList /\ obsListList' = obsListList
      /\ \A f : IsDecoded(f)' <=> IsDecoded(f)
  BY DEF obsVars, IsDecoded
<1>2. CollectedOfEpoch'
  BY <1>1 DEF EpochInv, CollectedOfEpoch
<1>3. \A f : Latest(f)' <=> Latest(f)
  BY <1>1 DEF Latest
<1>4. LatestCollected'
  BY <1>1, <1>3 DEF EpochInv, LatestCollected
<1>5. CollectedFits(total)'
  BY <1>1 DEF EpochInv, CollectedFits
<1>6. \A f : WholeFor(f)' <=> WholeFor(f)
  BY <1>1 DEF WholeFor
<1>7. LastWhole'
  BY <1>1, <1>6 DEF EpochInv, LastWhole
<1> QED
  BY <1>2, <1>4, <1>5, <1>7 DEF EpochInv

LEMMA DecodeOtherEpochs ==
    ASSUME NEW total, EpochInv(total), OrderInv', NEW f \in Ids, DecodeOther(f)
    PROVE  EpochInv(total)'
<1>1. /\ SuperList' = SuperList /\ obsListList' = obsListList
      /\ Frames[f].kind # "msm"
      /\ \A h : IsDecoded(h)' <=> IsDecoded(h) \/ h = f
  BY NewFrame DEF DecodeOther, EpochInv
<1>2. CollectedOfEpoch'
  BY <1>1 DEF EpochInv, CollectedOfEpoch
<1>3. \A h : Latest(h)' => Latest(h)
  BY <1>1 DEF Latest
<1>4. LatestCollected'
  BY <1>1, <1>3 DEF EpochInv, LatestCollected
<1>5. CollectedFits(total)'
  BY <1>1 DEF EpochInv, CollectedFits
<1>6. \A h : WholeFor(h) => WholeFor(h)'
  BY <1>1 DEF WholeFor, Observes
<1>7. LastWhole'
  BY <1>1, <1>6 DEF EpochInv, LastWhole
<1> QED
  BY <1>2, <1>4, <1>5, <1>7 DEF EpochInv

(* An epoch that was handed over stays handed over.                        *)
LEMMA KeepsWhole ==
    ASSUME EpochsAscend, OrderInv, OrderInv', LastWhole,
           NEW f \in Ids, Decoding(f), Frames[f].kind = "msm",
           NEW list \in Seq(Ids),
           obsListList' = obsListList \/ obsListList' = Append(obsListList, list),
           Frames[f].more \/ WholeFor(f)'
    PROVE  LastWhole'
<1>1. /\ \A h : IsDecoded(h)' <=> IsDecoded(h) \/ h = f
      /\ \A h \in Ids :
            IsDecoded(h) /\ Frames[h].kind = "msm" /\ ~Frames[h].more
                => Frames[h].time < Frames[f].time
  BY NewFrame, LaterFrame
<1>2. /\ Len(obsListList') \in Nat
      /\ Len(obsListList) <= Len(obsListList')
      /\ Len(obsListList) \in Nat
      /\ \A n \in 1 .. Len(obsListList) : obsListList'[n] = obsListList[n]
  <2>1. obsListList \in Seq(Seq(Ids))
    BY DEF OrderInv, TypeOK
  <2> QED
    BY <2>1
<1>3. \A n \in 1 .. Len(obsListList) : n \in 1 .. Len(obsListList')
  BY <1>2
<1>4. ASSUME NEW g \in Ids, IsDecoded(g), Frames[g].kind = "msm", ~Frames[g].more
      PROVE  WholeFor(g)'
  <2>1. Frames[g].time < Frames[f].time
    BY <1>1, <1>4
  <2>2. Frames[g].time # Frames[f].time
    BY <2>1, FrameValues
  <2>3. PICK n \in 1 .. Len(obsListList) : \A h \in Ids :
            IsDecoded(h) /\ Observes(h, Frames[g].time) /\ Frames[h].obs > 0
                => InList(obsListList[n], h)
    BY <1>4 DEF LastWhole, WholeFor
  <2>4. n \in 1 .. Len(obsListList') /\ obsListList'[n] = obsListList[n]
    BY <1>2, <1>3
  <2>5. ~Observes(f, Frames[g].time)
    BY <2>2 DEF Observes
  <2> QED
    BY <1>1, <2>3, <2>4, <2>5 DEF WholeFor
<1> QED
  BY <1>1, <1>4 DEF LastWhole

(* What becomes of the messages of the latest epoch.                       *)
LEMMA LatestBefore ==
    ASSUME EpochsAscend, OrderInv, OrderInv', LatestCollected,
           NEW f \in Ids, Decoding(f), Frames[f].kind = "msm",
           NEW g \in Ids, g # f, Latest(g)'
    PROVE  /\ Frames[g].time = Frames[f].time
           /\ Frames[f].more
           /\ InList(SuperList, g)
<1>1. /\ \A h : IsDecoded(h)' <=> IsDecoded(h) \/ h = f
      /\ \A h \in Ids :
            IsDecoded(h) /\ Frames[h].kind = "msm" => Frames[h].time <= Frames[f].time
  BY NewFrame, LaterFrame
<1>2. IsDecoded(g) /\ Frames[g].kind = "msm"
  BY <1>1 DEF Latest
<1>3. Frames[g].time <= Frames[f].time /\ Frames[f].time <= Frames[g].time
  BY <1>1, <1>2 DEF Latest
<1>4. Frames[g].time = Frames[f].time
  BY <1>3, FrameValues
<1>5. Frames[f].more
  BY <1>1, <1>4 DEF Latest, Observes
<1>6. Latest(g)
  BY <1>1, <1>2 DEF Latest
<1> QED
  BY <1>4, <1>5, <1>6 DEF LatestCollected

LEMMA LastMessageEpochs ==
    ASSUME NEW total, EpochsAscend, EpochInv(total), OrderInv',
           NEW f \in Ids, LastMessage(f)
    PROVE  EpochInv(total)'
<1> DEFINE list == SuperList \o Observations(f)
<1>1. /\ Decoding(f) /\ Frames[f].kind = "msm" /\ ~Frames[f].more
      /\ SuperList' = << >>
      /\ obsListList' = Append(obsListList, list)
      /\ OrderInv /\ LastWhole /\ LatestCollected
  BY DEF LastMessage, EpochInv
<1>2. /\ SuperList \in Seq(Ids) /\ obsListList \in Seq(Seq(Ids))
      /\ Observations(f) \in Seq(Ids)
  BY <1>1, InObservations DEF OrderInv, TypeOK
<1>3. list \in Seq(Ids)
  BY <1>2
<1>4. /\ \A h : IsDecoded(h)' <=> IsDecoded(h) \/ h = f
      /\ \A h \in Ids :
            IsDecoded(h) /\ Frames[h].kind = "msm" =>
                /\ Frames[h].time <= Frames[f].time
                /\ ~Frames[h].more => Frames[h].time < Frames[f].time
  BY <1>1, NewFrame, LaterFrame
<1>5. CollectedOfEpoch' /\ CollectedFits(total)'
  BY <1>1 DEF CollectedOfEpoch, CollectedFits
<1>6. LatestCollected'
  <2> SUFFICES ASSUME NEW g \in Ids, Latest(g)' PROVE FALSE
    BY DEF LatestCollected
  <2>1. CASE g = f
    BY <1>1, <2>1 DEF Latest, Observes
  <2>2. CASE g # f
    BY <1>1, <2>2, LatestBefore
  <2> QED
    BY <2>1, <2>2
<1>7. ASSUME NEW h \in Ids, IsDecoded(h)', Observes(h, Frames[f].time), Frames[h].obs > 0
      PROVE  InList(list, h)
  <2>1. CASE h = f
    BY <1>2, <1>7, <2>1, InConcat, InObservations
  <2>2. CASE h # f
    <3>1. IsDecoded(h) /\ Frames[h].kind = "msm" /\ Frames[h].time = Frames[f].time
      BY <1>4, <1>7, <2>2 DEF Observes
    <3>2. \A i \in Ids : IsDecoded(i) /\ Frames[i].kind = "msm" =>
              /\ Frames[i].time <= Frames[h].time
              /\ Frames[i].time = Frames[h].time => Frames[i].more
      BY <1>4, <3>1, FrameValues
    <3>3. Latest(h)
      BY <1>7, <3>1, <3>2 DEF Latest, Observes
    <3>4. InList(SuperList, h)
      BY <1>1, <3>3 DEF LatestCollected
    <3> QED
      BY <1>2, <3>4, InConcat
  <2> QED
    BY <2>1, <2>2
<1> HIDE DEF list
<1>8. WholeFor(f)'
  <2>1. /\ Len(obsListList') = Len(obsListList) + 1
        /\ Len(obsListList) \in Nat
        /\ obsListList'[Len(obsListList) + 1] = list
    BY <1>1, <1>2, <1>3
  <2>2. Len(obsListList) + 1 \in 1 .. Len(obsListList')
    BY <2>1
  <2> QED
    BY <1>7, <2>1, <2>2 DEF WholeFor, Observes
<1>9. LastWhole'
  BY <1>1, <1>3, <1>8, KeepsWhole
<1> QED
  BY <1>5, <1>6, <1>9 DEF EpochInv

(* A message that is not its epoch's last joins what is kept of SuperList. *)
LEMMA Joins ==
    ASSUME EpochsAscend, OrderInv, OrderInv', CollectedOfEpoch,
           NEW f \in Ids, Decoding(f), Frames[f].kind = "msm", Frames[f].more,
           NEW base, base = SuperList \/ base = << >>,
           base # << >> /\ Frames[f].obs > 0 => Frames[f].time = Frames[base[1]].time,
           SuperList' = base \o Observations(f)
    PROVE  /\ base \in Seq(Ids)
           /\ Len(SuperList') = Len(base) + Frames[f].obs
           /\ \A k \in 1 .. Len(base) : SuperList'[k] = base[k]
           /\ \A k \in 1 .. Len(SuperList') : k \in 1 .. Len(base) \/ SuperList'[k] = f
           /\ \A h : InList(SuperList', h) <=> InList(base, h) \/ (h = f /\ Frames[f].obs > 0)
           /\ CollectedOfEpoch'
<1> DEFINE o == Observations(f)
<1>1. /\ base \in Seq(Ids)
      /\ o \in Seq(Ids)
      /\ Len(o) = Frames[f].obs
      /\ Frames[f].obs \in Nat
      /\ \A k \in 1 .. Frames[f].obs : o[k] = f
  <2>1. SuperList \in Seq(Ids) /\ << >> \in Seq(Ids)
    BY DEF OrderInv, TypeOK
  <2>2. base \in Seq(Ids)
    BY <2>1
  <2> QED
    BY <2>2, InObservations, FrameValues, Zenon
<1>0. \A h : (\E j \in DOMAIN decoded' : decoded'[j] = h) <=> IsDecoded(h) \/ h = f
  BY NewFrame, Zenon DEF IsDecoded
<1>3. \A h : InList(SuperList', h) <=> InList(base, h) \/ (h = f /\ Frames[f].obs > 0)
  <2>1. \A h : InList(base \o o, h) <=> InList(base, h) \/ InList(o, h)
    BY <1>1, InConcat
  <2> QED
    BY <2>1, InObservations, Zenon
<1> HIDE DEF o
<1>2. /\ Len(SuperList') = Len(base) + Frames[f].obs
      /\ Len(base) \in Nat
      /\ \A k \in 1 .. Len(base) : SuperList'[k] = base[k]
      /\ \A k \in Len(base) + 1 .. Len(base) + Frames[f].obs :
            SuperList'[k] = o[k - Len(base)]
  <2>1. SuperList' = base \o o
    BY DEF o
  <2>2. /\ Len(base \o o) = Len(base) + Len(o)
        /\ \A k \in 1 .. Len(base) : (base \o o)[k] = base[k]
        /\ \A k \in Len(base) + 1 .. Len(base) + Len(o) :
              (base \o o)[k] = o[k - Len(base)]
    BY <1>1, ListConcat, Zenon
  <2>3. Len(base) \in Nat
    BY <1>1
  <2> QED
    BY <1>1, <2>1, <2>2, <2>3, Zenon
<1>4. ASSUME NEW k \in 1 .. Len(SuperList'), k \notin 1 .. Len(base)
      PROVE  SuperList'[k] = f /\ Frames[f].obs > 0
  <2>1. k \in Len(base) + 1 .. Len(base) + Frames[f].obs
    BY <1>1, <1>2, <1>4
  <2>2. k - Len(base) \in 1 .. Frames[f].obs
    BY <1>1, <1>2, <2>1
  <2>3. Frames[f].obs > 0
    BY <1>1, <2>2
  <2> QED
    BY <1>1, <1>2, <2>1, <2>2, <2>3
<1>5. ASSUME NEW k \in 1 .. Len(base)
      PROVE  /\ 1 \in 1 .. Len(base) /\ base # << >> /\ base = SuperList
             /\ SuperList'[k] = base[k] /\ SuperList'[1] = base[1]
             /\ IsDecoded(base[k]) /\ Frames[base[k]].kind = "msm"
             /\ Frames[base[k]].more
             /\ Frames[base[k]].time = Frames[base[1]].time
  <2>1. 1 \in 1 .. Len(base)
    BY <1>2
  <2>2. base # << >>
    BY <1>2
  <2> QED
    BY <1>2, <2>1, <2>2 DEF CollectedOfEpoch
<1>6. ASSUME NEW k \in 1 .. Len(SuperList')
      PROVE  /\ \E j \in DOMAIN decoded' : decoded'[j] = SuperList'[k]
             /\ Frames[SuperList'[k]].kind = "msm"
             /\ Frames[SuperList'[k]].more
             /\ Frames[SuperList'[k]].time = Frames[SuperList'[1]].time
  <2>1. CASE k \in 1 .. Len(base)
    BY <1>0, <1>5, <2>1
  <2>2. CASE k \notin 1 .. Len(base)
    <3>1. SuperList'[k] = f /\ Frames[f].obs > 0
      BY <1>4, <2>2
    <3>2. CASE base = << >>
      <4>1. Len(base) = 0 /\ 1 \in 1 .. Len(SuperList') /\ 1 \notin 1 .. Len(base)
        BY <1>2, <3>2, <1>1, <3>1
      <4>2. SuperList'[1] = f
        BY <1>4, <4>1
      <4> QED
        BY <1>0, <3>1, <4>2
    <3>3. CASE base # << >>
      <4>1. 1 \in 1 .. Len(base)
        BY <1>1, <3>3
      <4>2. SuperList'[1] = base[1] /\ Frames[f].time = Frames[base[1]].time
        BY <1>5, <3>1, <3>3, <4>1
      <4> QED
        BY <1>0, <3>1, <4>2
    <3> QED
      BY <3>2, <3>3
  <2> QED
    BY <2>1, <2>2
<1>7. CollectedOfEpoch'
  BY <1>6 DEF CollectedOfEpoch, IsDecoded
<1> QED
  BY <1>1, <1>2, <1>3, <1>4, <1>7, Zenon

(* Nothing is dropped while the epochs are within the limit.               *)
LEMMA Keeps ==
    ASSUME NEW total, WithinLimit(total), OrderInv, OrderInv', CollectedOfEpoch,
           CollectedFits(total),
           NEW f \in Ids, Decoding(f),
           NEW base, base = SuperList \/ base = << >>,
           base # << >> /\ Frames[f].obs > 0 => Frames[f].time = Frames[base[1]].time
    PROVE  LET list == base \o Observations(f)
           IN  /\ Limited(list) = list
               /\ list # << >> =>
                     /\ list[1] <= list[Len(list)]
                     /\ Len(list) <= total[list[Len(list)]] - total[list[1] - 1]
<1> DEFINE o == Observations(f)
           list == base \o o
           obs == Frames[f].obs
<1>1. /\ base \in Seq(Ids)
      /\ o \in Seq(Ids)
      /\ Len(o) = obs
      /\ obs \in Nat
      /\ \A k \in 1 .. obs : o[k] = f
      /\ SuperLimit \in Nat
  <2>1. SuperList \in Seq(Ids) /\ << >> \in Seq(Ids)
    BY DEF OrderInv, TypeOK
  <2>2. base \in Seq(Ids)
    BY <2>1
  <2> QED
    BY <2>2, InObservations, FrameValues, FrameTypes, Zenon
<1>2. /\ Len(list) = Len(base) + obs
      /\ Len(base) \in Nat
      /\ list \in Seq(Ids)
      /\ \A k \in 1 .. Len(base) : list[k] = base[k]
      /\ \A k \in Len(base) + 1 .. Len(base) + obs : list[k] = o[k - Len(base)]
  <2> HIDE DEF o, obs
  <2>1. /\ Len(list) = Len(base) + Len(o)
        /\ \A k \in 1 .. Len(base) : list[k] = base[k]
        /\ \A k \in Len(base) + 1 .. Len(base) + Len(o) : list[k] = o[k - Len(base)]
    BY <1>1, ListConcat, Zenon
  <2>2. Len(base) \in Nat /\ list \in Seq(Ids)
    BY <1>1
  <2> QED
    BY <1>1, <2>1, <2>2, Zenon
<1> HIDE DEF o, list, obs
<1>3. /\ \A m \in 0 .. Len(Frames) : total[m] \in Nat
      /\ \A m \in 0 .. Len(Frames), g \in Ids :
            m < g => total[m] + Frames[g].obs <= total[g]
      /\ \A g, h \in Ids :
            g <= h /\ Frames[g].time = Frames[h].time
                => total[h] - total[g - 1] <= SuperLimit
  BY DEF WithinLimit
<1>4. \A g \in Ids : /\ g \in Nat /\ g - 1 \in 0 .. Len(Frames)
                     /\ g \in 0 .. Len(Frames) /\ g - 1 < g
  BY FrameValues
<1>5. total[f] \in Nat /\ total[f - 1] \in Nat
  BY <1>3, <1>4
<1>6. list # << >> => Len(list) \in Nat /\ Len(list) >= 1
  BY <1>2
<1>7. CASE base = << >>
  <2>1. Len(base) = 0 /\ Len(list) = obs
    BY <1>1, <1>2, <1>7
  <2>2. total[f - 1] + obs <= total[f] /\ total[f] - total[f - 1] <= SuperLimit
    BY <1>3, <1>4 DEF obs
  <2>3. obs <= SuperLimit /\ obs <= total[f] - total[f - 1]
    BY <1>1, <1>5, <2>2
  <2>4. Limited(list) = list
    BY <1>1, <2>1, <2>3 DEF Limited
  <2>5. ASSUME list # << >>
        PROVE  list[1] = f /\ list[Len(list)] = f
    <3>1. /\ 1 \in Len(base) + 1 .. Len(base) + obs
          /\ obs \in Len(base) + 1 .. Len(base) + obs
          /\ 1 \in 1 .. obs /\ obs \in 1 .. obs
          /\ 1 - Len(base) = 1 /\ obs - Len(base) = obs
      BY <1>1, <1>6, <2>1, <2>5
    <3> QED
      BY <1>1, <1>2, <2>1, <3>1
  <2> QED
    BY <1>4, <2>1, <2>3, <2>4, <2>5 DEF list, o
<1>8. CASE base # << >>
  <2> DEFINE n == Len(base)
             last == base[n]
             first == base[1]
  <2>1. /\ n \in Nat /\ n >= 1 /\ 1 \in 1 .. n /\ n \in 1 .. n
        /\ base = SuperList
    BY <1>1, <1>8
  <2>2. first \in Ids /\ last \in Ids
    BY <1>1, <2>1, ElementType
  <2>3. /\ IsDecoded(first) /\ IsDecoded(last)
        /\ Frames[first].time = Frames[last].time
    BY <2>1 DEF CollectedOfEpoch
  <2>4. /\ first <= last /\ n <= total[last] - total[first - 1]
        /\ last < f /\ first < f
    BY <1>8, <2>1, <2>2, <2>3, NewFrame DEF CollectedFits
  <2> HIDE DEF n, last, first
  <2>5. total[last] \in Nat /\ total[first - 1] \in Nat
    BY <1>3, <1>4, <2>2
  <2>6. total[last] + obs <= total[f]
    BY <1>3, <1>4, <2>2, <2>4 DEF obs
  <2>7. list[1] = first
    BY <1>2, <2>1 DEF n, first
  <2>8. CASE obs = 0
    <3>1. total[last] - total[first - 1] <= SuperLimit
      BY <1>3, <2>2, <2>3, <2>4
    <3>2. n <= SuperLimit /\ Len(list) = n
      BY <1>1, <1>2, <2>1, <2>4, <2>5, <2>8, <3>1 DEF n
    <3>3. list[Len(list)] = last
      BY <1>2, <2>1, <3>2 DEF n, last
    <3>4. Limited(list) = list
      BY <1>1, <2>1, <3>2 DEF Limited
    <3> QED
      BY <2>4, <2>7, <3>2, <3>3, <3>4 DEF list, o
  <2>9. CASE obs # 0
    <3>1. obs > 0 /\ obs \in 1 .. obs
      BY <1>1, <2>9
    <3>2. Frames[first].time = Frames[f].time
      BY <1>8, <3>1 DEF first, obs
    <3>3. total[f] - total[first - 1] <= SuperLimit
      <4>1. first <= f
        BY <1>4, <2>2, <2>4
      <4> QED
        BY <1>3, <2>2, <3>2, <4>1
    <3>4. n + obs <= total[f] - total[first - 1] /\ n + obs <= SuperLimit
      BY <1>1, <1>5, <2>1, <2>4, <2>5, <2>6, <3>3
    <3>5. Len(list) = n + obs
      BY <1>2 DEF n
    <3>6. list[n + obs] = f
      <4>1. n + obs \in n + 1 .. n + obs /\ (n + obs) - n = obs
        BY <1>1, <2>1, <3>1
      <4> QED
        BY <1>1, <1>2, <3>1, <4>1 DEF n
    <3>7. Limited(list) = list
      BY <1>1, <2>1, <3>4, <3>5 DEF Limited
    <3>8. first <= f
      BY <1>4, <2>2, <2>4
    <3> QED
      BY <2>7, <3>4, <3>5, <3>6, <3>7, <3>8 DEF list, o
  <2> QED
    BY <2>8, <2>9
<1> QED
  BY <1>7, <1>8

LEMMA MoreEpochs ==
    ASSUME NEW total, EpochsAscend, WithinLimit(total), EpochInv(total), OrderInv',
           NEW f \in Ids, Decoding(f), Frames[f].kind = "msm", Frames[f].more,
           NEW base, base = SuperList \/ base = << >>,
           base # << >> /\ Frames[f].obs > 0 => Frames[f].time = Frames[base[1]].time,
           SuperList' = Limited(base \o Observations(f)),
           obsListList' = obsListList \/ obsListList' = Append(obsListList, SuperList),
           \A g \in Ids : InList(SuperList, g) /\ Frames[g].time = Frames[f].time
               => InList(base, g)
    PROVE  EpochInv(total)'
<1> DEFINE list == base \o Observations(f)
<1>1. /\ OrderInv /\ CollectedOfEpoch /\ CollectedFits(total)
      /\ LatestCollected /\ LastWhole
  BY DEF EpochInv
<1>2. /\ SuperList' = list
      /\ list # << >> =>
            /\ list[1] <= list[Len(list)]
            /\ Len(list) <= total[list[Len(list)]] - total[list[1] - 1]
  BY <1>1, Keeps
<1>3. /\ CollectedOfEpoch'
      /\ \A h : InList(SuperList', h) <=> InList(base, h) \/ (h = f /\ Frames[f].obs > 0)
  BY <1>1, <1>2, Joins
<1> HIDE DEF list
<1>4. CollectedFits(total)'
  BY <1>2 DEF CollectedFits
<1>5. LatestCollected'
  <2> SUFFICES ASSUME NEW g \in Ids, Latest(g)' PROVE InList(SuperList', g)
    BY DEF LatestCollected
  <2>1. CASE g = f
    BY <1>3, <2>1 DEF Latest
  <2>2. CASE g # f
    BY <1>1, <1>3, <2>2, LatestBefore
  <2> QED
    BY <2>1, <2>2
<1>6. LastWhole'
  <2>1. SuperList \in Seq(Ids)
    BY <1>1 DEF OrderInv, TypeOK
  <2> QED
    BY <1>1, <2>1, KeepsWhole
<1> QED
  BY <1>3, <1>4, <1>5, <1>6 DEF EpochInv

LEMMA FirstOfEpochEpochs ==
    ASSUME NEW total, EpochsAscend, WithinLimit(total), EpochInv(total), OrderInv',
           NEW f \in Ids, FirstOfEpoch(f)
    PROVE  EpochInv(total)'
<1>1. /\ Decoding(f) /\ Frames[f].kind = "msm" /\ Frames[f].more
      /\ SuperList # << >>
      /\ Frames[f].time # Frames[SuperList[1]].time
      /\ SuperList' = Limited(Observations(f))
      /\ obsListList' = Append(obsListList, SuperList)
  BY DEF FirstOfEpoch, MoreToCome, OfNewEpoch, EpochInv, OrderInv, TypeOK
<1>2. << >> \o Observations(f) = Observations(f)
  <2>1. Observations(f) \in Seq(Ids)
    BY InObservations
  <2> QED
    BY <2>1
<1>3. ASSUME NEW g \in Ids, InList(SuperList, g), Frames[g].time = Frames[f].time
      PROVE  FALSE
  <2>1. SuperList \in Seq(Ids)
    BY DEF EpochInv, OrderInv, TypeOK
  <2>2. PICK k \in 1 .. Len(SuperList) : SuperList[k] = g
    BY <1>3, <2>1 DEF InList
  <2> QED
    BY <1>1, <1>3, <2>2 DEF EpochInv, CollectedOfEpoch
<1> QED
  BY <1>1, <1>2, <1>3, MoreEpochs

LEMMA OfEpochEpochs ==
    ASSUME NEW total, EpochsAscend, WithinLimit(total), EpochInv(total), OrderInv',
           NEW f \in Ids, OfEpoch(f)
    PROVE  EpochInv(total)'
<1>1. /\ Decoding(f) /\ Frames[f].kind = "msm" /\ Frames[f].more
      /\ SuperList # << >> /\ Frames[f].obs > 0
            => Frames[f].time = Frames[SuperList[1]].time
      /\ SuperList' = Limited(SuperList \o Observations(f))
      /\ obsListList' = obsListList
  BY DEF OfEpoch, MoreToCome, OfNewEpoch, EpochInv, OrderInv, TypeOK
<1> QED
  BY <1>1, MoreEpochs

LEMMA NextEpochs ==
    ASSUME NEW total, EpochsAscend, WithinLimit(total), EpochInv(total), [Next]_vars
    PROVE  EpochInv(total)'
<1>1. OrderInv'
  BY NextOrder DEF EpochInv
<1>2. CASE UNCHANGED obsVars
  BY <1>1, <1>2, UnchangedEpochs
<1>3. CASE IoThread \/ GetData \/ UNCHANGED vars
  BY <1>2, <1>3 DEF IoThread, DataChunkDownloaded, LoseChunk, GetData, vars
<1>4. CASE EndOfData \/ SkipByte \/ WaitForFrame \/ FailsCRC
  BY <1>2, <1>4 DEF EndOfData, SkipByte, WaitForFrame, FailsCRC
<1>5. ASSUME NEW f \in Ids,
             \/ DecodeOther(f) \/ HoldBack(f) \/ LastMessage(f)
             \/ FirstOfEpoch(f) \/ OfEpoch(f)
      PROVE  EpochInv(total)'
  <2>1. CASE HoldBack(f)
    BY <1>2, <2>1 DEF HoldBack
  <2> QED
    BY <1>1, <1>5, <2>1, DecodeOtherEpochs, LastMessageEpochs, FirstOfEpochEpochs,
       OfEpochEpochs
<1> QED
  BY <1>3, <1>4, <1>5 DEF Next, ParseRTCM

LEMMA InitEpochs ==
    ASSUME NEW total, Init
    PROVE  EpochInv(total)
<1>1. OrderInv
  BY InitOrder
<1>2. \A f : ~IsDecoded(f)
  BY DEF Init, IsDecoded
<1>3. CollectedOfEpoch /\ CollectedFits(total)
  BY DEF Init, CollectedOfEpoch, CollectedFits
<1>4. LatestCollected /\ LastWhole
  BY <1>2 DEF LatestCollected, Latest, LastWhole
<1> QED
  BY <1>1, <1>3, <1>4 DEF EpochInv

(* For a caster that sends the messages epoch by epoch, none of more       *)
(* observations than are collected, whatever is lost of them: with the     *)
(* last message of an epoch all of it that was decoded is handed over.     *)
THEOREM EpochsAreWhole ==
    ASSUME NEW total, EpochsAscend, WithinLimit(total)
    PROVE  Spec => []EpochsWhole
<1>1. Init => EpochInv(total)
  BY InitEpochs
<1>2. EpochInv(total) /\ [Next]_vars => EpochInv(total)'
  BY NextEpochs
<1>3. EpochInv(total) => EpochsWhole
  <2> SUFFICES ASSUME EpochInv(total),
                      NEW j \in DOMAIN decoded,
                      Frames[decoded[j]].kind = "msm", ~Frames[decoded[j]].more
               PROVE  \E n \in DOMAIN obsListList : \A k \in DOMAIN decoded :
                         /\ Observes(decoded[k], Frames[decoded[j]].time)
                         /\ Frames[decoded[k]].obs > 0
                         => InList(obsListList[n], decoded[k])
    BY DEF EpochsWhole
  <2>1. \A k \in DOMAIN decoded : decoded[k] \in Ids /\ IsDecoded(decoded[k])
    BY DecodedTypes DEF EpochInv, OrderInv, IsDecoded
  <2>2. WholeFor(decoded[j])
    BY <2>1 DEF EpochInv, LastWhole
  <2>3. DOMAIN obsListList = 1 .. Len(obsListList)
    BY SuperTypes DEF EpochInv, OrderInv
  <2> QED
    BY <2>1, <2>2, <2>3 DEF WholeFor
<1> QED
  BY <1>1, <1>2, <1>3, PTL DEF Spec

------------------------------------------------------------------------------
(* Two epochs in one list.                                                 *)

(* The last message of the epoch collected is still to come, and nothing   *)
(* later was decoded.                                                      *)
CollectedIsLatest ==
    SuperList # << >> => \A h \in Ids :
        IsDecoded(h) /\ Frames[h].kind = "msm" =>
            /\ Frames[h].time <= Frames[SuperList[1]].time
            /\ Frames[h].time = Frames[SuperList[1]].time => Frames[h].more

ApartIn(list) ==
    /\ \A k \in 1 .. Len(list) : IsDecoded(list[k]) /\ Frames[list[k]].kind = "msm"
    /\ \A j, k \in 1 .. Len(list) :
          Frames[list[j]].time < Frames[list[k]].time =>
              /\ ~Frames[list[k]].more
              /\ \A h \in Ids : IsDecoded(h) =>
                    /\ Observes(h, Frames[list[j]].time) => Frames[h].more
                    /\ Observes(h, Frames[list[k]].time) => h = list[k]

ListsApart == \A n \in 1 .. Len(obsListList) : ApartIn(obsListList[n])

ApartInv == OrderInv /\ CollectedOfEpoch /\ CollectedIsLatest /\ ListsApart

LEMMA InitApart == Init => ApartInv
<1> SUFFICES ASSUME Init PROVE ApartInv
  OBVIOUS
<1>1. OrderInv
  BY InitOrder
<1> QED
  BY <1>1 DEF Init, ApartInv, CollectedOfEpoch, CollectedIsLatest, ListsApart

LEMMA UnchangedApart ==
    ASSUME ApartInv, OrderInv', UNCHANGED obsVars
    PROVE  ApartInv'
<1>1. /\ SuperList' = SuperList /\ obsListList' = obsListList
      /\ \A f : IsDecoded(f)' <=> IsDecoded(f)
  BY DEF obsVars, IsDecoded
<1>2. CollectedOfEpoch'
  BY <1>1 DEF ApartInv, CollectedOfEpoch
<1>3. CollectedIsLatest'
  BY <1>1 DEF ApartInv, CollectedIsLatest
<1>4. \A list : ApartIn(list) => ApartIn(list)'
  BY <1>1 DEF ApartIn
<1>5. ListsApart'
  BY <1>1, <1>4 DEF ApartInv, ListsApart
<1> QED
  BY <1>2, <1>3, <1>5 DEF ApartInv

(* A list stays apart when more is decoded.                                *)
LEMMA StaysApart ==
    ASSUME EpochsAscend, OrderInv, OrderInv', NEW f \in Ids, Decoding(f),
           NEW list \in Seq(Ids), ApartIn(list)
    PROVE  ApartIn(list)'
<1>1. /\ \A h : IsDecoded(h)' <=> IsDecoded(h) \/ h = f
      /\ \A k \in 1 .. Len(list) : list[k] \in Ids
  BY NewFrame, ElementType
<1>2. \A k \in 1 .. Len(list) : IsDecoded(list[k])' /\ Frames[list[k]].kind = "msm"
  BY <1>1 DEF ApartIn
<1>3. ASSUME NEW j \in 1 .. Len(list), NEW k \in 1 .. Len(list),
             Frames[list[j]].time < Frames[list[k]].time,
             NEW h \in Ids, IsDecoded(h)'
      PROVE  /\ ~Frames[list[k]].more
             /\ Observes(h, Frames[list[j]].time) => Frames[h].more
             /\ Observes(h, Frames[list[k]].time) => h = list[k]
  <2>1. CASE IsDecoded(h)
    BY <1>3, <2>1 DEF ApartIn
  <2>2. CASE h = f /\ Frames[f].kind = "msm"
    <3>1. ~Frames[list[k]].more /\ IsDecoded(list[k]) /\ Frames[list[k]].kind = "msm"
      BY <1>3 DEF ApartIn
    <3>2. Frames[list[k]].time < Frames[f].time
      <4>1. \A i \in Ids : IsDecoded(i) /\ Frames[i].kind = "msm" /\ ~Frames[i].more
                => Frames[i].time < Frames[f].time
        BY <2>2, LaterFrame
      <4> QED
        BY <1>1, <3>1, <4>1
    <3>3. Frames[f].time # Frames[list[k]].time /\ Frames[f].time # Frames[list[j]].time
      <4>1. /\ Frames[f].time \in Nat
            /\ Frames[list[j]].time \in Nat
            /\ Frames[list[k]].time \in Nat
        BY <1>1, FrameValues
      <4> QED
        BY <1>3, <3>2, <4>1
    <3> QED
      BY <2>2, <3>1, <3>3 DEF Observes
  <2>3. CASE h = f /\ Frames[f].kind # "msm"
    BY <1>3, <2>3 DEF ApartIn, Observes
  <2> QED
    BY <1>1, <1>3, <2>1, <2>2, <2>3
<1> QED
  BY <1>1, <1>2, <1>3 DEF ApartIn

LEMMA AppendsApart ==
    ASSUME EpochsAscend, OrderInv, OrderInv', ListsApart, NEW f \in Ids, Decoding(f),
           NEW list \in Seq(Ids),
           obsListList' = obsListList \/ obsListList' = Append(obsListList, list),
           obsListList' = Append(obsListList, list) => ApartIn(list)'
    PROVE  ListsApart'
<1>1. obsListList \in Seq(Seq(Ids))
  BY DEF OrderInv, TypeOK
<1>2. \A l \in Seq(Ids) : ApartIn(l) => ApartIn(l)'
  BY StaysApart
<1>3. \A n \in 1 .. Len(obsListList) : obsListList[n] \in Seq(Ids) /\ ApartIn(obsListList[n])
  BY <1>1, ElementType DEF ListsApart
<1>4. ASSUME NEW n \in 1 .. Len(obsListList'), NEW l, l = obsListList'[n]
      PROVE  ApartIn(l)'
  <2>1. CASE n \in 1 .. Len(obsListList)
    <3>1. l = obsListList[n]
      <4>1. \A m \in 1 .. Len(obsListList) :
                Append(obsListList, list)[m] = obsListList[m]
        BY <1>1
      <4> QED
        BY <1>4, <2>1, <4>1
    <3> QED
      BY <1>2, <1>3, <2>1, <3>1
  <2>2. CASE n \notin 1 .. Len(obsListList)
    <3>1. l = list /\ obsListList' = Append(obsListList, list)
      BY <1>1, <1>4, <2>2
    <3> QED
      BY <3>1
  <2> QED
    BY <2>1, <2>2
<1> QED
  BY <1>4, Zenon DEF ListsApart, ApartIn

LEMMA DecodeOtherApart ==
    ASSUME EpochsAscend, ApartInv, OrderInv', NEW f \in Ids, DecodeOther(f)
    PROVE  ApartInv'
<1>1. /\ SuperList' = SuperList /\ obsListList' = obsListList
      /\ Decoding(f) /\ Frames[f].kind # "msm"
      /\ OrderInv /\ ListsApart
  BY DEF DecodeOther, ApartInv
<1>2. \A h : IsDecoded(h)' <=> IsDecoded(h) \/ h = f
  BY <1>1, NewFrame
<1>3. CollectedOfEpoch'
  BY <1>1, <1>2 DEF ApartInv, CollectedOfEpoch
<1>4. CollectedIsLatest'
  BY <1>1, <1>2 DEF ApartInv, CollectedIsLatest
<1>5. ListsApart'
  <2>1. SuperList \in Seq(Ids) /\ obsListList' # Append(obsListList, SuperList)
    <3>1. SuperList \in Seq(Ids) /\ obsListList \in Seq(Seq(Ids))
      BY <1>1 DEF OrderInv, TypeOK
    <3>2. Len(Append(obsListList, SuperList)) = Len(obsListList) + 1
          /\ Len(obsListList) \in Nat
      BY <3>1
    <3> QED
      BY <1>1, <3>1, <3>2
  <2> QED
    BY <1>1, <2>1, AppendsApart
<1> QED
  BY <1>3, <1>4, <1>5 DEF ApartInv

LEMMA LastMessageApart ==
    ASSUME EpochsAscend, ApartInv, OrderInv', NEW f \in Ids, LastMessage(f)
    PROVE  ApartInv'
<1> SUFFICES ASSUME NEW list, list = SuperList \o Observations(f)
             PROVE  ApartInv'
  BY Zenon
<1>1. /\ Decoding(f) /\ Frames[f].kind = "msm" /\ ~Frames[f].more
      /\ SuperList' = << >>
      /\ obsListList' = Append(obsListList, list)
      /\ OrderInv /\ ListsApart
  BY DEF LastMessage, ApartInv
<1>2. /\ \A h : IsDecoded(h)' <=> IsDecoded(h) \/ h = f
      /\ \A h \in Ids :
            IsDecoded(h) /\ Frames[h].kind = "msm" => Frames[h].time <= Frames[f].time
  BY <1>1, NewFrame, LaterFrame
<1>3. /\ SuperList \in Seq(Ids)
      /\ Observations(f) \in Seq(Ids)
      /\ list \in Seq(Ids)
  BY <1>1, InObservations DEF OrderInv, TypeOK
<1>4. \A h : InList(list, h) => InList(SuperList, h) \/ h = f
  BY <1>3, InConcat, InObservations
<1>5. \A h : InList(SuperList, h) =>
          /\ h \in Ids /\ IsDecoded(h) /\ Frames[h].kind = "msm"
          /\ SuperList # << >>
          /\ Frames[h].time = Frames[SuperList[1]].time
  BY <1>3 DEF InList, ApartInv, CollectedOfEpoch
<1>6. \A k \in 1 .. Len(list) : InList(list, list[k]) /\ list[k] \in Ids
  <2>1. DOMAIN list = 1 .. Len(list)
    BY <1>3
  <2> QED
    BY <1>3, <2>1, ElementType, Zenon DEF InList
<1>7. \A k \in 1 .. Len(list) : IsDecoded(list[k])' /\ Frames[list[k]].kind = "msm"
  BY <1>1, <1>2, <1>4, <1>5, <1>6
<1>8. ASSUME NEW a \in Ids, InList(list, a), NEW b \in Ids, InList(list, b),
             Frames[a].time < Frames[b].time
      PROVE  /\ ~Frames[b].more
             /\ \A h \in Ids : IsDecoded(h)' =>
                   /\ Observes(h, Frames[a].time) => Frames[h].more
                   /\ Observes(h, Frames[b].time) => h = b
  <2>1. InList(SuperList, a) /\ b = f
    <3>1. Frames[a].time \in Nat /\ Frames[b].time \in Nat
      BY FrameValues
    <3>2. CASE a = f /\ b = f
      BY <1>8, <3>1, <3>2
    <3>3. CASE InList(SuperList, b) /\ a = f
      BY <1>2, <1>5, <1>8, <3>1, <3>3
    <3>4. CASE InList(SuperList, a) /\ InList(SuperList, b)
      BY <1>5, <1>8, <3>1, <3>4
    <3> QED
      BY <1>4, <1>8, <3>2, <3>3, <3>4
  <2>2. /\ SuperList # << >>
        /\ Frames[a].time = Frames[SuperList[1]].time
    BY <1>5, <2>1
  <2>3. \A h \in Ids : IsDecoded(h) /\ Frames[h].kind = "msm" =>
            /\ Frames[h].time <= Frames[a].time
            /\ Frames[h].time = Frames[a].time => Frames[h].more
    BY <2>2 DEF ApartInv, CollectedIsLatest
  <2>4. ASSUME NEW h \in Ids, IsDecoded(h)'
        PROVE  /\ Observes(h, Frames[a].time) => Frames[h].more
               /\ Observes(h, Frames[b].time) => h = b
    <3>0. /\ Frames[a].time \in Nat /\ Frames[b].time \in Nat
          /\ Frames[h].time \in Nat
      BY FrameValues
    <3>1. CASE h = f
      BY <1>8, <2>1, <3>0, <3>1 DEF Observes
    <3>2. CASE IsDecoded(h)
      BY <1>8, <2>3, <3>0, <3>2 DEF Observes
    <3> QED
      BY <1>2, <2>4, <3>1, <3>2
  <2> QED
    BY <1>1, <2>1, <2>4
<1>9. ApartIn(list)'
  <2>1. \A j, k \in 1 .. Len(list) :
          Frames[list[j]].time < Frames[list[k]].time =>
              /\ ~Frames[list[k]].more
              /\ \A h \in Ids : IsDecoded(h)' =>
                    /\ Observes(h, Frames[list[j]].time) => Frames[h].more
                    /\ Observes(h, Frames[list[k]].time) => h = list[k]
    BY <1>6, <1>8, Zenon
  <2> QED
    BY <1>7, <2>1, Zenon DEF ApartIn, Observes
<1>10. ListsApart'
  BY <1>1, <1>3, <1>9, AppendsApart
<1>11. CollectedOfEpoch' /\ CollectedIsLatest'
  BY <1>1 DEF CollectedOfEpoch, CollectedIsLatest
<1> QED
  BY <1>10, <1>11 DEF ApartInv

LEMMA MoreApart ==
    ASSUME EpochsAscend, NoneEmpty, ApartInv, OrderInv',
           NEW f \in Ids, Decoding(f), Frames[f].kind = "msm", Frames[f].more,
           NEW base, base = SuperList \/ base = << >>,
           base # << >> => Frames[f].time = Frames[base[1]].time,
           SuperList' = Limited(base \o Observations(f)),
           obsListList' = obsListList \/ obsListList' = Append(obsListList, SuperList)
    PROVE  ApartInv'
<1>1. OrderInv /\ CollectedOfEpoch /\ ListsApart
  BY DEF ApartInv
<1>2. /\ \A h : IsDecoded(h)' <=> IsDecoded(h) \/ h = f
      /\ \A h \in Ids :
            IsDecoded(h) /\ Frames[h].kind = "msm" =>
                /\ Frames[h].time <= Frames[f].time
                /\ ~Frames[h].more => Frames[h].time < Frames[f].time
  BY <1>1, NewFrame, LaterFrame
<1>3. ListsApart'
  <2> SUFFICES ASSUME NEW list, list = SuperList PROVE ListsApart'
    BY Zenon
  <2>1. /\ list \in Seq(Ids) /\ Len(list) \in Nat
        /\ \A k \in 1 .. Len(list) : list[k] \in Ids
    BY <1>1, SuperTypes DEF OrderInv
  <2>2. \A k \in 1 .. Len(list) :
            /\ IsDecoded(list[k]) /\ Frames[list[k]].kind = "msm"
            /\ Frames[list[k]].time = Frames[list[1]].time
    BY <1>1 DEF CollectedOfEpoch
  <2>3. \A k \in 1 .. Len(list) :
            /\ IsDecoded(list[k])' /\ Frames[list[k]].kind = "msm"
            /\ Frames[list[k]].time = Frames[list[1]].time
            /\ Frames[list[k]].time \in Nat
    BY <1>2, <2>1, <2>2, FrameValues
  <2>4. \A j, k \in 1 .. Len(list) : ~(Frames[list[j]].time < Frames[list[k]].time)
    <3>1. \A i \in Nat : ~(i < i)
      OBVIOUS
    <3> QED
      BY <2>3, <3>1
  <2>5. ApartIn(list)'
    BY <2>3, <2>4, Zenon DEF ApartIn
  <2> QED
    BY <1>1, <2>1, <2>5, AppendsApart
<1>4. CASE SuperList' = << >>
  <2>1. CollectedOfEpoch' /\ CollectedIsLatest'
    BY <1>4 DEF CollectedOfEpoch, CollectedIsLatest
  <2> QED
    BY <1>3, <2>1 DEF ApartInv
<1>5. CASE SuperList' = base \o Observations(f)
  <2>1. /\ CollectedOfEpoch'
        /\ base \in Seq(Ids)
        /\ Len(SuperList') = Len(base) + Frames[f].obs
        /\ \A k \in 1 .. Len(base) : SuperList'[k] = base[k]
        /\ \A k \in 1 .. Len(SuperList') : k \in 1 .. Len(base) \/ SuperList'[k] = f
    BY <1>1, <1>5, Joins
  <2>2. Len(base) \in Nat /\ Frames[f].obs \in Nat /\ Frames[f].obs > 0
    BY <2>1, FrameValues DEF NoneEmpty
  <2>3. Frames[SuperList'[1]].time = Frames[f].time
    <3>1. CASE base = << >>
      <4>1. Len(base) = 0 /\ 1 \in 1 .. Len(SuperList') /\ 1 \notin 1 .. Len(base)
        BY <2>1, <2>2, <3>1
      <4> QED
        BY <2>1, <4>1
    <3>2. CASE base # << >>
      <4>1. 1 \in 1 .. Len(base)
        BY <2>1, <3>2
      <4> QED
        BY <2>1, <3>2, <4>1
    <3> QED
      BY <3>1, <3>2
  <2>4. ASSUME NEW h \in Ids, IsDecoded(h)', Frames[h].kind = "msm"
        PROVE  /\ Frames[h].time <= Frames[f].time
               /\ Frames[h].time = Frames[f].time => Frames[h].more
    <3>1. Frames[h].time \in Nat /\ Frames[f].time \in Nat
      BY FrameValues
    <3>2. CASE h = f
      BY <3>1, <3>2
    <3>3. CASE IsDecoded(h)
      BY <1>2, <2>4, <3>1, <3>3
    <3> QED
      BY <1>2, <2>4, <3>2, <3>3
  <2>5. CollectedIsLatest'
    BY <2>3, <2>4, Zenon DEF CollectedIsLatest
  <2> QED
    BY <1>3, <2>1, <2>5 DEF ApartInv
<1> QED
  BY <1>4, <1>5 DEF Limited

LEMMA NextApart ==
    ASSUME EpochsAscend, NoneEmpty, ApartInv, [Next]_vars
    PROVE  ApartInv'
<1>1. OrderInv'
  BY NextOrder DEF ApartInv
<1>2. CASE UNCHANGED obsVars
  BY <1>1, <1>2, UnchangedApart
<1>3. CASE IoThread \/ GetData \/ UNCHANGED vars
  BY <1>2, <1>3 DEF IoThread, DataChunkDownloaded, LoseChunk, GetData, vars
<1>4. CASE EndOfData \/ SkipByte \/ WaitForFrame \/ FailsCRC
  BY <1>2, <1>4 DEF EndOfData, SkipByte, WaitForFrame, FailsCRC
<1>5. ASSUME NEW f \in Ids, FirstOfEpoch(f)
      PROVE  ApartInv'
  <2>1. << >> \o Observations(f) = Observations(f)
    <3>1. Observations(f) \in Seq(Ids)
      BY InObservations
    <3> QED
      BY <3>1
  <2>2. /\ Decoding(f) /\ Frames[f].kind = "msm" /\ Frames[f].more
        /\ SuperList' = Limited(<< >> \o Observations(f))
        /\ obsListList' = Append(obsListList, SuperList)
    BY <1>5, <2>1 DEF FirstOfEpoch, MoreToCome
  <2> QED
    BY <1>1, <2>2, MoreApart
<1>6. ASSUME NEW f \in Ids, OfEpoch(f)
      PROVE  ApartInv'
  <2>1. /\ Decoding(f) /\ Frames[f].kind = "msm" /\ Frames[f].more
        /\ SuperList' = Limited(SuperList \o Observations(f))
        /\ obsListList' = obsListList
    BY <1>6 DEF OfEpoch, MoreToCome
  <2>2. SuperList # << >> => Frames[f].time = Frames[SuperList[1]].time
    BY <1>6, <2>1 DEF OfEpoch, OfNewEpoch, NoneEmpty
  <2> QED
    BY <1>1, <2>1, <2>2, MoreApart
<1>7. ASSUME NEW f \in Ids, DecodeOther(f) \/ HoldBack(f) \/ LastMessage(f)
      PROVE  ApartInv'
  <2>1. CASE HoldBack(f)
    BY <1>2, <2>1 DEF HoldBack
  <2> QED
    BY <1>1, <1>7, <2>1, DecodeOtherApart, LastMessageApart
<1> QED
  BY <1>3, <1>4, <1>5, <1>6, <1>7 DEF Next, ParseRTCM

(* For a caster that sends the messages epoch by epoch, none of them empty: *)
(* observations of two epochs come into one list only when the former's    *)
(* last message was lost and the latter has nothing but its last.          *)
THEOREM EpochsKeptApart ==
    ASSUME EpochsAscend, NoneEmpty
    PROVE  Spec => []EpochsApart
<1>1. ApartInv /\ [Next]_vars => ApartInv'
  BY NextApart
<1>2. ApartInv => EpochsApart
  <2> SUFFICES ASSUME ApartInv, NEW n \in DOMAIN obsListList PROVE
                 \A j, k \in DOMAIN obsListList[n] :
                     Frames[obsListList[n][j]].time < Frames[obsListList[n][k]].time =>
                         \A h \in Ids : IsDecoded(h) =>
                            /\ Observes(h, Frames[obsListList[n][j]].time) => Frames[h].more
                            /\ Observes(h, Frames[obsListList[n][k]].time)
                                   => h = obsListList[n][k]
    BY DEF EpochsApart
  <2>1. obsListList \in Seq(Seq(Ids))
    BY DEF ApartInv, OrderInv, TypeOK
  <2>2. /\ n \in 1 .. Len(obsListList)
        /\ DOMAIN obsListList[n] = 1 .. Len(obsListList[n])
    BY <2>1
  <2> QED
    BY <2>2 DEF ApartInv, ListsApart, ApartIn
<1> QED
  BY InitApart, <1>1, <1>2, PTL DEF Spec
=============================================================================
