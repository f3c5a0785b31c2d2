---------------------------- MODULE SyncFileProofs ----------------------------
(***************************************************************************)
(* Proofs about SyncFile, for any number of epochs, any offset, any epochs *)
(* without observations, and any number of starts of the network.          *)
(***************************************************************************)
EXTENDS SyncFile, TLAPS

USE ConstantsAssumption DEF ConstantsAssumption

(* The epochs that are still to come are within the inputs, and the user   *)
(* counts an epoch before it waits.                                        *)
WithinInputs ==
    /\ networkPc # "done" => networkEpoch <= NetworkInputs
    /\ userPc = "loop" => userEpoch <= UserInputs
    /\ userPc # "loop" => userEpoch > 0

(* The number in sync.tmp was written by the network.                      *)
NumberExported == syncFile # 0 => syncFile \in exported

(* Behind its wait the user is not ahead of the network.                   *)
WaitIsOver ==
    userPc = "decode" => \E n \in exported : n >= userEpoch + Offset

(* A network that was not started again is past the numbers it exported,   *)
(* and only the file it has open is empty.                                 *)
NumbersAscend ==
    starts = 1 => \A n \in exported :
        /\ n <= networkEpoch
        /\ networkPc \in {"encode", "close", "export", "number"}
               => n < networkEpoch

OneFileOpen ==
    starts = 1 => \A e \in NetworkEpochs :
        rtcmFile[e] = "emptied" => networkPc = "close" /\ e = networkEpoch

IInv ==
    /\ TypeOK
    /\ WithinInputs
    /\ NumberExported
    /\ WaitIsOver
    /\ NumbersAscend
    /\ OneFileOpen
    /\ UserFollowsNetwork
    /\ UserMissesNothing

------------------------------------------------------------------------------
LEMMA EpochsAreNaturals ==
    /\ NetworkEpochs \subseteq Nat
    /\ UserEpochs \subseteq Nat
    /\ 0 \in NetworkEpochs
    /\ 0 \in UserEpochs
  BY SMT DEF NetworkEpochs, UserEpochs

LEMMA InitInv == Init => IInv
<1> SUFFICES ASSUME Init PROVE IInv
  OBVIOUS
<1>1. TypeOK
  <2>1. /\ rtcmFile \in [NetworkEpochs -> Contents]
        /\ decoded \in [UserEpochs -> Contents \cup {"none"}]
    BY DEF Init, Contents
  <2>2. starts \in 1 .. MaxStarts
    BY DEF Init
  <2> QED
    BY <2>1, <2>2, EpochsAreNaturals DEF Init, TypeOK
<1>2. WithinInputs /\ NumberExported /\ WaitIsOver
  BY DEF Init, WithinInputs, NumberExported, WaitIsOver
<1>3. NumbersAscend /\ OneFileOpen
  BY DEF Init, NumbersAscend, OneFileOpen
<1>4. UserFollowsNetwork /\ UserMissesNothing
  BY DEF Init, UserFollowsNetwork, UserMissesNothing
<1> QED
  BY <1>1, <1>2, <1>3, <1>4 DEF IInv

(* What the network does leaves the user alone, exports nothing away, and  *)
(* as long as it was not started again leaves the files alone that the     *)
(* user has decoded: their numbers are behind it.                          *)
LEMMA FilesBehindStay ==
    ASSUME IInv,
           NEW e \in UserEpochs,
           decoded[e] # "none",
           starts = 1,
           OpenRtcmFile \/ CloseRtcmFile
    PROVE  FileOf(e + Offset)' = FileOf(e + Offset)
<1>1. PICK n \in exported : n >= e + Offset
  BY DEF IInv, UserFollowsNetwork
<1>2. n < networkEpoch
  BY DEF IInv, NumbersAscend, OpenRtcmFile, CloseRtcmFile
<1>3. e + Offset # networkEpoch
  <2>1. e \in Nat /\ n \in Nat /\ networkEpoch \in Nat
    BY EpochsAreNaturals DEF IInv, TypeOK
  <2> QED
    BY <1>1, <1>2, <2>1
<1>4. rtcmFile' = [rtcmFile EXCEPT ![networkEpoch] = rtcmFile'[networkEpoch]]
  BY DEF IInv, TypeOK, OpenRtcmFile, CloseRtcmFile
<1> QED
  BY <1>3, <1>4 DEF FileOf, IInv, TypeOK

------------------------------------------------------------------------------
(* Types.                                                                  *)
LEMMA TypeNext ==
    TypeOK /\ WithinInputs /\ [Next]_vars => TypeOK' /\ WithinInputs'
<1> SUFFICES ASSUME TypeOK, WithinInputs, [Next]_vars
             PROVE  TypeOK' /\ WithinInputs'
  OBVIOUS
<1> USE EpochsAreNaturals DEF TypeOK, WithinInputs
<1>1. ASSUME NEW loopEpochs \in 1 .. 1 + MaxExcess, NetworkLoop(loopEpochs)
      PROVE  TypeOK' /\ WithinInputs'
  <2>1. networkEpoch' \in NetworkEpochs
    BY <1>1 DEF NetworkLoop, NetworkEpochs
  <2>2. /\ networkPc' \in {"start", "encode", "done"}
        /\ networkPc' # "done" => networkEpoch' <= NetworkInputs
    <3>1. CASE networkEpoch' > NetworkInputs
      BY <1>1, <3>1 DEF NetworkLoop
    <3>2. CASE ~(networkEpoch' > NetworkInputs)
      BY <1>1, <2>1, <3>2 DEF NetworkLoop
    <3> QED
      BY <3>1, <3>2
  <2> QED
    BY <1>1, <2>1, <2>2 DEF NetworkLoop, files, userVars
<1>2. CASE OpenRtcmFile
  BY <1>2 DEF OpenRtcmFile, userVars, Contents
<1>3. CASE OpenRtcmFails
  BY <1>3 DEF OpenRtcmFails, files, userVars
<1>4. CASE CloseRtcmFile
  BY <1>4 DEF CloseRtcmFile, userVars, Contents
<1>5. CASE OpenSyncFile
  BY <1>5 DEF OpenSyncFile, userVars
<1>6. CASE OpenSyncFails
  BY <1>6 DEF OpenSyncFails, AfterEpoch, userVars
<1>7. CASE WriteSyncFile
  BY <1>7 DEF WriteSyncFile, EpochNum, AfterEpoch, userVars
<1>8. CASE Kill
  BY <1>8 DEF Kill, files, userVars
<1>9. ASSUME NEW loopEpochs \in 1 .. 1 + MaxExcess, UserLoop(loopEpochs)
      PROVE  TypeOK' /\ WithinInputs'
  <2>1. userEpoch' \in UserEpochs /\ userEpoch' > 0
    BY <1>9 DEF UserLoop, UserEpochs
  <2> QED
    BY <1>9, <2>1 DEF UserLoop, files, networkVars
<1>10. CASE WaitForSyncFile
  BY <1>10 DEF WaitForSyncFile, files, networkVars
<1>11. CASE RtcmDecodeFromFile
  <2>1. decoded' \in [UserEpochs -> Contents \cup {"none"}]
    BY <1>11 DEF RtcmDecodeFromFile, FileOf, Contents
  <2>2. /\ userPc' \in {"loop", "done"}
        /\ userPc' = "loop" => userEpoch <= UserInputs
    BY <1>11 DEF RtcmDecodeFromFile, UserEnds
  <2> QED
    BY <1>11, <2>1, <2>2 DEF RtcmDecodeFromFile, files, networkVars
<1>12. CASE UNCHANGED vars
  BY <1>12 DEF vars, files, networkVars, userVars
<1> QED
  BY <1>1, <1>2, <1>3, <1>4, <1>5, <1>6, <1>7, <1>8, <1>9, <1>10, <1>11,
     <1>12 DEF Next, Network, User

------------------------------------------------------------------------------
(* The steps.                                                              *)
SafetyInv ==
    /\ NumberExported
    /\ WaitIsOver
    /\ NumbersAscend
    /\ OneFileOpen
    /\ UserFollowsNetwork
    /\ UserMissesNothing

(* The turn of the network's loop goes past every number exported.         *)
LEMMA NetworkLoopNext ==
    ASSUME IInv, NEW loopEpochs \in 1 .. 1 + MaxExcess, NetworkLoop(loopEpochs)
    PROVE  SafetyInv'
<1> USE DEF NetworkLoop, files, userVars
<1>1. networkEpoch' > networkEpoch /\ networkEpoch \in Nat
  BY EpochsAreNaturals DEF IInv, TypeOK
<1>2. NumbersAscend'
  <2> SUFFICES ASSUME starts = 1, NEW n \in exported
               PROVE  n < networkEpoch'
    BY <1>1 DEF NumbersAscend, IInv, TypeOK
  <2> QED
    BY <1>1 DEF IInv, NumbersAscend, TypeOK
<1>3. OneFileOpen'
  BY DEF IInv, OneFileOpen
<1>4. NumberExported' /\ WaitIsOver' /\ UserFollowsNetwork'
  BY DEF IInv, NumberExported, WaitIsOver, UserFollowsNetwork
<1>5. UserMissesNothing'
  BY DEF IInv, UserMissesNothing, FileOf
<1> QED
  BY <1>2, <1>3, <1>4, <1>5 DEF SafetyInv

LEMMA RtcmFileNext ==
    IInv /\ (OpenRtcmFile \/ CloseRtcmFile) => SafetyInv'
<1> SUFFICES ASSUME IInv, OpenRtcmFile \/ CloseRtcmFile
             PROVE  SafetyInv'
  OBVIOUS
<1> USE DEF OpenRtcmFile, CloseRtcmFile, userVars
<1>1. NumbersAscend'
  BY DEF IInv, NumbersAscend
<1>2. OneFileOpen'
  BY DEF IInv, OneFileOpen, TypeOK
<1>3. NumberExported' /\ WaitIsOver' /\ UserFollowsNetwork'
  BY DEF IInv, NumberExported, WaitIsOver, UserFollowsNetwork
<1>4. UserMissesNothing'
  <2> SUFFICES ASSUME starts = 1, NEW e \in UserEpochs, decoded[e] # "none"
               PROVE  /\ decoded[e] # "emptied"
                      /\ decoded[e] = FileOf(e + Offset)'
    BY DEF UserMissesNothing
  <2>1. FileOf(e + Offset)' = FileOf(e + Offset)
    BY FilesBehindStay
  <2> QED
    BY <2>1 DEF IInv, UserMissesNothing
<1> QED
  BY <1>1, <1>2, <1>3, <1>4 DEF SafetyInv

(* The steps of the network that leave the corrections alone.              *)
LEMMA ExportNext ==
    IInv /\ (OpenRtcmFails \/ OpenSyncFile \/ OpenSyncFails) => SafetyInv'
<1> SUFFICES ASSUME IInv, OpenRtcmFails \/ OpenSyncFile \/ OpenSyncFails
             PROVE  SafetyInv'
  OBVIOUS
<1> USE DEF OpenRtcmFails, OpenSyncFile, OpenSyncFails, files, userVars
<1>1. NumbersAscend'
  BY DEF IInv, NumbersAscend, AfterEpoch
<1>2. OneFileOpen'
  BY DEF IInv, OneFileOpen
<1>3. NumberExported' /\ WaitIsOver' /\ UserFollowsNetwork'
  BY DEF IInv, NumberExported, WaitIsOver, UserFollowsNetwork
<1>4. UserMissesNothing'
  BY DEF IInv, UserMissesNothing, FileOf
<1> QED
  BY <1>1, <1>2, <1>3, <1>4 DEF SafetyInv

LEMMA WriteSyncFileNext == IInv /\ WriteSyncFile => SafetyInv'
<1> SUFFICES ASSUME IInv, WriteSyncFile PROVE SafetyInv'
  OBVIOUS
<1> USE DEF WriteSyncFile, EpochNum, userVars
<1>1. exported' = exported \cup {networkEpoch}
  OBVIOUS
<1>2. NumbersAscend'
  <2>1. networkPc' \in {"loop", "done"} /\ networkEpoch \in Nat
    BY EpochsAreNaturals DEF AfterEpoch, IInv, TypeOK
  <2> QED
    BY <1>1, <2>1 DEF IInv, NumbersAscend
<1>3. OneFileOpen'
  BY DEF IInv, OneFileOpen
<1>4. NumberExported' /\ WaitIsOver' /\ UserFollowsNetwork'
  BY <1>1 DEF IInv, NumberExported, WaitIsOver, UserFollowsNetwork
<1>5. UserMissesNothing'
  BY DEF IInv, UserMissesNothing, FileOf
<1> QED
  BY <1>2, <1>3, <1>4, <1>5 DEF SafetyInv

LEMMA KillNext == IInv /\ Kill => SafetyInv'
<1> SUFFICES ASSUME IInv, Kill PROVE SafetyInv'
  OBVIOUS
<1> USE DEF Kill, files, userVars
<1>1. starts' # 1
  BY DEF IInv, TypeOK
<1>2. NumberExported' /\ WaitIsOver' /\ UserFollowsNetwork'
  BY DEF IInv, NumberExported, WaitIsOver, UserFollowsNetwork
<1> QED
  BY <1>1, <1>2 DEF SafetyInv, NumbersAscend, OneFileOpen, UserMissesNothing

LEMMA UserWaits ==
    ASSUME IInv,
           WaitForSyncFile \/
               \E loopEpochs \in 1 .. 1 + MaxExcess : UserLoop(loopEpochs)
    PROVE  SafetyInv'
<1> USE DEF UserLoop, WaitForSyncFile, files, networkVars
<1>1. WaitIsOver'
  <2> SUFFICES ASSUME WaitForSyncFile
               PROVE  \E n \in exported : n >= userEpoch + Offset
    BY DEF WaitIsOver
  <2>1. syncFile >= userEpoch + Offset
    BY DEF Reached
  <2>2. syncFile # 0
    BY <2>1, EpochsAreNaturals DEF IInv, TypeOK, WithinInputs
  <2> QED
    BY <2>1, <2>2 DEF IInv, NumberExported
<1>2. NumbersAscend' /\ OneFileOpen' /\ NumberExported'
  BY DEF IInv, NumbersAscend, OneFileOpen, NumberExported
<1>3. UserFollowsNetwork' /\ UserMissesNothing'
  BY DEF IInv, UserFollowsNetwork, UserMissesNothing, FileOf
<1> QED
  BY <1>1, <1>2, <1>3 DEF SafetyInv

(* Decoding: the number the user has seen is larger, so its file is not    *)
(* open now.                                                               *)
LEMMA DecodeNext == IInv /\ RtcmDecodeFromFile => SafetyInv'
<1> SUFFICES ASSUME IInv, RtcmDecodeFromFile PROVE SafetyInv'
  OBVIOUS
<1> USE DEF RtcmDecodeFromFile, files, networkVars
<1>1. PICK n \in exported : n >= userEpoch + Offset
  BY DEF IInv, WaitIsOver
<1>2. \A e \in UserEpochs :
          decoded'[e] = IF e = userEpoch THEN FileOf(userEpoch + Offset)
                                         ELSE decoded[e]
  BY DEF IInv, TypeOK
<1>3. NumbersAscend' /\ OneFileOpen' /\ NumberExported' /\ WaitIsOver'
  BY DEF IInv, NumbersAscend, OneFileOpen, NumberExported, WaitIsOver
<1>4. UserFollowsNetwork'
  BY <1>1, <1>2 DEF IInv, UserFollowsNetwork
<1>5. UserMissesNothing'
  <2> SUFFICES ASSUME starts = 1, NEW e \in UserEpochs, decoded'[e] # "none"
               PROVE  decoded'[e] # "emptied" /\ decoded'[e] = FileOf(e + Offset)
    BY DEF UserMissesNothing, FileOf
  <2>1. CASE e # userEpoch
    BY <1>2, <2>1 DEF IInv, UserMissesNothing
  <2>2. CASE e = userEpoch
    <3>1. FileOf(e + Offset) # "emptied"
      <4> SUFFICES ASSUME e + Offset \in NetworkEpochs,
                          rtcmFile[e + Offset] = "emptied"
                   PROVE  FALSE
        BY DEF FileOf
      <4>1. networkPc = "close" /\ e + Offset = networkEpoch
        BY DEF IInv, OneFileOpen
      <4>2. n < networkEpoch
        BY <4>1 DEF IInv, NumbersAscend
      <4>3. n \in Nat /\ networkEpoch \in Nat
        BY EpochsAreNaturals DEF IInv, TypeOK
      <4> QED
        BY <1>1, <2>2, <4>1, <4>2, <4>3
    <3> QED
      BY <1>2, <2>2, <3>1
  <2> QED
    BY <2>1, <2>2
<1> QED
  BY <1>3, <1>4, <1>5 DEF SafetyInv

LEMMA StutterNext == IInv /\ UNCHANGED vars => SafetyInv'
  BY DEF IInv, SafetyInv, vars, files, networkVars, userVars, NumberExported,
         WaitIsOver, NumbersAscend, OneFileOpen, UserFollowsNetwork,
         UserMissesNothing, FileOf

LEMMA NextInv == IInv /\ [Next]_vars => IInv'
<1> SUFFICES ASSUME IInv, [Next]_vars PROVE IInv'
  OBVIOUS
<1>1. TypeOK' /\ WithinInputs'
  BY TypeNext DEF IInv
<1>2. SafetyInv'
  BY NetworkLoopNext, RtcmFileNext, ExportNext, WriteSyncFileNext, KillNext,
     UserWaits, DecodeNext, StutterNext DEF Next, Network, User
<1> QED
  BY <1>1, <1>2 DEF IInv, SafetyInv

THEOREM Invariant == Spec => []IInv
  BY InitInv, NextInv, PTL DEF Spec

------------------------------------------------------------------------------
(* The state of the two processes is always well typed: neither counts     *)
(* past its inputs by more than it can skip.                               *)
THEOREM TypeCorrect == Spec => []TypeOK
<1>1. IInv => TypeOK
  BY DEF IInv
<1> QED
  BY <1>1, Invariant, PTL

(* The user decodes the file of an epoch only when the network has         *)
(* exported the number of that epoch or of a later one, in a shared        *)
(* directory that was empty at first, and however often the network is     *)
(* killed.                                                                 *)
THEOREM NeverAhead == Spec => []UserFollowsNetwork
<1>1. IInv => UserFollowsNetwork
  BY DEF IInv
<1> QED
  BY <1>1, Invariant, PTL

(* While the network runs for the first time, the user decodes no half     *)
(* written file, and no file before the network has written it.            *)
THEOREM NothingMissed == Spec => []UserMissesNothing
<1>1. IInv => UserMissesNothing
  BY DEF IInv
<1> QED
  BY <1>1, Invariant, PTL
==============================================================================
