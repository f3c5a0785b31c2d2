------------------------------- MODULE SyncFile -------------------------------
(***************************************************************************)
(* Network mode and end-user mode side by side on one machine: two PEA     *)
(* processes that share a directory.  The network encodes its corrections  *)
(* of each epoch into a file of that epoch and then writes the epoch's     *)
(* number to sync.tmp; the user waits for the number and decodes the file  *)
(* (rtcmEncodeToFile, exportSyncFile, waitForSyncFile, rtcmDecodeFromFile  *)
(* of common/acsStream.cpp, and where pea/main.cpp calls them).            *)
(*                                                                         *)
(* Opening a file for output empties it, and closing it writes it; the     *)
(* other process may look in between.  Either process may be late and skip *)
(* epochs, and the network may be killed and started again.                *)
(***************************************************************************)
EXTENDS Integers

CONSTANTS
    NetworkInputs,  \* epochs until the network's inputs are finished
    NetworkMax,     \* max_epochs of the network, 0: none
    UserInputs,
    UserMax,
    Offset,         \* sync_epoch_offset of the user
    Unobserved,     \* epochs for which the network has no observations
    MaxExcess,      \* bound on the epochs that a late process skips
    MaxStarts       \* bound on the starts of the network

ASSUME ConstantsAssumption ==
    /\ {NetworkInputs, NetworkMax, UserInputs, UserMax, Offset, MaxExcess}
           \subseteq Nat
    /\ Unobserved \subseteq Nat
    /\ MaxStarts \in Nat \ {0}

VARIABLES
    rtcmFile,       \* per network epoch: the file of its corrections
    syncFile,       \* the number read from sync.tmp, 0 if there is none
    exported,       \* the numbers written to sync.tmp so far (history)
    exportFailed,   \* the last number was not written (history)
    networkPc,      \* "start" or "loop" (which may skip), "encode", "close",
                    \* "export", "number" or "done"
    networkEpoch,
    starts,
    userPc,         \* "loop", "wait", "decode" or "done"
    userEpoch,
    decoded         \* per user epoch: the file that was decoded

files       == <<rtcmFile, syncFile, exported, exportFailed>>
networkVars == <<networkPc, networkEpoch, starts>>
userVars    == <<userPc, userEpoch, decoded>>
vars        == <<files, networkVars, userVars>>

NetworkEpochs == 0 .. NetworkInputs + MaxExcess + 1
UserEpochs    == 0 .. UserInputs + MaxExcess + 1
Contents      == {"missing", "emptied", "whole"}

TypeOK ==
    /\ rtcmFile \in [NetworkEpochs -> Contents]
    /\ syncFile \in Nat
    /\ exported \subseteq Nat
    /\ exportFailed \in BOOLEAN
    /\ networkPc \in {"start", "loop", "encode", "close", "export", "number",
                      "done"}
    /\ networkEpoch \in NetworkEpochs
    /\ starts \in 1 .. MaxStarts
    /\ userPc \in {"loop", "wait", "decode", "done"}
    /\ userEpoch \in UserEpochs
    /\ decoded \in [UserEpochs -> Contents \cup {"none"}]

Init ==
    /\ rtcmFile = [e \in NetworkEpochs |-> "missing"]
    /\ syncFile = 0
    /\ exported = {}
    /\ exportFailed = FALSE
    /\ networkPc = "start"
    /\ networkEpoch = 0
    /\ starts = 1
    /\ userPc = "loop"
    /\ userEpoch = 0
    /\ decoded = [e \in UserEpochs |-> "none"]

------------------------------------------------------------------------------
(* The network.                                                            *)

(* A turn of its epoch loop up to the corrections.                         *)
NetworkLoop(loopEpochs) ==
    /\ \/ networkPc = "start" /\ loopEpochs = 1
       \/ networkPc = "loop"
    /\ networkEpoch' = networkEpoch + loopEpochs
    /\ networkPc' = IF networkEpoch' > NetworkInputs THEN "done"
                    ELSE IF networkEpoch' \in Unobserved THEN "start"
                    ELSE "encode"
    /\ UNCHANGED <<files, starts, userVars>>

OpenRtcmFile ==
    /\ networkPc = "encode"
    /\ rtcmFile' = [rtcmFile EXCEPT ![networkEpoch] = "emptied"]
    /\ networkPc' = "close"
    /\ UNCHANGED <<syncFile, exported, exportFailed, networkEpoch, starts,
                   userVars>>

(* "Could not open file": the error is logged, the number exported.        *)
OpenRtcmFails ==
    /\ networkPc = "encode"
    /\ networkPc' = "export"
    /\ UNCHANGED <<files, networkEpoch, starts, userVars>>

CloseRtcmFile ==
    /\ networkPc = "close"
    /\ rtcmFile' = [rtcmFile EXCEPT ![networkEpoch] = "whole"]
    /\ networkPc' = "export"
    /\ UNCHANGED <<syncFile, exported, exportFailed, networkEpoch, starts,
                   userVars>>

AfterEpoch == IF NetworkMax > 0 /\ networkEpoch >= NetworkMax
              THEN "done" ELSE "loop"

OpenSyncFile ==
    /\ networkPc = "export"
    /\ syncFile' = 0
    /\ networkPc' = "number"
    /\ UNCHANGED <<rtcmFile, exported, exportFailed, networkEpoch, starts,
                   userVars>>

OpenSyncFails ==
    /\ networkPc = "export"
    /\ networkPc' = AfterEpoch
    /\ exportFailed' = TRUE
    /\ UNCHANGED <<rtcmFile, syncFile, exported, networkEpoch, starts, userVars>>

NextEpochNum == networkEpoch + 1    \* mutant: the number of the next epoch
EpochNum     == networkEpoch

WriteSyncFile ==
    /\ networkPc = "number"
    /\ syncFile' = EpochNum
    /\ exported' = exported \cup {EpochNum}
    /\ exportFailed' = FALSE
    /\ networkPc' = AfterEpoch
    /\ UNCHANGED <<rtcmFile, networkEpoch, starts, userVars>>

Kill ==
    /\ networkPc # "done"
    /\ starts < MaxStarts
    /\ starts' = starts + 1
    /\ networkPc' = "start"
    /\ networkEpoch' = 0
    /\ UNCHANGED <<files, userVars>>

------------------------------------------------------------------------------
(* The user.                                                               *)
FileOf(epochNum) ==
    IF epochNum \in NetworkEpochs THEN rtcmFile[epochNum] ELSE "missing"

UserLoop(loopEpochs) ==
    /\ userPc = "loop"
    /\ userEpoch = 0 => loopEpochs = 1
    /\ userEpoch' = userEpoch + loopEpochs
    /\ userPc' = "wait"
    /\ UNCHANGED <<files, networkVars, decoded>>

Equals(numIn, epochNum)  == numIn = epochNum        \* mutant: exactly this one
Almost(numIn, epochNum)  == numIn + 1 >= epochNum   \* mutant: off by one
Reached(numIn, epochNum) == numIn >= epochNum

WaitForSyncFile ==
    /\ userPc = "wait"
    /\ Reached(syncFile, userEpoch + Offset)
    /\ userPc' = "decode"
    /\ UNCHANGED <<files, networkVars, userEpoch, decoded>>

(* The last epoch, or the inputs are finished, which was known before the  *)
(* user waited.                                                            *)
MaxEpochsReached == UserMax > 0 /\ userEpoch >= UserMax    \* mutant: only this

UserEnds ==
    \/ userEpoch > UserInputs
    \/ UserMax > 0 /\ userEpoch >= UserMax

RtcmDecodeFromFile ==
    /\ userPc = "decode"
    /\ decoded' = [decoded EXCEPT ![userEpoch] = FileOf(userEpoch + Offset)]
    /\ userPc' = IF UserEnds THEN "done" ELSE "loop"
    /\ UNCHANGED <<files, networkVars, userEpoch>>

Network ==
    \/ \E loopEpochs \in 1 .. 1 + MaxExcess : NetworkLoop(loopEpochs)
    \/ OpenRtcmFile
    \/ OpenRtcmFails
    \/ CloseRtcmFile
    \/ OpenSyncFile
    \/ OpenSyncFails
    \/ WriteSyncFile

User ==
    \/ \E loopEpochs \in 1 .. 1 + MaxExcess : UserLoop(loopEpochs)
    \/ WaitForSyncFile
    \/ RtcmDecodeFromFile

Next == Network \/ Kill \/ User

Spec == Init /\ [][Next]_vars

FairSpec == Spec /\ WF_vars(Network) /\ WF_vars(User)

------------------------------------------------------------------------------
(* The user is never ahead: past its wait for an epoch, the network has    *)
(* finished that epoch or a later one.                                     *)
UserFollowsNetwork ==
    \A e \in UserEpochs :
        decoded[e] # "none" => \E n \in exported : n >= e + Offset

(* As long as the network was not started again, the user decodes no file  *)
(* that is being written, and none that is still to be written: what it    *)
(* has for an epoch is all that there will ever be for it.                 *)
UserMissesNothing ==
    starts = 1 =>
        \A e \in UserEpochs :
            decoded[e] # "none" =>
                decoded[e] # "emptied" /\ decoded[e] = FileOf(e + Offset)

(* The user gets through all its epochs, whatever the network skipped and  *)
(* though it was started again, unless the network could not write the     *)
(* last number.                                                            *)
UserFinishes == <>(userPc = "done") \/ <>[]exportFailed
==============================================================================
