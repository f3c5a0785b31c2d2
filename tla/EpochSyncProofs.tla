---------------------------- MODULE EpochSyncProofs ---------------------------
(***************************************************************************)
(* Proofs about EpochSync, for any streams, intervals and waiting times.   *)
(***************************************************************************)
EXTENDS EpochSync, TLAPS

(* A caster has sent no more than it sends.                                *)
ArrivedInStream == \A i \in Ids : arrived[i] <= Len(Streams[i].obs)

(* What was parsed are times of the inputs.                                *)
TimesKnown ==
    \A i \in Ids : \A k \in DOMAIN obsListList[i] :
        obsListList[i][k] + Delta < Horizon

TypeInv == TypeOK /\ ArrivedInStream /\ TimesKnown

------------------------------------------------------------------------------
(* Streams and their epochs.                                               *)
LEMMA StreamTypes ==
    /\ Ids = 1 .. Len(Streams)
    /\ Len(Streams) \in Nat
    /\ \A i \in Ids :
          /\ Streams[i].obs \in Seq(Nat)
          /\ Streams[i].kind \in {"rinex", "rtcm", "ntrip"}
          /\ Streams[i].truncated \in BOOLEAN
          /\ Streams[i].station \in Stations
<1> DEFINE StreamRecord == [station : STRING, kind : {"rinex", "rtcm", "ntrip"},
                            obs : Seq(Nat), truncated : BOOLEAN]
<1>1. Streams \in Seq(StreamRecord)
  BY ConstantsAssumption DEF ConstantsAssumption
<1>2. /\ Ids = 1 .. Len(Streams)
      /\ Len(Streams) \in Nat
      /\ \A i \in Ids : Streams[i] \in StreamRecord
  <2> HIDE DEF StreamRecord
  <2> QED
    BY <1>1 DEF Ids
<1> QED
  BY <1>2 DEF Stations

LEMMA Numbers ==
    /\ TicksPerSecond \in Nat \ {0}
    /\ EpochInterval \in Nat \ {0}
    /\ {StartEpoch, EndEpoch, MaxEpochs, MaxExcess} \subseteq Nat
    /\ MaxPasses \in Nat \ {0}
    /\ Horizon \in Nat
    /\ StartEpoch < Horizon
    /\ MaxEpochs < Horizon
  BY ConstantsAssumption DEF ConstantsAssumption

LEMMA DeltaType == Delta \in Nat
  BY Numbers DEF Delta

LEMMA ObsTimes ==
    \A i \in Ids : \A k \in 1 .. Len(Streams[i].obs) :
        Streams[i].obs[k] \in Nat /\ Streams[i].obs[k] + Delta < Horizon
<1> SUFFICES ASSUME NEW i \in Ids, NEW k \in 1 .. Len(Streams[i].obs)
             PROVE  Streams[i].obs[k] \in Nat /\ Streams[i].obs[k] + Delta < Horizon
  OBVIOUS
<1>1. Streams[i].obs \in Seq(Nat)
  BY StreamTypes
<1>2. k \in DOMAIN Streams[i].obs /\ Streams[i].obs[k] \in Nat
  BY <1>1
<1>3. Streams[i].obs[k] + Delta < Horizon
  <2>1. \A j \in DOMAIN Streams : \A n \in DOMAIN Streams[j].obs :
            Streams[j].obs[n] + Delta < Horizon
    BY ConstantsAssumption DEF ConstantsAssumption
  <2> QED
    BY <1>2, <2>1 DEF Ids
<1> QED
  BY <1>2, <1>3, DeltaType, Numbers

(* Parsing appends an epoch of the input, or nothing.                      *)
LEMMA ParsedType ==
    ASSUME TypeInv, NEW i \in Ids
    PROVE  /\ Parsed(i) \in Seq(Nat)
           /\ \A k \in 1 .. Len(Parsed(i)) : Parsed(i)[k] + Delta < Horizon
           /\ FilePos(i) \in Nat \cup {-1}
<1>1. obsListList[i] \in Seq(Nat) /\ filePos[i] \in Nat \cup {-1}
  BY DEF TypeInv, TypeOK
<1>2. \A k \in 1 .. Len(obsListList[i]) : obsListList[i][k] + Delta < Horizon
  BY <1>1 DEF TypeInv, TimesKnown
<1>3. FilePos(i) \in Nat \cup {-1}
  BY <1>1 DEF FilePos
<1>4. CASE Parses(i) /\ More(i)
  <2> DEFINE obs == Streams[i].obs[filePos[i] + 1]
  <2>1. filePos[i] + 1 \in 1 .. Len(Streams[i].obs)
    <3>1. arrived[i] \in Nat /\ arrived[i] <= Len(Streams[i].obs)
      BY DEF TypeInv, TypeOK, ArrivedInStream
    <3>2. Len(Streams[i].obs) \in Nat
      BY StreamTypes
    <3> QED
      BY <1>4, <3>1, <3>2 DEF More
  <2>2. obs \in Nat /\ obs + Delta < Horizon
    BY <2>1, ObsTimes
  <2>3. Parsed(i) = Append(obsListList[i], obs)
    BY <1>4 DEF Parsed
  <2> HIDE DEF obs
  <2> QED
    BY <1>1, <1>2, <1>3, <2>2, <2>3
<1>5. CASE ~(Parses(i) /\ More(i))
  <2>1. Parsed(i) = obsListList[i]
    BY <1>5 DEF Parsed
  <2> QED
    BY <1>1, <1>2, <1>3, <2>1
<1> QED
  BY <1>4, <1>5

LEMMA AtMostType == \A n \in Nat : AtMost(n) \in 0 .. Horizon
  BY Numbers DEF AtMost

LEMMA NextTimeType == TypeOK => NextTime \in 0 .. Horizon
<1> SUFFICES ASSUME TypeOK PROVE NextTime \in 0 .. Horizon
  OBVIOUS
<1> DEFINE product == loopEpochs * EpochInterval
           seconds == product \div TicksPerSecond
           step    == TicksPerSecond * seconds
<1>1. loopEpochs \in Nat /\ tsync \in Nat
  BY Numbers DEF TypeOK
<1>2. product \in Nat
  BY <1>1, Numbers
<1>3. seconds \in Nat
  <2> HIDE DEF product
  <2> QED
    BY <1>2, Numbers
<1>4. step \in Nat
  <2> HIDE DEF seconds
  <2> QED
    BY <1>3, Numbers
<1> QED
  <2> HIDE DEF step
  <2>1. tsync + step \in Nat
    BY <1>1, <1>4
  <2>2. NextTime = AtMost(tsync + step)
    BY DEF NextTime, step
  <2> QED
    BY <2>1, <2>2, AtMostType

------------------------------------------------------------------------------
(* Types.                                                                  *)
LEMMA InitTypes == Init => TypeInv
<1> SUFFICES ASSUME Init PROVE TypeInv
  OBVIOUS
<1>1. arrived \in [Ids -> Nat] /\ ArrivedInStream
  <2>1. \A i \in Ids : Len(Streams[i].obs) \in Nat
    BY StreamTypes
  <2> QED
    BY <2>1 DEF Init, ArrivedInStream
<1>2. /\ filePos \in [Ids -> Nat \cup {-1}]
      /\ obsListList \in [Ids -> Seq(Nat)]
      /\ obsList \in [Stations -> Nat]
  BY DEF Init, NoTime
<1>3. TimesKnown
  BY DEF Init, TimesKnown
<1>4. /\ tsync \in 0 .. Horizon /\ epoch \in 0 .. Horizon
      /\ loopEpochs \in 1 .. 1 + MaxExcess
      /\ passes \in 0 .. MaxPasses
      /\ stream \in 1 .. Len(Streams) + 1
  BY Numbers, StreamTypes DEF Init
<1>5. /\ live \subseteq Ids
      /\ epochStations \in Seq(Stations)
      /\ repeat \in BOOLEAN /\ complete \in BOOLEAN /\ rushed \in BOOLEAN
      /\ pc \in {"start", "wait", "pass", "process", "done"}
      /\ history \in Seq([time : Nat, obs : [Stations -> Nat]])
  <2>1. live \subseteq Ids /\ pc \in {"start", "wait", "pass", "process", "done"}
    BY DEF Init
  <2>2. epochStations = << >> /\ history = << >>
    BY DEF Init
  <2>3. repeat \in BOOLEAN /\ complete \in BOOLEAN /\ rushed \in BOOLEAN
    BY DEF Init
  <2> QED
    BY <2>1, <2>2, <2>3
<1> QED
  BY <1>1, <1>2, <1>3, <1>4, <1>5 DEF TypeInv, TypeOK

LEMMA ArriveTypes ==
    ASSUME TypeInv, NEW i \in Ids, Arrive(i)
    PROVE  TypeInv'
<1>1. arrived' \in [Ids -> Nat]
  BY DEF TypeInv, TypeOK, Arrive
<1>2. ArrivedInStream'
  <2> SUFFICES ASSUME NEW j \in Ids PROVE arrived'[j] <= Len(Streams[j].obs)
    BY DEF ArrivedInStream
  <2> DEFINE sends == Len(Streams[j].obs)
  <2>1. sends \in Nat
    BY StreamTypes
  <2>2. arrived[j] \in Nat /\ arrived[j] <= sends
    BY DEF TypeInv, TypeOK, ArrivedInStream
  <2>3. arrived'[j] = IF j = i THEN arrived[j] + 1 ELSE arrived[j]
    BY DEF TypeInv, TypeOK, Arrive
  <2>4. j = i => arrived[j] < sends
    BY DEF Arrive
  <2> HIDE DEF sends
  <2>5. arrived'[j] <= sends
    BY <2>1, <2>2, <2>3, <2>4
  <2> QED
    BY <2>5 DEF sends
<1> QED
  BY <1>1, <1>2 DEF TypeInv, TypeOK, TimesKnown, Arrive, streamVars

LEMMA NextEpochTypes == TypeInv /\ NextEpoch => TypeInv'
<1> SUFFICES ASSUME TypeInv, NextEpoch PROVE TypeInv'
  OBVIOUS
<1>1. tsync' \in 0 .. Horizon
  BY NextTimeType, Numbers DEF NextEpoch, TypeInv, TypeOK, NoTime
<1>2. epoch' \in 0 .. Horizon
  <2>1. epoch + loopEpochs \in Nat
    BY Numbers DEF TypeInv, TypeOK
  <2> QED
    BY <2>1, AtMostType DEF NextEpoch
<1>3. passes' \in 0 .. MaxPasses
  BY Numbers DEF NextEpoch
<1> QED
  BY <1>1, <1>2, <1>3
     DEF NextEpoch, TypeInv, TypeOK, ArrivedInStream, TimesKnown, streamVars

(* Steps that leave the streams, the times and the history alone.          *)
LEMMA ControlTypes ==
    TypeInv /\ (EndPass \/ EndWait \/ InputsFinished \/ NoObservations) => TypeInv'
<1> SUFFICES ASSUME TypeInv,
                    EndPass \/ EndWait \/ InputsFinished \/ NoObservations
             PROVE  TypeInv'
  OBVIOUS
<1>1. /\ pc' \in {"start", "wait", "process", "done"}
      /\ rushed' \in BOOLEAN
      /\ loopEpochs' \in 1 .. 1 + MaxExcess
  <2>1. 1 \in 1 .. 1 + MaxExcess
    BY Numbers
  <2>2. loopEpochs' \in {loopEpochs, 1}
    BY DEF EndPass, EndWait, InputsFinished, NoObservations
  <2>3. pc' \in {"start", "wait", "process", "done"}
    BY DEF EndPass, EndWait, InputsFinished, NoObservations
  <2>4. rushed' \in BOOLEAN
    BY Zenon DEF EndPass, EndWait, InputsFinished, NoObservations, TypeInv, TypeOK
  <2> QED
    BY <2>1, <2>2, <2>3, <2>4 DEF TypeInv, TypeOK
<1>2. UNCHANGED <<arrived, streamVars, live, obsList, tsync, epoch,
                  epochStations, repeat, passes, stream, complete, history>>
  BY DEF EndPass, EndWait, InputsFinished, NoObservations
<1> QED
  BY <1>1, <1>2 DEF TypeInv, TypeOK, ArrivedInStream, TimesKnown, streamVars

LEMMA BeginPassTypes == TypeInv /\ BeginPass => TypeInv'
<1> SUFFICES ASSUME TypeInv, BeginPass PROVE TypeInv'
  OBVIOUS
<1>1. passes' \in 0 .. MaxPasses /\ stream' \in 1 .. Len(Streams) + 1
  BY Numbers, StreamTypes DEF BeginPass, TypeInv, TypeOK
<1>2. live' \subseteq Ids /\ pc' \in {"process", "pass"}
  BY DEF BeginPass, TypeInv, TypeOK
<1>3. repeat' \in BOOLEAN /\ complete' \in BOOLEAN
  BY Zenon DEF BeginPass
<1> QED
  BY <1>1, <1>2, <1>3
     DEF BeginPass, TypeInv, TypeOK, ArrivedInStream, TimesKnown, streamVars

LEMMA SkipStreamTypes ==
    ASSUME TypeInv, NEW i \in Ids, SkipStream(i)
    PROVE  TypeInv'
<1>1. stream' \in 1 .. Len(Streams) + 1
  BY StreamTypes DEF SkipStream
<1> QED
  BY <1>1
     DEF SkipStream, TypeInv, TypeOK, ArrivedInStream, TimesKnown, streamVars

(* A list of parsed times, put in the place of a stream's.                 *)
LEMMA ListTypes ==
    ASSUME TypeInv, NEW i \in Ids, NEW list \in Seq(Nat),
           \A k \in 1 .. Len(list) : list[k] + Delta < Horizon,
           obsListList' = [obsListList EXCEPT ![i] = list]
    PROVE  obsListList' \in [Ids -> Seq(Nat)] /\ TimesKnown'
<1>1. obsListList \in [Ids -> Seq(Nat)]
  BY DEF TypeInv, TypeOK
<1>2. obsListList' \in [Ids -> Seq(Nat)]
  BY <1>1
<1>3. \A j \in Ids : obsListList'[j] = IF j = i THEN list ELSE obsListList[j]
  BY <1>1
<1>4. TimesKnown'
  BY <1>1, <1>3 DEF TypeInv, TimesKnown
<1> QED
  BY <1>2, <1>4

LEMMA EatObsTypes ==
    ASSUME TypeInv, NEW i \in Ids, EatObs(i)
    PROVE  TypeInv'
<1>1. /\ Parsed(i) \in Seq(Nat) /\ Parsed(i) # << >>
      /\ \A k \in 1 .. Len(Parsed(i)) : Parsed(i)[k] + Delta < Horizon
      /\ FilePos(i) \in Nat \cup {-1}
  BY ParsedType DEF EatObs, Eats
<1> DEFINE list == Tail(Parsed(i))
<1>2. list \in Seq(Nat) /\ \A k \in 1 .. Len(list) : list[k] + Delta < Horizon
  BY <1>1
<1>3. obsListList' = [obsListList EXCEPT ![i] = list]
  BY DEF EatObs
<1> HIDE DEF list
<1>4. obsListList' \in [Ids -> Seq(Nat)] /\ TimesKnown'
  BY <1>2, <1>3, ListTypes
<1>5. filePos' \in [Ids -> Nat \cup {-1}]
  BY <1>1 DEF EatObs, TypeInv, TypeOK
<1> QED
  BY <1>4, <1>5 DEF EatObs, TypeInv, TypeOK, ArrivedInStream

LEMMA GetObsTypes ==
    ASSUME TypeInv, NEW i \in Ids, NEW time \in Nat, GetObs(i, time)
    PROVE  /\ obsListList' \in [Ids -> Seq(Nat)]
           /\ TimesKnown'
           /\ filePos' \in [Ids -> Nat \cup {-1}]
           /\ obsList' \in [Stations -> Nat]
           /\ stream' \in 1 .. Len(Streams) + 1
<1>1. /\ Parsed(i) \in Seq(Nat)
      /\ \A k \in 1 .. Len(Parsed(i)) : Parsed(i)[k] + Delta < Horizon
      /\ FilePos(i) \in Nat \cup {-1}
  BY ParsedType
<1>2. obsListList' = [obsListList EXCEPT ![i] = Parsed(i)]
  BY DEF GetObs
<1>3. obsListList' \in [Ids -> Seq(Nat)] /\ TimesKnown'
  BY <1>1, <1>2, ListTypes
<1>4. filePos' \in [Ids -> Nat \cup {-1}]
  BY <1>1 DEF GetObs, TypeInv, TypeOK
<1>5. obsList' \in [Stations -> Nat]
  BY StreamTypes DEF GetObs, TypeInv, TypeOK
<1>6. stream' \in 1 .. Len(Streams) + 1
  BY StreamTypes DEF GetObs
<1> QED
  BY <1>3, <1>4, <1>5, <1>6

LEMMA NoObsTypes ==
    ASSUME TypeInv, NEW i \in Ids, NoObs(i)
    PROVE  TypeInv'
<1>1. NoTime \in Nat /\ GetObs(i, NoTime)
  BY DEF NoObs, NoTime
<1>2. /\ obsListList' \in [Ids -> Seq(Nat)]
      /\ TimesKnown'
      /\ filePos' \in [Ids -> Nat \cup {-1}]
      /\ obsList' \in [Stations -> Nat]
      /\ stream' \in 1 .. Len(Streams) + 1
  BY <1>1, GetObsTypes
<1> QED
  BY <1>2 DEF NoObs, GetObs, TypeInv, TypeOK, ArrivedInStream

LEMMA FindObsTypes ==
    ASSUME TypeInv, NEW i \in Ids, FindObs(i)
    PROVE  TypeInv'
<1> DEFINE time == Head(Parsed(i))
<1>1. time \in 0 .. Horizon
  <2>1. /\ Parsed(i) \in Seq(Nat) /\ Parsed(i) # << >>
        /\ \A k \in 1 .. Len(Parsed(i)) : Parsed(i)[k] + Delta < Horizon
    BY ParsedType DEF FindObs, Finds
  <2>2. time = Parsed(i)[1] /\ 1 \in 1 .. Len(Parsed(i)) /\ time \in Nat
    BY <2>1
  <2>3. time + Delta < Horizon
    BY <2>1, <2>2
  <2> QED
    BY <2>2, <2>3, Numbers, DeltaType
<1>2. GetObs(i, time)
  BY DEF FindObs
<1>3. time \in Nat
  BY <1>1, Numbers
<1> HIDE DEF time
<1>4. /\ obsListList' \in [Ids -> Seq(Nat)]
      /\ TimesKnown'
      /\ filePos' \in [Ids -> Nat \cup {-1}]
      /\ obsList' \in [Stations -> Nat]
      /\ stream' \in 1 .. Len(Streams) + 1
  BY <1>2, <1>3, GetObsTypes
<1>5. tsync' \in 0 .. Horizon
  BY <1>1 DEF FindObs, TypeInv, TypeOK, time
<1>6. epochStations' \in Seq(Stations)
  BY StreamTypes DEF FindObs, TypeInv, TypeOK
<1> QED
  BY <1>4, <1>5, <1>6 DEF FindObs, GetObs, TypeInv, TypeOK, ArrivedInStream

LEMMA ProcessEpochTypes == TypeInv /\ ProcessEpoch => TypeInv'
<1> SUFFICES ASSUME TypeInv, ProcessEpoch PROVE TypeInv'
  OBVIOUS
<1>1. history' \in Seq([time : Nat, obs : [Stations -> Nat]])
  <2> DEFINE obs == [s \in Stations |-> IF s \in InEpoch THEN obsList[s]
                                                          ELSE NoTime]
  <2>1. obs \in [Stations -> Nat] /\ tsync \in Nat
    BY Numbers DEF TypeInv, TypeOK, NoTime
  <2>2. history' = Append(history, [time |-> tsync, obs |-> obs])
    BY DEF ProcessEpoch
  <2> HIDE DEF obs
  <2> QED
    BY <2>1, <2>2 DEF TypeInv, TypeOK
<1>2. pc' \in {"start", "done"}
  BY DEF ProcessEpoch
<1>3. loopEpochs' \in 1 .. 1 + MaxExcess
  <2>1. \/ loopEpochs' = loopEpochs
        \/ \E excessLoops \in Excess : loopEpochs' = 1 + excessLoops
    BY DEF ProcessEpoch
  <2>2. loopEpochs \in 1 .. 1 + MaxExcess
    BY DEF TypeInv, TypeOK
  <2> QED
    BY <2>1, <2>2, Numbers DEF Excess
<1>4. rushed' \in BOOLEAN
  <2>1. rushed' = rushed \/ rushed' = (rushed \/ loopEpochs' > 1)
    BY Zenon DEF ProcessEpoch
  <2>2. rushed \in BOOLEAN
    BY DEF TypeInv, TypeOK
  <2> QED
    BY Zenon, <2>1, <2>2
<1> QED
  BY <1>1, <1>2, <1>3, <1>4
     DEF ProcessEpoch, TypeInv, TypeOK, ArrivedInStream, TimesKnown, streamVars

LEMMA TypesNext == TypeInv /\ [Next]_vars => TypeInv'
<1> SUFFICES ASSUME TypeInv, [Next]_vars PROVE TypeInv'
  OBVIOUS
<1>1. CASE Next
  BY <1>1, ArriveTypes, NextEpochTypes, ControlTypes, BeginPassTypes,
     SkipStreamTypes, EatObsTypes, NoObsTypes, FindObsTypes, ProcessEpochTypes
     DEF Next, MainThread
<1>2. CASE UNCHANGED vars
  BY <1>2 DEF vars, streamVars, TypeInv, TypeOK, ArrivedInStream, TimesKnown
<1> QED
  BY <1>1, <1>2

THEOREM TypeInvariant == Spec => []TypeInv
  BY InitTypes, TypesNext, PTL DEF Spec

(* The state of the loop is always well typed: the epochs skipped are      *)
(* never a negative number, and what the streams hold are times of their   *)
(* inputs.                                                                 *)
THEOREM TypeCorrect == Spec => []TypeOK
<1>1. TypeInv => TypeOK
  BY DEF TypeInv
<1> QED
  BY <1>1, TypeInvariant, PTL

------------------------------------------------------------------------------
(* The end of the loop.  An epoch processed without ending the loop was    *)
(* below max_epochs and before end_epoch, and every epoch is counted.      *)
CountInv ==
    MaxEpochs > 0 =>
        /\ pc # "done" => Len(history) < MaxEpochs
        /\ Len(history) <= MaxEpochs
        /\ pc = "start" => Len(history) <= epoch \/ epoch >= MaxEpochs
        /\ pc \in {"wait", "pass", "process"} =>
               Len(history) < epoch \/ epoch >= MaxEpochs

EndInv ==
    EndEpoch # NoTime =>
        /\ pc # "done" => \A j \in DOMAIN history :
                             WholeSeconds(history[j].time) < EndEpoch
        /\ \A j \in DOMAIN history :
               j < Len(history) => WholeSeconds(history[j].time) < EndEpoch

LEMMA InitEnd == Init => CountInv /\ EndInv
  BY Numbers DEF Init, CountInv, EndInv

LEMMA CountProcess == TypeInv /\ CountInv /\ ProcessEpoch => CountInv'
<1> SUFFICES ASSUME TypeInv, CountInv, ProcessEpoch, MaxEpochs > 0
             PROVE  /\ pc' # "done" => Len(history') < MaxEpochs
                    /\ Len(history') <= MaxEpochs
                    /\ pc' = "start" => Len(history') <= epoch' \/ epoch' >= MaxEpochs
                    /\ pc' \in {"start", "done"}
  BY DEF CountInv
<1>1. /\ Len(history') = Len(history) + 1 /\ Len(history) \in Nat
      /\ epoch \in Nat /\ epoch' = epoch
      /\ pc' \in {"start", "done"}
      /\ pc' = "start" => ~LastEpoch
  BY Numbers DEF ProcessEpoch, TypeInv, TypeOK
<1>2. Len(history) < MaxEpochs /\ (Len(history) < epoch \/ epoch >= MaxEpochs)
  BY DEF ProcessEpoch, CountInv
<1>3. pc' = "start" => epoch < MaxEpochs
  BY <1>1, Numbers DEF LastEpoch
<1> QED
  BY <1>1, <1>2, <1>3, Numbers

LEMMA EndProcess == TypeInv /\ EndInv /\ ProcessEpoch => EndInv'
<1> SUFFICES ASSUME TypeInv, EndInv, ProcessEpoch, EndEpoch # NoTime
             PROVE  EndInv'
  BY DEF EndInv
<1> DEFINE last == [time |-> tsync,
                    obs  |-> [s \in Stations |-> IF s \in InEpoch
                                                 THEN obsList[s] ELSE NoTime]]
<1>1. history' = Append(history, last) /\ last.time = tsync
  BY DEF ProcessEpoch
<1>2. /\ history \in Seq([time : Nat, obs : [Stations -> Nat]])
      /\ tsync \in Nat
  BY Numbers DEF TypeInv, TypeOK
<1> HIDE DEF last
<1>3. /\ DOMAIN history = 1 .. Len(history) /\ Len(history) \in Nat
      /\ DOMAIN history' = 1 .. Len(history) + 1
      /\ Len(history') = Len(history) + 1
      /\ \A j \in 1 .. Len(history) : history'[j] = history[j]
      /\ history'[Len(history) + 1] = last
  BY <1>1, <1>2
<1>4. \A j \in 1 .. Len(history) : WholeSeconds(history[j].time) < EndEpoch
  BY <1>3 DEF EndInv, ProcessEpoch
<1>5. pc' # "done" => WholeSeconds(tsync) < EndEpoch
  <2>1. pc' # "done" => ~LastEpoch
    BY DEF ProcessEpoch
  <2>2. WholeSeconds(tsync) \in Int
    <3> DEFINE seconds == tsync \div TicksPerSecond
    <3>1. seconds \in Int
      BY <1>2, Numbers
    <3> HIDE DEF seconds
    <3>2. TicksPerSecond * seconds \in Int
      BY <3>1, Numbers
    <3> QED
      BY <3>2 DEF WholeSeconds, seconds
  <2> QED
    BY <2>1, <2>2, Numbers DEF LastEpoch
<1>6. \A j \in 1 .. Len(history) + 1 :
          j \in 1 .. Len(history) \/ j = Len(history) + 1
  BY <1>3
<1> QED
  BY <1>1, <1>3, <1>4, <1>5, <1>6 DEF EndInv, WholeSeconds

LEMMA CountNextEpoch == TypeInv /\ CountInv /\ NextEpoch => CountInv'
<1> SUFFICES ASSUME TypeInv, CountInv, NextEpoch, MaxEpochs > 0 PROVE CountInv'
  BY DEF CountInv
<1>1. /\ epoch \in Nat /\ loopEpochs \in Nat /\ loopEpochs >= 1
      /\ Len(history) \in Nat
  BY Numbers DEF TypeInv, TypeOK
<1>2. epoch' = epoch + loopEpochs \/ epoch' = Horizon
  BY DEF NextEpoch, AtMost
<1>3. Len(history) < epoch' \/ epoch' >= MaxEpochs
  BY <1>1, <1>2, Numbers DEF NextEpoch, CountInv
<1> QED
  BY <1>3 DEF NextEpoch, CountInv

(* The other steps process nothing.                                        *)
LEMMA CountOther ==
    ASSUME CountInv, EndInv, TypeInv,
           UNCHANGED <<history, epoch>>,
           \/ pc' = pc
           \/ pc = "pass" /\ pc' = "wait"
           \/ pc = "wait" /\ pc' \in {"pass", "process"}
           \/ pc = "process" /\ pc' \in {"done", "start"}
    PROVE  CountInv' /\ EndInv'
<1>1. Len(history) \in Nat /\ epoch \in Nat
  BY Numbers DEF TypeInv, TypeOK
<1>2. CountInv'
  BY <1>1, Numbers DEF CountInv
<1>3. EndInv'
  BY DEF EndInv, WholeSeconds
<1> QED
  BY <1>2, <1>3

LEMMA EndNext == TypeInv /\ CountInv /\ EndInv /\ [Next]_vars => CountInv' /\ EndInv'
<1> SUFFICES ASSUME TypeInv, CountInv, EndInv, [Next]_vars
             PROVE  CountInv' /\ EndInv'
  OBVIOUS
<1>1. CASE ProcessEpoch
  BY <1>1, CountProcess, EndProcess
<1>2. CASE NextEpoch
  <2>1. EndInv'
    BY <1>2 DEF NextEpoch, EndInv, WholeSeconds
  <2> QED
    BY <1>2, <2>1, CountNextEpoch
<1>3. CASE BeginPass
  BY <1>3, CountOther DEF BeginPass
<1>4. CASE EndPass
  BY <1>4, CountOther DEF EndPass
<1>5. CASE EndWait
  BY <1>5, CountOther DEF EndWait
<1>6. CASE InputsFinished
  BY <1>6, CountOther DEF InputsFinished
<1>7. CASE NoObservations
  BY <1>7, CountOther DEF NoObservations
<1>8. ASSUME NEW i \in Ids,
             SkipStream(i) \/ EatObs(i) \/ NoObs(i) \/ FindObs(i) \/ Arrive(i)
      PROVE  CountInv' /\ EndInv'
  <2>1. UNCHANGED <<history, epoch, pc>>
    BY <1>8 DEF SkipStream, EatObs, NoObs, FindObs, GetObs, Arrive
  <2> QED
    BY <2>1, CountOther
<1>9. CASE UNCHANGED vars
  BY <1>9, CountOther DEF vars
<1> QED
  BY <1>1, <1>2, <1>3, <1>4, <1>5, <1>6, <1>7, <1>8, <1>9 DEF Next, MainThread

(* Whatever the streams deliver, and however many epochs are skipped or    *)
(* empty, no more than max_epochs epochs are processed, and none after the *)
(* first that is not before end_epoch.                                     *)
THEOREM LoopStopsOnTime == Spec => []StopsOnTime
<1>1. TypeInv /\ CountInv /\ EndInv => StopsOnTime
  <2> SUFFICES ASSUME TypeInv, CountInv, EndInv PROVE StopsOnTime
    OBVIOUS
  <2>1. DOMAIN history = 1 .. Len(history) /\ Len(history) \in Nat
    BY DEF TypeInv, TypeOK
  <2>2. \A j, k \in DOMAIN history : j < k => j < Len(history)
    BY <2>1
  <2> QED
    BY <2>2 DEF CountInv, EndInv, StopsOnTime
<1> QED
  BY <1>1, TypeInvariant, InitEnd, EndNext, PTL DEF Spec

------------------------------------------------------------------------------
(* The stations of an epoch.  What a pass found stays at the head of its   *)
(* stream's list until tsync moves on, so that a later pass, which may     *)
(* visit the stream again, finds it again and eats nothing.                *)
Held(i) ==
    /\ obsListList[i] # << >>
    /\ Head(obsListList[i]) # Empty
    /\ obsList[Streams[i].station] = Head(obsListList[i])
    /\ tsync # NoTime
    /\ Near(Head(obsListList[i]))

HeldInv ==
    pc # "start" /\ pc # "done" =>
        \A i \in Ids : Streams[i].station \in InEpoch => Held(i)

StationInv == TypeInv /\ HeldInv

LEMMA HeldHead ==
    ASSUME TypeInv, NEW i \in Ids, Held(i)
    PROVE  /\ Parsed(i) # << >>
           /\ Head(Parsed(i)) = Head(obsListList[i])
           /\ ~Eats(i)
           /\ Finds(i)
<1> DEFINE list == obsListList[i]
<1>1. list \in Seq(Nat) /\ list # << >>
  BY DEF TypeInv, TypeOK, Held
<1>2. Parsed(i) # << >> /\ Head(Parsed(i)) = Head(list)
  <2>1. CASE Parses(i) /\ More(i)
    <3> DEFINE obs == Streams[i].obs[filePos[i] + 1]
    <3>1. Parsed(i) = Append(list, obs)
      BY <2>1 DEF Parsed
    <3>2. Parsed(i) \in Seq(Nat)
      BY ParsedType
    <3> HIDE DEF obs, list
    <3>3. Len(Parsed(i)) = Len(list) + 1 /\ Len(list) \in Nat /\ Len(list) > 0
      BY <1>1, <3>1
    <3>4. Parsed(i)[1] = list[1]
      BY <1>1, <3>1, <3>3
    <3> QED
      BY <1>1, <3>2, <3>3, <3>4
  <2>2. CASE ~(Parses(i) /\ More(i))
    BY <1>1, <2>2 DEF Parsed
  <2> QED
    BY <2>1, <2>2
<1>3. Head(list) \in Nat /\ tsync \in Nat
  BY <1>1, Numbers DEF TypeInv, TypeOK
<1>4. ~TooOld(Head(list)) /\ Head(list) <= tsync + Delta
  BY <1>3, DeltaType DEF Held, Near, TooOld
<1>5. ~Eats(i)
  BY <1>2, <1>4 DEF Eats
<1> QED
  BY <1>2, <1>4, <1>5 DEF Held, Finds

(* A step that moves one stream and one station does not disturb others.   *)
LEMMA OthersHeld ==
    ASSUME OneStreamEach, TypeInv, NEW i \in Ids, NEW j \in Ids, j # i,
           NEW list, NEW time,
           obsListList' = [obsListList EXCEPT ![i] = list],
           obsList' = [obsList EXCEPT ![Streams[i].station] = time],
           tsync' = tsync,
           Held(j)
    PROVE  Held(j)'
<1>1. Streams[j].station # Streams[i].station
  BY DEF OneStreamEach
<1>2. obsListList'[j] = obsListList[j]
  BY DEF TypeInv, TypeOK
<1>3. obsList'[Streams[j].station] = obsList[Streams[j].station]
  BY <1>1, StreamTypes DEF TypeInv, TypeOK
<1> QED
  BY <1>2, <1>3 DEF Held, Near

LEMMA EatObsHeld ==
    ASSUME OneStreamEach, StationInv, NEW i \in Ids, EatObs(i)
    PROVE  HeldInv'
<1> SUFFICES ASSUME NEW j \in Ids, Streams[j].station \in InEpoch
             PROVE  Held(j)'
  BY DEF HeldInv, InEpoch, EatObs
<1>1. pc = "pass" /\ Eats(i) /\ TypeInv
  BY DEF EatObs, Visiting, StationInv
<1>2. Held(j)
  BY <1>1 DEF StationInv, HeldInv
<1>3. j # i
  BY <1>1, <1>2, HeldHead
<1>4. obsListList'[j] = obsListList[j]
  BY <1>1, <1>3 DEF EatObs, TypeInv, TypeOK
<1> QED
  BY <1>2, <1>4 DEF EatObs, Held, Near

LEMMA NoObsHeld ==
    ASSUME OneStreamEach, StationInv, NEW i \in Ids, NoObs(i)
    PROVE  HeldInv'
<1> SUFFICES ASSUME NEW j \in Ids, Streams[j].station \in InEpoch
             PROVE  Held(j)'
  BY DEF HeldInv, InEpoch, NoObs, GetObs
<1>1. pc = "pass" /\ ~Finds(i) /\ TypeInv
  BY DEF NoObs, Visiting, StationInv
<1>2. Held(j)
  BY <1>1 DEF StationInv, HeldInv
<1>3. j # i
  BY <1>1, <1>2, HeldHead
<1> QED
  BY <1>1, <1>2, <1>3, OthersHeld DEF NoObs, GetObs

LEMMA FindObsHeld ==
    ASSUME OneStreamEach, StationInv, NEW i \in Ids, FindObs(i)
    PROVE  HeldInv'
<1> SUFFICES ASSUME NEW j \in Ids, Streams[j].station \in InEpoch'
             PROVE  Held(j)'
  BY DEF HeldInv
<1> DEFINE time == Head(Parsed(i))
<1>1. pc = "pass" /\ TypeInv /\ Finds(i) /\ ~Eats(i)
  BY DEF FindObs, Visiting, StationInv, Finds
<1>2. /\ obsListList' = [obsListList EXCEPT ![i] = Parsed(i)]
      /\ obsList' = [obsList EXCEPT ![Streams[i].station] = time]
      /\ tsync' = IF tsync = NoTime THEN time ELSE tsync
  BY DEF FindObs, GetObs
<1>3. time \in Nat /\ time # Empty /\ Parsed(i) # << >> /\ tsync \in Nat
  <2>1. Parsed(i) \in Seq(Nat) /\ Parsed(i) # << >> /\ time # Empty
    BY <1>1, ParsedType DEF Finds
  <2>2. tsync \in Nat
    BY <1>1, Numbers DEF TypeInv, TypeOK
  <2> QED
    BY <2>1, <2>2
<1>4. CASE j = i
  <2>1. obsListList'[i] = Parsed(i) /\ obsList'[Streams[i].station] = time
    BY <1>1, <1>2, StreamTypes DEF TypeInv, TypeOK
  <2>2. tsync' # NoTime /\ tsync' - Delta <= time /\ time <= tsync' + Delta
    <3>1. CASE tsync = NoTime
      BY <1>2, <1>3, <3>1, DeltaType DEF NoTime, Empty
    <3>2. CASE tsync # NoTime
      BY <1>1, <1>2, <1>3, <3>2, DeltaType DEF Finds, Eats, TooOld
    <3> QED
      BY <3>1, <3>2
  <2> QED
    BY <1>3, <1>4, <2>1, <2>2 DEF Held, Near
<1>5. CASE j # i
  <2>1. Streams[j].station \in InEpoch
    <3>1. epochStations \in Seq(Stations)
      BY <1>1 DEF TypeInv, TypeOK
    <3>2. epochStations' = Append(epochStations, Streams[i].station)
      BY DEF FindObs
    <3>3. InEpoch' \subseteq InEpoch \cup {Streams[i].station}
      BY <3>1, <3>2, StreamTypes DEF InEpoch
    <3> QED
      BY <1>5, <3>3 DEF OneStreamEach
  <2>2. Held(j)
    BY <1>1, <2>1 DEF StationInv, HeldInv
  <2>3. tsync' = tsync
    BY <1>2, <2>2 DEF Held
  <2> HIDE DEF time
  <2> QED
    BY <1>1, <1>2, <1>5, <2>2, <2>3, OthersHeld
<1> QED
  BY <1>4, <1>5

LEMMA HeldNext ==
    ASSUME OneStreamEach, StationInv, [Next]_vars
    PROVE  HeldInv'
<1>1. ASSUME NEW i \in Ids, EatObs(i) \/ NoObs(i) \/ FindObs(i) PROVE HeldInv'
  BY <1>1, EatObsHeld, NoObsHeld, FindObsHeld
<1>2. CASE ProcessEpoch \/ NoObservations \/ InputsFinished
  BY <1>2 DEF ProcessEpoch, NoObservations, InputsFinished, HeldInv
<1>3. CASE NextEpoch
  BY <1>3 DEF NextEpoch, HeldInv, InEpoch
<1>4. CASE \/ BeginPass \/ EndPass \/ EndWait \/ UNCHANGED vars
           \/ \E i \in Ids : SkipStream(i) \/ Arrive(i)
  <2>1. UNCHANGED <<obsListList, obsList, tsync, epochStations>>
    BY <1>4 DEF BeginPass, EndPass, EndWait, SkipStream, Arrive, vars,
                streamVars
  <2>2. pc' # "start" /\ pc' # "done" => pc # "start" /\ pc # "done"
    BY <1>4 DEF BeginPass, EndPass, EndWait, SkipStream, Arrive, vars
  <2> QED
    BY <2>1, <2>2 DEF StationInv, HeldInv, Held, Near, InEpoch
<1> QED
  BY <1>1, <1>2, <1>3, <1>4 DEF Next, MainThread

(* Where each station has one stream, the stations processed together have *)
(* observations, of this epoch: however often the loop visits a stream     *)
(* again, reads ahead, is late or skips.                                   *)
THEOREM StationsAreOnTime ==
    ASSUME OneStreamEach
    PROVE  Spec => []StationsOnTime
<1>1. Init => StationInv
  BY InitTypes DEF Init, StationInv, HeldInv
<1>2. StationInv /\ [Next]_vars => StationInv'
  BY HeldNext, TypesNext DEF StationInv
<1>3. StationInv => StationsOnTime
  <2> SUFFICES ASSUME StationInv, Synced, NEW s \in InEpoch
               PROVE  obsList[s] # NoTime /\ Near(obsList[s])
    BY DEF StationsOnTime
  <2>1. PICK i \in Ids : s = Streams[i].station
    <3>1. epochStations \in Seq(Stations)
      BY DEF StationInv, TypeInv, TypeOK
    <3>2. s \in Stations
      BY <3>1 DEF InEpoch
    <3> QED
      BY <3>2 DEF Stations
  <2>2. Held(i)
    BY <2>1 DEF StationInv, HeldInv, Synced
  <2> QED
    BY <2>1, <2>2 DEF Held, Empty, NoTime
<1> QED
  BY <1>1, <1>2, <1>3, PTL DEF Spec
------------------------------------------------------------------------------
(* Division.                                                               *)
LEMMA Division ==
    ASSUME NEW a \in Nat, NEW t \in Nat \ {0}
    PROVE  a \div t \in Nat /\ t * (a \div t) \in Nat
<1>1. a \div t \in Nat
  OBVIOUS
<1> DEFINE q == a \div t
<1>2. q \in Nat
  BY <1>1
<1> HIDE DEF q
<1>3. t * q \in Nat
  BY <1>2
<1> QED
  BY <1>1, <1>3 DEF q

LEMMA Quotient ==
    ASSUME NEW t \in Nat \ {0}, NEW q \in Nat
    PROVE  (t * q) \div t = q
  OBVIOUS

LEMMA Times ==
    ASSUME NEW t \in Nat \ {0}, NEW x \in Nat, NEW y \in Nat
    PROVE  /\ t * x \in Nat /\ t * y \in Nat
           /\ x < y => t * x + t <= t * y
           /\ t * (x + y) = t * x + t * y
<1>1. t * x \in Nat /\ t * y \in Nat /\ t * (x + y) = t * x + t * y
  OBVIOUS
<1>2. ASSUME x < y PROVE t * x + t <= t * y
  <2>1. PICK d \in Nat : y = x + 1 + d
    <3>1. y - x - 1 \in Nat /\ y = x + 1 + (y - x - 1)
      BY <1>2
    <3> QED
      BY <3>1
  <2>2. t * y = t * x + t + t * d
    BY <2>1
  <2>3. t * d \in Nat
    OBVIOUS
  <2> QED
    BY <1>1, <2>2, <2>3
<1> QED
  BY <1>1, <1>2

LEMMA DivisionGrows ==
    ASSUME NEW t \in Nat \ {0}, NEW a \in Nat, NEW b \in Nat, a <= b
    PROVE  t * (a \div t) <= t * (b \div t)
<1> DEFINE x == a \div t
           y == b \div t
<1>1. x \in Nat /\ y \in Nat /\ x <= y
  OBVIOUS
<1> HIDE DEF x, y
<1>2. x < y \/ x = y
  BY <1>1
<1>3. t * x <= t * y
  BY <1>1, <1>2, Times
<1> QED
  BY <1>3 DEF x, y

(* Multiples of a unit are equal or a unit apart.                          *)
LEMMA MultiplesApart ==
    ASSUME NEW t \in Nat \ {0}, NEW a \in Nat, NEW b \in Nat,
           Multiple(a, t), Multiple(b, t), a < b
    PROVE  a + t <= b
<1> DEFINE x == a \div t
           y == b \div t
<1>1. x \in Nat /\ y \in Nat /\ a = t * x /\ b = t * y
  BY Division DEF Multiple
<1> HIDE DEF x, y
<1>2. t * x \in Nat /\ t * y \in Nat
  BY <1>1
<1>3. CASE y < x
  <2>1. t * y + t <= t * x
    BY <1>1, <1>3, Times
  <2> QED
    BY <1>1, <1>2, <2>1
<1>4. CASE x = y
  BY <1>1, <1>2, <1>4
<1>5. CASE x < y
  BY <1>1, <1>5, Times
<1> QED
  BY <1>1, <1>3, <1>4, <1>5

LEMMA MultiplesAdd ==
    ASSUME NEW t \in Nat \ {0}, NEW a \in Nat, Multiple(a, t), NEW n \in Nat
    PROVE  Multiple(a + t * n, t)
<1> DEFINE x == a \div t
<1>1. x \in Nat /\ a = t * x
  BY Division DEF Multiple
<1> HIDE DEF x
<1>2. a + t * n = t * (x + n) /\ x + n \in Nat
  BY <1>1, Times
<1> DEFINE m == x + n
<1>3. (t * m) \div t = m
  <2>1. m \in Nat
    BY <1>2
  <2> HIDE DEF m
  <2> QED
    BY <2>1, Quotient
<1> QED
  BY <1>2, <1>3 DEF Multiple

(* How far tsync advances.                                                 *)
LEMMA StepTypes ==
    /\ Step \in Nat
    /\ Delta \in Nat /\ Delta < TicksPerSecond
    /\ TicksPerSecond <= EpochInterval =>
          Step \in Nat \ {0} /\ TicksPerSecond <= Step /\ Delta < Step
<1>1. TicksPerSecond \in Nat \ {0} /\ EpochInterval \in Nat
  BY Numbers
<1>2. Step \in Nat
  BY <1>1, Division DEF Step
<1>3. Delta \in Nat /\ Delta < TicksPerSecond
  BY <1>1 DEF Delta
<1>4. ASSUME TicksPerSecond <= EpochInterval PROVE TicksPerSecond <= Step
  <2>1. TicksPerSecond * (TicksPerSecond \div TicksPerSecond) <= Step
    BY <1>1, <1>4, DivisionGrows DEF Step
  <2>2. TicksPerSecond * (TicksPerSecond \div TicksPerSecond) = TicksPerSecond
    <3>1. TicksPerSecond \div TicksPerSecond = 1
      BY <1>1
    <3> QED
      BY <1>1, <3>1
  <2> QED
    BY <2>1, <2>2
<1> QED
  BY <1>1, <1>2, <1>3, <1>4

LEMMA NextTimes ==
    ASSUME TypeOK
    PROVE  /\ NextTime \in Nat /\ tsync \in Nat
           /\ tsync <= NextTime
           /\ NextTime = Horizon \/ tsync + Step <= NextTime
           /\ NextTime = Horizon \/ \E n \in Nat : NextTime = tsync + TicksPerSecond * n
           /\ loopEpochs = 1 => NextTime = AtMost(tsync + Step)
<1> DEFINE product == loopEpochs * EpochInterval
           advance == TicksPerSecond * (product \div TicksPerSecond)
<1>1. /\ TicksPerSecond \in Nat \ {0} /\ EpochInterval \in Nat
      /\ loopEpochs \in Nat /\ loopEpochs >= 1
      /\ tsync \in Nat /\ tsync <= Horizon /\ Horizon \in Nat
  BY Numbers DEF TypeOK
<1>2. product \in Nat /\ EpochInterval <= product
  <2>1. PICK n \in Nat : loopEpochs = 1 + n
    <3>1. loopEpochs - 1 \in Nat /\ loopEpochs = 1 + (loopEpochs - 1)
      BY <1>1
    <3> QED
      BY <3>1
  <2>2. product = EpochInterval + n * EpochInterval /\ n * EpochInterval \in Nat
    BY <1>1, <2>1
  <2> QED
    BY <1>1, <2>2
<1>3. loopEpochs = 1 => product = EpochInterval
  BY <1>1
<1> HIDE DEF product
<1>4. /\ product \div TicksPerSecond \in Nat
      /\ advance \in Nat
      /\ Step <= advance /\ Step \in Nat
  BY <1>1, <1>2, Division, DivisionGrows, StepTypes DEF Step
<1>5. loopEpochs = 1 => advance = Step
  BY <1>3 DEF Step
<1>6. NextTime = AtMost(tsync + advance)
  BY DEF NextTime, product
<1>7. NextTime = Horizon \/ NextTime = tsync + TicksPerSecond * (product \div TicksPerSecond)
  BY <1>6 DEF AtMost
<1> HIDE DEF advance
<1> QED
  BY <1>1, <1>4, <1>5, <1>6, <1>7 DEF AtMost

------------------------------------------------------------------------------
(* The order of the epochs.  The epochs processed are at least an interval *)
(* apart, and the station's observations within half a second of theirs.   *)
EpochTimes ==
    \A j \in DOMAIN history :
        /\ history[j].time # NoTime
        /\ history[j].time <= tsync
        /\ pc \in {"wait", "pass", "process"} =>
               history[j].time + Step <= tsync \/ tsync = Horizon

EpochsSpaced ==
    \A j, k \in DOMAIN history :
        j < k => history[j].time + Step <= history[k].time

ObsOnTime ==
    \A j \in DOMAIN history : \A s \in Stations :
        LET obs == history[j].obs[s]
        IN  obs # NoTime => /\ history[j].time - Delta <= obs
                            /\ obs <= history[j].time + Delta

OrderInv == EpochTimes /\ EpochsSpaced /\ ObsOnTime

(* The epoch being processed is the last of the history.                   *)
LEMMA HistoryGrows ==
    ASSUME TypeInv, ProcessEpoch
    PROVE  /\ DOMAIN history = 1 .. Len(history) /\ Len(history) \in Nat
           /\ DOMAIN history' = 1 .. Len(history) + 1
           /\ \A j \in DOMAIN history : history'[j] = history[j]
           /\ history'[Len(history) + 1].time = tsync
           /\ \A s \in Stations : history'[Len(history) + 1].obs[s]
                  = IF s \in InEpoch THEN obsList[s] ELSE NoTime
<1> DEFINE obs  == [s \in Stations |-> IF s \in InEpoch THEN obsList[s] ELSE NoTime]
           last == [time |-> tsync, obs |-> obs]
<1>1. /\ history \in Seq([time : Nat, obs : [Stations -> Nat]])
      /\ history' = Append(history, last)
  BY DEF TypeInv, TypeOK, ProcessEpoch
<1>2. last.time = tsync /\ last.obs = obs
  OBVIOUS
<1>3. \A s \in Stations : obs[s] = IF s \in InEpoch THEN obsList[s] ELSE NoTime
  OBVIOUS
<1> HIDE DEF obs, last
<1>4. /\ DOMAIN history = 1 .. Len(history) /\ Len(history) \in Nat
      /\ DOMAIN history' = 1 .. Len(history) + 1
      /\ \A j \in DOMAIN history : history'[j] = history[j]
      /\ history'[Len(history) + 1] = last
  BY <1>1
<1> QED
  BY <1>2, <1>3, <1>4

LEMMA HistoryTypes ==
    ASSUME TypeInv
    PROVE  /\ \A j \in DOMAIN history :
                  /\ history[j].time \in Nat
                  /\ \A s \in Stations : history[j].obs[s] \in Nat
           /\ tsync \in Nat /\ Step \in Nat /\ Delta \in Nat
<1> DEFINE Epochs == [time : Nat, obs : [Stations -> Nat]]
<1>1. history \in Seq(Epochs)
  BY DEF TypeInv, TypeOK
<1>2. \A j \in DOMAIN history : history[j] \in Epochs
  <2> HIDE DEF Epochs
  <2> QED
    BY <1>1
<1>3. tsync \in Nat
  BY Numbers DEF TypeInv, TypeOK
<1> QED
  BY <1>2, <1>3, StepTypes

(* A station with observations for an epoch keeps tsync below Horizon.     *)
LEMMA HeldTimes ==
    ASSUME StationInv, pc = "process", NEW s \in InEpoch
    PROVE  /\ s \in Stations /\ obsList[s] \in Nat
           /\ obsList[s] # NoTime /\ Near(obsList[s])
           /\ tsync < Horizon
<1>1. epochStations \in Seq(Stations)
  BY DEF StationInv, TypeInv, TypeOK
<1>2. s \in Stations
  BY <1>1 DEF InEpoch
<1>3. PICK i \in Ids : s = Streams[i].station
  BY <1>2 DEF Stations
<1>4. Held(i)
  BY <1>3 DEF StationInv, HeldInv
<1>5. obsListList[i] \in Seq(Nat)
  BY DEF StationInv, TypeInv, TypeOK
<1> DEFINE list == obsListList[i]
           head == Head(list)
<1>6. /\ list # << >> /\ head # Empty /\ obsList[s] = head /\ Near(head)
  BY <1>3, <1>4 DEF Held
<1>7. head \in Nat /\ 1 \in DOMAIN list /\ head = list[1]
  BY <1>5, <1>6
<1>8. head + Delta < Horizon
  BY <1>7 DEF StationInv, TypeInv, TimesKnown
<1>9. tsync \in Nat /\ Delta \in Nat /\ Horizon \in Nat
  BY Numbers, DeltaType DEF StationInv, TypeInv, TypeOK
<1> HIDE DEF list, head
<1>10. tsync < Horizon
  BY <1>6, <1>7, <1>8, <1>9 DEF Near
<1> QED
  BY <1>2, <1>6, <1>7, <1>10 DEF Empty, NoTime

LEMMA ProcessOrder ==
    ASSUME StationInv, OrderInv, ProcessEpoch
    PROVE  OrderInv'
<1> DEFINE n == Len(history) + 1
<1>1. TypeInv /\ pc = "process" /\ tsync # NoTime /\ tsync' = tsync
      /\ pc' \in {"start", "done"}
  BY DEF StationInv, ProcessEpoch
<1>2. /\ DOMAIN history = 1 .. Len(history) /\ Len(history) \in Nat
      /\ DOMAIN history' = 1 .. n
      /\ \A j \in DOMAIN history : history'[j] = history[j]
      /\ history'[n].time = tsync
      /\ \A s \in Stations : history'[n].obs[s]
             = IF s \in InEpoch THEN obsList[s] ELSE NoTime
  BY <1>1, HistoryGrows
<1>3. /\ \A j \in DOMAIN history : history[j].time \in Nat
      /\ tsync \in Nat /\ Step \in Nat
  BY <1>1, HistoryTypes
<1>4. PICK s \in InEpoch : TRUE
  <2>1. epochStations \in Seq(Stations) /\ epochStations # << >>
    BY <1>1 DEF ProcessEpoch, TypeInv, TypeOK
  <2>2. 1 \in DOMAIN epochStations
    BY <2>1
  <2> QED
    BY <2>2 DEF InEpoch
<1>5. tsync < Horizon
  BY <1>1, <1>4, HeldTimes
<1>6. \A j \in DOMAIN history : history[j].time + Step <= tsync
  BY <1>1, <1>3, <1>5, Numbers DEF OrderInv, EpochTimes
<1>7. \A j \in DOMAIN history' : j \in DOMAIN history \/ j = n
  BY <1>2
<1>8. EpochTimes'
  <2> SUFFICES ASSUME NEW j \in DOMAIN history'
               PROVE  history'[j].time # NoTime /\ history'[j].time <= tsync'
    BY <1>1 DEF EpochTimes
  <2>1. CASE j \in DOMAIN history
    BY <1>1, <1>2, <2>1 DEF OrderInv, EpochTimes
  <2>2. CASE j = n
    BY <1>1, <1>2, <1>3, <2>2
  <2> QED
    BY <1>7, <2>1, <2>2
<1>9. EpochsSpaced'
  <2> SUFFICES ASSUME NEW j \in DOMAIN history', NEW k \in DOMAIN history', j < k
               PROVE  history'[j].time + Step <= history'[k].time
    BY DEF EpochsSpaced
  <2>1. j \in DOMAIN history
    BY <1>2
  <2>2. CASE k \in DOMAIN history
    BY <1>2, <2>1, <2>2 DEF OrderInv, EpochsSpaced
  <2>3. CASE k = n
    BY <1>2, <1>6, <2>1, <2>3
  <2> QED
    BY <1>7, <2>2, <2>3
<1>10. ObsOnTime'
  <2> SUFFICES ASSUME NEW j \in DOMAIN history', NEW t \in Stations,
                      history'[j].obs[t] # NoTime
               PROVE  /\ history'[j].time - Delta <= history'[j].obs[t]
                      /\ history'[j].obs[t] <= history'[j].time + Delta
    BY DEF ObsOnTime
  <2>1. CASE j \in DOMAIN history
    BY <1>2, <2>1 DEF OrderInv, ObsOnTime
  <2>2. CASE j = n
    <3>1. t \in InEpoch /\ history'[j].obs[t] = obsList[t]
      BY <1>2, <2>2
    <3>2. Near(obsList[t])
      BY <1>1, <3>1, HeldTimes
    <3> QED
      BY <1>2, <2>2, <3>1, <3>2 DEF Near
  <2> QED
    BY <1>7, <2>1, <2>2
<1> QED
  BY <1>8, <1>9, <1>10 DEF OrderInv

LEMMA NextEpochOrder ==
    ASSUME TypeInv, OrderInv, NextEpoch
    PROVE  OrderInv'
<1>1. history' = history /\ tsync' = IF tsync = NoTime THEN NoTime ELSE NextTime
  BY DEF NextEpoch
<1>2. /\ \A j \in DOMAIN history : history[j].time \in Nat
      /\ tsync \in Nat /\ Step \in Nat
  BY HistoryTypes
<1>3. /\ NextTime \in Nat /\ tsync <= NextTime
      /\ NextTime = Horizon \/ tsync + Step <= NextTime
  BY NextTimes DEF TypeInv
<1>4. EpochTimes'
  <2> SUFFICES ASSUME NEW j \in DOMAIN history
               PROVE  /\ history[j].time # NoTime
                      /\ history[j].time <= tsync'
                      /\ history[j].time + Step <= tsync' \/ tsync' = Horizon
    BY <1>1 DEF EpochTimes
  <2>1. history[j].time # NoTime /\ history[j].time <= tsync
    BY DEF OrderInv, EpochTimes
  <2>2. tsync # NoTime
    BY <1>2, <2>1 DEF NoTime
  <2> QED
    BY <1>1, <1>2, <1>3, <2>1, <2>2
<1> QED
  BY <1>1, <1>4 DEF OrderInv, EpochsSpaced, ObsOnTime

LEMMA FindObsOrder ==
    ASSUME TypeInv, OrderInv, NEW i \in Ids, FindObs(i)
    PROVE  OrderInv'
<1>1. history' = history /\ pc' = pc
  BY DEF FindObs, GetObs
<1>2. tsync = NoTime => DOMAIN history = {}
  <2> SUFFICES ASSUME NEW j \in DOMAIN history PROVE tsync # NoTime
    OBVIOUS
  <2>1. history[j].time \in Nat /\ tsync \in Nat
    BY HistoryTypes
  <2>2. history[j].time # NoTime /\ history[j].time <= tsync
    BY DEF OrderInv, EpochTimes
  <2> QED
    BY <2>1, <2>2 DEF NoTime
<1>3. tsync # NoTime => tsync' = tsync
  BY DEF FindObs
<1> QED
  BY <1>1, <1>2, <1>3 DEF OrderInv, EpochTimes, EpochsSpaced, ObsOnTime

LEMMA OrderNext ==
    ASSUME StationInv, OrderInv, [Next]_vars
    PROVE  OrderInv'
<1>1. TypeInv
  BY DEF StationInv
<1>2. CASE ProcessEpoch
  BY <1>2, ProcessOrder
<1>3. CASE NextEpoch
  BY <1>1, <1>3, NextEpochOrder
<1>4. ASSUME NEW i \in Ids, FindObs(i) PROVE OrderInv'
  BY <1>1, <1>4, FindObsOrder
<1>5. CASE \/ BeginPass \/ EndPass \/ EndWait \/ InputsFinished
           \/ NoObservations \/ UNCHANGED vars
           \/ \E i \in Ids : SkipStream(i) \/ EatObs(i) \/ NoObs(i) \/ Arrive(i)
  <2>1. history' = history /\ tsync' = tsync
    BY <1>5 DEF BeginPass, EndPass, EndWait, InputsFinished, NoObservations,
                SkipStream, EatObs, NoObs, GetObs, Arrive, vars
  <2>2. pc' \in {"wait", "pass", "process"} => pc \in {"wait", "pass", "process"}
    BY <1>5 DEF BeginPass, EndPass, EndWait, InputsFinished, NoObservations,
                SkipStream, EatObs, NoObs, GetObs, Arrive, Visiting, vars
  <2> QED
    BY <2>1, <2>2 DEF OrderInv, EpochTimes, EpochsSpaced, ObsOnTime
<1> QED
  BY <1>2, <1>3, <1>4, <1>5 DEF Next, MainThread

(* Where each station has one stream, and nothing is near two epochs: no   *)
(* observation is processed in two, or after a later one of its station.   *)
THEOREM ObsAreInOrder ==
    ASSUME OneStreamEach, 2 * Delta < Step
    PROVE  Spec => []ObsInOrder
<1>1. Init => StationInv /\ OrderInv
  BY InitTypes
     DEF Init, StationInv, HeldInv, OrderInv, EpochTimes, EpochsSpaced, ObsOnTime
<1>2. StationInv /\ OrderInv /\ [Next]_vars => (StationInv /\ OrderInv)'
  BY HeldNext, TypesNext, OrderNext DEF StationInv
<1>3. StationInv /\ OrderInv => ObsInOrder
  <2> SUFFICES ASSUME StationInv, OrderInv,
                      NEW j \in DOMAIN history, NEW k \in DOMAIN history,
                      NEW s \in Stations, j < k,
                      history[j].obs[s] # NoTime, history[k].obs[s] # NoTime
               PROVE  history[j].obs[s] < history[k].obs[s]
    BY DEF ObsInOrder
  <2> DEFINE first  == history[j].obs[s]
             second == history[k].obs[s]
             before == history[j].time
             after  == history[k].time
  <2>1. /\ first \in Nat /\ second \in Nat /\ before \in Nat /\ after \in Nat
        /\ Step \in Nat /\ Delta \in Nat
    BY HistoryTypes DEF StationInv
  <2>2. first <= before + Delta /\ after - Delta <= second
    BY DEF OrderInv, ObsOnTime
  <2>3. before + Step <= after
    BY DEF OrderInv, EpochsSpaced
  <2> HIDE DEF first, second, before, after
  <2>4. first < second
    BY <2>1, <2>2, <2>3
  <2> QED
    BY <2>4 DEF first, second
<1> QED
  BY <1>1, <1>2, <1>3, PTL DEF Spec

------------------------------------------------------------------------------
(* Observations on whole seconds.  tsync is on one too, so that what is    *)
(* found for an epoch is exactly of its time, and its station is not       *)
(* visited again.                                                          *)
OnSecond(time) == Multiple(time, TicksPerSecond)

TimesOnSeconds ==
    /\ tsync = Horizon \/ OnSecond(tsync)
    /\ \A i \in Ids : \A k \in DOMAIN obsListList[i] : OnSecond(obsListList[i][k])

FoundExactly ==
    pc # "start" /\ pc # "done" => \A s \in InEpoch : AlreadyHave(s)

SecondsInv == TimesOnSeconds /\ FoundExactly /\ EachStationOnce

LEMMA ParsedOnSeconds ==
    ASSUME OnSeconds, TypeInv, TimesOnSeconds, NEW i \in Ids
    PROVE  \A k \in DOMAIN Parsed(i) : OnSecond(Parsed(i)[k])
<1>1. obsListList[i] \in Seq(Nat)
  BY DEF TypeInv, TypeOK
<1>2. CASE Parses(i) /\ More(i)
  <2> DEFINE obs == Streams[i].obs[filePos[i] + 1]
  <2>1. filePos[i] + 1 \in DOMAIN Streams[i].obs
    <3>1. arrived[i] \in Nat /\ arrived[i] <= Len(Streams[i].obs)
      BY DEF TypeInv, TypeOK, ArrivedInStream
    <3>2. Len(Streams[i].obs) \in Nat /\ DOMAIN Streams[i].obs = 1 .. Len(Streams[i].obs)
      BY StreamTypes
    <3> QED
      BY <1>2, <3>1, <3>2 DEF More
  <2>2. OnSecond(obs) /\ obs \in Nat
    BY <2>1, ObsTimes, StreamTypes DEF OnSeconds, OnSecond
  <2>3. Parsed(i) = Append(obsListList[i], obs)
    BY <1>2 DEF Parsed
  <2> HIDE DEF obs
  <2>4. \A k \in DOMAIN Parsed(i) :
            Parsed(i)[k] = obs \/ (k \in DOMAIN obsListList[i]
                                   /\ Parsed(i)[k] = obsListList[i][k])
    BY <1>1, <2>2, <2>3
  <2> QED
    BY <2>2, <2>4 DEF TimesOnSeconds
<1>3. CASE ~(Parses(i) /\ More(i))
  BY <1>3 DEF Parsed, TimesOnSeconds
<1> QED
  BY <1>2, <1>3

LEMMA FindsExactly ==
    ASSUME OnSeconds, TypeInv, TimesOnSeconds, NEW i \in Ids, Finds(i)
    PROVE  /\ Head(Parsed(i)) \in Nat /\ Head(Parsed(i)) # NoTime
           /\ OnSecond(Head(Parsed(i)))
           /\ tsync # NoTime => Head(Parsed(i)) = tsync
<1> DEFINE list == Parsed(i)
           time == Head(list)
<1>1. list \in Seq(Nat) /\ list # << >> /\ time # Empty /\ ~Eats(i)
  BY ParsedType DEF Finds
<1>2. time \in Nat /\ time = list[1] /\ 1 \in DOMAIN list /\ 1 \in 1 .. Len(list)
  BY <1>1
<1>3. OnSecond(time) /\ time + Delta < Horizon
  BY <1>2, ParsedOnSeconds, ParsedType
<1>4. /\ tsync \in Nat /\ Horizon \in Nat /\ TicksPerSecond \in Nat \ {0}
      /\ Delta \in Nat /\ Delta < TicksPerSecond
  BY Numbers, StepTypes DEF TypeInv, TypeOK
<1>5. tsync # NoTime => tsync - Delta <= time /\ time <= tsync + Delta
  BY <1>1, <1>2, <1>4 DEF Finds, Eats, TooOld
<1> HIDE DEF time
<1>6. ASSUME tsync # NoTime PROVE time = tsync
  <2>1. tsync # Horizon
    BY <1>2, <1>3, <1>4, <1>5, <1>6
  <2>2. OnSecond(tsync)
    BY <2>1 DEF TimesOnSeconds
  <2>3. ~(time < tsync)
    <3>1. time < tsync => time + TicksPerSecond <= tsync
      BY <1>2, <1>3, <1>4, <2>2, MultiplesApart DEF OnSecond
    <3> QED
      BY <1>2, <1>4, <1>5, <1>6, <3>1
  <2>4. ~(tsync < time)
    <3>1. tsync < time => tsync + TicksPerSecond <= time
      BY <1>2, <1>3, <1>4, <2>2, MultiplesApart DEF OnSecond
    <3> QED
      BY <1>2, <1>4, <1>5, <1>6, <3>1
  <2> QED
    BY <1>2, <1>4, <2>3, <2>4
<1> QED
  BY <1>1, <1>2, <1>3, <1>6 DEF time, NoTime, Empty

(* A list of such times, put in the place of a stream's.                   *)
LEMMA ListOnSeconds ==
    ASSUME TypeInv, TimesOnSeconds, NEW i \in Ids, NEW list,
           \A k \in DOMAIN list : OnSecond(list[k]),
           obsListList' = [obsListList EXCEPT ![i] = list],
           tsync' = Horizon \/ OnSecond(tsync')
    PROVE  TimesOnSeconds'
<1>1. \A j \in Ids : obsListList'[j] = IF j = i THEN list ELSE obsListList[j]
  BY DEF TypeInv, TypeOK
<1> QED
  BY <1>1 DEF TimesOnSeconds, OnSecond, Multiple

LEMMA EatObsSeconds ==
    ASSUME OnSeconds, TypeInv, SecondsInv, NEW i \in Ids, EatObs(i)
    PROVE  SecondsInv'
<1> DEFINE list == Tail(Parsed(i))
<1>1. Parsed(i) \in Seq(Nat) /\ Parsed(i) # << >>
  BY ParsedType DEF EatObs, Eats
<1>2. \A k \in DOMAIN list : k + 1 \in DOMAIN Parsed(i) /\ list[k] = Parsed(i)[k + 1]
  BY <1>1
<1>3. \A k \in DOMAIN list : OnSecond(list[k])
  BY <1>2, ParsedOnSeconds DEF SecondsInv
<1>4. /\ obsListList' = [obsListList EXCEPT ![i] = list]
      /\ UNCHANGED <<tsync, epochStations, obsList, pc>>
  BY DEF EatObs
<1> HIDE DEF list
<1>5. TimesOnSeconds'
  <2>1. tsync' = Horizon \/ OnSecond(tsync')
    BY <1>4 DEF SecondsInv, TimesOnSeconds
  <2> QED
    BY <1>3, <1>4, <2>1, ListOnSeconds DEF SecondsInv
<1> QED
  BY <1>4, <1>5 DEF SecondsInv, FoundExactly, InEpoch, AlreadyHave, EachStationOnce

LEMMA NoObsSeconds ==
    ASSUME OnSeconds, TypeInv, SecondsInv, NEW i \in Ids, NoObs(i)
    PROVE  SecondsInv'
<1>1. /\ obsListList' = [obsListList EXCEPT ![i] = Parsed(i)]
      /\ obsList' = [obsList EXCEPT ![Streams[i].station] = NoTime]
      /\ UNCHANGED <<tsync, epochStations, pc>>
      /\ ~AlreadyHave(Streams[i].station) /\ pc = "pass"
  BY DEF NoObs, GetObs, Visiting
<1>2. TimesOnSeconds'
  <2>1. tsync' = Horizon \/ OnSecond(tsync')
    BY <1>1 DEF SecondsInv, TimesOnSeconds
  <2> QED
    BY <1>1, <2>1, ListOnSeconds, ParsedOnSeconds DEF SecondsInv
<1>3. FoundExactly'
  <2> SUFFICES ASSUME NEW s \in InEpoch PROVE AlreadyHave(s)'
    BY <1>1 DEF FoundExactly, InEpoch
  <2>1. AlreadyHave(s)
    BY <1>1 DEF SecondsInv, FoundExactly
  <2>2. s \in Stations
    BY DEF InEpoch, TypeInv, TypeOK
  <2>3. obsList'[s] = obsList[s]
    BY <1>1, <2>1, <2>2 DEF TypeInv, TypeOK
  <2> QED
    BY <1>1, <2>1, <2>3 DEF AlreadyHave
<1> QED
  BY <1>1, <1>2, <1>3 DEF SecondsInv, EachStationOnce

LEMMA FindObsSeconds ==
    ASSUME OnSeconds, TypeInv, SecondsInv, NEW i \in Ids, FindObs(i)
    PROVE  SecondsInv'
<1> DEFINE time    == Head(Parsed(i))
           station == Streams[i].station
<1>1. /\ obsListList' = [obsListList EXCEPT ![i] = Parsed(i)]
      /\ obsList' = [obsList EXCEPT ![station] = time]
      /\ tsync' = IF tsync = NoTime THEN time ELSE tsync
      /\ epochStations' = Append(epochStations, station)
      /\ pc' = pc /\ pc = "pass"
      /\ ~AlreadyHave(station)
  BY DEF FindObs, GetObs, Visiting
<1>2. Finds(i)
  BY DEF FindObs
<1>3. /\ time \in Nat /\ time # NoTime /\ OnSecond(time)
      /\ tsync # NoTime => time = tsync
  BY <1>2, FindsExactly DEF SecondsInv
<1>4. tsync' = time
  BY <1>1, <1>3
<1>5. station \in Stations /\ epochStations \in Seq(Stations)
  BY StreamTypes DEF TypeInv, TypeOK
<1>6. station \notin InEpoch
  BY <1>1 DEF SecondsInv, FoundExactly
<1> HIDE DEF time, station
<1>7. /\ DOMAIN epochStations = 1 .. Len(epochStations)
      /\ Len(epochStations) \in Nat
      /\ DOMAIN epochStations' = 1 .. Len(epochStations) + 1
      /\ \A k \in DOMAIN epochStations : epochStations'[k] = epochStations[k]
      /\ epochStations'[Len(epochStations) + 1] = station
  BY <1>1, <1>5
<1>8. \A k \in DOMAIN epochStations' :
          k \in DOMAIN epochStations \/ k = Len(epochStations) + 1
  BY <1>7
<1>9. TimesOnSeconds'
  BY <1>1, <1>3, <1>4, ListOnSeconds, ParsedOnSeconds DEF SecondsInv
<1>10. FoundExactly'
  <2> SUFFICES ASSUME NEW s \in InEpoch' PROVE AlreadyHave(s)'
    BY DEF FoundExactly
  <2>1. s \in InEpoch \/ s = station
    BY <1>7, <1>8 DEF InEpoch
  <2>2. CASE s = station
    <3>1. obsList'[station] = time
      BY <1>1, <1>5 DEF TypeInv, TypeOK
    <3> QED
      BY <1>3, <1>4, <2>2, <3>1 DEF AlreadyHave
  <2>3. CASE s \in InEpoch /\ s # station
    <3>1. AlreadyHave(s) /\ s \in Stations
      BY <1>1, <1>5, <2>3 DEF SecondsInv, FoundExactly, InEpoch
    <3>2. obsList'[s] = obsList[s]
      BY <1>1, <2>3, <3>1 DEF TypeInv, TypeOK
    <3> QED
      BY <1>3, <1>4, <3>1, <3>2 DEF AlreadyHave
  <2> QED
    BY <2>1, <2>2, <2>3
<1>11. EachStationOnce'
  <2> SUFFICES ASSUME NEW j \in DOMAIN epochStations', NEW k \in DOMAIN epochStations',
                      epochStations'[j] = epochStations'[k]
               PROVE  j = k
    BY DEF EachStationOnce
  <2>1. \A l \in DOMAIN epochStations : epochStations[l] # station
    BY <1>6 DEF InEpoch
  <2>2. (j \in DOMAIN epochStations) <=> (k \in DOMAIN epochStations)
    BY <1>7, <1>8, <2>1
  <2>3. CASE j \in DOMAIN epochStations /\ k \in DOMAIN epochStations
    BY <1>7, <2>3 DEF SecondsInv, EachStationOnce
  <2> QED
    BY <1>8, <2>2, <2>3
<1> QED
  BY <1>9, <1>10, <1>11 DEF SecondsInv

LEMMA NextEpochSeconds ==
    ASSUME TypeInv, SecondsInv, NextEpoch
    PROVE  SecondsInv'
<1>1. /\ tsync' = IF tsync = NoTime THEN NoTime ELSE NextTime
      /\ obsListList' = obsListList /\ epochStations' = << >>
  BY DEF NextEpoch, streamVars
<1>2. tsync' = Horizon \/ OnSecond(tsync')
  <2>1. TicksPerSecond \in Nat \ {0} /\ tsync \in Nat /\ tsync <= Horizon /\ Horizon \in Nat
    BY Numbers DEF TypeInv, TypeOK
  <2>2. CASE tsync = NoTime
    BY <1>1, <2>2 DEF SecondsInv, TimesOnSeconds
  <2>3. CASE tsync # NoTime /\ NextTime # Horizon
    <3>1. PICK n \in Nat : NextTime = tsync + TicksPerSecond * n
      BY <2>3, NextTimes DEF TypeInv
    <3>2. NextTime \in Nat /\ tsync <= NextTime /\ NextTime <= Horizon
      BY NextTimes, NextTimeType, Numbers DEF TypeInv
    <3>3. tsync # Horizon
      BY <2>1, <2>3, <3>2
    <3>4. OnSecond(tsync)
      BY <3>3 DEF SecondsInv, TimesOnSeconds
    <3> QED
      BY <1>1, <2>1, <2>3, <3>1, <3>4, MultiplesAdd DEF OnSecond
  <2>4. CASE tsync # NoTime /\ NextTime = Horizon
    BY <1>1, <2>4
  <2> QED
    BY <2>2, <2>3, <2>4
<1>3. TimesOnSeconds'
  BY <1>1, <1>2 DEF SecondsInv, TimesOnSeconds, OnSecond, Multiple
<1> QED
  BY <1>1, <1>3 DEF SecondsInv, FoundExactly, InEpoch, EachStationOnce

LEMMA SecondsNext ==
    ASSUME OnSeconds, TypeInv, SecondsInv, [Next]_vars
    PROVE  SecondsInv'
<1>1. CASE NextEpoch
  BY <1>1, NextEpochSeconds
<1>2. ASSUME NEW i \in Ids, EatObs(i) \/ NoObs(i) \/ FindObs(i) PROVE SecondsInv'
  BY <1>2, EatObsSeconds, NoObsSeconds, FindObsSeconds
<1>3. CASE \/ BeginPass \/ EndPass \/ EndWait \/ InputsFinished
           \/ NoObservations \/ ProcessEpoch \/ UNCHANGED vars
           \/ \E i \in Ids : SkipStream(i) \/ Arrive(i)
  <2>1. UNCHANGED <<obsListList, obsList, tsync, epochStations>>
    BY <1>3 DEF BeginPass, EndPass, EndWait, InputsFinished, NoObservations,
                ProcessEpoch, SkipStream, Arrive, vars, streamVars
  <2>2. pc' # "start" /\ pc' # "done" => pc # "start" /\ pc # "done"
    BY <1>3 DEF BeginPass, EndPass, EndWait, InputsFinished, NoObservations,
                ProcessEpoch, SkipStream, Arrive, vars
  <2> QED
    BY <2>1, <2>2 DEF SecondsInv, TimesOnSeconds, OnSecond, Multiple,
                      FoundExactly, InEpoch, AlreadyHave, EachStationOnce
<1> QED
  BY <1>1, <1>2, <1>3 DEF Next, MainThread

LEMMA InitSeconds == OnSeconds /\ Init => SecondsInv
  BY DEF Init, OnSeconds, SecondsInv, TimesOnSeconds, OnSecond, FoundExactly,
         InEpoch, EachStationOnce

(* Where receivers observe on whole seconds, as in the files the loop is   *)
(* made for, no station is put on the list of an epoch twice, were there   *)
(* several streams for it: the list is what is processed in parallel.      *)
THEOREM StationsAreOnce ==
    ASSUME OnSeconds
    PROVE  Spec => []EachStationOnce
<1>1. Init => TypeInv /\ SecondsInv
  BY InitTypes, InitSeconds
<1>2. TypeInv /\ SecondsInv /\ [Next]_vars => (TypeInv /\ SecondsInv)'
  BY TypesNext, SecondsNext
<1>3. SecondsInv => EachStationOnce
  BY DEF SecondsInv
<1> QED
  BY <1>1, <1>2, <1>3, PTL DEF Spec

(* Nor, then, does anything but an observation of the epoch itself get     *)
(* into it, and that also where a station has several streams.             *)
THEOREM StationsAreExact ==
    ASSUME OnSeconds
    PROVE  Spec => []StationsOnTime
<1>1. Init => TypeInv /\ SecondsInv
  BY InitTypes, InitSeconds
<1>2. TypeInv /\ SecondsInv /\ [Next]_vars => (TypeInv /\ SecondsInv)'
  BY TypesNext, SecondsNext
<1>3. TypeInv /\ SecondsInv => StationsOnTime
  <2> SUFFICES ASSUME TypeInv, SecondsInv, Synced, NEW s \in InEpoch
               PROVE  obsList[s] # NoTime /\ Near(obsList[s])
    BY DEF StationsOnTime
  <2>1. obsList[s] # NoTime /\ obsList[s] = tsync
    BY DEF SecondsInv, FoundExactly, AlreadyHave, Synced
  <2>2. tsync \in Nat /\ Delta \in Nat
    BY Numbers, DeltaType DEF TypeInv, TypeOK
  <2> QED
    BY <2>1, <2>2 DEF Near
<1> QED
  BY <1>1, <1>2, <1>3, PTL DEF Spec

------------------------------------------------------------------------------
(* What a stream holds are the last epochs read from its input.            *)
Segment(list, obs, read) ==
    /\ Len(list) <= read
    /\ read <= Len(obs)
    /\ \A k \in 1 .. Len(list) : list[k] = obs[read - Len(list) + k]

ReadTo(pos, obs) == IF pos = -1 THEN Len(obs) ELSE pos

BufferInv ==
    \A i \in Ids :
        /\ filePos[i] <= arrived[i]
        /\ IsFile(Streams[i]) => arrived[i] = Len(Streams[i].obs)
        /\ filePos[i] = -1 => IsFile(Streams[i])
        /\ Segment(obsListList[i], Streams[i].obs, ReadTo(filePos[i], Streams[i].obs))

LEMMA InitBuffer == Init => BufferInv
<1> SUFFICES ASSUME Init, NEW i \in Ids
             PROVE  /\ filePos[i] <= arrived[i]
                    /\ IsFile(Streams[i]) => arrived[i] = Len(Streams[i].obs)
                    /\ filePos[i] = -1 => IsFile(Streams[i])
                    /\ Segment(obsListList[i], Streams[i].obs,
                               ReadTo(filePos[i], Streams[i].obs))
  BY DEF BufferInv
<1>1. Len(Streams[i].obs) \in Nat
  BY StreamTypes
<1>2. filePos[i] = 0 /\ obsListList[i] = << >>
  BY DEF Init
<1>3. arrived[i] = IF IsFile(Streams[i]) THEN Len(Streams[i].obs) ELSE 0
  BY DEF Init
<1> QED
  BY <1>1, <1>2, <1>3 DEF Segment, ReadTo

(* Reading on: what was parsed is the segment that ends further on.        *)
LEMMA ParsedSegment ==
    ASSUME TypeInv, BufferInv, NEW i \in Ids
    PROVE  /\ FilePos(i) \in Int /\ FilePos(i) <= arrived[i]
           /\ FilePos(i) = -1 => IsFile(Streams[i])
           /\ Segment(Parsed(i), Streams[i].obs, ReadTo(FilePos(i), Streams[i].obs))
<1> DEFINE obs  == Streams[i].obs
           list == obsListList[i]
           pos  == filePos[i]
<1>1. /\ obs \in Seq(Nat) /\ list \in Seq(Nat)
      /\ pos \in Nat \cup {-1} /\ arrived[i] \in Nat /\ arrived[i] <= Len(obs)
  BY StreamTypes DEF TypeInv, TypeOK, ArrivedInStream
<1>2. /\ pos <= arrived[i]
      /\ IsFile(Streams[i]) => arrived[i] = Len(obs)
      /\ pos = -1 => IsFile(Streams[i])
      /\ Segment(list, obs, ReadTo(pos, obs))
  BY DEF BufferInv
<1>3. CASE Parses(i) /\ More(i)
  <2>1. pos \in Nat /\ pos < arrived[i]
    BY <1>1, <1>3 DEF More
  <2>2. FilePos(i) = pos + 1 /\ Parsed(i) = Append(list, obs[pos + 1])
    <3>1. Parsed(i) = Append(list, obs[pos + 1])
      BY <1>3 DEF Parsed
    <3>2. FilePos(i) = pos + 1
      BY <1>3 DEF FilePos
    <3> QED
      BY <3>1, <3>2
  <2> HIDE DEF obs, list, pos
  <2>3. obs[pos + 1] \in Nat
    <3>1. pos + 1 \in 1 .. Len(obs)
      BY <1>1, <2>1
    <3> QED
      BY <1>1, <3>1
  <2>4. ReadTo(pos, obs) = pos /\ ReadTo(pos + 1, obs) = pos + 1
    BY <2>1 DEF ReadTo
  <2>5. /\ Len(Append(list, obs[pos + 1])) = Len(list) + 1
        /\ Append(list, obs[pos + 1])[Len(list) + 1] = obs[pos + 1]
        /\ \A k \in 1 .. Len(list) : Append(list, obs[pos + 1])[k] = list[k]
        /\ Len(list) \in Nat
    BY <1>1, <2>3
  <2>6. /\ Len(list) <= pos
        /\ \A k \in 1 .. Len(list) : list[k] = obs[pos - Len(list) + k]
    BY <1>2, <2>4 DEF Segment
  <2>7. \A k \in 1 .. Len(list) + 1 :
            /\ k \in 1 .. Len(list) \/ k = Len(list) + 1
            /\ pos + 1 - (Len(list) + 1) + k = pos - Len(list) + k
    BY <2>1, <2>5
  <2>8. pos - Len(list) + (Len(list) + 1) = pos + 1
    BY <2>1, <2>5
  <2>9. Segment(Append(list, obs[pos + 1]), obs, pos + 1)
    <3> SUFFICES ASSUME NEW k \in 1 .. Len(list) + 1
                 PROVE  Append(list, obs[pos + 1])[k] = obs[pos - Len(list) + k]
      BY <1>1, <2>1, <2>5, <2>6, <2>7 DEF Segment
    <3> QED
      BY <2>5, <2>6, <2>7, <2>8
  <2> QED
    BY <1>1, <2>1, <2>2, <2>4, <2>9 DEF obs
<1>4. CASE ~(Parses(i) /\ More(i))
  <2>1. Parsed(i) = list
    BY <1>4 DEF Parsed
  <2>2. CASE FilePos(i) = pos
    BY <1>1, <1>2, <2>1, <2>2
  <2>3. CASE FilePos(i) # pos
    <3>1. FilePos(i) = -1 /\ ~More(i) /\ IsFile(Streams[i])
      BY <1>4, <2>3 DEF FilePos
    <3>2. ReadTo(pos, obs) = Len(obs) /\ ReadTo(-1, obs) = Len(obs)
      BY <1>1, <1>2, <3>1 DEF More, ReadTo
    <3> QED
      BY <1>1, <1>2, <2>1, <3>1, <3>2
  <2> QED
    BY <2>2, <2>3
<1> QED
  BY <1>3, <1>4

LEMMA TailSegment ==
    ASSUME NEW obs \in Seq(Nat), NEW list \in Seq(Nat), NEW read \in Nat,
           Segment(list, obs, read), list # << >>
    PROVE  Segment(Tail(list), obs, read)
<1>1. /\ Len(Tail(list)) = Len(list) - 1 /\ Len(list) \in Nat /\ Len(list) > 0
      /\ \A k \in 1 .. Len(list) - 1 : Tail(list)[k] = list[k + 1] /\ k + 1 \in 1 .. Len(list)
  OBVIOUS
<1>2. /\ Len(list) <= read /\ read <= Len(obs)
      /\ \A k \in 1 .. Len(list) : list[k] = obs[read - Len(list) + k]
  BY DEF Segment
<1>3. \A k \in 1 .. Len(list) - 1 :
          read - (Len(list) - 1) + k = read - Len(list) + (k + 1)
  BY <1>1
<1> QED
  BY <1>1, <1>2, <1>3 DEF Segment

(* Epochs in order stay in order in a list.                                *)
LEMMA SegmentAscends ==
    ASSUME ObsAscend, NEW i \in Ids, NEW list \in Seq(Nat), NEW read \in Nat,
           Segment(list, Streams[i].obs, read)
    PROVE  \A k \in DOMAIN list : list[k] # Empty /\ list[1] <= list[k]
<1> SUFFICES ASSUME NEW k \in DOMAIN list
             PROVE  list[k] # Empty /\ list[1] <= list[k]
  OBVIOUS
<1> DEFINE obs == Streams[i].obs
           first == read - Len(list) + 1
           kth == read - Len(list) + k
<1>1. /\ obs \in Seq(Nat) /\ Len(list) \in Nat
      /\ k \in 1 .. Len(list) /\ 1 \in 1 .. Len(list)
      /\ list[1] \in Nat /\ list[k] \in Nat
  BY StreamTypes
<1>2. /\ Len(list) <= read /\ read <= Len(obs)
      /\ list[1] = obs[first] /\ list[k] = obs[kth]
  BY <1>1 DEF Segment
<1>3. /\ first \in DOMAIN obs /\ kth \in DOMAIN obs
      /\ first = kth \/ first < kth
  <2>1. DOMAIN obs = 1 .. Len(obs) /\ Len(obs) \in Nat
    BY <1>1
  <2> HIDE DEF obs
  <2>2. first \in 1 .. Len(obs) /\ kth \in 1 .. Len(obs)
    <3> DEFINE n == Len(list)
               m == Len(obs)
    <3>1. /\ n \in Nat /\ m \in Nat /\ read \in Nat /\ k \in 1 .. n /\ 1 \in 1 .. n
          /\ n <= read /\ read <= m
      BY <1>1, <1>2, <2>1
    <3> HIDE DEF n, m
    <3>2. read - n + 1 \in 1 .. m /\ read - n + k \in 1 .. m
      BY <3>1
    <3> QED
      BY <3>2 DEF n, m
  <2>3. first = kth \/ first < kth
    BY <1>1
  <2> QED
    BY <2>1, <2>2, <2>3
<1>4. obs[kth] # Empty /\ (first < kth => obs[first] <= obs[kth])
  BY <1>3 DEF ObsAscend
<1> HIDE DEF first, kth
<1> QED
  BY <1>1, <1>2, <1>3, <1>4

LEMMA BufferStep ==
    ASSUME TypeInv, BufferInv, NEW i \in Ids,
           EatObs(i) \/ NoObs(i) \/ FindObs(i)
    PROVE  BufferInv'
<1> DEFINE obs  == Streams[i].obs
           read == ReadTo(FilePos(i), obs)
<1>1. /\ FilePos(i) \in Int /\ FilePos(i) <= arrived[i]
      /\ FilePos(i) = -1 => IsFile(Streams[i])
      /\ Segment(Parsed(i), obs, read)
  BY ParsedSegment
<1>2. Parsed(i) \in Seq(Nat) /\ obs \in Seq(Nat) /\ read \in Nat
  BY ParsedType, StreamTypes DEF ReadTo
<1>3. PICK list : /\ obsListList' = [obsListList EXCEPT ![i] = list]
                  /\ Segment(list, obs, read)
  <2>1. CASE EatObs(i)
    <3>1. Parsed(i) # << >> /\ obsListList' = [obsListList EXCEPT ![i] = Tail(Parsed(i))]
      BY <2>1 DEF EatObs, Eats
    <3> HIDE DEF read, obs
    <3> QED
      BY <1>1, <1>2, <3>1, TailSegment
  <2>2. CASE NoObs(i) \/ FindObs(i)
    BY <1>1, <2>2 DEF NoObs, FindObs, GetObs
  <2> QED
    BY <2>1, <2>2
<1>4. arrived' = arrived /\ filePos' = [filePos EXCEPT ![i] = FilePos(i)]
  BY DEF EatObs, NoObs, FindObs, GetObs
<1>5. filePos' = [j \in Ids |-> IF j = i THEN FilePos(i) ELSE filePos[j]]
  BY <1>4 DEF TypeInv, TypeOK
<1>6. \A j \in Ids : obsListList'[j] = IF j = i THEN list ELSE obsListList[j]
  BY <1>3 DEF TypeInv, TypeOK
<1> SUFFICES ASSUME NEW j \in Ids
             PROVE  /\ filePos'[j] <= arrived[j]
                    /\ IsFile(Streams[j]) => arrived[j] = Len(Streams[j].obs)
                    /\ filePos'[j] = -1 => IsFile(Streams[j])
                    /\ Segment(obsListList'[j], Streams[j].obs,
                               ReadTo(filePos'[j], Streams[j].obs))
  BY <1>4 DEF BufferInv
<1>7. CASE j = i
  BY <1>1, <1>3, <1>5, <1>6, <1>7 DEF BufferInv
<1>8. CASE j # i
  BY <1>5, <1>6, <1>8 DEF BufferInv
<1> QED
  BY <1>7, <1>8

LEMMA BufferNext == TypeInv /\ BufferInv /\ [Next]_vars => BufferInv'
<1> SUFFICES ASSUME TypeInv, BufferInv, [Next]_vars PROVE BufferInv'
  OBVIOUS
<1>1. ASSUME NEW i \in Ids, EatObs(i) \/ NoObs(i) \/ FindObs(i) PROVE BufferInv'
  BY <1>1, BufferStep
<1>2. ASSUME NEW i \in Ids, Arrive(i) PROVE BufferInv'
  <2>1. /\ filePos' = filePos /\ obsListList' = obsListList
        /\ ~IsFile(Streams[i])
        /\ arrived' = [arrived EXCEPT ![i] = @ + 1]
    BY <1>2 DEF Arrive, streamVars
  <2>2. \A j \in Ids : /\ arrived[j] \in Nat /\ filePos[j] \in Nat \cup {-1}
                       /\ arrived'[j] = IF j = i THEN arrived[j] + 1 ELSE arrived[j]
    BY <2>1 DEF TypeInv, TypeOK
  <2> SUFFICES ASSUME NEW j \in Ids
               PROVE  /\ filePos[j] <= arrived'[j]
                      /\ IsFile(Streams[j]) => arrived'[j] = Len(Streams[j].obs)
                      /\ filePos[j] = -1 => IsFile(Streams[j])
                      /\ Segment(obsListList[j], Streams[j].obs,
                                 ReadTo(filePos[j], Streams[j].obs))
    BY <2>1 DEF BufferInv
  <2>3. filePos[j] <= arrived[j]
    BY DEF BufferInv
  <2>4. filePos[j] <= arrived'[j]
    BY <2>2, <2>3
  <2> QED
    BY <2>1, <2>2, <2>4 DEF BufferInv
<1>3. CASE UNCHANGED <<arrived, filePos, obsListList>>
  BY <1>3 DEF BufferInv
<1>4. CASE \/ NextEpoch \/ BeginPass \/ EndPass \/ EndWait \/ InputsFinished
           \/ NoObservations \/ ProcessEpoch \/ UNCHANGED vars
           \/ \E i \in Ids : SkipStream(i)
  <2>1. UNCHANGED <<arrived, filePos, obsListList>>
    BY <1>4 DEF NextEpoch, BeginPass, EndPass, EndWait, InputsFinished,
                NoObservations, ProcessEpoch, SkipStream, vars, streamVars
  <2> QED
    BY <1>3, <2>1
<1> QED
  BY <1>1, <1>2, <1>4 DEF Next, MainThread

------------------------------------------------------------------------------
(* No station is overlooked.  What a station has from an earlier epoch is  *)
(* older than tsync, so that only stations of this epoch are passed by;    *)
(* and a stream that was visited without finding anything holds nothing,   *)
(* or only what is too young.                                              *)
StaleInv ==
    /\ \A s \in Stations : obsList[s] # NoTime =>
           /\ tsync # NoTime
           /\ obsList[s] <= tsync + Delta
           /\ obsList[s] < Horizon
    /\ pc \in {"wait", "pass", "process"} =>
           \A s \in Stations : s \notin InEpoch /\ obsList[s] # NoTime =>
               obsList[s] < tsync

Looked(i) ==
    \/ Streams[i].station \in InEpoch
    \/ obsListList[i] = << >> /\ (IsFile(Streams[i]) => ~More(i))
    \/ /\ obsListList[i] # << >>
       /\ tsync # NoTime /\ Head(obsListList[i]) > tsync + Delta

LookedInv ==
    /\ pc = "pass" => \A i \in live : i < stream => Looked(i)
    /\ pc \in {"wait", "process"} /\ passes > 0 /\ ~complete =>
           \A i \in live : Looked(i)

OverlookInv == TypeInv /\ BufferInv /\ StaleInv /\ LookedInv

LEMMA LoopTypes ==
    ASSUME TypeInv
    PROVE  /\ tsync \in Nat /\ tsync <= Horizon /\ Horizon \in Nat
           /\ Delta \in Nat
           /\ \A s \in Stations : obsList[s] \in Nat
           /\ epochStations \in Seq(Stations)
           /\ InEpoch \subseteq Stations
<1>1. /\ tsync \in Nat /\ tsync <= Horizon /\ Horizon \in Nat /\ Delta \in Nat
      /\ \A s \in Stations : obsList[s] \in Nat
      /\ epochStations \in Seq(Stations)
  BY Numbers, DeltaType DEF TypeInv, TypeOK
<1>2. InEpoch \subseteq Stations
  BY <1>1 DEF InEpoch
<1> QED
  BY <1>1, <1>2

LEMMA NextEpochStale ==
    ASSUME TicksPerSecond <= EpochInterval, TypeInv, StaleInv, NextEpoch
    PROVE  StaleInv'
<1>1. /\ obsList' = obsList
      /\ tsync' = IF tsync = NoTime THEN NoTime ELSE NextTime
  BY DEF NextEpoch
<1>2. /\ NextTime \in Nat /\ tsync <= NextTime
      /\ NextTime = Horizon \/ tsync + Step <= NextTime
      /\ Step \in Nat /\ Delta < Step
  BY NextTimes, StepTypes DEF TypeInv
<1>3. /\ tsync \in Nat /\ Delta \in Nat /\ Horizon \in Nat
      /\ \A s \in Stations : obsList[s] \in Nat
  BY LoopTypes
<1>4. ASSUME NEW s \in Stations, obsList[s] # NoTime
      PROVE  /\ tsync' # NoTime
             /\ obsList[s] <= tsync' + Delta
             /\ obsList[s] < Horizon
             /\ obsList[s] < tsync'
  <2>1. /\ tsync # NoTime /\ obsList[s] <= tsync + Delta
        /\ obsList[s] < Horizon /\ obsList[s] \in Nat
    BY <1>3, <1>4 DEF StaleInv
  <2>2. tsync' = NextTime
    BY <1>1, <2>1
  <2>3. obsList[s] < tsync'
    BY <1>2, <1>3, <2>1, <2>2
  <2> QED
    BY <1>2, <1>3, <2>1, <2>2, <2>3 DEF NoTime
<1> QED
  BY <1>1, <1>4 DEF StaleInv

LEMMA NoObsStale ==
    ASSUME TypeInv, StaleInv, NEW i \in Ids, NoObs(i)
    PROVE  StaleInv'
<1>1. /\ obsList' = [obsList EXCEPT ![Streams[i].station] = NoTime]
      /\ UNCHANGED <<tsync, epochStations, pc>>
  BY DEF NoObs, GetObs
<1>2. \A s \in Stations : obsList'[s] = NoTime \/ obsList'[s] = obsList[s]
  BY <1>1 DEF TypeInv, TypeOK
<1> QED
  BY <1>1, <1>2 DEF StaleInv, InEpoch

(* What a visit finds is near tsync, which is set to it if there was none. *)
LEMMA FoundTime ==
    ASSUME TypeInv, NEW i \in Ids, FindObs(i)
    PROVE  /\ Head(Parsed(i)) \in Nat /\ Head(Parsed(i)) # NoTime
           /\ Head(Parsed(i)) < Horizon
           /\ tsync' \in Nat /\ tsync' # NoTime
           /\ tsync # NoTime => tsync' = tsync
           /\ Head(Parsed(i)) <= tsync' + Delta
<1> DEFINE list == Parsed(i)
           time == Head(list)
<1>1. Finds(i) /\ tsync' = IF tsync = NoTime THEN time ELSE tsync
  BY DEF FindObs
<1>2. list \in Seq(Nat) /\ list # << >> /\ time # Empty
  BY <1>1, ParsedType DEF Finds
<1>3. time \in Nat /\ time = list[1] /\ 1 \in 1 .. Len(list)
  BY <1>2
<1>4. time + Delta < Horizon
  BY <1>3, ParsedType
<1>5. tsync # NoTime => time <= tsync + Delta
  BY <1>1 DEF Finds
<1>6. tsync \in Nat /\ Delta \in Nat /\ Horizon \in Nat
  BY LoopTypes
<1> HIDE DEF time
<1>7. time < Horizon /\ tsync' \in Nat /\ tsync' # NoTime /\ time <= tsync' + Delta
  BY <1>1, <1>2, <1>3, <1>4, <1>5, <1>6 DEF NoTime, Empty
<1> QED
  BY <1>1, <1>2, <1>3, <1>7 DEF time, NoTime, Empty

(* A station found joins those of the epoch.                               *)
LEMMA FoundJoins ==
    ASSUME TypeInv, NEW i \in Ids, FindObs(i)
    PROVE  InEpoch' = InEpoch \cup {Streams[i].station}
<1> DEFINE station == Streams[i].station
<1>1. epochStations \in Seq(Stations) /\ station \in Stations
  BY LoopTypes, StreamTypes
<1>2. epochStations' = Append(epochStations, station)
  BY DEF FindObs
<1> HIDE DEF station
<1>3. /\ DOMAIN epochStations' = DOMAIN epochStations \cup {Len(epochStations) + 1}
      /\ \A k \in DOMAIN epochStations : epochStations'[k] = epochStations[k]
      /\ epochStations'[Len(epochStations) + 1] = station
  BY <1>1, <1>2
<1> QED
  BY <1>3 DEF InEpoch, station

LEMMA FindObsStale ==
    ASSUME TypeInv, StaleInv, NEW i \in Ids, FindObs(i)
    PROVE  StaleInv'
<1> DEFINE time    == Head(Parsed(i))
           station == Streams[i].station
<1>1. /\ time \in Nat /\ time < Horizon
      /\ tsync' # NoTime /\ time <= tsync' + Delta
      /\ tsync # NoTime => tsync' = tsync
  BY FoundTime
<1>2. obsList' = [obsList EXCEPT ![station] = time] /\ pc' = pc
  BY DEF FindObs, GetObs
<1>3. InEpoch' = InEpoch \cup {station}
  BY FoundJoins
<1>4. station \in Stations
  BY StreamTypes
<1> HIDE DEF time, station
<1>5. \A s \in Stations : obsList'[s] = IF s = station THEN time ELSE obsList[s]
  BY <1>2, <1>4 DEF TypeInv, TypeOK
<1> QED
  BY <1>1, <1>2, <1>3, <1>5 DEF StaleInv

(* A stream that is passed by has its station in the epoch.                *)
LEMMA PassedBy ==
    ASSUME TypeInv, StaleInv, pc = "pass", NEW i \in Ids,
           AlreadyHave(Streams[i].station)
    PROVE  Streams[i].station \in InEpoch
<1> DEFINE station == Streams[i].station
<1>1. station \in Stations /\ obsList[station] # NoTime /\ obsList[station] = tsync
  BY StreamTypes DEF AlreadyHave
<1>2. tsync \in Nat
  BY LoopTypes
<1> QED
  BY <1>1, <1>2 DEF StaleInv

(* A stream that is left alone stays looked at.                            *)
LEMMA StaysLooked ==
    ASSUME NEW j \in Ids, Looked(j),
           InEpoch \subseteq InEpoch',
           tsync # NoTime => tsync' = tsync,
           obsListList'[j] = obsListList[j],
           filePos'[j] = filePos[j],
           IsFile(Streams[j]) => arrived'[j] = arrived[j]
    PROVE  Looked(j)'
<1>1. IsFile(Streams[j]) => More(j)' = More(j)
  BY DEF More
<1> QED
  BY <1>1 DEF Looked

LEMMA SkipStreamLooked ==
    ASSUME OverlookInv, NEW i \in Ids, SkipStream(i)
    PROVE  LookedInv'
<1>1. /\ pc = "pass" /\ pc' = pc /\ stream = i /\ stream' = i + 1
      /\ UNCHANGED <<live, filePos, arrived, obsListList, epochStations, tsync>>
      /\ i \in live => AlreadyHave(Streams[i].station)
  BY DEF SkipStream, streamVars
<1>2. i \in live => Looked(i)
  BY <1>1, PassedBy DEF OverlookInv, Looked
<1>3. ASSUME NEW j \in live, j < i + 1 PROVE Looked(j)'
  <2>1. j \in Nat /\ i \in Nat /\ j \in Ids
    BY StreamTypes DEF OverlookInv, TypeInv, TypeOK
  <2>2. j < i \/ j = i
    BY <1>3, <2>1
  <2>3. Looked(j)
    BY <1>1, <1>2, <2>2 DEF OverlookInv, LookedInv
  <2> QED
    BY <1>1, <2>1, <2>3, StaysLooked DEF InEpoch
<1> QED
  BY <1>1, <1>3 DEF LookedInv

LEMMA EatObsLooked ==
    ASSUME OverlookInv, NEW i \in Ids, EatObs(i)
    PROVE  LookedInv'
<1>1. /\ pc = "pass" /\ pc' = pc /\ stream = i /\ stream' = i
      /\ obsListList' = [obsListList EXCEPT ![i] = Tail(Parsed(i))]
      /\ filePos' = [filePos EXCEPT ![i] = FilePos(i)]
      /\ UNCHANGED <<arrived, live, epochStations, tsync>>
  BY DEF EatObs, Visiting
<1>2. ASSUME NEW j \in live, j < i PROVE Looked(j)'
  <2>1. j # i /\ j \in Ids
    BY <1>2, StreamTypes DEF OverlookInv, TypeInv, TypeOK
  <2>2. obsListList'[j] = obsListList[j] /\ filePos'[j] = filePos[j]
    BY <1>1, <2>1 DEF OverlookInv, TypeInv, TypeOK
  <2>3. Looked(j)
    BY <1>1, <1>2 DEF OverlookInv, LookedInv
  <2> QED
    BY <1>1, <2>1, <2>2, <2>3, StaysLooked DEF InEpoch
<1> QED
  BY <1>1, <1>2 DEF LookedInv

(* A visit, with or without success, leaves its stream looked at.          *)
LEMMA VisitLooked ==
    ASSUME ObsAscend, OverlookInv, NEW i \in Ids, NoObs(i) \/ FindObs(i)
    PROVE  Looked(i)'
<1>1. TypeInv /\ BufferInv
  BY DEF OverlookInv
<1>2. CASE FindObs(i)
  BY <1>1, <1>2, FoundJoins DEF Looked
<1>3. CASE NoObs(i)
  <2>1. /\ ~Eats(i) /\ ~Finds(i) /\ tsync' = tsync /\ arrived' = arrived
        /\ obsListList' = [obsListList EXCEPT ![i] = Parsed(i)]
        /\ filePos' = [filePos EXCEPT ![i] = FilePos(i)]
    BY <1>3 DEF NoObs, GetObs
  <2>2. obsListList'[i] = Parsed(i)
    BY <1>1, <2>1 DEF TypeInv, TypeOK
  <2>3. Parsed(i) \in Seq(Nat)
    BY <1>1, ParsedType
  <2>4. ASSUME Parsed(i) # << >> PROVE Head(Parsed(i)) # Empty
    <3> DEFINE list == Parsed(i)
               read == ReadTo(FilePos(i), Streams[i].obs)
    <3>1. Segment(list, Streams[i].obs, read)
      BY <1>1, ParsedSegment
    <3>2. read \in Nat
      BY <1>1, ParsedType, StreamTypes DEF ReadTo
    <3> HIDE DEF list, read
    <3>3. \A k \in DOMAIN list : list[k] # Empty
      BY <2>3, <3>1, <3>2, SegmentAscends DEF list
    <3>4. 1 \in DOMAIN list /\ Head(list) = list[1]
      BY <2>3, <2>4 DEF list
    <3> QED
      BY <3>3, <3>4 DEF list
  <2>5. Parsed(i) = << >> \/ (tsync # NoTime /\ ~(Head(Parsed(i)) <= tsync + Delta))
    BY <2>1, <2>4 DEF Finds
  <2>6. Parsed(i) # << >> => Head(Parsed(i)) \in Nat
    BY <2>3
  <2>7. tsync \in Nat /\ Delta \in Nat
    BY <1>1, LoopTypes
  <2>8. Parsed(i) = << >> \/ (tsync # NoTime /\ Head(Parsed(i)) > tsync + Delta)
    BY <2>5, <2>6, <2>7
  <2>9. ASSUME Parsed(i) = << >> PROVE ~More(i)'
    <3>1. obsListList[i] = << >> /\ ~(Parses(i) /\ More(i))
      <4>1. obsListList[i] \in Seq(Nat)
        BY <1>1 DEF TypeInv, TypeOK
      <4>2. Append(obsListList[i], Streams[i].obs[filePos[i] + 1]) # << >>
        BY <4>1
      <4> QED
        BY <2>9, <4>2 DEF Parsed
    <3>2. Parses(i)
      <4>1. Len(obsListList[i]) = 0
        BY <3>1
      <4>2. Len(obsListList[i]) < 2 /\ Len(obsListList[i]) < 3
        BY <4>1
      <4>3. Streams[i].kind \in {"rinex", "rtcm", "ntrip"}
        BY StreamTypes
      <4>4. CASE Streams[i].kind = "rinex"
        BY <4>2, <4>4 DEF Parses
      <4>5. CASE Streams[i].kind = "rtcm"
        BY <4>2, <4>5 DEF Parses
      <4>6. CASE Streams[i].kind = "ntrip"
        BY <4>6 DEF Parses
      <4> QED
        BY <4>3, <4>4, <4>5, <4>6
    <3>3. FilePos(i) = -1 \/ FilePos(i) = filePos[i]
      BY <3>1 DEF FilePos
    <3>4. filePos'[i] = FilePos(i) /\ arrived' = arrived
      BY <1>1, <2>1 DEF TypeInv, TypeOK
    <3>5. arrived[i] \in Nat
      BY <1>1 DEF TypeInv, TypeOK
    <3> QED
      BY <3>1, <3>2, <3>3, <3>4, <3>5 DEF More
  <2> QED
    BY <2>1, <2>2, <2>8, <2>9 DEF Looked
<1> QED
  BY <1>2, <1>3

LEMMA VisitLookedInv ==
    ASSUME ObsAscend, OverlookInv, NEW i \in Ids, NoObs(i) \/ FindObs(i)
    PROVE  LookedInv'
<1>1. TypeInv
  BY DEF OverlookInv
<1>2. /\ pc = "pass" /\ pc' = pc /\ stream = i /\ stream' = i + 1
      /\ obsListList' = [obsListList EXCEPT ![i] = Parsed(i)]
      /\ filePos' = [filePos EXCEPT ![i] = FilePos(i)]
      /\ live' = live /\ arrived' = arrived
  BY DEF NoObs, FindObs, GetObs, Visiting
<1>3. InEpoch \subseteq InEpoch' /\ (tsync # NoTime => tsync' = tsync)
  <2>1. CASE NoObs(i)
    BY <2>1 DEF NoObs, InEpoch
  <2>2. CASE FindObs(i)
    BY <1>1, <2>2, FoundJoins, FoundTime
  <2> QED
    BY <2>1, <2>2
<1>4. ASSUME NEW j \in live, j < i + 1 PROVE Looked(j)'
  <2>1. j \in Nat /\ i \in Nat /\ j \in Ids
    BY <1>1, StreamTypes DEF TypeInv, TypeOK
  <2>2. CASE j = i
    BY <2>2, VisitLooked
  <2>3. CASE j < i
    <3>1. Looked(j)
      BY <1>2, <2>3 DEF OverlookInv, LookedInv
    <3>2. obsListList'[j] = obsListList[j] /\ filePos'[j] = filePos[j]
      BY <1>1, <1>2, <2>1, <2>3 DEF TypeInv, TypeOK
    <3> QED
      BY <1>2, <1>3, <2>1, <3>1, <3>2, StaysLooked
  <2> QED
    BY <1>4, <2>1, <2>2, <2>3
<1> QED
  BY <1>2, <1>4 DEF LookedInv

LEMMA EndPassLooked == OverlookInv /\ EndPass => LookedInv'
<1> SUFFICES ASSUME OverlookInv, EndPass PROVE LookedInv'
  OBVIOUS
<1>1. /\ pc = "pass" /\ pc' = "wait" /\ stream > Len(Streams)
      /\ UNCHANGED <<live, arrived, filePos, obsListList, epochStations, tsync>>
  BY DEF EndPass, streamVars
<1>2. stream \in Nat
  BY StreamTypes DEF OverlookInv, TypeInv, TypeOK
<1>3. \A j \in live : j \in 1 .. Len(Streams)
  BY StreamTypes DEF OverlookInv, TypeInv, TypeOK
<1>4. \A j \in live : j < stream
  BY <1>1, <1>2, <1>3, StreamTypes
<1>5. \A j \in live : Looked(j) /\ j \in Ids
  BY <1>1, <1>4 DEF OverlookInv, LookedInv, TypeInv, TypeOK
<1>6. \A j \in live : Looked(j)'
  BY <1>1, <1>5, StaysLooked DEF InEpoch
<1> QED
  BY <1>1, <1>6 DEF LookedInv

LEMMA StaleNext ==
    ASSUME TicksPerSecond <= EpochInterval, TypeInv, StaleInv, [Next]_vars
    PROVE  StaleInv'
<1>1. CASE NextEpoch
  BY <1>1, NextEpochStale
<1>2. ASSUME NEW i \in Ids, NoObs(i) \/ FindObs(i) PROVE StaleInv'
  BY <1>2, NoObsStale, FindObsStale
<1>3. CASE \/ BeginPass \/ EndPass \/ EndWait \/ InputsFinished
           \/ NoObservations \/ ProcessEpoch \/ UNCHANGED vars
           \/ \E i \in Ids : SkipStream(i) \/ EatObs(i) \/ Arrive(i)
  <2>1. UNCHANGED <<obsList, tsync, epochStations>>
    BY <1>3 DEF BeginPass, EndPass, EndWait, InputsFinished, NoObservations,
                ProcessEpoch, SkipStream, EatObs, Arrive, vars
  <2>2. pc' \in {"wait", "pass", "process"} => pc \in {"wait", "pass", "process"}
    BY <1>3 DEF BeginPass, EndPass, EndWait, InputsFinished, NoObservations,
                ProcessEpoch, SkipStream, EatObs, Arrive, vars
  <2> QED
    BY <2>1, <2>2 DEF StaleInv, InEpoch
<1> QED
  BY <1>1, <1>2, <1>3 DEF Next, MainThread

LEMMA LookedNext ==
    ASSUME ObsAscend, OverlookInv, [Next]_vars
    PROVE  LookedInv'
<1>1. ASSUME NEW i \in Ids, SkipStream(i) \/ EatObs(i) \/ NoObs(i) \/ FindObs(i)
      PROVE  LookedInv'
  BY <1>1, SkipStreamLooked, EatObsLooked, VisitLookedInv
<1>2. CASE EndPass
  BY <1>2, EndPassLooked
<1>3. CASE BeginPass
  <2>1. /\ stream' = 1
        /\ pc' = "pass" \/ (pc' = "process" /\ complete')
    BY <1>3 DEF BeginPass
  <2>2. \A i \in live' : i \in Nat /\ i >= 1
    BY <1>3, StreamTypes DEF BeginPass, OverlookInv, TypeInv, TypeOK
  <2>3. \A i \in live' : ~(i < stream')
    BY <2>1, <2>2
  <2> QED
    BY <2>1, <2>3 DEF LookedInv
<1>4. CASE NextEpoch
  BY <1>4 DEF NextEpoch, LookedInv
<1>5. CASE InputsFinished \/ NoObservations \/ ProcessEpoch
  BY <1>5 DEF InputsFinished, NoObservations, ProcessEpoch, LookedInv
<1>6. CASE EndWait \/ UNCHANGED vars \/ \E i \in Ids : Arrive(i)
  <2>1. /\ UNCHANGED <<live, filePos, obsListList, epochStations, tsync, stream,
                        passes, complete>>
        /\ \A j \in Ids : IsFile(Streams[j]) => arrived'[j] = arrived[j]
    BY <1>6 DEF EndWait, Arrive, vars, streamVars, OverlookInv, TypeInv, TypeOK
  <2>2. pc' = pc \/ (pc = "wait" /\ pc' = "process")
    BY <1>6 DEF EndWait, Arrive, vars
  <2>3. \A j \in live : j \in Ids /\ (Looked(j) => Looked(j)')
    BY <2>1, StaysLooked DEF OverlookInv, TypeInv, TypeOK, InEpoch
  <2> QED
    BY <2>1, <2>2, <2>3 DEF OverlookInv, LookedInv
<1> QED
  BY <1>1, <1>2, <1>3, <1>4, <1>5, <1>6 DEF Next, MainThread

(* Where epochs are a second or more apart and the epochs of a stream are  *)
(* in order, a pass leaves no station out of the epoch for which a stream  *)
(* holds observations, behind others or not: whatever was read ahead, left *)
(* from skipped epochs or from another of the station's streams.           *)
THEOREM NoStationOverlooked ==
    ASSUME TicksPerSecond <= EpochInterval, ObsAscend
    PROVE  Spec => []NoneOverlooked
<1>1. Init => OverlookInv
  BY InitTypes, InitBuffer
     DEF Init, OverlookInv, StaleInv, LookedInv
<1>2. OverlookInv /\ [Next]_vars => OverlookInv'
  BY TypesNext, BufferNext, StaleNext, LookedNext DEF OverlookInv
<1>3. OverlookInv => NoneOverlooked
  <2> SUFFICES ASSUME OverlookInv, Synced, passes > 0, NEW i \in live,
                      NEW k \in DOMAIN obsListList[i], Near(obsListList[i][k])
               PROVE  Streams[i].station \in InEpoch
    BY DEF NoneOverlooked
  <2> DEFINE list == obsListList[i]
             read == ReadTo(filePos[i], Streams[i].obs)
  <2>1. Looked(i)
    BY DEF OverlookInv, LookedInv, Synced
  <2>2. i \in Ids /\ list \in Seq(Nat)
    BY DEF OverlookInv, TypeInv, TypeOK
  <2>3. Segment(list, Streams[i].obs, read) /\ read \in Nat
    BY <2>2, StreamTypes DEF OverlookInv, BufferInv, TypeInv, TypeOK, ReadTo
  <2> HIDE DEF read
  <2>4. list[1] <= list[k]
    BY <2>2, <2>3, SegmentAscends
  <2>5. list # << >> /\ Head(list) = list[1] /\ list[1] \in Nat /\ list[k] \in Nat
    BY <2>2
  <2>6. list[k] <= tsync + Delta
    BY DEF Near
  <2>7. tsync \in Nat /\ Delta \in Nat
    BY LoopTypes DEF OverlookInv
  <2>8. ~(Head(list) > tsync + Delta)
    BY <2>4, <2>5, <2>6, <2>7
  <2> QED
    BY <2>1, <2>5, <2>8 DEF Looked
<1> QED
  BY <1>1, <1>2, <1>3, PTL DEF Spec

------------------------------------------------------------------------------
(* RINEX files without gaps.                                               *)
Files ==
    /\ TicksPerSecond <= EpochInterval
    /\ ObsAscend /\ OnSeconds /\ FilesWithoutGaps /\ FilesGoOn

LEMMA FileObs ==
    ASSUME Files, NEW i \in Ids
    PROVE  LET obs == Streams[i].obs
           IN  /\ obs \in Seq(Nat) /\ Len(obs) \in Nat /\ Len(obs) >= 2
               /\ DOMAIN obs = 1 .. Len(obs)
               /\ Streams[i].kind = "rinex" /\ ~Streams[i].truncated
               /\ IsFile(Streams[i])
               /\ LastObs(i) \in Nat /\ LastObs(i) = obs[Len(obs)]
               /\ \A k \in 1 .. Len(obs) :
                     /\ obs[k] \in Nat /\ obs[k] # NoTime /\ obs[k] < Horizon
                     /\ Multiple(obs[k], Step)
                     /\ obs[k] <= LastObs(i)
                     /\ k < Len(obs) => obs[k] + Step <= LastObs(i)
                     /\ k = Len(obs) - 1 => obs[k] + Step = LastObs(i)
                     /\ \A l \in 1 .. Len(obs) : k <= l => obs[k] <= obs[l]
<1> DEFINE obs == Streams[i].obs
<1>1. /\ obs \in Seq(Nat) /\ Len(obs) \in Nat /\ DOMAIN obs = 1 .. Len(obs)
  BY StreamTypes
<1>2. /\ Len(obs) >= 2 /\ Streams[i].kind = "rinex" /\ ~Streams[i].truncated
      /\ IsFile(Streams[i])
  BY DEF Files, FilesWithoutGaps, IsFile
<1>3. LastObs(i) = obs[Len(obs)] /\ Len(obs) \in 1 .. Len(obs)
  BY <1>1, <1>2 DEF LastObs
<1>4. ASSUME NEW k \in 1 .. Len(obs)
      PROVE  /\ obs[k] \in Nat /\ obs[k] # NoTime /\ obs[k] < Horizon
             /\ Multiple(obs[k], Step)
  <2>1. obs[k] \in Nat /\ obs[k] + Delta < Horizon
    BY ObsTimes
  <2>2. obs[k] < Horizon
    BY <2>1, DeltaType, Numbers
  <2>3. obs[k] # Empty
    BY <1>1 DEF Files, ObsAscend
  <2>4. Multiple(obs[k], Step)
    BY <1>1 DEF Files, FilesWithoutGaps
  <2> QED
    BY <2>1, <2>2, <2>3, <2>4 DEF Empty, NoTime
<1>5. ASSUME NEW k \in 1 .. Len(obs), NEW l \in 1 .. Len(obs), k <= l
      PROVE  obs[k] <= obs[l]
  <2>1. k = l \/ k < l
    BY <1>1, <1>5
  <2>2. k < l => obs[k] <= obs[l]
    BY <1>1 DEF Files, ObsAscend
  <2>3. obs[k] \in Nat
    BY <1>4
  <2> QED
    BY <2>1, <2>2, <2>3
<1>6. ASSUME NEW k \in 1 .. Len(obs), k < Len(obs)
      PROVE  /\ obs[k] + Step <= LastObs(i)
             /\ k = Len(obs) - 1 => obs[k] + Step = LastObs(i)
  <2>1. k \in 1 .. Len(obs) - 1 /\ k + 1 \in 1 .. Len(obs) /\ k + 1 <= Len(obs)
    BY <1>1, <1>6
  <2>2. obs[k + 1] = obs[k] + Step
    BY <2>1 DEF Files, FilesWithoutGaps
  <2>3. obs[k + 1] <= obs[Len(obs)]
    BY <1>3, <1>5, <2>1
  <2>4. k = Len(obs) - 1 => k + 1 = Len(obs)
    BY <1>1
  <2> QED
    BY <1>3, <2>2, <2>3, <2>4
<1>7. \A k \in 1 .. Len(obs) : obs[k] <= LastObs(i)
  BY <1>1, <1>3, <1>5
<1>8. \A k \in 1 .. Len(obs) : k = Len(obs) - 1 => k < Len(obs)
  BY <1>1
<1> QED
  BY <1>1, <1>2, <1>3, <1>4, <1>5, <1>6, <1>7, <1>8

Read(i)  == ReadTo(filePos[i], Streams[i].obs)
Eaten(i) == Read(i) - Len(obsListList[i])

(* What a visit parses of a file.                                          *)
LEMMA FileParsed ==
    ASSUME Files, TypeInv, BufferInv, NEW i \in Ids
    PROVE  LET obs  == Streams[i].obs
               list == obsListList[i]
               read == ReadTo(FilePos(i), obs)
           IN  /\ Read(i) \in Nat /\ Eaten(i) \in Nat /\ read \in Nat
               /\ Read(i) <= read /\ read <= Len(obs)
               /\ read - Len(Parsed(i)) = Eaten(i)
               /\ Len(Parsed(i)) \in Nat /\ Len(list) \in Nat
               /\ Len(list) <= Len(Parsed(i))
               /\ FilePos(i) = -1 => read = Len(obs)
               /\ Parsed(i) # << >> => /\ Head(Parsed(i)) = obs[Eaten(i) + 1]
                                       /\ Len(Parsed(i)) > 0
                                       /\ Eaten(i) + 1 \in 1 .. read
               /\ Parsed(i) = << >> => FilePos(i) = -1 /\ Len(Parsed(i)) = 0
               /\ Len(Parsed(i)) = 1 /\ Len(list) > 0 => FilePos(i) = -1
               /\ FilePos(i) = -1 /\ ~IsDead(i) => Len(Parsed(i)) < 2
<1> DEFINE obs  == Streams[i].obs
           list == obsListList[i]
           pos  == filePos[i]
           read == ReadTo(FilePos(i), obs)
<1>1. /\ obs \in Seq(Nat) /\ Len(obs) \in Nat
      /\ Streams[i].kind = "rinex" /\ ~Streams[i].truncated /\ IsFile(Streams[i])
  BY FileObs
<1>2. /\ pos \in Nat \cup {-1} /\ list \in Seq(Nat) /\ Len(list) \in Nat
      /\ arrived[i] = Len(obs) /\ pos <= arrived[i]
      /\ Segment(list, obs, Read(i))
  BY <1>1 DEF TypeInv, TypeOK, BufferInv, Read
<1>3. Read(i) = (IF pos = -1 THEN Len(obs) ELSE pos) /\ Read(i) \in Nat
  BY <1>1, <1>2 DEF Read, ReadTo
<1>4. Parses(i) <=> Len(list) < 2
  BY <1>1 DEF Parses
<1>5. More(i) <=> pos # -1 /\ pos < Len(obs)
  BY <1>1, <1>2 DEF More
<1>6. Parses(i) /\ More(i) =>
          /\ FilePos(i) = pos + 1
          /\ Parsed(i) = Append(list, obs[pos + 1])
  <2> SUFFICES ASSUME Parses(i) /\ More(i)
               PROVE  FilePos(i) = pos + 1 /\ Parsed(i) = Append(list, obs[pos + 1])
    OBVIOUS
  <2>1. FilePos(i) = pos + 1
    BY DEF FilePos
  <2>2. Parsed(i) = Append(list, obs[pos + 1])
    BY DEF Parsed
  <2> QED
    BY <2>1, <2>2
<1>7. Parses(i) /\ ~More(i) => FilePos(i) = -1
  BY <1>1 DEF FilePos
<1>8. ~Parses(i) => FilePos(i) = pos
  BY DEF FilePos
<1>9. ~(Parses(i) /\ More(i)) => Parsed(i) = list
  BY DEF Parsed
<1>10. /\ Segment(Parsed(i), obs, read) /\ Parsed(i) \in Seq(Nat)
  BY ParsedSegment, ParsedType DEF TypeInv
<1>11. Len(Parsed(i)) \in Nat
  BY <1>10
<1>12. FilePos(i) = -1 => read = Len(obs)
  BY DEF ReadTo
<1> HIDE DEF obs, list, pos
<1>13. CASE Parses(i) /\ More(i)
  <2>1. /\ FilePos(i) = pos + 1 /\ pos \in Nat /\ pos < Len(obs)
        /\ Read(i) = pos /\ Len(list) < 2
    BY <1>2, <1>3, <1>4, <1>5, <1>6, <1>13
  <2>2. read = pos + 1
    BY <2>1 DEF ReadTo
  <2>3. Len(Parsed(i)) = Len(list) + 1
    <3>1. obs[pos + 1] \in Nat
      <4>1. pos + 1 \in 1 .. Len(obs)
        BY <1>1, <2>1
      <4> QED
        BY <1>1, <4>1
    <3> QED
      BY <1>2, <1>6, <1>13, <3>1
  <2>4. Eaten(i) = pos - Len(list) /\ Len(list) <= pos
    BY <1>2, <2>1 DEF Eaten, Segment, list
  <2> HIDE DEF read
  <2>5. /\ Eaten(i) \in Nat /\ read \in Nat /\ Read(i) <= read /\ read <= Len(obs)
        /\ read - Len(Parsed(i)) = Eaten(i)
        /\ Len(Parsed(i)) > 0 /\ Len(list) <= Len(Parsed(i))
        /\ Len(Parsed(i)) = 1 => Len(list) = 0
        /\ FilePos(i) # -1
    BY <1>1, <1>2, <1>11, <2>1, <2>2, <2>3, <2>4
  <2>6. Head(Parsed(i)) = obs[Eaten(i) + 1] /\ Eaten(i) + 1 \in 1 .. read
    <3>1. Parsed(i)[1] = obs[read - Len(Parsed(i)) + 1]
      BY <1>10, <2>5 DEF Segment, read
    <3>2. Head(Parsed(i)) = Parsed(i)[1]
      BY <1>10, <2>5
    <3>3. Eaten(i) + 1 \in 1 .. read
      BY <1>11, <2>5
    <3> QED
      BY <2>5, <3>1, <3>2, <3>3
  <2>7. Parsed(i) # << >>
    BY <1>10, <2>5
  <2> QED
    BY <1>2, <1>3, <1>11, <1>12, <2>5, <2>6, <2>7 DEF read, obs, list
<1>14. CASE ~(Parses(i) /\ More(i))
  <2>1. Parsed(i) = list /\ FilePos(i) \in {pos, -1}
    BY <1>7, <1>8, <1>9, <1>14
  <2>2. read = Read(i)
    <3>1. CASE FilePos(i) = pos
      BY <3>1 DEF Read, obs, pos
    <3>2. CASE FilePos(i) = -1 /\ pos # -1
      <4>1. Parses(i) /\ ~More(i)
        BY <1>8, <1>14, <3>2
      <4>2. pos = Len(obs)
        BY <1>1, <1>2, <1>5, <3>2, <4>1
      <4> QED
        BY <1>3, <1>12, <3>2, <4>2
    <3> QED
      BY <2>1, <3>1, <3>2
  <2>3. Eaten(i) = Read(i) - Len(list) /\ Len(list) <= Read(i) /\ Read(i) <= Len(obs)
    BY <1>2 DEF Eaten, Segment, list
  <2>4. Len(list) < 2 => FilePos(i) = -1
    BY <1>4, <1>7, <1>14
  <2>5. FilePos(i) = -1 /\ pos # -1 => Len(list) < 2
    BY <1>4, <1>8
  <2>6. /\ Eaten(i) \in Nat /\ read - Len(Parsed(i)) = Eaten(i)
        /\ Read(i) <= read /\ read <= Len(obs) /\ read \in Nat
    BY <1>1, <1>2, <1>3, <2>1, <2>2, <2>3
  <2>7. Parsed(i) # << >> => /\ Head(Parsed(i)) = obs[Eaten(i) + 1]
                             /\ Len(Parsed(i)) > 0
                             /\ Eaten(i) + 1 \in 1 .. read
    <3> SUFFICES ASSUME Parsed(i) # << >>
                 PROVE  /\ Head(Parsed(i)) = obs[Eaten(i) + 1]
                        /\ Len(Parsed(i)) > 0
                        /\ Eaten(i) + 1 \in 1 .. read
      OBVIOUS
    <3>1. Len(Parsed(i)) > 0 /\ Head(Parsed(i)) = Parsed(i)[1]
      BY <1>10
    <3>2. Parsed(i)[1] = obs[read - Len(Parsed(i)) + 1]
      BY <1>10, <1>11, <3>1 DEF Segment
    <3> HIDE DEF read
    <3>3. Eaten(i) + 1 \in 1 .. read
      BY <1>11, <2>6, <3>1
    <3> QED
      BY <2>6, <3>1, <3>2, <3>3
  <2>8. Parsed(i) = << >> => Len(Parsed(i)) = 0 /\ FilePos(i) = -1
    BY <1>10, <2>1, <2>4
  <2>9. IsDead(i) <=> pos = -1
    BY DEF IsDead, pos
  <2> HIDE DEF read
  <2>10. Len(Parsed(i)) = 1 => FilePos(i) = -1
    BY <2>1, <2>4
  <2>11. FilePos(i) = -1 /\ ~IsDead(i) => Len(Parsed(i)) < 2
    BY <2>1, <2>5, <2>9
  <2>12. Len(list) <= Len(Parsed(i))
    BY <1>2, <2>1
  <2> QED
    BY <1>2, <1>3, <1>11, <1>12, <2>6, <2>7, <2>8, <2>10, <2>11, <2>12
       DEF read, obs, list
<1> QED
  BY <1>13, <1>14

Running == pc \in {"wait", "pass", "process"}

(* As long as no epoch was skipped or went without a pass: the loop goes   *)
(* on by one interval at a time;                                           *)
Pace ==
    /\ loopEpochs = 1
    /\ tsync = Horizon \/ Multiple(tsync, Step)
    /\ pc \in {"pass", "process"} => passes > 0
    /\ pc = "wait" /\ passes = 0 => epochStations = << >>
    /\ complete => pc \in {"process", "done"}

(* before there is a tsync, nothing is read;                               *)
Unset ==
    tsync = NoTime =>
        /\ StartEpoch = NoTime
        /\ history = << >>
        /\ live = Ids
        /\ epochStations = << >>
        /\ \A i \in Ids : filePos[i] = 0 /\ obsListList[i] = << >>
        /\ pc = "pass" => stream = 1

(* what is eaten is old;                                                   *)
EatenOld ==
    \A i \in Ids : \A k \in 1 .. Eaten(i) :
        tsync # NoTime /\ Streams[i].obs[k] < tsync

(* a file is dead when its last epoch is over or found;                    *)
DeadInTime ==
    \A i \in Ids : IsDead(i) =>
        /\ tsync # NoTime
        /\ LastObs(i) <= tsync
        /\ pc # "start" /\ LastObs(i) = tsync => Streams[i].station \in InEpoch

OnlyDeadDropped == \A i \in Ids : i \notin live => IsDead(i)

VisitedAlive == pc = "pass" => \A i \in live : i >= stream => ~IsDead(i)

(* one that is not goes on, and unless it goes on further holds what comes *)
(* next;                                                                   *)
GoesOn(i) ==
    /\ Running => \/ LastObs(i) > tsync
                  \/ LastObs(i) = tsync /\ obsListList[i] # << >>
    /\ pc = "start" => \/ LastObs(i) > tsync + Step
                       \/ LastObs(i) > tsync /\ obsListList[i] # << >>

AliveGoOn == tsync # NoTime => \A i \in Ids : ~IsDead(i) => GoesOn(i)

(* the stations of an epoch were found in a file that has it, which is     *)
(* then dead if it was the last one;                                       *)
FoundIn(i, m) ==
    /\ Streams[i].obs[m] = tsync
    /\ m = Len(Streams[i].obs) => IsDead(i)

FoundInFile ==
    Running => \A s \in InEpoch : \E i \in Ids :
        Streams[i].station = s /\ \E m \in 1 .. Read(i) : FoundIn(i, m)

(* another pass is only made for files that are not dead;                  *)
RepeatsForAlive ==
    /\ pc = "pass" /\ repeat => \E i \in live : i < stream /\ ~IsDead(i)
    /\ pc = "wait" /\ passes > 0 /\ repeat => \E i \in live : ~IsDead(i)

CompleteWhenDead == complete => InEpoch = {} /\ \A i \in Ids : IsDead(i)

(* and all that is over was processed, if not before the first epoch.      *)
First == IF history = << >> THEN FirstEpoch ELSE history[1].time

OverProcessed ==
    \A i \in Ids : \A k \in 1 .. Len(Streams[i].obs) :
        LET obs == Streams[i].obs[k]
        IN  /\ First <= obs
            /\ obs < tsync \/ (pc = "start" /\ obs = tsync)
            => \E n \in DOMAIN history : history[n].obs[Streams[i].station] = obs

FilesInv ==
    /\ Pace /\ Unset /\ EatenOld
    /\ DeadInTime /\ OnlyDeadDropped /\ VisitedAlive /\ AliveGoOn
    /\ FoundInFile /\ RepeatsForAlive /\ CompleteWhenDead /\ OverProcessed

BaseInv == TypeInv /\ BufferInv /\ LookedInv /\ SecondsInv

------------------------------------------------------------------------------
(* Nothing lies between the epochs.                                        *)
LEMMA StepBeyond ==
    ASSUME Files, TypeInv, Pace, NEW obs \in Nat,
           Multiple(obs, Step), obs < Horizon, tsync < obs
    PROVE  tsync + Step <= obs
<1>1. tsync \in Nat /\ Horizon \in Nat
  BY LoopTypes
<1>2. Step \in Nat \ {0}
  BY StepTypes DEF Files
<1>3. Multiple(tsync, Step)
  BY <1>1 DEF Pace
<1> QED
  BY <1>1, <1>2, <1>3, MultiplesApart

LEMMA HeadObs ==
    ASSUME Files, TypeInv, BufferInv, NEW i \in Ids
    PROVE  LET obs == Streams[i].obs
           IN  /\ Eaten(i) \in Nat /\ Read(i) \in Nat /\ Read(i) <= Len(obs)
               /\ Eaten(i) <= Read(i)
               /\ obsListList[i] # << >> => /\ Head(obsListList[i]) = obs[Eaten(i) + 1]
                                            /\ Eaten(i) + 1 \in 1 .. Read(i)
               /\ obsListList[i] = << >> => Eaten(i) = Read(i)
<1> DEFINE obs  == Streams[i].obs
           list == obsListList[i]
<1>1. /\ Read(i) \in Nat /\ Eaten(i) \in Nat /\ Len(list) \in Nat
      /\ Eaten(i) = Read(i) - Len(list)
  BY FileParsed DEF Eaten
<1>2. Segment(list, obs, Read(i)) /\ list \in Seq(Nat)
  BY DEF BufferInv, Read, TypeInv, TypeOK
<1>3. Len(obs) \in Nat
  BY FileObs
<1> HIDE DEF obs, list
<1>4. list # << >> => Len(list) > 0 /\ Head(list) = list[1]
  BY <1>2
<1>5. list # << >> => list[1] = obs[Read(i) - Len(list) + 1]
  BY <1>1, <1>2, <1>4 DEF Segment
<1>6. list # << >> => Eaten(i) + 1 \in 1 .. Read(i)
  BY <1>1, <1>4
<1>7. list = << >> => Len(list) = 0
  BY <1>2
<1>8. list = << >> => Eaten(i) = Read(i)
  BY <1>1, <1>7
<1>9. Read(i) <= Len(obs) /\ Eaten(i) <= Read(i)
  BY <1>1, <1>2 DEF Segment
<1> QED
  BY <1>1, <1>4, <1>5, <1>6, <1>8, <1>9 DEF obs, list

(* A pass finds all that there is of an epoch.                             *)
LEMMA AllFound ==
    ASSUME Files, BaseInv, FilesInv, pc = "process", ~complete, tsync # NoTime,
           NEW i \in Ids, NEW k \in 1 .. Len(Streams[i].obs),
           Streams[i].obs[k] = tsync
    PROVE  Streams[i].station \in InEpoch
<1> DEFINE obs == Streams[i].obs
<1>1. /\ Len(obs) \in Nat /\ obs[k] <= LastObs(i) /\ LastObs(i) \in Nat
      /\ \A l \in 1 .. Len(obs) : obs[l] \in Nat /\ (l <= k => obs[l] <= obs[k])
      /\ IsFile(Streams[i])
  BY FileObs
<1>2. tsync \in Nat /\ Delta \in Nat
  BY LoopTypes DEF BaseInv
<1>3. CASE IsDead(i)
  <2>1. LastObs(i) <= tsync
    BY <1>3 DEF FilesInv, DeadInTime
  <2>2. LastObs(i) = tsync
    BY <1>1, <1>2, <2>1
  <2> QED
    BY <1>3, <2>2 DEF FilesInv, DeadInTime
<1>4. CASE ~IsDead(i)
  <2>1. Looked(i)
    BY <1>4 DEF FilesInv, OnlyDeadDropped, Pace, BaseInv, LookedInv
  <2>2. /\ Eaten(i) \in Nat /\ Read(i) \in Nat /\ Read(i) <= Len(obs)
        /\ obsListList[i] # << >> => /\ Head(obsListList[i]) = obs[Eaten(i) + 1]
                                     /\ Eaten(i) + 1 \in 1 .. Read(i)
        /\ obsListList[i] = << >> => Eaten(i) = Read(i)
    BY HeadObs DEF BaseInv
  <2>3. ~(k <= Eaten(i))
    <3> SUFFICES ASSUME k <= Eaten(i) PROVE FALSE
      OBVIOUS
    <3>1. k \in 1 .. Eaten(i)
      BY <1>1, <2>2
    <3>2. obs[k] < tsync
      BY <3>1 DEF FilesInv, EatenOld
    <3> QED
      BY <1>2, <3>2
  <2>4. ASSUME obsListList[i] = << >>, ~More(i) PROVE FALSE
    <3>1. filePos[i] \in Nat /\ filePos[i] <= arrived[i] /\ arrived[i] = Len(obs)
      BY <1>1, <1>4 DEF IsDead, BaseInv, TypeInv, TypeOK, BufferInv
    <3>2. Read(i) = filePos[i]
      BY <3>1 DEF Read, ReadTo
    <3>3. filePos[i] = Len(obs)
      BY <1>1, <2>4, <3>1 DEF More
    <3> QED
      BY <1>1, <2>2, <2>3, <2>4, <3>2, <3>3
  <2>5. ASSUME obsListList[i] # << >>, Head(obsListList[i]) > tsync + Delta
        PROVE  FALSE
    <3> DEFINE l == Eaten(i) + 1
    <3>1. l \in 1 .. Len(obs) /\ l <= k /\ Head(obsListList[i]) = obs[l]
      BY <1>1, <2>2, <2>3, <2>5
    <3> HIDE DEF l
    <3>2. obs[l] <= tsync /\ obs[l] \in Nat
      BY <1>1, <3>1
    <3> QED
      BY <1>2, <2>5, <3>1, <3>2
  <2> QED
    BY <1>1, <2>1, <2>4, <2>5 DEF Looked
<1> QED
  BY <1>3, <1>4

(* After an epoch, a file that is not dead goes on.                        *)
LEMMA AliveAfter ==
    ASSUME Files, BaseInv, FilesInv, pc = "process", ~complete, tsync # NoTime,
           NEW i \in Ids, ~IsDead(i)
    PROVE  \/ LastObs(i) > tsync + Step
           \/ LastObs(i) > tsync /\ obsListList[i] # << >>
<1> DEFINE obs == Streams[i].obs
<1>1. /\ Len(obs) \in Nat /\ Len(obs) >= 2 /\ LastObs(i) \in Nat
      /\ LastObs(i) = obs[Len(obs)]
      /\ IsFile(Streams[i])
      /\ \A l \in 1 .. Len(obs) : /\ obs[l] \in Nat /\ obs[l] < Horizon
                                  /\ Multiple(obs[l], Step)
                                  /\ obs[l] <= LastObs(i)
                                  /\ l < Len(obs) => obs[l] + Step <= LastObs(i)
  BY FileObs
<1>2. tsync \in Nat /\ Delta \in Nat /\ Step \in Nat \ {0}
  BY LoopTypes, StepTypes DEF BaseInv, Files
<1>3. Looked(i)
  BY DEF FilesInv, OnlyDeadDropped, Pace, BaseInv, LookedInv
<1>4. /\ Eaten(i) \in Nat /\ Read(i) \in Nat /\ Read(i) <= Len(obs)
      /\ Eaten(i) <= Read(i)
      /\ obsListList[i] # << >> => /\ Head(obsListList[i]) = obs[Eaten(i) + 1]
                                   /\ Eaten(i) + 1 \in 1 .. Read(i)
      /\ obsListList[i] = << >> => Eaten(i) = Read(i)
  BY HeadObs DEF BaseInv
<1>5. \A l \in 1 .. Eaten(i) : obs[l] < tsync
  BY DEF FilesInv, EatenOld
<1>6. LastObs(i) >= tsync
  <2>1. LastObs(i) > tsync \/ LastObs(i) = tsync
    BY DEF FilesInv, AliveGoOn, GoesOn, Running
  <2> QED
    BY <1>1, <1>2, <2>1
<1>7. CASE Streams[i].station \in InEpoch
  <2>1. PICK j \in Ids : /\ Streams[j].station = Streams[i].station
                         /\ \E m \in 1 .. Read(j) : FoundIn(j, m)
    BY <1>7 DEF FilesInv, FoundInFile, Running
  <2>2. PICK m \in 1 .. Read(j) : FoundIn(j, m)
    BY <2>1
  <2>3. m \in DOMAIN Streams[j].obs /\ Streams[j].obs[m] = tsync
    <3>1. Read(j) \in Nat /\ Read(j) <= Len(Streams[j].obs)
      BY HeadObs DEF BaseInv
    <3>2. DOMAIN Streams[j].obs = 1 .. Len(Streams[j].obs) /\ Len(Streams[j].obs) \in Nat
      BY FileObs
    <3> QED
      BY <2>2, <3>1, <3>2 DEF FoundIn
  <2>4. CASE j = i
    <3>1. m # Len(obs) /\ m \in 1 .. Len(obs) /\ obs[m] = tsync
      BY <1>1, <1>4, <2>2, <2>4 DEF FoundIn
    <3>2. LastObs(i) > tsync
      BY <1>1, <1>2, <3>1
    <3>3. obsListList[i] # << >>
      <4>1. m \in 1 .. Eaten(i) => obs[m] < tsync
        BY <1>5
      <4> QED
        BY <1>2, <1>4, <2>2, <2>4, <3>1, <4>1
    <3> QED
      BY <3>2, <3>3
  <2>5. CASE j < i
    <3>1. 1 \in 1 .. Len(obs) /\ 1 < Len(obs) /\ 1 \in DOMAIN obs
      BY <1>1, FileObs
    <3>2. tsync < obs[1]
      BY <2>1, <2>3, <2>5, <3>1 DEF Files, FilesWithoutGaps
    <3>3. tsync + Step <= obs[1]
      BY <1>1, <3>1, <3>2, StepBeyond DEF BaseInv, FilesInv
    <3> QED
      BY <1>1, <1>2, <3>1, <3>3
  <2>6. CASE i < j
    <3>1. Len(obs) \in DOMAIN obs
      BY <1>1, FileObs
    <3>2. LastObs(i) < tsync
      BY <1>1, <2>1, <2>3, <2>6, <3>1 DEF Files, FilesWithoutGaps
    <3> QED
      BY <1>1, <1>2, <1>6, <3>2
  <2>7. i \in Nat /\ j \in Nat
    BY StreamTypes
  <2> QED
    BY <2>4, <2>5, <2>6, <2>7
<1>8. CASE obsListList[i] = << >> /\ ~More(i)
  <2>1. filePos[i] \in Nat /\ filePos[i] <= arrived[i] /\ arrived[i] = Len(obs)
    BY <1>1 DEF IsDead, BaseInv, TypeInv, TypeOK, BufferInv
  <2>2. Read(i) = filePos[i]
    BY <2>1 DEF Read, ReadTo
  <2>3. filePos[i] = Len(obs)
    BY <1>1, <1>8, <2>1 DEF More
  <2>4. Len(obs) \in 1 .. Eaten(i)
    BY <1>1, <1>4, <1>8, <2>2, <2>3
  <2> QED
    BY <1>1, <1>2, <1>5, <1>6, <2>4
<1>9. CASE obsListList[i] # << >> /\ Head(obsListList[i]) > tsync + Delta
  <2> DEFINE l == Eaten(i) + 1
  <2>1. l \in 1 .. Len(obs) /\ obs[l] > tsync + Delta
    BY <1>1, <1>4, <1>9
  <2> HIDE DEF l
  <2>2. obs[l] \in Nat /\ obs[l] <= LastObs(i)
    BY <1>1, <2>1
  <2>3. LastObs(i) > tsync
    BY <1>1, <1>2, <2>1, <2>2
  <2> QED
    BY <1>9, <2>3
<1> QED
  BY <1>1, <1>3, <1>7, <1>8, <1>9 DEF Looked

------------------------------------------------------------------------------
(* Steps that leave the streams, tsync and the stations found alone.       *)
LEMMA SameFiles ==
    ASSUME FilesInv,
           UNCHANGED <<filePos, obsListList, tsync, epochStations, history>>,
           pc # "start", pc' # "start", Running' => Running
    PROVE  /\ EatenOld' /\ DeadInTime' /\ AliveGoOn' /\ FoundInFile'
           /\ OverProcessed'
<1>1. /\ InEpoch' = InEpoch
      /\ \A i \in Ids : Read(i)' = Read(i) /\ Eaten(i)' = Eaten(i)
                        /\ (IsDead(i)' <=> IsDead(i))
  BY DEF InEpoch, Read, Eaten, IsDead
<1>2. EatenOld'
  BY <1>1 DEF FilesInv, EatenOld
<1>3. DeadInTime'
  BY <1>1 DEF FilesInv, DeadInTime
<1>4. AliveGoOn'
  BY <1>1 DEF FilesInv, AliveGoOn, GoesOn
<1>5. FoundInFile'
  <2>1. \A i \in Ids : \A m \in 1 .. Read(i) : FoundIn(i, m) => FoundIn(i, m)'
    BY <1>1 DEF FoundIn
  <2> QED
    BY <1>1, <2>1 DEF FilesInv, FoundInFile
<1>6. OverProcessed'
  BY DEF FilesInv, OverProcessed, First
<1> QED
  BY <1>2, <1>3, <1>4, <1>5, <1>6

LEMMA BeginPassFiles ==
    ASSUME Files, BaseInv, FilesInv, BeginPass
    PROVE  FilesInv'
<1>1. /\ pc = "wait" /\ repeat
      /\ live' = {i \in live : ~IsDead(i)}
      /\ passes' = passes + 1 /\ passes \in Nat
      /\ repeat' = FALSE /\ stream' = 1
      /\ complete' <=> live' = {}
      /\ pc' = IF complete' THEN "process" ELSE "pass"
      /\ UNCHANGED <<filePos, obsListList, tsync, epochStations, history, loopEpochs>>
  <2>1. complete' <=> live' = {}
    BY Zenon DEF BeginPass
  <2> QED
    BY <2>1, Numbers DEF BeginPass, streamVars, BaseInv, TypeInv, TypeOK
<1>2. /\ EatenOld' /\ DeadInTime' /\ AliveGoOn' /\ FoundInFile' /\ OverProcessed'
  BY <1>1, SameFiles DEF Running
<1>3. \A i \in Ids : IsDead(i)' <=> IsDead(i)
  BY <1>1 DEF IsDead
<1>4. Pace'
  BY <1>1 DEF FilesInv, Pace, Multiple
<1>5. Unset'
  <2> SUFFICES ASSUME tsync = NoTime PROVE live' = Ids
    BY <1>1 DEF FilesInv, Unset
  <2>1. live = Ids /\ \A i \in Ids : filePos[i] = 0
    BY DEF FilesInv, Unset
  <2> QED
    BY <1>1, <2>1 DEF IsDead
<1>6. OnlyDeadDropped'
  BY <1>1, <1>3 DEF FilesInv, OnlyDeadDropped
<1>7. VisitedAlive'
  BY <1>1, <1>3 DEF VisitedAlive, BaseInv, TypeInv, TypeOK
<1>8. RepeatsForAlive'
  BY <1>1 DEF RepeatsForAlive
<1>9. CompleteWhenDead'
  <2> SUFFICES ASSUME complete' PROVE InEpoch = {} /\ \A i \in Ids : IsDead(i)
    BY <1>1, <1>3 DEF CompleteWhenDead, InEpoch
  <2>1. \A i \in live : IsDead(i)
    BY <1>1
  <2>2. passes = 0
    BY <1>1, <2>1 DEF FilesInv, RepeatsForAlive
  <2>3. epochStations = << >>
    BY <1>1, <2>2 DEF FilesInv, Pace
  <2> QED
    BY <2>1, <2>3 DEF InEpoch, FilesInv, OnlyDeadDropped
<1> QED
  BY <1>2, <1>4, <1>5, <1>6, <1>7, <1>8, <1>9 DEF FilesInv

LEMMA SkipStreamFiles ==
    ASSUME Files, BaseInv, FilesInv, NEW i \in Ids, SkipStream(i)
    PROVE  FilesInv'
<1>1. /\ pc = "pass" /\ pc' = pc /\ stream = i /\ stream' = i + 1
      /\ i \in live => AlreadyHave(Streams[i].station)
      /\ UNCHANGED <<filePos, obsListList, tsync, epochStations, history, loopEpochs,
                     live, passes, repeat, complete>>
  BY DEF SkipStream, streamVars
<1>2. /\ EatenOld' /\ DeadInTime' /\ AliveGoOn' /\ FoundInFile' /\ OverProcessed'
  BY <1>1, SameFiles DEF Running
<1>3. \A j \in Ids : IsDead(j)' <=> IsDead(j)
  BY <1>1 DEF IsDead
<1>4. i \in Nat /\ \A j \in live : j \in Nat /\ j \in Ids
  BY StreamTypes DEF BaseInv, TypeInv, TypeOK
<1>5. Pace' /\ OnlyDeadDropped' /\ CompleteWhenDead'
  BY <1>1, <1>3 DEF FilesInv, Pace, Multiple, OnlyDeadDropped, CompleteWhenDead,
                    InEpoch
<1>6. Unset'
  <2>1. tsync # NoTime
    BY <1>1 DEF FilesInv, Unset, AlreadyHave
  <2> QED
    BY <1>1, <2>1 DEF Unset
<1>7. VisitedAlive'
  <2> SUFFICES ASSUME NEW j \in live, j >= i + 1 PROVE ~IsDead(j)
    BY <1>1, <1>3, <1>4 DEF VisitedAlive
  <2> QED
    BY <1>1, <1>4 DEF FilesInv, VisitedAlive
<1>8. RepeatsForAlive'
  <2> SUFFICES ASSUME repeat PROVE \E j \in live : j < i + 1 /\ ~IsDead(j)
    BY <1>1, <1>3, <1>4 DEF RepeatsForAlive
  <2>1. PICK j \in live : j < i /\ ~IsDead(j)
    BY <1>1 DEF FilesInv, RepeatsForAlive
  <2>2. j < i + 1
    BY <1>4, <2>1
  <2> QED
    BY <2>1, <2>2
<1> QED
  BY <1>2, <1>5, <1>6, <1>7, <1>8 DEF FilesInv

LEMMA ControlFiles ==
    ASSUME Files, BaseInv, FilesInv, EndPass \/ EndWait \/ InputsFinished, ~rushed'
    PROVE  FilesInv'
<1>1. /\ UNCHANGED <<filePos, obsListList, tsync, epochStations, history, loopEpochs,
                     live, passes, repeat, complete, stream>>
      /\ \/ pc = "pass" /\ pc' = "wait"
         \/ pc = "wait" /\ pc' = "process" /\ passes # 0
         \/ pc = "process" /\ pc' = "done" /\ complete
  BY DEF EndPass, EndWait, InputsFinished, streamVars
<1>2. /\ EatenOld' /\ DeadInTime' /\ AliveGoOn' /\ FoundInFile' /\ OverProcessed'
  BY <1>1, SameFiles DEF Running
<1>3. \A j \in Ids : IsDead(j)' <=> IsDead(j)
  BY <1>1 DEF IsDead
<1>4. passes \in Nat /\ live \subseteq Ids
  BY Numbers DEF BaseInv, TypeInv, TypeOK
<1>5. Pace' /\ Unset' /\ OnlyDeadDropped' /\ CompleteWhenDead'
  BY <1>1, <1>3, <1>4 DEF FilesInv, Pace, Multiple, Unset, OnlyDeadDropped,
                          CompleteWhenDead, InEpoch
<1>6. VisitedAlive' /\ RepeatsForAlive'
  BY <1>1, <1>3, <1>4 DEF FilesInv, VisitedAlive, RepeatsForAlive
<1> QED
  BY <1>2, <1>5, <1>6 DEF FilesInv

LEMMA NextEpochFiles ==
    ASSUME Files, BaseInv, FilesInv, NextEpoch
    PROVE  FilesInv'
<1>1. /\ pc = "start" /\ pc' = "wait" /\ passes' = 0 /\ epochStations' = << >>
      /\ tsync' = IF tsync = NoTime THEN NoTime ELSE NextTime
      /\ UNCHANGED <<filePos, obsListList, history, loopEpochs, live, complete>>
  BY DEF NextEpoch, streamVars
<1>2. InEpoch' = {}
  BY <1>1 DEF InEpoch
<1>3. \A i \in Ids : Read(i)' = Read(i) /\ Eaten(i)' = Eaten(i)
                     /\ (IsDead(i)' <=> IsDead(i))
  BY <1>1 DEF Read, Eaten, IsDead
<1>4. /\ tsync \in Nat /\ Horizon \in Nat /\ tsync <= Horizon
      /\ Step \in Nat \ {0}
  BY LoopTypes, StepTypes DEF BaseInv, Files
<1>5. loopEpochs = 1
  BY DEF FilesInv, Pace
<1>6. tsync # NoTime =>
          /\ tsync' \in Nat /\ tsync <= tsync' /\ tsync' <= tsync + Step
          /\ tsync' <= Horizon
          /\ tsync' = Horizon \/ tsync' = tsync + Step
          /\ tsync' # NoTime
  BY <1>1, <1>4, <1>5, NextTimes DEF AtMost, NoTime, BaseInv, TypeInv
<1>7. ~complete /\ Pace'
  <2>1. ~complete
    BY <1>1 DEF FilesInv, Pace
  <2>2. tsync' = Horizon \/ Multiple(tsync', Step)
    <3>1. CASE tsync = NoTime
      <4>1. tsync' = tsync
        BY <1>1, <3>1
      <4>2. tsync = Horizon \/ Multiple(tsync, Step)
        BY DEF FilesInv, Pace
      <4> QED
        BY <4>1, <4>2 DEF Multiple
    <3>2. CASE tsync # NoTime /\ tsync' # Horizon
      <4>1. tsync' = tsync + Step * 1 /\ tsync # Horizon
        BY <1>4, <1>6, <3>2
      <4>2. Multiple(tsync, Step)
        BY <4>1 DEF FilesInv, Pace
      <4> QED
        BY <1>4, <4>1, <4>2, MultiplesAdd
    <3> QED
      BY <3>1, <3>2
  <2> QED
    BY <1>1, <1>5, <2>1, <2>2 DEF Pace, Multiple
<1>8. Unset'
  BY <1>1, <1>6 DEF FilesInv, Unset
<1>9. EatenOld'
  <2> SUFFICES ASSUME NEW i \in Ids, NEW k \in 1 .. Eaten(i)
               PROVE  tsync' # NoTime /\ Streams[i].obs[k] < tsync'
    BY <1>3 DEF EatenOld
  <2>1. tsync # NoTime /\ Streams[i].obs[k] < tsync
    BY DEF FilesInv, EatenOld
  <2>2. Streams[i].obs[k] \in Nat
    <3>1. /\ Eaten(i) \in Nat /\ Read(i) \in Nat /\ Eaten(i) <= Read(i)
          /\ Read(i) <= Len(Streams[i].obs) /\ Len(Streams[i].obs) \in Nat
      BY HeadObs, FileObs DEF BaseInv
    <3>2. k \in 1 .. Len(Streams[i].obs)
      BY <3>1
    <3> QED
      BY <3>2, FileObs
  <2> QED
    BY <1>4, <1>6, <2>1, <2>2
<1>10. DeadInTime'
  <2> SUFFICES ASSUME NEW i \in Ids, IsDead(i)
               PROVE  tsync' # NoTime /\ LastObs(i) < tsync'
    <3>1. \A i \in Ids : LastObs(i) \in Nat
      BY FileObs
    <3>2. \A i \in Ids : IsDead(i) => tsync' \in Nat
      BY <1>6 DEF FilesInv, DeadInTime
    <3>3. \A i \in Ids : IsDead(i) /\ LastObs(i) < tsync' =>
              LastObs(i) <= tsync' /\ LastObs(i) # tsync'
      BY <3>1, <3>2
    <3> QED
      BY <1>3, <3>3 DEF DeadInTime, LastObs
  <2>1. tsync # NoTime /\ LastObs(i) <= tsync
    BY DEF FilesInv, DeadInTime
  <2>2. LastObs(i) \in Nat /\ LastObs(i) < Horizon
    <3>1. Len(Streams[i].obs) \in 1 .. Len(Streams[i].obs)
      BY FileObs
    <3> QED
      BY <3>1, FileObs
  <2> QED
    BY <1>4, <1>6, <2>1, <2>2
<1>11. OnlyDeadDropped' /\ CompleteWhenDead'
  BY <1>1, <1>3, <1>7 DEF FilesInv, OnlyDeadDropped, CompleteWhenDead
<1>12. VisitedAlive' /\ RepeatsForAlive' /\ FoundInFile'
  BY <1>1, <1>2 DEF VisitedAlive, RepeatsForAlive, FoundInFile
<1>13. AliveGoOn'
  <2> SUFFICES ASSUME tsync # NoTime, NEW i \in Ids, ~IsDead(i)
               PROVE  \/ LastObs(i) > tsync'
                      \/ LastObs(i) = tsync' /\ obsListList[i] # << >>
    BY <1>1, <1>3 DEF AliveGoOn, GoesOn, Running, LastObs
  <2>1. \/ LastObs(i) > tsync + Step
        \/ LastObs(i) > tsync /\ obsListList[i] # << >>
    BY <1>1 DEF FilesInv, AliveGoOn, GoesOn
  <2>2. LastObs(i) \in Nat /\ LastObs(i) < Horizon /\ Multiple(LastObs(i), Step)
    <3>1. Len(Streams[i].obs) \in 1 .. Len(Streams[i].obs)
      BY FileObs
    <3> QED
      BY <3>1, FileObs
  <2>3. tsync < LastObs(i) => tsync + Step <= LastObs(i)
    BY <2>2, StepBeyond DEF BaseInv, FilesInv
  <2> QED
    BY <1>4, <1>6, <2>1, <2>2, <2>3
<1>14. OverProcessed'
  <2> SUFFICES ASSUME NEW i \in Ids, NEW k \in 1 .. Len(Streams[i].obs),
                      First <= Streams[i].obs[k], Streams[i].obs[k] < tsync'
               PROVE  \E n \in DOMAIN history :
                          history[n].obs[Streams[i].station] = Streams[i].obs[k]
    BY <1>1 DEF OverProcessed, First
  <2> DEFINE obs == Streams[i].obs[k]
  <2>1. obs \in Nat /\ obs < Horizon /\ Multiple(obs, Step)
    BY FileObs
  <2>2. tsync # NoTime
    BY <1>1, <2>1 DEF NoTime
  <2>3. tsync < obs => tsync + Step <= obs
    BY <2>1, StepBeyond DEF BaseInv, FilesInv
  <2> HIDE DEF obs
  <2>4. obs < tsync'
    BY DEF obs
  <2>5. obs < tsync \/ obs = tsync
    BY <1>4, <1>6, <2>1, <2>2, <2>3, <2>4
  <2> QED
    BY <1>1, <2>5 DEF FilesInv, OverProcessed, obs
<1> QED
  BY <1>7, <1>8, <1>9, <1>10, <1>11, <1>12, <1>13, <1>14 DEF FilesInv

------------------------------------------------------------------------------
(* Visits to a file.                                                       *)
LEMMA VisitedOnly ==
    ASSUME TypeInv, NEW i \in Ids, NEW pos, NEW list,
           filePos' = [filePos EXCEPT ![i] = pos],
           obsListList' = [obsListList EXCEPT ![i] = list]
    PROVE  /\ Read(i)' = ReadTo(pos, Streams[i].obs)
           /\ Eaten(i)' = ReadTo(pos, Streams[i].obs) - Len(list)
           /\ IsDead(i)' <=> pos = -1
           /\ obsListList'[i] = list
           /\ \A j \in Ids : j # i =>
                 /\ Read(j)' = Read(j) /\ Eaten(j)' = Eaten(j)
                 /\ IsDead(j)' <=> IsDead(j)
                 /\ obsListList'[j] = obsListList[j]
<1>1. /\ filePos'[i] = pos /\ obsListList'[i] = list
      /\ \A j \in Ids : j # i =>
            filePos'[j] = filePos[j] /\ obsListList'[j] = obsListList[j]
  BY DEF TypeInv, TypeOK
<1> QED
  BY <1>1 DEF Read, Eaten, IsDead

LEMMA VisitAlive ==
    ASSUME BaseInv, FilesInv, NEW i \in Ids, Visiting(i)
    PROVE  /\ pc = "pass" /\ stream = i /\ i \in live /\ ~IsDead(i)
           /\ ~complete /\ i \in Nat /\ live \subseteq Ids /\ Ids \subseteq Nat
<1>1. pc = "pass" /\ stream = i /\ i \in live
  BY DEF Visiting
<1>2. i \in Nat /\ live \subseteq Ids /\ Ids \subseteq Nat
  BY StreamTypes DEF BaseInv, TypeInv, TypeOK
<1> QED
  BY <1>1, <1>2 DEF FilesInv, VisitedAlive, Pace

LEMMA AliveLast ==
    ASSUME Files, BaseInv, FilesInv, NEW i \in Ids, ~IsDead(i), Running,
           tsync # NoTime
    PROVE  /\ LastObs(i) >= tsync
           /\ LastObs(i) = tsync => obsListList[i] # << >>
<1>1. \/ LastObs(i) > tsync
      \/ LastObs(i) = tsync /\ obsListList[i] # << >>
  BY DEF FilesInv, AliveGoOn, GoesOn
<1>2. LastObs(i) \in Nat /\ tsync \in Nat
  BY FileObs, LoopTypes DEF BaseInv
<1> QED
  BY <1>1, <1>2

LEMMA EatObsFiles ==
    ASSUME Files, BaseInv, FilesInv, NEW i \in Ids, EatObs(i)
    PROVE  FilesInv'
<1> DEFINE obs  == Streams[i].obs
           list == obsListList[i]
           read == ReadTo(FilePos(i), obs)
           m    == Eaten(i) + 1
<1>1. /\ pc = "pass" /\ stream = i /\ i \in live /\ ~IsDead(i)
      /\ ~complete /\ i \in Nat /\ live \subseteq Ids /\ Ids \subseteq Nat
  BY VisitAlive DEF EatObs
<1>2. /\ Parsed(i) # << >> /\ tsync # NoTime /\ Head(Parsed(i)) < tsync - Delta
  BY DEF EatObs, Eats, TooOld
<1>3. /\ Read(i) \in Nat /\ Eaten(i) \in Nat /\ read \in Nat
      /\ Read(i) <= read /\ read <= Len(obs)
      /\ read - Len(Parsed(i)) = Eaten(i)
      /\ Len(Parsed(i)) \in Nat /\ Len(list) \in Nat
      /\ FilePos(i) = -1 => read = Len(obs)
      /\ Head(Parsed(i)) = obs[m] /\ Len(Parsed(i)) > 0 /\ m \in 1 .. read
      /\ Len(Parsed(i)) = 1 /\ Len(list) > 0 => FilePos(i) = -1
      /\ FilePos(i) = -1 /\ ~IsDead(i) => Len(Parsed(i)) < 2
  BY <1>2, FileParsed DEF BaseInv
<1>4. /\ Len(obs) \in Nat /\ LastObs(i) = obs[Len(obs)] /\ LastObs(i) \in Nat
      /\ \A k \in 1 .. Len(obs) : obs[k] \in Nat
  BY FileObs
<1>5. /\ tsync \in Nat /\ Delta \in Nat /\ Parsed(i) \in Seq(Nat) /\ list \in Seq(Nat)
  BY LoopTypes, ParsedType DEF BaseInv, TypeInv, TypeOK
<1>6. LastObs(i) >= tsync /\ (LastObs(i) = tsync => list # << >>)
  BY <1>1, <1>2, AliveLast DEF Running
<1>7. Len(Tail(Parsed(i))) = Len(Parsed(i)) - 1
  BY <1>2, <1>5
<1>8. list # << >> => Len(list) > 0
  BY <1>5
<1>9. /\ UNCHANGED <<live, tsync, epochStations, history, loopEpochs, passes, repeat,
                     complete, pc, stream>>
      /\ filePos' = [filePos EXCEPT ![i] = FilePos(i)]
      /\ obsListList' = [obsListList EXCEPT ![i] = Tail(Parsed(i))]
  BY DEF EatObs
<1>10. /\ Read(i)' = read
       /\ Eaten(i)' = read - Len(Tail(Parsed(i)))
       /\ IsDead(i)' <=> FilePos(i) = -1
       /\ obsListList'[i] = Tail(Parsed(i))
       /\ \A j \in Ids : j # i =>
             /\ Read(j)' = Read(j) /\ Eaten(j)' = Eaten(j)
             /\ IsDead(j)' <=> IsDead(j)
             /\ obsListList'[j] = obsListList[j]
  BY <1>9, VisitedOnly DEF BaseInv
<1>a. Len(Parsed(i)) \in Nat /\ Len(Parsed(i)) > 0
  BY <1>3
<1>b. Len(Parsed(i)) = 1 /\ Len(list) > 0 => FilePos(i) = -1
  BY <1>3
<1> HIDE DEF obs, list, read, m
<1>11. m \in 1 .. Len(obs) /\ obs[m] < tsync
  <2>1. m \in 1 .. Len(obs)
    BY <1>3, <1>4
  <2>2. obs[m] \in Nat
    BY <1>4, <2>1
  <2> QED
    BY <1>2, <1>3, <1>5, <2>1, <2>2
<1>12. FilePos(i) # -1
  <2> SUFFICES ASSUME FilePos(i) = -1 PROVE FALSE
    OBVIOUS
  <2>1. Len(Parsed(i)) < 2 /\ read = Len(obs)
    BY <1>1, <1>3
  <2>2. m = Len(obs)
    BY <1>3, <1>4, <2>1 DEF m
  <2> QED
    BY <1>4, <1>5, <1>6, <1>11, <2>2
<1>13. Eaten(i)' = m /\ ~IsDead(i)'
  BY <1>3, <1>7, <1>10, <1>12 DEF m
<1>14. list # << >> => Tail(Parsed(i)) # << >>
  <2>1. list # << >> => Len(Parsed(i)) # 1
    BY <1>b, <1>8, <1>12
  <2>2. Len(Tail(Parsed(i))) = 0 => Len(Parsed(i)) = 1
    BY <1>a, <1>7
  <2>3. Tail(Parsed(i)) = << >> => Len(Tail(Parsed(i))) = 0
    <3>1. \A s : s = << >> => Len(s) = 0
      OBVIOUS
    <3> QED
      BY <3>1, Zenon
  <2> QED
    BY <2>1, <2>2, <2>3
<1>15. InEpoch' = InEpoch
  BY <1>9 DEF InEpoch
<1>16. \A j \in Ids : IsDead(j)' <=> IsDead(j)
  BY <1>1, <1>10, <1>13
<1>17. EatenOld'
  <2> SUFFICES ASSUME NEW j \in Ids, NEW k \in 1 .. Eaten(j)'
               PROVE  Streams[j].obs[k] < tsync
    BY <1>2, <1>9 DEF EatenOld
  <2>1. CASE j # i
    BY <1>10, <2>1 DEF FilesInv, EatenOld
  <2>2. CASE j = i
    <3>1. k \in 1 .. Eaten(i) \/ k = m
      BY <1>3, <1>13, <2>2 DEF m
    <3> QED
      BY <1>11, <2>2, <3>1 DEF FilesInv, EatenOld, obs
  <2> QED
    BY <2>1, <2>2
<1>18. Pace' /\ Unset' /\ OnlyDeadDropped' /\ CompleteWhenDead'
  BY <1>1, <1>2, <1>9, <1>16 DEF FilesInv, Pace, Multiple, Unset, OnlyDeadDropped,
                                 CompleteWhenDead
<1>19. DeadInTime' /\ VisitedAlive' /\ RepeatsForAlive'
  BY <1>1, <1>9, <1>15, <1>16
     DEF FilesInv, DeadInTime, VisitedAlive, RepeatsForAlive, LastObs
<1>20. AliveGoOn'
  <2> SUFFICES ASSUME NEW j \in Ids, ~IsDead(j)
               PROVE  GoesOn(j)'
    BY <1>16 DEF AliveGoOn
  <2>1. GoesOn(j)
    BY <1>2 DEF FilesInv, AliveGoOn
  <2>2. obsListList[j] # << >> => obsListList'[j] # << >>
    BY <1>10, <1>14 DEF list
  <2> QED
    BY <1>1, <1>9, <2>1, <2>2 DEF GoesOn, Running, LastObs
<1>21. FoundInFile'
  <2>1. \A j \in Ids : \A k \in 1 .. Read(j) : k \in 1 .. Read(j)'
    <3> SUFFICES ASSUME NEW j \in Ids, NEW k \in 1 .. Read(j)
                 PROVE  k \in 1 .. Read(j)'
      OBVIOUS
    <3> QED
      BY <1>3, <1>10
  <2>2. \A j \in Ids : \A k \in 1 .. Read(j) : FoundIn(j, k) => FoundIn(j, k)'
    BY <1>9, <1>16 DEF FoundIn
  <2> QED
    BY <1>1, <1>9, <1>15, <2>1, <2>2 DEF FilesInv, FoundInFile, Running
<1>22. OverProcessed'
  BY <1>9 DEF FilesInv, OverProcessed, First
<1> QED
  BY <1>17, <1>18, <1>19, <1>20, <1>21, <1>22 DEF FilesInv

LEMMA NoObsFiles ==
    ASSUME Files, BaseInv, FilesInv, NEW i \in Ids, NoObs(i)
    PROVE  FilesInv'
<1> DEFINE obs  == Streams[i].obs
           list == obsListList[i]
           read == ReadTo(FilePos(i), obs)
           m    == Eaten(i) + 1
<1>1. /\ pc = "pass" /\ stream = i /\ i \in live /\ ~IsDead(i)
      /\ ~complete /\ i \in Nat /\ live \subseteq Ids /\ Ids \subseteq Nat
  BY VisitAlive DEF NoObs
<1>2. ~Eats(i) /\ ~Finds(i)
  BY DEF NoObs
<1>3. /\ Read(i) \in Nat /\ Eaten(i) \in Nat /\ read \in Nat
      /\ Read(i) <= read /\ read <= Len(obs)
      /\ read - Len(Parsed(i)) = Eaten(i)
      /\ Len(Parsed(i)) \in Nat /\ Len(list) \in Nat
      /\ Len(list) <= Len(Parsed(i))
      /\ FilePos(i) = -1 => read = Len(obs)
      /\ Parsed(i) # << >> => /\ Head(Parsed(i)) = obs[m]
                              /\ Len(Parsed(i)) > 0 /\ m \in 1 .. read
      /\ Parsed(i) = << >> => FilePos(i) = -1 /\ Len(Parsed(i)) = 0
      /\ FilePos(i) = -1 /\ ~IsDead(i) => Len(Parsed(i)) < 2
  BY FileParsed DEF BaseInv
<1>4. /\ Len(obs) \in Nat /\ Len(obs) >= 2
      /\ LastObs(i) = obs[Len(obs)] /\ LastObs(i) \in Nat
      /\ LastObs(i) < Horizon /\ Multiple(LastObs(i), Step)
      /\ \A k \in 1 .. Len(obs) :
            /\ obs[k] \in Nat /\ obs[k] # NoTime
            /\ k = Len(obs) - 1 => obs[k] + Step = LastObs(i)
  <2>1. Len(obs) \in 1 .. Len(obs)
    BY FileObs
  <2> QED
    BY <2>1, FileObs
<1>5. /\ tsync \in Nat /\ Delta \in Nat /\ Parsed(i) \in Seq(Nat) /\ list \in Seq(Nat)
      /\ Step \in Nat
  BY LoopTypes, ParsedType, StepTypes DEF BaseInv, TypeInv, TypeOK
<1>6. tsync # NoTime => LastObs(i) >= tsync
  BY <1>1, AliveLast DEF Running
<1>7. /\ UNCHANGED <<live, tsync, epochStations, history, loopEpochs, passes,
                     complete, pc>>
      /\ repeat' = TRUE /\ stream' = i + 1
      /\ filePos' = [filePos EXCEPT ![i] = FilePos(i)]
      /\ obsListList' = [obsListList EXCEPT ![i] = Parsed(i)]
  BY DEF NoObs, GetObs
<1>8. /\ Read(i)' = read
      /\ Eaten(i)' = read - Len(Parsed(i))
      /\ IsDead(i)' <=> FilePos(i) = -1
      /\ obsListList'[i] = Parsed(i)
      /\ \A j \in Ids : j # i =>
             /\ Read(j)' = Read(j) /\ Eaten(j)' = Eaten(j)
             /\ IsDead(j)' <=> IsDead(j)
             /\ obsListList'[j] = obsListList[j]
  BY <1>7, VisitedOnly DEF BaseInv
<1>9. tsync = NoTime => Eaten(i) = 0
  <2> SUFFICES ASSUME tsync = NoTime PROVE Eaten(i) = 0
    OBVIOUS
  <2>1. filePos[i] = 0 /\ obsListList[i] = << >>
    BY DEF FilesInv, Unset
  <2>2. Len(obsListList[i]) = 0
    BY <2>1
  <2>3. Read(i) = 0
    BY <2>1 DEF Read, ReadTo
  <2>4. Eaten(i) = 0 - 0
    BY <2>2, <2>3 DEF Eaten
  <2> QED
    BY <2>4
<1>10. \A k \in 1 .. Eaten(i) : obs[k] < tsync
  BY DEF FilesInv, EatenOld
<1> HIDE DEF obs, list, read, m
<1>11. Parsed(i) # << >> =>
           /\ m \in 1 .. Len(obs) /\ obs[m] # NoTime
           /\ tsync # NoTime /\ ~(obs[m] <= tsync + Delta)
  <2> SUFFICES ASSUME Parsed(i) # << >>
               PROVE  /\ m \in 1 .. Len(obs) /\ obs[m] # NoTime
                      /\ tsync # NoTime /\ ~(obs[m] <= tsync + Delta)
    OBVIOUS
  <2>1. m \in 1 .. Len(obs)
    BY <1>3, <1>4
  <2> QED
    BY <1>2, <1>3, <1>4, <2>1 DEF Finds, Empty, NoTime
<1>12. tsync # NoTime
  <2> SUFFICES ASSUME tsync = NoTime PROVE FALSE
    OBVIOUS
  <2>1. Parsed(i) = << >>
    BY <1>11
  <2> QED
    BY <1>3, <1>4, <1>9, <2>1
<1>13. FilePos(i) # -1
  <2> SUFFICES ASSUME FilePos(i) = -1 PROVE FALSE
    OBVIOUS
  <2>1. read = Len(obs) /\ Len(Parsed(i)) < 2 /\ LastObs(i) >= tsync
    BY <1>1, <1>3, <1>6, <1>12
  <2>2. CASE Parsed(i) = << >>
    <3>1. Eaten(i) = Len(obs) /\ Len(obs) \in 1 .. Eaten(i)
      BY <1>3, <1>4, <2>1, <2>2
    <3>2. LastObs(i) < tsync
      BY <1>4, <1>10, <3>1
    <3> QED
      BY <1>4, <1>5, <2>1, <3>2
  <2>3. CASE Parsed(i) # << >>
    <3>1. Eaten(i) = Len(obs) - 1 /\ m = Len(obs)
      BY <1>3, <1>4, <2>1, <2>3 DEF m
    <3>2. Eaten(i) \in 1 .. Eaten(i) /\ Eaten(i) \in 1 .. Len(obs)
      BY <1>4, <3>1
    <3>3. obs[Eaten(i)] < tsync /\ obs[Eaten(i)] \in Nat
          /\ obs[Eaten(i)] + Step = LastObs(i)
      BY <1>4, <1>10, <3>1, <3>2
    <3>4. LastObs(i) > tsync
      BY <1>4, <1>5, <1>11, <2>3, <3>1
    <3>5. tsync + Step <= LastObs(i)
      BY <1>4, <3>4, StepBeyond DEF BaseInv, FilesInv
    <3> QED
      BY <1>5, <3>3, <3>5
  <2> QED
    BY <2>2, <2>3
<1>14. Eaten(i)' = Eaten(i) /\ ~IsDead(i)' /\ InEpoch' = InEpoch
  BY <1>3, <1>7, <1>8, <1>13 DEF InEpoch
<1>15. \A j \in Ids : (IsDead(j)' <=> IsDead(j)) /\ Eaten(j)' = Eaten(j)
  BY <1>1, <1>8, <1>14
<1>16. list # << >> => Parsed(i) # << >>
  <2>1. list # << >> => Len(list) > 0
    BY <1>5
  <2> QED
    BY <1>3, <2>1
<1>17. EatenOld'
  BY <1>7, <1>15 DEF FilesInv, EatenOld
<1>18. Pace' /\ Unset' /\ OnlyDeadDropped' /\ CompleteWhenDead'
  BY <1>1, <1>7, <1>12, <1>15 DEF FilesInv, Pace, Multiple, Unset, OnlyDeadDropped,
                                  CompleteWhenDead
<1>19. DeadInTime'
  BY <1>1, <1>7, <1>14, <1>15 DEF FilesInv, DeadInTime, LastObs
<1>20. VisitedAlive' /\ RepeatsForAlive'
  <2>1. \A j \in live : j >= i + 1 => j >= i
    BY <1>1
  <2>2. i < i + 1
    BY <1>1
  <2> QED
    BY <1>1, <1>7, <1>15, <2>1, <2>2 DEF FilesInv, VisitedAlive, RepeatsForAlive
<1>21. AliveGoOn'
  <2> SUFFICES ASSUME NEW j \in Ids, ~IsDead(j)
               PROVE  GoesOn(j)'
    BY <1>15 DEF AliveGoOn
  <2>1. GoesOn(j)
    BY <1>12 DEF FilesInv, AliveGoOn
  <2>2. obsListList[j] # << >> => obsListList'[j] # << >>
    BY <1>8, <1>16 DEF list
  <2> QED
    BY <1>1, <1>7, <2>1, <2>2 DEF GoesOn, Running, LastObs
<1>22. FoundInFile'
  <2>1. \A j \in Ids : \A k \in 1 .. Read(j) : k \in 1 .. Read(j)'
    <3> SUFFICES ASSUME NEW j \in Ids, NEW k \in 1 .. Read(j)
                 PROVE  k \in 1 .. Read(j)'
      OBVIOUS
    <3> QED
      BY <1>3, <1>8
  <2>2. \A j \in Ids : \A k \in 1 .. Read(j) : FoundIn(j, k) => FoundIn(j, k)'
    BY <1>7, <1>15 DEF FoundIn
  <2> QED
    BY <1>1, <1>7, <1>14, <2>1, <2>2 DEF FilesInv, FoundInFile, Running
<1>23. OverProcessed'
  BY <1>7 DEF FilesInv, OverProcessed, First
<1> QED
  BY <1>17, <1>18, <1>19, <1>20, <1>21, <1>22, <1>23 DEF FilesInv

LEMMA FindObsFiles ==
    ASSUME Files, BaseInv, FilesInv, NEW i \in Ids, FindObs(i)
    PROVE  FilesInv'
<1> DEFINE obs  == Streams[i].obs
           list == obsListList[i]
           read == ReadTo(FilePos(i), obs)
           time == Head(Parsed(i))
<1>1. /\ pc = "pass" /\ stream = i /\ i \in live /\ ~IsDead(i)
      /\ ~complete /\ i \in Nat /\ live \subseteq Ids /\ Ids \subseteq Nat
  BY VisitAlive DEF FindObs
<1>2. Finds(i) /\ Parsed(i) # << >>
  BY DEF FindObs, Finds
<1>a. PICK m \in Nat : m = Eaten(i) + 1
  BY FileParsed DEF BaseInv
<1>3. /\ Read(i) \in Nat /\ Eaten(i) \in Nat /\ read \in Nat
      /\ Read(i) <= read /\ read <= Len(obs)
      /\ read - Len(Parsed(i)) = Eaten(i)
      /\ Len(Parsed(i)) \in Nat /\ Len(list) \in Nat
      /\ FilePos(i) = -1 => read = Len(obs)
      /\ time = obs[m] /\ Len(Parsed(i)) > 0 /\ m \in 1 .. read
      /\ FilePos(i) = -1 /\ ~IsDead(i) => Len(Parsed(i)) < 2
  BY <1>2, <1>a, FileParsed DEF BaseInv
<1>4. Len(Parsed(i)) = 1 /\ Len(list) > 0 => FilePos(i) = -1
  BY <1>2, FileParsed DEF BaseInv
<1>5. /\ Len(obs) \in Nat /\ Len(obs) >= 2 /\ LastObs(i) = obs[Len(obs)]
      /\ LastObs(i) \in Nat
      /\ \A k \in 1 .. Len(obs) :
            /\ obs[k] \in Nat /\ obs[k] # NoTime /\ Multiple(obs[k], Step)
            /\ k < Len(obs) => obs[k] + Step <= LastObs(i)
  BY FileObs
<1>6. /\ UNCHANGED <<live, history, loopEpochs, passes, repeat, complete, pc>>
      /\ stream' = i + 1
      /\ filePos' = [filePos EXCEPT ![i] = FilePos(i)]
      /\ obsListList' = [obsListList EXCEPT ![i] = Parsed(i)]
      /\ tsync' = IF tsync = NoTime THEN time ELSE tsync
  BY DEF FindObs, GetObs
<1>7. /\ Read(i)' = read
      /\ Eaten(i)' = read - Len(Parsed(i))
      /\ IsDead(i)' <=> FilePos(i) = -1
      /\ \A j \in Ids : j # i =>
             /\ Read(j)' = Read(j) /\ Eaten(j)' = Eaten(j)
             /\ IsDead(j)' <=> IsDead(j)
             /\ obsListList'[j] = obsListList[j]
  BY <1>6, VisitedOnly DEF BaseInv
<1>8. InEpoch' = InEpoch \cup {Streams[i].station}
  BY FoundJoins DEF BaseInv
<1>9. tsync # NoTime => time = tsync
  BY <1>2, FindsExactly DEF BaseInv, SecondsInv, Files
<1>10. tsync = NoTime =>
          /\ i = 1 /\ Eaten(i) = 0
          /\ StartEpoch = NoTime /\ history = << >> /\ InEpoch = {}
  <2> SUFFICES ASSUME tsync = NoTime
               PROVE  /\ i = 1 /\ Eaten(i) = 0
                      /\ StartEpoch = NoTime /\ history = << >> /\ InEpoch = {}
    OBVIOUS
  <2>1. /\ filePos[i] = 0 /\ obsListList[i] = << >> /\ stream = 1
        /\ StartEpoch = NoTime /\ history = << >> /\ epochStations = << >>
    BY <1>1 DEF FilesInv, Unset
  <2>2. Len(obsListList[i]) = 0
    BY <2>1
  <2>3. Read(i) = 0
    BY <2>1 DEF Read, ReadTo
  <2>4. Eaten(i) = 0 - 0
    BY <2>2, <2>3 DEF Eaten
  <2>5. InEpoch = {}
    BY <2>1 DEF InEpoch
  <2> QED
    BY <1>1, <2>1, <2>4, <2>5
<1>11. Step \in Nat \ {0}
  BY StepTypes DEF Files
<1>12. Eaten(i)' = Eaten(i)
  BY <1>3, <1>7
<1>13. \A j \in Ids : Eaten(j)' = Eaten(j)
  BY <1>7, <1>12
<1>b. tsync # NoTime /\ LastObs(i) = tsync => Len(list) > 0
  <2>1. tsync # NoTime /\ LastObs(i) = tsync => list # << >>
    BY <1>1, AliveLast DEF Running
  <2>2. list \in Seq(Nat)
    BY DEF BaseInv, TypeInv, TypeOK
  <2> QED
    BY <2>1, <2>2
<1> HIDE DEF obs, list, read, time
<1>14. /\ m \in 1 .. Len(obs) /\ tsync' = obs[m]
       /\ tsync' \in Nat /\ tsync' # NoTime /\ Multiple(tsync', Step)
  <2>1. m \in 1 .. Len(obs)
    BY <1>3, <1>5
  <2>2. tsync' = obs[m]
    BY <1>3, <1>6, <1>9
  <2> QED
    BY <1>5, <2>1, <2>2
<1>15. tsync = NoTime => m = 1
  BY <1>10, <1>a
<1>16. FilePos(i) = -1 => m = Len(obs)
  <2> SUFFICES ASSUME FilePos(i) = -1 PROVE m = Len(obs)
    OBVIOUS
  <2>1. Len(Parsed(i)) < 2 /\ read = Len(obs)
    BY <1>1, <1>3
  <2> QED
    BY <1>3, <1>5, <1>a, <2>1
<1>17. m = Len(obs) => FilePos(i) = -1
  <2> SUFFICES ASSUME m = Len(obs) PROVE FilePos(i) = -1
    OBVIOUS
  <2>1. tsync # NoTime
    BY <1>5, <1>15
  <2>2. LastObs(i) = tsync
    BY <1>5, <1>6, <1>14, <2>1
  <2>3. read = Len(obs)
    BY <1>3, <1>5
  <2>4. Len(Parsed(i)) = 1
    <3>1. Len(Parsed(i)) \in Nat /\ read - Len(Parsed(i)) = Eaten(i) /\ Eaten(i) \in Nat
      BY <1>3
    <3>2. m = read
      BY <2>3
    <3>3. \A n \in Nat : read - n = Eaten(i) => n = 1
      BY <1>3, <1>a, <3>1, <3>2
    <3> QED
      BY <3>1, <3>3
  <2> QED
    BY <1>4, <1>b, <2>1, <2>2, <2>4
<1>18. IsDead(i)' <=> m = Len(obs)
  BY <1>7, <1>16, <1>17
<1>19. \A j \in Ids : IsDead(j) => IsDead(j)' /\ j # i
  BY <1>1, <1>7
<1>20. tsync # NoTime => tsync' = tsync
  BY <1>6
<1>21. Pace' /\ Unset' /\ CompleteWhenDead'
  BY <1>1, <1>6, <1>14 DEF FilesInv, Pace, Unset, CompleteWhenDead, Multiple, Step
<1>22. EatenOld'
  <2> SUFFICES ASSUME NEW j \in Ids, NEW k \in 1 .. Eaten(j)
               PROVE  tsync' # NoTime /\ Streams[j].obs[k] < tsync'
    BY <1>13 DEF EatenOld
  <2> QED
    BY <1>20 DEF FilesInv, EatenOld
<1>23. DeadInTime'
  <2> SUFFICES ASSUME NEW j \in Ids, IsDead(j)'
               PROVE  /\ tsync' # NoTime /\ LastObs(j) <= tsync'
                      /\ pc # "start" /\ LastObs(j) = tsync' =>
                             Streams[j].station \in InEpoch'
    BY <1>6 DEF DeadInTime, LastObs
  <2>1. CASE j = i
    BY <1>5, <1>8, <1>14, <1>18, <2>1
  <2>2. CASE j # i
    BY <1>7, <1>8, <1>20, <2>2 DEF FilesInv, DeadInTime
  <2> QED
    BY <2>1, <2>2
<1>24. OnlyDeadDropped' /\ VisitedAlive'
  <2>1. \A j \in live : j >= i + 1 => j >= i /\ j # i
    BY <1>1
  <2> QED
    BY <1>1, <1>6, <1>7, <1>19, <2>1 DEF FilesInv, OnlyDeadDropped, VisitedAlive
<1>25. AliveGoOn'
  <2> SUFFICES ASSUME NEW j \in Ids, ~IsDead(j)'
               PROVE  GoesOn(j)'
    BY DEF AliveGoOn
  <2>1. CASE j = i
    <3>1. LastObs(i) > tsync'
      BY <1>5, <1>11, <1>14, <1>18, <2>1
    <3> QED
      BY <1>1, <1>6, <2>1, <3>1 DEF GoesOn, LastObs
  <2>2. CASE j # i /\ tsync # NoTime
    <3>1. GoesOn(j)
      BY <1>7, <2>2 DEF FilesInv, AliveGoOn
    <3> QED
      BY <1>1, <1>6, <1>7, <1>20, <2>2, <3>1 DEF GoesOn, Running, LastObs
  <2>3. CASE tsync = NoTime
    <3>1. FirstEpoch = tsync'
      BY <1>10, <1>14, <1>15, <2>3 DEF FirstEpoch, obs
    <3>2. tsync' < LastObs(j) /\ LastObs(j) \in Nat
      BY <3>1, FileObs DEF Files, FilesGoOn
    <3>3. LastObs(j) > tsync'
      BY <1>14, <3>2
    <3> QED
      BY <1>1, <1>6, <3>3 DEF GoesOn, LastObs
  <2> QED
    BY <2>1, <2>2, <2>3
<1>26. FoundInFile'
  <2> SUFFICES ASSUME NEW s \in InEpoch'
               PROVE  \E j \in Ids : /\ Streams[j].station = s
                                     /\ \E k \in 1 .. Read(j)' : FoundIn(j, k)'
    BY DEF FoundInFile
  <2>1. CASE s = Streams[i].station
    <3>1. m \in 1 .. Read(i)'
      BY <1>3, <1>7
    <3>2. FoundIn(i, m)'
      BY <1>14, <1>18 DEF FoundIn, obs
    <3> QED
      BY <2>1, <3>1, <3>2
  <2>2. CASE s \in InEpoch
    <3>1. tsync' = tsync
      BY <1>10, <1>20, <2>2
    <3>2. PICK j \in Ids : /\ Streams[j].station = s
                           /\ \E k \in 1 .. Read(j) : FoundIn(j, k)
      BY <1>1, <2>2 DEF FilesInv, FoundInFile, Running
    <3>3. PICK k \in 1 .. Read(j) : FoundIn(j, k)
      BY <3>2
    <3>4. k \in 1 .. Read(j)'
      BY <1>3, <1>7
    <3>5. FoundIn(j, k)'
      BY <1>19, <3>1, <3>3 DEF FoundIn
    <3> QED
      BY <3>2, <3>4, <3>5
  <2> QED
    BY <1>8, <2>1, <2>2
<1>27. RepeatsForAlive'
  <2> SUFFICES ASSUME repeat PROVE \E j \in live : j < i + 1 /\ ~IsDead(j)'
    BY <1>1, <1>6 DEF RepeatsForAlive
  <2>1. PICK j \in live : j < i /\ ~IsDead(j)
    BY <1>1 DEF FilesInv, RepeatsForAlive
  <2>2. j < i + 1 /\ j # i
    BY <1>1, <2>1
  <2> QED
    BY <1>1, <1>7, <2>1, <2>2
<1>28. OverProcessed'
  <2>1. CASE tsync = NoTime
    <3> SUFFICES ASSUME NEW j \in Ids, NEW k \in 1 .. Len(Streams[j].obs)
                 PROVE  ~(FirstEpoch <= Streams[j].obs[k] /\ Streams[j].obs[k] < tsync')
      BY <1>1, <1>6, <1>10, <2>1 DEF OverProcessed, First
    <3>1. FirstEpoch = tsync'
      BY <1>10, <1>14, <1>15, <2>1 DEF FirstEpoch, obs
    <3>2. Streams[j].obs[k] \in Nat
      BY FileObs
    <3> QED
      BY <1>14, <3>1, <3>2
  <2>2. CASE tsync # NoTime
    BY <1>6, <1>20, <2>2 DEF FilesInv, OverProcessed, First
  <2> QED
    BY <2>1, <2>2
<1> QED
  BY <1>21, <1>22, <1>23, <1>24, <1>25, <1>26, <1>27, <1>28 DEF FilesInv

(* The end of an epoch, with something to process or not: what is over now *)
(* is what the epoch had, and what is alive goes on.                       *)
LEMMA EpochOverFiles ==
    ASSUME Files, BaseInv, FilesInv, pc = "process", ~complete,
           pc' \in {"start", "done"}, loopEpochs' = 1,
           UNCHANGED <<filePos, obsListList, live, tsync, epochStations, complete>>,
           tsync = NoTime => history' = << >>,
           OverProcessed'
    PROVE  FilesInv'
<1>1. \A i \in Ids : Read(i)' = Read(i) /\ Eaten(i)' = Eaten(i)
                     /\ (IsDead(i)' <=> IsDead(i))
  BY DEF Read, Eaten, IsDead
<1>2. Pace'
  BY DEF FilesInv, Pace, Multiple
<1>3. Unset'
  BY DEF FilesInv, Unset
<1>4. EatenOld'
  BY <1>1 DEF FilesInv, EatenOld
<1>5. DeadInTime'
  BY <1>1 DEF FilesInv, DeadInTime, InEpoch, LastObs
<1>6. OnlyDeadDropped' /\ CompleteWhenDead'
  BY <1>1 DEF FilesInv, OnlyDeadDropped, CompleteWhenDead
<1>7. VisitedAlive' /\ RepeatsForAlive' /\ FoundInFile'
  BY DEF VisitedAlive, RepeatsForAlive, FoundInFile, Running
<1>8. AliveGoOn'
  <2> SUFFICES ASSUME tsync # NoTime, NEW i \in Ids, ~IsDead(i)
               PROVE  GoesOn(i)'
    BY <1>1 DEF AliveGoOn
  <2>1. \/ LastObs(i) > tsync + Step
        \/ LastObs(i) > tsync /\ obsListList[i] # << >>
    BY AliveAfter
  <2> QED
    BY <2>1 DEF GoesOn, Running, LastObs, Step
<1> QED
  BY <1>2, <1>3, <1>4, <1>5, <1>6, <1>7, <1>8 DEF FilesInv

LEMMA NoObservationsFiles ==
    ASSUME Files, BaseInv, FilesInv, NoObservations
    PROVE  FilesInv'
<1>1. /\ pc = "process" /\ ~complete /\ pc' = "start"
      /\ tsync = NoTime \/ epochStations = << >>
      /\ loopEpochs' = IF tsync = NoTime THEN loopEpochs ELSE 1
      /\ UNCHANGED <<filePos, obsListList, live, tsync, epochStations, complete,
                     history>>
  BY DEF NoObservations, streamVars
<1>2. loopEpochs' = 1
  BY <1>1 DEF FilesInv, Pace
<1>3. tsync = NoTime => history' = << >>
  BY <1>1 DEF FilesInv, Unset
<1>4. OverProcessed'
  <2> SUFFICES ASSUME NEW i \in Ids, NEW k \in 1 .. Len(Streams[i].obs),
                      First <= Streams[i].obs[k],
                      Streams[i].obs[k] < tsync \/ Streams[i].obs[k] = tsync
               PROVE  \E n \in DOMAIN history :
                          history[n].obs[Streams[i].station] = Streams[i].obs[k]
    BY <1>1 DEF OverProcessed, First
  <2>1. CASE Streams[i].obs[k] < tsync
    BY <2>1 DEF FilesInv, OverProcessed
  <2>2. CASE Streams[i].obs[k] = tsync
    <3>1. tsync # NoTime
      BY <2>2, FileObs
    <3>2. Streams[i].station \in InEpoch
      BY <1>1, <2>2, <3>1, AllFound
    <3>3. InEpoch = {}
      BY <1>1, <3>1 DEF InEpoch
    <3> QED
      BY <3>2, <3>3
  <2> QED
    BY <2>1, <2>2
<1> QED
  BY <1>1, <1>2, <1>3, <1>4, EpochOverFiles

LEMMA ProcessEpochFiles ==
    ASSUME Files, BaseInv, FilesInv, ProcessEpoch, ~rushed'
    PROVE  FilesInv'
<1>1. /\ pc = "process" /\ ~complete /\ pc' \in {"start", "done"}
      /\ tsync # NoTime
      /\ UNCHANGED <<filePos, obsListList, live, tsync, epochStations, complete>>
  BY DEF ProcessEpoch, streamVars
<1>2. loopEpochs' = 1
  <2>1. loopEpochs = 1
    BY DEF FilesInv, Pace
  <2>2. CASE LastEpoch
    BY <2>1, <2>2 DEF ProcessEpoch
  <2>3. CASE ~LastEpoch
    <3>1. PICK excessLoops \in Excess : loopEpochs' = 1 + excessLoops
      BY <2>3 DEF ProcessEpoch
    <3>2. rushed' = (rushed \/ loopEpochs' > 1)
      BY <2>3, Zenon DEF ProcessEpoch
    <3>3. ~(loopEpochs' > 1)
      BY <3>2
    <3>4. excessLoops \in Nat
      BY Numbers DEF Excess
    <3> QED
      BY <3>1, <3>3, <3>4
  <2> QED
    BY <2>2, <2>3
<1>3. /\ DOMAIN history = 1 .. Len(history) /\ Len(history) \in Nat
      /\ DOMAIN history' = 1 .. Len(history) + 1
      /\ \A n \in DOMAIN history : history'[n] = history[n]
      /\ history'[Len(history) + 1].time = tsync
      /\ \A s \in Stations : history'[Len(history) + 1].obs[s]
             = IF s \in InEpoch THEN obsList[s] ELSE NoTime
  BY HistoryGrows DEF BaseInv
<1>4. OverProcessed'
  <2> SUFFICES ASSUME NEW i \in Ids, NEW k \in 1 .. Len(Streams[i].obs),
                      history'[1].time <= Streams[i].obs[k],
                      Streams[i].obs[k] < tsync \/ Streams[i].obs[k] = tsync
               PROVE  \E n \in DOMAIN history' :
                          history'[n].obs[Streams[i].station] = Streams[i].obs[k]
    <3>1. history' # << >>
      <4> SUFFICES ASSUME history' = << >> PROVE FALSE
        OBVIOUS
      <4>1. 1 \notin DOMAIN history'
        OBVIOUS
      <4>2. 1 \in 1 .. Len(history) + 1
        BY <1>3
      <4> QED
        BY <1>3, <4>1, <4>2
    <3> QED
      BY <1>1, <3>1 DEF OverProcessed, First
  <2> DEFINE obs == Streams[i].obs[k]
  <2>1. obs \in Nat /\ tsync \in Nat
    BY FileObs, LoopTypes DEF BaseInv
  <2>2. CASE obs < tsync
    <3>1. history # << >>
      <4> SUFFICES ASSUME history = << >> PROVE FALSE
        OBVIOUS
      <4>1. Len(history) = 0
        OBVIOUS
      <4>2. history'[1].time = tsync
        BY <1>3, <4>1
      <4> QED
        BY <2>1, <2>2, <4>2
    <3>2. 1 \in DOMAIN history
      <4>1. Len(history) # 0
        BY <3>1 DEF BaseInv, TypeInv, TypeOK
      <4> QED
        BY <1>3, <4>1
    <3>3. history[1].time <= obs
      BY <1>3, <3>2
    <3>4. PICK n \in DOMAIN history : history[n].obs[Streams[i].station] = obs
      BY <2>2, <3>1, <3>3 DEF FilesInv, OverProcessed, First
    <3> QED
      BY <1>3, <3>4
  <2>3. CASE obs = tsync
    <3>1. Streams[i].station \in InEpoch /\ Streams[i].station \in Stations
      BY <1>1, <2>3, AllFound, StreamTypes
    <3>2. obsList[Streams[i].station] = tsync
      BY <1>1, <3>1 DEF BaseInv, SecondsInv, FoundExactly, AlreadyHave
    <3>3. Len(history) + 1 \in DOMAIN history'
      BY <1>3
    <3> QED
      BY <1>3, <2>3, <3>1, <3>2, <3>3
  <2> QED
    BY <2>2, <2>3
<1> QED
  BY <1>1, <1>2, <1>4, EpochOverFiles

LEMMA InitFiles ==
    ASSUME Files, Init
    PROVE  FilesInv
<1>1. /\ pc = "start" /\ loopEpochs = 1 /\ tsync = StartEpoch /\ ~complete
      /\ live = Ids /\ history = << >> /\ epochStations = << >>
      /\ \A i \in Ids : filePos[i] = 0 /\ obsListList[i] = << >>
  BY DEF Init
<1>2. Pace
  BY <1>1 DEF Pace, Files, FilesWithoutGaps
<1>3. Unset
  BY <1>1 DEF Unset
<1>4. EatenOld
  <2> SUFFICES ASSUME NEW i \in Ids PROVE Eaten(i) = 0
    BY DEF EatenOld
  <2>1. filePos[i] = 0 /\ Len(obsListList[i]) = 0
    BY <1>1
  <2>2. Read(i) = 0
    BY <2>1 DEF Read, ReadTo
  <2>3. Eaten(i) = 0 - 0
    BY <2>1, <2>2 DEF Eaten
  <2> QED
    BY <2>3
<1>5. DeadInTime /\ OnlyDeadDropped /\ CompleteWhenDead
  BY <1>1 DEF DeadInTime, OnlyDeadDropped, CompleteWhenDead, IsDead
<1>6. VisitedAlive /\ RepeatsForAlive /\ FoundInFile
  BY <1>1 DEF VisitedAlive, RepeatsForAlive, FoundInFile, Running
<1>7. AliveGoOn
  <2> SUFFICES ASSUME tsync # NoTime, NEW i \in Ids PROVE GoesOn(i)
    BY DEF AliveGoOn
  <2>1. StartEpoch + Step < LastObs(i)
    BY <1>1 DEF Files, FilesGoOn, FirstEpoch
  <2>2. StartEpoch \in Nat /\ Step \in Nat /\ LastObs(i) \in Nat
    BY Numbers, StepTypes, FileObs
  <2> QED
    BY <1>1, <2>1, <2>2 DEF GoesOn, Running
<1>8. OverProcessed
  <2> SUFFICES ASSUME NEW i \in Ids, NEW k \in 1 .. Len(Streams[i].obs),
                      FirstEpoch <= Streams[i].obs[k],
                      \/ Streams[i].obs[k] < StartEpoch
                      \/ Streams[i].obs[k] = StartEpoch
               PROVE  FALSE
    BY <1>1 DEF OverProcessed, First
  <2>1. Streams[i].obs[k] \in Nat /\ Streams[i].obs[k] # NoTime
    BY FileObs
  <2>2. StartEpoch \in Nat /\ Step \in Nat \ {0}
    BY Numbers, StepTypes DEF Files
  <2>3. StartEpoch # NoTime
    BY <2>1, <2>2 DEF NoTime
  <2> QED
    BY <2>1, <2>2, <2>3 DEF FirstEpoch
<1> QED
  BY <1>2, <1>3, <1>4, <1>5, <1>6, <1>7, <1>8 DEF FilesInv

LEMMA FilesNext ==
    ASSUME Files, BaseInv, rushed \/ FilesInv, [Next]_vars
    PROVE  rushed' \/ FilesInv'
<1> SUFFICES ASSUME ~rushed' PROVE FilesInv'
  OBVIOUS
<1>1. ~rushed
  <2>1. rushed => rushed'
    BY Zenon DEF Next, MainThread, NextEpoch, BeginPass, SkipStream, EatObs, NoObs,
           FindObs, GetObs, EndPass, EndWait, InputsFinished, NoObservations,
           ProcessEpoch, Arrive, vars
  <2> QED
    BY <2>1
<1>2. FilesInv
  BY <1>1
<1>3. ASSUME NEW i \in Ids, SkipStream(i) \/ EatObs(i) \/ NoObs(i) \/ FindObs(i)
      PROVE  FilesInv'
  BY <1>2, <1>3, SkipStreamFiles, EatObsFiles, NoObsFiles, FindObsFiles
<1>4. CASE NextEpoch
  BY <1>2, <1>4, NextEpochFiles
<1>5. CASE BeginPass
  BY <1>2, <1>5, BeginPassFiles
<1>6. CASE EndPass \/ EndWait \/ InputsFinished
  BY <1>2, <1>6, ControlFiles
<1>7. CASE NoObservations \/ ProcessEpoch
  BY <1>2, <1>7, NoObservationsFiles, ProcessEpochFiles
<1>8. CASE \E i \in Ids : Arrive(i)
  BY <1>8, FileObs DEF Arrive
<1>9. CASE UNCHANGED vars
  <2>1. UNCHANGED <<filePos, obsListList, live, tsync, epochStations, history, pc,
                    loopEpochs, passes, repeat, complete, stream>>
    BY <1>9 DEF vars, streamVars
  <2>2. /\ InEpoch' = InEpoch
        /\ \A i \in Ids : IsDead(i)' <=> IsDead(i)
    BY <2>1 DEF IsDead, InEpoch
  <2>a. Pace' /\ Unset' /\ OnlyDeadDropped'
    BY <1>2, <2>1, <2>2 DEF FilesInv, Pace, Multiple, Unset, OnlyDeadDropped
  <2>b. VisitedAlive' /\ RepeatsForAlive' /\ CompleteWhenDead'
    <3>1. live \subseteq Ids
      BY DEF BaseInv, TypeInv, TypeOK
    <3> QED
      BY <1>2, <2>1, <2>2, <3>1
         DEF FilesInv, VisitedAlive, RepeatsForAlive, CompleteWhenDead
  <2>3. CASE pc # "start"
    <3>1. EatenOld' /\ DeadInTime' /\ AliveGoOn' /\ FoundInFile' /\ OverProcessed'
      BY <1>2, <2>1, <2>3, SameFiles DEF Running
    <3> QED
      BY <2>a, <2>b, <3>1 DEF FilesInv
  <2>4. CASE pc = "start"
    <3>1. \A i \in Ids : Eaten(i)' = Eaten(i)
      BY <2>1 DEF Eaten, Read
    <3>2. EatenOld' /\ DeadInTime' /\ AliveGoOn'
      BY <1>2, <2>1, <2>2, <2>4, <3>1
         DEF FilesInv, EatenOld, DeadInTime, AliveGoOn, GoesOn, Running, LastObs, Step
    <3>3. OverProcessed'
      BY <1>2, <2>1 DEF FilesInv, OverProcessed, First
    <3>4. FoundInFile'
      BY <2>1, <2>4 DEF FoundInFile, Running
    <3> QED
      BY <2>a, <2>b, <3>2, <3>3, <3>4 DEF FilesInv
  <2> QED
    BY <2>3, <2>4
<1> QED
  BY <1>3, <1>4, <1>5, <1>6, <1>7, <1>8, <1>9 DEF Next, MainThread

(* RINEX files without gaps, each with an epoch after the one that the     *)
(* loop begins with: when the inputs are finished and the loop never had   *)
(* to skip an epoch or a pass, every epoch of every file from the first    *)
(* one processed on was processed, whatever was read ahead, and however    *)
(* many files there are, one after the other, of a station.                *)
THEOREM FilesAreProcessed ==
    ASSUME Files
    PROVE  Spec => []AllProcessed
<1> DEFINE IInv == BaseInv /\ StaleInv /\ (rushed \/ FilesInv)
<1>1. Init => IInv
  <2>1. Init => BaseInv
    BY InitTypes, InitBuffer, InitSeconds DEF BaseInv, Files, Init, LookedInv
  <2>2. Init => StaleInv
    BY DEF Init, StaleInv
  <2> QED
    BY <2>1, <2>2, InitFiles
<1>2. IInv /\ [Next]_vars => IInv'
  <2>1. BaseInv /\ StaleInv /\ [Next]_vars => BaseInv' /\ StaleInv'
    BY TypesNext, BufferNext, StaleNext, LookedNext, SecondsNext
       DEF BaseInv, OverlookInv, Files
  <2> QED
    BY <2>1, FilesNext
<1>3. IInv => AllProcessed
  <2> SUFFICES ASSUME BaseInv, FilesInv, pc = "done", complete,
                      NEW i \in Ids, NEW k \in DOMAIN Streams[i].obs,
                      history = << >> \/ history[1].time <= Streams[i].obs[k]
               PROVE  \E n \in DOMAIN history :
                          history[n].obs[Streams[i].station] = Streams[i].obs[k]
    BY DEF AllProcessed
  <2>1. InEpoch = {} /\ \A j \in Ids : IsDead(j)
    BY DEF FilesInv, CompleteWhenDead
  <2>2. tsync # NoTime /\ LastObs(i) <= tsync /\ LastObs(i) # tsync
    BY <2>1 DEF FilesInv, DeadInTime
  <2>a. k \in 1 .. Len(Streams[i].obs)
    BY FileObs
  <2>3. /\ Streams[i].obs[k] \in Nat /\ Streams[i].obs[k] <= LastObs(i)
        /\ LastObs(i) \in Nat /\ tsync \in Nat
        /\ Len(Streams[i].obs) \in 1 .. Len(Streams[i].obs)
        /\ LastObs(i) = Streams[i].obs[Len(Streams[i].obs)]
    BY <2>a, FileObs, LoopTypes DEF BaseInv
  <2>4. LastObs(i) < tsync /\ Streams[i].obs[k] < tsync
    BY <2>2, <2>3
  <2>5. history # << >>
    <3> SUFFICES ASSUME history = << >> PROVE FALSE
      OBVIOUS
    <3>1. First < LastObs(i)
      BY DEF First, Files, FilesGoOn
    <3>2. First <= LastObs(i)
      <4>1. 1 \in Ids
        BY StreamTypes
      <4>2. Streams[1].obs[1] \in Nat
        BY <4>1, FileObs
      <4>3. First \in Nat
        BY <4>2, Numbers, StepTypes DEF First, FirstEpoch
      <4> QED
        BY <2>3, <3>1, <4>3
    <3>3. \E n \in DOMAIN history : history[n].obs[Streams[i].station] = LastObs(i)
      BY <2>3, <2>4, <3>2 DEF FilesInv, OverProcessed
    <3> QED
      BY <3>3
  <2>6. First <= Streams[i].obs[k]
    BY <2>5 DEF First
  <2> QED
    BY <2>a, <2>4, <2>6 DEF FilesInv, OverProcessed
<1> QED
  BY <1>1, <1>2, <1>3, PTL DEF Spec
==============================================================================
