------------------------------ MODULE EpochSync ------------------------------
(***************************************************************************)
(* The epoch loop of the PEA: main() of pea/main.cpp with the observation  *)
(* streams it reads (ObsStream, FileRinexStream, FileRtcmStream and        *)
(* NtripRtcmStream of common/acsStream.hpp, ACSFileStream).                *)
(*                                                                         *)
(* Each turn of the loop advances tsync by one epoch and passes over the   *)
(* streams, again and again, until every station has observations within   *)
(* half a second of tsync or the waiting time is over; then the stations   *)
(* found are processed.  Streams parse ahead into obsListList, epochs that *)
(* are too old are eaten from it, and a file that was read to its end is   *)
(* dead.  Clocks are not modelled: the waiting time may be over before any *)
(* pass, and processing may take long enough to skip epochs.               *)
(***************************************************************************)
EXTENDS Integers, Sequences

CONSTANTS
    Streams,        \* obsStreamMultimap in its order: a sequence of records
                    \* [station, kind, obs, truncated], where obs holds the
                    \* times of the stream's epochs (Empty: without satellites)
                    \* and truncated says that a file ends within a frame
    TicksPerSecond, \* unit of time
    EpochInterval,  \* epoch_interval, in ticks
    StartEpoch,     \* start_epoch or NoTime
    EndEpoch,       \* end_epoch or NoTime
    MaxEpochs,      \* max_epochs, 0: none
    MaxPasses,      \* bound on the passes that wait_all_stations leaves time for
    MaxExcess,      \* bound on the epochs one skips after a long processing
    Horizon         \* times from here on, and epoch numbers, are not told apart

NoTime == 0
Empty  == 0
Delta  == TicksPerSecond \div 2

IsFile(s) == s.kind \in {"rinex", "rtcm"}

ASSUME ConstantsAssumption ==
    /\ Streams \in Seq([station : STRING, kind : {"rinex", "rtcm", "ntrip"},
                        obs : Seq(Nat), truncated : BOOLEAN])
    /\ TicksPerSecond \in Nat \ {0}
    /\ EpochInterval \in Nat \ {0}
    /\ {StartEpoch, EndEpoch, MaxEpochs, MaxExcess} \subseteq Nat
    /\ MaxPasses \in Nat \ {0}
    /\ Horizon \in Nat
    /\ StartEpoch < Horizon
    /\ MaxEpochs < Horizon
    /\ \A i \in DOMAIN Streams : \A k \in DOMAIN Streams[i].obs :
          Streams[i].obs[k] + Delta < Horizon

Ids      == DOMAIN Streams
Stations == {Streams[i].station : i \in Ids}

(* Of streams and intervals, where theorems need more than the above.      *)
OneStreamEach ==
    \A i, j \in Ids : Streams[i].station = Streams[j].station => i = j

(* A stream's epochs are in order, and each has satellites.                *)
ObsAscend ==
    \A i \in Ids : \A k, l \in DOMAIN Streams[i].obs :
        /\ Streams[i].obs[k] # Empty
        /\ k < l => Streams[i].obs[k] <= Streams[i].obs[l]

Multiple(time, unit) == unit * (time \div unit) = time

(* Receivers observe on whole seconds.                                     *)
OnSeconds ==
    /\ Multiple(StartEpoch, TicksPerSecond)
    /\ \A i \in Ids : \A k \in DOMAIN Streams[i].obs :
          Multiple(Streams[i].obs[k], TicksPerSecond)

(* What tsync advances by when no epoch is skipped.                        *)
Step == TicksPerSecond * (EpochInterval \div TicksPerSecond)

(* RINEX files without gaps at the epochs of the loop, those of a station  *)
(* one after the other.                                                    *)
FilesWithoutGaps ==
    /\ Multiple(StartEpoch, Step)
    /\ \A i \in Ids :
          /\ Streams[i].kind = "rinex" /\ ~Streams[i].truncated
          /\ Len(Streams[i].obs) >= 2
          /\ \A k \in DOMAIN Streams[i].obs : Multiple(Streams[i].obs[k], Step)
          /\ \A k \in 1 .. Len(Streams[i].obs) - 1 :
                Streams[i].obs[k + 1] = Streams[i].obs[k] + Step
    /\ \A i, j \in Ids : i < j /\ Streams[i].station = Streams[j].station =>
          \A k \in DOMAIN Streams[i].obs, l \in DOMAIN Streams[j].obs :
              Streams[i].obs[k] < Streams[j].obs[l]

LastObs(i) == Streams[i].obs[Len(Streams[i].obs)]

FirstEpoch == IF StartEpoch = NoTime THEN Streams[1].obs[1] ELSE StartEpoch + Step

(* No file ends with the epoch that the loop begins with, or before: read  *)
(* no further than that, it is found dead only when the next epoch has     *)
(* nothing for it; and if that is then the last one of all others too,     *)
(* the inputs are finished with what was found for it not processed.       *)
FilesGoOn == \A i \in Ids : FirstEpoch < LastObs(i)

VARIABLES
    arrived,        \* per stream: epochs that are there to be read
    filePos,        \* per stream: epochs read from it, -1: end of file
    obsListList,    \* per stream: epochs parsed and not eaten
    live,           \* the streams still in obsStreamMultimap
    obsList,        \* per station: time of rec.obsList, NoTime when empty
    tsync,
    epoch,
    loopEpochs,
    epochStations,  \* stations with data for this epoch
    repeat,
    passes,         \* passes made for this epoch
    stream,         \* next stream of the pass
    complete,
    pc,             \* "start", "wait", "pass", "process" or "done"
    history,        \* the epochs processed: tsync and the stations' times
    rushed          \* an epoch was skipped or had no time for any pass

streamVars == <<filePos, obsListList>>
vars == <<arrived, streamVars, live, obsList, tsync, epoch, loopEpochs,
          epochStations, repeat, passes, stream, complete, pc, history, rushed>>

TypeOK ==
    /\ arrived \in [Ids -> Nat]
    /\ filePos \in [Ids -> Nat \cup {-1}]
    /\ obsListList \in [Ids -> Seq(Nat)]
    /\ live \subseteq Ids
    /\ obsList \in [Stations -> Nat]
    /\ tsync \in 0 .. Horizon
    /\ epoch \in 0 .. Horizon
    /\ loopEpochs \in 1 .. 1 + MaxExcess
    /\ epochStations \in Seq(Stations)
    /\ repeat \in BOOLEAN
    /\ passes \in 0 .. MaxPasses
    /\ stream \in 1 .. Len(Streams) + 1
    /\ complete \in BOOLEAN
    /\ pc \in {"start", "wait", "pass", "process", "done"}
    /\ history \in Seq([time : Nat, obs : [Stations -> Nat]])
    /\ rushed \in BOOLEAN

Init ==
    /\ arrived = [i \in Ids |-> IF IsFile(Streams[i])
                                THEN Len(Streams[i].obs) ELSE 0]
    /\ filePos = [i \in Ids |-> 0]
    /\ obsListList = [i \in Ids |-> << >>]
    /\ live = Ids
    /\ obsList = [s \in Stations |-> NoTime]
    /\ tsync = StartEpoch
    /\ epoch = 0
    /\ loopEpochs = 1
    /\ epochStations = << >>
    /\ repeat = FALSE
    /\ passes = 0
    /\ stream = 1
    /\ complete = FALSE
    /\ pc = "start"
    /\ history = << >>
    /\ rushed = FALSE

------------------------------------------------------------------------------
(* Another epoch arrives on a caster's stream.                             *)
Arrive(i) ==
    /\ ~IsFile(Streams[i])
    /\ pc # "done"
    /\ arrived[i] < Len(Streams[i].obs)
    /\ arrived' = [arrived EXCEPT ![i] = @ + 1]
    /\ UNCHANGED <<streamVars, live, obsList, tsync, epoch, loopEpochs,
                   epochStations, repeat, passes, stream, complete, pc,
                   history, rushed>>

------------------------------------------------------------------------------
(* The streams.  getObs() parses one epoch more when few are buffered.  A  *)
(* file that has no whole epoch left is at its end, unless what it has     *)
(* left is the start of a frame, for which parseRTCM goes back.            *)
Parses(i) ==
    CASE Streams[i].kind = "rinex" -> Len(obsListList[i]) < 2
      [] Streams[i].kind = "rtcm"  -> Len(obsListList[i]) < 3
      [] Streams[i].kind = "ntrip" -> TRUE

More(i) == filePos[i] \in 0 .. arrived[i] - 1

Parsed(i) ==
    IF Parses(i) /\ More(i)
    THEN Append(obsListList[i], Streams[i].obs[filePos[i] + 1])
    ELSE obsListList[i]

FilePos(i) ==
    CASE Parses(i) /\ More(i) -> filePos[i] + 1
      [] Parses(i) /\ ~More(i) /\ IsFile(Streams[i]) /\ ~Streams[i].truncated
                 -> -1
      [] OTHER   -> filePos[i]

NeverDead(i)  == FALSE      \* mutant: dead streams are not recognised
DeadWhenRead(i) ==          \* mutant: dead once everything was parsed
    IsFile(Streams[i]) /\ filePos[i] \in {-1, Len(Streams[i].obs)}

IsDead(i) == filePos[i] = -1

(* getObs(tsync) looks at the oldest epoch parsed.                         *)
NeverOld(time)  == FALSE                        \* mutant: nothing is eaten
WideTooOld(time) == time < tsync - 2 * Delta    \* mutant: a wider tolerance

TooOld(time) == time < tsync - Delta

Eats(i) ==
    /\ Parsed(i) # << >>
    /\ Head(Parsed(i)) # Empty
    /\ tsync # NoTime
    /\ TooOld(Head(Parsed(i)))

ExactlyFinds(i) ==              \* mutant: the tolerance is left out
    /\ Parsed(i) # << >>
    /\ Head(Parsed(i)) # Empty
    /\ ~Eats(i)
    /\ tsync # NoTime => Head(Parsed(i)) = tsync

Finds(i) ==
    /\ Parsed(i) # << >>
    /\ Head(Parsed(i)) # Empty
    /\ ~Eats(i)
    /\ tsync # NoTime => Head(Parsed(i)) <= tsync + Delta

------------------------------------------------------------------------------
(* The loop.  tsync.time is an integer: += drops the fraction.             *)
AtMost(n) == IF n < Horizon THEN n ELSE Horizon

NextTime ==
    AtMost(tsync + TicksPerSecond
                       * ((loopEpochs * EpochInterval) \div TicksPerSecond))

NextEpoch ==
    /\ pc = "start"
    /\ tsync' = IF tsync = NoTime THEN NoTime ELSE NextTime
    /\ epoch' = AtMost(epoch + loopEpochs)
    /\ epochStations' = << >>
    /\ repeat' = TRUE
    /\ passes' = 0
    /\ pc' = "wait"
    /\ UNCHANGED <<arrived, streamVars, live, obsList, loopEpochs, stream,
                   complete, history, rushed>>

(* There is time for a pass: drop the dead streams, then visit the others. *)
BeginPass ==
    /\ pc = "wait"
    /\ repeat
    /\ passes < MaxPasses
    /\ live' = {i \in live : ~IsDead(i)}
    /\ passes' = passes + 1
    /\ repeat' = FALSE
    /\ stream' = 1
    /\ complete' = (live' = {})
    /\ pc' = IF complete' THEN "process" ELSE "pass"
    /\ UNCHANGED <<arrived, streamVars, obsList, tsync, epoch, loopEpochs,
                   epochStations, history, rushed>>

NoneYet(station) == FALSE       \* mutant: every pass reads every stream

AlreadyHave(station) ==
    obsList[station] # NoTime /\ obsList[station] = tsync

Visiting(i) ==
    /\ pc = "pass"
    /\ stream = i
    /\ i \in live
    /\ ~AlreadyHave(Streams[i].station)

SkipStream(i) ==
    /\ pc = "pass"
    /\ stream = i
    /\ i \in live => AlreadyHave(Streams[i].station)
    /\ stream' = i + 1
    /\ UNCHANGED <<arrived, streamVars, live, obsList, tsync, epoch, loopEpochs,
                   epochStations, repeat, passes, complete, pc, history, rushed>>

(* One turn of the loop in getObs(time): eat an old epoch and look again.  *)
EatObs(i) ==
    /\ Visiting(i)
    /\ Eats(i)
    /\ obsListList' = [obsListList EXCEPT ![i] = Tail(Parsed(i))]
    /\ filePos' = [filePos EXCEPT ![i] = FilePos(i)]
    /\ UNCHANGED <<arrived, live, obsList, tsync, epoch, loopEpochs,
                   epochStations, repeat, passes, stream, complete, pc, history,
                   rushed>>

GetObs(i, time) ==
    /\ obsListList' = [obsListList EXCEPT ![i] = Parsed(i)]
    /\ filePos' = [filePos EXCEPT ![i] = FilePos(i)]
    /\ obsList' = [obsList EXCEPT ![Streams[i].station] = time]
    /\ stream' = i + 1
    /\ UNCHANGED <<arrived, live, epoch, loopEpochs, passes, complete, pc,
                   history, rushed>>

NoObs(i) ==
    /\ Visiting(i)
    /\ ~Eats(i)
    /\ ~Finds(i)
    /\ GetObs(i, NoTime)
    /\ repeat' = TRUE
    /\ UNCHANGED <<tsync, epochStations>>

FindObs(i) ==
    /\ Visiting(i)
    /\ Finds(i)
    /\ GetObs(i, Head(Parsed(i)))
    /\ tsync' = IF tsync = NoTime THEN Head(Parsed(i)) ELSE tsync
    /\ epochStations' = Append(epochStations, Streams[i].station)
    /\ UNCHANGED repeat

EndPass ==
    /\ pc = "pass"
    /\ stream > Len(Streams)
    /\ pc' = "wait"
    /\ UNCHANGED <<arrived, streamVars, live, obsList, tsync, epoch, loopEpochs,
                   epochStations, repeat, passes, stream, complete, history,
                   rushed>>

(* Nothing to wait for, or no time left to.                                *)
EndWait ==
    /\ pc = "wait"
    /\ pc' = "process"
    /\ rushed' = (rushed \/ passes = 0)
    /\ UNCHANGED <<arrived, streamVars, live, obsList, tsync, epoch, loopEpochs,
                   epochStations, repeat, passes, stream, complete, history>>

InputsFinished ==
    /\ pc = "process"
    /\ complete
    /\ pc' = "done"
    /\ UNCHANGED <<arrived, streamVars, live, obsList, tsync, epoch, loopEpochs,
                   epochStations, repeat, passes, stream, complete, history,
                   rushed>>

NoObservations ==
    /\ pc = "process"
    /\ ~complete
    /\ tsync = NoTime \/ epochStations = << >>
    /\ loopEpochs' = IF tsync = NoTime THEN loopEpochs ELSE 1
    /\ pc' = "start"
    /\ UNCHANGED <<arrived, streamVars, live, obsList, tsync, epoch,
                   epochStations, repeat, passes, stream, complete, history,
                   rushed>>

(* The conditions under which an epoch is the last one processed.          *)
PastLastEpoch ==                \* mutant: one epoch too many
    MaxEpochs > 0 /\ epoch > MaxEpochs

WholeSeconds(time) == TicksPerSecond * (time \div TicksPerSecond)

LastEpoch ==
    \/ EndEpoch # NoTime /\ WholeSeconds(tsync) >= EndEpoch
    \/ MaxEpochs > 0 /\ epoch >= MaxEpochs

(* Epochs to skip, a negative number of them counted as none.              *)
AnyExcess == -1 .. MaxExcess    \* mutant: the clamp is left out

Excess == 0 .. MaxExcess

InEpoch == {epochStations[k] : k \in DOMAIN epochStations}

ProcessEpoch ==
    /\ pc = "process"
    /\ ~complete
    /\ tsync # NoTime
    /\ epochStations # << >>
    /\ history' = Append(history,
                    [time |-> tsync,
                     obs  |-> [s \in Stations |-> IF s \in InEpoch
                                                  THEN obsList[s] ELSE NoTime]])
    /\ IF LastEpoch
       THEN /\ pc' = "done"
            /\ UNCHANGED <<loopEpochs, rushed>>
       ELSE /\ pc' = "start"
            /\ \E excessLoops \in Excess : loopEpochs' = 1 + excessLoops
            /\ rushed' = (rushed \/ loopEpochs' > 1)
    /\ UNCHANGED <<arrived, streamVars, live, obsList, tsync, epoch,
                   epochStations, repeat, passes, stream, complete>>

MainThread ==
    \/ NextEpoch
    \/ BeginPass
    \/ \E i \in Ids : SkipStream(i) \/ EatObs(i) \/ NoObs(i) \/ FindObs(i)
    \/ EndPass
    \/ EndWait
    \/ InputsFinished
    \/ NoObservations
    \/ ProcessEpoch

Next == MainThread \/ \E i \in Ids : Arrive(i)

Spec == Init /\ [][Next]_vars

(* A turn that had no time for a pass takes none either, and moves the end *)
(* of the waiting time on: there will be time again.                       *)
FairSpec == Spec /\ WF_vars(MainThread) /\ SF_vars(BeginPass)

------------------------------------------------------------------------------
(* Safety.                                                                 *)

Near(time) == tsync - Delta <= time /\ time <= tsync + Delta

Synced == pc = "process" /\ ~complete /\ tsync # NoTime

(* Whatever the streams deliver, late or early, and however many passes    *)
(* and skipped epochs it took, the stations processed together have        *)
(* observations, and of this epoch.                                        *)
StationsOnTime ==
    Synced => \A s \in InEpoch : obsList[s] # NoTime /\ Near(obsList[s])

(* "already have observations for this epoch": no station is put twice on  *)
(* the list of stations that are then processed in parallel.               *)
EachStationOnce ==
    \A j, k \in DOMAIN epochStations :
        epochStations[j] = epochStations[k] => j = k

(* No observation is processed in two epochs, or after a later one of its  *)
(* station.                                                                *)
ObsInOrder ==
    \A j, k \in DOMAIN history, s \in Stations :
        j < k /\ history[j].obs[s] # NoTime /\ history[k].obs[s] # NoTime
            => history[j].obs[s] < history[k].obs[s]

(* After a pass, a station is left out of the epoch only if none of its    *)
(* streams holds observations for it: none is hidden behind others.        *)
NoneOverlooked ==
    Synced /\ passes > 0 =>
        \A i \in live : \A k \in DOMAIN obsListList[i] :
            /\ obsListList[i][k] # Empty
            /\ Near(obsListList[i][k])
            => Streams[i].station \in InEpoch

(* RINEX files without gaps, and a loop that always had time for a pass    *)
(* and skipped nothing: when the inputs are finished, each epoch of each   *)
(* file from the first one processed on has been processed.                *)
AllProcessed ==
    pc = "done" /\ complete /\ ~rushed =>
        \A i \in Ids : \A k \in DOMAIN Streams[i].obs :
            history = << >> \/ history[1].time <= Streams[i].obs[k] =>
                \E n \in DOMAIN history :
                    history[n].obs[Streams[i].station] = Streams[i].obs[k]

(* The loop ends no later than max_epochs and end_epoch say: skipped and   *)
(* empty epochs, for which the conditions are not looked at, let at most   *)
(* the one epoch through that meets them.                                  *)
StopsOnTime ==
    /\ MaxEpochs > 0 => Len(history) <= MaxEpochs
    /\ EndEpoch # NoTime =>
          \A j, k \in DOMAIN history :
              j < k => WholeSeconds(history[j].time) < EndEpoch

------------------------------------------------------------------------------
(* Liveness: files run out, and the loop with them, however long the       *)
(* loop waits and whatever it skips.                                       *)
Terminates == <>(pc = "done")
==============================================================================
