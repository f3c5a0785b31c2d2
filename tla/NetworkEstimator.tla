-------------------------- MODULE NetworkEstimator --------------------------
(***************************************************************************)
(* The network filter from start to end of the program: the epochs of      *)
(* networkEstimator(), the ambiguities it gives up after an outage or      *)
(* after repeated rejections, the archive of the RTS smoother, the         *)
(* smoothing with a lag after each epoch or backwards over the whole run,  *)
(* the minimum constraints, and the persistance file that a later run      *)
(* starts from.  All of it is one thread; a run can end at any point.      *)
(***************************************************************************)
EXTENDS KFState

CONSTANTS Signals,       \* what the stations observe: a satellite from a station
          StationOf,     \* the station of a signal
          SatelliteOf,   \* and its satellite
          Pivot,         \* acsConfig.pivot_station
          CodeKeys,      \* the states in the design of the code measurement of a signal;
          AmbiguityOf,   \* the phase measurement has its ambiguity too
          OutageLimit,   \* netwOpts.outage_reset_limit
          RejectLimit,   \* netwOpts.phase_reject_limit
          MaxRejects,    \* max_prefit_remv + max_filter_iter
          Lags,          \* the values of rts_lag that are tried
          MaxTime,       \* bound: epochs of all runs together
          MaxRuns        \* bound: runs of the program

VARIABLES pc,         \* where the main thread is
          kf,         \* net.kfState
          options,    \* rts_lag, and whether minimum constraints are processed
          runs,       \* number of the run
          epoch,      \* of the run
          now,        \* tsync
          obsLists,   \* the signals in the obsLists of epochStations
          observed,   \* those of them that are not excluded
          sigStat,    \* SigStat.netwPhaseOutageCount and .netwPhaseRejectCount
          file,       \* rts_forward_filename
          rts,        \* the locals of RTS_Process
          backward,   \* the file of smoothed states that a full reverse writes
          persisted,  \* persistance_filename + "_states"
          history     \* what the properties remember of a signal's ambiguity

estimation == << kf, obsLists, observed, sigStat, history >>
vars == << pc, kf, options, runs, epoch, now, obsLists, observed, sigStat, file, rts,
           backward, persisted, history >>

RateKeys == {RateOf[d] : d \in DOMAIN RateOf}

(* A rate belongs to one state and is in no design; ambiguities have none.  *)
EstimatorConstants ==
    /\ \A c, d \in DOMAIN RateOf : RateOf[c] = RateOf[d] => c = d
    /\ DOMAIN StationOf = Signals /\ DOMAIN SatelliteOf = Signals
    /\ AmbiguityOf \in [Signals -> Keys \ (DOMAIN RateOf \cup RateKeys)]
    /\ CodeKeys \in [Signals -> SUBSET (Keys \ RateKeys)]
    /\ OutageLimit \in Nat \ {0} /\ RejectLimit \in Nat \ {0} /\ MaxRejects \in Nat
    /\ Lags \subseteq Int /\ MaxTime \in Nat /\ MaxRuns \in Nat

ASSUME NetworkConstants == EstimatorConstants

-----------------------------------------------------------------------------
(* Records of the archive.  "rows" are the states of the filter that a      *)
(* record describes, "cols" those that a transition starts from, "step"     *)
(* numbers the transitions of the run.                                      *)

NoRecord == [type |-> "NONE", step |-> 0, time |-> NoTime, rows |-> {}, cols |-> {}]

FilterRecord(type, f) ==
    [type |-> type, step |-> f.step, time |-> f.time, rows |-> DOMAIN f.kfIndexMap, cols |-> {}]

(* Mutant: an interrupted step is not finished.                             *)
MatrixOnly(f, newTime) ==
    << [type |-> "TRANSITION_MATRIX", step |-> f.step + 1, time |-> newTime,
        rows |-> DOMAIN f.stateTransitionMap, cols |-> DOMAIN f.kfIndexMap] >>

(* What stateTransition writes: an interrupted step is finished first, with *)
(* the time of the new one.                                                 *)
TransitionRecords(f, newTime) ==
    LET late == [f EXCEPT !.time = newTime]
    IN  (IF f.rtsFilterInProgress
         THEN << FilterRecord("FILTER_MINUS", late), FilterRecord("FILTER_PLUS", late) >>
         ELSE << >>)
        \o << [type |-> "TRANSITION_MATRIX", step |-> f.step + 1, time |-> newTime,
               rows |-> DOMAIN f.stateTransitionMap, cols |-> DOMAIN f.kfIndexMap] >>

Archiving == options.rts_lag # 0

Archived(records) == file' = file \o (IF Archiving THEN records ELSE << >>)

Transit(f, newTime) ==
    /\ kf' = [StateTransition(f, newTime) EXCEPT !.rtsFilterInProgress = Archiving]
    /\ Archived(TransitionRecords(f, newTime))

-----------------------------------------------------------------------------
PhaseKeys(s) == CodeKeys[s] \cup {AmbiguityOf[s]}
KeysOf(S) == UNION {PhaseKeys(s) : s \in S}

(* kfMeasEntryList.                                                         *)
MeasurementList ==
    [m \in observed \X {"P", "L"} |-> IF m[2] = "P" THEN CodeKeys[m[1]] ELSE PhaseKeys(m[1])]

Combined == CombineKFMeasList(kf, MeasurementList)

AtMost(bound, n) == IF n > bound THEN bound ELSE n

NoSmoothing ==
    [startPos |-> 0, lag |-> 0, smoothedXready |-> FALSE, smoothedPready |-> FALSE,
     transitionMatrix |-> NoRecord, kalmanMinus |-> NoRecord, smoothedKF |-> NoRecord]

NoCounts == [s \in {} |-> s]
NoHistory == [s \in Signals |-> [heard |-> 0, rejected |-> 0]]

Init ==
    /\ pc = "idle"
    /\ kf = NewFilter
    /\ options \in [rts_lag : Lags, minimum : BOOLEAN]
    /\ runs = 1
    /\ epoch = 0 /\ now = NoTime
    /\ obsLists = {} /\ observed = {}
    /\ sigStat = NoCounts /\ history = NoHistory
    /\ file = << >> /\ rts = NoSmoothing /\ backward = << >>
    /\ persisted = << >>

-----------------------------------------------------------------------------
(* The epochs of the main loop.                                             *)

Tracked == {s \in Signals : AmbiguityOf[s] \in DOMAIN kf.kfIndexMap}

NextEpoch == now < MaxTime /\ now' = now + 1 /\ epoch' = epoch + 1

(* Of each ambiguity: the epochs since a measurement used it, this one      *)
(* included, in which its station had observations, and how many of the     *)
(* last uses were rejected.                                                 *)
HistoryAfter(S) ==
    [s \in Signals |->
        IF s \notin Tracked THEN NoHistory[s]
        ELSE [history[s] EXCEPT
                 !.heard = IF \E v \in S : StationOf[v] = StationOf[s]
                           THEN AtMost(OutageLimit + 1, @ + 1) ELSE @]]

(* No station has observations: the main loop goes on.                      *)
SkipEpoch ==
    /\ pc = "idle"
    /\ NextEpoch
    /\ history' = HistoryAfter({})
    /\ UNCHANGED << pc, kf, options, runs, obsLists, observed, sigStat, file, rts,
                    backward, persisted >>

(* initFilterEpoch, removeBadAmbiguities and the count of outages, in the   *)
(* stations that have observations.                                         *)
Count(s) == IF s \in DOMAIN sigStat THEN sigStat[s] ELSE [outage |-> 0, reject |-> 0]

(* Mutant: the limit itself is not an outage.                               *)
LongerOutage(s) == s \in Tracked /\ Count(s).outage > OutageLimit

LongOutage(s) == s \in Tracked /\ Count(s).outage >= OutageLimit

ManyRejects(s) == s \in Tracked /\ Count(s).reject >= RejectLimit

Outage(s, S) ==
    LET kept == IF LongOutage(s) THEN 0 ELSE Count(s).outage
    IN  IF \E v \in S : StationOf[v] = StationOf[s]
        THEN AtMost(OutageLimit, kept + 1) ELSE kept

BeginEpoch(S) ==
    /\ pc = "idle"
    /\ NextEpoch
    /\ kf' = RemoveStates(InitFilterEpoch(kf),
                          {AmbiguityOf[s] : s \in {s \in Signals : LongOutage(s) \/ ManyRejects(s)}})
    /\ sigStat' = [s \in DOMAIN sigStat \cup Tracked |->
                     [outage |-> Outage(s, S),
                      reject |-> IF ManyRejects(s) THEN 0 ELSE Count(s).reject]]
    /\ obsLists' = S
    /\ history' = HistoryAfter(S)
    /\ pc' = "observe"
    /\ UNCHANGED << options, runs, observed, file, rts, backward, persisted >>

(* A satellite is used when two stations observe it.  The designs of the    *)
(* measurements add the states that they need.                              *)
Common == {s \in obsLists : \E v \in obsLists \ {s} : SatelliteOf[v] = SatelliteOf[s]}

AddMeasurements(S) ==
    /\ pc = "observe"
    /\ observed' = S
    /\ kf' = SetKFTransRates(AddKFStates(kf, KeysOf(S)), KeysOf(S))
    /\ sigStat' = [s \in DOMAIN sigStat \cup S |-> Count(s)]
    /\ pc' = "transition"
    /\ UNCHANGED << options, runs, epoch, now, obsLists, file, rts, backward, persisted, history >>

Smoothing == options.rts_lag > 0 /\ epoch > options.rts_lag

EndOfEpoch ==
    /\ obsLists' = {} /\ observed' = {}
    /\ IF Smoothing
       THEN pc' = "rts" /\ rts' = [NoSmoothing EXCEPT !.startPos = Len(file') + 1]
       ELSE pc' = "idle" /\ UNCHANGED rts

(* Without an observation of the pivot station the epoch ends here.         *)
Transition ==
    /\ pc = "transition"
    /\ Transit(kf, now)
    /\ history' = [s \in Signals |->
                      IF \/ AmbiguityOf[s] \notin DOMAIN kf.stateTransitionMap
                         \/ Fresh(kf, AmbiguityOf[s])
                      THEN NoHistory[s] ELSE history[s]]
    /\ IF \E s \in observed : StationOf[s] = Pivot
       THEN pc' = "lsq" /\ UNCHANGED << rts, obsLists, observed >>
       ELSE EndOfEpoch
    /\ UNCHANGED << options, runs, epoch, now, sigStat, backward, persisted >>

InitialiseStates ==
    /\ pc = "lsq"
    /\ kf' = IF kf.lsqRequired
             THEN [LeastSquareInitStates(kf, Combined) EXCEPT !.lsqRequired = FALSE]
             ELSE kf
    /\ pc' = "filter"
    /\ UNCHANGED << options, runs, epoch, now, obsLists, observed, sigStat, file, rts,
                    backward, persisted, history >>

(* filterKalman with its reject callbacks, then postFilterChecks: the       *)
(* phase measurements of R fail a check and are counted, the others are     *)
(* reset.  The filter_mode is its default, KALMAN; the other, LSQ, which    *)
(* would call filterLeastSquares here, is not modelled.                     *)
RejectCounted(R, s) == IF s \in R THEN Count(s).reject + 1 ELSE 0

Filter(R) ==
    /\ pc = "filter"
    /\ Cardinality(R) <= MaxRejects
    /\ kf' = FilterKalman(kf, now, Combined)
    /\ Archived(<< FilterRecord("FILTER_MINUS", kf), FilterRecord("FILTER_PLUS", kf') >>)
    /\ sigStat' = [s \in DOMAIN sigStat |->
                      IF s \in observed /\ DOMAIN Combined # {}
                      THEN [outage |-> 0, reject |-> RejectCounted(R, s)]
                      ELSE sigStat[s]]
    /\ history' = [s \in Signals |->
                      IF s \in observed
                      THEN [heard |-> 0,
                            rejected |-> IF s \in R THEN history[s].rejected + 1 ELSE 0]
                      ELSE history[s]]
    /\ EndOfEpoch
    /\ UNCHANGED << options, runs, epoch, now, backward, persisted >>

-----------------------------------------------------------------------------
(* RTS_Process reads the archive backwards, record by record.               *)

LastRead == file[rts.startPos - 1]

ReadMatrix ==
    /\ LastRead.type = "TRANSITION_MATRIX"
    /\ rts' = [rts EXCEPT !.startPos = @ - 1, !.transitionMatrix = LastRead]
    /\ UNCHANGED backward

ReadMinus ==
    /\ LastRead.type = "FILTER_MINUS"
    /\ rts' = [rts EXCEPT !.startPos = @ - 1, !.kalmanMinus = LastRead, !.smoothedXready = TRUE]
    /\ UNCHANGED backward

(* Mutant: the first state does not count.                                  *)
ReadPlusUncounted ==
    LET kept == rts.smoothedPready /\ ~ rts.smoothedXready
    IN  /\ LastRead.type = "FILTER_PLUS"
        /\ rts' = [rts EXCEPT !.startPos = @ - 1, !.smoothedPready = TRUE,
                              !.lag = IF rts.smoothedPready THEN @ + 1 ELSE @,
                              !.smoothedKF = IF kept THEN @ ELSE LastRead]
        /\ backward' = IF kept \/ options.rts_lag > 0 THEN backward
                       ELSE Append(backward, LastRead)

(* The first state is the smoothed one as it is; a later one is smoothed if *)
(* a FILTER_MINUS has been read.                                            *)
ReadPlus ==
    LET kept == rts.smoothedPready /\ ~ rts.smoothedXready
    IN  /\ LastRead.type = "FILTER_PLUS"
        /\ rts' = [rts EXCEPT !.startPos = @ - 1, !.lag = @ + 1, !.smoothedPready = TRUE,
                              !.smoothedKF = IF kept THEN @ ELSE LastRead]
        /\ backward' = IF kept \/ options.rts_lag > 0 THEN backward
                       ELSE Append(backward, LastRead)

RtsRead ==
    /\ pc = "rts"
    /\ rts.lag # options.rts_lag
    /\ rts.startPos > 1
    /\ ReadMatrix \/ ReadMinus \/ ReadPlus
    /\ UNCHANGED << pc, kf, options, runs, epoch, now, estimation, file, persisted >>

(* Mutant: the archive is left as it is.                                    *)
RtsEndUntrimmed ==
    /\ pc = "rts"
    /\ rts.lag = options.rts_lag \/ rts.startPos = 1
    /\ rts' = NoSmoothing
    /\ pc' = IF options.rts_lag > 0 THEN "idle" ELSE "stopped"
    /\ UNCHANGED << options, runs, epoch, now, estimation, file, backward, persisted >>

(* With the lag reached, the beginning of the archive is deleted.           *)
RtsEnd ==
    /\ pc = "rts"
    /\ rts.lag = options.rts_lag \/ rts.startPos = 1
    /\ file' = IF rts.lag = options.rts_lag THEN SubSeq(file, rts.startPos, Len(file)) ELSE file
    /\ rts' = NoSmoothing
    /\ pc' = IF options.rts_lag > 0 THEN "idle" ELSE "stopped"
    /\ UNCHANGED << options, runs, epoch, now, estimation, backward, persisted >>

-----------------------------------------------------------------------------
(* mainPostProcessing.  The minimum constraints are applied by a step that  *)
(* is told to go to no time at all.                                         *)
MinimumConstraints ==
    LET f == InitFilterEpoch(kf)
        g == [StateTransition(f, NoTime) EXCEPT !.rtsFilterInProgress = Archiving]
    IN  /\ pc = "idle"
        /\ epoch > 0
        /\ options.minimum
        /\ kf' = Estimated(g, {k \in DOMAIN g.kfIndexMap : Variance(g, k)})
        /\ Archived(TransitionRecords(f, NoTime)
                    \o << FilterRecord("FILTER_MINUS", g), FilterRecord("FILTER_PLUS", kf') >>)
        /\ pc' = "post"
        /\ UNCHANGED << options, runs, epoch, now, obsLists, observed, sigStat, rts,
                        backward, persisted, history >>

(* Mutant: the reverse file is continued.                                   *)
OutputAndContinue ==
    /\ \/ pc = "post"
       \/ pc = "idle" /\ epoch > 0 /\ ~ options.minimum
    /\ persisted' = Append(persisted, [time |-> kf.time, x |-> kf.x, P |-> kf.P,
                                       kfIndexMap |-> kf.kfIndexMap])
    /\ IF options.rts_lag < 0
       THEN pc' = "rts" /\ rts' = [NoSmoothing EXCEPT !.startPos = Len(file) + 1]
       ELSE pc' = "stopped" /\ UNCHANGED rts
    /\ UNCHANGED << options, runs, epoch, now, estimation, file, backward >>

(* The states are appended to the file.  A full reverse comes last, and     *)
(* begins its file anew.                                                    *)
OutputPersistanceStates ==
    /\ \/ pc = "post"
       \/ pc = "idle" /\ epoch > 0 /\ ~ options.minimum
    /\ persisted' = Append(persisted, [time |-> kf.time, x |-> kf.x, P |-> kf.P,
                                       kfIndexMap |-> kf.kfIndexMap])
    /\ IF options.rts_lag < 0
       THEN /\ pc' = "rts"
            /\ rts' = [NoSmoothing EXCEPT !.startPos = Len(file) + 1]
            /\ backward' = << >>
       ELSE pc' = "stopped" /\ UNCHANGED << rts, backward >>
    /\ UNCHANGED << options, runs, epoch, now, estimation, file >>

(* The program has ended, or dies, and is started again: with an empty      *)
(* archive, and the first filter of the persistance file when there is one. *)
Restored(saved) ==
    IF saved = << >> THEN NewFilter
    ELSE [NewFilter EXCEPT !.time = saved[1].time, !.x = saved[1].x, !.P = saved[1].P,
                           !.kfIndexMap = saved[1].kfIndexMap]

Start ==
    /\ runs < MaxRuns
    /\ runs' = runs + 1
    /\ pc' = "idle"
    /\ kf' = Restored(persisted)
    /\ epoch' = 0
    /\ obsLists' = {} /\ observed' = {}
    /\ sigStat' = NoCounts /\ history' = NoHistory
    /\ file' = << >> /\ rts' = NoSmoothing
    /\ UNCHANGED << options, now, backward, persisted >>

Next ==
    \/ SkipEpoch
    \/ \E S \in SUBSET Signals \ {{}} : BeginEpoch(S)
    \/ \E S \in SUBSET Common : AddMeasurements(S)
    \/ Transition
    \/ InitialiseStates
    \/ \E R \in SUBSET observed : Filter(R)
    \/ RtsRead
    \/ RtsEnd
    \/ MinimumConstraints
    \/ OutputPersistanceStates
    \/ Start

Spec == Init /\ [][Next]_vars

-----------------------------------------------------------------------------
(* Properties.                                                              *)

Record ==
    [type : {"TRANSITION_MATRIX", "FILTER_MINUS", "FILTER_PLUS"}, step : Nat, time : Nat,
     rows : SUBSET AllKeys, cols : SUBSET AllKeys]

AnyRecord == Record \cup {NoRecord}

SmoothingLocals ==
    [startPos : Nat, lag : Nat, smoothedXready : BOOLEAN, smoothedPready : BOOLEAN,
     transitionMatrix : AnyRecord, kalmanMinus : AnyRecord, smoothedKF : AnyRecord]

SavedType(f) ==
    [time : Nat, x : [Rows(DOMAIN f.kfIndexMap) -> Value],
     P : [Rows(DOMAIN f.kfIndexMap) -> BOOLEAN], kfIndexMap : {IndexMap(DOMAIN f.kfIndexMap)}]

(* Every variable has its type; the state vector of a filter has an element *)
(* for each key of its map of indices, and the map numbers them in their    *)
(* order.                                                                   *)
TypeOK ==
    /\ pc \in {"idle", "observe", "transition", "lsq", "filter", "rts", "post", "stopped"}
    /\ kf \in FilterType(kf)
    /\ DOMAIN kf.kfIndexMap \subseteq AllKeys /\ DOMAIN kf.stateTransitionMap \subseteq AllKeys
    /\ options \in [rts_lag : Lags, minimum : BOOLEAN]
    /\ runs \in Nat /\ epoch \in Nat /\ now \in 0 .. MaxTime
    /\ observed \subseteq Signals /\ obsLists \subseteq Signals
    /\ DOMAIN sigStat \subseteq Signals
    /\ sigStat \in [DOMAIN sigStat -> [outage : 0 .. OutageLimit, reject : Nat]]
    /\ history \in [Signals -> [heard : Nat, rejected : Nat]]
    /\ file \in Seq(Record) /\ backward \in Seq(Record)
    /\ \A i \in DOMAIN persisted : persisted[i] \in SavedType(persisted[i])
    /\ rts \in SmoothingLocals
    /\ rts.startPos \in (IF pc = "rts" THEN 1 ELSE 0) .. Len(file) + 1

(* The filter, with its sorted state vector and the map of indices that     *)
(* stateTransition replaces, keeps the promise of NamedStates: no value is  *)
(* ever that of another state, and only a new state starts again.           *)
StatesOf(f) == [k \in DOMAIN f.kfIndexMap \ {ONE} |-> f.x[f.kfIndexMap[k]]]

Abstract == INSTANCE NamedStates WITH
    states <- StatesOf(kf),
    saved <- [i \in DOMAIN persisted |-> StatesOf(persisted[i])]

NamesKept == Abstract!Spec

Born(k) == kf.x[kf.kfIndexMap[k]].born

(* A state that is created without a variance reaches the least squares of  *)
(* its epoch as it was created, whatever noise its own process or its rate  *)
(* adds, and the least squares are asked for.                               *)
LsqSeesNew ==
    pc = "lsq" =>
        \A k \in Uninitialised \cap DOMAIN kf.kfIndexMap :
            Born(k) = now => (kf.lsqRequired /\ ~ Variance(kf, k))

(* No list of measurements is thrown away because a state of its design is  *)
(* not in the filter.                                                       *)
MeasurementsHaveStates == pc \in {"lsq", "filter"} => Combined = MeasurementList

(* No measurement uses an ambiguity that its station has been without for   *)
(* more than outage_reset_limit epochs, or that phase_reject_limit          *)
(* measurements in a row have contradicted: it has been started again.      *)
BadAmbiguitiesGo ==
    pc = "lsq" =>
        \A s \in observed :
            \/ Born(AmbiguityOf[s]) = now
            \/ (history[s].heard <= OutageLimit /\ history[s].rejected < RejectLimit)

(* A state that is created without a variance is determined by least        *)
(* squares before the filter uses it with a variance.                       *)
UnsetAreSolved ==
    pc = "filter" =>
        \A k \in DOMAIN kf.kfIndexMap :
            Variance(kf, k) => kf.x[kf.kfIndexMap[k]].from # "unset"

(* A step of the smoother goes from the state after a step of the filter to *)
(* the state before it with the matrix of that step and the predicted state *)
(* of that step, in matrices that fit.                                      *)
SmoothsStepByStep ==
    (/\ pc = "rts" /\ rts.startPos > 1 /\ rts.lag # options.rts_lag
     /\ LastRead.type = "FILTER_PLUS" /\ rts.smoothedPready /\ rts.smoothedXready) =>
            /\ \A r \in {rts.transitionMatrix, rts.kalmanMinus, rts.smoothedKF} :
                  r.step = LastRead.step + 1 /\ r.rows = rts.smoothedKF.rows
            /\ rts.transitionMatrix.cols = LastRead.rows

(* Where the archive has the states that a filter step ended with.          *)
PlusAt == {i \in DOMAIN file : file[i].type = "FILTER_PLUS"}

(* The newest state of the archive counts as the first: a smoother that     *)
(* stops at its lag has read rts_lag states and ends at the one that is     *)
(* rts_lag - 1 filter steps older than the newest, although steps between   *)
(* them were interrupted, left early or written late.                       *)
SmoothedIsLagged ==
    (pc = "rts" /\ rts.lag = options.rts_lag) =>
        \E last \in PlusAt :
            /\ \A i \in PlusAt : i <= last
            /\ rts.smoothedKF.step = file[last].step - options.rts_lag + 1

(* A full reverse smooths every state of the archive, the last one first.   *)
EveryStepSmoothed ==
    (pc = "stopped" /\ options.rts_lag < 0) =>
        /\ {backward[n] : n \in DOMAIN backward} = {file[i] : i \in PlusAt}
        /\ \A m, n \in DOMAIN backward : m < n => backward[m].step > backward[n].step

(* With a lag the archive does not grow: at most two more states than the   *)
(* lag, that of an interrupted epoch and that of the next.                  *)
ArchiveBounded == options.rts_lag > 0 => Cardinality(PlusAt) <= options.rts_lag + 2
=============================================================================
