----------------------- MODULE NetworkEstimatorProofs -----------------------
(***************************************************************************)
(* Proofs about the network filter, for every set of signals, of states    *)
(* and of limits: what each step does to the filter (from KFStateProofs),  *)
(* the inductive invariant, and from it the properties of                  *)
(* NetworkEstimator, the refinement of NamedStates among them.             *)
(***************************************************************************)
EXTENDS NetworkEstimator, KFStateProofs, SequenceTheorems, FiniteSetTheorems

(* A filter that has been saved, with what the file does not have.          *)
Whole(p) ==
    [NewFilter EXCEPT !.time = p.time, !.x = p.x, !.P = p.P, !.kfIndexMap = p.kfIndexMap]

SavedFilter ==
    {p \in [time : Nat, x : UNION {[Rows(D) -> Value] : D \in SUBSET AllKeys},
            P : UNION {[Rows(D) -> BOOLEAN] : D \in SUBSET AllKeys},
            kfIndexMap : {IndexMap(D) : D \in SUBSET AllKeys}] : Shaped(Whole(p))}

Control ==
    /\ pc \in {"idle", "observe", "transition", "lsq", "filter", "rts", "post", "stopped"}
    /\ options \in [rts_lag : Lags, minimum : BOOLEAN]
    /\ runs \in Nat /\ epoch \in Nat /\ now \in 0 .. MaxTime
    /\ observed \in SUBSET Signals /\ obsLists \in SUBSET Signals

Counts ==
    /\ DOMAIN sigStat \in SUBSET Signals
    /\ sigStat \in [DOMAIN sigStat -> [outage : 0 .. OutageLimit, reject : Nat]]
    /\ history \in [Signals -> [heard : Nat, rejected : Nat]]

Filters ==
    /\ Shaped(kf)
    /\ pc \in {"observe", "transition", "lsq", "filter"} => MatrixOf(kf)
    /\ pc \in {"observe", "transition"} => KeepsStates(kf)
    /\ DOMAIN kf.stateTransitionMap \in SUBSET AllKeys
    /\ persisted \in Seq(SavedFilter)

(* What is observed has its states in the matrix, then in the filter.       *)
Designs ==
    /\ pc = "transition" => KeysOf(observed) \subseteq DOMAIN kf.stateTransitionMap
    /\ pc \in {"lsq", "filter"} => KeysOf(observed) \subseteq DOMAIN kf.kfIndexMap

Archive ==
    /\ file \in Seq(Record) /\ backward \in Seq(Record)
    /\ rts \in SmoothingLocals
    /\ pc # "rts" => rts = NoSmoothing
    /\ pc = "rts" => rts.startPos \in 1 .. Len(file) + 1

IInv == Control /\ Counts /\ Filters /\ Designs /\ Archive

-----------------------------------------------------------------------------
(* The constants.                                                           *)

LEMMA KeysOfType == ASSUME NEW S \in SUBSET Signals PROVE KeysOf(S) \in SUBSET (Keys \ RateKeys)
  BY NetworkConstants DEF EstimatorConstants, KeysOf, PhaseKeys

LEMMA LimitsType ==
  /\ OutageLimit \in Nat /\ OutageLimit >= 1
  /\ RejectLimit \in Nat /\ RejectLimit >= 1 /\ MaxTime \in Nat /\ Lags \subseteq Int
  BY NetworkConstants DEF EstimatorConstants

LEMMA WholeFields ==
  ASSUME NEW p
  PROVE  /\ Whole(p).time = p.time /\ Whole(p).x = p.x /\ Whole(p).P = p.P
         /\ Whole(p).kfIndexMap = p.kfIndexMap
         /\ Whole(p).rtsFilterInProgress = FALSE /\ Whole(p).step = 0
         /\ DOMAIN Whole(p).stateTransitionMap = {}
  BY DEF Whole, NewFilter

(* The flag of the archive is no part of the shape.                         *)
LEMMA FlagKeeps ==
  ASSUME NEW f, Shaped(f), NEW b \in BOOLEAN
  PROVE  LET g == [f EXCEPT !.rtsFilterInProgress = b]
         IN  /\ Shaped(g) /\ SameMatrix(f, g)
             /\ g.x = f.x /\ g.P = f.P /\ g.time = f.time
             /\ g.lsqRequired = f.lsqRequired
             /\ g.rtsFilterInProgress = b
  <1> DEFINE g == [f EXCEPT !.rtsFilterInProgress = b]
  <1>1. /\ SameMatrix(f, g) /\ g.x = f.x /\ g.P = f.P /\ g.time = f.time
        /\ g.lsqRequired = f.lsqRequired /\ g.rtsFilterInProgress = b
    BY DEF Shaped, FilterType, SameMatrix
  <1>2. g \in FilterType(g)
    BY <1>1 DEF Shaped, FilterType, SameMatrix
  <1> HIDE DEF g
  <1>3. Shaped(g)
    BY <1>1, <1>2 DEF Shaped, SameMatrix
  <1> QED BY <1>1, <1>3 DEF g

-----------------------------------------------------------------------------
(* What the steps do to the filter.                                         *)

Removed == {AmbiguityOf[s] : s \in {s \in Signals : LongOutage(s) \/ ManyRejects(s)}}

LEMMA BeginKeeps ==
  ASSUME IInv, NEW S \in SUBSET Signals, BeginEpoch(S)
  PROVE  /\ Shaped(kf') /\ MatrixOf(kf') /\ KeepsStates(kf') /\ SameStates(kf, kf')
         /\ kf'.stateTransitionMap = [k \in DOMAIN kf.kfIndexMap \ Removed |-> k]
         /\ kf'.initNoiseMap = {} /\ kf'.lsqRequired = kf.lsqRequired
         /\ kf'.rateTransitionMap = kf.rateTransitionMap \ Removed
  <1> DEFINE h == InitFilterEpoch(kf)
  <1>1. Removed \in SUBSET Keys
    BY NetworkConstants DEF EstimatorConstants, Removed
  <1>2. /\ Shaped(h) /\ MatrixOf(h) /\ KeepsStates(h) /\ SameStates(kf, h)
        /\ h.stateTransitionMap = [k \in DOMAIN kf.kfIndexMap |-> k]
        /\ h.initNoiseMap = {} /\ h.lsqRequired = kf.lsqRequired
        /\ h.rateTransitionMap = kf.rateTransitionMap
    BY InitFilterEpochKeeps DEF IInv, Filters
  <1>3. kf' = RemoveStates(h, Removed)
    BY DEF BeginEpoch, Removed
  <1> HIDE DEF h, Removed
  <1>4. /\ Shaped(kf') /\ MatrixOf(kf') /\ KeepsStates(kf') /\ SameStates(h, kf')
        /\ kf'.stateTransitionMap = [k \in DOMAIN h.stateTransitionMap \ Removed |->
                                       h.stateTransitionMap[k]]
        /\ kf'.initNoiseMap = h.initNoiseMap /\ kf'.lsqRequired = h.lsqRequired
        /\ kf'.rateTransitionMap = h.rateTransitionMap \ Removed
    <2> DEFINE g == RemoveStates(h, Removed)
    <2>1. Shaped(g) /\ MatrixOf(g) /\ KeepsStates(g) /\ SameStates(h, g)
      BY <1>1, <1>2, RemoveStatesKeeps
    <2>2. g.stateTransitionMap = [k \in DOMAIN h.stateTransitionMap \ Removed |->
                                    h.stateTransitionMap[k]]
      BY <1>1, <1>2, RemoveStatesKeeps
    <2>3. /\ g.initNoiseMap = h.initNoiseMap /\ g.lsqRequired = h.lsqRequired
          /\ g.rateTransitionMap = h.rateTransitionMap \ Removed
      BY <1>1, <1>2, RemoveStatesKeeps
    <2> HIDE DEF g
    <2>4. kf' = g
      BY <1>3 DEF g
    <2> QED BY <2>1, <2>2, <2>3, <2>4
  <1>5. SameStates(kf, kf')
    BY <1>2, <1>4 DEF SameStates
  <1>6. kf'.stateTransitionMap = [k \in DOMAIN kf.kfIndexMap \ Removed |-> k]
    BY <1>2, <1>4
  <1> QED BY <1>2, <1>4, <1>5, <1>6

LEMMA AddKeeps ==
  ASSUME IInv, NEW S \in SUBSET Common, AddMeasurements(S)
  PROVE  LET K == KeysOf(S)
             R == {RateOf[d] : d \in K \cap DOMAIN RateOf}
             old == kf.stateTransitionMap
         IN  /\ Shaped(kf') /\ MatrixOf(kf') /\ KeepsStates(kf') /\ SameStates(kf, kf')
             /\ kf'.stateTransitionMap = [k \in DOMAIN old \cup K \cup R |->
                                            IF k \in DOMAIN old THEN old[k] ELSE ONE]
             /\ kf'.initNoiseMap = kf.initNoiseMap \cup ((K \cup R) \ DOMAIN old)
             /\ kf'.lsqRequired = (kf.lsqRequired
                                    \/ ((K \cup R) \ DOMAIN old) \cap Uninitialised # {})
             /\ kf'.rateTransitionMap = kf.rateTransitionMap \cup (K \cap DOMAIN RateOf)
             /\ K \in SUBSET (Keys \ RateKeys)
  <1> DEFINE K == KeysOf(S)
             R == {RateOf[d] : d \in K \cap DOMAIN RateOf}
             h == AddKFStates(kf, K)
             old == kf.stateTransitionMap
             freshK == K \ DOMAIN old
             freshR == R \ DOMAIN h.stateTransitionMap
  <1>1. K \in SUBSET (Keys \ RateKeys)
    <2>1. S \in SUBSET Signals
      BY DEF IInv, Control, Common
    <2> QED BY <2>1, KeysOfType
  <1>2. Shaped(kf) /\ MatrixOf(kf) /\ KeepsStates(kf)
    BY DEF IInv, Filters, AddMeasurements
  <1>3. kf' = SetKFTransRates(h, K)
    BY DEF AddMeasurements
  <1> HIDE DEF K
  <1>4. /\ Shaped(h) /\ MatrixOf(h) /\ KeepsStates(h) /\ SameStates(kf, h)
        /\ h.stateTransitionMap = [k \in DOMAIN old \cup K |->
                                     IF k \in freshK THEN ONE ELSE old[k]]
        /\ h.initNoiseMap = kf.initNoiseMap \cup freshK
        /\ h.lsqRequired = (kf.lsqRequired \/ freshK \cap Uninitialised # {})
        /\ h.rateTransitionMap = kf.rateTransitionMap
    BY <1>1, <1>2, AddKFStatesKeeps
  <1> HIDE DEF h
  <1>5. /\ Shaped(kf') /\ MatrixOf(kf') /\ KeepsStates(kf') /\ SameStates(h, kf')
        /\ kf'.stateTransitionMap = [k \in DOMAIN h.stateTransitionMap \cup R |->
                                       IF k \in freshR THEN ONE ELSE h.stateTransitionMap[k]]
        /\ kf'.initNoiseMap = h.initNoiseMap \cup freshR
        /\ kf'.lsqRequired = (h.lsqRequired \/ freshR \cap Uninitialised # {})
        /\ kf'.rateTransitionMap = h.rateTransitionMap \cup (K \cap DOMAIN RateOf)
    BY <1>1, <1>3, <1>4, SetKFTransRatesKeeps
  <1>6. SameStates(kf, kf')
    BY <1>4, <1>5 DEF SameStates
  <1> HIDE DEF R
  <1>7. kf'.stateTransitionMap = [k \in DOMAIN old \cup K \cup R |->
                                    IF k \in DOMAIN old THEN old[k] ELSE ONE]
    BY <1>4, <1>5
  <1>8. DOMAIN h.stateTransitionMap = DOMAIN old \cup K
    BY <1>4
  <1>9. kf'.initNoiseMap = kf.initNoiseMap \cup ((K \cup R) \ DOMAIN old)
    BY <1>4, <1>5, <1>8
  <1>10. kf'.lsqRequired = (kf.lsqRequired \/ ((K \cup R) \ DOMAIN old) \cap Uninitialised # {})
    <2>1. kf'.lsqRequired = (kf.lsqRequired \/ freshK \cap Uninitialised # {}
                                            \/ freshR \cap Uninitialised # {})
      BY <1>4, <1>5
    <2>2. (K \cup R) \ DOMAIN old = freshK \cup freshR
      BY <1>8
    <2> QED BY <2>1, <2>2
  <1> QED BY <1>1, <1>4, <1>5, <1>6, <1>7, <1>9, <1>10 DEF K, R

LEMMA TransitKeeps ==
  ASSUME IInv, pc = "transition", Transit(kf, now)
  PROVE  /\ Shaped(kf') /\ MatrixOf(kf')
         /\ DOMAIN kf'.kfIndexMap = DOMAIN kf.stateTransitionMap
         /\ kf'.stateTransitionMap = kf.stateTransitionMap
         /\ kf'.time = now /\ kf'.step = kf.step + 1
         /\ kf'.initNoiseMap = kf.initNoiseMap /\ kf'.lsqRequired = kf.lsqRequired
         /\ kf'.rtsFilterInProgress = Archiving
         /\ \A k \in DOMAIN kf.stateTransitionMap :
                /\ kf'.x[kf'.kfIndexMap[k]] = CarriedValue(kf, now, k)
                /\ kf'.P[kf'.kfIndexMap[k]] = CarriedVariance(kf, Gap(kf, now), k)
  <1> DEFINE g == StateTransition(kf, now)
  <1>1. Shaped(kf) /\ MatrixOf(kf) /\ KeepsStates(kf) /\ now \in Nat
    BY LimitsType DEF IInv, Filters, Control
  <1>2. /\ Shaped(g) /\ MatrixOf(g) /\ DOMAIN g.kfIndexMap = DOMAIN kf.stateTransitionMap
        /\ g.time = now /\ g.step = kf.step + 1
        /\ g.stateTransitionMap = kf.stateTransitionMap
        /\ g.initNoiseMap = kf.initNoiseMap /\ g.lsqRequired = kf.lsqRequired
    BY <1>1, TransitionFields
  <1>3. \A k \in DOMAIN kf.stateTransitionMap :
            /\ g.x[g.kfIndexMap[k]] = CarriedValue(kf, now, k)
            /\ g.P[g.kfIndexMap[k]] = CarriedVariance(kf, Gap(kf, now), k)
    BY <1>1, TransitionFields
  <1>4. kf' = [g EXCEPT !.rtsFilterInProgress = Archiving]
    BY DEF Transit
  <1>5. Archiving \in BOOLEAN
    BY DEF Archiving
  <1> HIDE DEF g
  <1>6. /\ Shaped(kf') /\ SameMatrix(g, kf')
        /\ kf'.x = g.x /\ kf'.P = g.P /\ kf'.time = g.time
        /\ kf'.lsqRequired = g.lsqRequired
        /\ kf'.rtsFilterInProgress = Archiving
    BY <1>2, <1>4, <1>5, FlagKeeps
  <1>7. MatrixOf(kf')
    BY <1>2, <1>6 DEF MatrixOf, SameMatrix
  <1> QED BY <1>2, <1>3, <1>6, <1>7 DEF SameMatrix

LEMMA CombinedInFilter ==
  \A m \in DOMAIN Combined : Combined[m] \subseteq DOMAIN kf.kfIndexMap
  BY DEF Combined, CombineKFMeasList, NoMeasurements

LEMMA InitialiseKeeps ==
  ASSUME IInv, InitialiseStates
  PROVE  /\ Shaped(kf') /\ SameMatrix(kf, kf') /\ Improves(kf, kf')
         /\ kf'.time = kf.time /\ kf'.rtsFilterInProgress = kf.rtsFilterInProgress
  <1>1. Shaped(kf)
    BY DEF IInv, Filters
  <1>2. CASE kf.lsqRequired
    <2> DEFINE g == LeastSquareInitStates(kf, Combined)
    <2>1. /\ Shaped(g) /\ SameMatrix(kf, g) /\ Improves(kf, g)
          /\ g.time = kf.time /\ g.rtsFilterInProgress = kf.rtsFilterInProgress
      BY <1>1, CombinedInFilter, LeastSquareKeeps
    <2>2. kf' = [g EXCEPT !.lsqRequired = FALSE]
      BY <1>2 DEF InitialiseStates
    <2> HIDE DEF g
    <2>3. g \in FilterType(g)
      BY <2>1 DEF Shaped
    <2>4. /\ kf'.x = g.x /\ kf'.P = g.P /\ kf'.time = g.time /\ SameMatrix(g, kf')
          /\ kf'.rtsFilterInProgress = g.rtsFilterInProgress
      BY <2>2, <2>3 DEF FilterType, SameMatrix
    <2>5. kf' \in FilterType(kf')
      BY <2>2, <2>3, <2>4 DEF FilterType, SameMatrix
    <2>6. Shaped(kf')
      BY <2>1, <2>4, <2>5 DEF Shaped, SameMatrix
    <2>7. SameMatrix(kf, kf') /\ Improves(kf, kf')
      BY <2>1, <2>4 DEF SameMatrix, Improves
    <2> QED BY <2>1, <2>4, <2>6, <2>7
  <1>3. CASE ~ kf.lsqRequired
    BY <1>1, <1>3 DEF InitialiseStates, SameMatrix, Improves
  <1> QED BY <1>2, <1>3

LEMMA FilterKeeps ==
  ASSUME IInv, NEW R, Filter(R)
  PROVE  /\ Shaped(kf') /\ SameMatrix(kf, kf') /\ Improves(kf, kf')
         /\ kf'.rtsFilterInProgress = FALSE
  <1>1. Shaped(kf) /\ now \in Nat
    BY LimitsType DEF IInv, Filters, Control
  <1> DEFINE g == FilterKalman(kf, now, Combined)
  <1>2. /\ Shaped(g) /\ SameMatrix(kf, g) /\ Improves(kf, g)
        /\ g.rtsFilterInProgress = FALSE
    <2> DEFINE list == Combined
    <2> HIDE DEF list
    <2>1. Shaped(FilterKalman(kf, now, list))
      BY <1>1, FilterKalmanKeeps
    <2>2. SameMatrix(kf, FilterKalman(kf, now, list))
      BY <1>1, FilterKalmanKeeps
    <2>3. Improves(kf, FilterKalman(kf, now, list))
      BY <1>1, FilterKalmanKeeps
    <2>4. FilterKalman(kf, now, list).rtsFilterInProgress = FALSE
      BY <1>1 DEF FilterKalman, Estimated, Shaped, FilterType
    <2> QED BY <2>1, <2>2, <2>3, <2>4 DEF list
  <1> HIDE DEF g
  <1>3. kf' = g
    BY DEF Filter, g
  <1> QED BY <1>2, <1>3

LEMMA MinimumKeeps ==
  ASSUME IInv, MinimumConstraints
  PROVE  /\ Shaped(kf') /\ MatrixOf(kf') /\ kf'.kfIndexMap = kf.kfIndexMap
         /\ Improves(kf, kf') /\ kf'.step = kf.step + 1
  <1> DEFINE f == InitFilterEpoch(kf)
             h == StateTransition(f, NoTime)
             g == [h EXCEPT !.rtsFilterInProgress = Archiving]
             known == {k \in DOMAIN g.kfIndexMap : Variance(g, k)}
             D == DOMAIN kf.kfIndexMap
  <1>1. Shaped(kf) /\ NoTime \in Nat /\ Archiving \in BOOLEAN
    BY DEF IInv, Filters, NoTime, Archiving
  <1>2. /\ Shaped(f) /\ MatrixOf(f) /\ KeepsStates(f) /\ SameStates(kf, f)
        /\ f.stateTransitionMap = [k \in D |-> k]
    BY <1>1, InitFilterEpochKeeps
  <1>3. kf' = Estimated(g, known)
    BY DEF MinimumConstraints
  <1> HIDE DEF f
  <1>4. /\ Shaped(h) /\ MatrixOf(h) /\ DOMAIN h.kfIndexMap = D /\ h.step = f.step + 1
        /\ \A k \in D : /\ h.x[h.kfIndexMap[k]] = CarriedValue(f, NoTime, k)
                       /\ h.P[h.kfIndexMap[k]] = CarriedVariance(f, Gap(f, NoTime), k)
    BY <1>1, <1>2, TransitionFields
  <1> HIDE DEF h
  <1>5. /\ Shaped(g) /\ SameMatrix(h, g) /\ g.x = h.x /\ g.P = h.P
    BY <1>1, <1>4, FlagKeeps
  <1>6. known \in SUBSET DOMAIN g.kfIndexMap
    OBVIOUS
  <1> HIDE DEF g, known
  <1>7. Shaped(kf') /\ SameMatrix(g, kf') /\ Improves(g, kf')
    BY <1>3, <1>5, <1>6, EstimatedKeeps
  <1>8. h.kfIndexMap = kf.kfIndexMap
    BY <1>1, <1>4 DEF Shaped, FilterType
  <1>9. kf'.kfIndexMap = kf.kfIndexMap /\ MatrixOf(kf') /\ kf'.step = kf.step + 1
    BY <1>2, <1>4, <1>5, <1>7, <1>8 DEF SameMatrix, MatrixOf, SameStates
  <1>10. ASSUME NEW k \in D
         PROVE  /\ h.x[h.kfIndexMap[k]] = kf.x[kf.kfIndexMap[k]]
                /\ kf.P[kf.kfIndexMap[k]] => h.P[h.kfIndexMap[k]]
    <2>1. ~ Fresh(f, k)
      BY <1>2 DEF Fresh
    <2>2. f.x = kf.x /\ f.P = kf.P /\ f.kfIndexMap = kf.kfIndexMap
      BY <1>2 DEF SameStates
    <2> QED BY <1>4, <2>1, <2>2 DEF CarriedValue, CarriedVariance
  <1>11. Improves(kf, kf')
    BY <1>5, <1>7, <1>8, <1>10 DEF Improves, SameMatrix
  <1> QED BY <1>7, <1>9, <1>11

-----------------------------------------------------------------------------
(* What the steps write to the archive.                                     *)

LEMMA FilterRecordType ==
  ASSUME NEW f, Shaped(f), NEW type \in {"FILTER_MINUS", "FILTER_PLUS"}
  PROVE  FilterRecord(type, f) \in Record
  BY DEF FilterRecord, Record, Shaped, FilterType

LEMMA TransitionRecordsType ==
  ASSUME NEW f, Shaped(f), DOMAIN f.stateTransitionMap \in SUBSET AllKeys, NEW t \in Nat
  PROVE  TransitionRecords(f, t) \in Seq(Record)
  <1> DEFINE late == [f EXCEPT !.time = t]
             matrix == [type |-> "TRANSITION_MATRIX", step |-> f.step + 1, time |-> t,
                        rows |-> DOMAIN f.stateTransitionMap, cols |-> DOMAIN f.kfIndexMap]
             repair == << FilterRecord("FILTER_MINUS", late), FilterRecord("FILTER_PLUS", late) >>
  <1>1. matrix \in Record
    BY DEF Record, Shaped, FilterType
  <1>2. Shaped(late)
    <2>1. late \in FilterType(late)
      BY DEF Shaped, FilterType
    <2>2. late.kfIndexMap = f.kfIndexMap /\ late.x = f.x
      BY DEF Shaped, FilterType
    <2> HIDE DEF late
    <2> QED BY <2>1, <2>2 DEF Shaped
  <1>3. repair \in Seq(Record)
    BY <1>2, FilterRecordType
  <1>4. << matrix >> \in Seq(Record) /\ << >> \in Seq(Record)
    BY <1>1
  <1>5. TransitionRecords(f, t) = (IF f.rtsFilterInProgress THEN repair ELSE << >>) \o << matrix >>
    BY DEF TransitionRecords
  <1> HIDE DEF matrix, repair
  <1> QED BY <1>3, <1>4, <1>5, ConcatProperties

LEMMA ArchivedType ==
  ASSUME IInv, NEW records \in Seq(Record), Archived(records)
  PROVE  file' \in Seq(Record)
  <1>1. file \in Seq(Record) /\ << >> \in Seq(Record)
    BY DEF IInv, Archive
  <1>2. file \o records \in Seq(Record) /\ file \o << >> \in Seq(Record)
    BY <1>1, ConcatProperties
  <1> QED BY <1>2 DEF Archived

(* The locals of the smoother at its start.                                 *)
LEMMA NoSmoothingType == NoSmoothing \in SmoothingLocals
  BY DEF NoSmoothing, SmoothingLocals, AnyRecord

LEMMA SmoothingStarts ==
  ASSUME NEW n \in Nat
  PROVE  LET r == [NoSmoothing EXCEPT !.startPos = n + 1]
         IN  r \in SmoothingLocals /\ r.startPos = n + 1
  BY NoSmoothingType DEF SmoothingLocals

(* The end of an epoch leaves a smoother that starts, or none.              *)
LEMMA EndOfEpochArchive ==
  ASSUME IInv, pc # "rts", file' \in Seq(Record), EndOfEpoch, backward' = backward
  PROVE  Archive' /\ pc' \in {"idle", "rts"} /\ observed' = {} /\ obsLists' = {}
  <1>1. Len(file') \in Nat /\ rts = NoSmoothing /\ backward \in Seq(Record)
    BY DEF IInv, Archive
  <1>2. CASE Smoothing
    <2>1. pc' = "rts" /\ rts' = [NoSmoothing EXCEPT !.startPos = Len(file') + 1]
      BY <1>2 DEF EndOfEpoch
    <2>2. rts' \in SmoothingLocals /\ rts'.startPos = Len(file') + 1
      BY <1>1, <2>1, SmoothingStarts
    <2> QED BY <1>1, <2>1, <2>2 DEF Archive, EndOfEpoch
  <1>3. CASE ~ Smoothing
    <2>1. pc' = "idle" /\ rts' = NoSmoothing
      BY <1>1, <1>3 DEF EndOfEpoch
    <2> QED BY <1>1, <2>1, NoSmoothingType DEF Archive, EndOfEpoch
  <1> QED BY <1>2, <1>3

LEMMA HistoryAfterType ==
  ASSUME IInv, NEW S
  PROVE  HistoryAfter(S) \in [Signals -> [heard : Nat, rejected : Nat]]
  <1> DEFINE H == [heard : Nat, rejected : Nat]
  <1> SUFFICES ASSUME NEW s \in Signals
               PROVE  (IF s \notin Tracked THEN NoHistory[s]
                       ELSE [history[s] EXCEPT
                               !.heard = IF \E v \in S : StationOf[v] = StationOf[s]
                                         THEN AtMost(OutageLimit + 1, @ + 1) ELSE @]) \in H
    BY DEF HistoryAfter
  <1>1. history[s] \in H /\ OutageLimit + 1 \in Nat
    BY LimitsType DEF IInv, Counts
  <1>2. NoHistory[s] \in H
    BY DEF NoHistory
  <1>3. \A b, n \in Nat : AtMost(b, n + 1) \in Nat
    BY DEF AtMost
  <1>4. history[s].heard \in Nat
    BY <1>1
  <1>5. AtMost(OutageLimit + 1, history[s].heard + 1) \in Nat
    BY <1>1, <1>3, <1>4
  <1> QED BY <1>1, <1>2, <1>4, <1>5

LEMMA CountType ==
  ASSUME IInv, NEW s \in Signals
  PROVE  Count(s) \in [outage : 0 .. OutageLimit, reject : Nat]
  BY LimitsType DEF IInv, Counts, Count

-----------------------------------------------------------------------------
(* The inductive invariant.                                                 *)

LEMMA InvInit == Init => IInv
  <1> SUFFICES ASSUME Init PROVE IInv
    OBVIOUS
  <1>1. Control
    BY LimitsType DEF Init, Control, NoTime
  <1>2. Counts
    BY DEF Init, Counts, NoCounts, NoHistory
  <1>3. Filters
    <2>1. DOMAIN NewFilter.stateTransitionMap = {}
      BY DEF NewFilter
    <2> QED BY <2>1, NewFilterShaped DEF Init, Filters
  <1>4. Designs
    BY DEF Init, Designs
  <1>5. Archive
    BY NoSmoothingType DEF Init, Archive
  <1> QED BY <1>1, <1>2, <1>3, <1>4, <1>5 DEF IInv

LEMMA SkipInv == ASSUME IInv, SkipEpoch PROVE IInv'
  <1>1. Control' /\ Filters' /\ Designs' /\ Archive'
    BY LimitsType DEF IInv, Control, Filters, Designs, Archive, SkipEpoch, NextEpoch,
                      KeysOf, PhaseKeys
  <1>2. Counts'
    BY HistoryAfterType DEF IInv, Counts, SkipEpoch
  <1> QED BY <1>1, <1>2 DEF IInv

LEMMA BeginInv == ASSUME IInv, NEW S \in SUBSET Signals, BeginEpoch(S) PROVE IInv'
  <1>1. Control' /\ Designs' /\ Archive'
    BY LimitsType DEF IInv, Control, Designs, Archive, BeginEpoch, NextEpoch
  <1>2. Counts'
    <2>1. history' \in [Signals -> [heard : Nat, rejected : Nat]]
      BY HistoryAfterType DEF BeginEpoch
    <2>2. Tracked \in SUBSET Signals /\ DOMAIN sigStat \in SUBSET Signals
      BY DEF IInv, Counts, Tracked
    <2>3. ASSUME NEW s \in Signals
          PROVE  /\ Outage(s, S) \in 0 .. OutageLimit
                 /\ (IF ManyRejects(s) THEN 0 ELSE Count(s).reject) \in Nat
      <3>1. Count(s).outage \in 0 .. OutageLimit /\ Count(s).reject \in Nat
        BY CountType
      <3>2. \A n \in 0 .. OutageLimit : AtMost(OutageLimit, n + 1) \in 0 .. OutageLimit
        BY LimitsType DEF AtMost
      <3>3. (IF LongOutage(s) THEN 0 ELSE Count(s).outage) \in 0 .. OutageLimit
        BY <3>1, LimitsType
      <3> QED BY <3>1, <3>2, <3>3 DEF Outage
    <2>4. sigStat' = [s \in DOMAIN sigStat \cup Tracked |->
                        [outage |-> Outage(s, S),
                         reject |-> IF ManyRejects(s) THEN 0 ELSE Count(s).reject]]
      BY DEF BeginEpoch
    <2> QED BY <2>1, <2>2, <2>3, <2>4 DEF Counts
  <1>3. Filters'
    <2>1. Shaped(kf') /\ MatrixOf(kf') /\ KeepsStates(kf')
      BY BeginKeeps
    <2> QED BY <2>1 DEF IInv, Filters, BeginEpoch, MatrixOf
  <1> QED BY <1>1, <1>2, <1>3 DEF IInv

LEMMA AddInv == ASSUME IInv, NEW S \in SUBSET Common, AddMeasurements(S) PROVE IInv'
  <1>1. S \in SUBSET Signals
    BY DEF IInv, Control, Common
  <1>2. Control' /\ Archive'
    BY <1>1 DEF IInv, Control, Archive, AddMeasurements
  <1>3. Counts'
    <2>1. sigStat' = [s \in DOMAIN sigStat \cup S |-> Count(s)] /\ history' = history
      BY DEF AddMeasurements
    <2>2. DOMAIN sigStat \cup S \in SUBSET Signals
      BY <1>1 DEF IInv, Counts
    <2> QED BY <2>1, <2>2, CountType DEF IInv, Counts
  <1>4. Shaped(kf') /\ MatrixOf(kf') /\ KeepsStates(kf')
    BY AddKeeps
  <1>5. KeysOf(S) \subseteq DOMAIN kf'.stateTransitionMap
    BY AddKeeps
  <1>6. Filters'
    BY <1>4 DEF IInv, Filters, AddMeasurements, MatrixOf
  <1>7. Designs'
    BY <1>5 DEF Designs, AddMeasurements, KeysOf, PhaseKeys
  <1> QED BY <1>2, <1>3, <1>6, <1>7 DEF IInv

LEMMA TransitionInv == ASSUME IInv, Transition PROVE IInv'
  <1>1. pc = "transition" /\ Transit(kf, now)
    BY DEF Transition
  <1>2. /\ Shaped(kf') /\ MatrixOf(kf')
        /\ DOMAIN kf'.kfIndexMap = DOMAIN kf.stateTransitionMap
    BY <1>1, TransitKeeps
  <1>3. file' \in Seq(Record)
    <2>1. TransitionRecords(kf, now) \in Seq(Record)
      BY TransitionRecordsType, LimitsType DEF IInv, Filters, Control
    <2> QED BY <1>1, <2>1, ArchivedType DEF Transit
  <1>4. Counts'
    <2>1. \A s \in Signals : NoHistory[s] \in [heard : Nat, rejected : Nat]
      BY DEF NoHistory
    <2> QED BY <2>1 DEF IInv, Counts, Transition
  <1>5. /\ options' = options /\ runs' = runs /\ epoch' = epoch /\ now' = now
        /\ backward' = backward /\ persisted' = persisted
    BY DEF Transition
  <1>6. CASE \E s \in observed : StationOf[s] = Pivot
    <2>1. /\ pc' = "lsq" /\ rts' = rts /\ obsLists' = obsLists /\ observed' = observed
      BY <1>6 DEF Transition
    <2>2. Control' /\ Filters' /\ Archive'
      BY <1>1, <1>2, <1>3, <1>5, <2>1 DEF IInv, Control, Filters, Archive, MatrixOf
    <2>3. Designs'
      BY <1>1, <1>2, <2>1 DEF IInv, Designs, KeysOf, PhaseKeys
    <2> QED BY <1>4, <2>2, <2>3 DEF IInv
  <1>7. CASE ~ \E s \in observed : StationOf[s] = Pivot
    <2>1. EndOfEpoch
      BY <1>7 DEF Transition
    <2>2. Archive' /\ pc' \in {"idle", "rts"} /\ observed' = {} /\ obsLists' = {}
      BY <1>1, <1>3, <1>5, <2>1, EndOfEpochArchive
    <2>3. Control' /\ Filters' /\ Designs'
      BY <1>2, <1>5, <2>2 DEF IInv, Control, Filters, Designs, MatrixOf
    <2> QED BY <1>4, <2>2, <2>3 DEF IInv
  <1> QED BY <1>6, <1>7

LEMMA InitialiseInv == ASSUME IInv, InitialiseStates PROVE IInv'
  <1>1. Shaped(kf') /\ SameMatrix(kf, kf')
    BY InitialiseKeeps
  <1>2. Control' /\ Counts' /\ Archive'
    BY DEF IInv, Control, Counts, Archive, InitialiseStates
  <1>3. Filters'
    BY <1>1 DEF IInv, Filters, InitialiseStates, SameMatrix, MatrixOf
  <1>4. Designs'
    BY <1>1 DEF IInv, Designs, InitialiseStates, SameMatrix, KeysOf, PhaseKeys
  <1> QED BY <1>2, <1>3, <1>4 DEF IInv

LEMMA FilterInv == ASSUME IInv, NEW R \in SUBSET observed, Filter(R) PROVE IInv'
  <1>1. Shaped(kf') /\ SameMatrix(kf, kf') /\ Shaped(kf) /\ MatrixOf(kf)
    BY FilterKeeps DEF IInv, Filters, Filter
  <1>2. file' \in Seq(Record)
    <2> DEFINE records == << FilterRecord("FILTER_MINUS", kf), FilterRecord("FILTER_PLUS", kf') >>
    <2>1. records \in Seq(Record)
      BY <1>1, FilterRecordType
    <2>2. Archived(records)
      BY DEF Filter
    <2> HIDE DEF records
    <2> QED BY <2>1, <2>2, ArchivedType
  <1>3. Archive' /\ pc' \in {"idle", "rts"} /\ observed' = {} /\ obsLists' = {}
    BY <1>2, EndOfEpochArchive DEF Filter
  <1>4. Counts'
    <2>1. ASSUME NEW s \in Signals
          PROVE  RejectCounted(R, s) \in Nat
      BY CountType DEF RejectCounted
    <2>2. \A s \in DOMAIN sigStat :
              [outage |-> 0, reject |-> RejectCounted(R, s)] \in [outage : 0 .. OutageLimit, reject : Nat]
      BY <2>1, LimitsType DEF IInv, Counts
    <2>3. sigStat' \in [DOMAIN sigStat -> [outage : 0 .. OutageLimit, reject : Nat]]
      BY <2>2 DEF IInv, Counts, Filter
    <2>4. \A s \in Signals : history[s].rejected + 1 \in Nat
      BY DEF IInv, Counts
    <2>5. history' \in [Signals -> [heard : Nat, rejected : Nat]]
      BY <2>4 DEF IInv, Counts, Filter
    <2> QED BY <2>3, <2>5 DEF IInv, Counts
  <1>5. Control' /\ Filters' /\ Designs'
    BY <1>1, <1>3 DEF IInv, Control, Filters, Designs, Filter, SameMatrix, MatrixOf
  <1> QED BY <1>3, <1>4, <1>5 DEF IInv

(* What is left alone by the smoother.                                      *)
LEMMA RtsReadInv == ASSUME IInv, RtsRead PROVE IInv'
  <1>1. /\ pc = "rts" /\ pc' = "rts" /\ file' = file
        /\ rts \in SmoothingLocals /\ file \in Seq(Record) /\ backward \in Seq(Record)
        /\ rts.startPos \in 2 .. Len(file) + 1
    BY DEF IInv, Archive, RtsRead
  <1>2. LastRead \in Record /\ LastRead \in AnyRecord
    BY <1>1 DEF LastRead, AnyRecord
  <1>3. rts' \in SmoothingLocals /\ rts'.startPos = rts.startPos - 1
    <2> DEFINE p == rts.startPos - 1
    <2>1. p \in Nat /\ rts.lag + 1 \in Nat /\ rts.smoothedKF \in AnyRecord
      BY <1>1 DEF SmoothingLocals
    <2> HIDE DEF p
    <2>2. CASE rts' = [rts EXCEPT !.startPos = p, !.transitionMatrix = LastRead]
      BY <1>1, <1>2, <2>1, <2>2 DEF SmoothingLocals, p
    <2>3. CASE rts' = [rts EXCEPT !.startPos = p, !.kalmanMinus = LastRead, !.smoothedXready = TRUE]
      BY <1>1, <1>2, <2>1, <2>3 DEF SmoothingLocals, p
    <2>4. CASE \E r \in AnyRecord : rts' = [rts EXCEPT !.startPos = p, !.lag = @ + 1,
                                              !.smoothedPready = TRUE, !.smoothedKF = r]
      BY <1>1, <1>2, <2>1, <2>4 DEF SmoothingLocals, p
    <2>5. ReadPlus => \E r \in AnyRecord : rts' = [rts EXCEPT !.startPos = p, !.lag = @ + 1,
                                                     !.smoothedPready = TRUE, !.smoothedKF = r]
      <3> DEFINE r == IF rts.smoothedPready /\ ~ rts.smoothedXready THEN rts.smoothedKF
                      ELSE LastRead
      <3>1. r \in AnyRecord
        BY <1>2, <2>1
      <3>2. ReadPlus => rts' = [rts EXCEPT !.startPos = p, !.lag = @ + 1,
                                           !.smoothedPready = TRUE, !.smoothedKF = r]
        BY DEF ReadPlus, p
      <3> QED BY <3>1, <3>2
    <2> QED BY <2>2, <2>3, <2>4, <2>5 DEF RtsRead, ReadMatrix, ReadMinus, p
  <1>4. backward' \in Seq(Record)
    BY <1>1, <1>2 DEF RtsRead, ReadMatrix, ReadMinus, ReadPlus
  <1>5. Archive'
    BY <1>1, <1>3, <1>4 DEF Archive
  <1>6. Control' /\ Counts' /\ Filters' /\ Designs'
    BY <1>1 DEF IInv, Control, Counts, Filters, Designs, RtsRead, estimation
  <1> QED BY <1>5, <1>6 DEF IInv

LEMMA RtsEndInv == ASSUME IInv, RtsEnd PROVE IInv'
  <1>1. /\ rts \in SmoothingLocals /\ file \in Seq(Record) /\ backward \in Seq(Record)
        /\ rts.startPos \in 1 .. Len(file) + 1
    BY DEF IInv, Archive, RtsEnd
  <1>2. SubSeq(file, rts.startPos, Len(file)) \in Seq(Record)
    <2>1. /\ rts.startPos \in Int /\ Len(file) \in Int
          /\ \A i \in rts.startPos .. Len(file) : file[i] \in Record
      BY <1>1
    <2> QED BY <2>1, SubSeqProperties
  <1>3. pc' \in {"idle", "stopped"} /\ rts' = NoSmoothing
    BY DEF RtsEnd
  <1>4. Archive'
    BY <1>1, <1>2, <1>3, NoSmoothingType DEF Archive, RtsEnd
  <1>5. Control' /\ Counts' /\ Filters' /\ Designs'
    BY <1>3 DEF IInv, Control, Counts, Filters, Designs, RtsEnd, estimation
  <1> QED BY <1>4, <1>5 DEF IInv

LEMMA MinimumInv == ASSUME IInv, MinimumConstraints PROVE IInv'
  <1> DEFINE f == InitFilterEpoch(kf)
             g == [StateTransition(f, NoTime) EXCEPT !.rtsFilterInProgress = Archiving]
             first == TransitionRecords(f, NoTime)
             last == << FilterRecord("FILTER_MINUS", g), FilterRecord("FILTER_PLUS", kf') >>
  <1>1. Shaped(kf') /\ MatrixOf(kf')
    BY MinimumKeeps
  <1>2. NoTime \in Nat /\ Archiving \in BOOLEAN
    BY DEF NoTime, Archiving
  <1>3. Shaped(f) /\ MatrixOf(f) /\ KeepsStates(f)
    BY InitFilterEpochKeeps DEF IInv, Filters
  <1>4. Archived(first \o last)
    BY DEF MinimumConstraints
  <1> HIDE DEF f
  <1>5. Shaped(StateTransition(f, NoTime))
    BY <1>2, <1>3, TransitionFields
  <1>6. Shaped(g)
    BY <1>2, <1>5, FlagKeeps
  <1> HIDE DEF g
  <1>7. first \in Seq(Record)
    BY <1>2, <1>3, TransitionRecordsType DEF MatrixOf
  <1>8. last \in Seq(Record)
    BY <1>1, <1>6, FilterRecordType
  <1> HIDE DEF first, last
  <1>9. file' \in Seq(Record)
    BY <1>4, <1>7, <1>8, ConcatProperties, ArchivedType
  <1>10. Control' /\ Counts' /\ Designs' /\ Archive'
    BY <1>9 DEF IInv, Control, Counts, Designs, Archive, MinimumConstraints
  <1>11. Filters'
    BY <1>1 DEF IInv, Filters, MinimumConstraints, MatrixOf
  <1> QED BY <1>10, <1>11 DEF IInv

LEMMA SavedTypeOf ==
  ASSUME IInv
  PROVE  [time |-> kf.time, x |-> kf.x, P |-> kf.P, kfIndexMap |-> kf.kfIndexMap] \in SavedFilter
  <1> DEFINE p == [time |-> kf.time, x |-> kf.x, P |-> kf.P, kfIndexMap |-> kf.kfIndexMap]
             D == DOMAIN kf.kfIndexMap
  <1>1. Shaped(kf) /\ kf \in FilterType(kf) /\ D \in SUBSET AllKeys
    BY DEF IInv, Filters, Shaped
  <1>2. /\ kf.time \in Nat /\ kf.x \in [Rows(D) -> Value] /\ kf.P \in [Rows(D) -> BOOLEAN]
        /\ kf.kfIndexMap = IndexMap(D)
    BY <1>1 DEF FilterType
  <1>3. Shaped(Whole(p))
    <2>1. /\ Whole(p).time = kf.time /\ Whole(p).x = kf.x /\ Whole(p).P = kf.P
          /\ Whole(p).kfIndexMap = kf.kfIndexMap
          /\ Whole(p).stateTransitionMap = NewFilter.stateTransitionMap
      BY NewFilterShaped DEF Whole, Shaped, FilterType
    <2>2. Whole(p) \in FilterType(Whole(p))
      <3> DEFINE N == NewFilter
      <3>1. N \in FilterType(N)
        BY NewFilterShaped DEF Shaped
      <3> HIDE DEF N
      <3>2. Whole(p) = [N EXCEPT !.time = kf.time, !.x = kf.x, !.P = kf.P,
                                 !.kfIndexMap = kf.kfIndexMap]
        BY DEF Whole, N
      <3>3. Whole(p).stateTransitionMap = N.stateTransitionMap
        BY <2>1 DEF N
      <3> QED BY <1>2, <2>1, <3>1, <3>2, <3>3 DEF FilterType
    <2> QED BY <1>1, <2>1, <2>2 DEF Shaped
  <1> QED BY <1>1, <1>2, <1>3 DEF SavedFilter

LEMMA OutputInv == ASSUME IInv, OutputPersistanceStates PROVE IInv'
  <1>1. persisted' \in Seq(SavedFilter)
    BY SavedTypeOf DEF IInv, Filters, OutputPersistanceStates
  <1>2. Len(file) \in Nat
    BY DEF IInv, Archive
  <1>3. Filters'
    BY <1>1 DEF IInv, Filters, OutputPersistanceStates, estimation
  <1>4. Control' /\ Counts' /\ Designs'
    BY DEF IInv, Control, Counts, Designs, OutputPersistanceStates, estimation
  <1>5. Archive'
    <2>1. CASE options.rts_lag < 0
      <3>1. /\ rts' = [NoSmoothing EXCEPT !.startPos = Len(file) + 1] /\ backward' = << >>
            /\ file' = file /\ pc' = "rts"
        BY <2>1 DEF OutputPersistanceStates
      <3>2. rts' \in SmoothingLocals /\ rts'.startPos = Len(file) + 1
        BY <1>2, <3>1, SmoothingStarts
      <3> QED BY <1>2, <3>1, <3>2 DEF IInv, Archive
    <2>2. CASE ~ options.rts_lag < 0
      BY <2>2 DEF IInv, Archive, OutputPersistanceStates
    <2> QED BY <2>1, <2>2
  <1> QED BY <1>3, <1>4, <1>5 DEF IInv

LEMMA StartInv == ASSUME IInv, Start PROVE IInv'
  <1>1. Restored(persisted) = NewFilter \/ \E p \in SavedFilter : Restored(persisted) = Whole(p)
    <2>1. CASE persisted = << >>
      BY <2>1 DEF Restored
    <2>2. CASE persisted # << >>
      <3>1. persisted[1] \in SavedFilter
        BY <2>2 DEF IInv, Filters
      <3> QED BY <2>2, <3>1 DEF Restored, Whole
    <2> QED BY <2>1, <2>2
  <1>2. Shaped(kf') /\ DOMAIN kf'.stateTransitionMap = {}
    <2>1. kf' = Restored(persisted)
      BY DEF Start
    <2>2. DOMAIN NewFilter.stateTransitionMap = {}
      BY DEF NewFilter
    <2> QED BY <1>1, <2>1, <2>2, NewFilterShaped, WholeFields DEF SavedFilter
  <1>3. Filters'
    BY <1>2 DEF IInv, Filters, Start
  <1>4. Control' /\ Designs'
    BY DEF IInv, Control, Designs, Start
  <1>5. Counts'
    BY DEF IInv, Counts, Start, NoCounts, NoHistory
  <1>6. Archive'
    BY NoSmoothingType DEF IInv, Archive, Start
  <1> QED BY <1>3, <1>4, <1>5, <1>6 DEF IInv

LEMMA InvNext == IInv /\ [Next]_vars => IInv'
  <1> SUFFICES ASSUME IInv, [Next]_vars PROVE IInv'
    OBVIOUS
  <1>1. CASE SkipEpoch
    BY <1>1, SkipInv
  <1>2. CASE \E S \in SUBSET Signals \ {{}} : BeginEpoch(S)
    BY <1>2, BeginInv
  <1>3. CASE \E S \in SUBSET Common : AddMeasurements(S)
    BY <1>3, AddInv
  <1>4. CASE Transition
    BY <1>4, TransitionInv
  <1>5. CASE InitialiseStates
    BY <1>5, InitialiseInv
  <1>6. CASE \E R \in SUBSET observed : Filter(R)
    BY <1>6, FilterInv
  <1>7. CASE RtsRead
    BY <1>7, RtsReadInv
  <1>8. CASE RtsEnd
    BY <1>8, RtsEndInv
  <1>9. CASE MinimumConstraints
    BY <1>9, MinimumInv
  <1>10. CASE OutputPersistanceStates
    BY <1>10, OutputInv
  <1>11. CASE Start
    BY <1>11, StartInv
  <1>12. CASE UNCHANGED vars
    BY <1>12 DEF vars, IInv, Control, Counts, Filters, Designs, Archive, KeysOf, PhaseKeys
  <1> QED BY <1>1, <1>2, <1>3, <1>4, <1>5, <1>6, <1>7, <1>8, <1>9, <1>10, <1>11, <1>12 DEF Next

(* The invariant of every run of the program, whatever the options.         *)
THEOREM Invariant == Spec => []IInv
  BY InvInit, InvNext, PTL DEF Spec

(* The variables have their types: the filter has a value and a variance    *)
(* for each key of its map of indices, in every state of the estimator.     *)
THEOREM TypeCorrect == Spec => []TypeOK
  <1>1. IInv => TypeOK
    <2> SUFFICES ASSUME IInv PROVE TypeOK
      OBVIOUS
    <2>1. \A i \in DOMAIN persisted : persisted[i] \in SavedType(persisted[i])
      <3> SUFFICES ASSUME NEW i \in DOMAIN persisted
                   PROVE  persisted[i] \in SavedType(persisted[i])
        OBVIOUS
      <3> DEFINE p == persisted[i]
      <3>1. p \in SavedFilter
        BY DEF IInv, Filters
      <3>2. Whole(p) \in FilterType(Whole(p))
        BY <3>1 DEF SavedFilter, Shaped
      <3>3. /\ p.time \in Nat /\ p.x \in [Rows(DOMAIN p.kfIndexMap) -> Value]
            /\ p.P \in [Rows(DOMAIN p.kfIndexMap) -> BOOLEAN]
            /\ p.kfIndexMap = IndexMap(DOMAIN p.kfIndexMap)
        BY <3>2, WholeFields DEF FilterType
      <3>4. p = [time |-> p.time, x |-> p.x, P |-> p.P, kfIndexMap |-> p.kfIndexMap]
        BY <3>1 DEF SavedFilter
      <3> HIDE DEF p
      <3>5. p \in SavedType(p)
        BY <3>3, <3>4 DEF SavedType
      <3> QED BY <3>5 DEF p
    <2>2. rts.startPos \in (IF pc = "rts" THEN 1 ELSE 0) .. Len(file) + 1
      <3>1. Len(file) \in Nat
        BY DEF IInv, Archive
      <3> QED BY <3>1 DEF IInv, Archive, NoSmoothing
    <2> QED BY <2>1, <2>2 DEF IInv, Control, Counts, Filters, Archive, Shaped, TypeOK
  <1> QED BY <1>1, Invariant, PTL

LEMMA AllCombined == ASSUME IInv, pc \in {"lsq", "filter"} PROVE Combined = MeasurementList
  <1>1. \A m \in DOMAIN MeasurementList : MeasurementList[m] \subseteq KeysOf(observed)
    BY DEF MeasurementList, KeysOf, PhaseKeys
  <1>2. KeysOf(observed) \subseteq DOMAIN kf.kfIndexMap
    BY DEF IInv, Designs
  <1>3. \A m \in DOMAIN MeasurementList : MeasurementList[m] \subseteq DOMAIN kf.kfIndexMap
    BY <1>1, <1>2
  <1> QED BY <1>3 DEF Combined, CombineKFMeasList

(* No list of measurements is thrown away: the states of every design are   *)
(* in the filter after the transition, also those that an outage removed.   *)
THEOREM MeasurementsAreUsed == Spec => []MeasurementsHaveStates
  <1>1. IInv => MeasurementsHaveStates
    BY AllCombined DEF MeasurementsHaveStates
  <1> QED BY <1>1, Invariant, PTL

-----------------------------------------------------------------------------
(* The refinement: each step of the estimator is a step of NamedStates, or  *)
(* none.                                                                    *)

LEMMA SameNames ==
  ASSUME NEW f, NEW g, SameStates(f, g)
  PROVE  StatesOf(g) = StatesOf(f)
  BY DEF SameStates, StatesOf

LEMMA ImprovedNames ==
  ASSUME NEW f, NEW g, g.kfIndexMap = f.kfIndexMap, Improves(f, g)
  PROVE  /\ DOMAIN StatesOf(g) = DOMAIN StatesOf(f)
         /\ \A k \in DOMAIN StatesOf(f) :
                StatesOf(g)[k] \in {StatesOf(f)[k], [StatesOf(f)[k] EXCEPT !.from = "est"]}
  BY DEF Improves, StatesOf

SavedNames == [i \in DOMAIN persisted |-> StatesOf(persisted[i])]

LEMMA ImproveStep ==
  ASSUME kf'.kfIndexMap = kf.kfIndexMap, Improves(kf, kf'), persisted' = persisted
  PROVE  Abstract!Improve
  <1>1. /\ DOMAIN StatesOf(kf') = DOMAIN StatesOf(kf)
        /\ \A k \in DOMAIN StatesOf(kf) :
               StatesOf(kf')[k] \in {StatesOf(kf)[k], [StatesOf(kf)[k] EXCEPT !.from = "est"]}
    BY ImprovedNames
  <1>2. StatesOf(kf)' = StatesOf(kf')
    BY DEF StatesOf
  <1> QED BY <1>1, <1>2 DEF Abstract!Improve

LEMMA RenewStep ==
  ASSUME IInv, Transition
  PROVE  Abstract!Renew
  <1>1. /\ Shaped(kf) /\ MatrixOf(kf) /\ KeepsStates(kf) /\ now \in Nat
        /\ pc = "transition" /\ Transit(kf, now) /\ persisted' = persisted
    BY LimitsType DEF IInv, Filters, Control, Transition
  <1>2. /\ DOMAIN kf'.kfIndexMap = DOMAIN kf.stateTransitionMap
        /\ \A k \in DOMAIN kf.stateTransitionMap :
               kf'.x[kf'.kfIndexMap[k]] = CarriedValue(kf, now, k)
    BY <1>1, TransitKeeps
  <1>3. StatesOf(kf)' = [k \in DOMAIN kf.stateTransitionMap \ {ONE} |-> CarriedValue(kf, now, k)]
    BY <1>2 DEF StatesOf
  <1>4. DOMAIN kf.stateTransitionMap \ {ONE} \subseteq Keys
    BY <1>1 DEF MatrixOf, AllKeys
  <1>5. ASSUME NEW k \in DOMAIN kf.stateTransitionMap \ {ONE}
        PROVE  \/ k \in DOMAIN StatesOf(kf) /\ CarriedValue(kf, now, k) = StatesOf(kf)[k]
               \/ CarriedValue(kf, now, k) \in Abstract!FreshValues(k)
    <2>1. CASE Fresh(kf, k)
      BY <1>1, <2>1 DEF CarriedValue, Abstract!FreshValues
    <2>2. CASE ~ Fresh(kf, k)
      <3>1. k \in DOMAIN kf.kfIndexMap \ {ONE}
        BY <1>1, <2>2 DEF Fresh, KeepsStates
      <3> QED BY <2>2, <3>1 DEF CarriedValue, StatesOf
    <2> QED BY <2>1, <2>2
  <1> QED BY <1>1, <1>3, <1>4, <1>5 DEF Abstract!Renew

LEMMA SaveStep ==
  ASSUME IInv, OutputPersistanceStates
  PROVE  Abstract!Save
  <1> DEFINE p == [time |-> kf.time, x |-> kf.x, P |-> kf.P, kfIndexMap |-> kf.kfIndexMap]
  <1>1. persisted \in Seq(SavedFilter) /\ persisted' = Append(persisted, p) /\ kf' = kf
    BY DEF IInv, Filters, OutputPersistanceStates, estimation
  <1>2. p \in SavedFilter
    BY SavedTypeOf
  <1>3. StatesOf(p) = StatesOf(kf)
    BY DEF StatesOf
  <1> HIDE DEF p
  <1> DEFINE n == Len(persisted)
             N == [i \in 1 .. n |-> StatesOf(persisted[i])]
  <1>4. n \in Nat /\ DOMAIN persisted = 1 .. n /\ N \in Seq({StatesOf(q) : q \in SavedFilter})
    BY <1>1
  <1>5. DOMAIN persisted' = 1 .. n + 1
    BY <1>1, <1>2
  <1>6. \A i \in 1 .. n + 1 : persisted'[i] = IF i = n + 1 THEN p ELSE persisted[i]
    BY <1>1, <1>2, <1>4
  <1>7. SavedNames = N /\ SavedNames' = [i \in 1 .. n + 1 |-> StatesOf(persisted'[i])]
    BY <1>4, <1>5 DEF SavedNames, StatesOf
  <1>8. SavedNames' = [i \in 1 .. n + 1 |-> IF i = n + 1 THEN StatesOf(p) ELSE StatesOf(persisted[i])]
    BY <1>6, <1>7
  <1>9. Append(N, StatesOf(kf)) = [i \in 1 .. n + 1 |-> IF i = n + 1 THEN StatesOf(kf) ELSE N[i]]
    BY <1>4
  <1>10. SavedNames' = Append(SavedNames, StatesOf(kf))
    BY <1>3, <1>4, <1>7, <1>8, <1>9
  <1>11. StatesOf(kf)' = StatesOf(kf)
    BY <1>1 DEF StatesOf
  <1> QED BY <1>10, <1>11 DEF Abstract!Save, SavedNames

LEMMA NewHasNoNames == StatesOf(NewFilter) = Abstract!NoStates
  BY DEF StatesOf, NewFilter, Abstract!NoStates, ONE

LEMMA RestartStep ==
  ASSUME IInv, Start
  PROVE  Abstract!Restart
  <1>1. kf' = Restored(persisted) /\ persisted' = persisted
    BY DEF Start
  <1>2. StatesOf(kf)' = StatesOf(Restored(persisted))
    BY <1>1 DEF StatesOf
  <1>3. SavedNames' = SavedNames
    BY <1>1 DEF SavedNames, StatesOf
  <1>4. CASE persisted = << >>
    BY <1>2, <1>3, <1>4, NewHasNoNames DEF Restored, Abstract!Restart, SavedNames
  <1>5. CASE persisted # << >>
    <2>1. 1 \in DOMAIN persisted
      BY <1>5 DEF IInv, Filters
    <2>2. Restored(persisted) = Whole(persisted[1])
      BY <1>5 DEF Restored, Whole
    <2>3. StatesOf(Whole(persisted[1])) = StatesOf(persisted[1])
      BY WholeFields DEF StatesOf
    <2>4. 1 \in DOMAIN SavedNames /\ SavedNames[1] = StatesOf(kf)'
      BY <1>2, <2>1, <2>2, <2>3 DEF SavedNames
    <2> QED BY <1>3, <2>4 DEF Abstract!Restart, SavedNames
  <1> QED BY <1>4, <1>5

LEMMA StutterStep ==
  ASSUME SameStates(kf, kf') \/ kf' = kf, persisted' = persisted
  PROVE  UNCHANGED Abstract!vars
  <1>1. StatesOf(kf') = StatesOf(kf)
    BY SameNames
  <1>2. StatesOf(kf)' = StatesOf(kf')
    BY DEF StatesOf
  <1>3. SavedNames' = SavedNames
    BY DEF SavedNames, StatesOf
  <1> QED BY <1>1, <1>2, <1>3 DEF Abstract!vars, SavedNames

LEMMA AbstractInit == Init => Abstract!Init
  <1> SUFFICES ASSUME Init PROVE Abstract!Init
    OBVIOUS
  <1>1. StatesOf(kf) = Abstract!NoStates
    BY NewHasNoNames DEF Init
  <1>2. [i \in DOMAIN persisted |-> StatesOf(persisted[i])] = << >>
    BY DEF Init
  <1> QED BY <1>1, <1>2 DEF Abstract!Init

LEMMA AbstractNext == IInv /\ [Next]_vars => [Abstract!Next]_Abstract!vars
  <1> SUFFICES ASSUME IInv, [Next]_vars
               PROVE  Abstract!Next \/ UNCHANGED Abstract!vars
    OBVIOUS
  <1>1. CASE SkipEpoch \/ RtsRead \/ RtsEnd \/ UNCHANGED vars
    BY <1>1, StutterStep DEF SkipEpoch, RtsRead, RtsEnd, estimation, vars
  <1>2. CASE \E S \in SUBSET Signals \ {{}} : BeginEpoch(S)
    BY <1>2, BeginKeeps, StutterStep DEF BeginEpoch
  <1>3. CASE \E S \in SUBSET Common : AddMeasurements(S)
    BY <1>3, AddKeeps, StutterStep DEF AddMeasurements
  <1>4. CASE Transition
    BY <1>4, RenewStep DEF Abstract!Next
  <1>5. CASE InitialiseStates
    <2>1. kf'.kfIndexMap = kf.kfIndexMap /\ Improves(kf, kf') /\ persisted' = persisted
      BY <1>5, InitialiseKeeps DEF SameMatrix, InitialiseStates
    <2> QED BY <2>1, ImproveStep DEF Abstract!Next
  <1>6. CASE \E R \in SUBSET observed : Filter(R)
    <2>1. kf'.kfIndexMap = kf.kfIndexMap /\ Improves(kf, kf') /\ persisted' = persisted
      BY <1>6, FilterKeeps DEF SameMatrix, Filter
    <2> QED BY <2>1, ImproveStep DEF Abstract!Next
  <1>7. CASE MinimumConstraints
    <2>1. kf'.kfIndexMap = kf.kfIndexMap /\ Improves(kf, kf') /\ persisted' = persisted
      BY <1>7, MinimumKeeps DEF MinimumConstraints
    <2> QED BY <2>1, ImproveStep DEF Abstract!Next
  <1>8. CASE OutputPersistanceStates
    BY <1>8, SaveStep DEF Abstract!Next
  <1>9. CASE Start
    BY <1>9, RestartStep DEF Abstract!Next
  <1> QED BY <1>1, <1>2, <1>3, <1>4, <1>5, <1>6, <1>7, <1>8, <1>9 DEF Next

(* The filter of the estimator, with its rows and its map of indices, keeps *)
(* the promise of NamedStates, through removals, restarts and smoothing:    *)
(* a value is never taken for that of another state.                        *)
THEOREM NamesAreKept == Spec => NamesKept
  BY Invariant, AbstractInit, AbstractNext, PTL DEF Spec, NamesKept, Abstract!Spec

-----------------------------------------------------------------------------
(* Outages and rejections.  The counts of a signal are at least what the    *)
(* history says of its ambiguity, and those of an ambiguity that is kept    *)
(* are below the limits.                                                    *)

Counted(s) ==
    history[s].heard <= Count(s).outage /\ history[s].rejected <= Count(s).reject

Kept(s) ==
    /\ AmbiguityOf[s] \in DOMAIN kf.stateTransitionMap
    /\ kf.stateTransitionMap[AmbiguityOf[s]] = AmbiguityOf[s]

CountInv ==
    /\ pc \notin {"observe", "transition"} => \A s \in Tracked : Counted(s)
    /\ pc \in {"observe", "transition"} =>
           \A s \in Signals : Kept(s) => Counted(s) /\ history[s].rejected < RejectLimit
    /\ pc = "lsq" => \A s \in Tracked : history[s].rejected < RejectLimit
    /\ pc \in {"transition", "lsq", "filter"} => observed \subseteq DOMAIN sigStat

LEMMA AmbiguityType ==
  ASSUME NEW s \in Signals
  PROVE  /\ AmbiguityOf[s] \in Keys /\ AmbiguityOf[s] # ONE
         /\ AmbiguityOf[s] \notin DOMAIN RateOf /\ AmbiguityOf[s] \notin RateKeys
  BY NetworkConstants, FilterConstants DEF EstimatorConstants, ConstantsAssumption

LEMMA CountSkip == ASSUME IInv, CountInv, SkipEpoch PROVE CountInv'
  <1>1. ASSUME NEW s \in Tracked
        PROVE  Counted(s)'
    <2>1. s \in Signals /\ Counted(s) /\ history[s].heard \in Nat
      BY <1>1 DEF IInv, Counts, CountInv, SkipEpoch, Tracked
    <2>2. Count(s)' = Count(s)
      BY DEF Count, SkipEpoch
    <2>3. history'[s].heard = history[s].heard /\ history'[s].rejected = history[s].rejected
      BY <1>1, <2>1 DEF SkipEpoch, HistoryAfter, IInv, Counts
    <2> QED BY <2>1, <2>2, <2>3 DEF Counted
  <1>2. Tracked' = Tracked /\ pc' = "idle"
    BY DEF Tracked, SkipEpoch
  <1> QED BY <1>1, <1>2 DEF CountInv

LEMMA CountBegin ==
  ASSUME IInv, CountInv, NEW S \in SUBSET Signals, BeginEpoch(S)
  PROVE  CountInv'
  <1>1. ASSUME NEW s \in Signals, Kept(s)'
        PROVE  Counted(s)' /\ history'[s].rejected < RejectLimit
    <2>1. AmbiguityOf[s] \in DOMAIN kf.kfIndexMap /\ AmbiguityOf[s] \notin Removed
      BY <1>1, BeginKeeps DEF Kept
    <2>2. s \in Tracked /\ ~ LongOutage(s) /\ ~ ManyRejects(s)
      BY <2>1 DEF Removed, Tracked
    <2> DEFINE a == \E v \in S : StationOf[v] = StationOf[s]
    <2>3. sigStat'[s] = [outage |-> IF a THEN AtMost(OutageLimit, Count(s).outage + 1)
                                    ELSE Count(s).outage, reject |-> Count(s).reject]
      BY <2>2 DEF BeginEpoch, Outage
    <2>4. Count(s)' = sigStat'[s]
      BY <2>2 DEF Count, BeginEpoch
    <2>5. /\ history'[s].heard = IF a THEN AtMost(OutageLimit + 1, history[s].heard + 1)
                                 ELSE history[s].heard
          /\ history'[s].rejected = history[s].rejected
      BY <2>2 DEF BeginEpoch, HistoryAfter, IInv, Counts
    <2>6. /\ Count(s).outage < OutageLimit /\ Count(s).reject < RejectLimit
          /\ Count(s).outage \in Nat /\ Count(s).reject \in Nat
          /\ history[s].heard \in Nat /\ history[s].rejected \in Nat
      BY <2>2, CountType, LimitsType DEF LongOutage, ManyRejects, IInv, Counts
    <2>7. Counted(s)
      BY <2>2 DEF CountInv, BeginEpoch
    <2> HIDE DEF a
    <2> QED BY <2>3, <2>4, <2>5, <2>6, <2>7, LimitsType DEF Counted, AtMost
  <1>2. pc' = "observe"
    BY DEF BeginEpoch
  <1> QED BY <1>1, <1>2 DEF CountInv

LEMMA CountAdd ==
  ASSUME IInv, CountInv, NEW S \in SUBSET Common, AddMeasurements(S)
  PROVE  CountInv'
  <1>1. S \in SUBSET Signals /\ pc = "observe" /\ pc' = "transition" /\ observed' = S
    BY DEF IInv, Control, Common, AddMeasurements
  <1>2. ASSUME NEW s \in Signals
        PROVE  Count(s)' = Count(s) /\ history'[s] = history[s] /\ (Kept(s)' => Kept(s))
    <2>1. sigStat' = [v \in DOMAIN sigStat \cup S |-> Count(v)] /\ history' = history
      BY DEF AddMeasurements
    <2>2. Count(s)' = Count(s)
      BY <2>1 DEF Count
    <2>3. kf'.stateTransitionMap =
            [k \in DOMAIN kf.stateTransitionMap \cup KeysOf(S)
                     \cup {RateOf[d] : d \in KeysOf(S) \cap DOMAIN RateOf} |->
               IF k \in DOMAIN kf.stateTransitionMap THEN kf.stateTransitionMap[k] ELSE ONE]
      BY AddKeeps
    <2>4. Kept(s)' => Kept(s)
      BY <2>3, AmbiguityType DEF Kept
    <2> QED BY <2>1, <2>2, <2>4
  <1>3. \A s \in Signals : Kept(s)' => Counted(s)' /\ history'[s].rejected < RejectLimit
    BY <1>1, <1>2 DEF CountInv, Counted
  <1>4. observed' \subseteq DOMAIN sigStat'
    BY <1>1 DEF AddMeasurements
  <1> QED BY <1>1, <1>3, <1>4 DEF CountInv

LEMMA CountTransition == ASSUME IInv, CountInv, Transition PROVE CountInv'
  <1>1. pc = "transition" /\ Transit(kf, now) /\ sigStat' = sigStat
    BY DEF Transition
  <1>2. DOMAIN kf'.kfIndexMap = DOMAIN kf.stateTransitionMap
    BY <1>1, TransitKeeps
  <1>3. ASSUME NEW s \in Tracked'
        PROVE  Counted(s)' /\ history'[s].rejected < RejectLimit
    <2>1. s \in Signals /\ AmbiguityOf[s] \in DOMAIN kf.stateTransitionMap
      BY <1>2, <1>3 DEF Tracked
    <2>2. Count(s)' = Count(s) /\ Count(s).outage \in Nat /\ Count(s).reject \in Nat
      BY <1>1, <2>1, CountType DEF Count
    <2>3. CASE Fresh(kf, AmbiguityOf[s])
      <3>1. history'[s] = [heard |-> 0, rejected |-> 0]
        BY <2>1, <2>3 DEF Transition, NoHistory
      <3> QED BY <2>2, <3>1, LimitsType DEF Counted
    <2>4. CASE ~ Fresh(kf, AmbiguityOf[s])
      <3>1. history'[s] = history[s]
        BY <2>1, <2>4 DEF Transition
      <3>2. Kept(s)
        BY <2>1, <2>4 DEF Kept, Fresh
      <3> QED BY <1>1, <2>1, <2>2, <3>1, <3>2 DEF Counted, CountInv
    <2> QED BY <2>3, <2>4
  <1>4. /\ pc' \in {"lsq", "idle", "rts"}
        /\ pc' = "lsq" => observed' = observed
    BY DEF Transition, EndOfEpoch
  <1>5. observed \subseteq DOMAIN sigStat
    BY <1>1 DEF CountInv
  <1> QED BY <1>1, <1>3, <1>4, <1>5 DEF CountInv

(* Steps that leave the keys of the filter, the counts and the history.     *)
LEMMA CountSame ==
  ASSUME CountInv, pc \notin {"observe", "transition"}, pc' \notin {"observe", "transition", "lsq"},
         kf'.kfIndexMap = kf.kfIndexMap, sigStat' = sigStat, history' = history,
         pc' = "filter" => (pc = "lsq" /\ observed' = observed)
  PROVE  CountInv'
  <1>1. Tracked' = Tracked /\ \A s \in Tracked : Counted(s)
    BY DEF Tracked, CountInv
  <1>2. \A s \in Tracked : Counted(s)'
    BY <1>1 DEF Counted, Count
  <1>3. pc' = "filter" => observed' \subseteq DOMAIN sigStat'
    BY DEF CountInv
  <1> QED BY <1>1, <1>2, <1>3 DEF CountInv

LEMMA CountFilter ==
  ASSUME IInv, CountInv, NEW R \in SUBSET observed, Filter(R)
  PROVE  CountInv'
  <1>1. /\ pc = "filter" /\ observed \subseteq DOMAIN sigStat /\ observed \in SUBSET Signals
        /\ \A s \in Tracked : Counted(s)
    BY DEF Filter, CountInv, IInv, Control
  <1>2. Tracked' = Tracked
    BY FilterKeeps DEF SameMatrix, Tracked
  <1>3. ASSUME NEW s \in Tracked
        PROVE  Counted(s)'
    <2>1. /\ s \in Signals /\ Counted(s) /\ Count(s).outage \in Nat /\ Count(s).reject \in Nat
          /\ history[s].rejected \in Nat
      BY <1>1, CountType DEF Tracked, IInv, Counts
    <2>2. CASE s \in observed
      <3>1. DOMAIN Combined # {}
        <4>1. << s, "P" >> \in DOMAIN MeasurementList
          BY <2>2 DEF MeasurementList
        <4> QED BY <1>1, <4>1, AllCombined
      <3>2. s \in DOMAIN sigStat
        BY <1>1, <2>2
      <3>3. Count(s)' = [outage |-> 0, reject |-> RejectCounted(R, s)]
        BY <2>2, <3>1, <3>2 DEF Filter, Count
      <3>4. history'[s] = [heard |-> 0,
                           rejected |-> IF s \in R THEN history[s].rejected + 1 ELSE 0]
        BY <2>1, <2>2 DEF Filter
      <3> QED BY <2>1, <3>3, <3>4 DEF Counted, RejectCounted
    <2>3. CASE s \notin observed
      <3>1. Count(s)' = Count(s) /\ history'[s] = history[s]
        BY <2>1, <2>3 DEF Filter, Count
      <3> QED BY <2>1, <3>1 DEF Counted
    <2> QED BY <2>2, <2>3
  <1>4. pc' \in {"idle", "rts"}
    BY DEF Filter, EndOfEpoch
  <1> QED BY <1>2, <1>3, <1>4 DEF CountInv

LEMMA CountStart == ASSUME IInv, Start PROVE CountInv'
  <1>1. ASSUME NEW s \in Signals
        PROVE  Counted(s)'
    BY DEF Counted, Count, Start, NoCounts, NoHistory
  <1> QED BY <1>1 DEF CountInv, Start, Tracked

LEMMA CountNext == IInv /\ CountInv /\ [Next]_vars => CountInv'
  <1> SUFFICES ASSUME IInv, CountInv, [Next]_vars PROVE CountInv'
    OBVIOUS
  <1>1. CASE SkipEpoch
    BY <1>1, CountSkip
  <1>2. CASE \E S \in SUBSET Signals \ {{}} : BeginEpoch(S)
    BY <1>2, CountBegin
  <1>3. CASE \E S \in SUBSET Common : AddMeasurements(S)
    BY <1>3, CountAdd
  <1>4. CASE Transition
    BY <1>4, CountTransition
  <1>5. CASE InitialiseStates
    BY <1>5, InitialiseKeeps, CountSame DEF InitialiseStates, SameMatrix
  <1>6. CASE \E R \in SUBSET observed : Filter(R)
    BY <1>6, CountFilter
  <1>7. CASE RtsRead \/ RtsEnd
    BY <1>7, CountSame DEF RtsRead, RtsEnd, estimation
  <1>8. CASE MinimumConstraints
    BY <1>8, MinimumKeeps, CountSame DEF MinimumConstraints
  <1>9. CASE OutputPersistanceStates
    BY <1>9, CountSame DEF OutputPersistanceStates, estimation
  <1>10. CASE Start
    BY <1>10, CountStart
  <1>11. CASE UNCHANGED vars
    BY <1>11 DEF vars, CountInv, Counted, Count, Kept, Tracked
  <1> QED BY <1>1, <1>2, <1>3, <1>4, <1>5, <1>6, <1>7, <1>8, <1>9, <1>10, <1>11 DEF Next

(* An ambiguity that is used has been without a measurement for at most     *)
(* OutageLimit epochs of its station, and fewer than RejectLimit of the     *)
(* measurements in a row before it were rejected, whatever the limits.      *)
THEOREM AmbiguitiesAreReset == Spec => []BadAmbiguitiesGo
  <1>1. Init => CountInv
    <2> SUFFICES ASSUME Init, NEW s \in Signals PROVE Counted(s)
      BY DEF Init, CountInv, Tracked
    <2> QED BY DEF Init, Counted, Count, NoCounts, NoHistory
  <1>2. IInv /\ CountInv => BadAmbiguitiesGo
    <2> SUFFICES ASSUME IInv, CountInv, pc = "lsq", NEW s \in observed
                 PROVE  history[s].heard <= OutageLimit /\ history[s].rejected < RejectLimit
      BY DEF BadAmbiguitiesGo
    <2>1. s \in Signals /\ AmbiguityOf[s] \in DOMAIN kf.kfIndexMap
      BY DEF IInv, Control, Designs, KeysOf, PhaseKeys
    <2>2. s \in Tracked
      BY <2>1 DEF Tracked
    <2>3. history[s].heard <= Count(s).outage /\ Count(s).outage \in 0 .. OutageLimit
      BY <2>1, <2>2, CountType DEF CountInv, Counted
    <2>4. history[s].heard \in Nat
      BY <2>1 DEF IInv, Counts
    <2> QED BY <2>2, <2>3, <2>4, LimitsType DEF CountInv
  <1>3. Spec => []CountInv
    BY <1>1, Invariant, CountNext, PTL DEF Spec
  <1> QED BY <1>2, <1>3, Invariant, PTL

-----------------------------------------------------------------------------
(* The archive is a chain: the matrix of a step, the state that it          *)
(* predicts, the state that the measurements make of it, and then the next  *)
(* step, that starts from it.                                               *)

Same(q, r) == q.step = r.step /\ q.rows = r.rows

Link(q, r) ==
    \/ q.type = "TRANSITION_MATRIX" /\ r.type = "FILTER_MINUS" /\ Same(q, r)
    \/ q.type = "FILTER_MINUS" /\ r.type = "FILTER_PLUS" /\ Same(q, r)
    \/ /\ q.type = "FILTER_PLUS" /\ r.type = "TRANSITION_MATRIX"
       /\ r.step = q.step + 1 /\ r.cols = q.rows

Chain(s) == \A i \in 1 .. Len(s) - 1 : Link(s[i], s[i + 1])

(* Steps of the archive never go back, and a state is followed by the next. *)
Ordered(s) ==
    \A i, j \in 1 .. Len(s) : i < j =>
        /\ s[i].step <= s[j].step
        /\ s[i].type = "FILTER_PLUS" => s[i].step < s[j].step

(* The last record is about the filter as it is.                            *)
Ends(r, f) ==
    /\ r.step = f.step /\ r.rows = DOMAIN f.kfIndexMap
    /\ r.type = IF f.rtsFilterInProgress THEN "TRANSITION_MATRIX" ELSE "FILTER_PLUS"

Filtering ==
    \/ pc \in {"idle", "observe", "transition", "lsq", "filter"}
    \/ pc = "rts" /\ options.rts_lag > 0

(* What the smoother holds is what it has read last.                        *)
Holds ==
    /\ rts.startPos <= Len(file)
    /\ LET last == file[rts.startPos]
       IN  /\ Same(rts.smoothedKF, last)
           /\ last.type = "FILTER_MINUS" => rts.smoothedXready /\ rts.kalmanMinus = last
           /\ last.type = "TRANSITION_MATRIX" =>
                  rts.smoothedXready /\ Same(rts.kalmanMinus, last) /\ rts.transitionMatrix = last

ChainInv ==
    /\ Chain(file)
    /\ ~ Archiving => file = << >>
    /\ Filtering /\ file # << >> => Ends(file[Len(file)], kf)
    /\ pc \in {"lsq", "filter"} /\ Archiving => file # << >> /\ kf.rtsFilterInProgress
    /\ pc = "rts" /\ rts.smoothedPready => Holds

LEMMA ChainOfConcat ==
  ASSUME NEW q \in Seq(Record), NEW r \in Seq(Record), Chain(q), Chain(r),
         q # << >> /\ r # << >> => Link(q[Len(q)], r[1])
  PROVE  Chain(q \o r)
  <1> DEFINE s == q \o r
             m == Len(q)
             n == Len(r)
  <1>1. /\ s \in Seq(Record) /\ Len(s) = m + n /\ m \in Nat /\ n \in Nat
        /\ \A i \in 1 .. m + n : s[i] = IF i <= m THEN q[i] ELSE r[i - m]
    BY ConcatProperties
  <1> SUFFICES ASSUME NEW i \in 1 .. m + n - 1 PROVE Link(s[i], s[i + 1])
    BY <1>1 DEF Chain
  <1> HIDE DEF s
  <1>2. CASE i < m
    <2>1. s[i] = q[i] /\ s[i + 1] = q[i + 1] /\ i \in 1 .. m - 1
      BY <1>1, <1>2
    <2> QED BY <2>1 DEF Chain
  <1>3. CASE i = m
    <2> DEFINE j == i + 1
    <2>3. j \in 1 .. m + n /\ ~ j <= m /\ j - m = 1 /\ i \in 1 .. m + n /\ i <= m
      BY <1>1, <1>3
    <2> HIDE DEF j
    <2>4. s[i] = q[m] /\ s[j] = r[1]
      BY <1>1, <1>3, <2>3
    <2>1. s[i] = q[m] /\ s[i + 1] = r[1]
      BY <2>4 DEF j
    <2>2. q # << >> /\ r # << >>
      BY <1>1, <1>3
    <2> QED BY <2>1, <2>2
  <1>4. CASE i > m
    <2>1. s[i] = r[i - m] /\ s[i + 1] = r[(i - m) + 1] /\ i - m \in 1 .. n - 1
      BY <1>1, <1>4
    <2> QED BY <2>1 DEF Chain
  <1> QED BY <1>1, <1>2, <1>3, <1>4

LEMMA LastOfConcat ==
  ASSUME NEW q \in Seq(Record), NEW r \in Seq(Record), r # << >>
  PROVE  (q \o r) # << >> /\ (q \o r)[Len(q \o r)] = r[Len(r)]
  <1>1. /\ Len(q \o r) = Len(q) + Len(r) /\ Len(q) \in Nat /\ Len(r) \in Nat /\ Len(r) > 0
        /\ \A i \in 1 .. Len(q) + Len(r) : (q \o r)[i] = IF i <= Len(q) THEN q[i] ELSE r[i - Len(q)]
    BY ConcatProperties
  <1>2. (q \o r)[Len(q) + Len(r)] = r[Len(r)]
    BY <1>1
  <1> QED BY <1>1, <1>2

LEMMA PairThenOne ==
  ASSUME NEW a, NEW b, NEW c
  PROVE  LET s == << a, b >> \o << c >>
         IN  s # << >> /\ Len(s) = 3 /\ s[1] = a /\ s[2] = b /\ s[3] = c
  <1> DEFINE q == << a, b >>
             r == << c >>
             T == {a, b, c}
  <1>1. /\ q \in Seq(T) /\ Len(q) = 2 /\ q[1] = a /\ q[2] = b
        /\ r \in Seq(T) /\ Len(r) = 1 /\ r[1] = c
    OBVIOUS
  <1> HIDE DEF q, r, T
  <1>2. /\ q \o r \in Seq(T) /\ Len(q \o r) = Len(q) + Len(r)
        /\ \A i \in 1 .. Len(q) + Len(r) : (q \o r)[i] = IF i <= Len(q) THEN q[i] ELSE r[i - Len(q)]
    BY <1>1, ConcatProperties
  <1>3. (q \o r)[1] = q[1] /\ (q \o r)[2] = q[2] /\ (q \o r)[3] = r[3 - 2]
    BY <1>1, <1>2
  <1>4. q \o r # << >> /\ Len(q \o r) = 3
    BY <1>1, <1>2
  <1> QED BY <1>1, <1>3, <1>4 DEF q, r

(* The records of a transition follow those of a filter of the same step.   *)
LEMMA TransitionChain ==
  ASSUME NEW f, Shaped(f), MatrixOf(f), NEW t \in Nat
  PROVE  LET records == TransitionRecords(f, t)
             D == DOMAIN f.stateTransitionMap
         IN  /\ records # << >> /\ Chain(records) /\ Ordered(records)
             /\ ~ f.rtsFilterInProgress => records[1].step = f.step + 1
             /\ records[Len(records)] =
                    [type |-> "TRANSITION_MATRIX", step |-> f.step + 1, time |-> t,
                     rows |-> D, cols |-> DOMAIN f.kfIndexMap]
             /\ \A r : Ends(r, f) => Link(r, records[1])
  <1> DEFINE matrix == [type |-> "TRANSITION_MATRIX", step |-> f.step + 1, time |-> t,
                        rows |-> DOMAIN f.stateTransitionMap, cols |-> DOMAIN f.kfIndexMap]
             late == [f EXCEPT !.time = t]
             minus == FilterRecord("FILTER_MINUS", late)
             plus == FilterRecord("FILTER_PLUS", late)
             records == TransitionRecords(f, t)
  <1>1. late.step = f.step /\ late.kfIndexMap = f.kfIndexMap
    BY DEF Shaped, FilterType
  <1>2. /\ minus.type = "FILTER_MINUS" /\ minus.step = f.step /\ minus.rows = DOMAIN f.kfIndexMap
        /\ plus.type = "FILTER_PLUS" /\ plus.step = f.step /\ plus.rows = DOMAIN f.kfIndexMap
    BY <1>1 DEF FilterRecord
  <1>3. /\ matrix.type = "TRANSITION_MATRIX" /\ matrix.step = f.step + 1
        /\ matrix.cols = DOMAIN f.kfIndexMap
    OBVIOUS
  <1>4. records = (IF f.rtsFilterInProgress THEN << minus, plus >> ELSE << >>) \o << matrix >>
    BY DEF TransitionRecords
  <1> HIDE DEF late, minus, plus, matrix, records
  <1>5. CASE f.rtsFilterInProgress
    <2>1. records = << minus, plus >> \o << matrix >>
      BY <1>4, <1>5
    <2>2. /\ records # << >> /\ Len(records) = 3
          /\ records[1] = minus /\ records[2] = plus /\ records[3] = matrix
      BY <2>1, PairThenOne
    <2>3. Link(minus, plus) /\ Link(plus, matrix)
      BY <1>2, <1>3 DEF Link, Same
    <2>4. Chain(records)
      BY <2>2, <2>3 DEF Chain
    <2>5. \A r : Ends(r, f) => Link(r, records[1])
      BY <1>2, <1>5, <2>2 DEF Ends, Link, Same
    <2>6. f.step \in Nat
      BY DEF Shaped, FilterType
    <2>7. Ordered(records)
      BY <1>2, <1>3, <2>2, <2>6 DEF Ordered
    <2> QED BY <1>5, <2>2, <2>4, <2>5, <2>7 DEF matrix, records
  <1>6. CASE ~ f.rtsFilterInProgress
    <2>1. records = << matrix >>
      BY <1>4, <1>6
    <2>2. records # << >> /\ Len(records) = 1 /\ records[1] = matrix
      BY <2>1
    <2>3. Chain(records)
      BY <2>2 DEF Chain
    <2>4. \A r : Ends(r, f) => Link(r, records[1])
      BY <1>3, <1>6, <2>2 DEF Ends, Link
    <2>5. Ordered(records)
      BY <2>2 DEF Ordered
    <2> QED BY <1>3, <2>2, <2>3, <2>4, <2>5 DEF matrix, records
  <1> QED BY <1>5, <1>6

LEMMA ArchivedChain ==
  ASSUME IInv, ChainInv, NEW records \in Seq(Record), records # << >>, Chain(records),
         Archived(records),
         Archiving /\ file # << >> => Link(file[Len(file)], records[1])
  PROVE  /\ Chain(file')
         /\ ~ Archiving => file' = << >>
         /\ Archiving => file' # << >> /\ file'[Len(file')] = records[Len(records)]
  <1>1. file \in Seq(Record) /\ Chain(file)
    BY DEF IInv, Archive, ChainInv
  <1>2. CASE Archiving
    <2>1. file' = file \o records
      BY <1>2 DEF Archived
    <2>2. Chain(file \o records)
      BY <1>1, <1>2, ChainOfConcat
    <2>3. (file \o records) # << >> /\ (file \o records)[Len(file \o records)] = records[Len(records)]
      BY <1>1, LastOfConcat
    <2> QED BY <1>2, <2>1, <2>2, <2>3
  <1>3. CASE ~ Archiving
    <2>1. file' = file \o << >> /\ file = << >>
      BY <1>3 DEF Archived, ChainInv
    <2>2. file' = << >>
      BY <1>1, <2>1, ConcatEmptySeq
    <2> QED BY <1>3, <2>2 DEF Chain
  <1> QED BY <1>2, <1>3

(* Steps that leave the archive and what it says of the filter.             *)
LEMMA ChainSame ==
  ASSUME ChainInv, file' = file, options' = options, Filtering' => Filtering,
         SameStates(kf, kf') \/ (SameMatrix(kf, kf') /\ kf'.rtsFilterInProgress = kf.rtsFilterInProgress),
         pc' \in {"lsq", "filter"} => pc \in {"lsq", "filter"},
         pc' = "rts" => ~ rts'.smoothedPready
  PROVE  ChainInv'
  <1>1. /\ kf'.step = kf.step /\ kf'.kfIndexMap = kf.kfIndexMap
        /\ kf'.rtsFilterInProgress = kf.rtsFilterInProgress
    BY DEF SameStates, SameMatrix
  <1>2. Archiving' = Archiving
    BY DEF Archiving
  <1>3. Ends(file[Len(file)], kf) => Ends(file[Len(file)], kf')
    BY <1>1 DEF Ends
  <1>4. Filtering' /\ file # << >> => Ends(file[Len(file)], kf')
    BY <1>3 DEF ChainInv
  <1>5. pc' \in {"lsq", "filter"} /\ Archiving => file # << >> /\ kf'.rtsFilterInProgress
    BY <1>1 DEF ChainInv
  <1> QED BY <1>2, <1>4, <1>5 DEF ChainInv

LEMMA EndOfEpochRts ==
  ASSUME pc # "rts", EndOfEpoch
  PROVE  pc' = "rts" => ~ rts'.smoothedPready
  BY DEF EndOfEpoch, NoSmoothing

LEMMA ChainTransition == ASSUME IInv, ChainInv, Transition PROVE ChainInv'
  <1> DEFINE records == TransitionRecords(kf, now)
             D == DOMAIN kf.stateTransitionMap
  <1>1. /\ pc = "transition" /\ Transit(kf, now) /\ options' = options /\ Archiving' = Archiving
        /\ Shaped(kf) /\ MatrixOf(kf) /\ now \in Nat /\ Archived(records)
    BY LimitsType DEF IInv, Filters, Control, Transition, Transit, Archiving
  <1>2. records \in Seq(Record)
    BY <1>1, TransitionRecordsType DEF MatrixOf
  <1>3. /\ records # << >> /\ Chain(records)
        /\ records[Len(records)] = [type |-> "TRANSITION_MATRIX", step |-> kf.step + 1,
                                    time |-> now, rows |-> D, cols |-> DOMAIN kf.kfIndexMap]
    BY <1>1, TransitionChain
  <1>4. \A r : Ends(r, kf) => Link(r, records[1])
    BY <1>1, TransitionChain
  <1>5. file # << >> => Ends(file[Len(file)], kf)
    BY <1>1 DEF ChainInv, Filtering
  <1> HIDE DEF records
  <1>6. /\ Chain(file') /\ (~ Archiving => file' = << >>)
        /\ Archiving => file' # << >> /\ file'[Len(file')] = records[Len(records)]
    BY <1>1, <1>2, <1>3, <1>4, <1>5, ArchivedChain
  <1>7. /\ DOMAIN kf'.kfIndexMap = D /\ kf'.step = kf.step + 1
        /\ kf'.rtsFilterInProgress = Archiving
    BY <1>1, TransitKeeps
  <1>8. file' # << >> => Ends(file'[Len(file')], kf')
    <2>1. file' # << >> => Archiving
      BY <1>6
    <2> QED BY <1>3, <1>6, <1>7, <2>1 DEF Ends
  <1>9. pc' = "rts" => ~ rts'.smoothedPready
    BY <1>1, EndOfEpochRts DEF Transition
  <1> QED BY <1>1, <1>6, <1>7, <1>8, <1>9 DEF ChainInv

LEMMA ChainFilter ==
  ASSUME IInv, ChainInv, NEW R \in SUBSET observed, Filter(R)
  PROVE  ChainInv'
  <1> DEFINE minus == FilterRecord("FILTER_MINUS", kf)
             plus == FilterRecord("FILTER_PLUS", kf')
             records == << minus, plus >>
  <1>1. /\ Shaped(kf) /\ Shaped(kf') /\ SameMatrix(kf, kf') /\ kf'.rtsFilterInProgress = FALSE
        /\ pc = "filter" /\ options' = options /\ Archiving' = Archiving /\ Archived(records)
    BY FilterKeeps DEF IInv, Filters, Filter, Archiving
  <1>2. /\ minus \in Record /\ plus \in Record
        /\ minus.type = "FILTER_MINUS" /\ minus.step = kf.step /\ minus.rows = DOMAIN kf.kfIndexMap
        /\ plus.type = "FILTER_PLUS" /\ plus.step = kf.step /\ plus.rows = DOMAIN kf.kfIndexMap
    BY <1>1, FilterRecordType DEF FilterRecord, SameMatrix
  <1> HIDE DEF minus, plus
  <1>3. /\ records \in Seq(Record) /\ records # << >> /\ Len(records) = 2
        /\ records[1] = minus /\ records[2] = plus
    BY <1>2
  <1>4. Chain(records)
    BY <1>2, <1>3 DEF Chain, Link, Same
  <1>5. Archiving => Link(file[Len(file)], records[1])
    <2>1. Archiving => Ends(file[Len(file)], kf) /\ kf.rtsFilterInProgress
      BY <1>1 DEF ChainInv, Filtering
    <2> QED BY <1>2, <1>3, <2>1 DEF Ends, Link, Same
  <1> HIDE DEF records
  <1>6. /\ Chain(file') /\ (~ Archiving => file' = << >>)
        /\ Archiving => file' # << >> /\ file'[Len(file')] = records[Len(records)]
    BY <1>1, <1>3, <1>4, <1>5, ArchivedChain
  <1>7. file' # << >> => Ends(file'[Len(file')], kf')
    <2>1. file' # << >> => file'[Len(file')] = plus
      BY <1>3, <1>6
    <2> QED BY <1>1, <1>2, <2>1 DEF Ends, SameMatrix
  <1>8. pc' = "rts" => ~ rts'.smoothedPready
    BY <1>1, EndOfEpochRts DEF Filter
  <1>9. pc' \in {"idle", "rts"}
    BY DEF Filter, EndOfEpoch
  <1> QED BY <1>1, <1>6, <1>7, <1>8, <1>9 DEF ChainInv

LEMMA ChainMinimum == ASSUME IInv, ChainInv, MinimumConstraints PROVE ChainInv'
  <1> DEFINE f == InitFilterEpoch(kf)
             g == [StateTransition(f, NoTime) EXCEPT !.rtsFilterInProgress = Archiving]
             first == TransitionRecords(f, NoTime)
             minus == FilterRecord("FILTER_MINUS", g)
             plus == FilterRecord("FILTER_PLUS", kf')
             last == << minus, plus >>
             D == DOMAIN kf.kfIndexMap
  <1>1. /\ pc = "idle" /\ pc' = "post" /\ options' = options /\ Archiving' = Archiving
        /\ NoTime \in Nat /\ Archiving \in BOOLEAN /\ Archived(first \o last)
    BY DEF MinimumConstraints, Archiving, NoTime
  <1>2. /\ Shaped(f) /\ MatrixOf(f) /\ KeepsStates(f) /\ SameStates(kf, f)
        /\ DOMAIN f.stateTransitionMap = D
    BY InitFilterEpochKeeps DEF IInv, Filters
  <1>3. /\ Shaped(kf') /\ kf'.step = kf.step + 1 /\ DOMAIN kf'.kfIndexMap = D
    BY MinimumKeeps
  <1> HIDE DEF f
  <1>4. /\ Shaped(StateTransition(f, NoTime)) /\ DOMAIN StateTransition(f, NoTime).kfIndexMap = D
        /\ StateTransition(f, NoTime).step = kf.step + 1
    BY <1>1, <1>2, TransitionFields DEF SameStates
  <1>5. Shaped(g) /\ DOMAIN g.kfIndexMap = D /\ g.step = kf.step + 1
    BY <1>1, <1>4, FlagKeeps DEF SameMatrix
  <1> HIDE DEF g
  <1>6. /\ minus \in Record /\ plus \in Record
        /\ minus.type = "FILTER_MINUS" /\ minus.step = kf.step + 1 /\ minus.rows = D
        /\ plus.type = "FILTER_PLUS" /\ plus.step = kf.step + 1 /\ plus.rows = D
    BY <1>3, <1>5, FilterRecordType DEF FilterRecord
  <1> HIDE DEF minus, plus
  <1>7. /\ last \in Seq(Record) /\ last # << >> /\ Len(last) = 2
        /\ last[1] = minus /\ last[2] = plus /\ Chain(last)
    <2>1. /\ last \in Seq(Record) /\ last # << >> /\ Len(last) = 2
          /\ last[1] = minus /\ last[2] = plus
      BY <1>6
    <2> HIDE DEF last
    <2> QED BY <1>6, <2>1 DEF Chain, Link, Same
  <1> HIDE DEF last
  <1>8. first \in Seq(Record)
    BY <1>1, <1>2, TransitionRecordsType DEF MatrixOf
  <1>9. /\ first # << >> /\ Chain(first)
        /\ first[Len(first)] = [type |-> "TRANSITION_MATRIX", step |-> f.step + 1,
                                time |-> NoTime, rows |-> D, cols |-> DOMAIN f.kfIndexMap]
    BY <1>1, <1>2, TransitionChain
  <1>10. \A r : Ends(r, f) => Link(r, first[1])
    BY <1>1, <1>2, TransitionChain
  <1> HIDE DEF first
  <1>11. Link(first[Len(first)], last[1])
    BY <1>2, <1>6, <1>7, <1>9 DEF Link, Same, SameStates
  <1>12. first \o last \in Seq(Record) /\ Chain(first \o last)
    BY <1>7, <1>8, <1>9, <1>11, ChainOfConcat, ConcatProperties
  <1>13. first \o last # << >> /\ (first \o last)[1] = first[1]
    <2>1. Len(first) \in Nat /\ Len(first) >= 1
      BY <1>8, <1>9
    <2>2. /\ Len(first \o last) = Len(first) + Len(last)
          /\ \A i \in 1 .. Len(first) + Len(last) :
                 (first \o last)[i] = IF i <= Len(first) THEN first[i] ELSE last[i - Len(first)]
      BY <1>7, <1>8, ConcatProperties
    <2> QED BY <1>7, <1>12, <2>1, <2>2
  <1>14. file # << >> => Link(file[Len(file)], first[1])
    <2>1. file # << >> => Ends(file[Len(file)], kf)
      BY <1>1 DEF ChainInv, Filtering
    <2>2. file # << >> => Ends(file[Len(file)], f)
      BY <1>2, <2>1 DEF Ends, SameStates
    <2> QED BY <1>10, <2>2
  <1>15. Chain(file') /\ (~ Archiving => file' = << >>)
    BY <1>1, <1>12, <1>13, <1>14, ArchivedChain
  <1> QED BY <1>1, <1>15 DEF ChainInv, Filtering

LEMMA ReadFollows ==
  ASSUME IInv, ChainInv, pc = "rts", rts.smoothedPready, rts.startPos > 1
  PROVE  /\ rts.startPos \in 2 .. Len(file) /\ Holds
         /\ Link(LastRead, file[rts.startPos])
  <1> DEFINE p == rts.startPos
  <1>1. Holds /\ p \in Nat /\ file \in Seq(Record)
    BY DEF ChainInv, IInv, Archive, SmoothingLocals
  <1>2. p \in 2 .. Len(file)
    BY <1>1 DEF Holds
  <1> HIDE DEF p
  <1>3. p - 1 \in 1 .. Len(file) - 1 /\ (p - 1) + 1 = p
    BY <1>1, <1>2
  <1>4. Link(file[p - 1], file[(p - 1) + 1])
    BY <1>3 DEF ChainInv, Chain
  <1> QED BY <1>1, <1>2, <1>3, <1>4 DEF p, LastRead

LEMMA ChainRead == ASSUME IInv, ChainInv, RtsRead PROVE ChainInv'
  <1>1. /\ pc = "rts" /\ pc' = "rts" /\ file' = file /\ kf' = kf /\ options' = options
        /\ rts \in SmoothingLocals /\ file \in Seq(Record)
        /\ rts.startPos \in 2 .. Len(file) + 1 /\ Archiving' = Archiving
    BY DEF IInv, Archive, RtsRead, estimation, Archiving
  <1> DEFINE p == rts.startPos
             last == file[p - 1]
  <1>2. last \in Record /\ LastRead = last
    BY <1>1 DEF LastRead
  <1>3. rts.smoothedPready => /\ p <= Len(file) /\ Holds /\ Link(last, file[p])
    BY <1>1, <1>2, ReadFollows
  <1>4. rts'.smoothedPready => Holds'
    <2> SUFFICES ASSUME rts'.smoothedPready PROVE Holds'
      OBVIOUS
    <2> HIDE DEF p
    <2>1. CASE ReadMatrix
      <3>1. rts' = [rts EXCEPT !.startPos = p - 1, !.transitionMatrix = last]
        BY <1>2, <2>1 DEF ReadMatrix, p
      <3>2. /\ rts'.startPos = p - 1 /\ rts'.transitionMatrix = last
            /\ rts'.smoothedPready = rts.smoothedPready /\ rts'.smoothedXready = rts.smoothedXready
            /\ rts'.kalmanMinus = rts.kalmanMinus /\ rts'.smoothedKF = rts.smoothedKF
        BY <1>1, <3>1 DEF SmoothingLocals
      <3>3. last.type = "TRANSITION_MATRIX"
        BY <1>2, <2>1 DEF ReadMatrix
      <3>4. rts.smoothedPready
        BY <3>2
      <3>5. file[p].type = "FILTER_MINUS" /\ Same(last, file[p])
        BY <1>3, <3>3, <3>4 DEF Link
      <3>6. rts.smoothedXready /\ rts.kalmanMinus = file[p] /\ Same(rts.smoothedKF, file[p])
        BY <1>3, <3>4, <3>5 DEF Holds, p
      <3>7. p - 1 <= Len(file) /\ file'[rts'.startPos] = last
        BY <1>1, <3>2 DEF p
      <3> QED BY <1>1, <3>2, <3>3, <3>5, <3>6, <3>7 DEF Holds, Same
    <2>2. CASE ReadMinus
      <3>1. rts' = [rts EXCEPT !.startPos = p - 1, !.kalmanMinus = last, !.smoothedXready = TRUE]
        BY <1>2, <2>2 DEF ReadMinus, p
      <3>2. /\ rts'.startPos = p - 1 /\ rts'.kalmanMinus = last
            /\ rts'.smoothedPready = rts.smoothedPready /\ rts'.smoothedXready
            /\ rts'.smoothedKF = rts.smoothedKF
        BY <1>1, <3>1 DEF SmoothingLocals
      <3>3. last.type = "FILTER_MINUS"
        BY <1>2, <2>2 DEF ReadMinus
      <3>4. rts.smoothedPready
        BY <3>2
      <3>5. Same(last, file[p])
        BY <1>3, <3>3, <3>4 DEF Link
      <3>6. Same(rts.smoothedKF, file[p])
        BY <1>3, <3>4 DEF Holds, p
      <3>7. p - 1 <= Len(file) /\ file'[rts'.startPos] = last
        BY <1>1, <3>2 DEF p
      <3> QED BY <1>1, <3>2, <3>3, <3>5, <3>6, <3>7 DEF Holds, Same
    <2>3. CASE ReadPlus
      <3>1. last.type = "FILTER_PLUS"
        BY <1>2, <2>3 DEF ReadPlus
      <3>2. rts.smoothedPready => rts.smoothedXready
        <4>1. rts.smoothedPready => file[p].type = "TRANSITION_MATRIX"
          BY <1>3, <3>1 DEF Link
        <4> QED BY <1>3, <4>1 DEF Holds, p
      <3>3. rts' = [rts EXCEPT !.startPos = p - 1, !.lag = @ + 1, !.smoothedPready = TRUE,
                               !.smoothedKF = last]
        BY <1>2, <2>3, <3>2 DEF ReadPlus, p
      <3>4. rts'.startPos = p - 1 /\ rts'.smoothedKF = last
        BY <1>1, <3>3 DEF SmoothingLocals
      <3>5. p - 1 <= Len(file) /\ file'[rts'.startPos] = last
        BY <1>1, <3>4 DEF p
      <3> QED BY <1>1, <3>1, <3>4, <3>5 DEF Holds, Same
    <2> QED BY <2>1, <2>2, <2>3 DEF RtsRead
  <1> QED BY <1>1, <1>4 DEF ChainInv, Filtering

LEMMA ChainEnd == ASSUME IInv, ChainInv, RtsEnd PROVE ChainInv'
  <1> DEFINE p == rts.startPos
             n == Len(file)
             rest == SubSeq(file, p, n)
  <1>1. /\ pc = "rts" /\ kf' = kf /\ options' = options /\ Archiving' = Archiving
        /\ file \in Seq(Record) /\ p \in 1 .. n + 1 /\ n \in Nat
        /\ pc' = (IF options.rts_lag > 0 THEN "idle" ELSE "stopped")
        /\ file' = rest \/ file' = file
    BY DEF IInv, Archive, RtsEnd, estimation, Archiving
  <1>2. /\ rest \in Seq(Record) /\ Len(rest) = IF p <= n THEN n - p + 1 ELSE 0
        /\ \A i \in 1 .. n - p + 1 : rest[i] = file[p + i - 1]
    <2>1. p \in Int /\ n \in Int /\ \A i \in p .. n : file[i] \in Record
      BY <1>1
    <2> HIDE DEF p, n
    <2> QED BY <2>1, SubSeqProperties
  <1> HIDE DEF rest
  <1>3. Chain(rest)
    <2> SUFFICES ASSUME NEW i \in 1 .. Len(rest) - 1 PROVE Link(rest[i], rest[i + 1])
      BY DEF Chain
    <2> HIDE DEF p, n
    <2> DEFINE j == p + i - 1
    <2>1. j \in 1 .. n - 1 /\ i \in 1 .. n - p + 1 /\ i + 1 \in 1 .. n - p + 1 /\ p + (i + 1) - 1 = j + 1
      BY <1>1, <1>2
    <2> HIDE DEF j
    <2>2. rest[i] = file[j]
      BY <1>2, <2>1 DEF j
    <2>3. rest[i + 1] = file[j + 1]
      BY <1>2, <2>1
    <2> QED BY <2>1, <2>2, <2>3 DEF ChainInv, Chain, n
  <1>4. rest # << >> => file # << >> /\ rest[Len(rest)] = file[n]
    <2> HIDE DEF p, n
    <2> SUFFICES ASSUME rest # << >> PROVE file # << >> /\ rest[Len(rest)] = file[n]
      OBVIOUS
    <2>1. p <= n /\ Len(rest) = n - p + 1 /\ n >= 1
      BY <1>1, <1>2
    <2>2. n - p + 1 \in 1 .. n - p + 1 /\ p + (n - p + 1) - 1 = n
      BY <1>1, <2>1
    <2>3. rest[n - p + 1] = file[n]
      BY <1>2, <2>2
    <2> QED BY <2>1, <2>3 DEF n
  <1>5. Chain(file') /\ (~ Archiving => file' = << >>)
    <2>1. ~ Archiving => file = << >>
      BY DEF ChainInv
    <2>2. ~ Archiving => rest = << >>
      BY <1>4, <2>1
    <2> QED BY <1>1, <1>3, <2>1, <2>2 DEF ChainInv
  <1>6. file' # << >> => file # << >> /\ file'[Len(file')] = file[n]
    BY <1>1, <1>4
  <1>7. Filtering' => Filtering
    BY <1>1 DEF Filtering
  <1>8. Filtering' /\ file' # << >> => Ends(file'[Len(file')], kf')
    BY <1>1, <1>6, <1>7 DEF ChainInv
  <1> QED BY <1>1, <1>5, <1>8 DEF ChainInv

LEMMA ChainNext == IInv /\ ChainInv /\ [Next]_vars => ChainInv'
  <1> SUFFICES ASSUME IInv, ChainInv, [Next]_vars PROVE ChainInv'
    OBVIOUS
  <1>1. CASE SkipEpoch
    BY <1>1, ChainSame DEF SkipEpoch, Filtering, SameStates
  <1>2. CASE \E S \in SUBSET Signals \ {{}} : BeginEpoch(S)
    BY <1>2, BeginKeeps, ChainSame DEF BeginEpoch, Filtering
  <1>3. CASE \E S \in SUBSET Common : AddMeasurements(S)
    BY <1>3, AddKeeps, ChainSame DEF AddMeasurements, Filtering
  <1>4. CASE Transition
    BY <1>4, ChainTransition
  <1>5. CASE InitialiseStates
    BY <1>5, InitialiseKeeps, ChainSame DEF InitialiseStates, Filtering
  <1>6. CASE \E R \in SUBSET observed : Filter(R)
    BY <1>6, ChainFilter
  <1>7. CASE RtsRead
    BY <1>7, ChainRead
  <1>8. CASE RtsEnd
    BY <1>8, ChainEnd
  <1>9. CASE MinimumConstraints
    BY <1>9, ChainMinimum
  <1>10. CASE OutputPersistanceStates
    <2>1. file' = file /\ options' = options /\ SameStates(kf, kf') /\ pc' \in {"rts", "stopped"}
      BY <1>10 DEF OutputPersistanceStates, estimation, SameStates
    <2>2. pc' = "rts" => options.rts_lag < 0 /\ ~ rts'.smoothedPready
      BY <1>10 DEF OutputPersistanceStates, NoSmoothing
    <2>3. options.rts_lag \in Int
      BY LimitsType DEF IInv, Control
    <2>4. Filtering' => Filtering
      BY <2>1, <2>2, <2>3 DEF Filtering
    <2> QED BY <2>1, <2>2, <2>4, ChainSame
  <1>11. CASE Start
    BY <1>11 DEF Start, ChainInv, Chain
  <1>12. CASE UNCHANGED vars
    BY <1>12 DEF vars, ChainInv, Chain, Filtering, Archiving, Holds
  <1> QED BY <1>1, <1>2, <1>3, <1>4, <1>5, <1>6, <1>7, <1>8, <1>9, <1>10, <1>11, <1>12 DEF Next

(* Each step of the smoother uses the matrix and the prediction of the      *)
(* filter step that leads to the state it has, with rows and columns that   *)
(* fit: also when steps were interrupted, the archive was shortened, or the *)
(* minimum constraints came last.                                           *)
THEOREM SmootherFollowsFilter == Spec => []SmoothsStepByStep
  <1>1. Init => ChainInv
    BY DEF Init, ChainInv, Chain
  <1>2. IInv /\ ChainInv => SmoothsStepByStep
    <2> SUFFICES ASSUME IInv, ChainInv, pc = "rts", rts.startPos > 1,
                        LastRead.type = "FILTER_PLUS", rts.smoothedPready
                 PROVE  /\ \A r \in {rts.transitionMatrix, rts.kalmanMinus, rts.smoothedKF} :
                              r.step = LastRead.step + 1 /\ r.rows = rts.smoothedKF.rows
                        /\ rts.transitionMatrix.cols = LastRead.rows
      BY DEF SmoothsStepByStep
    <2> DEFINE p == rts.startPos
               q == p - 1
    <2>1. Holds /\ file \in Seq(Record) /\ p \in 1 .. Len(file) + 1
      BY DEF ChainInv, IInv, Archive
    <2>2. q \in 1 .. Len(file) - 1 /\ q + 1 = p
      BY <2>1 DEF Holds
    <2>3. \A i \in 1 .. Len(file) - 1 : Link(file[i], file[i + 1])
      BY DEF ChainInv, Chain
    <2>4. Link(file[q], file[q + 1]) /\ LastRead = file[q]
      BY <2>2, <2>3 DEF LastRead
    <2>5. /\ file[p].type = "TRANSITION_MATRIX" /\ file[p].step = LastRead.step + 1
          /\ file[p].cols = LastRead.rows
      BY <2>2, <2>4 DEF Link
    <2>6. /\ Same(rts.smoothedKF, file[p]) /\ Same(rts.kalmanMinus, file[p])
          /\ rts.transitionMatrix = file[p]
      BY <2>1, <2>5 DEF Holds
    <2> HIDE DEF p, q
    <2> QED BY <2>5, <2>6 DEF Same
  <1>3. Spec => []ChainInv
    BY <1>1, Invariant, ChainNext, PTL DEF Spec
  <1> QED BY <1>2, <1>3, Invariant, PTL

-----------------------------------------------------------------------------
(* The lag, and how long the archive is.  Neither can be counted by         *)
(* induction over the records; but the steps of the records ascend and the  *)
(* states of an archive are of different steps, so that the last step less  *)
(* the first one counts them.                                               *)

OrderInv == Ordered(file) /\ (Filtering /\ kf.rtsFilterInProgress => file # << >>)

(* The last state of an archive, the states from its first record on, and   *)
(* the steps from there on, which may have ended without a state.           *)
LastState(s) ==
    IF s[Len(s)].type = "FILTER_PLUS" THEN s[Len(s)].step ELSE s[Len(s)].step - 1

States(s) == IF s = << >> THEN 0 ELSE LastState(s) - s[1].step + 1

Span(s) == IF s = << >> THEN 0 ELSE s[Len(s)].step - s[1].step + 1

LEMMA ElementIsRecord ==
  ASSUME NEW s \in Seq(Record)
  PROVE  /\ Len(s) \in Nat /\ DOMAIN s = 1 .. Len(s)
         /\ s # << >> <=> Len(s) >= 1
         /\ \A i \in 1 .. Len(s) : s[i] \in Record /\ s[i].step \in Nat
  <1>1. \A i \in 1 .. Len(s) : s[i] \in Record
    OBVIOUS
  <1>2. \A r \in Record : r.step \in Nat
    BY DEF Record
  <1>3. Len(s) \in Nat /\ DOMAIN s = 1 .. Len(s) /\ (s # << >> <=> Len(s) >= 1)
    <2>1. s = << >> <=> Len(s) = 0
      BY EmptySeq
    <2> QED BY <2>1
  <1> QED BY <1>1, <1>2, <1>3

LEMMA LinkSteps ==
  ASSUME NEW q \in Record, NEW r \in Record, Link(q, r)
  PROVE  q.step <= r.step /\ (q.type = "FILTER_PLUS" => q.step < r.step)
  <1>1. q.step \in Nat /\ r.step \in Nat
    BY DEF Record
  <1> QED BY <1>1 DEF Link, Same

LEMMA ConcatEnds ==
  ASSUME NEW q \in Seq(Record), NEW r \in Seq(Record), r # << >>
  PROVE  /\ q \o r \in Seq(Record) /\ q \o r # << >>
         /\ (q \o r)[Len(q \o r)] = r[Len(r)]
         /\ q # << >> => (q \o r)[1] = q[1]
         /\ q = << >> => (q \o r)[1] = r[1]
  <1>1. /\ q \o r \in Seq(Record) /\ Len(q \o r) = Len(q) + Len(r)
        /\ \A i \in 1 .. Len(q) + Len(r) : (q \o r)[i] = IF i <= Len(q) THEN q[i] ELSE r[i - Len(q)]
    BY ConcatProperties
  <1>2. /\ Len(q) \in Nat /\ Len(r) \in Nat /\ Len(r) >= 1
        /\ q # << >> => Len(q) >= 1
        /\ q = << >> => Len(q) = 0
    BY ElementIsRecord
  <1>3. 1 \in 1 .. Len(q) + Len(r) /\ 1 - 0 = 1
    BY <1>2
  <1>4. q # << >> => (q \o r)[1] = q[1]
    BY <1>1, <1>2, <1>3
  <1>5. q = << >> => (q \o r)[1] = r[1]
    BY <1>1, <1>2, <1>3
  <1> QED BY <1>1, <1>4, <1>5, LastOfConcat

LEMMA OrderedConcat ==
  ASSUME NEW q \in Seq(Record), NEW r \in Seq(Record), Ordered(q), Ordered(r),
         q # << >> /\ r # << >> => Link(q[Len(q)], r[1])
  PROVE  Ordered(q \o r)
  <1> DEFINE s == q \o r
             m == Len(q)
             n == Len(r)
  <1>1. /\ s \in Seq(Record) /\ Len(s) = m + n /\ m \in Nat /\ n \in Nat
        /\ \A i \in 1 .. m + n : s[i] = IF i <= m THEN q[i] ELSE r[i - m]
    BY ConcatProperties
  <1> SUFFICES ASSUME NEW i \in 1 .. m + n, NEW j \in 1 .. m + n, i < j
               PROVE  /\ s[i].step <= s[j].step
                      /\ s[i].type = "FILTER_PLUS" => s[i].step < s[j].step
    BY <1>1 DEF Ordered
  <1> HIDE DEF s
  <1>2. CASE j <= m
    <2>1. s[i] = q[i] /\ s[j] = q[j] /\ i \in 1 .. m /\ j \in 1 .. m
      BY <1>1, <1>2
    <2> QED BY <2>1 DEF Ordered
  <1>3. CASE i > m
    <2>1. s[i] = r[i - m] /\ s[j] = r[j - m] /\ i - m \in 1 .. n /\ j - m \in 1 .. n /\ i - m < j - m
      BY <1>1, <1>3
    <2> QED BY <2>1 DEF Ordered
  <1>4. CASE i <= m /\ j > m
    <2>1. s[i] = q[i] /\ s[j] = r[j - m] /\ i \in 1 .. m /\ j - m \in 1 .. n
      BY <1>1, <1>4
    <2>2. 1 \in 1 .. n /\ m \in 1 .. m /\ q # << >> /\ r # << >>
      BY <1>1, <1>4
    <2>3. /\ q[i] \in Record /\ q[m] \in Record /\ r[1] \in Record /\ r[j - m] \in Record
          /\ q[i].step \in Nat /\ q[m].step \in Nat /\ r[1].step \in Nat /\ r[j - m].step \in Nat
      BY <2>1, <2>2, ElementIsRecord
    <2>4. q[m].step <= r[1].step /\ (q[m].type = "FILTER_PLUS" => q[m].step < r[1].step)
      BY <2>2, <2>3, LinkSteps
    <2>5. q[i].step <= q[m].step /\ (q[i].type = "FILTER_PLUS" => i = m \/ q[i].step < q[m].step)
      <3>1. i = m \/ i < m
        BY <1>1, <1>4
      <3> QED BY <2>1, <2>2, <2>3, <3>1 DEF Ordered
    <2>6. r[1].step <= r[j - m].step
      <3>1. \A l \in 1 .. n : l = 1 \/ 1 < l
        BY <1>1
      <3> QED BY <2>1, <2>2, <2>3, <3>1 DEF Ordered
    <2> QED BY <2>1, <2>3, <2>4, <2>5, <2>6
  <1>5. j <= m \/ i > m \/ (i <= m /\ j > m)
    BY <1>1
  <1> QED BY <1>2, <1>3, <1>4, <1>5

(* A transition adds a step, and the state of an interrupted one.           *)
LEMMA TransitionSize ==
  ASSUME IInv, ChainInv, OrderInv, Filtering, Archiving,
         NEW f, Shaped(f), MatrixOf(f), SameStates(kf, f), NEW t \in Nat
  PROVE  LET s == file \o TransitionRecords(f, t)
         IN  /\ s \in Seq(Record) /\ s # << >> /\ Ordered(s)
             /\ States(s) <= States(file) + 1 /\ Span(s) = Span(file) + 1
  <1> DEFINE records == TransitionRecords(f, t)
             s == file \o records
             first == file[1]
             last == file[Len(file)]
  <1>1. /\ file \in Seq(Record) /\ records \in Seq(Record) /\ kf.step \in Nat /\ f.step = kf.step
        /\ f.rtsFilterInProgress = kf.rtsFilterInProgress
    BY TransitionRecordsType DEF IInv, Archive, Filters, MatrixOf, Shaped, FilterType, SameStates
  <1>2. /\ records # << >> /\ Ordered(records)
        /\ ~ f.rtsFilterInProgress => records[1].step = f.step + 1
        /\ records[Len(records)] =
               [type |-> "TRANSITION_MATRIX", step |-> f.step + 1, time |-> t,
                rows |-> DOMAIN f.stateTransitionMap, cols |-> DOMAIN f.kfIndexMap]
    BY TransitionChain
  <1>3. \A r : Ends(r, f) => Link(r, records[1])
    BY TransitionChain
  <1> HIDE DEF records
  <1>4. file # << >> => Ends(last, kf) /\ Ends(last, f)
    BY DEF ChainInv, Ends, SameStates
  <1>5. Ordered(s)
    BY <1>1, <1>2, <1>3, <1>4, OrderedConcat DEF OrderInv
  <1>6. /\ s \in Seq(Record) /\ s # << >> /\ s[Len(s)] = records[Len(records)]
        /\ file # << >> => s[1] = first
        /\ file = << >> => s[1] = records[1]
    BY <1>1, <1>2, ConcatEnds
  <1> HIDE DEF s
  <1>7. States(s) = (kf.step + 1) - 1 - s[1].step + 1 /\ Span(s) = (kf.step + 1) - s[1].step + 1
    <2>1. s[Len(s)].type = "TRANSITION_MATRIX" /\ s[Len(s)].step = kf.step + 1
      BY <1>1, <1>2, <1>6
    <2>2. LastState(s) = (kf.step + 1) - 1
      BY <2>1 DEF LastState
    <2>3. States(s) = LastState(s) - s[1].step + 1
      BY <1>6 DEF States
    <2>4. Span(s) = s[Len(s)].step - s[1].step + 1
      BY <1>6 DEF Span
    <2> QED BY <2>1, <2>2, <2>3, <2>4
  <1>8. CASE file = << >>
    <2>1. ~ kf.rtsFilterInProgress
      BY <1>8 DEF OrderInv
    <2>2. s[1].step = kf.step + 1 /\ States(file) = 0 /\ Span(file) = 0
      BY <1>1, <1>2, <1>6, <1>8, <2>1 DEF States, Span
    <2>3. States(s) = 0 /\ Span(s) = 1
      BY <1>1, <1>7, <2>2
    <2> QED BY <1>5, <1>6, <2>2, <2>3 DEF records, s
  <1>9. CASE file # << >>
    <2>1. s[1] = first /\ first.step \in Nat
      <3>1. 1 \in 1 .. Len(file)
        BY <1>1, <1>9, ElementIsRecord
      <3> QED BY <1>1, <1>6, <1>9, <3>1, ElementIsRecord
    <2>2. last.step = kf.step
      BY <1>4, <1>9 DEF Ends
    <2>3. Span(file) = kf.step - first.step + 1
      BY <1>9, <2>2 DEF Span
    <2>4. LastState(file) \in {kf.step, kf.step - 1}
      BY <2>2 DEF LastState
    <2>5. States(file) = LastState(file) - first.step + 1
      BY <1>9 DEF States
    <2> HIDE DEF first
    <2>6. States(s) <= States(file) + 1
      BY <1>1, <1>7, <2>1, <2>4, <2>5
    <2>7. Span(s) = Span(file) + 1
      BY <1>1, <1>7, <2>1, <2>3
    <2> QED BY <1>5, <1>6, <2>6, <2>7 DEF records, s
  <1> QED BY <1>8, <1>9

(* A filter adds a state.                                                   *)
LEMMA FilterSize ==
  ASSUME NEW q \in Seq(Record), q # << >>, Ordered(q),
         NEW minus \in Record, minus.type = "FILTER_MINUS", Link(q[Len(q)], minus),
         NEW plus \in Record, plus.type = "FILTER_PLUS", Link(minus, plus)
  PROVE  LET s == q \o << minus, plus >>
         IN  /\ s \in Seq(Record) /\ s # << >> /\ Ordered(s)
             /\ States(s) = States(q) + 1 /\ Span(s) = Span(q)
  <1> DEFINE r == << minus, plus >>
             s == q \o r
             first == q[1]
             last == q[Len(q)]
  <1>1. /\ r \in Seq(Record) /\ r # << >> /\ Len(r) = 2 /\ r[1] = minus /\ r[2] = plus
    OBVIOUS
  <1>2. /\ last.type = "TRANSITION_MATRIX" /\ last.step = minus.step /\ plus.step = minus.step
        /\ minus.step \in Nat
    BY DEF Link, Same, Record
  <1> HIDE DEF r
  <1>3. Ordered(r)
    BY <1>1, <1>2 DEF Ordered
  <1>4. Ordered(s)
    BY <1>1, <1>3, OrderedConcat
  <1>5. s \in Seq(Record) /\ s # << >> /\ s[Len(s)] = plus /\ s[1] = first
    BY <1>1, ConcatEnds
  <1>6. first.step \in Nat
    <2>1. 1 \in 1 .. Len(q)
      BY ElementIsRecord
    <2> QED BY <2>1, ElementIsRecord
  <1> HIDE DEF s
  <1>7. LastState(s) = minus.step /\ LastState(q) = minus.step - 1
    BY <1>2, <1>5 DEF LastState
  <1>8. /\ States(s) = minus.step - first.step + 1 /\ States(q) = minus.step - 1 - first.step + 1
        /\ Span(s) = minus.step - first.step + 1 /\ Span(q) = minus.step - first.step + 1
    BY <1>2, <1>5, <1>7 DEF States, Span
  <1> HIDE DEF first
  <1>9. States(s) = States(q) + 1 /\ Span(s) = Span(q)
    BY <1>2, <1>6, <1>8
  <1> QED BY <1>4, <1>5, <1>9 DEF s, r

LEMMA SizeTypes ==
  ASSUME NEW s \in Seq(Record)
  PROVE  States(s) \in Int /\ Span(s) \in Int /\ States(s) <= Span(s)
  <1>1. CASE s = << >>
    BY <1>1 DEF States, Span
  <1>2. CASE s # << >>
    <2> DEFINE a == s[1].step
               z == s[Len(s)].step
    <2>1. a \in Nat /\ z \in Nat
      <3>1. 1 \in 1 .. Len(s) /\ Len(s) \in 1 .. Len(s)
        BY <1>2, ElementIsRecord
      <3> QED BY <3>1, ElementIsRecord
    <2>2. LastState(s) \in {z, z - 1}
      BY DEF LastState
    <2>3. States(s) = LastState(s) - a + 1 /\ Span(s) = z - a + 1
      BY <1>2 DEF States, Span
    <2> HIDE DEF a, z
    <2> QED BY <2>1, <2>2, <2>3
  <1> QED BY <1>1, <1>2

(* Until the smoother has found a state it has read nothing but the matrix  *)
(* of an interrupted step, if that.                                         *)
NothingRead ==
    \/ rts.startPos = Len(file) + 1
    \/ rts.startPos = Len(file) /\ file[Len(file)].type = "TRANSITION_MATRIX"

(* The lag counts the states read.                                          *)
LagInv ==
    /\ pc = "rts" => options.rts_lag # 0
    /\ pc = "rts" /\ options.rts_lag > 0 =>
           /\ epoch > options.rts_lag
           /\ rts.lag <= options.rts_lag
           /\ IF rts.smoothedPready
              THEN rts.lag > 0 /\ rts.lag = LastState(file) - rts.smoothedKF.step + 1
              ELSE rts.lag = 0 /\ NothingRead

(* The archive is trimmed to the lag at the end of each epoch, and an epoch *)
(* adds its state and that of an interrupted one before it.                 *)
SizeInv ==
    options.rts_lag > 0 =>
        /\ States(file) <= options.rts_lag + 2
        /\ pc \in {"idle", "observe", "transition"} => States(file) <= options.rts_lag
        /\ pc \in {"lsq", "filter"} => States(file) <= options.rts_lag + 1

(* In the first epochs, in which there is no smoothing yet, no epoch has    *)
(* more than one step.                                                      *)
SpanInv ==
    options.rts_lag > 0 /\ epoch <= options.rts_lag =>
        /\ pc \in {"idle", "lsq", "filter"} => Span(file) <= epoch
        /\ pc \in {"observe", "transition"} => Span(file) + 1 <= epoch

LagsInv == OrderInv /\ LagInv /\ SizeInv /\ SpanInv

LEMMA LagTypes ==
  ASSUME IInv
  PROVE  /\ options.rts_lag \in Int /\ epoch \in Nat /\ file \in Seq(Record)
         /\ States(file) \in Int /\ Span(file) \in Int /\ States(file) <= Span(file)
  <1>1. options.rts_lag \in Int /\ epoch \in Nat /\ file \in Seq(Record)
    BY LimitsType DEF IInv, Control, Archive
  <1> QED BY <1>1, SizeTypes

LEMMA LagsInit == Init => LagsInv
  <1> SUFFICES ASSUME Init PROVE LagsInv
    OBVIOUS
  <1>1. file = << >> /\ pc = "idle" /\ epoch = 0 /\ kf = NewFilter
    BY DEF Init
  <1>2. ~ kf.rtsFilterInProgress
    BY <1>1 DEF NewFilter
  <1>3. States(file) = 0 /\ Span(file) = 0
    BY <1>1 DEF States, Span
  <1>4. Ordered(file)
    BY <1>1 DEF Ordered
  <1>5. options.rts_lag \in Int
    BY LimitsType DEF Init
  <1> QED BY <1>1, <1>2, <1>3, <1>4, <1>5 DEF LagsInv, OrderInv, LagInv, SizeInv, SpanInv

(* Steps that leave the archive as it is.                                   *)
LEMMA LagsSame ==
  ASSUME LagsInv, file' = file, options' = options, SpanInv',
         pc' \in {"idle", "observe", "transition"} => pc \in {"idle", "observe", "transition"},
         pc' \in {"lsq", "filter"} => pc \in {"lsq", "filter"},
         pc' = "rts" => options.rts_lag < 0, options.rts_lag \in Int,
         kf'.rtsFilterInProgress = kf.rtsFilterInProgress
  PROVE  LagsInv'
  <1>1. Filtering' => Filtering
    BY DEF Filtering
  <1>2. OrderInv'
    BY <1>1 DEF LagsInv, OrderInv
  <1>3. LagInv'
    BY DEF LagInv
  <1>4. SizeInv'
    BY DEF LagsInv, SizeInv
  <1> QED BY <1>2, <1>3, <1>4 DEF LagsInv

LEMMA LagsEpochs ==
  ASSUME IInv, LagsInv,
         \/ SkipEpoch
         \/ \E S \in SUBSET Signals : BeginEpoch(S)
         \/ \E S \in SUBSET Common : AddMeasurements(S)
         \/ InitialiseStates
  PROVE  LagsInv'
  <1>1. options.rts_lag \in Int /\ epoch \in Nat /\ Span(file) \in Int
    BY LagTypes
  <1>2. CASE SkipEpoch
    <2>1. /\ file' = file /\ options' = options /\ pc = "idle" /\ pc' = "idle" /\ kf' = kf
          /\ epoch' = epoch + 1
      BY <1>2 DEF SkipEpoch, NextEpoch
    <2>2. SpanInv'
      BY <1>1, <2>1 DEF LagsInv, SpanInv
    <2> QED BY <1>1, <2>1, <2>2, LagsSame
  <1>3. CASE \E S \in SUBSET Signals : BeginEpoch(S)
    <2>1. /\ file' = file /\ options' = options /\ pc = "idle" /\ pc' = "observe"
          /\ epoch' = epoch + 1
      BY <1>3 DEF BeginEpoch, NextEpoch
    <2>2. kf'.rtsFilterInProgress = kf.rtsFilterInProgress
      BY <1>3, BeginKeeps DEF SameStates
    <2>3. SpanInv'
      BY <1>1, <2>1 DEF LagsInv, SpanInv
    <2> QED BY <1>1, <2>1, <2>2, <2>3, LagsSame
  <1>4. CASE \E S \in SUBSET Common : AddMeasurements(S)
    <2>1. /\ file' = file /\ options' = options /\ pc = "observe" /\ pc' = "transition"
          /\ epoch' = epoch
      BY <1>4 DEF AddMeasurements
    <2>2. kf'.rtsFilterInProgress = kf.rtsFilterInProgress
      BY <1>4, AddKeeps DEF SameStates
    <2>3. SpanInv'
      BY <1>1, <2>1 DEF LagsInv, SpanInv
    <2> QED BY <1>1, <2>1, <2>2, <2>3, LagsSame
  <1>5. CASE InitialiseStates
    <2>1. /\ file' = file /\ options' = options /\ pc = "lsq" /\ pc' = "filter"
          /\ epoch' = epoch
      BY <1>5 DEF InitialiseStates
    <2>2. kf'.rtsFilterInProgress = kf.rtsFilterInProgress
      BY <1>5, InitialiseKeeps
    <2>3. SpanInv'
      BY <1>1, <2>1 DEF LagsInv, SpanInv
    <2> QED BY <1>1, <2>1, <2>2, <2>3, LagsSame
  <1> QED BY <1>2, <1>3, <1>4, <1>5

(* The end of an epoch, with what was added to the archive in it.           *)
LEMMA LagsEndOfEpoch ==
  ASSUME IInv, EndOfEpoch, file' \in Seq(Record), options' = options, epoch' = epoch,
         options.rts_lag > 0 => States(file') <= options.rts_lag + 2,
         options.rts_lag > 0 /\ epoch <= options.rts_lag => Span(file') <= epoch
  PROVE  LagInv' /\ SizeInv' /\ SpanInv'
  <1>1. options.rts_lag \in Int /\ epoch \in Nat
    BY LagTypes
  <1>2. States(file') \in Int /\ Span(file') \in Int /\ States(file') <= Span(file')
    <2>1. PICK s \in Seq(Record) : s = file'
      OBVIOUS
    <2> QED BY <2>1, SizeTypes
  <1>3. States(file)' = States(file') /\ Span(file)' = Span(file')
    OBVIOUS
  <1>4. CASE Smoothing
    <2>1. /\ pc' = "rts" /\ rts' = [NoSmoothing EXCEPT !.startPos = Len(file') + 1]
          /\ options.rts_lag > 0 /\ epoch > options.rts_lag
      BY <1>4 DEF EndOfEpoch, Smoothing
    <2>2. rts'.startPos = Len(file') + 1 /\ rts'.lag = 0 /\ ~ rts'.smoothedPready
      BY <2>1 DEF NoSmoothing
    <2>3. LagInv'
      BY <1>1, <2>1, <2>2 DEF LagInv, NothingRead
    <2>4. SizeInv' /\ SpanInv'
      BY <1>1, <1>2, <1>3, <2>1 DEF SizeInv, SpanInv
    <2> QED BY <2>3, <2>4
  <1>5. CASE ~ Smoothing
    <2>1. pc' = "idle" /\ (options.rts_lag > 0 => epoch <= options.rts_lag)
      BY <1>1, <1>5 DEF EndOfEpoch, Smoothing
    <2>2. LagInv'
      BY <2>1 DEF LagInv
    <2>3. options.rts_lag > 0 => States(file') <= options.rts_lag
      BY <1>1, <1>2, <2>1
    <2>4. SizeInv' /\ SpanInv'
      BY <1>1, <1>2, <1>3, <2>1, <2>3 DEF SizeInv, SpanInv
    <2> QED BY <2>2, <2>4
  <1> QED BY <1>4, <1>5

LEMMA LagsTransition == ASSUME IInv, ChainInv, LagsInv, Transition PROVE LagsInv'
  <1> DEFINE records == TransitionRecords(kf, now)
  <1>1. /\ pc = "transition" /\ Transit(kf, now) /\ options' = options /\ epoch' = epoch
        /\ Shaped(kf) /\ MatrixOf(kf) /\ now \in Nat
        /\ file' = file \o (IF Archiving THEN records ELSE << >>)
    BY LimitsType DEF IInv, Filters, Control, Transition, Transit, Archived
  <1>2. /\ options.rts_lag \in Int /\ epoch \in Nat /\ file \in Seq(Record)
        /\ States(file) \in Int /\ Span(file) \in Int
    BY LagTypes
  <1>3. kf'.rtsFilterInProgress = Archiving /\ SameStates(kf, kf)
    BY <1>1, TransitKeeps DEF SameStates
  <1>4. /\ file' \in Seq(Record) /\ Ordered(file') /\ (Archiving => file' # << >>)
        /\ options.rts_lag > 0 =>
               States(file') <= States(file) + 1 /\ Span(file') = Span(file) + 1
    <2>1. CASE Archiving
      <3>1. /\ file \o records \in Seq(Record) /\ file \o records # << >> /\ Ordered(file \o records)
            /\ States(file \o records) <= States(file) + 1
            /\ Span(file \o records) = Span(file) + 1
        BY <1>1, <1>3, <2>1, TransitionSize DEF LagsInv, Filtering
      <3>2. file' = file \o records
        BY <1>1, <2>1
      <3> QED BY <3>1, <3>2
    <2>2. CASE ~ Archiving
      <3>1. file' = file
        BY <1>1, <1>2, <2>2, ConcatEmptySeq
      <3>2. options.rts_lag = 0
        BY <2>2 DEF Archiving
      <3> QED BY <1>2, <2>2, <3>1, <3>2 DEF LagsInv, OrderInv
    <2> QED BY <2>1, <2>2
  <1>5. PICK n \in Int : n = States(file')
    <2>1. PICK s \in Seq(Record) : s = file'
      BY <1>4
    <2> QED BY <2>1, SizeTypes
  <1>6. options.rts_lag > 0 => n <= options.rts_lag + 1
    BY <1>1, <1>2, <1>4, <1>5 DEF LagsInv, SizeInv
  <1>7. options.rts_lag > 0 /\ epoch <= options.rts_lag => Span(file') <= epoch
    BY <1>1, <1>2, <1>4 DEF LagsInv, SpanInv
  <1>8. OrderInv'
    BY <1>3, <1>4 DEF OrderInv
  <1>9. CASE \E s \in observed : StationOf[s] = Pivot
    <2>1. pc' = "lsq"
      BY <1>9 DEF Transition
    <2>2. LagInv'
      BY <2>1 DEF LagInv
    <2>3. options.rts_lag > 0 => States(file') <= options.rts_lag + 1 /\ States(file') <= options.rts_lag + 2
      BY <1>2, <1>5, <1>6
    <2>4. SizeInv'
      BY <1>1, <2>1, <2>3 DEF SizeInv
    <2>5. SpanInv'
      BY <1>1, <1>7, <2>1 DEF SpanInv
    <2> QED BY <1>8, <2>2, <2>4, <2>5 DEF LagsInv
  <1>10. CASE ~ \E s \in observed : StationOf[s] = Pivot
    <2>1. EndOfEpoch
      BY <1>10 DEF Transition
    <2>2. options.rts_lag > 0 => States(file') <= options.rts_lag + 2
      BY <1>2, <1>5, <1>6
    <2>3. LagInv' /\ SizeInv' /\ SpanInv'
      BY <1>1, <1>4, <1>7, <2>1, <2>2, LagsEndOfEpoch
    <2> QED BY <1>8, <2>3 DEF LagsInv
  <1> QED BY <1>9, <1>10

LEMMA LagsFilter ==
  ASSUME IInv, ChainInv, LagsInv, NEW R \in SUBSET observed, Filter(R)
  PROVE  LagsInv'
  <1> DEFINE minus == FilterRecord("FILTER_MINUS", kf)
             plus == FilterRecord("FILTER_PLUS", kf')
             records == << minus, plus >>
  <1>1. /\ Shaped(kf) /\ Shaped(kf') /\ SameMatrix(kf, kf') /\ kf'.rtsFilterInProgress = FALSE
        /\ pc = "filter" /\ options' = options /\ epoch' = epoch /\ EndOfEpoch
        /\ file' = file \o (IF Archiving THEN records ELSE << >>)
    BY FilterKeeps DEF IInv, Filters, Filter, Archived
  <1>2. /\ options.rts_lag \in Int /\ epoch \in Nat /\ file \in Seq(Record)
        /\ States(file) \in Int /\ Span(file) \in Int
    BY LagTypes
  <1>3. /\ minus \in Record /\ plus \in Record
        /\ minus.type = "FILTER_MINUS" /\ minus.step = kf.step /\ minus.rows = DOMAIN kf.kfIndexMap
        /\ plus.type = "FILTER_PLUS" /\ plus.step = kf.step /\ plus.rows = DOMAIN kf.kfIndexMap
    BY <1>1, FilterRecordType DEF FilterRecord, SameMatrix
  <1> HIDE DEF minus, plus
  <1>4. /\ file' \in Seq(Record) /\ Ordered(file')
        /\ options.rts_lag > 0 => States(file') = States(file) + 1 /\ Span(file') = Span(file)
    <2>1. CASE Archiving
      <3>1. file # << >> /\ Ends(file[Len(file)], kf) /\ kf.rtsFilterInProgress
        BY <1>1, <2>1 DEF ChainInv, Filtering
      <3>2. Link(file[Len(file)], minus) /\ Link(minus, plus)
        BY <1>3, <3>1 DEF Ends, Link, Same
      <3>3. /\ file \o records \in Seq(Record) /\ Ordered(file \o records)
            /\ States(file \o records) = States(file) + 1 /\ Span(file \o records) = Span(file)
        BY <1>2, <1>3, <3>1, <3>2, FilterSize DEF LagsInv, OrderInv
      <3>4. file' = file \o records
        BY <1>1, <2>1
      <3> QED BY <3>3, <3>4
    <2>2. CASE ~ Archiving
      <3>1. file' = file
        BY <1>1, <1>2, <2>2, ConcatEmptySeq
      <3>2. options.rts_lag = 0
        BY <2>2 DEF Archiving
      <3> QED BY <1>2, <3>1, <3>2 DEF LagsInv, OrderInv
    <2> QED BY <2>1, <2>2
  <1>5. options.rts_lag > 0 => States(file') <= options.rts_lag + 2
    BY <1>1, <1>2, <1>4 DEF LagsInv, SizeInv
  <1>6. options.rts_lag > 0 /\ epoch <= options.rts_lag => Span(file') <= epoch
    BY <1>1, <1>2, <1>4 DEF LagsInv, SpanInv
  <1>7. LagInv' /\ SizeInv' /\ SpanInv'
    BY <1>1, <1>4, <1>5, <1>6, LagsEndOfEpoch
  <1>8. OrderInv'
    BY <1>1, <1>4 DEF OrderInv
  <1> QED BY <1>7, <1>8 DEF LagsInv

LEMMA LagsMinimum == ASSUME IInv, ChainInv, LagsInv, MinimumConstraints PROVE LagsInv'
  <1> DEFINE f == InitFilterEpoch(kf)
             g == [StateTransition(f, NoTime) EXCEPT !.rtsFilterInProgress = Archiving]
             first == TransitionRecords(f, NoTime)
             minus == FilterRecord("FILTER_MINUS", g)
             plus == FilterRecord("FILTER_PLUS", kf')
             last == << minus, plus >>
             D == DOMAIN kf.kfIndexMap
  <1>1. /\ pc = "idle" /\ pc' = "post" /\ options' = options
        /\ NoTime \in Nat /\ Archiving \in BOOLEAN
        /\ file' = file \o (IF Archiving THEN first \o last ELSE << >>)
    BY DEF MinimumConstraints, Archiving, NoTime, Archived
  <1>2. /\ Shaped(f) /\ MatrixOf(f) /\ KeepsStates(f) /\ SameStates(kf, f)
        /\ DOMAIN f.stateTransitionMap = D
    BY InitFilterEpochKeeps DEF IInv, Filters
  <1>3. /\ Shaped(kf') /\ kf'.step = kf.step + 1 /\ DOMAIN kf'.kfIndexMap = D
    BY MinimumKeeps
  <1> HIDE DEF f
  <1>4. /\ Shaped(StateTransition(f, NoTime)) /\ DOMAIN StateTransition(f, NoTime).kfIndexMap = D
        /\ StateTransition(f, NoTime).step = kf.step + 1
    BY <1>1, <1>2, TransitionFields DEF SameStates
  <1>5. Shaped(g) /\ DOMAIN g.kfIndexMap = D /\ g.step = kf.step + 1
    BY <1>1, <1>4, FlagKeeps DEF SameMatrix
  <1> HIDE DEF g
  <1>6. /\ minus \in Record /\ plus \in Record
        /\ minus.type = "FILTER_MINUS" /\ minus.step = kf.step + 1 /\ minus.rows = D
        /\ plus.type = "FILTER_PLUS" /\ plus.step = kf.step + 1 /\ plus.rows = D
    BY <1>3, <1>5, FilterRecordType DEF FilterRecord
  <1>7. /\ options.rts_lag \in Int /\ file \in Seq(Record) /\ States(file) \in Int
    BY LagTypes
  <1>8. first \in Seq(Record) /\ first # << >>
    BY <1>1, <1>2, TransitionRecordsType, TransitionChain DEF MatrixOf
  <1>9. first[Len(first)] = [type |-> "TRANSITION_MATRIX", step |-> f.step + 1,
                             time |-> NoTime, rows |-> D, cols |-> DOMAIN f.kfIndexMap]
    BY <1>1, <1>2, TransitionChain
  <1>10. Archiving => LET s == file \o first
                      IN  /\ s \in Seq(Record) /\ s # << >> /\ Ordered(s)
                          /\ States(s) <= States(file) + 1
    BY <1>1, <1>2, TransitionSize DEF LagsInv, Filtering
  <1> HIDE DEF first, minus, plus
  <1>11. Link(first[Len(first)], minus) /\ Link(minus, plus)
    BY <1>2, <1>6, <1>9 DEF Link, Same, SameStates
  <1>12. Ordered(file') /\ (options.rts_lag > 0 => States(file') <= States(file) + 2)
    <2>1. CASE Archiving
      <3> DEFINE s == file \o first
      <3>1. s \in Seq(Record) /\ s # << >> /\ Ordered(s) /\ States(s) <= States(file) + 1
        BY <1>10, <2>1
      <3>2. s[Len(s)] = first[Len(first)]
        BY <1>7, <1>8, LastOfConcat
      <3>3. last \in Seq(Record)
        BY <1>6
      <3>4. file' = s \o last
        BY <1>1, <1>7, <1>8, <2>1, <3>3, ConcatAssociative
      <3> HIDE DEF s
      <3>5. Ordered(s \o last) /\ States(s \o last) = States(s) + 1
        BY <1>6, <1>11, <3>1, <3>2, FilterSize
      <3>6. States(s) \in Int
        BY <3>1, SizeTypes
      <3>7. States(s \o last) <= States(file) + 2
        BY <1>7, <3>1, <3>5, <3>6
      <3> QED BY <3>4, <3>5, <3>7
    <2>2. CASE ~ Archiving
      <3>1. file' = file
        BY <1>1, <1>7, <2>2, ConcatEmptySeq
      <3>2. options.rts_lag = 0
        BY <2>2 DEF Archiving
      <3> QED BY <1>7, <3>1, <3>2 DEF LagsInv, OrderInv
    <2> QED BY <2>1, <2>2
  <1>13. PICK n \in Int : n = States(file')
    <2>1. file' \in Seq(Record)
      <3>1. last \in Seq(Record)
        BY <1>6
      <3> QED BY <1>1, <1>7, <1>8, <3>1, ConcatProperties, ConcatEmptySeq
    <2>2. PICK s \in Seq(Record) : s = file'
      BY <2>1
    <2> QED BY <2>2, SizeTypes
  <1>14. options.rts_lag > 0 => n <= options.rts_lag + 2
    BY <1>1, <1>7, <1>12, <1>13 DEF LagsInv, SizeInv
  <1>15. OrderInv' /\ LagInv' /\ SpanInv'
    BY <1>1, <1>12 DEF OrderInv, LagInv, SpanInv, Filtering
  <1>16. SizeInv'
    BY <1>1, <1>13, <1>14 DEF SizeInv
  <1> QED BY <1>15, <1>16 DEF LagsInv

(* A state that is read becomes the smoothed one, and is of the step before *)
(* the one smoothed last.                                                   *)
LEMMA StateRead ==
  ASSUME IInv, ChainInv, RtsRead, ReadPlus
  PROVE  /\ LastRead.type = "FILTER_PLUS"
         /\ rts'.smoothedKF = LastRead /\ rts'.smoothedPready
         /\ rts'.lag = rts.lag + 1 /\ rts'.startPos = rts.startPos - 1
         /\ rts.smoothedPready => rts.smoothedKF.step = LastRead.step + 1
         /\ backward' = IF options.rts_lag > 0 THEN backward ELSE Append(backward, LastRead)
  <1>1. /\ pc = "rts" /\ rts.startPos > 1 /\ rts \in SmoothingLocals
        /\ LastRead.type = "FILTER_PLUS"
    BY DEF RtsRead, ReadPlus, IInv, Archive
  <1>2. rts.smoothedPready => rts.smoothedXready /\ rts.smoothedKF.step = LastRead.step + 1
    <2> SUFFICES ASSUME rts.smoothedPready
                 PROVE  rts.smoothedXready /\ rts.smoothedKF.step = LastRead.step + 1
      OBVIOUS
    <2>1. Holds /\ Link(LastRead, file[rts.startPos])
      BY <1>1, ReadFollows
    <2>2. /\ file[rts.startPos].type = "TRANSITION_MATRIX"
          /\ file[rts.startPos].step = LastRead.step + 1
      BY <1>1, <2>1 DEF Link
    <2> QED BY <2>1, <2>2 DEF Holds, Same
  <1>3. rts' = [rts EXCEPT !.startPos = rts.startPos - 1, !.lag = rts.lag + 1,
                           !.smoothedPready = TRUE, !.smoothedKF = LastRead]
    BY <1>2 DEF ReadPlus
  <1>4. backward' = IF options.rts_lag > 0 THEN backward ELSE Append(backward, LastRead)
    BY <1>2 DEF ReadPlus
  <1>5. /\ rts'.smoothedKF = LastRead /\ rts'.smoothedPready
        /\ rts'.lag = rts.lag + 1 /\ rts'.startPos = rts.startPos - 1
    BY <1>1, <1>3 DEF SmoothingLocals
  <1> QED BY <1>1, <1>2, <1>4, <1>5

LEMMA OtherRead ==
  ASSUME IInv, RtsRead, ~ ReadPlus
  PROVE  /\ LastRead.type \in {"TRANSITION_MATRIX", "FILTER_MINUS"}
         /\ rts'.smoothedKF = rts.smoothedKF /\ rts'.smoothedPready = rts.smoothedPready
         /\ rts'.lag = rts.lag /\ rts'.startPos = rts.startPos - 1
         /\ backward' = backward
  <1>1. rts \in SmoothingLocals
    BY DEF IInv, Archive
  <1>2. CASE ReadMatrix
    BY <1>1, <1>2 DEF ReadMatrix, SmoothingLocals
  <1>3. CASE ReadMinus
    BY <1>1, <1>3 DEF ReadMinus, SmoothingLocals
  <1> QED BY <1>2, <1>3 DEF RtsRead

LEMMA LagsRead == ASSUME IInv, ChainInv, LagsInv, RtsRead PROVE LagsInv'
  <1> DEFINE p == rts.startPos
             n == Len(file)
  <1>1. /\ pc = "rts" /\ pc' = "rts" /\ file' = file /\ kf' = kf /\ options' = options
        /\ epoch' = epoch /\ rts.lag # options.rts_lag /\ p > 1
        /\ file \in Seq(Record) /\ p \in Nat /\ rts.lag \in Nat /\ n \in Nat
    BY DEF RtsRead, estimation, IInv, Archive, SmoothingLocals
  <1>2. options.rts_lag \in Int
    BY LagTypes
  <1>3. OrderInv' /\ SizeInv' /\ SpanInv'
    BY <1>1 DEF LagsInv, OrderInv, SizeInv, SpanInv, Filtering
  <1>4. LagInv'
    <2> SUFFICES ASSUME options.rts_lag > 0
                 PROVE  /\ rts'.lag <= options.rts_lag
                        /\ IF rts'.smoothedPready
                           THEN rts'.lag > 0 /\ rts'.lag = LastState(file) - rts'.smoothedKF.step + 1
                           ELSE rts'.lag = 0 /\ NothingRead'
      BY <1>1 DEF LagsInv, LagInv
    <2>1. /\ rts.lag <= options.rts_lag
          /\ rts.smoothedPready =>
                 rts.lag > 0 /\ rts.lag = LastState(file) - rts.smoothedKF.step + 1
          /\ ~ rts.smoothedPready => rts.lag = 0 /\ NothingRead
      BY <1>1 DEF LagsInv, LagInv
    (* The record read, where nothing but a matrix was read before.         *)
    <2>2. ~ rts.smoothedPready =>
              \/ p = n + 1 /\ LastRead = file[n] /\ LastRead.type # "FILTER_MINUS"
              \/ /\ p = n /\ file[n].type = "TRANSITION_MATRIX"
                 /\ LastRead.type = "FILTER_PLUS" /\ file[n].step = LastRead.step + 1
      <3> SUFFICES ASSUME NothingRead
                   PROVE  \/ p = n + 1 /\ LastRead = file[n] /\ LastRead.type # "FILTER_MINUS"
                          \/ /\ p = n /\ file[n].type = "TRANSITION_MATRIX"
                             /\ LastRead.type = "FILTER_PLUS" /\ file[n].step = LastRead.step + 1
        BY <2>1
      <3>1. n >= 1 /\ file # << >>
        <4>1. n >= 1
          BY <1>1 DEF NothingRead
        <4> QED BY <1>1, <4>1, ElementIsRecord
      <3>2. Ends(file[n], kf)
        BY <1>1, <3>1 DEF ChainInv, Filtering
      <3>3. CASE p = n + 1
        <4>1. p - 1 = n
          BY <1>1, <3>3
        <4>2. LastRead = file[n]
          BY <4>1 DEF LastRead
        <4> QED BY <3>2, <3>3, <4>2 DEF Ends
      <3>4. CASE p = n /\ file[n].type = "TRANSITION_MATRIX"
        <4>1. p - 1 \in 1 .. n - 1 /\ (p - 1) + 1 = n
          BY <1>1, <3>4
        <4>2. Link(file[p - 1], file[(p - 1) + 1])
          BY <4>1 DEF ChainInv, Chain
        <4>3. Link(LastRead, file[n])
          BY <4>1, <4>2 DEF LastRead
        <4> QED BY <3>4, <4>3 DEF Link
      <3> QED BY <3>3, <3>4 DEF NothingRead
    <2>3. LastRead.step \in Nat
      <3>1. p - 1 \in 1 .. n
        BY <1>1 DEF IInv, Archive
      <3> QED BY <1>1, <3>1, ElementIsRecord DEF LastRead
    <2>4. CASE ReadPlus
      <3>1. /\ LastRead.type = "FILTER_PLUS" /\ rts'.smoothedKF = LastRead /\ rts'.smoothedPready
            /\ rts'.lag = rts.lag + 1
            /\ rts.smoothedPready => rts.smoothedKF.step = LastRead.step + 1
        BY <2>4, StateRead
      <3>2. rts'.lag > 0 /\ rts'.lag <= options.rts_lag
        BY <1>1, <1>2, <2>1, <3>1
      <3>3. CASE rts.smoothedPready
        <4>1. rts.lag = LastState(file) - (LastRead.step + 1) + 1
          BY <2>1, <3>1, <3>3
        <4>2. LastState(file) \in Int
          BY <2>3, <1>1, <3>3, ReadFollows, ElementIsRecord DEF LastState
        <4>3. rts.lag + 1 = LastState(file) - LastRead.step + 1
          BY <1>1, <2>3, <4>1, <4>2
        <4> QED BY <3>1, <3>2, <4>3
      <3>4. CASE ~ rts.smoothedPready
        <4>1. LastState(file) = LastRead.step
          BY <1>1, <2>2, <2>3, <3>1, <3>4 DEF LastState
        <4>2. rts.lag + 1 = LastState(file) - LastRead.step + 1
          BY <2>1, <2>3, <3>4, <4>1
        <4> QED BY <3>1, <3>2, <4>2
      <3> QED BY <3>3, <3>4
    <2>5. CASE ~ ReadPlus
      <3>1. /\ LastRead.type \in {"TRANSITION_MATRIX", "FILTER_MINUS"}
            /\ rts'.smoothedKF = rts.smoothedKF /\ rts'.smoothedPready = rts.smoothedPready
            /\ rts'.lag = rts.lag /\ rts'.startPos = p - 1
        BY <2>5, OtherRead
      <3>2. CASE rts.smoothedPready
        BY <2>1, <3>1, <3>2
      <3>3. CASE ~ rts.smoothedPready
        <4>1. p = n + 1 /\ file[n].type = "TRANSITION_MATRIX"
          BY <2>2, <3>1, <3>3
        <4>2. rts'.startPos = Len(file')
          BY <1>1, <3>1, <4>1
        <4>3. NothingRead'
          BY <1>1, <4>1, <4>2 DEF NothingRead
        <4> QED BY <2>1, <3>1, <3>3, <4>3
      <3> QED BY <3>2, <3>3
    <2> QED BY <2>4, <2>5
  <1> QED BY <1>3, <1>4 DEF LagsInv

LEMMA RestOfFile ==
  ASSUME NEW s \in Seq(Record), NEW p \in 1 .. Len(s)
  PROVE  LET rest == SubSeq(s, p, Len(s))
         IN  /\ rest \in Seq(Record) /\ rest # << >> /\ Len(rest) = Len(s) - p + 1
             /\ \A i \in 1 .. Len(s) - p + 1 : rest[i] = s[p + i - 1]
             /\ rest[1] = s[p] /\ rest[Len(rest)] = s[Len(s)]
  <1> DEFINE n == Len(s)
             rest == SubSeq(s, p, n)
  <1>1. n \in Nat /\ p \in Int /\ n \in Int /\ p <= n /\ \A i \in p .. n : s[i] \in Record
    BY ElementIsRecord
  <1> HIDE DEF n
  <1>2. /\ rest \in Seq(Record) /\ Len(rest) = n - p + 1
        /\ \A i \in 1 .. n - p + 1 : rest[i] = s[p + i - 1]
    BY <1>1, SubSeqProperties
  <1> HIDE DEF rest
  <1>3. /\ 1 \in 1 .. n - p + 1 /\ p + 1 - 1 = p
        /\ n - p + 1 \in 1 .. n - p + 1 /\ p + (n - p + 1) - 1 = n
    BY <1>1
  <1>4. rest[1] = s[p] /\ rest[n - p + 1] = s[n]
    BY <1>2, <1>3
  <1>5. rest # << >>
    BY <1>2, <1>3, ElementIsRecord
  <1> QED BY <1>2, <1>4, <1>5 DEF n, rest

LEMMA LagsEnd == ASSUME IInv, ChainInv, LagsInv, RtsEnd PROVE LagsInv'
  <1> DEFINE p == rts.startPos
             n == Len(file)
             L == options.rts_lag
             rest == SubSeq(file, p, n)
  <1>1. /\ pc = "rts" /\ kf' = kf /\ options' = options /\ epoch' = epoch
        /\ file \in Seq(Record) /\ p \in 1 .. n + 1 /\ n \in Nat /\ rts.lag \in Nat
        /\ pc' = (IF L > 0 THEN "idle" ELSE "stopped")
        /\ rts.lag = L \/ p = 1
        /\ file' = IF rts.lag = L THEN rest ELSE file
    BY DEF IInv, Archive, RtsEnd, estimation, SmoothingLocals
  <1>2. L \in Int /\ L # 0 /\ epoch \in Nat
    BY <1>1, LagTypes DEF LagsInv, LagInv
  <1>3. CASE L < 0
    <2>1. file' = file /\ pc' = "stopped"
      BY <1>1, <1>2, <1>3
    <2>2. OrderInv' /\ LagInv' /\ SizeInv' /\ SpanInv'
      BY <1>1, <1>2, <1>3, <2>1 DEF LagsInv, OrderInv, LagInv, SizeInv, SpanInv, Filtering
    <2> QED BY <2>2 DEF LagsInv
  <1>4. CASE L > 0
    <2>1. /\ pc' = "idle" /\ epoch > L /\ rts.lag <= L /\ Filtering
          /\ rts.smoothedPready => rts.lag > 0 /\ rts.lag = LastState(file) - rts.smoothedKF.step + 1
          /\ ~ rts.smoothedPready => rts.lag = 0 /\ NothingRead
      BY <1>1, <1>4 DEF LagsInv, LagInv, Filtering
    <2>2. rts.smoothedPready => p <= n /\ Same(rts.smoothedKF, file[p])
      BY <1>1 DEF ChainInv, Holds
    <2>3. /\ Ordered(file') /\ States(file') <= L
          /\ kf.rtsFilterInProgress => file' # << >>
      <3>1. CASE rts.lag = L
        <4>1. rts.smoothedPready /\ p \in 1 .. n /\ file' = rest
          BY <1>1, <1>2, <1>4, <2>1, <2>2, <3>1
        <4>2. /\ rest \in Seq(Record) /\ rest # << >> /\ Len(rest) = n - p + 1
              /\ \A i \in 1 .. n - p + 1 : rest[i] = file[p + i - 1]
              /\ rest[1] = file[p] /\ rest[Len(rest)] = file[n]
          BY <1>1, <4>1, RestOfFile
        <4> HIDE DEF rest
        <4>3. Ordered(rest)
          <5> SUFFICES ASSUME NEW i \in 1 .. n - p + 1, NEW j \in 1 .. n - p + 1, i < j
                       PROVE  /\ rest[i].step <= rest[j].step
                              /\ rest[i].type = "FILTER_PLUS" => rest[i].step < rest[j].step
            BY <4>2 DEF Ordered
          <5> DEFINE k == p + i - 1
                     l == p + j - 1
          <5> HIDE DEF p, n
          <5>1. k \in 1 .. n /\ l \in 1 .. n /\ k < l
            BY <1>1, <4>1
          <5>2. rest[i] = file[k] /\ rest[j] = file[l]
            BY <4>2
          <5> HIDE DEF k, l
          <5> QED BY <5>1, <5>2 DEF LagsInv, OrderInv, Ordered, n
        <4>4. LastState(rest) = LastState(file)
          BY <4>2 DEF LastState
        <4>5. States(rest) = LastState(file) - rts.smoothedKF.step + 1
          BY <2>2, <4>1, <4>2, <4>4 DEF States, Same
        <4> QED BY <1>2, <2>1, <3>1, <4>1, <4>2, <4>3, <4>5
      <3>2. CASE rts.lag # L
        <4>1. p = 1 /\ file' = file
          BY <1>1, <3>2
        <4>2. Ordered(file) /\ (kf.rtsFilterInProgress => file # << >>)
          BY <2>1 DEF LagsInv, OrderInv
        <4>3. CASE rts.smoothedPready
          <5>1. file # << >>
            BY <1>1, <2>2, <4>1, <4>3, ElementIsRecord
          <5>2. States(file) = rts.lag
            BY <2>1, <2>2, <4>1, <4>3, <5>1 DEF States, Same
          <5> QED BY <2>1, <4>1, <4>2, <5>2
        <4>4. CASE ~ rts.smoothedPready
          <5>1. n = 0 \/ (n = 1 /\ file[1].type = "TRANSITION_MATRIX")
            BY <1>1, <2>1, <4>1, <4>4 DEF NothingRead
          <5>2. CASE n = 0
            <6>1. file = << >>
              BY <1>1, <5>2, ElementIsRecord
            <6>2. States(file) = 0
              BY <6>1 DEF States
            <6> QED BY <1>2, <1>4, <4>1, <4>2, <6>2
          <5>3. CASE n = 1 /\ file[1].type = "TRANSITION_MATRIX"
            <6>1. file # << >> /\ file[1].step \in Nat
              BY <1>1, <5>3, ElementIsRecord
            <6>2. LastState(file) = file[1].step - 1
              BY <5>3 DEF LastState
            <6>3. States(file) = file[1].step - 1 - file[1].step + 1
              BY <6>1, <6>2 DEF States
            <6>4. States(file) = 0
              BY <6>1, <6>3
            <6> QED BY <1>2, <1>4, <4>1, <4>2, <6>4
          <5> QED BY <5>1, <5>2, <5>3
        <4> QED BY <4>3, <4>4
      <3> QED BY <3>1, <3>2
    <2>4. file' \in Seq(Record)
      BY <1>1, <2>2, <2>1, <1>2, <1>4, RestOfFile
    <2>5. PICK k \in Int : k = States(file')
      <3>1. PICK s \in Seq(Record) : s = file'
        BY <2>4
      <3> QED BY <3>1, SizeTypes
    <2>6. k <= L /\ k <= L + 2
      BY <1>2, <2>3, <2>5
    <2>7. OrderInv'
      BY <1>1, <2>3 DEF OrderInv
    <2>8. LagInv' /\ SpanInv'
      BY <1>1, <1>2, <2>1 DEF LagInv, SpanInv
    <2>9. SizeInv'
      BY <1>1, <2>1, <2>5, <2>6 DEF SizeInv
    <2> QED BY <2>7, <2>8, <2>9 DEF LagsInv
  <1> QED BY <1>2, <1>3, <1>4

LEMMA LagsNext == IInv /\ ChainInv /\ LagsInv /\ [Next]_vars => LagsInv'
  <1> SUFFICES ASSUME IInv, ChainInv, LagsInv, [Next]_vars PROVE LagsInv'
    OBVIOUS
  <1>1. CASE \/ SkipEpoch
             \/ \E S \in SUBSET Signals \ {{}} : BeginEpoch(S)
             \/ \E S \in SUBSET Common : AddMeasurements(S)
             \/ InitialiseStates
    BY <1>1, LagsEpochs
  <1>2. CASE Transition
    BY <1>2, LagsTransition
  <1>3. CASE \E R \in SUBSET observed : Filter(R)
    BY <1>3, LagsFilter
  <1>4. CASE RtsRead
    BY <1>4, LagsRead
  <1>5. CASE RtsEnd
    BY <1>5, LagsEnd
  <1>6. CASE MinimumConstraints
    BY <1>6, LagsMinimum
  <1>7. CASE OutputPersistanceStates
    <2>1. /\ file' = file /\ options' = options /\ kf' = kf /\ pc' \in {"rts", "stopped"}
          /\ pc' = "rts" => options.rts_lag < 0
      BY <1>7 DEF OutputPersistanceStates, estimation
    <2>2. SpanInv'
      BY <2>1 DEF SpanInv
    <2> QED BY <2>1, <2>2, LagTypes, LagsSame
  <1>8. CASE Start
    <2>1. file' = << >> /\ pc' = "idle" /\ epoch' = 0 /\ kf' = Restored(persisted)
      BY <1>8 DEF Start
    <2>2. ~ kf'.rtsFilterInProgress
      BY <2>1 DEF Restored, NewFilter
    <2>3. States(file') = 0 /\ Span(file') = 0 /\ Ordered(file')
      BY <2>1 DEF States, Span, Ordered
    <2>4. options' = options /\ options.rts_lag \in Int
      BY <1>8, LagTypes DEF Start
    <2>5. OrderInv' /\ LagInv'
      BY <2>1, <2>2, <2>3 DEF OrderInv, LagInv
    <2>6. SizeInv' /\ SpanInv'
      BY <2>1, <2>3, <2>4 DEF SizeInv, SpanInv
    <2> QED BY <2>5, <2>6 DEF LagsInv
  <1>9. CASE UNCHANGED vars
    BY <1>9 DEF vars, LagsInv, OrderInv, LagInv, SizeInv, SpanInv, Filtering, NothingRead
  <1> QED BY <1>1, <1>2, <1>3, <1>4, <1>5, <1>6, <1>7, <1>8, <1>9 DEF Next

(* The invariants hold: the archive of the smoother is a chain of records,  *)
(* trimmed to the lag, and the lag counts what was read of it.              *)
THEOREM LagsInvariant == Spec => [](IInv /\ ChainInv /\ LagsInv)
  <1>1. Init => ChainInv
    BY DEF Init, ChainInv, Chain
  <1>2. Spec => []ChainInv
    BY <1>1, Invariant, ChainNext, PTL DEF Spec
  <1> QED BY <1>2, Invariant, LagsInit, LagsNext, PTL DEF Spec

(* When the smoother reaches its lag, what it has smoothed is the state of  *)
(* the rts_lag-th filter step from the end of the archive, whatever epochs  *)
(* were skipped or given up half-way in between.                            *)
THEOREM SmootherReachesLag == Spec => []SmoothedIsLagged
  <1>1. IInv /\ ChainInv /\ LagsInv => SmoothedIsLagged
    <2> SUFFICES ASSUME IInv, ChainInv, LagsInv, pc = "rts", rts.lag = options.rts_lag
                 PROVE  \E last \in PlusAt :
                            /\ \A i \in PlusAt : i <= last
                            /\ rts.smoothedKF.step = file[last].step - options.rts_lag + 1
      BY DEF SmoothedIsLagged
    <2> DEFINE p == rts.startPos
               n == Len(file)
               L == options.rts_lag
               kept == rts.smoothedKF.step
    <2>1. /\ file \in Seq(Record) /\ p \in 1 .. n + 1 /\ n \in Nat /\ L \in Nat /\ L # 0
      BY DEF IInv, Archive, SmoothingLocals, LagsInv, LagInv
    <2>2. /\ rts.smoothedPready /\ L = LastState(file) - kept + 1 /\ Filtering
      BY <2>1 DEF LagsInv, LagInv, Filtering
    <2>3. p \in 1 .. n /\ kept = file[p].step
      BY <2>1, <2>2 DEF ChainInv, Holds, Same
    <2>4. n >= 1 /\ file # << >>
      BY <2>1, <2>3, ElementIsRecord
    <2>5. /\ file[n].type \in {"TRANSITION_MATRIX", "FILTER_PLUS"}
          /\ file[n].step \in Nat /\ kept \in Nat /\ PlusAt = {i \in 1 .. n : file[i].type = "FILTER_PLUS"}
      BY <2>1, <2>2, <2>3, <2>4, ElementIsRecord DEF ChainInv, Ends, PlusAt
    <2>6. CASE file[n].type = "FILTER_PLUS"
      <3>1. LastState(file) = file[n].step
        BY <2>6 DEF LastState
      <3>2. n \in PlusAt /\ \A i \in PlusAt : i <= n
        BY <2>1, <2>4, <2>5, <2>6
      <3> HIDE DEF n, L, kept
      <3>3. kept = file[n].step - L + 1
        BY <2>1, <2>2, <2>5, <3>1
      <3> QED BY <3>2, <3>3 DEF L, kept
    <2>7. CASE file[n].type = "TRANSITION_MATRIX"
      <3>1. LastState(file) = file[n].step - 1
        BY <2>7 DEF LastState
      <3>2. n # 1
        <4> SUFFICES ASSUME n = 1 PROVE FALSE
          OBVIOUS
        <4>1. p = n
          BY <2>3
        <4>2. LastState(file) = kept - 1
          BY <2>3, <3>1, <4>1
        <4> HIDE DEF n, L, kept, p
        <4>3. L = 0
          BY <2>2, <2>5, <4>2
        <4> QED BY <2>1, <4>3
      <3>3. n - 1 \in 1 .. n - 1 /\ (n - 1) + 1 = n
        <4> HIDE DEF n
        <4>1. n >= 2
          BY <2>1, <2>4, <3>2
        <4> QED BY <2>1, <4>1
      <3>4. Link(file[n - 1], file[(n - 1) + 1])
        BY <3>3 DEF ChainInv, Chain
      <3>5. file[n - 1].type = "FILTER_PLUS" /\ file[n].step = file[n - 1].step + 1
        BY <2>7, <3>3, <3>4 DEF Link
      <3>6. file[n - 1].step \in Nat
        BY <2>1, <3>3, ElementIsRecord
      <3>7. n - 1 \in PlusAt /\ \A i \in PlusAt : i <= n - 1
        BY <2>1, <2>5, <2>7, <3>3, <3>5
      <3> DEFINE m == file[n - 1].step
      <3>8. LastState(file) = m /\ m \in Nat
        BY <3>1, <3>5, <3>6
      <3> HIDE DEF n, L, kept, m
      <3>9. kept = m - L + 1
        BY <2>1, <2>2, <2>5, <3>8
      <3> QED BY <3>7, <3>9 DEF L, kept, m
    <2> QED BY <2>5, <2>6, <2>7
  <1> QED BY <1>1, LagsInvariant, PTL

(* States of an archive are of different steps, so that there are no more   *)
(* of them than steps from its first record to its last state.              *)
LEMMA StatesCounted ==
  ASSUME NEW s \in Seq(Record), Ordered(s)
  PROVE  Cardinality({i \in DOMAIN s : s[i].type = "FILTER_PLUS"}) <= States(s)
  <1> DEFINE P == {i \in DOMAIN s : s[i].type = "FILTER_PLUS"}
             n == Len(s)
             a == s[1].step
             b == LastState(s)
  <1>1. /\ n \in Nat /\ DOMAIN s = 1 .. n
        /\ \A i \in 1 .. n : s[i].step \in Nat
        /\ s # << >> => n >= 1
    BY ElementIsRecord
  <1>2. CASE s = << >>
    <2>1. P = {}
      BY <1>2
    <2> QED BY <1>2, <2>1, FS_EmptySet DEF States
  <1>3. CASE s # << >>
    <2>1. 1 \in 1 .. n /\ n \in 1 .. n /\ a \in Nat
      BY <1>1, <1>3
    <2>2. b \in {s[n].step, s[n].step - 1} /\ b \in Int
      BY <1>1, <2>1 DEF LastState
    <2>3. a <= b + 1
      <3>1. 1 = n \/ 1 < n
        BY <1>1, <1>3
      <3>2. a <= s[n].step
        BY <1>1, <2>1, <3>1 DEF Ordered
      <3> QED BY <1>1, <2>1, <2>2, <3>2
    <2>4. \A i \in P : s[i].step \in a .. b
      <3> SUFFICES ASSUME NEW i \in P PROVE s[i].step \in a .. b
        OBVIOUS
      <3>1. i \in 1 .. n /\ s[i].type = "FILTER_PLUS" /\ s[i].step \in Nat
        BY <1>1
      <3>2. a <= s[i].step
        <4>1. i = 1 \/ 1 < i
          BY <3>1
        <4> QED BY <2>1, <3>1, <4>1 DEF Ordered
      <3>3. s[i].step <= b
        <4>1. CASE i = n
          BY <3>1, <4>1 DEF LastState
        <4>2. CASE i # n
          <5>1. s[i].step < s[n].step
            BY <1>1, <2>1, <3>1, <4>2 DEF Ordered
          <5> QED BY <1>1, <2>1, <2>2, <3>1, <5>1
        <4> QED BY <4>1, <4>2
      <3> QED BY <2>1, <2>2, <3>1, <3>2, <3>3
    <2> DEFINE f == [i \in P |-> s[i].step]
    <2>5. f \in Injection(P, a .. b)
      <3>1. f \in [P -> a .. b]
        BY <2>4
      <3>2. \A i, j \in P : f[i] = f[j] => i = j
        <4> SUFFICES ASSUME NEW i \in P, NEW j \in P, s[i].step = s[j].step PROVE i = j
          OBVIOUS
        <4>1. /\ i \in 1 .. n /\ j \in 1 .. n /\ s[i].step \in Nat /\ s[j].step \in Nat
              /\ s[i].type = "FILTER_PLUS" /\ s[j].type = "FILTER_PLUS"
          BY <1>1
        <4>2. ~ i < j /\ ~ j < i
          BY <4>1 DEF Ordered
        <4> QED BY <4>1, <4>2
      <3> HIDE DEF f
      <3> QED BY <3>1, <3>2 DEF Injection, IsInjective
    <2> HIDE DEF f, P, a, b
    <2>10. a \in Int /\ b \in Int
      BY <2>1, <2>2
    <2>6. IsFiniteSet(a .. b) /\ Cardinality(a .. b) = IF a > b THEN 0 ELSE b - a + 1
      BY <2>10, FS_Interval
    <2>7. Cardinality(P) <= Cardinality(a .. b)
      BY <2>5, <2>6, FS_Injection
    <2>8. Cardinality(a .. b) = b - a + 1
      BY <2>1, <2>2, <2>3, <2>6
    <2>9. States(s) = b - a + 1
      BY <1>3 DEF States, a, b
    <2> QED BY <2>7, <2>8, <2>9 DEF P
  <1> QED BY <1>2, <1>3

(* With a lag, for any number of epochs, interrupted and skipped anywhere,  *)
(* the archive never has more than rts_lag + 2 states of the filter.        *)
THEOREM ArchiveIsBounded == Spec => []ArchiveBounded
  <1>1. IInv /\ LagsInv => ArchiveBounded
    <2> SUFFICES ASSUME IInv, LagsInv, options.rts_lag > 0
                 PROVE  Cardinality(PlusAt) <= options.rts_lag + 2
      BY DEF ArchiveBounded
    <2>1. /\ file \in Seq(Record) /\ Ordered(file) /\ States(file) <= options.rts_lag + 2
          /\ States(file) \in Int /\ options.rts_lag \in Int
      BY LagTypes DEF LagsInv, OrderInv, SizeInv
    <2>2. Cardinality(PlusAt) <= States(file)
      BY <2>1, StatesCounted DEF PlusAt
    <2>3. Cardinality(PlusAt) \in Nat
      <3>1. IsFiniteSet(DOMAIN file)
        <4>1. DOMAIN file = 1 .. Len(file) /\ Len(file) \in Int
          BY <2>1
        <4> QED BY <4>1, FS_Interval
      <3>2. PlusAt \in SUBSET DOMAIN file
        BY DEF PlusAt
      <3>3. IsFiniteSet(PlusAt)
        BY <3>1, <3>2, FS_Subset
      <3> QED BY <3>3, FS_CardinalityType
    <2> QED BY <2>1, <2>2, <2>3
  <1> QED BY <1>1, LagsInvariant, PTL

(* A full reverse has written the states behind the position that it reads, *)
(* the last one first, and the next that it reads is older than all.        *)
Written == {backward[n] : n \in 1 .. Len(backward)}

StatesFrom(p) == {file[i] : i \in {i \in PlusAt : i >= p}}

Descends(s) == \A m, n \in 1 .. Len(s) : m < n => s[m].step > s[n].step

BackInv ==
    /\ pc = "rts" /\ options.rts_lag < 0 =>
           /\ Written = StatesFrom(rts.startPos) /\ Descends(backward)
           /\ IF rts.smoothedPready
              THEN \A n \in 1 .. Len(backward) : backward[n].step >= rts.smoothedKF.step
              ELSE backward = << >>
    /\ pc = "stopped" /\ options.rts_lag < 0 =>
           Written = StatesFrom(1) /\ Descends(backward)

LEMMA BackRead == ASSUME IInv, ChainInv, BackInv, RtsRead PROVE BackInv'
  <1> DEFINE p == rts.startPos
             n == Len(backward)
  <1>1. /\ pc = "rts" /\ pc' = "rts" /\ file' = file /\ options' = options
        /\ file \in Seq(Record) /\ p \in 2 .. Len(file) + 1 /\ Len(file) \in Nat
        /\ backward \in Seq(Record) /\ options.rts_lag \in Int
    BY LagTypes DEF RtsRead, IInv, Archive
  <1> SUFFICES ASSUME options.rts_lag < 0
               PROVE  /\ Written' = StatesFrom(rts.startPos)' /\ Descends(backward')
                      /\ IF rts'.smoothedPready
                         THEN \A i \in 1 .. Len(backward') : backward'[i].step >= rts'.smoothedKF.step
                         ELSE backward' = << >>
    BY <1>1 DEF BackInv, Descends
  <1>2. /\ Written = StatesFrom(p) /\ Descends(backward)
        /\ rts.smoothedPready => \A i \in 1 .. n : backward[i].step >= rts.smoothedKF.step
        /\ ~ rts.smoothedPready => backward = << >>
    BY <1>1 DEF BackInv
  <1>3. LastRead = file[p - 1] /\ LastRead \in Record /\ LastRead.step \in Nat
    <2>1. p - 1 \in 1 .. Len(file)
      BY <1>1
    <2> QED BY <1>1, <2>1, ElementIsRecord DEF LastRead
  <1>4. n \in Nat /\ \A i \in 1 .. n : backward[i].step \in Nat
    BY <1>1, ElementIsRecord
  <1>5. PlusAt' = PlusAt /\ PlusAt = {i \in 1 .. Len(file) : file[i].type = "FILTER_PLUS"}
    BY <1>1 DEF PlusAt
  <1>6. CASE ReadPlus
    <2>1. /\ LastRead.type = "FILTER_PLUS" /\ rts'.smoothedKF = LastRead /\ rts'.smoothedPready
          /\ rts'.startPos = p - 1 /\ backward' = Append(backward, LastRead)
          /\ rts.smoothedPready => rts.smoothedKF.step = LastRead.step + 1
      BY <1>1, <1>6, StateRead
    <2>2. /\ Len(backward') = n + 1
          /\ \A i \in 1 .. n : backward'[i] = backward[i]
          /\ backward'[n + 1] = LastRead
      BY <1>1, <1>3, <2>1, AppendProperties
    <2> HIDE DEF n, p
    <2>3. \A i \in 1 .. n : backward[i].step > LastRead.step
      <3> SUFFICES ASSUME NEW i \in 1 .. n PROVE backward[i].step > LastRead.step
        OBVIOUS
      <3>1. CASE rts.smoothedPready
        <4>1. backward[i].step >= rts.smoothedKF.step
          BY <1>2, <3>1
        <4> QED BY <1>3, <1>4, <2>1, <3>1, <4>1
      <3>2. CASE ~ rts.smoothedPready
        <4>1. n = 0
          BY <1>2, <3>2 DEF n
        <4> QED BY <4>1
      <3> QED BY <3>1, <3>2
    <2>4. \A i \in 1 .. n + 1 : i \in 1 .. n \/ i = n + 1
      BY <1>4
    <2>5. \A i \in 1 .. n : i \in 1 .. n + 1
      BY <1>4
    <2>6. n + 1 \in 1 .. n + 1
      BY <1>4
    <2>7. Written' = Written \cup {LastRead}
      <3>1. Written' = {backward'[i] : i \in 1 .. n + 1}
        BY <2>2 DEF Written
      <3>2. Written = {backward[i] : i \in 1 .. n}
        BY DEF Written, n
      <3> HIDE DEF Written
      <3> QED BY <2>2, <2>4, <2>5, <2>6, <3>1, <3>2
    <2>8. StatesFrom(rts.startPos)' = StatesFrom(p) \cup {LastRead}
      <3>1. StatesFrom(rts.startPos)' = {file[i] : i \in {i \in PlusAt : i >= p - 1}}
        BY <1>1, <1>5, <2>1 DEF StatesFrom
      <3>2. {i \in PlusAt : i >= p - 1} = {i \in PlusAt : i >= p} \cup {p - 1}
        <4>1. p - 1 \in PlusAt
          BY <1>1, <1>3, <1>5, <2>1 DEF p
        <4>2. \A i \in PlusAt : i >= p - 1 <=> (i >= p \/ i = p - 1)
          BY <1>1, <1>5 DEF p
        <4>3. p - 1 >= p - 1
          BY <1>1 DEF p
        <4> QED BY <4>1, <4>2, <4>3
      <3> QED BY <1>3, <3>1, <3>2 DEF StatesFrom
    <2>9. Descends(backward')
      <3> SUFFICES ASSUME NEW i \in 1 .. n + 1, NEW j \in 1 .. n + 1, i < j
                   PROVE  backward'[i].step > backward'[j].step
        BY <2>2 DEF Descends
      <3>1. i \in 1 .. n
        BY <1>4
      <3>2. CASE j \in 1 .. n
        BY <1>2, <2>2, <3>1, <3>2 DEF Descends, n
      <3>3. CASE j = n + 1
        BY <2>2, <2>3, <3>1, <3>3
      <3> QED BY <2>4, <3>2, <3>3
    <2>10. \A i \in 1 .. n + 1 : backward'[i].step >= LastRead.step
      <3> SUFFICES ASSUME NEW i \in 1 .. n + 1 PROVE backward'[i].step >= LastRead.step
        OBVIOUS
      <3>1. CASE i \in 1 .. n
        BY <1>3, <1>4, <2>2, <2>3, <3>1
      <3>2. CASE i = n + 1
        BY <1>3, <2>2, <3>2
      <3> QED BY <2>4, <3>1, <3>2
    <2> QED BY <1>2, <2>1, <2>2, <2>7, <2>8, <2>9, <2>10 DEF p
  <1>7. CASE ~ ReadPlus
    <2>1. /\ LastRead.type # "FILTER_PLUS"
          /\ rts'.smoothedKF = rts.smoothedKF /\ rts'.smoothedPready = rts.smoothedPready
          /\ rts'.startPos = p - 1 /\ backward' = backward
      BY <1>7, OtherRead
    <2>2. Written' = Written
      BY <2>1 DEF Written
    <2>3. StatesFrom(rts.startPos)' = StatesFrom(p)
      <3>1. StatesFrom(rts.startPos)' = {file[i] : i \in {i \in PlusAt : i >= p - 1}}
        BY <1>1, <1>5, <2>1 DEF StatesFrom
      <3>2. \A i \in PlusAt : i >= p - 1 <=> i >= p
        <4>1. p - 1 \notin PlusAt
          BY <1>3, <1>5, <2>1
        <4>2. \A i \in PlusAt : i >= p - 1 <=> (i >= p \/ i = p - 1)
          BY <1>1, <1>5
        <4> QED BY <4>1, <4>2
      <3>3. {i \in PlusAt : i >= p - 1} = {i \in PlusAt : i >= p}
        BY <3>2
      <3> QED BY <3>1, <3>3 DEF StatesFrom
    <2> QED BY <1>2, <2>1, <2>2, <2>3
  <1> QED BY <1>6, <1>7

LEMMA BackNext == IInv /\ ChainInv /\ LagsInv /\ BackInv /\ [Next]_vars => BackInv'
  <1> SUFFICES ASSUME IInv, ChainInv, LagsInv, BackInv, [Next]_vars PROVE BackInv'
    OBVIOUS
  <1>1. options.rts_lag \in Int /\ file \in Seq(Record)
    BY LagTypes
  <1>2. CASE \/ SkipEpoch
             \/ \E S \in SUBSET Signals \ {{}} : BeginEpoch(S)
             \/ \E S \in SUBSET Common : AddMeasurements(S)
             \/ InitialiseStates
             \/ MinimumConstraints
             \/ Start
    <2>1. pc' \notin {"rts", "stopped"}
      BY <1>2 DEF SkipEpoch, BeginEpoch, AddMeasurements, InitialiseStates,
                  MinimumConstraints, Start
    <2> QED BY <2>1 DEF BackInv
  <1>3. CASE Transition \/ \E R \in SUBSET observed : Filter(R)
    <2>1. options' = options /\ (EndOfEpoch \/ pc' = "lsq")
      BY <1>3 DEF Transition, Filter
    <2>2. pc' \in {"idle", "lsq"} \/ (pc' = "rts" /\ options.rts_lag > 0)
      BY <2>1 DEF EndOfEpoch, Smoothing
    <2> QED BY <1>1, <2>1, <2>2 DEF BackInv
  <1>4. CASE RtsRead
    BY <1>4, BackRead
  <1>5. CASE RtsEnd
    <2>1. /\ pc = "rts" /\ options' = options /\ backward' = backward
          /\ pc' = (IF options.rts_lag > 0 THEN "idle" ELSE "stopped")
          /\ rts.lag = options.rts_lag \/ rts.startPos = 1
          /\ rts.lag # options.rts_lag => file' = file
          /\ rts.lag \in Nat
      BY <1>5 DEF RtsEnd, IInv, Archive, SmoothingLocals
    <2>2. CASE options.rts_lag < 0
      <3>1. rts.startPos = 1 /\ file' = file /\ pc' = "stopped"
        BY <1>1, <2>1, <2>2
      <3>2. Written = StatesFrom(1) /\ Descends(backward)
        BY <2>1, <2>2, <3>1 DEF BackInv
      <3>3. Written' = Written /\ StatesFrom(1)' = StatesFrom(1)
        BY <2>1, <3>1 DEF Written, StatesFrom, PlusAt
      <3> QED BY <2>1, <3>1, <3>2, <3>3 DEF BackInv, Descends
    <2>3. CASE ~ options.rts_lag < 0
      BY <2>1, <2>3 DEF BackInv
    <2> QED BY <2>2, <2>3
  <1>6. CASE OutputPersistanceStates
    <2>1. options' = options /\ file' = file
      BY <1>6 DEF OutputPersistanceStates
    <2>2. CASE options.rts_lag < 0
      <3>1. /\ pc' = "rts" /\ backward' = << >>
            /\ rts' = [NoSmoothing EXCEPT !.startPos = Len(file) + 1]
        BY <1>6, <2>2 DEF OutputPersistanceStates
      <3>2. rts'.startPos = Len(file) + 1 /\ ~ rts'.smoothedPready
        BY <3>1 DEF NoSmoothing
      <3>3. Written' = {}
        BY <3>1 DEF Written
      <3>4. StatesFrom(rts.startPos)' = {}
        <4>1. \A i \in PlusAt : ~ i >= Len(file) + 1
          BY <1>1 DEF PlusAt
        <4>2. PlusAt' = PlusAt
          BY <2>1 DEF PlusAt
        <4> QED BY <3>2, <4>1, <4>2 DEF StatesFrom
      <3>5. Descends(backward')
        BY <3>1 DEF Descends
      <3> QED BY <3>1, <3>2, <3>3, <3>4, <3>5 DEF BackInv, Descends
    <2>3. CASE ~ options.rts_lag < 0
      BY <2>1, <2>3 DEF BackInv
    <2> QED BY <2>2, <2>3
  <1>7. CASE UNCHANGED vars
    <2>1. /\ backward' = backward /\ file' = file /\ rts' = rts
          /\ pc' = pc /\ options' = options
      BY <1>7 DEF vars
    <2>2. /\ Written' = Written /\ StatesFrom(1)' = StatesFrom(1)
          /\ StatesFrom(rts.startPos)' = StatesFrom(rts.startPos)
          /\ Descends(backward)' = Descends(backward)
      BY <2>1 DEF Written, StatesFrom, PlusAt, Descends
    <2> QED BY <2>1, <2>2 DEF BackInv
  <1> QED BY <1>2, <1>3, <1>4, <1>5, <1>6, <1>7 DEF Next

(* After a full reverse the file of smoothed states has every state of the  *)
(* archive, also those of interrupted epochs, from the last to the first.   *)
THEOREM ReverseIsComplete == Spec => []EveryStepSmoothed
  <1>1. Init => BackInv
    BY DEF Init, BackInv
  <1>2. IInv /\ BackInv => EveryStepSmoothed
    <2> SUFFICES ASSUME IInv, BackInv, pc = "stopped", options.rts_lag < 0
                 PROVE  /\ {backward[n] : n \in DOMAIN backward} = {file[i] : i \in PlusAt}
                        /\ \A m, n \in DOMAIN backward :
                               m < n => backward[m].step > backward[n].step
      BY DEF EveryStepSmoothed
    <2>1. /\ backward \in Seq(Record) /\ file \in Seq(Record)
          /\ Written = StatesFrom(1) /\ Descends(backward)
      BY DEF IInv, Archive, BackInv
    <2>2. DOMAIN backward = 1 .. Len(backward)
      BY <2>1
    <2>3. {i \in PlusAt : i >= 1} = PlusAt
      BY <2>1 DEF PlusAt
    <2>4. StatesFrom(1) = {file[i] : i \in PlusAt}
      BY <2>3 DEF StatesFrom
    <2> QED BY <2>1, <2>2, <2>4 DEF Written, Descends
  <1> QED BY <1>1, <1>2, LagsInvariant, BackNext, PTL DEF Spec

-----------------------------------------------------------------------------
(* New states.  What is new is known to be: a value that is in the filter   *)
(* before a transition is older than the epoch, a rate never comes without  *)
(* its state, and a new state is one of the initNoiseMap.                   *)

BornBy(f, t) == \A k \in DOMAIN f.kfIndexMap : f.x[f.kfIndexMap[k]].born <= t

RatesOwned(S) == \A d \in DOMAIN RateOf : RateOf[d] \in S => d \in S

NewInv ==
    /\ BornBy(kf, now)
    /\ RatesOwned(DOMAIN kf.kfIndexMap)
    /\ \A i \in DOMAIN persisted :
           BornBy(persisted[i], now) /\ RatesOwned(DOMAIN persisted[i].kfIndexMap)
    /\ pc \in {"observe", "transition"} =>
           /\ BornBy(kf, now - 1)
           /\ RatesOwned(DOMAIN kf.stateTransitionMap)
           /\ \A d \in DOMAIN RateOf \cap DOMAIN kf.kfIndexMap :
                  d \in DOMAIN kf.stateTransitionMap /\ kf.stateTransitionMap[d] = d
           /\ \A k \in DOMAIN kf.stateTransitionMap :
                  Fresh(kf, k) => k \in kf.initNoiseMap /\ (k \in Uninitialised => kf.lsqRequired)
    /\ LsqSeesNew

LEMMA BornImproves ==
  ASSUME NEW f, NEW g, NEW t, Shaped(f), g.kfIndexMap = f.kfIndexMap, Improves(f, g), BornBy(f, t)
  PROVE  BornBy(g, t)
  <1> SUFFICES ASSUME NEW k \in DOMAIN f.kfIndexMap
               PROVE  g.x[f.kfIndexMap[k]].born <= t
    BY DEF BornBy
  <1>1. f.x[f.kfIndexMap[k]] \in Value
    BY RowOfKey
  <1>2. g.x[f.kfIndexMap[k]] \in {f.x[f.kfIndexMap[k]], [f.x[f.kfIndexMap[k]] EXCEPT !.from = "est"]}
    BY DEF Improves
  <1>3. g.x[f.kfIndexMap[k]].born = f.x[f.kfIndexMap[k]].born
    BY <1>1, <1>2 DEF Value
  <1> QED BY <1>3 DEF BornBy

LEMMA BornLater ==
  ASSUME NEW f, Shaped(f), NEW t \in Nat, BornBy(f, t)
  PROVE  BornBy(f, t + 1)
  <1>1. \A k \in DOMAIN f.kfIndexMap : f.x[f.kfIndexMap[k]].born \in Nat
    BY RowOfKey DEF Value
  <1> QED BY <1>1 DEF BornBy

(* The filters that have been saved stay older than the epochs to come.     *)
LEMMA SavedLater ==
  ASSUME IInv, NewInv, NEW i \in DOMAIN persisted
  PROVE  BornBy(persisted[i], now + 1)
  <1>1. persisted[i] \in SavedFilter /\ now \in Nat
    BY LimitsType DEF IInv, Filters, Control
  <1>2. Shaped(Whole(persisted[i]))
    BY <1>1 DEF SavedFilter
  <1>3. BornBy(Whole(persisted[i]), now)
    BY WholeFields DEF NewInv, BornBy
  <1>4. BornBy(Whole(persisted[i]), now + 1)
    BY <1>1, <1>2, <1>3, BornLater
  <1> QED BY <1>4, WholeFields DEF BornBy

LEMMA NewSkip == ASSUME IInv, NewInv, SkipEpoch PROVE NewInv'
  <1>1. /\ kf' = kf /\ persisted' = persisted /\ now' = now + 1 /\ pc' = "idle"
        /\ Shaped(kf) /\ now \in Nat
    BY LimitsType DEF SkipEpoch, NextEpoch, IInv, Filters, Control
  <1>2. BornBy(kf, now + 1)
    BY <1>1, BornLater DEF NewInv
  <1>3. \A i \in DOMAIN persisted : BornBy(persisted[i], now + 1)
    BY SavedLater
  <1> QED BY <1>1, <1>2, <1>3 DEF NewInv, LsqSeesNew, BornBy, RatesOwned

LEMMA NewBegin ==
  ASSUME IInv, NewInv, NEW S \in SUBSET Signals, BeginEpoch(S)
  PROVE  NewInv'
  <1> DEFINE D == DOMAIN kf.kfIndexMap
  <1>1. /\ kf'.kfIndexMap = kf.kfIndexMap /\ kf'.x = kf.x
        /\ kf'.stateTransitionMap = [k \in D \ Removed |-> k]
    BY BeginKeeps DEF SameStates
  <1>2. /\ persisted' = persisted /\ now' = now + 1 /\ pc' = "observe"
        /\ Shaped(kf) /\ now \in Nat /\ now' - 1 = now
    BY LimitsType DEF BeginEpoch, NextEpoch, IInv, Filters, Control
  <1>3. BornBy(kf', now') /\ BornBy(kf', now' - 1)
    BY <1>1, <1>2, BornLater DEF NewInv, BornBy
  <1>4. \A i \in DOMAIN persisted :
            BornBy(persisted[i], now') /\ RatesOwned(DOMAIN persisted[i].kfIndexMap)
    BY <1>2, SavedLater DEF NewInv
  <1>5. \A d \in DOMAIN RateOf : d \notin Removed
    BY AmbiguityType DEF Removed
  <1>6. RatesOwned(D)
    BY DEF NewInv
  <1>7. RatesOwned(DOMAIN kf'.stateTransitionMap)
    BY <1>1, <1>5, <1>6 DEF RatesOwned
  <1>8. \A d \in DOMAIN RateOf \cap D :
            d \in DOMAIN kf'.stateTransitionMap /\ kf'.stateTransitionMap[d] = d
    BY <1>1, <1>5
  <1>9. \A k \in DOMAIN kf'.stateTransitionMap : ~ Fresh(kf', k)
    BY <1>1 DEF Fresh
  <1> QED BY <1>1, <1>2, <1>3, <1>4, <1>6, <1>7, <1>8, <1>9 DEF NewInv, LsqSeesNew

LEMMA NewAdd ==
  ASSUME IInv, NewInv, NEW S \in SUBSET Common, AddMeasurements(S)
  PROVE  NewInv'
  <1> DEFINE K == KeysOf(S)
             R == {RateOf[d] : d \in K \cap DOMAIN RateOf}
             old == kf.stateTransitionMap
             fresh == (K \cup R) \ DOMAIN old
  <1>1. /\ kf'.kfIndexMap = kf.kfIndexMap /\ kf'.x = kf.x
        /\ kf'.stateTransitionMap = [k \in DOMAIN old \cup K \cup R |->
                                       IF k \in DOMAIN old THEN old[k] ELSE ONE]
        /\ kf'.initNoiseMap = kf.initNoiseMap \cup fresh
    BY AddKeeps DEF SameStates
  <1>2. /\ kf'.lsqRequired = (kf.lsqRequired \/ fresh \cap Uninitialised # {})
        /\ K \in SUBSET (Keys \ RateKeys)
    BY AddKeeps
  <1>3. /\ persisted' = persisted /\ now' = now /\ pc = "observe" /\ pc' = "transition"
    BY DEF AddMeasurements
  <1> HIDE DEF K
  <1>4. RatesOwned(DOMAIN kf'.stateTransitionMap)
    <2> SUFFICES ASSUME NEW d \in DOMAIN RateOf, RateOf[d] \in DOMAIN old \cup K \cup R
                 PROVE  d \in DOMAIN old \cup K \cup R
      BY <1>1 DEF RatesOwned
    <2>1. RateOf[d] \notin K
      BY <1>2 DEF RateKeys
    <2>2. RateOf[d] \in DOMAIN old => d \in DOMAIN old
      BY <1>3 DEF NewInv, RatesOwned
    <2>3. RateOf[d] \in R => d \in K
      BY NetworkConstants DEF EstimatorConstants
    <2> QED BY <2>1, <2>2, <2>3
  <1>5. \A d \in DOMAIN RateOf \cap DOMAIN kf.kfIndexMap :
            d \in DOMAIN kf'.stateTransitionMap /\ kf'.stateTransitionMap[d] = d
    BY <1>1, <1>3 DEF NewInv
  <1>6. \A k \in DOMAIN kf'.stateTransitionMap :
            Fresh(kf', k) => k \in kf'.initNoiseMap /\ (k \in Uninitialised => kf'.lsqRequired)
    <2> SUFFICES ASSUME NEW k \in DOMAIN kf'.stateTransitionMap, Fresh(kf', k)
                 PROVE  k \in kf'.initNoiseMap /\ (k \in Uninitialised => kf'.lsqRequired)
      OBVIOUS
    <2> HIDE DEF R
    <2>1. CASE k \in DOMAIN old
      <3>1. Fresh(kf, k)
        BY <1>1, <2>1 DEF Fresh
      <3>2. k \in kf.initNoiseMap /\ (k \in Uninitialised => kf.lsqRequired)
        BY <1>3, <2>1, <3>1 DEF NewInv
      <3> QED BY <1>1, <1>2, <3>2
    <2>2. CASE k \notin DOMAIN old
      <3>1. k \in fresh
        BY <1>1, <2>2
      <3> QED BY <1>1, <1>2, <3>1
    <2> QED BY <2>1, <2>2
  <1> QED BY <1>1, <1>3, <1>4, <1>5, <1>6 DEF NewInv, LsqSeesNew, BornBy

LEMMA NewTransition == ASSUME IInv, NewInv, Transition PROVE NewInv'
  <1> DEFINE D == DOMAIN kf.stateTransitionMap
  <1>1. /\ pc = "transition" /\ Transit(kf, now) /\ now' = now /\ now \in Nat
        /\ persisted' = persisted /\ pc' \in {"lsq", "idle", "rts"}
        /\ Shaped(kf) /\ MatrixOf(kf) /\ KeepsStates(kf)
    BY LimitsType DEF Transition, EndOfEpoch, IInv, Filters, Control
  <1>2. /\ DOMAIN kf'.kfIndexMap = D /\ kf'.lsqRequired = kf.lsqRequired
        /\ \A k \in D : /\ kf'.x[kf'.kfIndexMap[k]] = CarriedValue(kf, now, k)
                       /\ kf'.P[kf'.kfIndexMap[k]] = CarriedVariance(kf, Gap(kf, now), k)
    BY <1>1, TransitKeeps
  <1>3. ASSUME NEW k \in D, ~ Fresh(kf, k)
        PROVE  CarriedValue(kf, now, k).born <= now - 1
    <2>1. k \in DOMAIN kf.kfIndexMap
      BY <1>1, <1>3 DEF Fresh, KeepsStates
    <2> QED BY <1>1, <1>3, <2>1 DEF CarriedValue, NewInv, BornBy
  <1>4. ASSUME NEW k \in D
        PROVE  CarriedValue(kf, now, k).born \in Int /\ CarriedValue(kf, now, k).born <= now
    <2>1. CarriedValue(kf, now, k) \in Value
      BY <1>1, CarriedHasKey
    <2>2. CASE Fresh(kf, k)
      BY <1>1, <2>2 DEF CarriedValue
    <2>3. CASE ~ Fresh(kf, k)
      BY <1>1, <1>3, <2>1, <2>3 DEF Value
    <2> QED BY <2>2, <2>3
  <1>5. BornBy(kf', now)
    BY <1>2, <1>4 DEF BornBy
  <1>6. RatesOwned(DOMAIN kf'.kfIndexMap)
    BY <1>1, <1>2 DEF NewInv
  <1>7. ASSUME NEW k \in Uninitialised \cap D, CarriedValue(kf, now, k).born = now
        PROVE  kf.lsqRequired /\ ~ CarriedVariance(kf, Gap(kf, now), k)
    <2>1. Fresh(kf, k)
      BY <1>1, <1>3, <1>7
    <2>2. k \in kf.initNoiseMap /\ kf.lsqRequired
      BY <1>1, <2>1 DEF NewInv
    <2>3. AwaitsLeastSquares(kf, k)
      BY <2>2 DEF AwaitsLeastSquares
    <2>4. ~ Noise(kf, Gap(kf, now), k)
      BY <2>3 DEF Noise
    <2>5. ~ RateVariance(kf, Gap(kf, now), k)
      <3> SUFFICES ASSUME k \in kf.rateTransitionMap, RateOf[k] \in DOMAIN kf.kfIndexMap
                   PROVE  FALSE
        BY <2>3 DEF RateVariance
      <3>1. k \in DOMAIN RateOf
        BY <1>1 DEF Shaped, FilterType
      <3>2. k \in DOMAIN kf.kfIndexMap
        BY <3>1 DEF NewInv, RatesOwned
      <3>3. kf.stateTransitionMap[k] = k
        BY <1>1, <3>1, <3>2 DEF NewInv
      <3> QED BY <2>1, <3>3 DEF Fresh
    <2> QED BY <2>1, <2>2, <2>4, <2>5 DEF CarriedVariance
  <1>8. LsqSeesNew'
    BY <1>1, <1>2, <1>7 DEF LsqSeesNew, Born, Variance
  <1> QED BY <1>1, <1>5, <1>6, <1>8 DEF NewInv, BornBy

(* Steps that keep the states, and save none.                               *)
LEMMA NewKeeps ==
  ASSUME IInv, NewInv, kf'.kfIndexMap = kf.kfIndexMap, Improves(kf, kf'), now' = now,
         persisted' = persisted, pc' \notin {"observe", "transition", "lsq"}
  PROVE  NewInv'
  <1>1. BornBy(kf', now)
    BY BornImproves DEF NewInv, IInv, Filters
  <1> QED BY <1>1 DEF NewInv, LsqSeesNew, BornBy, RatesOwned

LEMMA NewOutput == ASSUME IInv, NewInv, OutputPersistanceStates PROVE NewInv'
  <1> DEFINE p == [time |-> kf.time, x |-> kf.x, P |-> kf.P, kfIndexMap |-> kf.kfIndexMap]
  <1>1. /\ persisted \in Seq(SavedFilter) /\ persisted' = Append(persisted, p) /\ kf' = kf
        /\ now' = now /\ pc' \in {"rts", "stopped"}
    BY DEF IInv, Filters, OutputPersistanceStates, estimation
  <1>2. p \in SavedFilter
    BY SavedTypeOf
  <1>3. BornBy(p, now) /\ RatesOwned(DOMAIN p.kfIndexMap)
    BY DEF NewInv, BornBy
  <1> HIDE DEF p
  <1>4. \A i \in DOMAIN persisted' :
            persisted'[i] = p \/ (i \in DOMAIN persisted /\ persisted'[i] = persisted[i])
    BY <1>1, <1>2
  <1>5. \A i \in DOMAIN persisted' :
            BornBy(persisted'[i], now) /\ RatesOwned(DOMAIN persisted'[i].kfIndexMap)
    BY <1>3, <1>4 DEF NewInv
  <1> QED BY <1>1, <1>5 DEF NewInv, LsqSeesNew, BornBy

LEMMA NewStart == ASSUME IInv, NewInv, Start PROVE NewInv'
  <1>1. /\ kf' = Restored(persisted) /\ persisted' = persisted /\ now' = now /\ pc' = "idle"
        /\ now \in Nat
    BY LimitsType DEF Start, IInv, Control
  <1>2. BornBy(kf', now) /\ RatesOwned(DOMAIN kf'.kfIndexMap)
    <2>1. CASE persisted = << >>
      <3>1. kf' = NewFilter
        BY <1>1, <2>1 DEF Restored
      <3>2. BornBy(NewFilter, now)
        BY <1>1 DEF NewFilter, BornBy
      <3>3. \A d \in DOMAIN RateOf : RateOf[d] # ONE
        BY FilterConstants DEF ConstantsAssumption
      <3>4. RatesOwned(DOMAIN NewFilter.kfIndexMap)
        BY <3>3 DEF NewFilter, RatesOwned
      <3> QED BY <3>1, <3>2, <3>4
    <2>2. CASE persisted # << >>
      <3>1. 1 \in DOMAIN persisted /\ kf' = Whole(persisted[1])
        BY <1>1, <2>2 DEF Restored, Whole, IInv, Filters
      <3>2. BornBy(persisted[1], now) /\ RatesOwned(DOMAIN persisted[1].kfIndexMap)
        BY <3>1 DEF NewInv
      <3> QED BY <3>1, <3>2, WholeFields DEF BornBy
    <2> QED BY <2>1, <2>2
  <1> QED BY <1>1, <1>2 DEF NewInv, LsqSeesNew, BornBy

LEMMA NewNext == IInv /\ NewInv /\ [Next]_vars => NewInv'
  <1> SUFFICES ASSUME IInv, NewInv, [Next]_vars PROVE NewInv'
    OBVIOUS
  <1>1. CASE SkipEpoch
    BY <1>1, NewSkip
  <1>2. CASE \E S \in SUBSET Signals \ {{}} : BeginEpoch(S)
    BY <1>2, NewBegin
  <1>3. CASE \E S \in SUBSET Common : AddMeasurements(S)
    BY <1>3, NewAdd
  <1>4. CASE Transition
    BY <1>4, NewTransition
  <1>5. CASE InitialiseStates
    BY <1>5, InitialiseKeeps, NewKeeps DEF InitialiseStates, SameMatrix
  <1>6. CASE \E R \in SUBSET observed : Filter(R)
    <2>1. now' = now /\ persisted' = persisted /\ pc' \in {"idle", "rts"}
      BY <1>6 DEF Filter, EndOfEpoch
    <2> QED BY <1>6, <2>1, FilterKeeps, NewKeeps DEF SameMatrix
  <1>7. CASE RtsRead \/ RtsEnd
    <2>1. kf' = kf /\ now' = now /\ persisted' = persisted /\ pc' \in {"rts", "idle", "stopped"}
      BY <1>7 DEF RtsRead, RtsEnd, estimation
    <2> QED BY <2>1, NewKeeps DEF Improves
  <1>8. CASE MinimumConstraints
    BY <1>8, MinimumKeeps, NewKeeps DEF MinimumConstraints
  <1>9. CASE OutputPersistanceStates
    BY <1>9, NewOutput
  <1>10. CASE Start
    BY <1>10, NewStart
  <1>11. CASE UNCHANGED vars
    BY <1>11 DEF vars, NewInv, LsqSeesNew, Born, Variance, BornBy, RatesOwned, Fresh
  <1> QED BY <1>1, <1>2, <1>3, <1>4, <1>5, <1>6, <1>7, <1>8, <1>9, <1>10, <1>11 DEF Next

(* A state that is created without a variance reaches the least squares of  *)
(* its epoch without one, whatever the process noise and the rates of other *)
(* states add in the transition, and the least squares are asked for.       *)
THEOREM NewStatesAwaitLeastSquares == Spec => []LsqSeesNew
  <1>1. Init => NewInv
    <2> SUFFICES ASSUME Init PROVE NewInv
      OBVIOUS
    <2>1. BornBy(NewFilter, NoTime)
      BY DEF NewFilter, BornBy, NoTime
    <2>2. \A d \in DOMAIN RateOf : RateOf[d] # ONE
      BY FilterConstants DEF ConstantsAssumption
    <2>3. RatesOwned(DOMAIN NewFilter.kfIndexMap)
      BY <2>2 DEF NewFilter, RatesOwned
    <2> QED BY <2>1, <2>3 DEF Init, NewInv, LsqSeesNew
  <1>2. NewInv => LsqSeesNew
    BY DEF NewInv
  <1>3. Spec => []NewInv
    BY <1>1, Invariant, NewNext, PTL DEF Spec
  <1> QED BY <1>2, <1>3, PTL
=============================================================================
