------------------------------- MODULE KFState -------------------------------
(***************************************************************************)
(* The object KFState of the filters (common/algebra.cpp): its state       *)
(* vector, the maps that say which state is at which index, and the        *)
(* operations that the estimators apply to it.  A filter is a record, and  *)
(* an operation is an operator from filters to filters.                    *)
(*                                                                         *)
(* States are numbered in the order of KFKey::operator<, 0 being KF::ONE.  *)
(* Of the value at an index the model keeps whose value it is, when it was *)
(* last initialised and how it was obtained; of its variance, whether it   *)
(* is positive.  Covariances, clamps and time constants are left out.      *)
(***************************************************************************)
EXTENDS Integers, FiniteSets, Sequences

CONSTANTS Keys,           \* the states other than ONE
          Uninitialised,  \* those with no variance in their InitialState
          Noisy,          \* those with process noise in their InitialState
          RateOf          \* the state that is the rate of a state that has one

ONE == 0
NoTime == 0
AllKeys == Keys \cup {ONE}

ConstantsAssumption ==
    /\ Keys \subseteq Nat \ {ONE}
    /\ IsFiniteSet(Keys)
    /\ Uninitialised \subseteq Keys
    /\ Noisy \subseteq Keys
    /\ DOMAIN RateOf \subseteq Keys
    /\ \A dest \in DOMAIN RateOf : RateOf[dest] \in Keys \ DOMAIN RateOf

ASSUME FilterConstants == ConstantsAssumption

(* "unset": the value waits for least squares, "prior": it is the one of    *)
(* the InitialState, "est": measurements have determined it.                *)
Value == [key : AllKeys, born : Nat, from : {"unset", "prior", "est"}]

(* Rows and columns are numbered in the order of the keys of a map.         *)
IndexMap(S) == [k \in S |-> Cardinality({j \in S : j < k})]
KeyAt(index, i) == CHOOSE k \in DOMAIN index : index[k] = i
Rows(S) == 0 .. Cardinality(S) - 1

(* The type of a filter: the state vector and the diagonal of the           *)
(* covariances have an element for each key of the index map.               *)
FilterType(f) ==
    [time : Nat, x : [Rows(DOMAIN f.kfIndexMap) -> Value],
     P : [Rows(DOMAIN f.kfIndexMap) -> BOOLEAN],
     kfIndexMap : {IndexMap(DOMAIN f.kfIndexMap)},
     stateTransitionMap : [DOMAIN f.stateTransitionMap -> AllKeys],
     rateTransitionMap : SUBSET DOMAIN RateOf,
     procNoiseMap : SUBSET AllKeys, initNoiseMap : SUBSET AllKeys,
     lsqRequired : BOOLEAN, rtsFilterInProgress : BOOLEAN, step : Nat]

(* The constructor: one element, ONE, whose value is known.                 *)
NewFilter ==
    [time |-> NoTime,
     x |-> [i \in {0} |-> [key |-> ONE, born |-> 0, from |-> "prior"]],
     P |-> [i \in {0} |-> FALSE],
     kfIndexMap |-> [k \in {ONE} |-> 0],
     stateTransitionMap |-> [k \in {} |-> k],
     rateTransitionMap |-> {}, procNoiseMap |-> {}, initNoiseMap |-> {},
     lsqRequired |-> FALSE, rtsFilterInProgress |-> FALSE, step |-> 0]

InitFilterEpoch(f) ==
    [f EXCEPT !.stateTransitionMap = [k \in DOMAIN f.kfIndexMap |-> k],
              !.initNoiseMap = {}]

(* removeState for every key of S; initNoiseMap is not touched.             *)
RemoveStates(f, S) ==
    [f EXCEPT !.stateTransitionMap = [k \in DOMAIN @ \ S |-> @[k]],
              !.rateTransitionMap = @ \ S,
              !.procNoiseMap = @ \ S]

(* Mutant: each call says anew whether least squares are required.          *)
AddAndForget(f, S) ==
    LET old == f.stateTransitionMap
        fresh == S \ DOMAIN old
    IN  [f EXCEPT !.stateTransitionMap =
                      [k \in DOMAIN old \cup S |-> IF k \in fresh THEN ONE ELSE old[k]],
                  !.initNoiseMap = @ \cup fresh,
                  !.procNoiseMap = @ \cup S,
                  !.lsqRequired = fresh \cap Uninitialised # {}]

(* Mutant: a state that still has an index is an existing one.              *)
AddUnlessIndexed(f, S) ==
    LET old == f.stateTransitionMap
        fresh == S \ DOMAIN f.kfIndexMap
    IN  [f EXCEPT !.stateTransitionMap =
                      [k \in DOMAIN old \cup fresh |-> IF k \in fresh THEN ONE ELSE old[k]],
                  !.initNoiseMap = @ \cup fresh,
                  !.procNoiseMap = @ \cup S,
                  !.lsqRequired = @ \/ fresh \cap Uninitialised # {}]

(* addKFState for every key of S: a key of the transition matrix only has   *)
(* its process noise set again.                                             *)
AddKFStates(f, S) ==
    LET old == f.stateTransitionMap
        fresh == S \ DOMAIN old
    IN  [f EXCEPT !.stateTransitionMap =
                      [k \in DOMAIN old \cup S |-> IF k \in fresh THEN ONE ELSE old[k]],
                  !.initNoiseMap = @ \cup fresh,
                  !.procNoiseMap = @ \cup S,
                  !.lsqRequired = @ \/ fresh \cap Uninitialised # {}]

(* setKFTransRate for the states of S that have a rate.                     *)
SetKFTransRates(f, S) ==
    LET dests == S \cap DOMAIN RateOf
    IN  [AddKFStates(f, {RateOf[d] : d \in dests}) EXCEPT !.rateTransitionMap = @ \cup dests]

-----------------------------------------------------------------------------
(* stateTransition: F * x, and the diagonal of F * P * F' + Q0.             *)

Gap(f, newTime) == IF f.time = NoTime THEN 0 ELSE newTime - f.time

AwaitsLeastSquares(f, k) == k \in f.initNoiseMap /\ k \in Uninitialised

(* The diagonal of Q0 before the noise of the rates.                        *)
Noise(f, gap, k) ==
    \/ k \in f.initNoiseMap /\ k \notin Uninitialised
    \/ /\ k \in f.procNoiseMap /\ k \in Noisy
       /\ ~ AwaitsLeastSquares(f, k)
       /\ gap # 0

(* What the rate of k adds to the variance of k: the variance it had, by F, *)
(* and its own noise.                                                       *)
RateVariance(f, gap, k) ==
    /\ k \in f.rateTransitionMap
    /\ gap # 0
    /\ \/ /\ RateOf[k] \in DOMAIN f.kfIndexMap
          /\ f.P[f.kfIndexMap[RateOf[k]]]
       \/ /\ ~ AwaitsLeastSquares(f, k)
          /\ RateOf[k] \in DOMAIN f.stateTransitionMap
          /\ Noise(f, gap, RateOf[k])

Fresh(f, k) == f.stateTransitionMap[k] # k

(* Mutant: the value is looked for where the state will be.                 *)
CarriedByNewIndex(f, newTime, k) ==
    LET i == IndexMap(DOMAIN f.stateTransitionMap)[k]
    IN  IF Fresh(f, k) \/ i \notin DOMAIN f.x
        THEN [key |-> k, born |-> newTime,
              from |-> IF k \in Uninitialised THEN "unset" ELSE "prior"]
        ELSE f.x[i]

CarriedValue(f, newTime, k) ==
    IF Fresh(f, k)
    THEN [key |-> k, born |-> newTime,
          from |-> IF k \in Uninitialised THEN "unset" ELSE "prior"]
    ELSE f.x[f.kfIndexMap[k]]

CarriedVariance(f, gap, k) ==
    \/ ~ Fresh(f, k) /\ f.P[f.kfIndexMap[k]]
    \/ Noise(f, gap, k)
    \/ RateVariance(f, gap, k)

(* Mutant: the map of indices is not replaced.                              *)
TransitionOldIndex(f, newTime) ==
    LET S == DOMAIN f.stateTransitionMap
        index == IndexMap(S)
    IN  IF S = {}
        THEN [f EXCEPT !.time = newTime]
        ELSE [f EXCEPT !.time = newTime,
                       !.x = [i \in Rows(S) |-> CarriedValue(f, newTime, KeyAt(index, i))],
                       !.P = [i \in Rows(S) |-> CarriedVariance(f, Gap(f, newTime), KeyAt(index, i))],
                       !.step = @ + 1]

StateTransition(f, newTime) ==
    LET S == DOMAIN f.stateTransitionMap
        index == IndexMap(S)
    IN  IF S = {}
        THEN [f EXCEPT !.time = newTime]
        ELSE [f EXCEPT !.time = newTime,
                       !.x = [i \in Rows(S) |-> CarriedValue(f, newTime, KeyAt(index, i))],
                       !.P = [i \in Rows(S) |-> CarriedVariance(f, Gap(f, newTime), KeyAt(index, i))],
                       !.kfIndexMap = index,
                       !.step = @ + 1]

-----------------------------------------------------------------------------
(* combineKFMeasList: a list with a key that is not in the filter becomes   *)
(* an empty one.  A measurement is the set of the keys of its entries.      *)
NoMeasurements == [m \in {} |-> {}]

CombineKFMeasList(f, list) ==
    IF \A m \in DOMAIN list : list[m] \subseteq DOMAIN f.kfIndexMap
    THEN list ELSE NoMeasurements

Variance(f, k) == f.P[f.kfIndexMap[k]]

(* Values and variances of the states of S become estimates.                *)
Estimated(f, S) ==
    LET rows == {f.kfIndexMap[k] : k \in S}
    IN  [f EXCEPT !.x = [i \in DOMAIN f.x |-> IF i \in rows THEN [f.x[i] EXCEPT !.from = "est"]
                                              ELSE f.x[i]],
                  !.P = [i \in DOMAIN f.P |-> i \in rows \/ f.P[i]]]

(* leastSquareInitStates: the measurements that involve a state without     *)
(* variance, with a pseudo measurement of each other state they involve,    *)
(* determine what they involve, when they are at least as many.             *)
LeastSquareInitStates(f, list) ==
    LET new == {k \in DOMAIN f.kfIndexMap \ {ONE} : ~ Variance(f, k)}
        used == {m \in DOMAIN list : list[m] \cap new # {}}
        involved == UNION {list[m] : m \in used}
        known == {k \in involved : Variance(f, k)}
    IN  IF Cardinality(used) + Cardinality(known) < Cardinality(involved)
        THEN f
        ELSE Estimated(f, involved \ known)

(* filterKalman: a measurement update says nothing of a state without       *)
(* variance, and an empty list nothing at all.                              *)
FilterKalman(f, measTime, list) ==
    LET g == [f EXCEPT !.time = measTime, !.rtsFilterInProgress = FALSE]
    IN  IF DOMAIN list = {} THEN g
        ELSE Estimated(g, {k \in DOMAIN g.kfIndexMap : Variance(g, k)})
=============================================================================
