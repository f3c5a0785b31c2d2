--------------------------- MODULE KFStateProofs ---------------------------
(***************************************************************************)
(* What the operations of KFState do to a filter: rows and keys correspond *)
(* one to one, a transition and an update keep the filter in shape, and a  *)
(* value stays with the key it was made for.                               *)
(***************************************************************************)
EXTENDS KFState, FiniteSetTheorems, FunctionTheorems, TLAPS

(* The states are natural numbers, ONE the least of them.                   *)
LEMMA KeysAreNat == AllKeys \subseteq Nat /\ IsFiniteSet(AllKeys) /\ ONE \in AllKeys
  <1>1. IsFiniteSet(Keys \cup {ONE})
    BY FilterConstants, FS_AddElement DEF ConstantsAssumption
  <1> QED BY <1>1, FilterConstants DEF ConstantsAssumption, AllKeys, ONE

(* The keys before a key are fewer than those before a later one.           *)
LEMMA FewerBefore ==
  ASSUME NEW S \in SUBSET AllKeys, NEW j \in S, NEW k \in Nat, j < k
  PROVE  /\ Cardinality({i \in S : i < j}) \in Nat
         /\ Cardinality({i \in S : i < k}) \in Nat
         /\ Cardinality({i \in S : i < j}) < Cardinality({i \in S : i < k})
  <1> DEFINE A == {i \in S : i < j}
             B == {i \in S : i < k}
  <1>1. IsFiniteSet(B) /\ IsFiniteSet(A)
    <2>1. IsFiniteSet(S)
      BY KeysAreNat, FS_Subset
    <2> QED BY <2>1, FS_Subset
  <1>2. A \subseteq B /\ j \in B /\ j \notin A
    <2>1. S \subseteq Nat
      BY KeysAreNat
    <2>2. \A i \in S : i < j => i < k
      BY <2>1
    <2>3. j \in B
      OBVIOUS
    <2>4. j \notin A
      BY <2>1
    <2>5. A \subseteq B
      BY <2>2
    <2> QED BY <2>3, <2>4, <2>5
  <1>3. Cardinality(A) <= Cardinality(B) /\ (Cardinality(B) = Cardinality(A) => B = A)
    BY <1>1, <1>2, FS_Subset
  <1>4. Cardinality(A) \in Nat /\ Cardinality(B) \in Nat
    BY <1>1, FS_CardinalityType
  <1> HIDE DEF A, B
  <1>5. Cardinality(A) < Cardinality(B)
    BY <1>2, <1>3, <1>4
  <1> QED BY <1>4, <1>5 DEF A, B

LEMMA IndexInRows ==
  ASSUME NEW S \in SUBSET AllKeys, NEW k \in S
  PROVE  IndexMap(S)[k] \in Rows(S)
  <1>1. IsFiniteSet(S) /\ Cardinality(S) \in Nat
    BY KeysAreNat, FS_Subset, FS_CardinalityType
  <1>2. {i \in S : i < k} \subseteq S /\ k \notin {i \in S : i < k}
    BY KeysAreNat
  <1>3. IsFiniteSet({i \in S : i < k}) /\ Cardinality({i \in S : i < k}) \in Nat
    BY <1>1, <1>2, FS_Subset, FS_CardinalityType
  <1>4. Cardinality({i \in S : i < k}) < Cardinality(S)
    <2> DEFINE T == {i \in S : i < k}
    <2>1. Cardinality(T) <= Cardinality(S) /\ (Cardinality(S) = Cardinality(T) => S = T)
      BY <1>1, FS_Subset
    <2>2. S # T /\ Cardinality(T) \in Nat
      BY <1>2, <1>3
    <2> HIDE DEF T
    <2>3. Cardinality(T) < Cardinality(S)
      BY <1>1, <2>1, <2>2
    <2> QED BY <2>3 DEF T
  <1> QED BY <1>1, <1>3, <1>4 DEF IndexMap, Rows

LEMMA IndexInjective ==
  ASSUME NEW S \in SUBSET AllKeys, NEW j \in S, NEW k \in S, IndexMap(S)[j] = IndexMap(S)[k]
  PROVE  j = k
  <1>1. j \in Nat /\ k \in Nat
    BY KeysAreNat
  <1>2. Cardinality({i \in S : i < j}) = Cardinality({i \in S : i < k})
    BY DEF IndexMap
  <1>3. ASSUME j < k PROVE FALSE
    <2>1. /\ Cardinality({i \in S : i < j}) \in Nat
          /\ Cardinality({i \in S : i < k}) \in Nat
          /\ Cardinality({i \in S : i < j}) < Cardinality({i \in S : i < k})
      BY <1>1, <1>3, FewerBefore
    <2> QED BY <1>2, <2>1
  <1>4. ASSUME k < j PROVE FALSE
    <2>1. /\ Cardinality({i \in S : i < k}) \in Nat
          /\ Cardinality({i \in S : i < j}) \in Nat
          /\ Cardinality({i \in S : i < k}) < Cardinality({i \in S : i < j})
      BY <1>1, <1>4, FewerBefore
    <2> QED BY <1>2, <2>1
  <1> QED BY <1>1, <1>3, <1>4

(* Every row has a key: as many keys as rows are told apart by them.        *)
LEMMA RowHasKey ==
  ASSUME NEW S \in SUBSET AllKeys, NEW i \in Rows(S)
  PROVE  KeyAt(IndexMap(S), i) \in S /\ IndexMap(S)[KeyAt(IndexMap(S), i)] = i
  <1>1. IsFiniteSet(S) /\ Cardinality(S) \in Nat
    BY KeysAreNat, FS_Subset, FS_CardinalityType
  <1>2. IsFiniteSet(Rows(S)) /\ Cardinality(Rows(S)) = Cardinality(S)
    BY <1>1, FS_Interval DEF Rows
  <1>3. IndexMap(S) \in Injection(S, Rows(S))
    <2>1. IndexMap(S) \in [S -> Rows(S)]
      BY IndexInRows DEF IndexMap
    <2> QED BY <2>1, IndexInjective DEF Injection, IsInjective
  <1>4. IndexMap(S) \in Surjection(S, Rows(S))
    BY <1>2, <1>3, FS_Injection
  <1>5. PICK k \in S : IndexMap(S)[k] = i
    BY <1>4 DEF Surjection
  <1>6. DOMAIN IndexMap(S) = S
    BY DEF IndexMap
  <1> QED BY <1>5, <1>6 DEF KeyAt

LEMMA KeyOfIndex ==
  ASSUME NEW S \in SUBSET AllKeys, NEW k \in S
  PROVE  KeyAt(IndexMap(S), IndexMap(S)[k]) = k
  BY IndexInRows, RowHasKey, IndexInjective

-----------------------------------------------------------------------------
(* A filter whose index map is that of its keys, ONE among them, and whose  *)
(* values are those of their keys.                                          *)
Shaped(f) ==
    /\ f \in FilterType(f)
    /\ DOMAIN f.kfIndexMap \in SUBSET AllKeys
    /\ ONE \in DOMAIN f.kfIndexMap
    /\ \A k \in DOMAIN f.kfIndexMap : f.x[f.kfIndexMap[k]].key = k

(* A transition matrix that keeps states or starts new ones.                *)
MatrixOf(f) ==
    /\ DOMAIN f.stateTransitionMap \in SUBSET AllKeys
    /\ ONE \in DOMAIN f.stateTransitionMap
    /\ \A k \in DOMAIN f.stateTransitionMap : f.stateTransitionMap[k] \in {k, ONE}

KeepsStates(f) ==
    \A k \in DOMAIN f.stateTransitionMap :
        f.stateTransitionMap[k] = k => k \in DOMAIN f.kfIndexMap

(* In a filter with the right shape a key has a row of its own.             *)
LEMMA RowOfKey ==
  ASSUME NEW f, Shaped(f), NEW k \in DOMAIN f.kfIndexMap
  PROVE  /\ f.kfIndexMap[k] \in Rows(DOMAIN f.kfIndexMap)
         /\ f.x[f.kfIndexMap[k]] \in Value
         /\ f.P[f.kfIndexMap[k]] \in BOOLEAN
  <1>1. f.kfIndexMap = IndexMap(DOMAIN f.kfIndexMap)
    BY DEF Shaped, FilterType
  <1>2. IndexMap(DOMAIN f.kfIndexMap)[k] \in Rows(DOMAIN f.kfIndexMap)
    BY IndexInRows DEF Shaped
  <1>3. f.kfIndexMap[k] \in Rows(DOMAIN f.kfIndexMap)
    BY <1>1, <1>2
  <1> QED BY <1>3 DEF Shaped, FilterType

(* What is carried over a transition is a value of the key it is for.       *)
LEMMA CarriedHasKey ==
  ASSUME NEW f, Shaped(f), MatrixOf(f), KeepsStates(f), NEW t \in Nat,
         NEW k \in DOMAIN f.stateTransitionMap
  PROVE  /\ CarriedValue(f, t, k) \in Value
         /\ CarriedValue(f, t, k).key = k
         /\ CarriedVariance(f, Gap(f, t), k) \in BOOLEAN
  <1>1. k \in AllKeys
    BY DEF MatrixOf
  <1>2. CASE Fresh(f, k)
    BY <1>1, <1>2 DEF CarriedValue, CarriedVariance, Value, Noise, RateVariance
  <1>3. CASE ~ Fresh(f, k)
    <2>1. k \in DOMAIN f.kfIndexMap
      BY <1>3 DEF Fresh, KeepsStates
    <2> QED BY <1>3, <2>1, RowOfKey DEF CarriedValue, CarriedVariance, Shaped
  <1> QED BY <1>2, <1>3

LEMMA TransitionFields ==
  ASSUME NEW f, Shaped(f), MatrixOf(f), KeepsStates(f), NEW t \in Nat
  PROVE  LET g == StateTransition(f, t)
             D == DOMAIN f.stateTransitionMap
         IN  /\ Shaped(g) /\ MatrixOf(g)
             /\ DOMAIN g.kfIndexMap = D
             /\ g.time = t /\ g.step = f.step + 1
             /\ g.stateTransitionMap = f.stateTransitionMap
             /\ g.initNoiseMap = f.initNoiseMap
             /\ g.lsqRequired = f.lsqRequired
             /\ \A k \in D : /\ g.x[g.kfIndexMap[k]] = CarriedValue(f, t, k)
                            /\ g.P[g.kfIndexMap[k]] = CarriedVariance(f, Gap(f, t), k)
  <1> DEFINE D == DOMAIN f.stateTransitionMap
             index == IndexMap(D)
             X == [i \in Rows(D) |-> CarriedValue(f, t, KeyAt(index, i))]
             V == [i \in Rows(D) |-> CarriedVariance(f, Gap(f, t), KeyAt(index, i))]
             g == StateTransition(f, t)
  <1>1. D \in SUBSET AllKeys /\ ONE \in D /\ DOMAIN index = D
    BY DEF MatrixOf, IndexMap
  <1>2. \A i \in Rows(D) : KeyAt(index, i) \in D
    BY <1>1, RowHasKey
  <1>3. X \in [Rows(D) -> Value] /\ V \in [Rows(D) -> BOOLEAN]
    BY <1>2, CarriedHasKey
  <1>4. \A k \in D : index[k] \in Rows(D) /\ KeyAt(index, index[k]) = k
    BY <1>1, IndexInRows, KeyOfIndex
  <1>5. \A k \in D : X[index[k]] = CarriedValue(f, t, k) /\ V[index[k]] = CarriedVariance(f, Gap(f, t), k)
    BY <1>4
  <1>6. ASSUME NEW k \in D PROVE X[index[k]].key = k
    <2>1. CarriedValue(f, t, k).key = k
      BY CarriedHasKey
    <2>2. X[index[k]] = CarriedValue(f, t, k)
      BY <1>5
    <2> QED BY <2>1, <2>2
  <1>7. g = [f EXCEPT !.time = t, !.x = X, !.P = V, !.kfIndexMap = index, !.step = @ + 1]
    BY <1>1 DEF StateTransition
  <1> HIDE DEF X, V, index, g
  <1>8. f \in FilterType(f)
    BY DEF Shaped
  <1>9. /\ g.time = t /\ g.x = X /\ g.P = V /\ g.kfIndexMap = index /\ g.step = f.step + 1
        /\ g.stateTransitionMap = f.stateTransitionMap
        /\ g.initNoiseMap = f.initNoiseMap /\ g.lsqRequired = f.lsqRequired
    BY <1>7, <1>8 DEF FilterType
  <1>10. g \in FilterType(g)
    <2>1. DOMAIN g.kfIndexMap = D /\ g.kfIndexMap = IndexMap(D)
      BY <1>1, <1>9 DEF index
    <2>2. /\ g.stateTransitionMap \in [DOMAIN g.stateTransitionMap -> AllKeys]
          /\ g.time \in Nat /\ g.step \in Nat
      BY <1>8, <1>9 DEF FilterType
    <2> QED BY <1>3, <1>7, <1>8, <1>9, <2>1, <2>2 DEF FilterType
  <1>11. Shaped(g) /\ MatrixOf(g)
    BY <1>1, <1>6, <1>9, <1>10 DEF Shaped, MatrixOf
  <1> QED BY <1>1, <1>5, <1>9, <1>11 DEF g

-----------------------------------------------------------------------------
(* The operations on the matrix keep the shape of the filter, its values    *)
(* and its indices.                                                         *)

SameStates(f, g) ==
    /\ g.kfIndexMap = f.kfIndexMap /\ g.x = f.x /\ g.P = f.P
    /\ g.time = f.time /\ g.step = f.step
    /\ g.rtsFilterInProgress = f.rtsFilterInProgress

LEMMA InitFilterEpochKeeps ==
  ASSUME NEW f, Shaped(f)
  PROVE  LET g == InitFilterEpoch(f)
         IN  /\ Shaped(g) /\ MatrixOf(g) /\ KeepsStates(g) /\ SameStates(f, g)
             /\ g.stateTransitionMap = [k \in DOMAIN f.kfIndexMap |-> k]
             /\ g.initNoiseMap = {} /\ g.lsqRequired = f.lsqRequired
             /\ g.rateTransitionMap = f.rateTransitionMap
  <1> DEFINE g == InitFilterEpoch(f)
  <1>1. /\ SameStates(f, g)
        /\ g.stateTransitionMap = [k \in DOMAIN f.kfIndexMap |-> k]
        /\ g.initNoiseMap = {} /\ g.lsqRequired = f.lsqRequired
        /\ g.rateTransitionMap = f.rateTransitionMap
    BY DEF Shaped, FilterType, InitFilterEpoch, SameStates
  <1>2. g \in FilterType(g)
    <2>1. f \in FilterType(f) /\ DOMAIN f.kfIndexMap \in SUBSET AllKeys
      BY DEF Shaped
    <2>2. g.stateTransitionMap \in [DOMAIN g.stateTransitionMap -> AllKeys]
      BY <1>1, <2>1
    <2> QED BY <1>1, <2>1, <2>2 DEF FilterType, InitFilterEpoch, SameStates
  <1>3. Shaped(g) /\ MatrixOf(g) /\ KeepsStates(g)
    <2> HIDE DEF g
    <2> QED BY <1>1, <1>2 DEF Shaped, SameStates, MatrixOf, KeepsStates
  <1> QED BY <1>1, <1>3

LEMMA RemoveStatesKeeps ==
  ASSUME NEW f, Shaped(f), MatrixOf(f), KeepsStates(f), NEW S \in SUBSET Keys
  PROVE  LET g == RemoveStates(f, S)
         IN  /\ Shaped(g) /\ MatrixOf(g) /\ KeepsStates(g) /\ SameStates(f, g)
             /\ g.stateTransitionMap = [k \in DOMAIN f.stateTransitionMap \ S |->
                                          f.stateTransitionMap[k]]
             /\ g.initNoiseMap = f.initNoiseMap /\ g.lsqRequired = f.lsqRequired
             /\ g.rateTransitionMap = f.rateTransitionMap \ S
  <1> DEFINE g == RemoveStates(f, S)
  <1>1. /\ SameStates(f, g)
        /\ g.stateTransitionMap = [k \in DOMAIN f.stateTransitionMap \ S |-> f.stateTransitionMap[k]]
        /\ g.initNoiseMap = f.initNoiseMap /\ g.lsqRequired = f.lsqRequired
        /\ g.rateTransitionMap = f.rateTransitionMap \ S
    BY DEF Shaped, FilterType, RemoveStates, SameStates
  <1>2. g \in FilterType(g)
    <2>1. f \in FilterType(f)
      BY DEF Shaped
    <2>2. g.stateTransitionMap \in [DOMAIN g.stateTransitionMap -> AllKeys]
      BY <1>1, <2>1 DEF FilterType
    <2> QED BY <1>1, <2>1, <2>2 DEF FilterType, RemoveStates, SameStates
  <1>3. ONE \notin S
    BY FilterConstants DEF ConstantsAssumption
  <1>4. Shaped(g) /\ MatrixOf(g) /\ KeepsStates(g)
    <2> HIDE DEF g
    <2> QED BY <1>1, <1>2, <1>3 DEF Shaped, SameStates, MatrixOf, KeepsStates
  <1> QED BY <1>1, <1>4

LEMMA AddKFStatesKeeps ==
  ASSUME NEW f, Shaped(f), MatrixOf(f), KeepsStates(f), NEW S \in SUBSET Keys
  PROVE  LET g == AddKFStates(f, S)
             fresh == S \ DOMAIN f.stateTransitionMap
         IN  /\ Shaped(g) /\ MatrixOf(g) /\ KeepsStates(g) /\ SameStates(f, g)
             /\ g.stateTransitionMap = [k \in DOMAIN f.stateTransitionMap \cup S |->
                                          IF k \in fresh THEN ONE ELSE f.stateTransitionMap[k]]
             /\ g.initNoiseMap = f.initNoiseMap \cup fresh
             /\ g.lsqRequired = (f.lsqRequired \/ fresh \cap Uninitialised # {})
             /\ g.rateTransitionMap = f.rateTransitionMap
  <1> DEFINE g == AddKFStates(f, S)
             fresh == S \ DOMAIN f.stateTransitionMap
  <1>1. /\ SameStates(f, g)
        /\ g.stateTransitionMap = [k \in DOMAIN f.stateTransitionMap \cup S |->
                                     IF k \in fresh THEN ONE ELSE f.stateTransitionMap[k]]
        /\ g.initNoiseMap = f.initNoiseMap \cup fresh
        /\ g.lsqRequired = (f.lsqRequired \/ fresh \cap Uninitialised # {})
        /\ g.rateTransitionMap = f.rateTransitionMap
        /\ g.procNoiseMap = f.procNoiseMap \cup S
    BY DEF Shaped, FilterType, AddKFStates, SameStates
  <1>2. S \subseteq AllKeys /\ ONE \in AllKeys /\ ONE \notin S
    BY FilterConstants DEF ConstantsAssumption, AllKeys
  <1>3. g \in FilterType(g)
    <2>1. f \in FilterType(f)
      BY DEF Shaped
    <2>2. g.stateTransitionMap \in [DOMAIN g.stateTransitionMap -> AllKeys]
      BY <1>1, <1>2, <2>1 DEF FilterType
    <2>3. g.initNoiseMap \in SUBSET AllKeys /\ g.procNoiseMap \in SUBSET AllKeys /\ g.lsqRequired \in BOOLEAN
      BY <1>1, <1>2, <2>1 DEF FilterType
    <2> QED BY <1>1, <2>1, <2>2, <2>3 DEF FilterType, AddKFStates, SameStates
  <1>4. Shaped(g) /\ MatrixOf(g) /\ KeepsStates(g)
    <2> HIDE DEF g
    <2>1. Shaped(g)
      BY <1>1, <1>3 DEF Shaped, SameStates
    <2>2. MatrixOf(g)
      BY <1>1, <1>2 DEF MatrixOf
    <2>3. KeepsStates(g)
      BY <1>1, <1>2 DEF KeepsStates, SameStates
    <2> QED BY <2>1, <2>2, <2>3
  <1> QED BY <1>1, <1>4

LEMMA SetKFTransRatesKeeps ==
  ASSUME NEW f, Shaped(f), MatrixOf(f), KeepsStates(f), NEW S \in SUBSET Keys
  PROVE  LET g == SetKFTransRates(f, S)
             rates == {RateOf[d] : d \in S \cap DOMAIN RateOf}
             fresh == rates \ DOMAIN f.stateTransitionMap
         IN  /\ Shaped(g) /\ MatrixOf(g) /\ KeepsStates(g) /\ SameStates(f, g)
             /\ g.stateTransitionMap = [k \in DOMAIN f.stateTransitionMap \cup rates |->
                                          IF k \in fresh THEN ONE ELSE f.stateTransitionMap[k]]
             /\ g.initNoiseMap = f.initNoiseMap \cup fresh
             /\ g.lsqRequired = (f.lsqRequired \/ fresh \cap Uninitialised # {})
             /\ g.rateTransitionMap = f.rateTransitionMap \cup (S \cap DOMAIN RateOf)
  <1> DEFINE g == SetKFTransRates(f, S)
             rates == {RateOf[d] : d \in S \cap DOMAIN RateOf}
             fresh == rates \ DOMAIN f.stateTransitionMap
             h == AddKFStates(f, rates)
  <1>1. rates \in SUBSET Keys
    BY FilterConstants DEF ConstantsAssumption
  <1> HIDE DEF rates
  <1>2. Shaped(h) /\ MatrixOf(h) /\ KeepsStates(h) /\ SameStates(f, h)
    BY <1>1, AddKFStatesKeeps
  <1>3. g = [h EXCEPT !.rateTransitionMap = @ \cup (S \cap DOMAIN RateOf)]
    BY DEF SetKFTransRates, rates
  <1>4. h.rateTransitionMap = f.rateTransitionMap
    BY <1>1, AddKFStatesKeeps
  <1>5. h \in FilterType(h)
    BY <1>2 DEF Shaped
  <1>6. /\ h.stateTransitionMap = [k \in DOMAIN f.stateTransitionMap \cup rates |->
                                      IF k \in fresh THEN ONE ELSE f.stateTransitionMap[k]]
        /\ h.initNoiseMap = f.initNoiseMap \cup fresh
        /\ h.lsqRequired = (f.lsqRequired \/ fresh \cap Uninitialised # {})
    BY <1>1, AddKFStatesKeeps
  <1> HIDE DEF g, h
  <1>7. /\ g.rateTransitionMap = f.rateTransitionMap \cup (S \cap DOMAIN RateOf)
        /\ g.stateTransitionMap = h.stateTransitionMap /\ g.initNoiseMap = h.initNoiseMap
        /\ g.lsqRequired = h.lsqRequired
        /\ SameStates(h, g)
    BY <1>3, <1>4, <1>5 DEF FilterType, SameStates
  <1>8. g \in FilterType(g)
    BY <1>3, <1>5, <1>7 DEF FilterType, SameStates
  <1>9. Shaped(g) /\ MatrixOf(g) /\ KeepsStates(g)
    BY <1>2, <1>7, <1>8 DEF Shaped, MatrixOf, KeepsStates, SameStates
  <1>10. SameStates(f, g)
    BY <1>2, <1>7 DEF SameStates
  <1> QED BY <1>7, <1>9, <1>10, <1>6 DEF g, rates

-----------------------------------------------------------------------------
(* Measurements: the values of the states of S become estimates, the others *)
(* stay, and nothing loses its variance.                                    *)

SameMatrix(f, g) ==
    /\ g.kfIndexMap = f.kfIndexMap /\ g.step = f.step
    /\ g.stateTransitionMap = f.stateTransitionMap
    /\ g.initNoiseMap = f.initNoiseMap
    /\ g.rateTransitionMap = f.rateTransitionMap

Improves(f, g) ==
    \A k \in DOMAIN f.kfIndexMap :
        /\ g.x[f.kfIndexMap[k]] \in {f.x[f.kfIndexMap[k]], [f.x[f.kfIndexMap[k]] EXCEPT !.from = "est"]}
        /\ f.P[f.kfIndexMap[k]] => g.P[f.kfIndexMap[k]]

LEMMA EstimatedKeeps ==
  ASSUME NEW f, Shaped(f), NEW S \in SUBSET DOMAIN f.kfIndexMap
  PROVE  LET g == Estimated(f, S)
         IN  /\ Shaped(g) /\ SameMatrix(f, g) /\ Improves(f, g)
             /\ g.time = f.time /\ g.lsqRequired = f.lsqRequired
             /\ g.rtsFilterInProgress = f.rtsFilterInProgress
  <1> DEFINE D == DOMAIN f.kfIndexMap
             rows == {f.kfIndexMap[k] : k \in S}
             X == [i \in DOMAIN f.x |-> IF i \in rows THEN [f.x[i] EXCEPT !.from = "est"] ELSE f.x[i]]
             V == [i \in DOMAIN f.P |-> i \in rows \/ f.P[i]]
             g == Estimated(f, S)
  <1>1. f.x \in [Rows(D) -> Value] /\ f.P \in [Rows(D) -> BOOLEAN] /\ f \in FilterType(f)
    BY DEF Shaped, FilterType
  <1>2. V \in [Rows(D) -> BOOLEAN]
    BY <1>1
  <1>3. X \in [Rows(D) -> Value]
    <2>1. \A v \in Value : [v EXCEPT !.from = "est"] \in Value
      BY DEF Value
    <2> QED BY <1>1, <2>1
  <1>4. \A k \in D : f.kfIndexMap[k] \in Rows(D)
    BY RowOfKey
  <1>5. \A k \in D : /\ X[f.kfIndexMap[k]] \in {f.x[f.kfIndexMap[k]], [f.x[f.kfIndexMap[k]] EXCEPT !.from = "est"]}
                     /\ f.P[f.kfIndexMap[k]] => V[f.kfIndexMap[k]]
    BY <1>1, <1>4
  <1>6. \A k \in D : X[f.kfIndexMap[k]].key = k
    <2> SUFFICES ASSUME NEW k \in D PROVE X[f.kfIndexMap[k]].key = k
      OBVIOUS
    <2>1. f.x[f.kfIndexMap[k]] \in Value /\ f.x[f.kfIndexMap[k]].key = k
      BY RowOfKey DEF Shaped
    <2>2. [f.x[f.kfIndexMap[k]] EXCEPT !.from = "est"].key = k
      BY <2>1 DEF Value
    <2> QED BY <1>5, <2>1, <2>2
  <1>7. g = [f EXCEPT !.x = X, !.P = V]
    BY DEF Estimated
  <1> HIDE DEF X, V, g, rows
  <1>8. /\ g.x = X /\ g.P = V /\ SameMatrix(f, g)
        /\ g.time = f.time /\ g.lsqRequired = f.lsqRequired
        /\ g.rtsFilterInProgress = f.rtsFilterInProgress
    BY <1>1, <1>7 DEF FilterType, SameMatrix
  <1>9. g \in FilterType(g)
    BY <1>1, <1>2, <1>3, <1>7, <1>8 DEF FilterType, SameMatrix
  <1>10. Shaped(g)
    BY <1>6, <1>8, <1>9 DEF Shaped, SameMatrix
  <1>11. Improves(f, g)
    BY <1>5, <1>8 DEF Improves
  <1> QED BY <1>8, <1>10, <1>11 DEF g

LEMMA LeastSquareKeeps ==
  ASSUME NEW f, Shaped(f), NEW list,
         \A m \in DOMAIN list : list[m] \subseteq DOMAIN f.kfIndexMap
  PROVE  LET g == LeastSquareInitStates(f, list)
         IN  /\ Shaped(g) /\ SameMatrix(f, g) /\ Improves(f, g)
             /\ g.time = f.time /\ g.rtsFilterInProgress = f.rtsFilterInProgress
  <1> DEFINE new == {k \in DOMAIN f.kfIndexMap \ {ONE} : ~ Variance(f, k)}
             used == {m \in DOMAIN list : list[m] \cap new # {}}
             involved == UNION {list[m] : m \in used}
             known == {k \in involved : Variance(f, k)}
             g == LeastSquareInitStates(f, list)
  <1>1. involved \ known \in SUBSET DOMAIN f.kfIndexMap
    OBVIOUS
  <1>2. g = f \/ g = Estimated(f, involved \ known)
    BY DEF LeastSquareInitStates
  <1>3. Shaped(f) /\ SameMatrix(f, f) /\ Improves(f, f)
    BY DEF SameMatrix, Improves
  <1> HIDE DEF involved, known, g
  <1>4. CASE g = f
    BY <1>3, <1>4 DEF g
  <1>5. CASE g = Estimated(f, involved \ known)
    BY <1>1, <1>5, EstimatedKeeps DEF g
  <1> QED BY <1>2, <1>4, <1>5

LEMMA FilterKalmanKeeps ==
  ASSUME NEW f, Shaped(f), NEW t \in Nat, NEW list
  PROVE  LET g == FilterKalman(f, t, list)
         IN  /\ Shaped(g) /\ SameMatrix(f, g) /\ Improves(f, g)
             /\ g.time = t /\ g.lsqRequired = f.lsqRequired
             /\ g.rtsFilterInProgress = FALSE
  <1> DEFINE h == [f EXCEPT !.time = t, !.rtsFilterInProgress = FALSE]
             known == {k \in DOMAIN h.kfIndexMap : Variance(h, k)}
             g == FilterKalman(f, t, list)
  <1>1. /\ h.kfIndexMap = f.kfIndexMap /\ h.x = f.x /\ h.P = f.P
        /\ SameMatrix(f, h) /\ h.time = t /\ h.lsqRequired = f.lsqRequired
        /\ h.rtsFilterInProgress = FALSE
    BY DEF Shaped, FilterType, SameMatrix
  <1>2. Shaped(h)
    <2>1. h \in FilterType(h)
      BY <1>1 DEF Shaped, FilterType, SameMatrix
    <2> HIDE DEF h
    <2> QED BY <1>1, <2>1 DEF Shaped
  <1>3. known \in SUBSET DOMAIN h.kfIndexMap
    OBVIOUS
  <1>4. g = h \/ g = Estimated(h, known)
    BY DEF FilterKalman
  <1> HIDE DEF h, known, g
  <1>5. CASE g = h
    BY <1>1, <1>2, <1>5 DEF g, Improves
  <1>6. CASE g = Estimated(h, known)
    <2>1. /\ Shaped(g) /\ SameMatrix(h, g) /\ Improves(h, g)
          /\ g.time = h.time /\ g.lsqRequired = h.lsqRequired
          /\ g.rtsFilterInProgress = h.rtsFilterInProgress
      BY <1>2, <1>3, <1>6, EstimatedKeeps
    <2>2. SameMatrix(f, g)
      BY <1>1, <2>1 DEF SameMatrix
    <2>3. Improves(f, g)
      BY <1>1, <2>1 DEF Improves
    <2> QED BY <1>1, <2>1, <2>2, <2>3 DEF g
  <1> QED BY <1>4, <1>5, <1>6

LEMMA NewFilterShaped == Shaped(NewFilter)
  <1>1. DOMAIN NewFilter.kfIndexMap = {ONE}
    BY DEF NewFilter
  <1>2. Rows({ONE}) = {0}
    <2>1. Cardinality({ONE}) = 1
      BY FS_Singleton
    <2> QED BY <2>1 DEF Rows
  <1>3. NewFilter.kfIndexMap = IndexMap({ONE})
    <2>1. {j \in {ONE} : j < ONE} = {}
      BY DEF ONE
    <2>2. Cardinality({j \in {ONE} : j < ONE}) = 0
      BY <2>1, FS_EmptySet
    <2>3. IndexMap({ONE}) = [k \in {ONE} |-> 0]
      BY <2>2 DEF IndexMap
    <2> QED BY <2>3 DEF NewFilter
  <1>4. NewFilter.x \in [{0} -> Value] /\ NewFilter.x[0].key = ONE
    BY KeysAreNat DEF NewFilter, Value
  <1>5. NewFilter \in FilterType(NewFilter)
    BY <1>1, <1>2, <1>3, <1>4 DEF FilterType, NewFilter, NoTime
  <1>6. NewFilter.kfIndexMap[ONE] = 0
    BY DEF NewFilter
  <1> QED BY <1>1, <1>4, <1>5, <1>6, KeysAreNat DEF Shaped
=============================================================================
