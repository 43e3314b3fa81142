-------------------------- MODULE ScdDimensionProofs --------------------------
(***************************************************************************)
(* Proofs about ScdDimension, for every set of members, every source, any  *)
(* length of time and any number of fact loads.                            *)
(***************************************************************************)
EXTENDS ScdDimension, FiniteSetTheorems, WellFoundedInduction, TLAPS

-----------------------------------------------------------------------------
(* Numbers: the greatest of a bounded set, and the ranks of rows.          *)

LEMMA LeastNatural ==
    ASSUME NEW S, S \subseteq Nat, S # {}
    PROVE  \E n \in S : \A m \in S : n <= m
<1> DEFINE Less == {p \in Nat \X Nat : p[1] < p[2]}
<1>1. IsWellFoundedOn(Less, Nat)
  BY NatLessThanWellFounded DEF OpToRel
<1> HIDE DEF Less
<1>2. PICK n \in S : \A m \in S : ~ (<<m, n>> \in Less)
  BY <1>1, WFMin
<1>3. \A m \in S : ~ (m < n)
  BY <1>2 DEF Less
<1> QED BY <1>3

LEMMA GreatestNatural ==
    ASSUME NEW S, S \subseteq Nat, S # {}, NEW b \in Nat, \A k \in S : k <= b
    PROVE  \E n \in S : \A m \in S : m <= n
<1> DEFINE U == {n \in Nat : \A k \in S : k <= n}
<1>1. PICK n \in U : \A m \in U : n <= m
  <2>1. U \subseteq Nat /\ b \in U
    OBVIOUS
  <2> QED BY <2>1, LeastNatural
<1>2. ASSUME n \notin S PROVE FALSE
  <2>1. PICK k \in S : TRUE
    OBVIOUS
  <2>2. n - 1 \in U
    BY <1>1, <1>2, <2>1
  <2> QED BY <1>1, <2>2
<1> QED BY <1>1, <1>2

\* Members and times are numbers; there are finitely many slots.
LEMMA SlotsFinite ==
    /\ IsFiniteSet(Slots)
    /\ \A x \in Slots : /\ x[1] \in Members /\ x[1] \in Nat
                        /\ x[2] \in Times /\ x[2] \in Nat /\ x[2] < Open
                        /\ x = <<x[1], x[2]>>
<1>1. IsFiniteSet(Times)
  BY FS_Interval, BoundsAssumption DEF Times
<1>2. IsFiniteSet(Slots)
  BY <1>1, FS_Product, MembersAssumption DEF Slots
<1>3. Members \subseteq Nat /\ MaxTime \in Nat
  BY MembersAssumption, BoundsAssumption
<1>4. ASSUME NEW x \in Slots
      PROVE  /\ x[1] \in Members /\ x[1] \in Nat
             /\ x[2] \in Times /\ x[2] \in Nat /\ x[2] < Open
             /\ x = <<x[1], x[2]>>
  <2>1. x[1] \in Members /\ x[2] \in 1..MaxTime /\ x = <<x[1], x[2]>>
    BY DEF Slots, Times
  <2> QED BY <1>3, <2>1 DEF Times, Open
<1> QED BY <1>2, <1>4

\* The order in which assign_surrogate_keys numbers rows.
Before(y, x) == \/ y[1] < x[1]
                \/ y[1] = x[1] /\ y[2] < x[2]

LEMMA RankBounded ==
    ASSUME NEW S \in SUBSET Slots, NEW x \in S
    PROVE  Rank(x, S) \in Nat /\ Cardinality(S) \in Nat /\ Rank(x, S) < Cardinality(S)
<1> DEFINE R == {y \in S : Before(y, x)}
<1>1. IsFiniteSet(S)
  BY SlotsFinite, FS_Subset
<1>2. R \subseteq S /\ x \notin R
  BY SlotsFinite DEF Before
<1>3. Rank(x, S) = Cardinality(R)
  BY DEF Rank, Before
<1> HIDE DEF R
<1>4. IsFiniteSet(R) /\ Cardinality(R) <= Cardinality(S)
      /\ (Cardinality(S) = Cardinality(R) => S = R)
  BY <1>1, <1>2, FS_Subset
<1>5. Cardinality(R) \in Nat /\ Cardinality(S) \in Nat
  BY <1>1, <1>4, FS_CardinalityType
<1> QED BY <1>2, <1>3, <1>4, <1>5

\* No two rows that are numbered together get the same number.
LEMMA RankIncreases ==
    ASSUME NEW S \in SUBSET Slots, NEW x \in S, NEW y \in S,
           Before(x, y)
    PROVE  Rank(x, S) < Rank(y, S)
<1> DEFINE R(z) == {w \in S : Before(w, z)}
<1>1. IsFiniteSet(S)
  BY SlotsFinite, FS_Subset
<1>2. R(x) \subseteq R(y) /\ x \in R(y) /\ x \notin R(x) /\ R(y) \subseteq S
  BY SlotsFinite DEF Before
<1>3. Rank(x, S) = Cardinality(R(x)) /\ Rank(y, S) = Cardinality(R(y))
  BY DEF Rank, Before
<1> HIDE DEF R
<1>4. IsFiniteSet(R(y))
  BY <1>1, <1>2, FS_Subset
<1>5. IsFiniteSet(R(x)) /\ Cardinality(R(x)) <= Cardinality(R(y))
      /\ (Cardinality(R(y)) = Cardinality(R(x)) => R(y) = R(x))
  BY <1>2, <1>4, FS_Subset
<1>6. Cardinality(R(x)) \in Nat /\ Cardinality(R(y)) \in Nat
  BY <1>4, <1>5, FS_CardinalityType
<1> QED BY <1>2, <1>3, <1>5, <1>6

LEMMA RankInjective ==
    ASSUME NEW S \in SUBSET Slots, NEW x \in S, NEW y \in S, Rank(x, S) = Rank(y, S)
    PROVE  x = y
<1>1. Rank(x, S) \in Nat /\ Rank(y, S) \in Nat
  BY RankBounded
<1>2. Before(x, y) \/ Before(y, x) \/ x = y
  BY SlotsFinite DEF Before
<1>3. CASE Before(x, y)
  BY <1>1, <1>3, RankIncreases
<1>4. CASE Before(y, x)
  BY <1>1, <1>4, RankIncreases
<1> QED BY <1>2, <1>3, <1>4

\* What a stored row is.
LEMMA RowTypes ==
    ASSUME TypeOK
    PROVE  /\ ghosts \subseteq Nat
           /\ \A x \in Filled : /\ x \in Slots /\ dim[x] \in Rows
                              /\ dim[x].key \in Nat
                              /\ dim[x].end \in Nat /\ dim[x].end <= Open
<1>1. ghosts \subseteq Nat /\ dim \in [Slots -> Rows \cup {None}]
  BY DEF TypeOK
<1>2. \A x \in Filled : x \in Slots /\ dim[x] \in Rows
  BY <1>1 DEF Filled
<1>3. \A r \in Rows : r.key \in Nat /\ r.end \in Times \cup {Open}
  BY DEF Rows
<1>4. \A e \in Times \cup {Open} : e \in Nat /\ e <= Open
  BY BoundsAssumption DEF Times, Open
<1> QED BY <1>1, <1>2, <1>3, <1>4

\* next_surrogate_key exists, and no row on disk has it or a greater one.
LEMMA NextKeyFresh ==
    ASSUME TypeOK, KeysBounded
    PROVE  NextSurrogateKey \in Nat /\ \A k \in KeysOnDisk : k < NextSurrogateKey
<1>1. KeysOnDisk \subseteq Nat /\ 0 \in KeysOnDisk
  BY RowTypes DEF KeysOnDisk
<1>2. PICK b \in Nat : \A k \in KeysOnDisk : k <= b
  BY DEF KeysBounded
<1>3. \E k \in KeysOnDisk : \A j \in KeysOnDisk : j <= k
  BY <1>1, <1>2, GreatestNatural
<1> DEFINE m == CHOOSE k \in KeysOnDisk : \A j \in KeysOnDisk : j <= k
<1>4. m \in KeysOnDisk /\ \A j \in KeysOnDisk : j <= m
  BY <1>3
<1>5. NextSurrogateKey = 1 + m
  BY DEF NextSurrogateKey
<1> HIDE DEF m
<1> QED BY <1>1, <1>4, <1>5
-----------------------------------------------------------------------------
(* Types.                                                                  *)

\* What is inserted, and what was there.
LEMMA InsertTypes ==
    ASSUME TypeOK, NEW rows, Insert(rows), \A x \in DOMAIN rows : rows[x] \in Rows
    PROVE  /\ dim' \in [Slots -> Rows \cup {None}]
           /\ ghosts' \subseteq Nat
           /\ Filled \subseteq Filled'
<1>1. dim' = [x \in Slots |-> IF x \in DOMAIN rows THEN rows[x] ELSE dim[x]]
  BY DEF Insert
<1>2. dim \in [Slots -> Rows \cup {None}]
  BY DEF TypeOK
<1>3. dim' \in [Slots -> Rows \cup {None}]
  BY <1>1, <1>2
<1>4. ghosts' \subseteq Nat
  BY RowTypes DEF Insert
<1>5. \A x \in Filled : dim'[x] # None
  BY <1>1, NoneAssumption DEF Filled
<1> QED BY <1>3, <1>4, <1>5 DEF Filled

\* The rows that the load makes of what staging holds.
LEMMA IncomingTypes ==
    ASSUME TypeOK, NEW m \in Members, incoming[m] # None, NEW k \in Nat
    PROVE  Incoming(m, k) \in Rows
<1>1. incoming[m] \in Attributes
  BY DEF TypeOK
<1>2. incoming[m].t1 \in Type1Values /\ incoming[m].t2 \in Type2Values
  BY <1>1 DEF Attributes
<1> QED BY <1>2 DEF Incoming, Rows

LEMMA NewTypes ==
    ASSUME TypeOK, runTime \in Times
    PROVE  /\ New \X {runTime} \in SUBSET Slots
           /\ Cardinality(New) \in Nat
           /\ \A m \in New : m \in Members /\ incoming[m] # None
<1>1. New \subseteq Members /\ \A m \in New : incoming[m] # None
  BY DEF New
<1>2. IsFiniteSet(New)
  BY <1>1, FS_Subset, MembersAssumption
<1> QED BY <1>1, <1>2, FS_CardinalityType DEF Slots

\* The rows apply_scd finds changed are stored ones.
LEMMA ChangedTypes ==
    ASSUME TypeOK, NEW x \in Type1 \cup Type2
    PROVE  /\ x \in Filled /\ x \in current /\ x[1] \in Members
           /\ incoming[x[1]] # None
<1>1. x \in current /\ incoming[x[1]] # None
  BY DEF Type1, Type2
<1>2. x \in Filled /\ x \in Slots
  BY <1>1 DEF TypeOK, Filled
<1> QED BY <1>1, <1>2, SlotsFinite

LEMMA TypeInit == Init => TypeOK
<1> SUFFICES ASSUME Init PROVE TypeOK
  OBVIOUS
<1>1. 1 \in Times /\ 0 \in 0..MaxTime /\ 0 \in 0..MaxBatches
  BY BoundsAssumption DEF Times
<1> QED BY <1>1 DEF Init, TypeOK, NoRows

\* Inserting keys below a bound.
LEMMA InsertBounded ==
    ASSUME TypeOK, KeysBounded, NEW rows, Insert(rows), NEW b \in Nat,
           \A x \in DOMAIN rows : rows[x].key \in Nat /\ rows[x].key <= b
    PROVE  KeysBounded'
<1>1. PICK c \in Nat : \A k \in KeysOnDisk : k <= c
  BY DEF KeysBounded
<1>2. \A x \in Filled' : dim'[x].key \in KeysOnDisk \/ dim'[x].key \in 0..b
  BY DEF Insert, Filled, KeysOnDisk
<1>3. ghosts' \subseteq KeysOnDisk
  BY DEF Insert, KeysOnDisk
<1>4. KeysOnDisk' \subseteq KeysOnDisk \cup 0..b
  BY <1>2, <1>3 DEF KeysOnDisk
<1>5. KeysOnDisk \subseteq Nat
  BY RowTypes DEF KeysOnDisk
<1>6. PICK d \in Nat : b <= d /\ c <= d
  <2>1. b <= b + c /\ c <= b + c /\ b + c \in Nat
    OBVIOUS
  <2> QED BY <2>1
<1>7. \A k \in KeysOnDisk' : k <= d
  BY <1>1, <1>4, <1>5, <1>6
<1> QED BY <1>7 DEF KeysBounded

\* What the four inserts of a load do to a slot.
LEMMA WriteNewRows ==
    ASSUME TypeOK, WriteNew
    PROVE  LET S == New \X {runTime} IN
           /\ S \in SUBSET Slots
           /\ \A x \in Slots : dim'[x] = IF x \in S THEN Incoming(x[1], nextKey + Rank(x, S))
                                         ELSE dim[x]
           /\ \A x \in S : /\ nextKey + Rank(x, S) \in Nat
                           /\ nextKey + Rank(x, S) < nextKey'
           /\ nextKey' \in Nat /\ nextKey <= nextKey'
<1> DEFINE S == New \X {runTime}
<1>1. runTime \in Times /\ nextKey \in Nat
  BY DEF TypeOK, WriteNew, LoadStep, Times
<1>2. S \in SUBSET Slots /\ Cardinality(New) \in Nat /\ New \subseteq Members
  BY <1>1, NewTypes
<1>3. nextKey' = nextKey + Cardinality(New)
  BY DEF WriteNew
<1>4. \A x \in Slots : dim'[x] = IF x \in S THEN Incoming(x[1], nextKey + Rank(x, S))
                                 ELSE dim[x]
  BY DEF WriteNew, Insert
<1>5. Cardinality(S) = Cardinality(New)
  <2>1. IsFiniteSet(New) /\ IsFiniteSet({runTime}) /\ Cardinality({runTime}) = 1
    BY <1>2, FS_Subset, FS_Singleton, MembersAssumption
  <2>2. Cardinality(S) = Cardinality(New) * 1
    BY <2>1, FS_Product
  <2> QED BY <1>2, <2>2
<1>6. \A x \in S : Rank(x, S) \in Nat /\ Rank(x, S) < Cardinality(S)
  BY <1>2, RankBounded
<1> HIDE DEF S
<1>7. \A x \in S : /\ nextKey + Rank(x, S) \in Nat
                   /\ nextKey + Rank(x, S) < nextKey'
  BY <1>1, <1>2, <1>3, <1>5, <1>6
<1>8. nextKey' \in Nat /\ nextKey <= nextKey'
  BY <1>1, <1>2, <1>3
<1> QED BY <1>2, <1>4, <1>7, <1>8 DEF S

LEMMA WriteOpenedRows ==
    ASSUME TypeOK, WriteOpened
    PROVE  \E from \in [{x[1] : x \in Type2} -> Type2] :
            /\ \A m \in DOMAIN from : from[m][1] = m
            /\ \A x \in Slots : dim'[x] =
                    IF x[1] \in DOMAIN from /\ x[2] = runTime
                    THEN Incoming(x[1], nextKey + Rank(from[x[1]], Type2)) ELSE dim[x]
            /\ Insert([x \in (DOMAIN from) \X {runTime} |->
                        Incoming(x[1], nextKey + Rank(from[x[1]], Type2))])
<1>1. PICK from \in [{x[1] : x \in Type2} -> Type2] :
        /\ \A m \in DOMAIN from : from[m][1] = m
        /\ Insert([x \in (DOMAIN from) \X {runTime} |->
                        Incoming(x[1], nextKey + Rank(from[x[1]], Type2))])
  BY DEF WriteOpened
<1> DEFINE rows == [x \in (DOMAIN from) \X {runTime} |->
                        Incoming(x[1], nextKey + Rank(from[x[1]], Type2))]
<1>2. \A x \in Slots : dim'[x] = IF x \in DOMAIN rows THEN rows[x] ELSE dim[x]
  BY <1>1 DEF Insert
<1>3. \A x \in Slots : x \in DOMAIN rows <=> x[1] \in DOMAIN from /\ x[2] = runTime
  BY SlotsFinite
<1>4. \A x \in DOMAIN rows : rows[x] = Incoming(x[1], nextKey + Rank(from[x[1]], Type2))
  OBVIOUS
<1> HIDE DEF rows
<1>5. \A x \in Slots : dim'[x] =
            IF x[1] \in DOMAIN from /\ x[2] = runTime
            THEN Incoming(x[1], nextKey + Rank(from[x[1]], Type2)) ELSE dim[x]
  BY <1>2, <1>3, <1>4
<1> QED BY <1>1, <1>5

LEMMA LoadStepTypes ==
    ASSUME TypeOK, NEW here, NEW next \in {"idle", "current", "key", "new", "type1",
                                          "close", "open", "finish"},
           LoadStep(here, next), UNCHANGED <<now, runTime, overlapped>>
    PROVE  /\ now' \in Times /\ runTime' \in 0..MaxTime /\ overlapped' \subseteq Members
           /\ pc' \in {"idle", "current", "key", "new", "type1", "close", "open", "finish"}
           /\ fpc' \in {"idle", "stub", "insert", "resolve"}
           /\ batch' \subseteq Members /\ missing' \subseteq batch'
           /\ stubTime' \in Times /\ stubKey' \in Nat /\ batches' \in 0..MaxBatches
           /\ facts' \subseteq Members \X Nat
  BY DEF TypeOK, LoadStep, factLoad

\* A statement of the load that leaves the table alone.
LEMMA LoadReadTypes ==
    ASSUME TypeOK, KeysBounded,
           ReadCurrent \/ ReadKey \/ FinishLoad \/ StartLoad \/ LoadFails
    PROVE  TypeOK' /\ KeysBounded'
<1>1. UNCHANGED table
  BY DEF ReadCurrent, ReadKey, FinishLoad, StartLoad, LoadFails
<1>2. KeysBounded'
  BY <1>1 DEF KeysBounded, KeysOnDisk, Filled, table
<1>3. CASE ReadCurrent
  <2>1. incoming' \in [Members -> Attributes \cup {None}]
    BY <1>3 DEF ReadCurrent, Stagings
  <2>2. current' \subseteq Filled'
    BY <1>1, <1>3 DEF ReadCurrent, IsOpen, Filled, table
  <2>3. runTime' # 0
    BY <1>3 DEF ReadCurrent, LoadStep, TypeOK
  <2>4. UNCHANGED <<table, now, runTime, nextKey, overlapped>> /\ LoadStep("current", "key")
    BY <1>3 DEF ReadCurrent
  <2> QED BY <1>2, <2>1, <2>2, <2>3, <2>4, LoadStepTypes DEF TypeOK, table
<1>4. CASE ReadKey
  <2>1. nextKey' \in Nat
    BY <1>4, NextKeyFresh DEF ReadKey
  <2>2. runTime' # 0
    BY <1>4 DEF ReadKey, LoadStep, TypeOK
  <2>3. UNCHANGED <<table, now, runTime, incoming, current, overlapped>> /\ LoadStep("key", "new")
    BY <1>4 DEF ReadKey
  <2> QED BY <1>2, <2>1, <2>2, <2>3, LoadStepTypes DEF TypeOK, Filled, table
<1>5. CASE FinishLoad
  <2>1. UNCHANGED <<table, now, runTime, overlapped>> /\ LoadStep("finish", "idle") /\ LoadEnds
    BY <1>5 DEF FinishLoad
  <2> QED BY <1>2, <2>1, LoadStepTypes DEF TypeOK, LoadEnds, NoRows, LoadStep, table
<1>6. CASE StartLoad
  <2>1. now' \in Times /\ runTime' \in 0..MaxTime /\ runTime' # 0
    BY <1>6 DEF StartLoad, ReadClock, TypeOK, Times
  <2>2. overlapped' \subseteq Members
    BY <1>6 DEF StartLoad, TypeOK
  <2> QED BY <1>1, <1>2, <1>6, <2>1, <2>2 DEF StartLoad, LoadStep, TypeOK, Filled, table, factLoad
<1>7. CASE LoadFails
  BY <1>1, <1>2, <1>7 DEF LoadFails, LoadEnds, NoRows, TypeOK, table, factLoad
<1> QED BY <1>2, <1>3, <1>4, <1>5, <1>6, <1>7

\* A statement that inserts.
LEMMA LoadWriteTypes ==
    ASSUME TypeOK, KeysBounded,
           WriteNew \/ WriteType1 \/ WriteClosed \/ WriteOpened
    PROVE  TypeOK' /\ KeysBounded'
<1>1. /\ UNCHANGED <<now, runTime, incoming, current, overlapped>>
      /\ \E here, next \in {"new", "type1", "close", "open", "finish"} : LoadStep(here, next)
  BY DEF WriteNew, WriteType1, WriteClosed, WriteOpened
<1>2. runTime' # 0
  BY <1>1 DEF TypeOK, WriteNew, WriteType1, WriteClosed, WriteOpened, LoadStep
<1>3. nextKey' \in Nat
  BY WriteNewRows DEF TypeOK, WriteType1, WriteClosed, WriteOpened
<1>4. SUFFICES ASSUME NEW rows, Insert(rows), NEW b \in Nat,
                      \A x \in DOMAIN rows : /\ rows[x] \in Rows
                                            /\ rows[x].key \in Nat /\ rows[x].key <= b
               PROVE  TypeOK' /\ KeysBounded'
  <2>1. PICK k \in Nat : \A x \in Filled : dim[x].key <= k
    BY DEF KeysBounded, KeysOnDisk
  <2>2. CASE WriteNew
    <3> DEFINE S == New \X {runTime}
               rows == [x \in S |-> Incoming(x[1], nextKey + Rank(x, S))]
    <3>1. Insert(rows)
      BY <2>2 DEF WriteNew
    <3>2. \A x \in S : /\ nextKey + Rank(x, S) \in Nat
                       /\ nextKey + Rank(x, S) < nextKey'
                       /\ x[1] \in New
      BY <2>2, WriteNewRows
    <3>3. \A m \in New : m \in Members /\ incoming[m] # None
      BY DEF New
    <3>4. ASSUME NEW x \in DOMAIN rows
          PROVE  rows[x] \in Rows /\ rows[x].key \in Nat /\ rows[x].key <= nextKey'
      <4>1. rows[x] = Incoming(x[1], nextKey + Rank(x, S)) /\ x \in S
        OBVIOUS
      <4> HIDE DEF S, rows
      <4>2. rows[x] \in Rows
        BY <4>1, <3>2, <3>3, IncomingTypes
      <4>3. rows[x].key = nextKey + Rank(x, S)
        BY <4>1 DEF Incoming
      <4> QED BY <4>1, <4>2, <4>3, <3>2, <1>3
    <3> HIDE DEF rows
    <3> QED BY <1>3, <1>4, <3>1, <3>4
  <2>3. CASE WriteType1
    <3> DEFINE rows == [x \in Type1 |-> Incoming(x[1], dim[x].key)]
    <3>1. Insert(rows)
      BY <2>3 DEF WriteType1
    <3>2. ASSUME NEW x \in DOMAIN rows
          PROVE  rows[x] \in Rows /\ rows[x].key \in Nat /\ rows[x].key <= k
      <4>1. rows[x] = Incoming(x[1], dim[x].key) /\ x \in Type1
        OBVIOUS
      <4>2. x \in Filled /\ x[1] \in Members /\ incoming[x[1]] # None
        BY <4>1, ChangedTypes
      <4>3. rows[x].key = dim[x].key
        BY <4>1 DEF Incoming
      <4> HIDE DEF rows
      <4> QED BY <2>1, <4>1, <4>2, <4>3, RowTypes, IncomingTypes
    <3> HIDE DEF rows
    <3> QED BY <1>4, <2>1, <3>1, <3>2
  <2>4. CASE WriteClosed
    <3> DEFINE rows == [x \in Type2 |-> [dim[x] EXCEPT !.end = runTime]]
    <3>1. Insert(rows)
      BY <2>4 DEF WriteClosed
    <3>2. runTime \in Times
      BY <1>1, <1>2 DEF TypeOK, Times
    <3>3. ASSUME NEW x \in DOMAIN rows
          PROVE  rows[x] \in Rows /\ rows[x].key \in Nat /\ rows[x].key <= k
      <4>1. rows[x] = [dim[x] EXCEPT !.end = runTime] /\ x \in Type2
        OBVIOUS
      <4>2. x \in Filled /\ dim[x] \in Rows
        BY <4>1, ChangedTypes, RowTypes
      <4> HIDE DEF rows
      <4>3. rows[x] \in Rows /\ rows[x].key = dim[x].key
        BY <3>2, <4>1, <4>2 DEF Rows
      <4> QED BY <2>1, <4>2, <4>3, RowTypes
    <3> HIDE DEF rows
    <3> QED BY <1>4, <2>1, <3>1, <3>3
  <2>5. CASE WriteOpened
    <3>1. PICK from \in [{x[1] : x \in Type2} -> Type2] :
            Insert([x \in (DOMAIN from) \X {runTime} |->
                        Incoming(x[1], nextKey + Rank(from[x[1]], Type2))])
      BY <2>5 DEF WriteOpened
    <3> DEFINE rows == [x \in (DOMAIN from) \X {runTime} |->
                        Incoming(x[1], nextKey + Rank(from[x[1]], Type2))]
               most == nextKey + Cardinality(Type2)
    <3>2. Type2 \in SUBSET Slots
      BY ChangedTypes, RowTypes
    <3>3. nextKey \in Nat /\ Cardinality(Type2) \in Nat
      BY <3>2, SlotsFinite, FS_Subset, FS_CardinalityType DEF TypeOK
    <3>4. ASSUME NEW x \in DOMAIN rows
          PROVE  rows[x] \in Rows /\ rows[x].key \in Nat /\ rows[x].key <= most
      <4>1. /\ rows[x] = Incoming(x[1], nextKey + Rank(from[x[1]], Type2))
            /\ x[1] \in {y[1] : y \in Type2}
        OBVIOUS
      <4>2. from[x[1]] \in Type2
        BY <4>1
      <4>3. Rank(from[x[1]], Type2) \in Nat /\ Rank(from[x[1]], Type2) < Cardinality(Type2)
        BY <3>2, <4>2, RankBounded
      <4>4. x[1] \in Members /\ incoming[x[1]] # None
        BY <4>1, ChangedTypes
      <4> HIDE DEF rows
      <4>5. rows[x].key = nextKey + Rank(from[x[1]], Type2)
        BY <4>1 DEF Incoming
      <4>6. nextKey + Rank(from[x[1]], Type2) \in Nat
            /\ nextKey + Rank(from[x[1]], Type2) <= most
        BY <3>3, <4>3
      <4> QED BY <4>1, <4>4, <4>5, <4>6, IncomingTypes
    <3>5. most \in Nat
      BY <3>3
    <3> HIDE DEF rows, most
    <3> QED BY <1>4, <3>1, <3>4, <3>5 DEF rows
  <2> QED BY <2>2, <2>3, <2>4, <2>5
<1>5. /\ dim' \in [Slots -> Rows \cup {None}] /\ ghosts' \subseteq Nat
      /\ Filled \subseteq Filled'
  BY <1>4, InsertTypes
<1>6. KeysBounded'
  BY <1>4, InsertBounded
<1>7. current' \subseteq Filled' /\ incoming' \in [Members -> Attributes \cup {None}]
  BY <1>1, <1>5 DEF TypeOK
<1> QED BY <1>1, <1>2, <1>3, <1>5, <1>6, <1>7, LoadStepTypes DEF TypeOK

\* What the stubs do to a slot.
LEMMA InsertStubsRows ==
    ASSUME TypeOK, InsertStubs
    PROVE  LET S == missing \X {stubTime} IN
           /\ S \in SUBSET Slots
           /\ dim' = [x \in Slots |-> IF x \in S /\ x \notin Filled
                                      THEN Stub(stubKey + Rank(x, S)) ELSE dim[x]]
           /\ ghosts' = ghosts \cup {stubKey + Rank(x, S) : x \in S \cap Filled}
           /\ \A x \in S : stubKey + Rank(x, S) \in Nat /\ stubKey <= stubKey + Rank(x, S)
           /\ \E b \in Nat : \A x \in S : stubKey + Rank(x, S) <= b
<1> DEFINE S == missing \X {stubTime}
<1>1. S \in SUBSET Slots /\ stubKey \in Nat
  BY DEF TypeOK, Slots
<1>2. IsFiniteSet(S) /\ Cardinality(S) \in Nat
  BY <1>1, SlotsFinite, FS_Subset, FS_CardinalityType
<1>3. /\ dim' = [x \in Slots |-> IF x \in S /\ x \notin Filled
                                 THEN Stub(stubKey + Rank(x, S)) ELSE dim[x]]
      /\ ghosts' = ghosts \cup {stubKey + Rank(x, S) : x \in S \cap Filled}
  BY DEF InsertStubs
<1>4. \A x \in S : Rank(x, S) \in Nat /\ Rank(x, S) < Cardinality(S)
  BY <1>1, RankBounded
<1> HIDE DEF S
<1>5. \A x \in S : /\ stubKey + Rank(x, S) \in Nat /\ stubKey <= stubKey + Rank(x, S)
                   /\ stubKey + Rank(x, S) <= stubKey + Cardinality(S)
  BY <1>1, <1>2, <1>4
<1>6. stubKey + Cardinality(S) \in Nat
  BY <1>1, <1>2
<1> QED BY <1>1, <1>3, <1>5, <1>6 DEF S

\* A step of the fact load leaves the nightly load alone.
LEMMA FactStepTypes ==
    ASSUME TypeOK, NEW here, NEW next \in {"idle", "stub", "insert", "resolve"},
           FactStep(here, next)
    PROVE  /\ pc' \in {"idle", "current", "key", "new", "type1", "close", "open", "finish"}
           /\ runTime' \in 0..MaxTime /\ (pc' # "idle" => runTime' # 0)
           /\ incoming' \in [Members -> Attributes \cup {None}]
           /\ nextKey' \in Nat /\ current' = current
           /\ fpc' \in {"idle", "stub", "insert", "resolve"}
  BY DEF TypeOK, FactStep, load

\* Facts take the key of a row, or 0.
LEMMA ResolvedTypes ==
    ASSUME TypeOK, NEW B \in SUBSET Members
    PROVE  Resolved(B) \subseteq Members \X Nat
<1>1. \A x \in Slots : IsOpen(x) => x[1] \in Members /\ dim[x].key \in Nat
  BY RowTypes, SlotsFinite DEF IsOpen, Filled
<1> QED BY <1>1 DEF Resolved

LEMMA FactLoadTypes ==
    ASSUME TypeOK, KeysBounded, FactLoad
    PROVE  TypeOK' /\ KeysBounded'
<1>1. ASSUME UNCHANGED table
      PROVE  /\ KeysBounded' /\ Filled' = Filled
             /\ dim' \in [Slots -> Rows \cup {None}] /\ ghosts' \subseteq Nat
  BY <1>1 DEF KeysBounded, KeysOnDisk, Filled, table, TypeOK
<1>2. current \subseteq Filled
  BY DEF TypeOK
<1>3. ASSUME NEW B \in (SUBSET Members) \ {{}}, LookupHit(B)
      PROVE  TypeOK' /\ KeysBounded'
  <2>1. FactStep("idle", "idle") /\ UNCHANGED table
        /\ UNCHANGED <<now, batch, missing, stubTime, stubKey, overlapped>>
    BY <1>3 DEF LookupHit
  <2>2. batches' \in 0..MaxBatches
    BY <1>3, BoundsAssumption DEF LookupHit, TypeOK
  <2>3. facts' \subseteq Members \X Nat
    BY <1>3, ResolvedTypes DEF LookupHit, TypeOK
  <2> QED BY <1>1, <1>2, <2>1, <2>2, <2>3, FactStepTypes DEF TypeOK
<1>4. ASSUME NEW B \in (SUBSET Members) \ {{}}, LookupMiss(B)
      PROVE  TypeOK' /\ KeysBounded'
  <2>1. FactStep("idle", "stub") /\ UNCHANGED table
        /\ UNCHANGED <<now, stubTime, stubKey, facts>>
    BY <1>4 DEF LookupMiss
  <2>2. batches' \in 0..MaxBatches
    BY <1>4, BoundsAssumption DEF LookupMiss, TypeOK
  <2>3. batch' \subseteq Members /\ missing' \subseteq batch' /\ overlapped' \subseteq Members
    BY <1>4 DEF LookupMiss, TypeOK
  <2> QED BY <1>1, <1>2, <2>1, <2>2, <2>3, FactStepTypes DEF TypeOK
<1>5. CASE ReadStubKey
  <2>1. FactStep("stub", "insert") /\ UNCHANGED table
        /\ UNCHANGED <<batch, missing, batches, facts, overlapped>>
    BY <1>5 DEF ReadStubKey
  <2>2. now' \in Times /\ stubTime' \in Times
    BY <1>5 DEF ReadStubKey, ReadClock, TypeOK, Times
  <2>3. stubKey' \in Nat
    BY <1>5, NextKeyFresh DEF ReadStubKey
  <2> QED BY <1>1, <1>2, <2>1, <2>2, <2>3, FactStepTypes DEF TypeOK
<1>6. CASE InsertStubs
  <2> DEFINE S == missing \X {stubTime}
  <2>1. /\ dim' = [x \in Slots |-> IF x \in S /\ x \notin Filled
                                   THEN Stub(stubKey + Rank(x, S)) ELSE dim[x]]
        /\ ghosts' = ghosts \cup {stubKey + Rank(x, S) : x \in S \cap Filled}
        /\ \A x \in S : stubKey + Rank(x, S) \in Nat /\ stubKey <= stubKey + Rank(x, S)
    BY <1>6, InsertStubsRows
  <2>2. PICK b \in Nat : \A x \in S : stubKey + Rank(x, S) <= b
    BY <1>6, InsertStubsRows
  <2>3. \A k \in Nat : Stub(k) \in Rows /\ Stub(k).key = k
    BY DEF Stub, Rows
  <2>4. dim' \in [Slots -> Rows \cup {None}]
    <3>1. dim \in [Slots -> Rows \cup {None}]
      BY DEF TypeOK
    <3> HIDE DEF S
    <3> QED BY <2>1, <2>3, <3>1
  <2>5. ghosts' \subseteq Nat
    BY <2>1, RowTypes
  <2>6. current \subseteq Filled'
    BY <1>2, <2>1 DEF Filled
  <2>7. KeysBounded'
    <3>1. PICK c \in Nat : \A k \in KeysOnDisk : k <= c
      BY DEF KeysBounded
    <3> HIDE DEF S
    <3>2. \A x \in Filled' : dim'[x].key \in KeysOnDisk \/ dim'[x].key \in 0..b
      <4>1. \A x \in Filled' : x \in Filled \/ (x \in S /\ x \notin Filled)
        BY <2>1 DEF Filled
      <4>2. \A x \in Filled : dim'[x] = dim[x]
        BY <2>1 DEF Filled
      <4>3. ASSUME NEW x \in Filled', x \in S, x \notin Filled
            PROVE  dim'[x].key \in 0..b
        <5>1. dim'[x] = Stub(stubKey + Rank(x, S))
          BY <2>1, <4>3 DEF Filled
        <5>2. stubKey + Rank(x, S) \in 0..b
          BY <2>1, <2>2, <4>3
        <5> QED BY <2>1, <2>3, <4>3, <5>1, <5>2
      <4> QED BY <4>1, <4>2, <4>3 DEF KeysOnDisk
    <3>3. KeysOnDisk' \subseteq KeysOnDisk \cup 0..b
      <4>1. \A k \in ghosts' : k \in ghosts \/ k \in 0..b
        BY <2>1, <2>2
      <4> QED BY <3>2, <4>1 DEF KeysOnDisk
    <3>4. KeysOnDisk \subseteq Nat
      BY RowTypes DEF KeysOnDisk
    <3>5. PICK d \in Nat : b <= d /\ c <= d
      <4>1. b <= b + c /\ c <= b + c /\ b + c \in Nat
        OBVIOUS
      <4> QED BY <4>1
    <3>6. \A k \in KeysOnDisk' : k <= d
      BY <3>1, <3>3, <3>4, <3>5
    <3> QED BY <3>6 DEF KeysBounded
  <2>8. FactStep("insert", "resolve")
        /\ UNCHANGED <<now, batch, missing, stubTime, stubKey, batches, facts, overlapped>>
    BY <1>6 DEF InsertStubs
  <2> HIDE DEF S
  <2> QED BY <2>4, <2>5, <2>6, <2>7, <2>8, FactStepTypes DEF TypeOK
<1>7. CASE Resolve
  <2>1. FactStep("resolve", "idle") /\ UNCHANGED table
        /\ UNCHANGED <<now, batches, overlapped>>
    BY <1>7 DEF Resolve
  <2>2. facts' \subseteq Members \X Nat
    BY <1>7, ResolvedTypes DEF Resolve, TypeOK
  <2>3. batch' = {} /\ missing' = {} /\ stubTime' \in Times /\ stubKey' = 0
    BY <1>7, BoundsAssumption DEF Resolve, FactLoadEnds, Times
  <2> QED BY <1>1, <1>2, <2>1, <2>2, <2>3, FactStepTypes DEF TypeOK
<1>8. CASE FactLoadFails
  <2>1. batch' = {} /\ missing' = {} /\ stubTime' \in Times /\ stubKey' = 0
    BY <1>8, BoundsAssumption DEF FactLoadFails, FactLoadEnds, Times
  <2>2. fpc' = "idle" /\ UNCHANGED table
        /\ UNCHANGED <<now, pc, runTime, incoming, current, nextKey, batches, facts, overlapped>>
    BY <1>8 DEF FactLoadFails, load
  <2> QED BY <1>1, <1>2, <2>1, <2>2 DEF TypeOK
<1> QED BY <1>3, <1>4, <1>5, <1>6, <1>7, <1>8 DEF FactLoad

LEMMA TypeStep == TypeOK /\ KeysBounded /\ [Next]_vars => TypeOK' /\ KeysBounded'
<1> SUFFICES ASSUME TypeOK, KeysBounded, [Next]_vars PROVE TypeOK' /\ KeysBounded'
  OBVIOUS
<1>1. CASE Merge
  <2>1. TypeOK'
    BY <1>1 DEF Merge, TypeOK, Filled, load, factLoad
  <2>2. KeysOnDisk' \subseteq KeysOnDisk
    BY <1>1 DEF Merge, KeysOnDisk, Filled
  <2> QED BY <2>1, <2>2 DEF KeysBounded
<1>2. CASE NightlyLoad
  BY <1>2, LoadReadTypes, LoadWriteTypes DEF NightlyLoad
<1>3. CASE FactLoad
  BY <1>3, FactLoadTypes
<1>4. CASE UNCHANGED vars
  BY <1>4 DEF vars, TypeOK, Filled, KeysBounded, KeysOnDisk, table, load, factLoad
<1> QED BY <1>1, <1>2, <1>3, <1>4 DEF Next

LEMMA KeysInit == Init => KeysBounded
<1>1. ASSUME Init PROVE KeysOnDisk \subseteq {0}
  BY <1>1 DEF Init, KeysOnDisk, Filled
<1> QED BY <1>1 DEF KeysBounded

\* Every reachable state is well typed; the loads always find a greatest key to
\* number their rows from.
THEOREM TypeCorrect == Spec => []TypeOK
<1>1. Init => TypeOK /\ KeysBounded
  BY TypeInit, KeysInit
<1> QED BY <1>1, TypeStep, PTL DEF Spec

-----------------------------------------------------------------------------
(* The invariant: steps that leave the table alone.                        *)

\* What HistoryKept says of a step.
KeepsHistory ==
    \A x \in Filled : x[1] \notin overlapped' =>
        /\ dim'[x] # None
        /\ dim'[x].key = dim[x].key /\ dim'[x].t2 = dim[x].t2
        /\ dim[x].end # Open => dim'[x] = dim[x]

\* A step that leaves slots, keys and ends of the stored rows alone, in which
\* nobody becomes settled, and whose facts have rows.
LEMMA HistoryFrame ==
    ASSUME VersionsOrdered, KeysDistinct, FactsHaveRows,
           overlapped \subseteq overlapped', Filled' = Filled,
           \A f \in facts' : \/ f \in facts \/ f[1] \notin Settled'
                            \/ \E x \in Filled : x[1] = f[1] /\ dim[x].key = f[2],
           \A x \in Filled : dim'[x].key = dim[x].key /\ dim'[x].end = dim[x].end
    PROVE  VersionsOrdered' /\ KeysDistinct' /\ FactsHaveRows'
<1>1. Settled' \subseteq Settled /\ SettledRows' \subseteq SettledRows
  BY DEF Settled, SettledRows
<1>2. VersionsOrdered'
  BY <1>1 DEF VersionsOrdered, SettledRows
<1>3. KeysDistinct'
  BY <1>1 DEF KeysDistinct
<1>4. FactsHaveRows'
  BY <1>1 DEF FactsHaveRows
<1> QED BY <1>2, <1>3, <1>4

\* A fact load none of whose members is settled.
LEMMA FactLoadFrame ==
    ASSUME TypeOK, UNCHANGED factLoad, fpc # "idle" => batch \cap Settled' = {}
    PROVE  OneWriter' /\ StubsFresh'
<1>1. fpc' = fpc /\ batch' = batch /\ missing' = missing /\ missing \subseteq batch
  BY DEF factLoad, TypeOK
<1>2. OneWriter'
  BY <1>1 DEF OneWriter
<1>3. fpc' # "idle" => missing' \cap Settled' = {} /\ (batch' \ missing') \cap Settled' = {}
                       /\ batch' \cap Settled' = {}
  BY <1>1
<1>4. StubsFresh'
  BY <1>3 DEF StubsFresh
<1> QED BY <1>2, <1>4

\* A nightly load, while neither it nor the table changes.
LEMMA LoadFrame ==
    ASSUME TypeOK, LoadFresh, LoadDone, EnrichedAfterLoad,
           UNCHANGED <<dim, load>>, overlapped \subseteq overlapped'
    PROVE  LoadFresh' /\ LoadDone' /\ EnrichedAfterLoad'
<1>1. /\ dim' = dim /\ pc' = pc /\ runTime' = runTime /\ incoming' = incoming
      /\ current' = current /\ nextKey' = nextKey
  BY DEF load
<1>2. /\ Filled' = Filled /\ Settled' \subseteq Settled /\ SettledRows' \subseteq SettledRows
      /\ Unopened' \subseteq Unopened
      /\ Type2' = Type2 /\ New' = New
      /\ \A x : IsOpen(x)' <=> IsOpen(x)
  BY <1>1 DEF Filled, Settled, SettledRows, Unopened, HasCurrent, Type2, New, IsOpen
<1>3. \A x : UpToDate(x)' <=> UpToDate(x)
  BY <1>1, <1>2 DEF UpToDate
<1>4. LoadFresh'
  BY <1>1, <1>2 DEF LoadFresh
<1>5. LoadDone'
  BY <1>1, <1>2, <1>3 DEF LoadDone
<1>6. EnrichedAfterLoad'
  BY <1>1, <1>2 DEF EnrichedAfterLoad
<1> QED BY <1>4, <1>5, <1>6

LEMMA ScdInit == Init => ScdInv
<1> SUFFICES ASSUME Init PROVE ScdInv
  OBVIOUS
<1>1. Filled = {} /\ SettledRows = {}
  BY DEF Init, Filled, SettledRows
<1>2. 0 <= 1
  OBVIOUS
<1> QED BY <1>1, <1>2, KeysInit
        DEF Init, ScdInv, ClockOrder, OneWriter, VersionsOrdered, KeysDistinct, StubsFresh,
            FactsHaveRows, LoadFresh, LoadDone, EnrichedAfterLoad, Written, Unopened

LEMMA ScdRead ==
    ASSUME TypeOK, ScdInv, TypeOK', KeysBounded',
           ReadCurrent \/ ReadKey \/ FinishLoad \/ StartLoad \/ LoadFails
    PROVE  ScdInv' /\ KeepsHistory
<1> USE DEF ScdInv
<1>1. /\ dim' = dim /\ facts' = facts /\ overlapped \subseteq overlapped'
      /\ UNCHANGED factLoad
  BY DEF ReadCurrent, ReadKey, FinishLoad, StartLoad, LoadFails, LoadStep, table, factLoad
<1>2. Filled' = Filled
  BY <1>1 DEF Filled
<1>3. VersionsOrdered' /\ KeysDistinct' /\ FactsHaveRows'
  BY <1>1, <1>2, HistoryFrame
<1>4. fpc # "idle" => batch \cap Settled' = {}
  <2>1. CASE StartLoad
    BY <2>1 DEF StartLoad, Settled
  <2>2. CASE ~StartLoad
    <3>1. pc # "idle"
      BY <2>2 DEF ReadCurrent, ReadKey, FinishLoad, LoadFails, LoadStep
    <3> QED BY <1>1, <3>1 DEF OneWriter, Settled
  <2> QED BY <2>1, <2>2
<1>5. OneWriter' /\ StubsFresh'
  BY <1>1, <1>4, FactLoadFrame
<1>6. ClockOrder'
  <2>1. CASE StartLoad
    <3>1. /\ now' >= now /\ runTime' = now' /\ now \in Nat /\ now' \in Nat
          /\ runTime \in Nat /\ stubTime \in Nat
      BY <2>1, BoundsAssumption DEF StartLoad, ReadClock, TypeOK, Times
    <3>2. \A x \in Filled : x[2] \in Nat /\ dim[x].end \in Nat
      BY RowTypes, SlotsFinite
    <3> QED BY <1>1, <1>2, <3>1, <3>2 DEF ClockOrder, factLoad
  <2>2. CASE ~StartLoad
    <3>1. now' = now /\ runTime' = runTime
      BY <2>2 DEF ReadCurrent, ReadKey, FinishLoad, LoadFails
    <3> QED BY <1>1, <1>2, <3>1 DEF ClockOrder, factLoad
  <2> QED BY <2>1, <2>2
<1>7. LoadFresh'
  <2>1. CASE StartLoad
    <3>1. pc' = "current" /\ runTime' = now' /\ now' >= now
          /\ \A m \in Settled' : dim[<<m, now'>>] = None
      BY <2>1 DEF StartLoad, LoadStep, ReadClock, Settled
    <3>2. ASSUME NEW x \in Filled, x[1] \in Settled' PROVE x[2] < runTime'
      <4>1. x = <<x[1], x[2]>> /\ x[2] \in Nat /\ now \in Nat /\ now' \in Nat
        BY SlotsFinite, BoundsAssumption DEF Filled, TypeOK, Times
      <4>2. x[2] # now'
        BY <3>1, <3>2, <4>1 DEF Filled
      <4>3. x[2] <= now
        BY DEF ClockOrder
      <4> QED BY <3>1, <4>1, <4>2, <4>3
    <3> QED BY <1>2, <3>1, <3>2 DEF LoadFresh, Unopened, Written
  <2>2. CASE ReadCurrent
    <3>1. pc = "current" /\ pc' = "key" /\ runTime' = runTime /\ overlapped' = overlapped
          /\ current' = {x \in Slots : IsOpen(x)}
      BY <2>2 DEF ReadCurrent, LoadStep
    <3>2. \A x : IsOpen(x)' <=> IsOpen(x)
      BY <1>1 DEF IsOpen
    <3>3. \A x \in Filled : x[1] \in Settled => x[2] < runTime
      BY <3>1 DEF LoadFresh, Unopened
    <3>4. \A m \in Unopened' : m \in Settled
      BY <3>1 DEF Unopened, Settled
    <3> QED BY <1>2, <3>1, <3>2, <3>3, <3>4 DEF LoadFresh, Written, Filled
  <2>3. CASE ReadKey
    <3>1. pc = "key" /\ pc' = "new" /\ runTime' = runTime /\ overlapped' = overlapped
          /\ current' = current /\ nextKey' = NextSurrogateKey
      BY <2>3 DEF ReadKey, LoadStep
    <3>2. \A x : IsOpen(x)' <=> IsOpen(x)
      BY <1>1 DEF IsOpen
    <3>3. \A x \in SettledRows' : dim'[x].key < nextKey'
      BY <1>1, <1>2, <3>1, NextKeyFresh DEF KeysOnDisk, SettledRows
    <3>4. Unopened' = Unopened
      BY <3>1 DEF Unopened, Settled, Written
    <3> QED BY <1>2, <3>1, <3>2, <3>3, <3>4 DEF LoadFresh, Written
  <2>4. CASE FinishLoad \/ LoadFails
    <3>1. pc' = "idle"
      BY <2>4 DEF FinishLoad, LoadFails, LoadStep
    <3> QED BY <3>1 DEF LoadFresh, Unopened, Written
  <2> QED BY <2>1, <2>2, <2>3, <2>4
<1>8. pc' \in {"idle", "current", "key", "new"}
  BY DEF ReadCurrent, ReadKey, FinishLoad, StartLoad, LoadFails, LoadStep
<1>9. LoadDone' /\ EnrichedAfterLoad'
  BY <1>8 DEF LoadDone, EnrichedAfterLoad, Written
<1>10. KeepsHistory
  BY <1>1 DEF KeepsHistory, Filled
<1> QED BY <1>3, <1>5, <1>6, <1>7, <1>9, <1>10

-----------------------------------------------------------------------------
(* The invariant: the four inserts of a load, and that of the stubs.       *)

\* A statement of the load that inserts.
LEMMA WriteFrame ==
    ASSUME TypeOK, OneWriter, WriteNew \/ WriteType1 \/ WriteClosed \/ WriteOpened
    PROVE  /\ UNCHANGED <<now, runTime, incoming, current, overlapped, facts, stubTime, fpc>>
           /\ runTime \in Times /\ Settled' = Settled /\ New' = New
           /\ OneWriter' /\ StubsFresh'
<1>1. /\ UNCHANGED <<now, runTime, incoming, current, overlapped, facts, factLoad>>
      /\ pc # "idle"
  BY DEF WriteNew, WriteType1, WriteClosed, WriteOpened, LoadStep
<1>2. runTime \in Times
  BY <1>1 DEF TypeOK, Times
<1>3. Settled' = Settled /\ New' = New
  BY <1>1 DEF Settled, New
<1>4. OneWriter' /\ StubsFresh'
  BY <1>1, <1>3, FactLoadFrame DEF OneWriter
<1> QED BY <1>1, <1>2, <1>3, <1>4 DEF factLoad

\* Versions opened at time t, of members that then have no version in force,
\* with keys nobody has.
LEMMA OpenRows ==
    ASSUME TypeOK, ClockOrder, VersionsOrdered, KeysDistinct, FactsHaveRows,
           NEW N \in SUBSET Slots, NEW t \in Times, t <= now,
           \A x \in Slots : x \notin N => dim'[x] = dim[x],
           \A x \in N : x[2] = t /\ dim'[x].end = Open,
           \A x, y \in N : dim'[x].key = dim'[y].key => x = y,
           \A x \in N : x[1] \in Settled =>
                /\ dim'[x].key \in Nat
                /\ \A y \in SettledRows : dim[y].key < dim'[x].key
                /\ \A y \in Filled : y[1] = x[1] => y[2] < t /\ dim[y].end <= t,
           UNCHANGED <<now, runTime, overlapped, facts, stubTime>>,
           fpc' = "insert" => fpc = "insert"
    PROVE  /\ VersionsOrdered' /\ KeysDistinct' /\ FactsHaveRows'
           /\ ClockOrder' /\ KeepsHistory
<1>1. Settled' = Settled /\ t \in Nat /\ t < Open
  BY BoundsAssumption DEF Settled, Times, Open
<1>2. \A x \in Filled' : x \in Slots /\ (x \in N \/ (x \in Filled /\ dim'[x] = dim[x]))
  BY DEF Filled
<1>3. \A x \in Filled : x[1] \in Settled => x \notin N /\ x \in Filled' /\ dim'[x] = dim[x]
  <2>1. ASSUME NEW x \in Filled, x[1] \in Settled, x \in N PROVE FALSE
    <3>1. x[2] < t /\ x[2] = t
      BY <2>1
    <3> QED BY <1>1, <3>1
  <2> QED BY <2>1 DEF Filled
<1>4. VersionsOrdered'
  <2>1. SUFFICES ASSUME NEW x \in SettledRows'
                 PROVE  /\ x[2] < dim'[x].end
                        /\ \A y \in Filled' : y[1] = x[1] /\ x[2] < y[2] => dim'[x].end <= y[2]
    BY DEF VersionsOrdered
  <2>2. x \in Filled' /\ x[1] \in Settled /\ x[2] \in Nat
    BY <1>1, SlotsFinite DEF SettledRows, Filled
  <2>3. CASE x \in N
    <3>1. ASSUME NEW y \in Filled', y[1] = x[1], x[2] < y[2] PROVE FALSE
      <4>1. x[2] = t /\ y \notin N /\ y[2] \in Nat
        BY <1>1, <1>2, <2>3, <3>1, SlotsFinite
      <4>2. y \in Filled /\ y[2] < t
        BY <1>2, <2>2, <2>3, <3>1, <4>1
      <4> QED BY <1>1, <3>1, <4>1, <4>2
    <3> QED BY <1>1, <2>3, <3>1
  <2>4. CASE x \notin N
    <3>1. x \in SettledRows /\ dim'[x] = dim[x]
      BY <1>2, <2>2, <2>4 DEF SettledRows
    <3>2. ASSUME NEW y \in Filled', y[1] = x[1], x[2] < y[2], y \in N
          PROVE  dim[x].end <= y[2]
      BY <2>2, <3>1, <3>2 DEF SettledRows
    <3>3. ASSUME NEW y \in Filled', y[1] = x[1], x[2] < y[2], y \notin N
          PROVE  dim[x].end <= y[2]
      BY <1>2, <3>1, <3>3 DEF VersionsOrdered
    <3> QED BY <3>1, <3>2, <3>3 DEF VersionsOrdered
  <2> QED BY <2>3, <2>4
<1>5. KeysDistinct'
  <2>1. SUFFICES ASSUME NEW x \in Filled', NEW y \in Filled', x[1] \in Settled, y[1] \in Settled,
                        dim'[x].key = dim'[y].key
                 PROVE  x = y
    BY <1>1 DEF KeysDistinct
  <2>2. CASE x \in N /\ y \in N
    BY <2>1, <2>2
  <2>3. CASE x \notin N /\ y \notin N
    BY <1>2, <2>1, <2>3 DEF KeysDistinct
  <2>4. ASSUME NEW u \in Filled', NEW v \in Filled', u \in N, v \notin N,
               u[1] \in Settled, v[1] \in Settled
        PROVE  dim'[u].key # dim'[v].key
    <3>1. v \in SettledRows /\ dim'[v] = dim[v]
      BY <1>2, <2>4 DEF SettledRows
    <3>2. dim[v].key < dim'[u].key /\ dim'[u].key \in Nat /\ dim[v].key \in Nat
      BY <2>4, <3>1, RowTypes DEF SettledRows
    <3> QED BY <3>1, <3>2
  <2> QED BY <2>1, <2>2, <2>3, <2>4
<1>6. FactsHaveRows'
  BY <1>1, <1>3 DEF FactsHaveRows
<1>7. ClockOrder'
  BY <1>2 DEF ClockOrder
<1>8. KeepsHistory
  BY <1>3, SlotsFinite DEF KeepsHistory, Settled, Filled
<1> QED BY <1>4, <1>5, <1>6, <1>7, <1>8

LEMMA ScdWriteNew ==
    ASSUME TypeOK, ScdInv, TypeOK', KeysBounded', WriteNew
    PROVE  ScdInv' /\ KeepsHistory
<1> USE DEF ScdInv
<1> DEFINE N == New \X {runTime}
<1>1. /\ UNCHANGED <<now, runTime, incoming, current, overlapped, facts, stubTime, fpc>>
      /\ runTime \in Times /\ Settled' = Settled /\ New' = New
      /\ OneWriter' /\ StubsFresh'
  BY WriteFrame
<1>2. pc = "new" /\ pc' = "type1"
  BY DEF WriteNew, LoadStep
<1>3. /\ N \in SUBSET Slots
      /\ \A x \in Slots : dim'[x] = IF x \in N THEN Incoming(x[1], nextKey + Rank(x, N))
                                    ELSE dim[x]
      /\ \A x \in N : nextKey + Rank(x, N) \in Nat /\ nextKey + Rank(x, N) < nextKey'
      /\ nextKey' \in Nat /\ nextKey <= nextKey' /\ nextKey \in Nat
  BY WriteNewRows DEF TypeOK
<1>4. \A x \in N : x[1] \in New /\ x[2] = runTime /\ x \in Slots
  BY <1>3
<1> HIDE DEF N
<1>5. \A m \in New, x \in Filled : x[1] = m => x \notin current
  BY SlotsFinite DEF New, Filled
<1>6. ASSUME NEW x \in Filled, x[1] \in New, x[1] \in Settled
      PROVE  x[2] < runTime /\ dim[x].end <= runTime
  <2>1. x[2] < runTime /\ ~ IsOpen(x)
    BY <1>2, <1>5, <1>6 DEF LoadFresh, Unopened
  <2> QED BY <2>1 DEF ClockOrder, IsOpen, Filled
<1>7. \A x \in SettledRows : dim[x].key < nextKey
  BY <1>2 DEF LoadFresh
<1>8. \A x \in N : nextKey <= nextKey + Rank(x, N)
  <2>1. \A x \in N : Rank(x, N) \in Nat
    BY <1>3, RankBounded
  <2> QED BY <1>3, <2>1
<1>9. \A x, y \in N : nextKey + Rank(x, N) = nextKey + Rank(y, N) => x = y
  <2>1. \A x, y \in N : Rank(x, N) \in Nat /\ Rank(y, N) \in Nat
    BY <1>3, RankBounded
  <2>2. \A x, y \in N : Rank(x, N) = Rank(y, N) => x = y
    BY <1>3, RankInjective
  <2> QED BY <1>3, <2>1, <2>2
<1>10. \A x \in N : dim'[x].end = Open /\ dim'[x].key = nextKey + Rank(x, N)
  <2>1. \A m, k : Incoming(m, k).end = Open /\ Incoming(m, k).key = k
    BY DEF Incoming
  <2>2. \A x \in N : dim'[x] = Incoming(x[1], nextKey + Rank(x, N))
    BY <1>3
  <2> QED BY <2>1, <2>2
<1>11. ASSUME NEW x \in N, x[1] \in Settled
       PROVE  /\ dim'[x].key \in Nat
              /\ \A y \in SettledRows : dim[y].key < dim'[x].key
              /\ \A y \in Filled : y[1] = x[1] => y[2] < runTime /\ dim[y].end <= runTime
  <2>1. \A y \in SettledRows : dim[y].key \in Nat
    BY RowTypes DEF SettledRows
  <2>2. \A y \in SettledRows : dim[y].key < dim'[x].key
    BY <1>3, <1>7, <1>8, <1>10, <2>1
  <2>3. dim'[x].key \in Nat
    BY <1>3, <1>10
  <2>4. x[1] \in New
    BY <1>4
  <2> QED BY <1>6, <1>11, <2>2, <2>3, <2>4
<1>12. /\ VersionsOrdered' /\ KeysDistinct' /\ FactsHaveRows'
       /\ ClockOrder' /\ KeepsHistory
  <2>1. runTime <= now
    BY DEF ClockOrder
  <2>2. \A x, y \in N : dim'[x].key = dim'[y].key => x = y
    BY <1>9, <1>10
  <2>3. \A x \in N : x[2] = runTime /\ dim'[x].end = Open
    BY <1>4, <1>10
  <2>4. \A x \in Slots : x \notin N => dim'[x] = dim[x]
    BY <1>3
  <2> QED BY <1>1, <1>3, <1>11, <2>1, <2>2, <2>3, <2>4, OpenRows
<1>13. LoadFresh'
  <2>1. \A x \in Filled' : x \in Slots /\ (x \in N \/ (x \in Filled /\ dim'[x] = dim[x]))
    BY <1>3 DEF Filled
  <2>2. \A x \in current : x \in Filled /\ IsOpen(x)
    BY <1>2 DEF LoadFresh, TypeOK
  <2>3. \A x \in current : IsOpen(x)'
    BY <1>3, <1>4, <1>5, <2>2 DEF IsOpen, Filled
  <2>4. ASSUME NEW x \in Filled', x[1] \in Unopened'
        PROVE  x[2] < runTime /\ (IsOpen(x)' => x \in current)
    <3>1. x[1] \in Settled /\ \E s \in Times : <<x[1], s>> \in current
      BY <1>1, <1>2, <2>4 DEF Unopened, HasCurrent
    <3>2. x \notin N
      BY <1>4, <3>1 DEF New
    <3>3. x \in Filled /\ dim'[x] = dim[x] /\ x[1] \in Unopened
      BY <1>2, <2>1, <3>1, <3>2 DEF Unopened
    <3> QED BY <1>2, <3>3 DEF LoadFresh, IsOpen
  <2>5. ASSUME NEW x \in SettledRows' PROVE dim'[x].key < nextKey'
    <3>1. CASE x \in N
      BY <1>3, <1>10, <3>1
    <3>2. CASE x \notin N
      <4>1. x \in SettledRows /\ dim'[x] = dim[x]
        BY <1>1, <2>1, <3>2 DEF SettledRows
      <4>2. dim[x].key \in Nat
        BY <4>1, RowTypes DEF SettledRows
      <4> QED BY <1>3, <1>7, <4>1, <4>2
    <3> QED BY <3>1, <3>2
  <2> QED BY <1>1, <1>2, <2>3, <2>4, <2>5 DEF LoadFresh
<1>14. LoadDone'
  <2>1. ASSUME NEW m \in New PROVE UpToDate(<<m, runTime>>)'
    <3>1. <<m, runTime>> \in N
      BY DEF N
    <3>2. dim'[<<m, runTime>>] = Incoming(m, nextKey + Rank(<<m, runTime>>, N))
      BY <1>3, <1>4, <3>1
    <3>3. dim'[<<m, runTime>>] # None
      <4>1. m \in Members /\ incoming[m] # None
        BY DEF New
      <4> QED BY <1>3, <3>1, <3>2, <4>1, IncomingTypes, NoneAssumption
    <3> QED BY <1>1, <3>2, <3>3 DEF UpToDate, IsOpen, Incoming
  <2> QED BY <1>1, <1>2, <2>1 DEF LoadDone
<1>15. EnrichedAfterLoad'
  BY <1>2 DEF EnrichedAfterLoad
<1> QED BY <1>1, <1>12, <1>13, <1>14, <1>15

LEMMA ScdWriteType1 ==
    ASSUME TypeOK, ScdInv, TypeOK', KeysBounded', WriteType1
    PROVE  ScdInv' /\ KeepsHistory
<1> USE DEF ScdInv
<1>1. /\ UNCHANGED <<now, runTime, incoming, current, overlapped, facts, stubTime, fpc>>
      /\ runTime \in Times /\ Settled' = Settled /\ New' = New
      /\ OneWriter' /\ StubsFresh'
  BY WriteFrame
<1>2. pc = "type1" /\ pc' = "close" /\ nextKey' = nextKey
  BY DEF WriteType1, LoadStep
<1>3. \A x \in Slots : dim'[x] = IF x \in Type1 THEN Incoming(x[1], dim[x].key) ELSE dim[x]
  BY DEF WriteType1, Insert
<1>4. \A x \in current : x \in Filled /\ IsOpen(x)
  BY <1>2 DEF LoadFresh, TypeOK
<1>5. ASSUME NEW x \in Type1
      PROVE  /\ x \in current /\ x \in Slots /\ x \notin Type2 /\ incoming[x[1]] # None
             /\ dim'[x] # None
             /\ dim'[x].key = dim[x].key /\ dim'[x].end = dim[x].end /\ dim[x].end = Open
             /\ dim'[x].t2 = dim[x].t2 /\ dim'[x].t2 = incoming[x[1]].t2
             /\ dim'[x].t1 = incoming[x[1]].t1
  <2>1. x \in current /\ x \in Filled /\ IsOpen(x) /\ x \notin Type2
    BY <1>4 DEF Type1, Type2
  <2>2. x[1] \in Members /\ incoming[x[1]] # None /\ dim[x].key \in Nat
    BY <2>1, ChangedTypes, RowTypes
  <2>3. dim'[x] = Incoming(x[1], dim[x].key) /\ dim'[x] # None
    BY <1>3, <2>1, <2>2, IncomingTypes, NoneAssumption DEF Filled
  <2> QED BY <2>1, <2>2, <2>3 DEF Incoming, IsOpen, Type1, Filled
<1>6. \A x \in Slots : x \notin Type1 => dim'[x] = dim[x]
  BY <1>3
<1>7. /\ Filled' = Filled
      /\ \A x \in Filled : /\ dim'[x].key = dim[x].key /\ dim'[x].end = dim[x].end
                           /\ dim'[x].t2 = dim[x].t2
  BY <1>4, <1>5, <1>6 DEF Filled
<1>8. VersionsOrdered' /\ KeysDistinct' /\ FactsHaveRows'
  BY <1>1, <1>7, HistoryFrame
<1>9. ClockOrder'
  BY <1>1, <1>7 DEF ClockOrder
<1>10. \A x \in Slots : IsOpen(x)' <=> IsOpen(x)
  BY <1>7 DEF IsOpen, Filled
<1>11. Type2' = Type2
  BY <1>1, <1>4, <1>7 DEF Type2
<1>12. LoadFresh'
  <2>1. \A x \in current : IsOpen(x)'
    BY <1>4, <1>10 DEF Filled
  <2>2. Unopened' = Unopened
    BY <1>1, <1>2 DEF Unopened, Written, HasCurrent
  <2>3. ASSUME NEW x \in Filled, x[1] \in Unopened
        PROVE  x[2] < runTime /\ (IsOpen(x)' => x \in current)
    BY <1>2, <1>10, <2>3 DEF LoadFresh, Filled
  <2>4. \A x \in SettledRows' : dim'[x].key < nextKey
    BY <1>1, <1>2, <1>7 DEF LoadFresh, SettledRows, Written
  <2> QED BY <1>1, <1>2, <1>7, <2>1, <2>2, <2>3, <2>4 DEF LoadFresh
<1>13. LoadDone'
  <2>1. ASSUME NEW m \in New PROVE UpToDate(<<m, runTime>>)'
    <3>1. UpToDate(<<m, runTime>>)
      BY <1>2 DEF LoadDone, Written
    <3>2. <<m, runTime>> \notin Type1 /\ <<m, runTime>> \in Slots
      <4>1. <<m, runTime>> \notin current /\ m \in Members
        BY <1>1 DEF New
      <4> QED BY <1>1, <1>5, <4>1 DEF Slots
    <3> QED BY <1>1, <1>6, <3>1, <3>2 DEF UpToDate, IsOpen
  <2>2. ASSUME NEW x \in current \ Type2, incoming[x[1]] # None PROVE UpToDate(x)'
    <3>1. IsOpen(x)' /\ x \in Slots
      BY <1>4, <1>10 DEF Filled
    <3>2. CASE x \in Type1
      BY <1>1, <1>5, <3>1, <3>2 DEF UpToDate
    <3>3. CASE x \notin Type1
      BY <1>1, <1>6, <2>2, <3>1, <3>3 DEF UpToDate, Type1, Type2
    <3> QED BY <3>2, <3>3
  <2> QED BY <1>1, <1>2, <1>11, <2>1, <2>2 DEF LoadDone
<1>14. EnrichedAfterLoad'
  BY <1>2 DEF EnrichedAfterLoad
<1>15. KeepsHistory
  BY <1>5, <1>6, <1>7 DEF KeepsHistory, Filled
<1> QED BY <1>1, <1>8, <1>9, <1>12, <1>13, <1>14, <1>15

LEMMA ScdWriteClosed ==
    ASSUME TypeOK, ScdInv, TypeOK', KeysBounded', WriteClosed
    PROVE  ScdInv' /\ KeepsHistory
<1> USE DEF ScdInv
<1>1. /\ UNCHANGED <<now, runTime, incoming, current, overlapped, facts, stubTime, fpc>>
      /\ runTime \in Times /\ Settled' = Settled /\ New' = New
      /\ OneWriter' /\ StubsFresh'
  BY WriteFrame
<1>2. pc = "close" /\ pc' = "open" /\ nextKey' = nextKey
  BY DEF WriteClosed, LoadStep
<1>3. \A x \in Slots : dim'[x] = IF x \in Type2 THEN [dim[x] EXCEPT !.end = runTime] ELSE dim[x]
  BY DEF WriteClosed, Insert
<1>4. \A x \in current : x \in Filled /\ x \in Slots /\ IsOpen(x)
  BY <1>2 DEF LoadFresh, TypeOK, Filled
<1>5. ASSUME NEW x \in Type2
      PROVE  /\ x \in current /\ x \in Filled /\ dim'[x] # None
             /\ dim'[x].key = dim[x].key /\ dim'[x].end = runTime /\ dim[x].end = Open
             /\ dim'[x].t2 = dim[x].t2 /\ dim'[x].t1 = dim[x].t1
  <2>1. x \in current /\ x \in Filled /\ IsOpen(x) /\ dim[x] \in Rows
    BY <1>4, RowTypes DEF Type2
  <2>2. dim'[x] = [dim[x] EXCEPT !.end = runTime]
    BY <1>3, <2>1 DEF Filled
  <2>3. dim'[x] \in Rows
    BY <1>1, <2>1, <2>2 DEF Rows
  <2>4. /\ dim'[x].key = dim[x].key /\ dim'[x].end = runTime
        /\ dim'[x].t2 = dim[x].t2 /\ dim'[x].t1 = dim[x].t1
    BY <2>1, <2>2 DEF Rows
  <2> QED BY <2>1, <2>3, <2>4, NoneAssumption DEF IsOpen
<1>6. \A x \in Slots : x \notin Type2 => dim'[x] = dim[x]
  BY <1>3
<1>7. /\ Filled' = Filled
      /\ \A x \in Filled : dim'[x].key = dim[x].key /\ dim'[x].t2 = dim[x].t2
  BY <1>5, <1>6 DEF Filled
<1>8. SettledRows' = SettledRows
  BY <1>1, <1>7 DEF SettledRows
<1>9. Type2' = Type2 /\ Unopened' = Unopened
  BY <1>1, <1>2, <1>4, <1>7 DEF Type2, Unopened, Written, HasCurrent
<1>10. \A x \in Slots : IsOpen(x)' => IsOpen(x)
  BY <1>4, <1>5, <1>6 DEF IsOpen
<1>11. VersionsOrdered'
  <2>1. SUFFICES ASSUME NEW x \in SettledRows
                 PROVE  /\ x[2] < dim'[x].end
                        /\ \A y \in Filled : y[1] = x[1] /\ x[2] < y[2] => dim'[x].end <= y[2]
    BY <1>7, <1>8 DEF VersionsOrdered
  <2>2. /\ x[2] < dim[x].end
        /\ \A y \in Filled : y[1] = x[1] /\ x[2] < y[2] => dim[x].end <= y[2]
    BY DEF VersionsOrdered
  <2>3. CASE x \in Type2
    <3>1. x \in Slots /\ x = <<x[1], x[2]>> /\ x[1] \in Settled /\ x[2] \in Times
      BY SlotsFinite DEF SettledRows, Filled
    <3>2. x[1] \in Unopened
      BY <1>2, <1>5, <2>3, <3>1 DEF Unopened, HasCurrent, Written
    <3>3. x[2] < runTime /\ dim'[x].end = runTime /\ dim[x].end = Open
      BY <1>5, <2>3, <3>2 DEF LoadFresh
    <3>4. \A y \in Filled : y[2] \in Nat /\ y[2] < Open
      BY SlotsFinite DEF Filled
    <3>5. ASSUME NEW y \in Filled, y[1] = x[1], x[2] < y[2] PROVE FALSE
      <4>1. Open <= y[2] /\ y[2] \in Nat /\ y[2] < Open /\ Open \in Nat
        BY <2>2, <3>3, <3>4, <3>5, BoundsAssumption DEF Open
      <4> QED BY <4>1
    <3> QED BY <3>3, <3>5
  <2>4. CASE x \notin Type2
    <3>1. dim'[x] = dim[x]
      BY <1>6, <2>4 DEF SettledRows, Filled
    <3> QED BY <2>2, <3>1
  <2> QED BY <2>3, <2>4
<1>12. KeysDistinct' /\ FactsHaveRows'
  BY <1>1, <1>7 DEF KeysDistinct, FactsHaveRows
<1>13. ClockOrder'
  <2>1. runTime <= runTime
    BY <1>1 DEF Times
  <2>2. \A x \in Filled : dim'[x].end = Open \/ dim'[x].end <= runTime
    BY <1>5, <1>6, <2>1 DEF ClockOrder, Filled
  <2> QED BY <1>1, <1>7, <2>2 DEF ClockOrder
<1>14. LoadFresh'
  <2>1. ASSUME NEW x \in current
        PROVE  IF x \in Type2 THEN dim'[x].end = runTime ELSE IsOpen(x)'
    BY <1>4, <1>5, <1>6 DEF IsOpen
  <2>2. ASSUME NEW x \in Filled, x[1] \in Unopened
        PROVE  x[2] < runTime /\ (IsOpen(x)' => x \in current)
    BY <1>2, <1>10, <2>2 DEF LoadFresh, Filled
  <2>3. \A x \in SettledRows : dim'[x].key < nextKey
    BY <1>2, <1>7 DEF LoadFresh, SettledRows, Written
  <2> QED BY <1>1, <1>2, <1>7, <1>8, <1>9, <2>1, <2>2, <2>3 DEF LoadFresh
<1>15. LoadDone'
  <2>1. ASSUME NEW x \in Slots, UpToDate(x), x \notin Type2 PROVE UpToDate(x)'
    BY <1>1, <1>6, <2>1 DEF UpToDate, IsOpen
  <2>2. ASSUME NEW m \in New PROVE UpToDate(<<m, runTime>>)'
    <3>1. UpToDate(<<m, runTime>>)
      BY <1>2 DEF LoadDone, Written
    <3>2. <<m, runTime>> \notin Type2 /\ <<m, runTime>> \in Slots
      BY <1>1, <1>5 DEF New, Slots
    <3> QED BY <1>1, <1>6, <3>1, <3>2 DEF UpToDate, IsOpen
  <2>3. ASSUME NEW x \in current \ Type2, incoming[x[1]] # None PROVE UpToDate(x)'
    BY <1>2, <1>4, <2>1, <2>3 DEF LoadDone
  <2> QED BY <1>1, <1>2, <1>9, <2>2, <2>3 DEF LoadDone
<1>16. EnrichedAfterLoad'
  BY <1>2 DEF EnrichedAfterLoad
<1>17. KeepsHistory
  BY <1>5, <1>6, <1>7 DEF KeepsHistory, Filled
<1> QED BY <1>1, <1>11, <1>12, <1>13, <1>14, <1>15, <1>16, <1>17

LEMMA ScdWriteOpened ==
    ASSUME TypeOK, ScdInv, TypeOK', KeysBounded', WriteOpened
    PROVE  ScdInv' /\ KeepsHistory
<1> USE DEF ScdInv
<1>1. /\ UNCHANGED <<now, runTime, incoming, current, overlapped, facts, stubTime, fpc>>
      /\ runTime \in Times /\ Settled' = Settled /\ New' = New
      /\ OneWriter' /\ StubsFresh'
  BY WriteFrame
<1>2. pc = "open" /\ pc' = "finish" /\ nextKey' = nextKey /\ nextKey \in Nat
  BY DEF WriteOpened, LoadStep, TypeOK
<1> DEFINE T == {x[1] : x \in Type2}
<1>3. PICK from \in [T -> Type2] :
        /\ \A m \in DOMAIN from : from[m][1] = m
        /\ \A x \in Slots : dim'[x] =
                IF x[1] \in DOMAIN from /\ x[2] = runTime
                THEN Incoming(x[1], nextKey + Rank(from[x[1]], Type2)) ELSE dim[x]
  BY WriteOpenedRows
<1> DEFINE N == {x \in Slots : x[1] \in T /\ x[2] = runTime}
           K(x) == nextKey + Rank(from[x[1]], Type2)
<1>4. /\ \A m \in T : from[m] \in Type2 /\ from[m][1] = m
      /\ \A x \in N : x \in Slots /\ dim'[x] = Incoming(x[1], K(x))
      /\ \A x \in Slots : x \notin N => dim'[x] = dim[x]
  BY <1>3
<1>5. Type2 \in SUBSET Slots /\ \A x \in Type2 : x \in current /\ incoming[x[1]] # None
  BY ChangedTypes DEF Filled
<1>6. \A x \in N : K(x) \in Nat /\ nextKey <= K(x)
  <2>1. \A m \in T : Rank(from[m], Type2) \in Nat
    BY <1>4, <1>5, RankBounded
  <2>2. \A x \in N : Rank(from[x[1]], Type2) \in Nat
    BY <2>1
  <2> QED BY <1>2, <2>2
<1>7. \A x, y \in N : K(x) = K(y) => x = y
  <2>1. ASSUME NEW x \in N, NEW y \in N, K(x) = K(y) PROVE x = y
    <3>1. x[1] \in T /\ y[1] \in T /\ x[2] = y[2]
      OBVIOUS
    <3>2. Rank(from[x[1]], Type2) \in Nat /\ Rank(from[y[1]], Type2) \in Nat
      BY <1>4, <1>5, <3>1, RankBounded
    <3>3. Rank(from[x[1]], Type2) = Rank(from[y[1]], Type2)
      BY <1>2, <2>1, <3>2
    <3>4. from[x[1]] = from[y[1]]
      BY <1>4, <1>5, <3>1, <3>3, RankInjective
    <3>5. x[1] = y[1]
      BY <1>4, <3>1, <3>4
    <3> QED BY <3>1, <3>5, SlotsFinite
  <2> QED BY <2>1
<1>8. \A x \in N : /\ dim'[x].end = Open /\ dim'[x].key = K(x)
                   /\ dim'[x].t1 = incoming[x[1]].t1 /\ dim'[x].t2 = incoming[x[1]].t2
  <2>1. \A m, k : /\ Incoming(m, k).end = Open /\ Incoming(m, k).key = k
                  /\ Incoming(m, k).t1 = incoming[m].t1 /\ Incoming(m, k).t2 = incoming[m].t2
    BY DEF Incoming
  <2> HIDE DEF K
  <2> QED BY <1>4, <2>1
<1>9. \A x \in N : x[2] = runTime /\ x[1] \in T
  OBVIOUS
<1>10. \A x \in Slots : x[1] \in T /\ x[2] = runTime => x \in N
  OBVIOUS
<1>11. N \in SUBSET Slots
  OBVIOUS
<1> HIDE DEF N, K
<1>12. ASSUME NEW x \in Filled, x[1] \in T, x[1] \in Settled
       PROVE  x[2] < runTime /\ dim[x].end <= runTime
  <2>1. PICK y : y = from[x[1]]
    OBVIOUS
  <2>2. y \in Type2 /\ y[1] = x[1] /\ y \in current /\ y \in Filled /\ incoming[x[1]] # None
    BY <1>4, <1>5, <1>12, <2>1 DEF TypeOK
  <2>3. /\ x \in Slots /\ y \in Slots /\ x = <<x[1], x[2]>> /\ y = <<y[1], y[2]>>
        /\ x[2] \in Times /\ y[2] \in Times /\ x[2] \in Nat /\ y[2] \in Nat
        /\ x[2] < Open /\ runTime \in Nat /\ runTime < Open /\ Open \in Nat
    BY <1>1, <2>2, SlotsFinite, BoundsAssumption DEF Filled, Open, Times
  <2>4. x[1] \in Unopened
    <3>1. HasCurrent(x[1])
      BY <2>2, <2>3 DEF HasCurrent
    <3> QED BY <1>2, <1>12, <3>1 DEF Unopened, Written
  <2>5. x[2] < runTime /\ (IsOpen(x) => x \in current)
    BY <1>2, <2>4 DEF LoadFresh
  <2>6. dim[y].end = runTime
    BY <1>2, <2>2 DEF LoadFresh
  <2>7. ASSUME IsOpen(x) PROVE FALSE
    <3>1. dim[x].end = Open /\ x \in SettledRows /\ y \in SettledRows
      BY <1>12, <2>2, <2>7 DEF IsOpen, SettledRows
    <3>2. x[2] < y[2] => Open <= y[2]
      BY <2>2, <3>1 DEF VersionsOrdered
    <3>3. y[2] < x[2] => runTime <= x[2]
      BY <2>2, <2>6, <3>1 DEF VersionsOrdered
    <3>4. x[2] = y[2] => dim[x] = dim[y]
      BY <2>2, <2>3
    <3>5. y[2] < Open
      BY <2>2, SlotsFinite DEF Filled
    <3> QED BY <2>3, <2>5, <2>6, <3>1, <3>2, <3>3, <3>4, <3>5
  <2>8. dim[x].end <= runTime
    BY <2>7 DEF ClockOrder, IsOpen, Filled
  <2> QED BY <2>5, <2>8
<1>13. ASSUME NEW x \in N, x[1] \in Settled
       PROVE  /\ dim'[x].key \in Nat
              /\ \A y \in SettledRows : dim[y].key < dim'[x].key
              /\ \A y \in Filled : y[1] = x[1] => y[2] < runTime /\ dim[y].end <= runTime
  <2>1. \A y \in SettledRows : dim[y].key \in Nat /\ dim[y].key < nextKey
    BY <1>2, RowTypes DEF SettledRows, LoadFresh, Written
  <2>2. dim'[x].key \in Nat /\ nextKey <= dim'[x].key
    BY <1>6, <1>8
  <2>3. \A y \in SettledRows : dim[y].key < dim'[x].key
    BY <1>2, <2>1, <2>2
  <2>4. x[1] \in T
    BY <1>9
  <2> HIDE DEF T
  <2> QED BY <1>12, <1>13, <2>2, <2>3, <2>4
<1>14. /\ VersionsOrdered' /\ KeysDistinct' /\ FactsHaveRows'
       /\ ClockOrder' /\ KeepsHistory
  <2>1. runTime <= now
    BY DEF ClockOrder
  <2>2. \A x, y \in N : dim'[x].key = dim'[y].key => x = y
    BY <1>7, <1>8
  <2>3. \A x \in N : x[2] = runTime /\ dim'[x].end = Open
    BY <1>8, <1>9
  <2> QED BY <1>1, <1>4, <1>11, <1>13, <2>1, <2>2, <2>3, OpenRows
<1>15. LoadFresh' /\ LoadDone'
  BY <1>2 DEF LoadFresh, LoadDone, Unopened, Written
<1>16. EnrichedAfterLoad'
  <2>1. SUFFICES ASSUME NEW m \in Members, incoming[m] # None
                 PROVE  \E s \in Times : /\ IsOpen(<<m, s>>)'
                                         /\ dim'[<<m, s>>].t1 = incoming[m].t1
                                         /\ dim'[<<m, s>>].t2 = incoming[m].t2
    BY <1>1 DEF EnrichedAfterLoad
  <2>2. ASSUME NEW s \in Times, UpToDate(<<m, s>>), m \notin T
        PROVE  /\ IsOpen(<<m, s>>)'
               /\ dim'[<<m, s>>].t1 = incoming[m].t1
               /\ dim'[<<m, s>>].t2 = incoming[m].t2
    <3>1. <<m, s>> \in Slots /\ <<m, s>> \notin N
      BY <1>9, <2>2 DEF Slots
    <3>2. dim'[<<m, s>>] = dim[<<m, s>>]
      BY <1>4, <3>1
    <3> QED BY <2>2, <3>2 DEF UpToDate, IsOpen
  <2>3. CASE m \in T
    <3>1. <<m, runTime>> \in N
      BY <1>1, <1>10, <2>3 DEF Slots
    <3>2. dim'[<<m, runTime>>] # None
      BY <1>4, <1>6, <2>1, <3>1, IncomingTypes, NoneAssumption
    <3>3. IsOpen(<<m, runTime>>)'
      BY <1>1, <1>8, <3>1, <3>2 DEF IsOpen
    <3> QED BY <1>1, <1>8, <3>1, <3>3
  <2>4. CASE m \in New
    <3>1. m \notin T
      <4>1. \A x \in Type2 : x = <<x[1], x[2]>> /\ x[2] \in Times /\ x \in current
        BY <1>5, SlotsFinite
      <4>2. \A s \in Times : <<m, s>> \notin current
        BY <2>4 DEF New
      <4> QED BY <4>1, <4>2
    <3>2. UpToDate(<<m, runTime>>)
      BY <1>2, <2>4 DEF LoadDone, Written
    <3> QED BY <1>1, <2>2, <3>1, <3>2
  <2>5. CASE m \notin T /\ m \notin New
    <3>1. PICK s \in Times : <<m, s>> \in current
      BY <2>1, <2>5 DEF New
    <3>2. <<m, s>> \notin Type2
      BY <2>5
    <3>3. UpToDate(<<m, s>>)
      BY <1>2, <2>1, <3>1, <3>2 DEF LoadDone
    <3> QED BY <2>2, <2>5, <3>3
  <2> QED BY <2>3, <2>4, <2>5
<1> QED BY <1>1, <1>14, <1>15, <1>16

\* The stubs: the settled ones among them take free slots and fresh keys.
LEMMA ScdInsertStubs ==
    ASSUME TypeOK, ScdInv, TypeOK', KeysBounded', InsertStubs
    PROVE  ScdInv' /\ KeepsHistory
<1> USE DEF ScdInv
<1> DEFINE S == missing \X {stubTime}
           N == {x \in S : x \notin Filled}
           K(x) == stubKey + Rank(x, S)
<1>1. /\ fpc = "insert" /\ fpc' = "resolve"
      /\ UNCHANGED <<now, load, batch, missing, stubTime, facts, overlapped>>
  BY DEF InsertStubs, FactStep
<1>2. /\ S \in SUBSET Slots
      /\ \A x \in Slots : dim'[x] = IF x \in N THEN Stub(K(x)) ELSE dim[x]
      /\ \A x \in S : K(x) \in Nat /\ stubKey <= K(x)
  BY InsertStubsRows
<1>3. /\ \A x \in S : x[1] \in missing /\ x[2] = stubTime
      /\ \A m \in missing : <<m, stubTime>> \in S
  OBVIOUS
<1>4. \A x \in N : x \in S /\ x \in Slots /\ x \notin Filled
  BY <1>2
<1>5. \A x \in S : x \notin Filled => x \in N
  OBVIOUS
<1> HIDE DEF N
<1>6. \A x, y \in S : K(x) = K(y) => x = y
  <2>1. \A x \in S : Rank(x, S) \in Nat
    BY <1>2, RankBounded
  <2>2. \A x, y \in S : Rank(x, S) = Rank(y, S) => x = y
    BY <1>2, RankInjective
  <2>3. stubKey \in Nat
    BY DEF TypeOK
  <2> HIDE DEF S
  <2> QED BY <2>1, <2>2, <2>3
<1> HIDE DEF S, K
<1>7. \A x \in N : dim'[x].end = Open /\ dim'[x].key = K(x) /\ dim'[x] # None
  <2>1. \A k \in Nat : Stub(k) \in Rows /\ Stub(k).end = Open /\ Stub(k).key = k
    BY DEF Stub, Rows
  <2>2. \A x \in N : dim'[x] = Stub(K(x)) /\ K(x) \in Nat
    BY <1>2, <1>4
  <2> QED BY <2>1, <2>2, NoneAssumption
<1>8. \A x \in Filled : x \in Slots /\ x \notin N /\ dim'[x] = dim[x] /\ x \in Filled'
  BY <1>2, <1>4 DEF Filled
<1>9. \A x \in Filled' : x \in Slots /\ (x \in N \/ (x \in Filled /\ dim'[x] = dim[x]))
  BY <1>2 DEF Filled
<1>10. Settled' = Settled /\ missing \subseteq batch /\ stubTime \in Times /\ stubTime \in Nat
       /\ runTime \in Nat /\ pc' = pc /\ runTime' = runTime /\ incoming' = incoming
       /\ current' = current /\ nextKey' = nextKey
  BY <1>1 DEF Settled, TypeOK, Times, load
<1>11. ASSUME NEW x \in S, x[1] \in Settled
       PROVE  /\ pc = "idle" /\ K(x) \in Nat
              /\ \A y \in SettledRows : dim[y].key < K(x)
              /\ \A y \in Filled : y[1] = x[1] => y[2] < stubTime /\ dim[y].end <= stubTime
  <2>1. x[1] \in missing /\ x[1] \in batch /\ K(x) \in Nat /\ stubKey <= K(x) /\ stubKey \in Nat
    BY <1>2, <1>3, <1>10 DEF TypeOK
  <2>2. pc = "idle"
    BY <1>1, <1>11, <2>1 DEF OneWriter
  <2>3. ~ HasOpen(x[1]) /\ runTime <= stubTime /\ \A y \in SettledRows : dim[y].key < stubKey
    BY <1>1, <1>11, <2>1 DEF StubsFresh
  <2>4. \A y \in SettledRows : dim[y].key \in Nat
    BY RowTypes DEF SettledRows
  <2>5. \A y \in SettledRows : dim[y].key < K(x)
    BY <2>1, <2>3, <2>4
  <2>6. ASSUME NEW y \in Filled, y[1] = x[1] PROVE y[2] < stubTime /\ dim[y].end <= stubTime
    <3>1. y = <<y[1], y[2]>> /\ y[2] \in Times /\ y[2] \in Nat /\ dim[y].end \in Nat
      BY SlotsFinite, RowTypes DEF Filled
    <3>2. ~ IsOpen(y)
      BY <2>3, <2>6, <3>1 DEF HasOpen
    <3>3. dim[y].end <= runTime
      BY <3>2 DEF ClockOrder, IsOpen, Filled
    <3>4. y[2] < dim[y].end
      BY <1>11, <2>6 DEF VersionsOrdered, SettledRows
    <3> QED BY <1>10, <2>3, <3>1, <3>3, <3>4
  <2> QED BY <2>1, <2>2, <2>5, <2>6
<1>12. /\ VersionsOrdered' /\ KeysDistinct' /\ FactsHaveRows'
       /\ ClockOrder' /\ KeepsHistory
  <2>1. stubTime <= now
    BY <1>1 DEF ClockOrder
  <2>2. \A x, y \in N : dim'[x].key = dim'[y].key => x = y
    BY <1>4, <1>6, <1>7
  <2>3. \A x \in N : x[2] = stubTime /\ dim'[x].end = Open
    BY <1>3, <1>4, <1>7
  <2>4. \A x \in Slots : x \notin N => dim'[x] = dim[x]
    BY <1>2
  <2>5. \A x \in N : x[1] \in Settled =>
                /\ dim'[x].key \in Nat
                /\ \A y \in SettledRows : dim[y].key < dim'[x].key
                /\ \A y \in Filled : y[1] = x[1] => y[2] < stubTime /\ dim[y].end <= stubTime
    BY <1>4, <1>7, <1>11
  <2>6. N \in SUBSET Slots
    BY <1>4
  <2> QED BY <1>1, <1>10, <2>1, <2>2, <2>3, <2>4, <2>5, <2>6, OpenRows
<1>13. OneWriter'
  BY <1>1, <1>10 DEF OneWriter
<1>14. StubsFresh'
  <2>1. SUFFICES ASSUME NEW m \in batch, m \in Settled PROVE HasOpen(m)'
    BY <1>1, <1>10 DEF StubsFresh
  <2>2. CASE m \in missing
    <3> DEFINE x == <<m, stubTime>>
    <3>1. x \in S
      BY <1>3, <2>2
    <3>2. x \notin Filled
      <4>1. x \in Filled => x[2] < stubTime
        BY <1>11, <2>1, <3>1
      <4> QED BY <1>10, <4>1
    <3>3. x \in N
      BY <1>5, <3>1, <3>2
    <3>4. dim'[<<m, stubTime>>] # None /\ dim'[<<m, stubTime>>].end = Open
      BY <1>7, <3>3
    <3> QED BY <1>10, <3>4 DEF HasOpen, IsOpen
  <2>3. CASE m \notin missing
    <3>1. HasOpen(m)
      BY <1>1, <2>1, <2>3 DEF StubsFresh
    <3>2. PICK s \in Times : IsOpen(<<m, s>>)
      BY <3>1 DEF HasOpen
    <3>3. <<m, s>> \in Filled
      BY <2>1, <3>2 DEF IsOpen, Filled, Slots, Settled
    <3>4. dim'[<<m, s>>] = dim[<<m, s>>]
      BY <1>8, <3>3
    <3> QED BY <3>2, <3>4 DEF HasOpen, IsOpen
  <2> QED BY <2>2, <2>3
<1>15. current \subseteq Filled /\ \A x \in current : dim'[x] = dim[x]
  BY <1>8 DEF TypeOK
<1>16. New' = New /\ Type2' = Type2
  BY <1>10, <1>15 DEF New, Type2
<1>17. \A x \in Slots : UpToDate(x) => UpToDate(x)'
  BY <1>8, <1>10 DEF UpToDate, IsOpen, Filled
<1>18. LoadFresh'
  <2>1. CASE pc = "idle"
    BY <1>10, <2>1 DEF LoadFresh, Unopened, Written
  <2>2. CASE pc # "idle"
    <3>1. \A x \in N : x[1] \notin Settled
      BY <1>4, <1>11, <2>2
    <3>2. SettledRows' = SettledRows
      BY <1>8, <1>9, <1>10, <3>1 DEF SettledRows
    <3>3. Unopened' = Unopened
      BY <1>10 DEF Unopened, HasCurrent, Written
    <3>4. ASSUME NEW x \in Filled', x[1] \in Unopened'
          PROVE  /\ x[2] < runTime
                 /\ pc # "current" /\ IsOpen(x)' => x \in current
      <4>1. x[1] \in Settled /\ x[1] \in Unopened
        BY <3>3, <3>4 DEF Unopened
      <4>2. x \in Filled /\ dim'[x] = dim[x]
        BY <1>9, <3>1, <4>1
      <4> QED BY <4>1, <4>2 DEF LoadFresh, IsOpen
    <3>5. \A x \in current : IsOpen(x)' <=> IsOpen(x)
      BY <1>15 DEF IsOpen
    <3>6. pc \in {"new"} \cup Written => \A x \in SettledRows' : dim'[x].key < nextKey
      BY <1>8, <3>2 DEF LoadFresh, SettledRows
    <3>7. pc \in {"key", "new", "type1", "close"} => \A x \in current : IsOpen(x)'
      BY <3>5 DEF LoadFresh
    <3>8. pc = "open" => \A x \in current : IF x \in Type2 THEN dim'[x].end = runTime
                                                          ELSE IsOpen(x)'
      BY <1>15, <3>5 DEF LoadFresh
    <3> QED BY <1>10, <1>16, <3>4, <3>6, <3>7, <3>8 DEF LoadFresh, Written
  <2> QED BY <2>1, <2>2
<1>19. LoadDone'
  <2>1. ASSUME pc \in Written, NEW m \in New PROVE UpToDate(<<m, runTime>>)'
    <3>1. UpToDate(<<m, runTime>>)
      BY <2>1 DEF LoadDone
    <3>2. <<m, runTime>> \in Filled
      BY <2>1, <3>1 DEF UpToDate, IsOpen, Filled, Slots, New, TypeOK, Written, Times
    <3>3. dim'[<<m, runTime>>] = dim[<<m, runTime>>]
      BY <1>8, <3>2
    <3> QED BY <1>10, <3>1, <3>3 DEF UpToDate, IsOpen
  <2>2. ASSUME pc \in {"close", "open"}, NEW x \in current \ Type2, incoming[x[1]] # None
        PROVE  UpToDate(x)'
    BY <1>15, <1>17, <2>2 DEF LoadDone, Filled
  <2> QED BY <1>10, <1>16, <2>1, <2>2 DEF LoadDone, Written
<1>20. EnrichedAfterLoad'
  <2>1. SUFFICES ASSUME pc = "finish", NEW m \in Members, incoming[m] # None
                 PROVE  \E s \in Times : /\ IsOpen(<<m, s>>)'
                                         /\ dim'[<<m, s>>].t1 = incoming[m].t1
                                         /\ dim'[<<m, s>>].t2 = incoming[m].t2
    BY <1>10 DEF EnrichedAfterLoad
  <2>2. PICK s \in Times : /\ IsOpen(<<m, s>>)
                           /\ dim[<<m, s>>].t1 = incoming[m].t1
                           /\ dim[<<m, s>>].t2 = incoming[m].t2
    BY <2>1 DEF EnrichedAfterLoad
  <2>3. <<m, s>> \in Filled
    BY <2>2 DEF IsOpen, Filled, Slots
  <2>4. dim'[<<m, s>>] = dim[<<m, s>>]
    BY <1>8, <2>3
  <2> QED BY <2>2, <2>4 DEF IsOpen
<1> QED BY <1>12, <1>13, <1>14, <1>18, <1>19, <1>20

-----------------------------------------------------------------------------
(* The invariant: the rest of the fact load, and whole steps.              *)

\* The facts of members that all have an open row are written with its key.
LEMMA ResolvedRows ==
    ASSUME NEW B \in SUBSET Members, NEW f \in Resolved(B),
           f[1] \in Settled, \A m \in B \cap Settled : HasOpen(m)
    PROVE  \E x \in Filled : x[1] = f[1] /\ dim[x].key = f[2]
<1>1. ASSUME NEW x \in Slots, x[1] \in B, IsOpen(x), f = <<x[1], dim[x].key>>
      PROVE  \E y \in Filled : y[1] = f[1] /\ dim[y].key = f[2]
  <2>1. x \in Filled
    BY <1>1 DEF IsOpen, Filled
  <2> QED BY <1>1, <2>1
<1>2. ASSUME NEW m \in B, ~ HasOpen(m), f = <<m, 0>> PROVE FALSE
  BY <1>2
<1> QED BY <1>1, <1>2 DEF Resolved

\* Steps of the fact load that leave the table alone.
LEMMA ScdLookup ==
    ASSUME TypeOK, ScdInv, TypeOK', KeysBounded',
           \/ \E B \in (SUBSET Members) \ {{}} : LookupHit(B) \/ LookupMiss(B)
           \/ ReadStubKey \/ Resolve \/ FactLoadFails
    PROVE  ScdInv' /\ KeepsHistory
<1> USE DEF ScdInv
<1>1. /\ dim' = dim /\ UNCHANGED load /\ overlapped \subseteq overlapped'
      /\ pc' = pc /\ runTime' = runTime
  BY DEF LookupHit, LookupMiss, ReadStubKey, Resolve, FactLoadFails, FactStep, load, table
<1>2. /\ Filled' = Filled /\ Settled' \subseteq Settled /\ SettledRows' \subseteq SettledRows
      /\ \A m : HasOpen(m)' <=> HasOpen(m)
  BY <1>1 DEF Filled, Settled, SettledRows, HasOpen, IsOpen
<1>3. LoadFresh' /\ LoadDone' /\ EnrichedAfterLoad'
  BY <1>1, LoadFrame
<1>4. KeepsHistory
  BY <1>1 DEF KeepsHistory, Filled
<1>5. SUFFICES /\ OneWriter' /\ StubsFresh' /\ ClockOrder'
               /\ \A f \in facts' : \/ f \in facts \/ f[1] \notin Settled'
                                    \/ \E x \in Filled : x[1] = f[1] /\ dim[x].key = f[2]
  BY <1>1, <1>2, <1>3, <1>4, HistoryFrame
<1>6. ASSUME NEW B \in (SUBSET Members) \ {{}}, LookupHit(B)
      PROVE  /\ OneWriter' /\ StubsFresh' /\ ClockOrder'
             /\ \A f \in facts' : \/ f \in facts \/ f[1] \notin Settled'
                                  \/ \E x \in Filled : x[1] = f[1] /\ dim[x].key = f[2]
  <2>1. /\ fpc' = "idle" /\ now' = now /\ facts' = facts \cup Resolved(B)
        /\ \A m \in B : HasOpen(m)
    BY <1>6 DEF LookupHit, FactStep
  <2>2. OneWriter' /\ StubsFresh' /\ ClockOrder'
    BY <1>1, <1>2, <2>1 DEF OneWriter, StubsFresh, ClockOrder
  <2> QED BY <1>2, <2>1, <2>2, ResolvedRows
<1>7. ASSUME NEW B \in (SUBSET Members) \ {{}}, LookupMiss(B)
      PROVE  OneWriter' /\ StubsFresh' /\ ClockOrder' /\ facts' = facts
  <2>1. /\ fpc' = "stub" /\ now' = now /\ facts' = facts /\ batch' = B
        /\ missing' = {m \in B : ~HasOpen(m)}
        /\ overlapped' = IF pc = "idle" THEN overlapped ELSE overlapped \cup B
    BY <1>7 DEF LookupMiss, FactStep
  <2>2. OneWriter'
    BY <1>1, <2>1 DEF OneWriter, Settled
  <2>3. StubsFresh' /\ ClockOrder'
    BY <1>1, <1>2, <2>1 DEF StubsFresh, ClockOrder
  <2> QED BY <2>1, <2>2, <2>3
<1>8. CASE ReadStubKey
  <2>1. /\ fpc = "stub" /\ fpc' = "insert" /\ now' >= now /\ stubTime' = now'
        /\ stubKey' = NextSurrogateKey
        /\ UNCHANGED <<batch, missing, facts, overlapped>>
    BY <1>8 DEF ReadStubKey, FactStep, ReadClock
  <2>2. now \in Nat /\ now' \in Nat /\ runTime \in Nat /\ \A x \in Filled : x[2] \in Nat
    BY SlotsFinite DEF TypeOK, Times, Filled
  <2>3. \A x \in SettledRows' : dim'[x].key < stubKey'
    BY <1>1, <1>2, <2>1, NextKeyFresh DEF KeysOnDisk, SettledRows
  <2>4. OneWriter'
    BY <1>1, <2>1 DEF OneWriter, Settled
  <2>5. ClockOrder'
    BY <1>1, <1>2, <2>1, <2>2 DEF ClockOrder
  <2>6. runTime' <= stubTime'
    BY <1>1, <2>1, <2>2 DEF ClockOrder
  <2>7. StubsFresh'
    BY <1>2, <2>1, <2>3, <2>6 DEF StubsFresh, Settled
  <2> QED BY <2>1, <2>4, <2>5, <2>7
<1>9. CASE Resolve
  <2>1. /\ fpc = "resolve" /\ fpc' = "idle" /\ now' = now
        /\ facts' = facts \cup Resolved(batch) /\ batch \subseteq Members
    BY <1>9 DEF Resolve, FactStep, TypeOK
  <2>2. \A m \in batch \cap Settled : HasOpen(m)
    BY <2>1 DEF StubsFresh
  <2>3. OneWriter' /\ StubsFresh' /\ ClockOrder'
    BY <1>1, <1>2, <2>1 DEF OneWriter, StubsFresh, ClockOrder
  <2> QED BY <1>2, <2>1, <2>2, <2>3, ResolvedRows
<1>10. CASE FactLoadFails
  <2>1. fpc' = "idle" /\ now' = now /\ facts' = facts
    BY <1>10 DEF FactLoadFails
  <2> QED BY <1>1, <1>2, <2>1 DEF OneWriter, StubsFresh, ClockOrder
<1> QED BY <1>6, <1>7, <1>8, <1>9, <1>10

LEMMA ScdStep ==
    TypeOK /\ ScdInv /\ [Next]_vars => TypeOK' /\ ScdInv' /\ KeepsHistory
<1> SUFFICES ASSUME TypeOK, ScdInv, [Next]_vars PROVE TypeOK' /\ ScdInv' /\ KeepsHistory
  OBVIOUS
<1>1. TypeOK' /\ KeysBounded'
  BY TypeStep DEF ScdInv
<1>2. ASSUME UNCHANGED <<dim, now, load, factLoad, facts, overlapped>>
      PROVE  ScdInv' /\ KeepsHistory
  <2>1. /\ fpc' = fpc /\ batch' = batch /\ missing' = missing /\ pc' = pc
        /\ stubTime' = stubTime /\ stubKey' = stubKey /\ runTime' = runTime
    BY <1>2 DEF load, factLoad
  <2>2. Filled' = Filled /\ Settled' = Settled /\ SettledRows' = SettledRows
        /\ \A m : HasOpen(m)' <=> HasOpen(m)
    BY <1>2 DEF Filled, Settled, SettledRows, HasOpen, IsOpen
  <2>3. VersionsOrdered' /\ KeysDistinct' /\ FactsHaveRows'
    BY <1>2, <2>2, HistoryFrame DEF ScdInv
  <2>4. LoadFresh' /\ LoadDone' /\ EnrichedAfterLoad'
    BY <1>2, LoadFrame DEF ScdInv
  <2>5. OneWriter' /\ StubsFresh' /\ ClockOrder'
    BY <1>2, <2>1, <2>2 DEF OneWriter, StubsFresh, ClockOrder, ScdInv
  <2>6. KeepsHistory
    BY <1>2 DEF KeepsHistory, Filled
  <2> QED BY <1>1, <2>3, <2>4, <2>5, <2>6 DEF ScdInv
<1>3. CASE Merge
  BY <1>1, <1>2, <1>3 DEF Merge
<1>4. CASE NightlyLoad
  BY <1>1, <1>4, ScdRead, ScdWriteNew, ScdWriteType1, ScdWriteClosed, ScdWriteOpened
     DEF NightlyLoad
<1>5. CASE FactLoad
  BY <1>1, <1>5, ScdLookup, ScdInsertStubs DEF FactLoad
<1>6. CASE UNCHANGED vars
  BY <1>1, <1>2, <1>6 DEF vars, table
<1> QED BY <1>1, <1>3, <1>4, <1>5, <1>6 DEF Next

-----------------------------------------------------------------------------
(* Theorems.                                                               *)

\* What each writer relies on at the statement it is at is so, whatever the
\* other one did since it read the table.
THEOREM ScdInvariant == Spec => []ScdInv
<1>1. Init => TypeOK /\ ScdInv
  BY TypeInit, ScdInit
<1>2. TypeOK /\ ScdInv /\ [Next]_vars => TypeOK' /\ ScdInv'
  BY ScdStep
<1> QED BY <1>1, <1>2, PTL DEF Spec

\* When a load ends, every staged member has an open row with the attributes of
\* the source, after whatever stubs, crashes and retries (_write_type2_dimension).
THEOREM Enriches == Spec => []EnrichedAfterLoad
<1>1. ScdInv => EnrichedAfterLoad
  BY DEF ScdInv
<1> QED BY <1>1, ScdInvariant, PTL

\* No instant, past or present, is in two versions of a member that only one
\* writer has had in hand at a time, although closing a version and opening the
\* next are separate inserts.
THEOREM OneVersionInForce == Spec => []VersionsDisjoint
<1>1. TypeOK /\ ScdInv => VersionsDisjoint
  <2> SUFFICES ASSUME TypeOK, ScdInv,
                      NEW m \in Settled, NEW t \in Times, NEW r \in Times, NEW s \in Times,
                      InForce(<<m, r>>, t), InForce(<<m, s>>, t)
               PROVE  r = s
    BY DEF VersionsDisjoint
  <2>1. <<m, r>> \in SettledRows /\ <<m, s>> \in SettledRows
    BY DEF InForce, Settled, SettledRows, Filled, Slots
  <2>2. /\ r < s => dim[<<m, r>>].end <= s
        /\ s < r => dim[<<m, s>>].end <= r
    BY <2>1 DEF ScdInv, VersionsOrdered, SettledRows
  <2>3. r <= t /\ s <= t /\ t < dim[<<m, r>>].end /\ t < dim[<<m, s>>].end
    BY DEF InForce
  <2>4. /\ r \in Nat /\ s \in Nat /\ t \in Nat
        /\ dim[<<m, r>>].end \in Nat /\ dim[<<m, s>>].end \in Nat
    BY <2>1, RowTypes DEF Times, SettledRows
  <2> QED BY <2>2, <2>3, <2>4
<1> QED BY <1>1, TypeCorrect, ScdInvariant, PTL

\* max + 1 of a table both writers insert into never gives one surrogate key to
\* two rows of such members, versions numbered together included
\* (next_surrogate_key, assign_surrogate_keys).
THEOREM KeysAreDistinct == Spec => []KeysDistinct
<1>1. ScdInv => KeysDistinct
  BY DEF ScdInv
<1> QED BY <1>1, ScdInvariant, PTL

\* The key a fact was written with denotes, ever after, a version of the fact's
\* own member and of no other settled one (_resolve_with_inferred).
THEOREM FactsKeepTheirMember == Spec => []FactKeysResolve
<1>1. ScdInv => FactKeysResolve
  BY DEF ScdInv, FactsHaveRows, KeysDistinct, FactKeysResolve
<1> QED BY <1>1, ScdInvariant, PTL

\* No step of either writer changes the key or the versioned attribute of a
\* stored row, or anything of a closed one: a load only ever closes, overwrites
\* type 1 attributes of open rows, and fills free slots.
THEOREM HistoryIsKept == Spec => HistoryKept
<1>1. TypeOK /\ ScdInv /\ [Next]_vars =>
        [\A x \in Filled : x[1] \notin overlapped' =>
            /\ dim'[x] # None
            /\ dim'[x].key = dim[x].key /\ dim'[x].t2 = dim[x].t2
            /\ dim[x].end # Open => dim'[x] = dim[x]]_vars
  BY ScdStep DEF KeepsHistory
<1> QED BY <1>1, TypeCorrect, ScdInvariant, PTL DEF Spec, HistoryKept
=============================================================================
